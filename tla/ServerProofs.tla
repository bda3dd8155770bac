------------------------------ MODULE ServerProofs ------------------------------
(***************************************************************************)
(* The server of the testbed: its write endpoints (WebServer) and the       *)
(* reservations that let a client in (Reservations).  The two share no      *)
(* variable.                                                               *)
(*                                                                         *)
(* Whatever the clients of the streams do, a handler that holds the lock    *)
(* works with its own settings and reports its own flash, and leaves the    *)
(* server's settings behind.  For every set of times and zones, a slot is    *)
(* given once, and the dashboard shows and watches the token it holds.       *)
(***************************************************************************)
EXTENDS WebServer, Reservations, TLAPS, SequenceTheorems

Active(c) == phase[c] \in {"command", "start", "transfer"}

\* The lock is held by the one handler that works.
LockHeld == \A c \in Clients : Active(c) <=> holder = c

\* What each variable a handler touches holds; the queue does not matter.
Typed ==
  /\ phase \in [Clients -> Phases]
  /\ request \in [Clients -> Request]
  /\ gone \in [Clients -> BOOLEAN]
  /\ holder \in Clients \cup {None}
  /\ saved \in [Clients -> Overrides \cup {Default, None}]
  /\ settings \in Overrides \cup {Default}
  /\ flashOf \in [Clients -> Nat] /\ flashes \in Nat

\* Settings differ from the server's own only under a stream that will restore them.
SettingsKept ==
  /\ \A c \in Clients : phase[c] = "command" => ~Streams(c) /\ settings = Default
  /\ \A c \in Clients : phase[c] \in {"start", "transfer"} =>
       /\ ~Streams(c) => request[c].override = None
       /\ Streams(c) => saved[c] = Default

HandlerInv ==
  /\ Typed /\ LockHeld /\ SettingsKept
  /\ ReportsOwnFlash /\ OverrideInForce /\ SettingsRestored

-------------------------------------------------------------------------------
\* Initially nobody works and the settings are the server's.
LEMMA HandlerInit == Init => HandlerInv
  <1> USE ValueAssumption
  <1>1. NoRequest \in Request
    BY DEF NoRequest, Request
  <1> QED
    BY <1>1 DEF Init, HandlerInv, Typed, LockHeld, SettingsKept, Active, Phases,
                ReportsOwnFlash, OverrideInForce, SettingsRestored

\* A handler that ends leaves the lock free and the server's settings in force.
LEMMA FinishKeeps ==
  ASSUME HandlerInv, NEW c \in Clients, Active(c), NEW b \in BOOLEAN, Finish(c, b),
         UNCHANGED <<flashes, chunksOf, tableOf>>
  PROVE  HandlerInv'
  <1> USE ValueAssumption
  <1>1. NoRequest \in Request
    BY DEF NoRequest, Request
  <1>2. holder = c /\ holder' = None
    BY DEF HandlerInv, LockHeld, Active, Finish, Unlock
  <1>3. settings' = Default
    BY DEF HandlerInv, SettingsKept, OverrideInForce, Active, Finish, Restored, Typed
  <1>4. \A d \in Clients : phase'[d] \in {"idle", "waiting"}
    BY <1>2 DEF HandlerInv, Typed, LockHeld, Active, Finish, Phases
  <1>5. Typed'
    BY <1>1, <1>2, <1>3 DEF HandlerInv, Typed, Finish, Phases
  <1>6. LockHeld' /\ SettingsKept' /\ ReportsOwnFlash' /\ OverrideInForce'
    BY <1>2, <1>4 DEF LockHeld, Active, SettingsKept, ReportsOwnFlash, OverrideInForce
  <1> QED
    BY <1>3, <1>5, <1>6 DEF HandlerInv, SettingsRestored

\* A step that touches none of the variables of the handlers.
LEMMA HandlerStutter ==
  ASSUME HandlerInv,
         UNCHANGED <<phase, request, gone, holder, settings, saved, flashes, flashOf,
                     chunksOf, tableOf>>
  PROVE  HandlerInv'
  BY DEF HandlerInv, Typed, LockHeld, SettingsKept, Active, Streams, Phases,
         ReportsOwnFlash, OverrideInForce, SettingsRestored

\* Every step of every handler keeps the invariant.
LEMMA HandlerStep == HandlerInv /\ [Next]_vars => HandlerInv'
  <1> SUFFICES ASSUME HandlerInv, [Next]_vars PROVE HandlerInv'
    OBVIOUS
  <1> USE ValueAssumption
  <1>0. NoRequest \in Request
    BY DEF NoRequest, Request
  <1>1. ASSUME NEW c \in Clients, NEW r \in Request, Post(c, r) PROVE HandlerInv'
    <2>1. ~Active(c) /\ holder # c
      BY <1>1 DEF Post, HandlerInv, LockHeld, Active
    <2>2. \A d \in Clients : d # c =>
            phase'[d] = phase[d] /\ request'[d] = request[d] /\ flashOf'[d] = flashOf[d]
      BY <1>1 DEF Post, HandlerInv, Typed
    <2>3. phase'[c] = "waiting"
      BY <1>1 DEF Post, HandlerInv, Typed
    <2>4. Typed'
      BY <1>1 DEF Post, HandlerInv, Typed, Phases
    <2> QED
      BY <1>1, <2>1, <2>2, <2>3, <2>4
      DEF Post, HandlerInv, LockHeld, SettingsKept, Active, Streams,
          ReportsOwnFlash, OverrideInForce, SettingsRestored
  <1>2. ASSUME NEW c \in Clients, StartCommand(c) PROVE HandlerInv'
    <2>1. \A d \in Clients : ~Active(d)
      BY <1>2 DEF StartCommand, Acquire, LockFree, HandlerInv, LockHeld
    <2>2. settings = Default
      BY <1>2 DEF StartCommand, Acquire, LockFree, HandlerInv, SettingsRestored
    <2>3. \A d \in Clients : phase'[d] = IF d = c THEN "command" ELSE phase[d]
      BY <1>2 DEF StartCommand, HandlerInv, Typed
    <2> QED
      BY <1>2, <2>1, <2>2, <2>3
      DEF StartCommand, Acquire, HandlerInv, Typed, Phases, LockHeld, SettingsKept, Active,
          Streams, ReportsOwnFlash, OverrideInForce, SettingsRestored
  <1>3. ASSUME NEW c \in Clients, StartFlash(c) PROVE HandlerInv'
    <2>1. \A d \in Clients : ~Active(d)
      BY <1>3 DEF StartFlash, Acquire, LockFree, HandlerInv, LockHeld
    <2>2. settings = Default
      BY <1>3 DEF StartFlash, Acquire, LockFree, HandlerInv, SettingsRestored
    <2>3. \A d \in Clients : phase'[d] = IF d = c THEN "start" ELSE phase[d]
      BY <1>3 DEF StartFlash, HandlerInv, Typed
    <2>4. request[c] \in Request /\ (~Streams(c) => request[c].override = None)
      BY <1>3 DEF HandlerInv, Typed, Request, Streams
    <2>5. settings' = IF request[c].override = None THEN Default ELSE request[c].override
      BY <1>3, <2>2 DEF StartFlash, Effective
    <2>6. settings' \in Overrides \cup {Default}
      BY <2>4, <2>5 DEF Request
    <2>7. Typed'
      BY <1>3, <2>6 DEF StartFlash, Acquire, HandlerInv, Typed, Phases
    <2>8. LockHeld' /\ SettingsRestored'
      BY <1>3, <2>1, <2>3 DEF StartFlash, Acquire, LockHeld, Active, SettingsRestored
    <2>9. SettingsKept' /\ OverrideInForce' /\ ReportsOwnFlash'
      BY <1>3, <2>1, <2>2, <2>3, <2>4, <2>5
      DEF StartFlash, Acquire, HandlerInv, Typed, SettingsKept, OverrideInForce,
          ReportsOwnFlash, Active, Streams
    <2> QED
      BY <2>7, <2>8, <2>9 DEF HandlerInv
  <1>4. ASSUME NEW c \in Clients, StartTransfer(c) PROVE HandlerInv'
    <2>1. Active(c) /\ \A d \in Clients : d # c => ~Active(d)
      BY <1>4 DEF StartTransfer, HandlerInv, LockHeld, Active
    <2>2. \A d \in Clients : phase'[d] = IF d = c THEN "transfer" ELSE phase[d]
      BY <1>4 DEF StartTransfer, HandlerInv, Typed
    <2> QED
      BY <1>4, <2>1, <2>2
      DEF StartTransfer, HandlerInv, Typed, Phases, LockHeld, SettingsKept, Active, Streams,
          ReportsOwnFlash, OverrideInForce, SettingsRestored
  <1>5. ASSUME NEW c \in Clients,
               CommandReturns(c) \/ TransferReturns(c) \/ LeaveTransfer(c)
        PROVE  HandlerInv'
    BY <1>5, FinishKeeps DEF CommandReturns, TransferReturns, LeaveTransfer, Active
  <1>6. ASSUME NEW c \in Clients, FlashFails(c) PROVE HandlerInv'
    BY <1>6, FinishKeeps DEF FlashFails, Active
  <1>7. ASSUME NEW c \in Clients, LeaveQueue(c) PROVE HandlerInv'
    <2>1. ~Active(c) /\ holder # c
      BY <1>7 DEF LeaveQueue, HandlerInv, LockHeld, Active
    <2>2. \A d \in Clients : d # c =>
            phase'[d] = phase[d] /\ request'[d] = request[d] /\ flashOf'[d] = flashOf[d]
      BY <1>7 DEF LeaveQueue, HandlerInv, Typed
    <2>3. phase'[c] = "idle"
      BY <1>7 DEF LeaveQueue, HandlerInv, Typed
    <2>4. Typed'
      BY <1>0, <1>7 DEF LeaveQueue, HandlerInv, Typed, Phases
    <2> QED
      BY <1>7, <2>1, <2>2, <2>3, <2>4
      DEF LeaveQueue, HandlerInv, LockHeld, SettingsKept, Active, Streams,
          ReportsOwnFlash, OverrideInForce, SettingsRestored
  <1>8. ASSUME NEW c \in Clients, LeaveStart(c) PROVE HandlerInv'
    BY <1>8 DEF LeaveStart, HandlerInv, Typed, LockHeld, SettingsKept, Active, Streams,
                ReportsOwnFlash, OverrideInForce, SettingsRestored
  <1>9. ASSUME NEW f \in transfers, AbandonedReturns(f) PROVE HandlerInv'
    BY <1>9, HandlerStutter DEF AbandonedReturns
  <1>10. CASE UNCHANGED vars
    BY <1>10, HandlerStutter DEF vars
  <1> QED
    BY <1>1, <1>2, <1>3, <1>4, <1>5, <1>6, <1>7, <1>8, <1>9, <1>10
    DEF Next, Enter, Return, Leave

\* What a handler tells its client is about its own flash.
THEOREM HandlersReportTheirFlash == Spec => []ReportsOwnFlash
  <1>1. HandlerInv => ReportsOwnFlash
    BY DEF HandlerInv
  <1> QED
    BY <1>1, HandlerInit, HandlerStep, PTL DEF Spec

\* A flash that is waited for runs with the settings its request asked for.
THEOREM OverridesNeverMix == Spec => []OverrideInForce
  <1>1. HandlerInv => OverrideInForce
    BY DEF HandlerInv
  <1> QED
    BY <1>1, HandlerInit, HandlerStep, PTL DEF Spec

\* Whenever the lock is free the server's own settings are back.
THEOREM OverridesNeverLeak == Spec => []SettingsRestored
  <1>1. HandlerInv => SettingsRestored
    BY DEF HandlerInv
  <1> QED
    BY <1>1, HandlerInit, HandlerStep, PTL DEF Spec

-------------------------------------------------------------------------------
(* The queue of the lock *)

InQueue(q, c) == \E i \in DOMAIN q : q[i] = c

\* Who waits is in the queue, once, and nobody else is.
EachWaitsOnce ==
  /\ IsInjective(waiters)
  /\ \A c \in Clients : phase[c] = "waiting" <=> InQueue(waiters, c)

\* Fact about a queue: who joins it at the end is in it once.
LEMMA JoinsQueue ==
  ASSUME NEW S, NEW q \in Seq(S), IsInjective(q), NEW c \in S, ~InQueue(q, c)
  PROVE  /\ Append(q, c) \in Seq(S) /\ IsInjective(Append(q, c))
         /\ \A d : InQueue(Append(q, c), d) <=> d = c \/ InQueue(q, d)
<1> DEFINE r == Append(q, c)
<1>1. /\ r \in Seq(S) /\ DOMAIN r = 1 .. Len(q) + 1 /\ r[Len(q) + 1] = c
      /\ \A i \in 1 .. Len(q) : r[i] = q[i]
  BY AppendProperties
<1>2. DOMAIN q = 1 .. Len(q) /\ Len(q) \in Nat
  OBVIOUS
<1> HIDE DEF r
<1>3. IsInjective(r)
  BY <1>1, <1>2 DEF IsInjective, InQueue
<1>4. ASSUME NEW d PROVE InQueue(r, d) <=> d = c \/ InQueue(q, d)
  BY <1>1, <1>2 DEF InQueue
<1> QED
  BY <1>1, <1>3, <1>4 DEF r

\* Fact about a queue: without place i it holds the others, in their order.
LEMMA LeavesQueue ==
  ASSUME NEW S, NEW q \in Seq(S), IsInjective(q), NEW i \in DOMAIN q
  PROVE  /\ RemoveAt(q, i) \in Seq(S) /\ IsInjective(RemoveAt(q, i))
         /\ \A d : InQueue(RemoveAt(q, i), d) <=> d # q[i] /\ InQueue(q, d)
<1> DEFINE a == SubSeq(q, 1, i - 1)
           b == SubSeq(q, i + 1, Len(q))
           r == RemoveAt(q, i)
<1>1. DOMAIN q = 1 .. Len(q) /\ Len(q) \in Nat /\ i \in 1 .. Len(q)
  OBVIOUS
<1>2. /\ a \in Seq(S) /\ Len(a) = i - 1 /\ \A k \in 1 .. i - 1 : a[k] = q[k]
  BY <1>1, SubSeqProperties
<1>3. /\ b \in Seq(S) /\ Len(b) = Len(q) - i
      /\ \A k \in 1 .. Len(q) - i : b[k] = q[k + i]
  BY <1>1, SubSeqProperties
<1>4. /\ r \in Seq(S) /\ DOMAIN r = 1 .. Len(q) - 1
      /\ \A k \in 1 .. Len(q) - 1 : r[k] = q[IF k < i THEN k ELSE k + 1]
  <2>1. r = a \o b
    BY DEF RemoveAt
  <2> HIDE DEF a, b, r
  <2>2. /\ a \o b \in Seq(S) /\ Len(a \o b) = Len(a) + Len(b)
        /\ \A k \in 1 .. Len(a) + Len(b) :
             (a \o b)[k] = IF k <= Len(a) THEN a[k] ELSE b[k - Len(a)]
    BY <1>2, <1>3, ConcatProperties
  <2>3. Len(a) + Len(b) = Len(q) - 1
    BY <1>1, <1>2, <1>3
  <2>4. ASSUME NEW k \in 1 .. Len(q) - 1 PROVE r[k] = q[IF k < i THEN k ELSE k + 1]
    <3>1. CASE k < i
      BY <1>1, <1>2, <2>1, <2>2, <2>3, <3>1
    <3>2. CASE ~(k < i)
      <4>1. k - (i - 1) \in 1 .. Len(q) - i /\ (k - (i - 1)) + i = k + 1
        BY <1>1, <3>2
      <4>2. b[k - (i - 1)] = q[k + 1]
        BY <1>3, <4>1
      <4> QED
        BY <1>1, <1>2, <2>1, <2>2, <2>3, <3>2, <4>2
    <3> QED
      BY <3>1, <3>2
  <2>5. r \in Seq(S) /\ Len(r) = Len(q) - 1
    BY <2>1, <2>2, <2>3
  <2>6. DOMAIN r = 1 .. Len(q) - 1
    BY <2>5
  <2> QED
    BY <2>4, <2>5, <2>6
<1> HIDE DEF r
<1>5. IsInjective(r)
  <2> SUFFICES ASSUME NEW j \in 1 .. Len(q) - 1, NEW k \in 1 .. Len(q) - 1, r[j] = r[k]
               PROVE  j = k
    BY <1>4 DEF IsInjective
  <2>1. q[IF j < i THEN j ELSE j + 1] = q[IF k < i THEN k ELSE k + 1]
    BY <1>4
  <2>2. (IF j < i THEN j ELSE j + 1) = (IF k < i THEN k ELSE k + 1)
    <3> DEFINE x == IF j < i THEN j ELSE j + 1
               y == IF k < i THEN k ELSE k + 1
    <3>1. x \in DOMAIN q /\ y \in DOMAIN q
      BY <1>1
    <3>2. q[x] = q[y]
      BY <2>1
    <3> HIDE DEF x, y
    <3>3. x = y
      BY <3>1, <3>2 DEF IsInjective
    <3> QED
      BY <3>3 DEF x, y
  <2> QED
    BY <1>1, <2>2
<1>6. ASSUME NEW d PROVE InQueue(r, d) <=> d # q[i] /\ InQueue(q, d)
  <2>1. ASSUME InQueue(r, d) PROVE d # q[i] /\ InQueue(q, d)
    <3>1. PICK k \in 1 .. Len(q) - 1 : r[k] = d
      BY <1>4, <2>1 DEF InQueue
    <3> DEFINE j == IF k < i THEN k ELSE k + 1
    <3>2. j \in 1 .. Len(q) /\ j # i /\ q[j] = d
      BY <1>1, <1>4, <3>1
    <3> HIDE DEF j
    <3> QED
      BY <1>1, <3>2 DEF InQueue, IsInjective
  <2>2. ASSUME d # q[i], InQueue(q, d) PROVE InQueue(r, d)
    <3>1. PICK k \in 1 .. Len(q) : q[k] = d /\ k # i
      BY <1>1, <2>2 DEF InQueue
    <3>2. CASE k < i
      BY <1>1, <1>4, <3>1, <3>2 DEF InQueue
    <3>3. CASE k > i
      <4>1. k - 1 \in 1 .. Len(q) - 1 /\ ~(k - 1 < i) /\ (k - 1) + 1 = k
        BY <1>1, <3>1, <3>3
      <4>2. r[k - 1] = d
        BY <1>4, <3>1, <4>1
      <4> QED
        BY <1>4, <4>1, <4>2 DEF InQueue
    <3> QED
      BY <1>1, <3>1, <3>2, <3>3
  <2> QED
    BY <2>1, <2>2
<1> QED
  BY <1>4, <1>5, <1>6 DEF r

\* Fact about a queue: its first leaves like any other.
LEMMA HeadLeavesQueue ==
  ASSUME NEW S, NEW q \in Seq(S), IsInjective(q), q # <<>>
  PROVE  /\ 1 \in DOMAIN q /\ Head(q) = q[1] /\ Tail(q) \in Seq(S)
         /\ IsInjective(Tail(q))
         /\ \A d : InQueue(Tail(q), d) <=> d # Head(q) /\ InQueue(q, d)
<1>1. 1 \in DOMAIN q /\ Head(q) = q[1] /\ Len(q) \in Nat /\ DOMAIN q = 1 .. Len(q)
  OBVIOUS
<1> DEFINE t == Tail(q)
<1>2. /\ t \in Seq(S) /\ DOMAIN t = 1 .. Len(q) - 1
      /\ \A k \in 1 .. Len(q) - 1 : t[k] = q[k + 1]
  BY <1>1, HeadTailProperties
<1> HIDE DEF t
<1>3. IsInjective(t)
  BY <1>1, <1>2 DEF IsInjective
<1>4. ASSUME NEW d PROVE InQueue(t, d) <=> d # q[1] /\ InQueue(q, d)
  <2>1. InQueue(t, d) => d # q[1] /\ InQueue(q, d)
    BY <1>1, <1>2 DEF InQueue, IsInjective
  <2>2. ASSUME d # q[1], InQueue(q, d) PROVE InQueue(t, d)
    <3>1. PICK k \in 1 .. Len(q) : q[k] = d /\ k # 1
      BY <1>1, <2>2 DEF InQueue
    <3>2. k - 1 \in 1 .. Len(q) - 1 /\ t[k - 1] = q[(k - 1) + 1] /\ (k - 1) + 1 = k
      BY <1>1, <1>2, <3>1
    <3> QED
      BY <1>2, <3>1, <3>2 DEF InQueue
  <2> QED
    BY <2>1, <2>2
<1> QED
  BY <1>1, <1>2, <1>3, <1>4 DEF t

-------------------------------------------------------------------------------
QueueInv ==
  phase \in [Clients -> Phases] /\ waiters \in Seq(Clients) /\ EachWaitsOnce

\* A handler that neither joins nor leaves the queue.
LEMMA PhaseKeepsQueue ==
  ASSUME QueueInv, NEW c \in Clients, phase[c] # "waiting",
         NEW p \in Phases \ {"waiting"}, phase' = [phase EXCEPT ![c] = p],
         waiters' = waiters
  PROVE  QueueInv'
BY DEF QueueInv, EachWaitsOnce

\* A handler that leaves place i of the queue.
LEMMA OutOfQueue ==
  ASSUME QueueInv, NEW i \in DOMAIN waiters, NEW c \in Clients, waiters[i] = c,
         NEW q \in Seq(Clients), IsInjective(q),
         \A d : InQueue(q, d) <=> d # waiters[i] /\ InQueue(waiters, d),
         NEW p \in Phases \ {"waiting"}, phase' = [phase EXCEPT ![c] = p], waiters' = q
  PROVE  QueueInv'
<1>1. phase' \in [Clients -> Phases] /\ \A d \in Clients : phase'[d] = IF d = c THEN p ELSE phase[d]
  BY DEF QueueInv
<1>2. \A d \in Clients : phase'[d] = "waiting" <=> InQueue(q, d)
  BY <1>1 DEF QueueInv, EachWaitsOnce
<1> QED
  BY <1>1, <1>2 DEF QueueInv, EachWaitsOnce

\* Every step keeps the queue.
LEMMA QueueStep == QueueInv /\ [Next]_vars => QueueInv'
<1> SUFFICES ASSUME QueueInv, [Next]_vars PROVE QueueInv'
  OBVIOUS
<1>1. waiters \in Seq(Clients) /\ IsInjective(waiters) /\ phase \in [Clients -> Phases]
  BY DEF QueueInv, EachWaitsOnce
<1>2. ASSUME NEW c \in Clients, NEW r \in Request, Post(c, r) PROVE QueueInv'
  <2>1. ~InQueue(waiters, c) /\ waiters' = Append(waiters, c)
    BY <1>2 DEF Post, QueueInv, EachWaitsOnce
  <2>2. /\ waiters' \in Seq(Clients) /\ IsInjective(waiters')
        /\ \A d : InQueue(waiters', d) <=> d = c \/ InQueue(waiters, d)
    BY <1>1, <2>1, JoinsQueue
  <2>3. phase' \in [Clients -> Phases]
        /\ \A d \in Clients : phase'[d] = IF d = c THEN "waiting" ELSE phase[d]
    BY <1>1, <1>2 DEF Post, Phases
  <2>4. \A d \in Clients : phase'[d] = "waiting" <=> InQueue(waiters', d)
    BY <2>2, <2>3 DEF QueueInv, EachWaitsOnce
  <2>5. (\A d \in Clients : phase[d] = "waiting" <=> InQueue(waiters, d))'
    BY <2>4 DEF InQueue
  <2> QED
    BY <2>2, <2>3, <2>5 DEF QueueInv, EachWaitsOnce, IsInjective
<1>3. ASSUME NEW c \in Clients, StartCommand(c) \/ StartFlash(c) PROVE QueueInv'
  <2>1. waiters # <<>> /\ Head(waiters) = c /\ waiters' = Tail(waiters)
    BY <1>3 DEF StartCommand, StartFlash, Acquire
  <2>2. PICK p \in Phases \ {"waiting"} : phase' = [phase EXCEPT ![c] = p]
    BY <1>3 DEF StartCommand, StartFlash, Phases
  <2>3. /\ 1 \in DOMAIN waiters /\ waiters[1] = c /\ Tail(waiters) \in Seq(Clients)
        /\ IsInjective(Tail(waiters))
        /\ \A d : InQueue(Tail(waiters), d) <=> d # waiters[1] /\ InQueue(waiters, d)
    BY <1>1, <2>1, HeadLeavesQueue
  <2> QED
    BY <2>1, <2>2, <2>3, OutOfQueue
<1>4. ASSUME NEW c \in Clients, LeaveQueue(c) PROVE QueueInv'
  <2>1. PICK i \in DOMAIN waiters : waiters[i] = c /\ waiters' = RemoveAt(waiters, i)
    BY <1>4 DEF LeaveQueue, Left
  <2>2. "idle" \in Phases \ {"waiting"} /\ phase' = [phase EXCEPT ![c] = "idle"]
    BY <1>4 DEF LeaveQueue, Phases
  <2>3. /\ RemoveAt(waiters, i) \in Seq(Clients) /\ IsInjective(RemoveAt(waiters, i))
        /\ \A d : InQueue(RemoveAt(waiters, i), d) <=> d # waiters[i] /\ InQueue(waiters, d)
    BY <1>1, LeavesQueue
  <2> QED
    BY <2>1, <2>2, <2>3, OutOfQueue
<1>5. ASSUME NEW c \in Clients, StartTransfer(c) PROVE QueueInv'
  BY <1>5, PhaseKeepsQueue DEF StartTransfer, Phases
<1>6. ASSUME NEW c \in Clients,
             CommandReturns(c) \/ FlashFails(c) \/ TransferReturns(c) \/ LeaveTransfer(c)
      PROVE  QueueInv'
  <2>1. /\ phase[c] # "waiting" /\ "idle" \in Phases \ {"waiting"}
        /\ phase' = [phase EXCEPT ![c] = "idle"] /\ waiters' = waiters
    BY <1>6 DEF CommandReturns, FlashFails, TransferReturns, LeaveTransfer, Finish, Phases
  <2> QED
    BY <2>1, PhaseKeepsQueue
<1>7. CASE UNCHANGED <<phase, waiters>>
  BY <1>7 DEF QueueInv, EachWaitsOnce, InQueue, IsInjective
<1> QED
  BY <1>2, <1>3, <1>4, <1>5, <1>6, <1>7
     DEF Next, Enter, Return, Leave, LeaveStart, AbandonedReturns, vars

-------------------------------------------------------------------------------
(* The numbers of the flashes *)

\* A number is that of one request, and its transfer runs on a thread exactly as long
\* as the handler waits for it, or after the handler is gone.
OwnNumbers ==
  /\ \A c \in Clients : phase[c] \in {"start", "transfer"} => request[c].kind # "command"
  /\ \A c \in Clients : phase[c] # "idle" /\ request[c].kind # "command" => flashOf[c] # 0
  /\ \A c, d \in Clients : c # d /\ flashOf[c] # 0 => flashOf[c] # flashOf[d]
  /\ \A c \in Clients : phase[c] = "transfer" <=> flashOf[c] \in transfers

NumberTyped ==
  /\ flashes \in Nat /\ flashes <= MaxFlashes
  /\ flashOf \in [Clients -> Nat] /\ \A c \in Clients : flashOf[c] <= flashes
  /\ chunksOf \in 0 .. flashes /\ tableOf \in 0 .. flashes
  /\ transfers \subseteq 1 .. flashes

NumberInv == NumberTyped /\ OwnNumbers

\* A handler that ends gives its number back; a thread it waited for ends with it.
LEMMA FinishKeepsNumbers ==
  ASSUME Typed, NumberInv, NEW c \in Clients, NEW b \in BOOLEAN, Finish(c, b),
         transfers' = transfers \ {flashOf[c]} \/ transfers' = transfers,
         UNCHANGED <<flashes, chunksOf, tableOf>>
  PROVE  NumberInv'
<1>1. /\ \A d \in Clients : phase'[d] = IF d = c THEN "idle" ELSE phase[d]
      /\ \A d \in Clients : request'[d] = IF d = c THEN NoRequest ELSE request[d]
      /\ \A d \in Clients : flashOf'[d] = IF d = c THEN 0 ELSE flashOf[d]
      /\ flashOf' \in [Clients -> Nat]
  BY DEF Typed, Finish
<1>2. 0 \notin transfers
  BY DEF NumberInv, NumberTyped
<1>3. \A d \in Clients : d # c => (flashOf[d] \in transfers' <=> flashOf[d] \in transfers)
  BY <1>2 DEF NumberInv, OwnNumbers
<1>4. NumberTyped'
  <2>1. transfers' \subseteq transfers /\ flashes \in Nat
    BY DEF NumberInv, NumberTyped
  <2>2. \A d \in Clients : flashOf'[d] <= flashes
    BY <1>1, <2>1 DEF NumberInv, NumberTyped
  <2>3. chunksOf \in 0 .. flashes /\ tableOf \in 0 .. flashes /\ transfers' \subseteq 1 .. flashes
    BY <2>1 DEF NumberInv, NumberTyped
  <2> QED
    BY <1>1, <2>1, <2>2, <2>3 DEF NumberInv, NumberTyped
<1>5. OwnNumbers'
  BY <1>1, <1>2, <1>3 DEF NumberInv, OwnNumbers
<1> QED
  BY <1>4, <1>5 DEF NumberInv

\* Every step keeps the numbers apart.  What Enter takes for granted, that its handler
\* waits, is what the queue says.
LEMMA NumberStep == Typed /\ QueueInv /\ NumberInv /\ [Next]_vars => NumberInv'
<1> SUFFICES ASSUME Typed, QueueInv, NumberInv, [Next]_vars PROVE NumberInv'
  OBVIOUS
<1> USE DEF NumberInv
<1>1. ASSUME NEW c \in Clients, NEW r \in Request, Post(c, r) PROVE NumberInv'
  <2>1. /\ \A d \in Clients : phase'[d] = IF d = c THEN "waiting" ELSE phase[d]
        /\ \A d \in Clients : request'[d] = IF d = c THEN r ELSE request[d]
        /\ UNCHANGED <<chunksOf, tableOf, transfers>>
    BY <1>1 DEF Post, Typed
  <2>2. CASE r.kind = "command"
    <3>1. UNCHANGED <<flashes, flashOf>> /\ phase[c] = "idle"
      BY <1>1, <2>2 DEF Post
    <3> QED
      BY <2>1, <2>2, <3>1 DEF NumberTyped, OwnNumbers
  <2>3. CASE r.kind # "command"
    <3>1. /\ flashes < MaxFlashes /\ flashes' = flashes + 1
          /\ \A d \in Clients : flashOf'[d] = IF d = c THEN flashes + 1 ELSE flashOf[d]
          /\ flashOf' \in [Clients -> Nat] /\ phase[c] = "idle"
      BY <1>1, <2>3 DEF Post, NumberTyped
    <3>2. NumberTyped'
      BY <2>1, <3>1, FlashBound DEF NumberTyped
    <3>3. \A d \in Clients : flashOf[d] # flashes + 1 /\ flashes + 1 # 0
      BY DEF NumberTyped
    <3>4. flashes + 1 \notin transfers
      BY DEF NumberTyped
    <3>5. OwnNumbers'
      BY <2>1, <2>3, <3>1, <3>3, <3>4 DEF OwnNumbers
    <3> QED
      BY <3>2, <3>5
  <2> QED
    BY <2>2, <2>3
<1>2. ASSUME NEW c \in Clients, StartCommand(c) \/ StartFlash(c) PROVE NumberInv'
  <2>1. phase[c] = "waiting"
    <3>1. waiters # <<>> /\ Head(waiters) = c
      BY <1>2 DEF StartCommand, StartFlash, Acquire
    <3>2. 1 \in DOMAIN waiters /\ waiters[1] = c
      BY <3>1 DEF QueueInv
    <3> QED
      BY <3>2 DEF QueueInv, EachWaitsOnce, InQueue
  <2>2. PICK p \in {"command", "start"} :
          /\ \A d \in Clients : phase'[d] = IF d = c THEN p ELSE phase[d]
          /\ p = "start" => request[c].kind # "command"
    BY <1>2 DEF StartCommand, StartFlash, Typed
  <2>3. UNCHANGED <<request, flashes, flashOf, tableOf, transfers>>
    BY <1>2 DEF StartCommand, StartFlash
  <2>4. chunksOf' \in {chunksOf, flashOf[c]}
    BY <1>2 DEF StartCommand, StartFlash
  <2>5. NumberTyped'
    BY <2>3, <2>4 DEF NumberTyped
  <2>6. OwnNumbers'
    BY <2>1, <2>2, <2>3 DEF OwnNumbers
  <2> QED
    BY <2>5, <2>6
<1>3. ASSUME NEW c \in Clients, StartTransfer(c) PROVE NumberInv'
  <2>1. /\ \A d \in Clients : phase'[d] = IF d = c THEN "transfer" ELSE phase[d]
        /\ phase[c] = "start" /\ tableOf' = flashOf[c]
        /\ transfers' = transfers \cup {flashOf[c]}
        /\ UNCHANGED <<request, flashes, flashOf, chunksOf>>
    BY <1>3 DEF StartTransfer, Typed
  <2>2. flashOf[c] # 0 /\ request[c].kind # "command"
    BY <2>1 DEF OwnNumbers
  <2>3. flashOf[c] \in 1 .. flashes
    BY <2>2 DEF NumberTyped
  <2>4. NumberTyped'
    <3>1. UNCHANGED <<flashes, flashOf, chunksOf>>
      BY <2>1
    <3>2. transfers' \subseteq 1 .. flashes
      BY <2>1, <2>3 DEF NumberTyped
    <3>3. tableOf' \in 0 .. flashes
      BY <2>1, <2>3 DEF NumberTyped
    <3> QED
      BY <3>1, <3>2, <3>3 DEF NumberTyped
  <2>5. \A d \in Clients : d # c => (flashOf[d] \in transfers' <=> flashOf[d] \in transfers)
    BY <2>1, <2>2 DEF OwnNumbers
  <2>6. OwnNumbers'
    BY <2>1, <2>2, <2>5 DEF OwnNumbers
  <2> QED
    BY <2>4, <2>6
<1>4. ASSUME NEW c \in Clients,
             CommandReturns(c) \/ FlashFails(c) \/ TransferReturns(c) \/ LeaveTransfer(c)
      PROVE  NumberInv'
  BY <1>4, FinishKeepsNumbers DEF CommandReturns, FlashFails, TransferReturns, LeaveTransfer
<1>5. ASSUME NEW c \in Clients, LeaveQueue(c) PROVE NumberInv'
  <2>1. /\ \A d \in Clients : phase'[d] = IF d = c THEN "idle" ELSE phase[d]
        /\ \A d \in Clients : request'[d] = IF d = c THEN NoRequest ELSE request[d]
        /\ \A d \in Clients : flashOf'[d] = IF d = c THEN 0 ELSE flashOf[d]
        /\ flashOf' \in [Clients -> Nat]
        /\ UNCHANGED <<flashes, chunksOf, tableOf, transfers>>
    BY <1>5 DEF LeaveQueue, Typed
  <2>2. 0 \notin transfers
    BY DEF NumberTyped
  <2>3. NumberTyped'
    BY <2>1 DEF NumberTyped
  <2>4. OwnNumbers'
    BY <2>1, <2>2 DEF OwnNumbers
  <2> QED
    BY <2>3, <2>4
<1>6. ASSUME NEW f \in transfers, AbandonedReturns(f) PROVE NumberInv'
  BY <1>6 DEF AbandonedReturns, NumberTyped, OwnNumbers
<1>7. CASE UNCHANGED <<phase, request, flashes, flashOf, chunksOf, tableOf, transfers>>
  BY <1>7 DEF NumberTyped, OwnNumbers
<1> QED
  BY <1>1, <1>2, <1>3, <1>4, <1>5, <1>6, <1>7 DEF Next, Enter, Return, Leave, LeaveStart, vars

ServerInv == HandlerInv /\ QueueInv /\ NumberInv

\* The handlers, the queue and the numbers together.
THEOREM ServerInvariant == Spec => []ServerInv
<1>1. Init => ServerInv
  <2>1. Init => QueueInv
    BY DEF Init, QueueInv, Phases, EachWaitsOnce, InQueue, IsInjective
  <2>2. Init => NumberInv
    BY FlashBound DEF Init, NumberInv, NumberTyped, OwnNumbers, NoRequest
  <2> QED
    BY <2>1, <2>2, HandlerInit DEF ServerInv
<1>2. ServerInv /\ [Next]_vars => ServerInv'
  BY HandlerStep, QueueStep, NumberStep DEF ServerInv, HandlerInv
<1> QED
  BY <1>1, <1>2, PTL DEF Spec

\* Every variable of the server keeps its type, the queue of the lock and the threads
\* of abandoned streams included.
THEOREM ServerTypeCorrect == Spec => []TypeOK
<1>1. ServerInv => TypeOK
  BY DEF ServerInv, HandlerInv, Typed, QueueInv, NumberInv, NumberTyped, TypeOK
<1> QED
  BY <1>1, ServerInvariant, PTL

\* A handler holds the lock exactly while its call of the controller runs: no way a
\* request ends, a client that disconnects included, keeps it (async with and finally
\* in webserver.py).
THEOREM LockNeverLeaks == Spec => []LockHeld
<1>1. ServerInv => LockHeld
  BY DEF ServerInv, HandlerInv
<1> QED
  BY <1>1, ServerInvariant, PTL

\* A number has one request, and the transfer that is waited for is one that runs.
THEOREM TransfersAreTold == Spec => []OwnNumbers
<1>1. ServerInv => OwnNumbers
  BY DEF ServerInv, NumberInv
<1> QED
  BY <1>1, ServerInvariant, PTL

\* Where a request waits, a call of the controller is running that will give the lock
\* back, or the first of the queue, which is a request that waits, may take it now.
WaitersAdvance ==
  (\E c \in Clients : phase[c] = "waiting") =>
    \/ \E c \in Clients : holder = c /\ Active(c)
    \/ LockFree /\ waiters # <<>> /\ phase[Head(waiters)] = "waiting"

\* No request is lost from the queue, is in it twice, or waits for a lock that nobody
\* will give back: what is safety in "every request is answered".
THEOREM NobodyIsForgotten == Spec => [](EachWaitsOnce /\ WaitersAdvance)
<1>1. ServerInv => EachWaitsOnce
  BY DEF ServerInv, QueueInv
<1>2. ServerInv => WaitersAdvance
  <2> SUFFICES ASSUME ServerInv, NEW c \in Clients, phase[c] = "waiting",
                      ~\E d \in Clients : holder = d /\ Active(d)
               PROVE  LockFree /\ waiters # <<>> /\ phase[Head(waiters)] = "waiting"
    BY DEF WaitersAdvance
  <2>1. LockFree
    BY DEF ServerInv, HandlerInv, Typed, LockHeld, LockFree
  <2>2. InQueue(waiters, c) /\ waiters \in Seq(Clients)
    BY DEF ServerInv, QueueInv, EachWaitsOnce
  <2>3. waiters # <<>> /\ 1 \in DOMAIN waiters /\ Head(waiters) = waiters[1]
        /\ waiters[1] \in Clients
    BY <2>2 DEF InQueue
  <2>4. phase[Head(waiters)] = "waiting"
    BY <2>3 DEF ServerInv, QueueInv, EachWaitsOnce, InQueue
  <2> QED
    BY <2>1, <2>3, <2>4
<1> QED
  BY <1>1, <1>2, ServerInvariant, PTL

-------------------------------------------------------------------------------
(* The reservations *)

\* ReservationTypeOK with the timers, and at most one token.
ReservationTyped ==
  /\ now \in Nat /\ now <= Horizon /\ issues \in 0 .. Issues
  /\ records \subseteq Records /\ replies \subseteq records /\ token \subseteq records
  /\ \A s, t \in token : s = t
  /\ requests \subseteq Starts
  /\ tokenActiveness \in {"NoToken", "NotValidYet", "Active", "Expired"}
  /\ timers \subseteq [at : Int, of : Records, canceled : BOOLEAN]

\* Fact about the times of a reservation.
LEMMA TimesAreNumbers ==
  ASSUME NEW t \in Records
  PROVE  t.nbf \in Nat /\ t.zone \in Int /\ Exp(t) \in Nat
<1>1. t.nbf \in Starts /\ t.zone \in Zones  BY DEF Records
<1>2. t.nbf \in Nat /\ t.zone \in Int  BY <1>1, ReservationsAssumption
<1> QED  BY <1>2, ReservationsAssumption DEF Exp

\* What the trigger keeps: reservations written with one offset are disjoint.
Disjoint ==
  \A r, s \in records : r.zone = s.zone /\ r # s => Exp(r) <= s.nbf \/ Exp(s) <= r.nbf

\* A timer that is not canceled is about the token the page holds.
TimersAreOwn == \A t \in timers : ~t.canceled => token = {t.of}

\* A timer that will look at reservation r again before it is over.
Watching(ts, r) == \E t \in ts : ~t.canceled /\ t.of = r /\ t.at <= Exp(r)

\* A token is shown as expired, or looked at again before it is.
TokenIsWatched ==
  \A r \in token : tokenActiveness = "Expired" \/ Watching(timers, r)

\* Fact about the slots: one that is free in the table is disjoint from all in it.
LEMMA FreeIsDisjoint ==
  ASSUME ReservationTyped, Disjoint, NEW r \in Records, Free(r), records' = records \cup {r}
  PROVE  Disjoint'
<1>1. SUFFICES ASSUME NEW x \in records', NEW y \in records', x.zone = y.zone, x # y
               PROVE  Exp(x) <= y.nbf \/ Exp(y) <= x.nbf
  BY DEF Disjoint, Exp
<1>2. \A s \in records : r.zone = s.zone => Exp(r) <= s.nbf \/ Exp(s) <= r.nbf
  <2>1. SUFFICES ASSUME NEW s \in records, r.zone = s.zone
                 PROVE  Exp(r) <= s.nbf \/ Exp(s) <= r.nbf
    OBVIOUS
  <2>2. /\ r.nbf \in Int /\ s.nbf \in Int /\ r.zone \in Int /\ s.zone \in Int /\ Slot \in Int
    BY ReservationsAssumption, TimesAreNumbers DEF ReservationTyped
  <2>3. ~Overlaps(r, s)  BY DEF Free
  <2>4. ~(r.nbf + r.zone < s.nbf + s.zone + Slot /\ r.nbf + r.zone + Slot > s.nbf + s.zone)
    BY <2>3 DEF Overlaps, Stored
  <2> QED  BY <2>1, <2>2, <2>4 DEF Exp
<1>3. CASE x \in records /\ y \in records  BY <1>1, <1>3 DEF Disjoint
<1>4. CASE x = r /\ y \in records  BY <1>1, <1>2, <1>4
<1>5. CASE y = r /\ x \in records  BY <1>1, <1>2, <1>5
<1> QED  BY <1>1, <1>3, <1>4, <1>5

\* Fact about checkActiveness: what it shows is true of its token, and it starts
\* timers for that token only.
LEMMA CheckShowsToken ==
  ASSUME ReservationTyped, NEW t \in Records, NEW ts, ts \subseteq [at : Int, of : Records, canceled : BOOLEAN],
         CheckActiveness(t, ts)
  PROVE  /\ tokenActiveness' \in {"NotValidYet", "Active", "Expired"}
         /\ tokenActiveness' = "Active" => t.nbf <= now
         /\ tokenActiveness' = "Expired" => Exp(t) < now
         /\ timers' \subseteq [at : Int, of : Records, canceled : BOOLEAN]
         /\ \A x \in timers' : x \in ts \/ x.of = t
         /\ tokenActiveness' = "Expired" \/ Watching(timers', t)
<1>1. t.nbf \in Nat /\ Exp(t) \in Nat /\ now \in Nat
  BY TimesAreNumbers DEF ReservationTyped
<1>2. NextCheck(t) \subseteq Int
  <2>1. Delay(t.nbf - now) \in Int /\ Delay(Exp(t) - now) \in Int
    BY <1>1 DEF Delay
  <2>2. {now + Delay(t.nbf - now)} \subseteq Int /\ {now + Delay(Exp(t) - now)} \subseteq Int
    BY <2>1, <1>1
  <2>3. Activeness(t) \in {"NotValidYet", "Active", "Expired"}  BY DEF Activeness
  <2> QED  BY <2>2, <2>3 DEF NextCheck
<1>3. timers' \subseteq [at : Int, of : Records, canceled : BOOLEAN]
  <2>1. \A a \in Int : [at |-> a, of |-> t, canceled |-> FALSE]
                          \in [at : Int, of : Records, canceled : BOOLEAN]
    OBVIOUS
  <2>2. timers' = ts \cup {[at |-> a, of |-> t, canceled |-> FALSE] : a \in NextCheck(t)}
    BY DEF CheckActiveness
  <2> QED  BY <1>2, <2>1, <2>2
<1>4. tokenActiveness' = Activeness(t)  BY DEF CheckActiveness
<1>5. /\ Activeness(t) \in {"NotValidYet", "Active", "Expired"}
      /\ Activeness(t) = "Active" => t.nbf <= now
      /\ Activeness(t) = "Expired" => Exp(t) < now
  BY <1>1 DEF Activeness
<1>6. \A x \in timers' : x \in ts \/ x.of = t  BY DEF CheckActiveness
<1>7. ASSUME Activeness(t) # "Expired" PROVE Watching(timers', t)
  <2>1. PICK a \in NextCheck(t) : a <= Exp(t)
    <3>1. /\ Slot \in Nat /\ Exp(t) = t.nbf + Slot
          /\ Delay(t.nbf - now) \in {0, t.nbf - now}
          /\ Delay(Exp(t) - now) \in {0, Exp(t) - now}
      BY ReservationsAssumption DEF Exp, Delay
    <3>2. CASE now < t.nbf
      <4>1. now + Delay(t.nbf - now) \in NextCheck(t)
        BY <3>2 DEF NextCheck, Activeness
      <4> QED  BY <1>1, <3>1, <3>2, <4>1
    <3>3. CASE ~(now < t.nbf)
      <4>1. ~(now > Exp(t)) /\ now + Delay(Exp(t) - now) \in NextCheck(t)
        BY <1>7, <3>3 DEF NextCheck, Activeness
      <4> QED  BY <1>1, <3>1, <4>1
    <3> QED  BY <3>2, <3>3
  <2>2. [at |-> a, of |-> t, canceled |-> FALSE] \in timers'
    BY <2>1 DEF CheckActiveness
  <2> QED  BY <2>1, <2>2 DEF Watching
<1> QED  BY <1>3, <1>4, <1>5, <1>6, <1>7

ReservationInv ==
  ReservationTyped /\ Disjoint /\ TimersAreOwn /\ ShowsOwnToken /\ TokenIsWatched

\* Fact about a new token: setToken keeps the invariant of the page.
LEMMA SetTokenKeeps ==
  ASSUME ReservationInv, NEW t \in records, SetToken(t), now' = now
  PROVE  /\ token' = {t} /\ TimersAreOwn' /\ ShowsOwnToken' /\ TokenIsWatched'
         /\ tokenActiveness' \in {"NotValidYet", "Active", "Expired"}
         /\ timers' \subseteq [at : Int, of : Records, canceled : BOOLEAN]
<1>1. /\ Canceled(timers) \subseteq [at : Int, of : Records, canceled : BOOLEAN]
      /\ \A x \in Canceled(timers) : x.canceled
  BY DEF ReservationInv, ReservationTyped, Canceled
<1>2. t \in Records /\ token' = {t} /\ CheckActiveness(t, Canceled(timers))
  BY DEF ReservationInv, ReservationTyped, SetToken
<1>3. /\ tokenActiveness' \in {"NotValidYet", "Active", "Expired"}
      /\ tokenActiveness' = "Active" => t.nbf <= now
      /\ tokenActiveness' = "Expired" => Exp(t) < now
      /\ timers' \subseteq [at : Int, of : Records, canceled : BOOLEAN]
      /\ \A x \in timers' : x \in Canceled(timers) \/ x.of = t
      /\ tokenActiveness' = "Expired" \/ Watching(timers', t)
  BY <1>1, <1>2, CheckShowsToken DEF ReservationInv
<1>4. TimersAreOwn'  BY <1>1, <1>2, <1>3 DEF TimersAreOwn
<1>5. ShowsOwnToken'  BY <1>2, <1>3 DEF ShowsOwnToken, Exp
<1>6. TokenIsWatched'
  BY <1>2, <1>3 DEF TokenIsWatched, Watching, Exp
<1> QED  BY <1>2, <1>3, <1>4, <1>5, <1>6

\* A step that leaves the token, what is shown of it and the timers alone keeps the
\* token watched, whatever time it is.
LEMMA WatchStutter ==
  ASSUME TokenIsWatched, UNCHANGED pageVars
  PROVE  TokenIsWatched'
BY DEF TokenIsWatched, Watching, pageVars, Exp

\* The parts of ReservationInv are inductive together.
LEMMA ReservationStep == ReservationInv /\ [ReservationNext]_reservationVars => ReservationInv'
<1> SUFFICES ASSUME ReservationInv, [ReservationNext]_reservationVars PROVE ReservationInv'  OBVIOUS
<1> USE DEF ReservationInv
<1>1. CASE IssueToken
  <2>1. PICK r \in Records : Free(r) /\ records' = records \cup {r}  BY <1>1 DEF IssueToken
  <2>2. Disjoint'  BY <2>1, FreeIsDisjoint
  <2>3. UNCHANGED <<now, requests, replies, issues, pageVars>>  BY <1>1 DEF IssueToken
  <2>4. ReservationTyped'  BY <2>1, <2>3 DEF ReservationTyped, pageVars
  <2>5. TimersAreOwn' /\ ShowsOwnToken'
    BY <2>3 DEF TimersAreOwn, ShowsOwnToken, pageVars, Exp
  <2> QED  BY <2>2, <2>3, <2>4, <2>5, WatchStutter
<1>2. CASE HandleRequest
  <2>1. PICK s \in requests :
          LET r == [nbf |-> s, zone |-> 0] IN
            /\ requests' = requests \ {s}
            /\ IF Free(r) THEN records' = records \cup {r} /\ replies' = replies \cup {r}
                          ELSE UNCHANGED <<records, replies>>
            /\ UNCHANGED <<now, issues, pageVars>>
    BY <1>2 DEF HandleRequest
  <2> DEFINE r == [nbf |-> s, zone |-> 0]
  <2>2. r \in Records  BY ReservationsAssumption DEF ReservationTyped, Records
  <2>3. Disjoint'
    <3>1. CASE Free(r)
      <4>1. records' = records \cup {r}  BY <2>1, <3>1
      <4> HIDE DEF r
      <4> QED  BY <2>2, <3>1, <4>1, FreeIsDisjoint
    <3>2. CASE ~Free(r)
      <4>1. records' = records  BY <2>1, <3>2
      <4> QED  BY <4>1 DEF Disjoint, Exp
    <3> QED  BY <3>1, <3>2
  <2>4. ReservationTyped'  BY <2>1, <2>2 DEF ReservationTyped, pageVars
  <2>5. TimersAreOwn' /\ ShowsOwnToken'
    BY <2>1 DEF TimersAreOwn, ShowsOwnToken, pageVars, Exp
  <2> QED  BY <2>1, <2>3, <2>4, <2>5, WatchStutter
<1>3. CASE Fire
  <2>1. PICK t \in timers :
          /\ IF t.canceled THEN timers' = timers \ {t} /\ UNCHANGED tokenActiveness
                           ELSE CheckActiveness(t.of, timers \ {t})
          /\ UNCHANGED <<now, records, requests, replies, issues, token>>
    BY <1>3 DEF Fire
  <2>2. Disjoint'  BY <2>1 DEF Disjoint, Exp
  <2>3. CASE t.canceled
    <3>1. TokenIsWatched'
      BY <2>1, <2>3 DEF TokenIsWatched, Watching, Exp
    <3> QED
      BY <2>1, <2>2, <2>3, <3>1 DEF ReservationTyped, TimersAreOwn, ShowsOwnToken, Exp
  <2>4. CASE ~t.canceled
    <3>1. /\ t.of \in Records /\ token = {t.of}
          /\ timers \ {t} \subseteq [at : Int, of : Records, canceled : BOOLEAN]
      BY <2>4 DEF ReservationTyped, TimersAreOwn
    <3>2. CheckActiveness(t.of, timers \ {t})  BY <2>1, <2>4
    <3>3. /\ tokenActiveness' \in {"NotValidYet", "Active", "Expired"}
          /\ tokenActiveness' = "Active" => t.of.nbf <= now
          /\ tokenActiveness' = "Expired" => Exp(t.of) < now
          /\ timers' \subseteq [at : Int, of : Records, canceled : BOOLEAN]
          /\ \A x \in timers' : x \in timers \ {t} \/ x.of = t.of
          /\ tokenActiveness' = "Expired" \/ Watching(timers', t.of)
      BY <3>1, <3>2, CheckShowsToken
    <3>4. ReservationTyped'  BY <2>1, <3>3 DEF ReservationTyped
    <3>5. TimersAreOwn'  BY <2>1, <3>1, <3>3 DEF TimersAreOwn
    <3>6. ShowsOwnToken'  BY <2>1, <3>1, <3>3 DEF ShowsOwnToken, Exp
    <3>7. TokenIsWatched'  BY <2>1, <3>1, <3>3 DEF TokenIsWatched, Watching, Exp
    <3> QED  BY <2>2, <3>4, <3>5, <3>6, <3>7
  <2> QED  BY <2>3, <2>4
<1>4. CASE HandleIssue
  <2>1. /\ UNCHANGED <<now, records, replies, tokenActiveness>> /\ token' = {}
        /\ timers' = Canceled(timers) /\ requests' \subseteq Starts
        /\ issues' \in 0 .. Issues
    BY <1>4, ReservationsAssumption DEF HandleIssue, ClearToken, ReservationTyped
  <2>2. /\ Canceled(timers) \subseteq [at : Int, of : Records, canceled : BOOLEAN]
        /\ \A x \in Canceled(timers) : x.canceled
    BY DEF ReservationTyped, Canceled
  <2>3. ReservationTyped'  BY <2>1, <2>2 DEF ReservationTyped
  <2>4. Disjoint'  BY <2>1 DEF Disjoint, Exp
  <2>5. TimersAreOwn'  BY <2>1, <2>2 DEF TimersAreOwn
  <2>6. ShowsOwnToken' /\ TokenIsWatched'  BY <2>1 DEF ShowsOwnToken, TokenIsWatched
  <2> QED  BY <2>3, <2>4, <2>5, <2>6
<1>5. CASE Response
  <2>1. PICK r \in replies : /\ replies' = replies \ {r} /\ SetToken(r)
                             /\ UNCHANGED <<now, records, requests, issues>>
    BY <1>5 DEF Response
  <2>2. r \in records  BY DEF ReservationTyped
  <2>3. /\ token' = {r} /\ TimersAreOwn' /\ ShowsOwnToken' /\ TokenIsWatched'
        /\ tokenActiveness' \in {"NotValidYet", "Active", "Expired"}
        /\ timers' \subseteq [at : Int, of : Records, canceled : BOOLEAN]
    BY <2>1, <2>2, SetTokenKeeps
  <2>4. ReservationTyped'  BY <2>1, <2>2, <2>3 DEF ReservationTyped
  <2>5. Disjoint'  BY <2>1 DEF Disjoint, Exp
  <2> QED  BY <2>3, <2>4, <2>5
<1>6. CASE HandleVerify
  <2>1. PICK r \in records : SetToken(r)  BY <1>6 DEF HandleVerify
  <2>2. UNCHANGED <<now, records, requests, replies, issues>>  BY <1>6 DEF HandleVerify
  <2>3. /\ token' = {r} /\ TimersAreOwn' /\ ShowsOwnToken' /\ TokenIsWatched'
        /\ tokenActiveness' \in {"NotValidYet", "Active", "Expired"}
        /\ timers' \subseteq [at : Int, of : Records, canceled : BOOLEAN]
    BY <2>1, <2>2, SetTokenKeeps
  <2>4. ReservationTyped'  BY <2>2, <2>3 DEF ReservationTyped
  <2>5. Disjoint'  BY <2>2 DEF Disjoint, Exp
  <2> QED  BY <2>3, <2>4, <2>5
<1>7. CASE Reload
  <2>1. replies' = {} /\ UNCHANGED <<now, records, requests, issues, token>>
    BY <1>7 DEF Reload
  <2>2. Disjoint'  BY <2>1 DEF Disjoint, Exp
  <2>3. CASE token = {}
    <3>1. tokenActiveness' = "NoToken" /\ timers' = {}  BY <1>7, <2>3 DEF Reload
    <3> QED
      BY <2>1, <2>2, <2>3, <3>1
         DEF ReservationTyped, TimersAreOwn, ShowsOwnToken, TokenIsWatched
  <2>4. CASE token # {}
    <3>1. PICK t \in token : CheckActiveness(t, {})  BY <1>7, <2>4 DEF Reload
    <3>2. t \in Records  BY DEF ReservationTyped
    <3>3. /\ tokenActiveness' \in {"NotValidYet", "Active", "Expired"}
          /\ tokenActiveness' = "Active" => t.nbf <= now
          /\ tokenActiveness' = "Expired" => Exp(t) < now
          /\ timers' \subseteq [at : Int, of : Records, canceled : BOOLEAN]
          /\ \A x \in timers' : x \in {} \/ x.of = t
          /\ tokenActiveness' = "Expired" \/ Watching(timers', t)
      BY <3>1, <3>2, CheckShowsToken
    <3>4. ReservationTyped'  BY <2>1, <3>3 DEF ReservationTyped
    <3>5. token' = {t}  BY <2>1, <3>1 DEF ReservationTyped
    <3>6. TokenIsWatched'  BY <3>3, <3>5 DEF TokenIsWatched, Watching, Exp
    <3> QED  BY <2>1, <2>2, <3>3, <3>4, <3>5, <3>6 DEF TimersAreOwn, ShowsOwnToken, Exp
  <2> QED  BY <2>3, <2>4
<1>8. CASE Clock
  <2>1. /\ now < Horizon /\ now' = now + 1
        /\ UNCHANGED <<records, requests, replies, issues, pageVars>>
    BY <1>8 DEF Clock
  <2>2. ReservationTyped'  BY <2>1, ReservationsAssumption DEF ReservationTyped, pageVars
  <2>3. Disjoint' /\ TimersAreOwn'  BY <2>1 DEF Disjoint, TimersAreOwn, pageVars, Exp
  <2>4. ShowsOwnToken'
    <3>1. \A t \in token : t.nbf \in Int /\ Exp(t) \in Int
      BY TimesAreNumbers DEF ReservationTyped
    <3> QED  BY <2>1, <3>1 DEF ShowsOwnToken, pageVars, Exp, ReservationTyped
  <2> QED  BY <2>1, <2>2, <2>3, <2>4, WatchStutter
<1>9. CASE UNCHANGED reservationVars
  BY <1>9, WatchStutter
     DEF reservationVars, pageVars, ReservationTyped, Disjoint, TimersAreOwn, ShowsOwnToken,
         Exp
<1> QED  BY <1>1, <1>2, <1>3, <1>4, <1>5, <1>6, <1>7, <1>8, <1>9 DEF ReservationNext

\* The invariant holds in every state.
THEOREM ReservationInvariant == ReservationSpec => []ReservationInv
<1>1. ReservationInit => ReservationInv
  BY ReservationsAssumption
     DEF ReservationInit, ReservationInv, ReservationTyped, Disjoint, TimersAreOwn,
         ShowsOwnToken, TokenIsWatched
<1> QED  BY <1>1, ReservationStep, PTL DEF ReservationSpec

\* The clock stays within its horizon, the dashboard within its requests, and a token
\* or a reply is always one of the table.
THEOREM ReservationsTypeCorrect == ReservationSpec => []ReservationTypeOK
<1>1. ReservationInv => ReservationTypeOK
  BY ReservationsAssumption DEF ReservationInv, ReservationTyped, ReservationTypeOK
<1> QED  BY <1>1, ReservationInvariant, PTL

\* The dashboard never forgets the token it holds: it shows that it is over, or a timer
\* of its own looks again before it is, through delays that setTimeout cannot hold
\* (checkActiveness and the clean-up in App.tsx).
THEOREM TokenIsNeverForgotten == ReservationSpec => []TokenIsWatched
<1>1. ReservationInv => TokenIsWatched  BY DEF ReservationInv
<1> QED  BY <1>1, ReservationInvariant, PTL

\* The server never accepts two tokens whose reservations were written with the
\* same offset (prevent_overlap, issue_token, verify_jwt).
THEOREM SlotsAreExclusive == ReservationSpec => []ExclusiveSlot
<1>1. ReservationInv => ExclusiveSlot
  <2>1. SUFFICES ASSUME ReservationInv, NEW r \in records, NEW s \in records, r.zone = s.zone,
                        Accepts(r), Accepts(s), r # s
                 PROVE  FALSE
    BY DEF ExclusiveSlot
  <2>2. r.nbf \in Nat /\ Exp(r) \in Nat /\ s.nbf \in Nat /\ Exp(s) \in Nat /\ now \in Nat
    BY <2>1, TimesAreNumbers DEF ReservationInv, ReservationTyped
  <2>3. Exp(r) <= s.nbf \/ Exp(s) <= r.nbf  BY <2>1 DEF ReservationInv, Disjoint
  <2>4. r.nbf <= now /\ now < Exp(r) /\ s.nbf <= now /\ now < Exp(s)  BY <2>1 DEF Accepts
  <2> QED  BY <2>2, <2>3, <2>4
<1> QED  BY <1>1, ReservationInvariant, PTL

\* The dashboard's word on its token is never an earlier token's (the effect of
\* App.tsx, its clean-up and its timers).
THEOREM TokenIsOwn == ReservationSpec => []ShowsOwnToken
<1>1. ReservationInv => ShowsOwnToken  BY DEF ReservationInv
<1> QED  BY <1>1, ReservationInvariant, PTL
=============================================================================
