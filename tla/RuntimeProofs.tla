----------------------------- MODULE RuntimeProofs -----------------------------
(* LogsAreWhole for every set of images and bodies of logs: the hardware mutex *)
(* excludes the two copies of a log from one another, whatever the interrupts, *)
(* faults and watchdogs do between two steps.                                  *)
EXTENDS Runtime, TLAPS

\* A buffer is two halves, and whole if they are of the same log.
Typed == /\ log = [length |-> log.length, content |-> log.content]
         /\ event = [length |-> event.length, content |-> event.content]
Full(b) == b.length = b.content

\* Who is between lock and unlock holds the mutex.
Exclusion ==
  /\ pc \in {"first", "second", "unlock"} => mutex = "app"
  /\ netPc \in {"length", "content", "unlock"} => mutex = "main"
  /\ netIsr = "store" => mutex = "isr"

\* How far the application core's copy is; a fault leaves it there for ever,
\* with the mutex.
Written ==
  /\ mutex # "app" \/ pc \in {"first", "unlock"} => Full(log)
  /\ pc = "second" => IF Call = "log" THEN log.length = handed ELSE Full(log)

\* How far the network core's copy is.
Copied ==
  /\ netPc = "content" => event.length = log.length
  /\ netPc = "unlock" => Full(event)

IInv == Typed /\ Exclusion /\ Written /\ Copied

LEMMA InitInv == Init => IInv
BY DEF Init, IInv, Typed, Exclusion, Written, Copied, Full, Blank

\* Steps of the application core outside the locked part, its interrupts and faults.
LEMMA AppQuiet ==
  ASSUME IInv, UNCHANGED <<mutex, log, netVars>>,
         pc' \notin {"first", "second", "unlock"} \/ UNCHANGED <<user, at, pc, handed>>
  PROVE  IInv'
BY DEF IInv, Typed, Exclusion, Written, Copied, Full, Call, netVars

\* Steps of the network core outside the locked part, and its interrupt.
LEMMA NetQuiet ==
  ASSUME IInv, UNCHANGED <<user, userVars, log, event>>,
         netPc' = netPc \/ netPc' \notin {"length", "content", "unlock"},
         \/ mutex' = mutex /\ (netIsr' = "store" => netIsr = "store")
         \/ mutex = "free" /\ mutex' = "isr"
         \/ mutex = "isr" /\ mutex' = "free" /\ netIsr' = "none"
  PROVE  IInv'
BY DEF IInv, Typed, Exclusion, Written, Copied, Full, Call, userVars

\* The application core's copy of a log.
LEMMA CopyInv == IInv /\ (Lock \/ First \/ Second \/ Unlock) => IInv'
<1> SUFFICES ASSUME IInv, Lock \/ First \/ Second \/ Unlock PROVE IInv'  OBVIOUS
<1>1. UNCHANGED <<event, netPc, netIsr>>
  BY DEF Lock, First, Second, Unlock, netVars
<1>2. CASE Lock
  <2>1. /\ mutex = "free" /\ mutex' = "app" /\ pc' = "first" /\ log' = log
    BY <1>2 DEF Lock, Acquire, bufVars
  <2> QED  BY <1>1, <2>1 DEF IInv, Typed, Exclusion, Written, Copied, Full
<1>3. CASE First
  <2>1. /\ pc = "first" /\ pc' = "second" /\ mutex = "app" /\ mutex' = mutex /\ Call' = Call
        /\ netPc \notin {"length", "content", "unlock"} /\ netIsr # "store" /\ Full(log)
    BY <1>3 DEF First, IInv, Exclusion, Written, Call
  <2>2. CASE Call = "log"
    <3>1. log' = [log EXCEPT !.length = handed']  BY <1>3, <2>2 DEF First
    <3>2. log'.length = handed' /\ log' = [length |-> log'.length, content |-> log'.content]
      BY <3>1 DEF IInv, Typed
    <3> QED  BY <1>1, <2>1, <2>2, <3>2 DEF IInv, Typed, Exclusion, Written, Copied
  <2>3. CASE Call # "log"
    <3>1. log' = log  BY <1>3, <2>3 DEF First
    <3> QED  BY <1>1, <2>1, <2>3, <3>1 DEF IInv, Typed, Exclusion, Written, Copied, Full
  <2> QED  BY <2>2, <2>3
<1>4. CASE Second
  <2>1. /\ pc = "second" /\ pc' = "unlock" /\ mutex = "app" /\ mutex' = mutex
        /\ netPc \notin {"length", "content", "unlock"} /\ netIsr # "store"
        /\ IF Call = "log" THEN log.length = handed ELSE Full(log)
        /\ log' = IF Call = "log" THEN [log EXCEPT !.content = handed] ELSE log
    BY <1>4 DEF Second, IInv, Exclusion, Written
  <2>2. Full(log') /\ log' = [length |-> log'.length, content |-> log'.content]
    BY <2>1 DEF IInv, Typed, Full
  <2> QED  BY <1>1, <2>1, <2>2 DEF IInv, Typed, Exclusion, Written, Copied, Full
<1>5. CASE Unlock
  <2>1. /\ pc = "unlock" /\ pc' = "enter" /\ log' = log /\ mutex = "app"
        /\ netPc \notin {"length", "content", "unlock"} /\ netIsr # "store" /\ Full(log)
    BY <1>5 DEF Unlock, Return, IInv, Exclusion, Written, bufVars
  <2> QED  BY <1>1, <2>1 DEF IInv, Typed, Exclusion, Written, Copied, Full
<1> QED  BY <1>2, <1>3, <1>4, <1>5

\* The network core's copy of a log.
LEMMA EventInv == IInv /\ CopyLog => IInv'
<1> SUFFICES ASSUME IInv, CopyLog PROVE IInv'  OBVIOUS
<1>1. UNCHANGED <<user, at, pc, handed, log, netIsr>> /\ Call' = Call
  BY DEF CopyLog, userVars, bufVars, Call
<1>2. CASE netPc = "lock"
  <2>1. mutex = "free" /\ mutex' = "main" /\ netPc' = "length" /\ event' = event
    BY <1>2 DEF CopyLog, Acquire
  <2> QED  BY <1>1, <2>1 DEF IInv, Typed, Exclusion, Written, Copied, Full
<1>3. CASE netPc = "length"
  <2>1. /\ netPc' = "content" /\ mutex' = mutex /\ mutex = "main"
        /\ event' = [event EXCEPT !.length = log.length]
    BY <1>3 DEF CopyLog, IInv, Exclusion
  <2>2. /\ event' = [length |-> event'.length, content |-> event'.content]
        /\ event'.length = log.length
    BY <2>1 DEF IInv, Typed
  <2> QED  BY <1>1, <2>1, <2>2 DEF IInv, Typed, Exclusion, Written, Copied, Full
<1>4. CASE netPc = "content"
  <2>1. /\ netPc' = "unlock" /\ mutex' = mutex /\ mutex = "main" /\ event.length = log.length
        /\ Full(log) /\ event' = [event EXCEPT !.content = log.content]
    BY <1>4 DEF CopyLog, IInv, Exclusion, Written, Copied
  <2>2. event' = [length |-> event'.length, content |-> event'.content] /\ Full(event')
    BY <2>1 DEF IInv, Typed, Full
  <2> QED  BY <1>1, <2>1, <2>2 DEF IInv, Typed, Exclusion, Written, Copied, Full
<1>5. CASE netPc = "unlock"
  <2>1. netPc' = "top" /\ event' = Blank /\ mutex = "main"
    BY <1>5 DEF CopyLog, IInv, Exclusion
  <2> QED  BY <1>1, <2>1 DEF IInv, Typed, Exclusion, Written, Copied, Full, Blank
<1> QED  BY <1>2, <1>3, <1>4, <1>5 DEF CopyLog

\* Every step of the robot.
LEMMA StepInv == IInv /\ [Next]_vars => IInv'
<1> SUFFICES ASSUME IInv, [Next]_vars PROVE IInv'  OBVIOUS
<1>1. CASE Lock \/ First \/ Second \/ Unlock  BY <1>1, CopyInv
<1>2. CASE Delay \/ KeepAlive \/ EnterLocked
  <2>1. UNCHANGED <<mutex, log, netVars>> /\ pc' \notin {"first", "second", "unlock"}
    BY <1>2 DEF Delay, KeepAlive, EnterLocked, Return, bufVars, AppRuns, Running
  <2> QED  BY <2>1, AppQuiet
<1>3. CASE EnterCall \/ AwaitAck
  <2>1. UNCHANGED <<mutex, log, netVars>> /\ pc' \notin {"first", "second", "unlock"}
    BY <1>3 DEF EnterCall, AwaitAck, Return, bufVars
  <2> QED  BY <2>1, AppQuiet
<1>4. CASE TimerInterrupt \/ LighthouseInterrupt \/ RadioInterrupt \/ Callback \/ UserFault
  <2>1. /\ UNCHANGED <<mutex, log, netVars>>
        /\ pc' = "spin" \/ UNCHANGED <<user, at, pc, handed>>
    BY <1>4 DEF TimerInterrupt, LighthouseInterrupt, RadioInterrupt, Callback, UserFault,
                bufVars, userVars
  <2> QED  BY <2>1, AppQuiet
<1>5. CASE CopyLog  BY <1>5, EventInv
<1>6. CASE Wake \/ Request \/ Serve \/ Forward \/ TakeLog \/ NetFault
  <2>1. /\ UNCHANGED <<user, userVars, log, event, mutex, netIsr>>
        /\ netPc' \notin {"length", "content", "unlock"}
    BY <1>6 DEF Wake, Request, Serve, Forward, TakeLog, NetFault, bufVars
  <2> QED  BY <2>1, NetQuiet
<1>7. CASE Arrive \/ ArriveStop
  <2>1. /\ UNCHANGED <<user, userVars, log, event, mutex, netPc>>
        /\ netIsr' = "store" => netIsr = "store"
    BY <1>7 DEF Arrive, ArriveStop, bufVars, netVars
  <2> QED  BY <2>1, NetQuiet
<1>8. CASE StorePacket
  BY <1>8, NetQuiet DEF StorePacket, Acquire, bufVars
<1>9. CASE PacketStored
  <2>1. mutex = "isr"  BY <1>9 DEF PacketStored, IInv, Exclusion
  <2> QED  BY <1>9, <2>1, NetQuiet DEF PacketStored, bufVars
<1>10. CASE Starve
  <2>1. UNCHANGED <<user, userVars, log, event, mutex, netPc, netIsr>>
    BY <1>10 DEF Starve, bufVars, netVars
  <2> QED  BY <2>1, NetQuiet
<1>11. CASE WatchdogReset \/ Launch
  <2>1. /\ mutex' = "free" /\ log' = Blank /\ event' = Blank /\ netPc' = "top" /\ netIsr' = "none"
        /\ pc' \in {"boot", "enter"}
    BY <1>11 DEF WatchdogReset, Launch, Fresh
  <2> QED  BY <2>1 DEF IInv, Typed, Exclusion, Written, Copied, Full, Blank
<1>12. CASE UNCHANGED vars
  <2>1. UNCHANGED <<user, userVars, log, event, mutex, netPc, netIsr>>
    BY <1>12 DEF vars, bufVars, netVars
  <2> QED  BY <2>1, NetQuiet
<1> QED
  BY <1>1, <1>2, <1>3, <1>4, <1>5, <1>6, <1>7, <1>8, <1>9, <1>10, <1>11, <1>12
  DEF Next, AppStep, NetStep

LEMMA Invariance == Spec => []IInv
<1>1. Init => IInv  BY InitInv
<1>2. IInv /\ [Next]_vars => IInv'  BY StepInv
<1> QED  BY <1>1, <1>2, PTL DEF Spec

\* cmse_implib.c swarmit_log_data and main.c:461-485 of the network core: the
\* event has the length and the bytes of one log.
THEOREM LogEventsAreWhole == Spec => []LogsAreWhole
<1>1. IInv => LogsAreWhole  BY DEF IInv, Copied, Full, LogsAreWhole
<1> QED  BY <1>1, Invariance, PTL

\* The mutex of the two cores and of the radio interrupt: no two of them are
\* between lock and unlock.
MutexHeldOnce ==
  /\ ~(pc \in {"first", "second", "unlock"} /\ netPc \in {"length", "content", "unlock"})
  /\ ~(pc \in {"first", "second", "unlock"} /\ netIsr = "store")
  /\ ~(netPc \in {"length", "content", "unlock"} /\ netIsr = "store")

\* mutex_lock and mutex_unlock of both cores: between them there is one holder.
THEOREM MutexExcludes == Spec => []MutexHeldOnce
<1>1. IInv => MutexHeldOnce  BY DEF IInv, Exclusion, MutexHeldOnce
<1> QED  BY <1>1, Invariance, PTL

-------------------------------------------------------------------------------
(* The calls between the cores, and what a failure leaves behind *)

RunTyped ==
  /\ user \in Images /\ at \in 1 .. Len(user.calls)
  /\ pc \in {"boot", "spin", "enter", "sleep", "lock", "first", "second", "unlock", "ack"}
  /\ isr \in BOOLEAN /\ hungry \in BOOLEAN
  /\ mutex \in {"free", "app", "main", "isr"}
  /\ netPc \in {"top", "request", "ipc", "data", "log", "lock", "length", "content", "unlock",
                "spin"}
  /\ netIsr \in {"none", "lock", "store"}

\* Whoever the mutex is taken by will give it back, unless a fault came in between.
MutexNeverLeaks ==
  /\ mutex = "app" => pc \in {"first", "second", "unlock", "spin"}
  /\ mutex = "main" => netPc \in {"length", "content", "unlock", "spin"}
  /\ mutex = "isr" => netIsr = "store"

\* While the user image does not hang, there is a request or an answer only for the call
\* it waits in, and it waits for nothing else.
CallsInStep ==
  pc # "spin" =>
    /\ net_ack => pc = "ack" /\ ipc_req = Nothing
    /\ ipc_req # Nothing => pc = "ack" /\ ipc_req = Call
    /\ pc = "ack" => Call \in NetCalls /\ (net_ack \/ ipc_req = Call)

\* The radio interrupt of the network core spins on the mutex of its own main loop.
Deadlocked == netIsr = "lock" /\ mutex = "main"

\* In the radio interrupt for a packet no STOP has been taken.
OutOfReach == netIsr # "none" => ~wdt1

\* The bootloader finds everything as it is after a reset.
BootIsFresh ==
  pc = "boot" => netPc = "top" /\ netIsr = "none" /\ mutex = "free" /\ ~wdt1

\* Nothing but a reset ends a failure of either core or a STOP that was taken, and
\* nothing feeds the watchdog of an image that hangs.
FailureStays ==
  /\ pc = "spin" => pc' \in {"spin", "boot"}
  /\ Deadlocked => Deadlocked' \/ pc' = "boot"
  /\ netPc = "spin" => netPc' = "spin" \/ pc' = "boot"
  /\ wdt1 => wdt1' \/ pc' = "boot"
  /\ pc = "spin" /\ hungry => hungry' \/ pc' = "boot"

FailuresLast == [][FailureStays]_vars

RunInv == RunTyped /\ MutexNeverLeaks /\ CallsInStep /\ OutOfReach /\ BootIsFresh

\* Fact about the loop of an image: the call after the last one is the first.
LEMMA ReturnFacts ==
  ASSUME RunTyped, Return
  PROVE  at' \in 1 .. Len(user.calls) /\ pc' = "enter"
<1>1. user.calls \in Seq(Calls) /\ user.calls # <<>>
  BY ImageAssumption DEF RunTyped
<1>2. Len(user.calls) \in Nat /\ Len(user.calls) # 0
  BY <1>1
<1> QED
  BY <1>2 DEF Return, RunTyped

\* Every step of the robot.
LEMMA RunStep == RunInv /\ [Next]_vars => RunInv'
<1> SUFFICES ASSUME RunInv, [Next]_vars PROVE RunInv'
  OBVIOUS
<1> USE DEF RunInv, userVars, flagVars, bufVars, netVars, dogVars, AppRuns, Running
<1>1. CASE Delay \/ KeepAlive \/ EnterLocked
  <2>1. /\ UNCHANGED <<user, mutex, netPc, netIsr, wdt1, ipc_req, net_ack>>
        /\ pc \in {"enter", "sleep"} /\ pc' \in {"enter", "sleep", "lock"}
        /\ isr' = isr /\ hungry' \in {hungry, FALSE}
    BY <1>1 DEF Delay, KeepAlive, EnterLocked, Return
  <2>2. at' \in 1 .. Len(user.calls)
    BY <1>1, ReturnFacts DEF Delay, KeepAlive, EnterLocked, RunTyped
  <2>3. RunTyped' /\ MutexNeverLeaks'
    BY <2>1, <2>2 DEF RunTyped, MutexNeverLeaks
  <2> QED
    BY <2>1, <2>3 DEF CallsInStep, OutOfReach, BootIsFresh
<1>2. CASE Lock
  BY <1>2 DEF Lock, Acquire, RunTyped, MutexNeverLeaks, CallsInStep, OutOfReach, BootIsFresh
<1>3. CASE First \/ Second
  <2>1. /\ UNCHANGED <<user, at, isr, hungry, mutex, netPc, netIsr, wdt1, ipc_req, net_ack>>
        /\ pc \in {"first", "second"} /\ pc' \in {"second", "unlock"}
    BY <1>3 DEF First, Second
  <2> QED
    BY <2>1 DEF RunTyped, MutexNeverLeaks, CallsInStep, OutOfReach, BootIsFresh
<1>4. CASE Unlock
  <2>1. /\ UNCHANGED <<user, isr, hungry, netPc, netIsr, wdt1, ipc_req, net_ack>>
        /\ pc = "unlock" /\ pc' = "enter" /\ mutex' = "free" /\ at' \in 1 .. Len(user.calls)
    BY <1>4, ReturnFacts DEF Unlock
  <2> QED
    BY <2>1 DEF RunTyped, MutexNeverLeaks, CallsInStep, OutOfReach, BootIsFresh
<1>5. CASE EnterCall
  <2>1. /\ UNCHANGED <<user, at, isr, hungry, mutex, netPc, netIsr, wdt1, net_ack>>
        /\ pc = "enter" /\ pc' = "ack" /\ ipc_req' = Call /\ Call \in NetCalls
        /\ Call' = Call
    BY <1>5 DEF EnterCall, Call, NetCalls
  <2>2. CallsInStep'
    BY <2>1 DEF CallsInStep, NetCalls, Nothing
  <2> QED
    BY <2>1, <2>2 DEF RunTyped, MutexNeverLeaks, OutOfReach, BootIsFresh
<1>6. CASE AwaitAck
  <2>1. /\ UNCHANGED <<user, isr, hungry, mutex, netPc, netIsr, wdt1, ipc_req>>
        /\ pc = "ack" /\ pc' = "enter" /\ net_ack /\ ~net_ack' /\ at' \in 1 .. Len(user.calls)
    BY <1>6, ReturnFacts DEF AwaitAck
  <2> QED
    BY <2>1 DEF RunTyped, MutexNeverLeaks, CallsInStep, OutOfReach, BootIsFresh
<1>7. CASE TimerInterrupt \/ LighthouseInterrupt \/ RadioInterrupt \/ Callback \/ UserFault
  <2>1. /\ UNCHANGED <<user, at, hungry, mutex, netPc, netIsr, wdt1, ipc_req, net_ack>>
        /\ isr' \in BOOLEAN /\ pc # "boot" /\ pc' \in {pc, "spin"}
    BY <1>7 DEF TimerInterrupt, LighthouseInterrupt, RadioInterrupt, Callback, UserFault,
                RunTyped
  <2>2. CallsInStep'
    BY <2>1 DEF CallsInStep, Call
  <2> QED
    BY <2>1, <2>2 DEF RunTyped, MutexNeverLeaks, OutOfReach, BootIsFresh
<1>8. ASSUME UNCHANGED <<user, at, pc, isr, hungry>>, pc # "boot",
             UNCHANGED <<ipc_req, net_ack>>, RunTyped', MutexNeverLeaks', OutOfReach'
      PROVE  RunInv'
  BY <1>8 DEF CallsInStep, BootIsFresh, Call
<1>9. CASE Serve
  <2>1. /\ UNCHANGED <<user, at, pc, isr, hungry, mutex, netIsr, wdt1>>
        /\ netPc = "ipc" /\ netPc' = "data" /\ pc # "boot" /\ ipc_req' = Nothing
        /\ net_ack' = (net_ack \/ ipc_req # Nothing)
    BY <1>9 DEF Serve, NetRuns
  <2>2. CallsInStep'
    BY <2>1 DEF CallsInStep, Call, NetCalls, Nothing
  <2> QED
    BY <2>1, <2>2 DEF RunTyped, MutexNeverLeaks, OutOfReach, BootIsFresh
<1>10. CASE Wake \/ Request \/ Forward \/ TakeLog \/ NetFault
  <2>1. /\ UNCHANGED <<user, at, pc, isr, hungry, mutex, netIsr, ipc_req, net_ack>>
        /\ pc # "boot" /\ netIsr = "none"
        /\ netPc' \in {"request", "ipc", "log", "lock", "top", "spin"}
        /\ netPc \in {"length", "content", "unlock"} => netPc' = "spin"
        /\ netPc = "spin" => netPc' = "spin"
    BY <1>10 DEF Wake, Request, Forward, TakeLog, NetFault, NetRuns
  <2> QED
    BY <1>8, <2>1 DEF RunTyped, MutexNeverLeaks, OutOfReach
<1>11. CASE CopyLog
  <2>1. /\ UNCHANGED <<user, at, pc, isr, hungry, netIsr, wdt1, ipc_req, net_ack>>
        /\ pc # "boot" /\ netIsr = "none"
        /\ \/ netPc = "lock" /\ mutex = "free" /\ mutex' = "main" /\ netPc' = "length"
           \/ netPc = "length" /\ netPc' = "content" /\ mutex' = mutex
           \/ netPc = "content" /\ netPc' = "unlock" /\ mutex' = mutex
           \/ netPc = "unlock" /\ netPc' = "top" /\ mutex' = "free"
    BY <1>11 DEF CopyLog, NetRuns, Acquire
  <2> QED
    BY <1>8, <2>1 DEF RunTyped, MutexNeverLeaks, OutOfReach
<1>12. CASE Arrive \/ ArriveStop \/ StorePacket \/ PacketStored
  <2>1. /\ UNCHANGED <<user, at, pc, isr, hungry, netPc, wdt1, ipc_req, net_ack>>
        /\ pc # "boot"
        /\ \/ netIsr = "none" /\ ~wdt1 /\ netIsr' = "lock" /\ mutex' = mutex
           \/ UNCHANGED <<netIsr, mutex>>
           \/ netIsr = "lock" /\ netIsr' = "store" /\ mutex = "free" /\ mutex' = "isr"
           \/ netIsr = "store" /\ netIsr' = "none" /\ mutex' = "free"
    BY <1>12 DEF Arrive, ArriveStop, StorePacket, PacketStored, NetRuns, Acquire
  <2> QED
    BY <1>8, <2>1 DEF RunTyped, MutexNeverLeaks, OutOfReach
<1>13. CASE Starve
  BY <1>13 DEF Starve, RunTyped, MutexNeverLeaks, CallsInStep, OutOfReach, BootIsFresh, Call
<1>14. CASE WatchdogReset \/ Launch
  <2>1. /\ at' = 1 /\ pc' \in {"boot", "enter"} /\ isr' = FALSE /\ mutex' = "free"
        /\ ipc_req' = Nothing /\ net_ack' = FALSE /\ netPc' = "top" /\ netIsr' = "none"
        /\ hungry' = FALSE /\ wdt1' = FALSE /\ user' = user
    BY <1>14 DEF WatchdogReset, Launch, Fresh
  <2>2. 1 \in 1 .. Len(user.calls)
    <3>1. user.calls \in Seq(Calls) /\ user.calls # <<>>
      BY ImageAssumption DEF RunTyped
    <3> QED
      BY <3>1
  <2> QED
    BY <2>1, <2>2 DEF RunTyped, MutexNeverLeaks, CallsInStep, OutOfReach, BootIsFresh
<1>15. CASE UNCHANGED vars
  BY <1>15 DEF vars, RunTyped, MutexNeverLeaks, CallsInStep, OutOfReach, BootIsFresh, Call
<1> QED
  BY <1>1, <1>2, <1>3, <1>4, <1>5, <1>6, <1>7, <1>9, <1>10, <1>11, <1>12, <1>13, <1>14, <1>15
     DEF Next, AppStep, NetStep

\* The handshake of ipc_network_call, the mutex and the failures of both cores, all at once:
\* the invariant the next theorems follow from.
THEOREM RunInvariant == Spec => []RunInv
<1>1. Init => RunInv
  <2> SUFFICES ASSUME Init PROVE RunInv
    OBVIOUS
  <2>1. 1 \in 1 .. Len(user.calls)
    <3>1. user.calls \in Seq(Calls) /\ user.calls # <<>>
      BY ImageAssumption DEF Init
    <3> QED
      BY <3>1
  <2> QED
    BY <2>1 DEF Init, RunInv, RunTyped, MutexNeverLeaks, CallsInStep, OutOfReach, BootIsFresh
<1> QED
  BY <1>1, RunStep, PTL DEF Spec

\* Of the user image, the network core and the mutex: every control state is one the code has.
THEOREM TypeCorrect == Spec => []TypeOK
<1>1. RunInv => TypeOK
  BY DEF RunInv, RunTyped, TypeOK
<1> QED
  BY <1>1, RunInvariant, PTL

\* mutex_lock and mutex_unlock: a holder of the mutex is on its way to giving it back, or is
\* a core that hangs in a fault handler.
THEOREM MutexIsGivenBack == Spec => []MutexNeverLeaks
<1>1. RunInv => MutexNeverLeaks
  BY DEF RunInv
<1> QED
  BY <1>1, RunInvariant, PTL

\* ipc_network_call and NET main.c's `if (_app_vars.ipc_req)`: an answer is never left over
\* for a later call, and a call that waits has its request or its answer in the shared memory.
THEOREM AcksAreNeverLost == Spec => []CallsInStep
<1>1. RunInv => CallsInStep
  BY DEF RunInv
<1> QED
  BY <1>1, RunInvariant, PTL

\* _handle_packet drops the packets of a robot that is STOPPING, so that the interrupt can
\* no longer get stuck on the mutex once WDT1 runs.
THEOREM DeadlockOutOfReach == Spec => []OutOfReach
<1>1. RunInv => OutOfReach
  BY DEF RunInv
<1> QED
  BY <1>1, RunInvariant, PTL

\* The fault handlers, the spinning interrupt of the network core and the two watchdogs:
\* what has failed stays as it is until the reset.  The safety half of DeadlockEnds and
\* HangEnds.
THEOREM FailuresAreFinal == Spec => FailuresLast
<1>1. RunInv /\ IInv /\ [Next]_vars => [FailureStays]_vars
  <2> SUFFICES ASSUME RunInv, IInv, Next PROVE FailureStays
    OBVIOUS
  <2> USE DEF userVars, flagVars, bufVars, netVars, dogVars, AppRuns, Running, Deadlocked, FailureStays
  <2>1. CASE AppStep
    <3>1. /\ UNCHANGED <<netPc, netIsr, wdt1>> /\ pc # "spin"
          /\ mutex = "main" => mutex' = "main"
      BY <2>1 DEF AppStep, Delay, KeepAlive, EnterLocked, Lock, First, Second, Unlock, EnterCall,
                  AwaitAck, Acquire, IInv, Exclusion
    <3> QED
      BY <3>1
  <2>2. CASE TimerInterrupt \/ LighthouseInterrupt \/ RadioInterrupt \/ Callback \/ UserFault
    BY <2>2 DEF TimerInterrupt, LighthouseInterrupt, RadioInterrupt, Callback, UserFault
  <2>3. CASE NetStep
    <3>1. /\ UNCHANGED <<pc, hungry, netIsr>> /\ netIsr = "none" /\ netPc # "spin"
          /\ wdt1 => wdt1'
      <4>1. CASE Wake \/ Serve \/ Forward \/ TakeLog \/ CopyLog
        BY <4>1 DEF Wake, Serve, Forward, TakeLog, CopyLog, NetRuns
      <4>2. CASE Request
        BY <4>2 DEF Request, NetRuns
      <4> QED
        BY <2>3, <4>1, <4>2 DEF NetStep
    <3> QED
      BY <3>1
  <2>4. CASE Arrive \/ ArriveStop \/ StorePacket \/ PacketStored \/ NetFault
    BY <2>4 DEF Arrive, ArriveStop, StorePacket, PacketStored, NetFault, NetRuns, Acquire
  <2>5. CASE Starve
    BY <2>5 DEF Starve
  <2>6. CASE WatchdogReset
    BY <2>6 DEF WatchdogReset, Fresh
  <2>7. CASE Launch
    BY <2>7 DEF Launch, Fresh, RunInv, BootIsFresh
  <2> QED
    BY <2>1, <2>2, <2>3, <2>4, <2>5, <2>6, <2>7 DEF Next
<1> QED
  BY <1>1, RunInvariant, Invariance, PTL DEF Spec, FailuresLast
===============================================================================
