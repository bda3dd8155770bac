---------------------------- MODULE IpcCallProofs ----------------------------
(***************************************************************************)
(* Theorems about IpcCall: the handshake of the two cores executes every    *)
(* call once, on its own argument, before it returns.  The lost call of the *)
(* finding is a call that never returns; it is never a call that returns    *)
(* without having been executed.                                            *)
(***************************************************************************)
EXTENDS IpcCall, TLAPS

(***************************************************************************)
(* Where the call in progress is.  The request travels from the shared RAM  *)
(* (event) through the interrupt to ipc_req (netPc = "poll"), is executed   *)
(* (unack to ack) and comes back as net_ack; the caller waits meanwhile.    *)
(***************************************************************************)
Calling == appPc \in {"request", "signal"}

CallerInv ==
  /\ appPc = "idle" => call = None /\ reply = None
  /\ appPc # "idle" => call \in Calls /\ tx_pdu = call.arg
  /\ appPc \in {"signal", "spin"} => req = call.req
  /\ Calling => reply = None
  /\ Calling \/ appPc = "idle" => ~net_ack
  /\ appPc = "clear" => net_ack

NetworkInv ==
  /\ netPc \in {"unack", "serve", "ack"} =>
       appPc = "spin" /\ ipc_req = call.req /\ ~event /\ ~net_ack
  /\ netPc \in {"unack", "serve"} => reply = None
  /\ netPc = "ack" => reply = call
  /\ netPc = "poll" /\ ipc_req # None =>
       appPc = "spin" /\ ipc_req = call.req /\ reply = None /\ ~event /\ ~net_ack
  /\ event => appPc = "spin" /\ ~net_ack /\ reply = None /\ netPc \in {"poll", "forget"}
  /\ net_ack => reply = call

CallInv == TypeOK /\ CallerInv /\ NetworkInv

LEMMA CallInvStep ==
  ASSUME CallInv, [Next]_vars
  PROVE  CallInv'
<1> USE NoneAssumption DEF CallInv, TypeOK, CallerInv, NetworkInv, Calls, Calling
<1>1. CASE UNCHANGED vars
  BY <1>1 DEF vars
<1>2. ASSUME NEW c \in Calls, Invoke(c) PROVE CallInv'
  BY <1>2 DEF Invoke
<1>3. CASE WriteRequest
  BY <1>3 DEF WriteRequest
<1>4. CASE Signal
  BY <1>4 DEF Signal
<1>5. CASE SeeAck
  BY <1>5 DEF SeeAck
<1>6. CASE Return
  BY <1>6 DEF Return, ClearAck
<1>7. CASE Interrupt
  BY <1>7 DEF Interrupt
<1>8. CASE Poll
  BY <1>8 DEF Poll
<1>9. CASE Unack
  BY <1>9 DEF Unack
<1>10. CASE Serve
  BY <1>10 DEF Serve
<1>11. CASE Ack
  BY <1>11 DEF Ack
<1>12. CASE Forget
  BY <1>12 DEF Forget
<1> QED
  BY <1>1, <1>2, <1>3, <1>4, <1>5, <1>6, <1>7, <1>8, <1>9, <1>10, <1>11, <1>12
     DEF Next, AppStep, NetStep

LEMMA CallInvariant == Spec => []CallInv
<1>1. Init => CallInv
  BY DEF Init, CallInv, TypeOK, CallerInv, NetworkInv, Calling
<1> QED
  BY <1>1, CallInvStep, PTL DEF Spec

\* The cores never work on the shared request at the same time: while the network
\* core executes, the caller spins, and what is executed is its call
\* (ipc.c:23 to 30 against network_core main.c:418 to 449).
THEOREM ExecutesOnlyTheCall == Spec => []ExecutesTheCall
<1>1. CallInv => ExecutesTheCall
  BY DEF CallInv, CallerInv, NetworkInv, ExecutesTheCall
<1> QED
  BY <1>1, CallInvariant, PTL

\* "Network core acked the latest request" (ipc.h:75) is true of every
\* acknowledgement the caller can see: one left by an earlier call, or by a
\* request that was lost, is never taken for the answer.
THEOREM AcksAnswerTheirCall == Spec => []AckIsForThisCall
<1>1. CallInv => AckIsForThisCall
  BY DEF CallInv, CallerInv, NetworkInv, AckIsForThisCall
<1> QED
  BY <1>1, CallInvariant, PTL

\* The handshake implements the call of IpcCallSpec: a call that returns was
\* executed exactly once.  Only Invoke, Serve and Return are seen; the other
\* statements of both cores are internal.
THEOREM HandshakeImplementsCall == Spec => ImplementsCall
<1>1. Init => Abstract!Init
  BY DEF Init, Abstract!Init
<1>2. ASSUME CallInv, [Next]_vars
      PROVE  [Abstract!Next]_<<call, reply>>
  <2>1. ASSUME NEW c \in Calls, Invoke(c) PROVE Abstract!Next
    BY <1>2, <2>1
       DEF Invoke, Calls, CallInv, CallerInv, Abstract!Next, Abstract!Invoke, Abstract!Calls
  <2>2. CASE Serve
    BY <1>2, <2>2, NoneAssumption
       DEF Serve, Calls, CallInv, TypeOK, CallerInv, NetworkInv, Abstract!Next,
           Abstract!Execute
  <2>3. CASE Return
    BY <1>2, <2>3
       DEF Return, CallInv, CallerInv, NetworkInv, Abstract!Next, Abstract!Return
  <2>4. CASE WriteRequest \/ Signal \/ SeeAck \/ Interrupt \/ Poll \/ Unack \/ Ack \/ Forget
    BY <2>4 DEF WriteRequest, Signal, SeeAck, Interrupt, Poll, Unack, Ack, Forget
  <2> QED
    BY <1>2, <2>1, <2>2, <2>3, <2>4 DEF Next, AppStep, NetStep, vars
<1> QED
  BY <1>1, <1>2, CallInvariant, PTL
     DEF Spec, ImplementsCall, Abstract!Spec, Abstract!specVars

-------------------------------------------------------------------------------
(* Why a call returns, and the one way to lose it *)

\* No call is made between the acknowledgement of the last one and the statement that
\* forgets its request.
OutsideWindow == netPc = "forget" => appPc \in {"idle", "spin", "clear"}

\* The call that the application core spins on is on its way to the network core, executed
\* there, or answered.
CallInFlight ==
  appPc = "spin" => event \/ net_ack \/ (ipc_req # None /\ netPc # "forget")

\* Who spins while the network core is about to forget the request has the answer to see.
AnsweredInWindow == netPc = "forget" /\ appPc = "spin" => net_ack

LEMMA FlightStep ==
  ASSUME CallInv, CallInFlight, AnsweredInWindow, OutsideWindow, [Next]_vars
  PROVE  (CallInFlight /\ AnsweredInWindow)'
<1> USE DEF CallInFlight, AnsweredInWindow
<1>1. ASSUME NEW c \in Calls, Invoke(c) PROVE (CallInFlight /\ AnsweredInWindow)'
  BY <1>1 DEF Invoke
<1>2. CASE WriteRequest
  BY <1>2 DEF WriteRequest
<1>3. CASE Signal
  BY <1>3 DEF Signal, OutsideWindow
<1>4. CASE SeeAck \/ Return
  BY <1>4 DEF SeeAck, Return
<1>5. CASE Interrupt
  <2>1. req # None /\ event /\ ipc_req' = req /\ UNCHANGED <<appPc, netPc, net_ack>>
    BY <1>5, NoneAssumption DEF Interrupt, CallInv, TypeOK, CallerInv, NetworkInv, Calls
  <2> QED
    BY <2>1
<1>6. CASE Poll \/ Unack \/ Serve \/ Ack
  <2>1. netPc \in {"unack", "serve", "ack"} => ipc_req # None
    BY NoneAssumption DEF CallInv, CallerInv, NetworkInv, Calls
  <2> QED
    BY <1>6, <2>1 DEF Poll, Unack, Serve, Ack
<1>7. CASE Forget
  BY <1>7 DEF Forget
<1>8. CASE UNCHANGED vars
  BY <1>8 DEF vars
<1> QED
  BY <1>1, <1>2, <1>3, <1>4, <1>5, <1>6, <1>7, <1>8 DEF Next, AppStep, NetStep

\* network_core main.c:447-448 against ipc.c:23-28: an application that makes no call between
\* the two statements never spins on a call that nobody has.  The safety half of
\* CallsReturnOutsideWindow.
THEOREM CallsAreNotLostOutsideWindow == Spec /\ []OutsideWindow => []CallInFlight
<1>1. Init => CallInFlight /\ AnsweredInWindow
  BY DEF Init, CallInFlight, AnsweredInWindow
<1>2. CallInv /\ OutsideWindow /\ CallInFlight /\ AnsweredInWindow /\ [Next]_vars
        => (CallInFlight /\ AnsweredInWindow)'
  BY FlightStep
<1> QED
  BY <1>1, <1>2, CallInvariant, PTL DEF Spec

\* Wherever the application calls: nothing but that statement loses a call.
ForgottenOnly ==
  [][(event \/ net_ack \/ ipc_req # None) /\ appPc = "spin" =>
       \/ event' \/ net_ack' \/ ipc_req' # None
       \/ netPc = "forget" /\ netPc' = "poll"]_vars

\* The interrupt, the executor of the network core and the caller hand a call on; the
\* statement that forgets the request is the only one that can drop it.
THEOREM OnlyForgetLosesACall == Spec => ForgottenOnly
<1>1. CallInv /\ [Next]_vars =>
        [(event \/ net_ack \/ ipc_req # None) /\ appPc = "spin" =>
           \/ event' \/ net_ack' \/ ipc_req' # None
           \/ netPc = "forget" /\ netPc' = "poll"]_vars
  <2> SUFFICES ASSUME CallInv, Next, event \/ net_ack \/ ipc_req # None, appPc = "spin"
               PROVE  \/ event' \/ net_ack' \/ ipc_req' # None
                      \/ netPc = "forget" /\ netPc' = "poll"
    OBVIOUS
  <2>1. ~Return /\ ~WriteRequest /\ ~Signal /\ \A c \in Calls : ~Invoke(c)
    BY DEF Return, WriteRequest, Signal, Invoke
  <2>2. CASE SeeAck
    BY <2>2 DEF SeeAck
  <2>3. CASE Interrupt
    <3>1. req # None
      BY <2>3, NoneAssumption DEF Interrupt, CallInv, TypeOK, CallerInv, NetworkInv, Calls
    <3> QED
      BY <2>3, <3>1 DEF Interrupt
  <2>4. CASE Poll \/ Unack \/ Serve \/ Ack
    <3>1. netPc \in {"unack", "serve", "ack"} => ipc_req # None
      BY NoneAssumption DEF CallInv, CallerInv, NetworkInv, Calls
    <3> QED
      BY <2>4, <3>1 DEF Poll, Unack, Serve, Ack
  <2>5. CASE Forget
    BY <2>5 DEF Forget
  <2> QED
    BY <2>1, <2>2, <2>3, <2>4, <2>5 DEF Next, AppStep, NetStep
<1> QED
  BY <1>1, CallInvariant, PTL DEF Spec, ForgottenOnly

\* Of the call, the shared RAM and both cores.
THEOREM TypeCorrect == Spec => []TypeOK
<1>1. CallInv => TypeOK
  BY DEF CallInv
<1> QED
  BY <1>1, CallInvariant, PTL

=============================================================================
