-------------------------------- MODULE IpcCall --------------------------------
(***************************************************************************)
(* The call from the application core to the network core, statement by    *)
(* statement: ipc_network_call() and mari_node_tx() (bootloader ipc.c and   *)
(* mari.c) against the interrupt and the main loop of the network core      *)
(* (network_core main.c).  Device uses the call as one exchange; this       *)
(* module is what that exchange is made of.                                *)
(***************************************************************************)
EXTENDS Naturals

CONSTANTS
  Request,    \* IPC_MARI_INIT_REQ, IPC_MARI_NODE_TX_REQ, ...
  Argument,   \* contents of tx_pdu
  None        \* IPC_REQ_NONE, and no value

ASSUME NoneAssumption == None \notin Request /\ None \notin Argument

VARIABLES
  appPc,    \* application core: "idle" or the next statement of the call
  call,     \* application core: the request it passed to the call
  tx_pdu,   \* shared RAM
  req,      \* shared RAM: the request
  net_ack,  \* shared RAM: the answer
  event,    \* the IPC event of IPC_CHAN_REQ is pending on the network core
  netPc,    \* network core: next statement of the main loop
  ipc_req,  \* network core: the request its main loop will serve
  reply     \* what was executed for the call in progress

vars == <<appPc, call, tx_pdu, req, net_ack, event, netPc, ipc_req, reply>>

Calls == [req : Request, arg : Argument]

Init ==
  /\ appPc = "idle" /\ call = None
  /\ tx_pdu = None /\ req = None /\ net_ack = FALSE
  /\ event = FALSE
  /\ netPc = "poll" /\ ipc_req = None
  /\ reply = None

-------------------------------------------------------------------------------
(* Application core *)

\* The caller fills tx_pdu, then calls.
Invoke(c) ==
  /\ appPc = "idle" /\ appPc' = "request"
  /\ call' = c
  /\ tx_pdu' = c.arg
  /\ UNCHANGED <<req, net_ack, event, netPc, ipc_req, reply>>

WriteRequest ==
  /\ appPc = "request" /\ appPc' = "signal"
  /\ req' = call.req
  /\ UNCHANGED <<call, tx_pdu, net_ack, event, netPc, ipc_req, reply>>

Signal ==
  /\ appPc = "signal" /\ appPc' = "spin"
  /\ event' = TRUE
  /\ UNCHANGED <<call, tx_pdu, req, net_ack, netPc, ipc_req, reply>>

SeeAck ==
  /\ appPc = "spin" /\ appPc' = "clear" /\ net_ack
  /\ UNCHANGED <<call, tx_pdu, req, net_ack, event, netPc, ipc_req, reply>>

\* Mutant: the caller leaves the acknowledgement for the next call to see.
Bug_ClearAck == UNCHANGED net_ack

ClearAck == net_ack' = FALSE

Return ==
  /\ appPc = "clear" /\ appPc' = "idle"
  /\ ClearAck
  /\ call' = None /\ reply' = None
  /\ UNCHANGED <<tx_pdu, req, event, netPc, ipc_req>>

-------------------------------------------------------------------------------
(* Network core *)

\* IPC_IRQHandler(): it preempts the main loop between any two statements.
Interrupt ==
  /\ event
  /\ event' = FALSE
  /\ ipc_req' = req
  /\ UNCHANGED <<appPc, call, tx_pdu, req, net_ack, netPc, reply>>

Poll ==
  /\ netPc = "poll" /\ netPc' = "unack" /\ ipc_req # None
  /\ UNCHANGED <<appPc, call, tx_pdu, req, net_ack, event, ipc_req, reply>>

\* Mutant: the request is acknowledged on receipt.
Bug_Unack ==
  /\ netPc = "unack" /\ netPc' = "serve"
  /\ net_ack' = TRUE
  /\ UNCHANGED <<appPc, call, tx_pdu, req, event, ipc_req, reply>>

Unack ==
  /\ netPc = "unack" /\ netPc' = "serve"
  /\ net_ack' = FALSE
  /\ UNCHANGED <<appPc, call, tx_pdu, req, event, ipc_req, reply>>

\* The switch: execute the request the interrupt stored, on the shared tx_pdu.
Serve ==
  /\ netPc = "serve" /\ netPc' = "ack"
  /\ reply' = [req |-> ipc_req, arg |-> tx_pdu]
  /\ UNCHANGED <<appPc, call, tx_pdu, req, net_ack, event, ipc_req>>

\* Mutant: the acknowledgement is not written.
Bug_Ack ==
  /\ netPc = "ack" /\ netPc' = "forget"
  /\ UNCHANGED <<appPc, call, tx_pdu, req, net_ack, event, ipc_req, reply>>

Ack ==
  /\ netPc = "ack" /\ netPc' = "forget"
  /\ net_ack' = TRUE
  /\ UNCHANGED <<appPc, call, tx_pdu, req, event, ipc_req, reply>>

\* Line 448, after the acknowledgement of line 447.
Forget ==
  /\ netPc = "forget" /\ netPc' = "poll"
  /\ ipc_req' = None
  /\ UNCHANGED <<appPc, call, tx_pdu, req, net_ack, event, reply>>

-------------------------------------------------------------------------------
AppStep == WriteRequest \/ Signal \/ SeeAck \/ Return
NetStep == Poll \/ Unack \/ Serve \/ Ack \/ Forget

Next == (\E c \in Calls : Invoke(c)) \/ AppStep \/ Interrupt \/ NetStep

Spec == Init /\ [][Next]_vars

\* Both cores run and the interrupt is taken; whether and when the application
\* calls is its own affair.
FairSpec == Spec /\ WF_vars(AppStep) /\ WF_vars(Interrupt) /\ WF_vars(NetStep)

-------------------------------------------------------------------------------
TypeOK ==
  /\ appPc \in {"idle", "request", "signal", "spin", "clear"}
  /\ call \in Calls \cup {None}
  /\ tx_pdu \in Argument \cup {None} /\ req \in Request \cup {None}
  /\ net_ack \in BOOLEAN /\ event \in BOOLEAN
  /\ netPc \in {"poll", "unack", "serve", "ack", "forget"}
  /\ ipc_req \in Request \cup {None}
  /\ reply \in [req : Request, arg : Argument] \cup {None}

\* The caller and the network core never touch the request at the same time:
\* while the network core executes, the caller spins, and what it executes is the
\* request and the argument of the call in progress.
ExecutesTheCall ==
  netPc \in {"unack", "serve", "ack"} =>
    appPc = "spin" /\ req = call.req /\ ipc_req = call.req /\ tx_pdu = call.arg

\* "Network core acked the latest request" (ipc.h:75): an acknowledgement the
\* caller can see is that of the call it is making.
AckIsForThisCall == appPc \in {"spin", "clear"} /\ net_ack => reply = call

\* The handshake implements the call the bootloader relies on.
Abstract == INSTANCE IpcCallSpec

ImplementsCall == Abstract!Spec

\* Every call returns: "while (!ipc_shared_data.net_ack) {}" ends (ipc.c:28).
CallReturns == appPc # "idle" ~> appPc = "idle"

\* The one way to lose a call is to make it between lines 447 and 448: if the
\* caller never calls again while the network core is about to forget the request
\* it acknowledged, every call returns.
CallsReturnOutsideWindow ==
  [](netPc = "forget" => appPc \in {"spin", "clear", "idle"}) => CallReturns
=============================================================================
