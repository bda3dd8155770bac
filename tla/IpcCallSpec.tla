----------------------------- MODULE IpcCallSpec -----------------------------
(***************************************************************************)
(* What a call of ipc_network_call() promises its caller: the network core *)
(* executes the request once, on the caller's argument, before the call    *)
(* returns.                                                                *)
(***************************************************************************)
CONSTANTS Request, Argument, None

VARIABLES
  call,   \* the call in progress: None or [req, arg]
  reply   \* what the network core executed for it: None or a call

specVars == <<call, reply>>

Calls == [req : Request, arg : Argument]

Init == call = None /\ reply = None

Invoke(c) == call = None /\ call' = c /\ UNCHANGED reply

Execute == call # None /\ reply = None /\ reply' = call /\ UNCHANGED call

Return == call # None /\ reply = call /\ call' = None /\ reply' = None

Next == (\E c \in Calls : Invoke(c)) \/ Execute \/ Return

Spec == Init /\ [][Next]_specVars
=============================================================================
