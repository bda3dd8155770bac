------------------------------ MODULE MCIpcCall ------------------------------
(* The four requests of ipc.h, and two contents of tx_pdu.                     *)
EXTENDS IpcCall

Requests4 == {"MARI_INIT", "MARI_NODE_TX", "RNG_INIT", "RNG_READ"}
=============================================================================
