------------------------------ MODULE MCRuntime ------------------------------
(* The sample image (sample/Source/main.c); an image that makes no call      *)
(* through the network core, on a calibrated robot; and one that uses the    *)
(* other entry points and handles the lighthouse interrupt.                  *)
EXTENDS Runtime

Sample == [calls    |-> <<"delay", "keep_alive", "send_data", "log">>,
           handlers |-> {"TIMER0", "IPC"}]
Short  == [calls    |-> <<"keep_alive", "get_position">>, handlers |-> {"IPC"}]
Other  == [calls    |-> <<"keep_alive", "log", "send_raw">>,
           handlers |-> {"SPIM4"}]

AllImages  == {Sample, Short, Other}
OnLh2      == {Short, Other}
OnlySample == {Sample}
Nobody     == {}
===============================================================================
