---------------------------- MODULE AlertQueueMC ----------------------------
(* AlertQueue on small instances: the constants of its runs.               *)
EXTENDS AlertQueue

Plain     == {[enabled |-> TRUE, tts |-> FALSE]}
Speaking  == {[enabled |-> TRUE, tts |-> TRUE]}
Switching == {[enabled |-> on, tts |-> FALSE] : on \in BOOLEAN}
=============================================================================
