--------------------------- MODULE MCConnectivity ---------------------------
(* Bounds for TLC.  A tick is about 10 s: the delays are shortened and keep *)
(* the order of the code's (trust of a probe 10 s, breaker 15 s, the loop    *)
(* with operations 15 s, the loop without 60 s).                             *)
EXTENDS Connectivity

=============================================================================
