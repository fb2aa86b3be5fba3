---------------------------- MODULE MCWriteOffset ----------------------------
(* Values of the constants of WriteOffset for TLC *)
EXTENDS WriteOffset

\* single sends and a vector send
ReadCalls == {<<1>>, <<2>>, <<4>>, <<1, 3>>, <<2, 1>>}
\* regions short enough for send acknowledging: a call below half of the ring
SendCalls == {<<1>>, <<2>>, <<1, 1>>}
=============================================================================
