--------------------------- MODULE MCSendReceive ---------------------------
(* Values of the constants of SendReceive for TLC *)
EXTENDS SendReceive

\* single messages and a chain of two
OneOrTwo == {1, 2}
\* one connection calls twice, the other once
TwiceAndOnce == <<2, 1>>
=============================================================================
