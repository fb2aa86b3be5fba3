--------------------------- MODULE MCWriteReverse ---------------------------
(* Values of the constants of WriteReverse for TLC *)
EXTENDS WriteReverse

\* short ones, and the longest one the sender accepts
ReverseLengths == {2, 3, Length - 1}
\* short enough for send acknowledging
ReverseSendLengths == {2, 3}
=============================================================================
