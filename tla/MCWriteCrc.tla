----------------------------- MODULE MCWriteCrc -----------------------------
(* Values of the constants of WriteCrc for TLC *)
EXTENDS WriteCrc, FifoMapping

\* regions with a header of two cells, single and in a vector
CrcCalls == {<<2>>, <<3>>, <<4>>, <<2, 3>>}
=============================================================================
