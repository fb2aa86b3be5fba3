----------------------------- MODULE MCWriteImm -----------------------------
(* Values of the constants of WriteImm for TLC *)
EXTENDS WriteImm, FifoMapping

\* single sends and vector sends, of messages that fill the ring or are small
\* enough for more of them than there are receive buffers
ImmCalls == {<<1>>, <<2>>, <<4>>, <<1, 1>>, <<3, 1>>}
=============================================================================
