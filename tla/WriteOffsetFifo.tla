--------------------------- MODULE WriteOffsetFifo ---------------------------
(* WriteOffset implements the FIFO channel with stable messages *)
EXTENDS MCWriteOffset, FifoMapping
=============================================================================
