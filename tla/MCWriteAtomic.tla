--------------------------- MODULE MCWriteAtomic ---------------------------
(* Values of the constants of WriteAtomic for TLC *)
EXTENDS WriteAtomic

CONSTANTS a, b

TwoSenders == {a, b}
OneBreaks == {b}
\* with a threshold of 2 and a ring of 6, a message of 4 is withheld if
\* it follows two of 1, and one of 1 or 3 never is
AtomicLengths == {1, 3, 4}
=============================================================================
