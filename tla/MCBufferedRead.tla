--------------------------- MODULE MCBufferedRead ---------------------------
(* Values of the constants of BufferedRead for TLC *)
EXTENDS BufferedRead

\* messages of three and six cells with their headers, which never fill a ring
\* of 16, and one that is too long
SomeLens == {2, 5, 17}
\* a copy at a multiple of the length of the ring, and one that is not
SomeBases == {96, 101}
=============================================================================
