--------------------------- MODULE MCDirectWrite ---------------------------
(* Values of the constants of DirectWrite for TLC are those of its .cfg *)
EXTENDS DirectWrite
=============================================================================
