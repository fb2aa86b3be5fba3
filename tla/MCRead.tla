------------------------------- MODULE MCRead -------------------------------
(* Values of the constants of Read for TLC are those of its .cfg *)
EXTENDS Read
=============================================================================
