----------------------------- MODULE MCConnect -----------------------------
(* Values of the constants of Connect for TLC *)
EXTENDS Connect

CONSTANTS c1, c2

Two == {c1, c2}

Opts(native, inline, use, given, data) ==
  [native |-> native, inline |-> inline, use_srq |-> use,
   srq |-> IF given THEN "given" ELSE "none", data |-> data]

\* either way to make the queue pair, with and without data and receive queue
OneOfEach ==
  {[c \in {c1, c2} |-> IF c = c1 THEN Opts(FALSE, FALSE, TRUE, TRUE, TRUE)
                                 ELSE Opts(TRUE, FALSE, FALSE, FALSE, TRUE)]}

SomeServers ==
  {Opts(FALSE, FALSE, FALSE, TRUE, TRUE), Opts(TRUE, FALSE, TRUE, FALSE, TRUE),
   Opts(TRUE, TRUE, FALSE, FALSE, FALSE)}
=============================================================================
