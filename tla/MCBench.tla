------------------------------ MODULE MCBench ------------------------------
(* Values of the constants of Bench for TLC *)
EXTENDS Bench

Of(test, recv, conns, counts, unacks, batches) ==
  [test : {test}, recv : {recv}, conns : {conns}, count : counts,
   unack : unacks, batch : batches]

\* one connection with windows and batches up to and beyond the test; two
\* connections served in each of the three ways
SmallSetups ==
  Of("bw", "each", 1, {1, 5}, {1, 3, 6}, {1})
    \cup Of("bw", "each", 2, {2}, {1}, {1})
    \cup Of("bw", "vector", 2, {3}, {2}, {1})
    \cup Of("bw", "single", 2, {2}, {2}, {1})
    \cup Of("limit", "each", 1, {5}, {2}, {1})
    \cup Of("batch", "each", 1, {4, 5}, {2, 4, 6}, {2, 3})
    \cup Of("lat", "each", 1, {5}, {1}, {1})
    \cup Of("pingpong", "each", 1, {5}, {1}, {1})
=============================================================================
