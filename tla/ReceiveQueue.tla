---------------------------- MODULE ReceiveQueue ----------------------------
(***************************************************************************)
(* A queue of receive buffers (ReceiveQueue of receive_queue.cpp and        *)
(* SharedReceiveQueue of shared_receive_queue.cpp, whose PostMR is the      *)
(* same), and the polling of receive completions by an endpoint             *)
(* (endpoint.cpp).  Buffers are known by their work request ids.  A posted  *)
(* buffer is consumed by a message that arrives; PostMR gathers buffers and *)
(* posts them as one chain when its batch is full.                          *)
(***************************************************************************)
EXTENDS Integers, Sequences

CONSTANTS
  Inflight,    \* buffers of the queue
  Batch,       \* max_rcv_mr_: how many PostMR posts at once
  MaxWc        \* max_rcv_wc_: completions polled at once

ASSUME ReceiveQueueAssumption ==
  {Inflight, Batch, MaxWc} \subseteq Nat \ {0}

VARIABLES
  recvs,       \* buffers posted, in the order they will be consumed
  batch        \* recv_mr_wrs_ from current_rcv_mr_ on, in the array's order

rqVars == <<recvs, batch>>

Buffers == 0 .. Inflight - 1

\* GetReceiveQueue posts all buffers one by one
RQInit == recvs = [i \in 1 .. Inflight |-> i - 1] /\ batch = <<>>

\* A message that needs a receive buffer arrives
Consume ==
  /\ recvs # <<>>
  /\ recvs' = Tail(recvs)
  /\ UNCHANGED batch

\* Mutant of PostMR: the batch is posted and not emptied
PostMRTwice(id) ==
  LET gathered == <<id>> \o batch IN
  IF Len(gathered) = Batch
  THEN recvs' = recvs \o gathered /\ batch' = Tail(gathered)
  ELSE batch' = gathered /\ UNCHANGED recvs

\* Mutant of PostMR: the chain ends one entry early
PostMRShort(id) ==
  LET gathered == <<id>> \o batch IN
  IF Len(gathered) = Batch
  THEN recvs' = recvs \o Tail(gathered) /\ batch' = <<>>
  ELSE batch' = gathered /\ UNCHANGED recvs

\* PostMR fills the array from its end and posts it from its front, so the
\* buffer given back last is posted first
PostMR(id) ==
  LET gathered == <<id>> \o batch IN
  IF Len(gathered) = Batch
  THEN recvs' = recvs \o gathered /\ batch' = <<>>
  ELSE batch' = gathered /\ UNCHANGED recvs

-----------------------------------------------------------------------------
(* An endpoint polls its completion queue `cq` into an array; `cached` is    *)
(* recv_wcs_ from current_rcv_wc_ on, and a completion has the id of its     *)
(* buffer and what is known of the message.                                  *)

CanPoll(cached, cq) == cached # <<>> \/ cq # <<>>

\* The completion PollRecvCq returns
NextWc(cached, cq) == IF cached # <<>> THEN Head(cached) ELSE Head(cq)

Smaller(x, y) == IF x < y THEN x ELSE y

Refill(cq) ==
  LET n == Smaller(MaxWc, Len(cq)) IN
  [cached |-> SubSeq(cq, 2, n), cq |-> SubSeq(cq, n + 1, Len(cq))]

\* Mutant of AfterPoll: the array is filled again before it is used up
AfterPollEager(cached, cq) ==
  IF cq = <<>> THEN [cached |-> Tail(cached), cq |-> cq] ELSE Refill(cq)

\* Array and queue after PollRecvCq: the array is filled when it is used up,
\* and its next entry taken
AfterPoll(cached, cq) ==
  IF cached # <<>> THEN [cached |-> Tail(cached), cq |-> cq] ELSE Refill(cq)

Ids(wcs) == [i \in DOMAIN wcs |-> wcs[i].id]

RQTypeOK ==
  /\ recvs \in Seq(Buffers) /\ batch \in Seq(Buffers)
  /\ Len(batch) < Batch
=============================================================================
