------------------------------ MODULE QueuePair ------------------------------
(***************************************************************************)
(* Two connected queue pairs, with the memory of both ends, and the part of *)
(* Endpoint that posts work requests to them and polls their send           *)
(* completion queues.  The device is modelled by what the code relies on:   *)
(* requests start in order, a write is placed from its first to its last    *)
(* part, inline data is copied when it is posted and other data when it is  *)
(* sent, a read may fetch its data after later requests took effect unless  *)
(* those are fenced, and completions come in order.                         *)
(***************************************************************************)
EXTENDS Integers, Sequences

Client == "client"
Server == "server"
Ends == {Client, Server}
Peer(e) == IF e = Client THEN Server ELSE Client

VARIABLES
  mem,         \* by end, what its memory holds
  sq,          \* by end, requests posted and not started, or not yet placed
  flight,      \* requests started and not completed
  scq,         \* ids of completions not polled
  inbox        \* messages of SEND requests that arrived, not received

qpVars == <<mem, sq, flight, scq, inbox>>

-----------------------------------------------------------------------------
(* Work requests.  A write lists what it places where: `at` there, the value *)
(* `val` if it is inline, or else what is found at `from` here.              *)

Put(at, from) == [at |-> at, inline |-> FALSE, from |-> from]
PutInline(at, val) == [at |-> at, inline |-> TRUE, val |-> val]

WriteRequest(ctx, signaled, fence, puts) ==
  [op |-> "WRITE", id |-> ctx, signaled |-> signaled, fence |-> fence,
   puts |-> puts]

PostWrite(ctx, puts) == WriteRequest(ctx, TRUE, FALSE, puts)

PostWriteInline(ctx, at, val) ==
  WriteRequest(ctx, TRUE, FALSE, <<PutInline(at, val)>>)

PostInline(ctx, val) ==
  [op |-> "SEND", id |-> ctx, signaled |-> TRUE, fence |-> FALSE, val |-> val]

\* A chain of requests is posted as one
PostSendRaw(e, wrs) == sq' = [sq EXCEPT ![e] = @ \o wrs]

\* PollSendCq, when a completion is there: it is taken, and its id known
PollSendCq(e) == scq[e] # <<>> /\ scq' = [scq EXCEPT ![e] = Tail(@)]
Polled(e) == Head(scq[e])

\* PollSendCqOnce, called until it finds nothing
Drain(e) == scq' = [scq EXCEPT ![e] = <<>>]

-----------------------------------------------------------------------------
(* The device                                                               *)

Fenced(e) ==
  Head(sq[e]).fence /\ \E i \in DOMAIN flight[e] : flight[e][i].op = "READ"

\* The first part of the first write that is not placed is placed
Place(e) ==
  /\ sq[e] # <<>> /\ Head(sq[e]).op = "WRITE" /\ ~Fenced(e)
  /\ LET w == Head(sq[e])  p == Head(w.puts) IN
     /\ mem' = [mem EXCEPT ![Peer(e)][p.at] =
                  IF p.inline THEN p.val ELSE mem[e][p.from]]
     /\ IF Len(w.puts) > 1
          THEN /\ sq' = [sq EXCEPT ![e][1].puts = Tail(@)]
               /\ UNCHANGED flight
          ELSE /\ sq' = [sq EXCEPT ![e] = Tail(@)]
               /\ flight' = [flight EXCEPT ![e] = Append(@, w)]
  /\ UNCHANGED <<scq, inbox>>

\* A read starts; its data comes when it completes
Start(e) ==
  /\ sq[e] # <<>> /\ Head(sq[e]).op = "READ" /\ ~Fenced(e)
  /\ sq' = [sq EXCEPT ![e] = Tail(@)]
  /\ flight' = [flight EXCEPT ![e] = Append(@, Head(sq[e]))]
  /\ UNCHANGED <<mem, scq, inbox>>

\* A message is delivered: it starts when the peer has a buffer for it
Deliver(e, m) ==
  /\ sq[e] # <<>> /\ Head(sq[e]).op = "SEND" /\ ~Fenced(e)
  /\ sq' = [sq EXCEPT ![e] = Tail(@)]
  /\ flight' = [flight EXCEPT ![e] = Append(@, Head(sq[e]))]
  /\ inbox' = [inbox EXCEPT ![Peer(e)] = Append(@, m)]
  /\ UNCHANGED <<mem, scq>>

\* The first request in flight completes; if it is a read its data arrives
Complete(e) ==
  /\ flight[e] # <<>>
  /\ LET w == Head(flight[e]) IN
     /\ mem' = IF w.op = "READ"
                 THEN [mem EXCEPT ![e][w.to] = mem[Peer(e)][w.from]] ELSE mem
     /\ scq' = [scq EXCEPT ![e] = IF w.signaled THEN Append(@, w.id) ELSE @]
  /\ flight' = [flight EXCEPT ![e] = Tail(@)]
  /\ UNCHANGED <<sq, inbox>>

QPInit(m) ==
  /\ mem = m
  /\ sq = [e \in Ends |-> <<>>] /\ flight = [e \in Ends |-> <<>>]
  /\ scq = [e \in Ends |-> <<>>] /\ inbox = [e \in Ends |-> <<>>]
=============================================================================
