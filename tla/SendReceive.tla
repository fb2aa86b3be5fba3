----------------------------- MODULE SendReceive -----------------------------
(***************************************************************************)
(* SendReceiveConnections accepted by a listener with a SharedReceiveQueue. *)
(* A send consumes one of the shared buffers, whichever connection it comes *)
(* in on.  Either every connection is received from and freed to by a       *)
(* thread of its own, which hands freed buffers through a queue to the      *)
(* thread in SharedReceiveQueue::Run; or the listener receives for all of   *)
(* them from one completion queue and posts freed buffers itself.           *)
(*                                                                          *)
(* Message n of connection c is the pair <<c, n>>.  A send that finds no    *)
(* buffer posted is retried, and breaks the connection after                *)
(* rnr_retry_count attempts.                                                *)
(***************************************************************************)
EXTENDS ReceiveQueue

CONSTANTS
  N,           \* the connections are 1 .. N, in the order of Accept
  Calls,       \* how many messages a call of SendAsync may post
  MaxSent      \* bound, by connection: no call once this many messages were sent

ASSUME SendReceiveAssumption ==
  /\ N \in Nat \ {0} /\ Calls \subseteq Nat \ {0} /\ MaxSent \in [1 .. N -> Nat]

Conns == 1 .. N
Listener == 0
Receivers == {Listener} \cup Conns

VARIABLES
  single,      \* single_receiver_ of the listener
  \* --- sender, by connection
  ends,        \* by id, the number of the last message of the call
  sendCq,      \* ids completed and not polled
  ackd,        \* ackd_id_
  waiting,     \* the id Wait waits for, 0 outside Wait
  \* --- queue pair, by connection
  delivered,   \* how many messages have arrived
  broken,
  \* --- receivers
  buf,         \* the message each receive buffer holds
  cq, cached,  \* receive completions, by receiver
  taken,       \* how many messages of a connection were received
  held,        \* messages received and not freed: buffer and message
  stub,        \* queues_: buffers handed to Run, by connection
  turn         \* the queue Run looks at next

sndVars == <<ends, sendCq, ackd, waiting>>
qpVars == <<delivered, broken>>
rcvVars == <<buf, cq, cached, taken, held, stub, turn, rqVars>>
vars == <<single, sndVars, qpVars, rcvVars>>

\* next_id_ starts at 1
Sent(c) == IF ends[c] = <<>> THEN 0 ELSE ends[c][Len(ends[c])]
ReceiverOf(c) == IF single THEN Listener ELSE c

Init ==
  /\ single \in BOOLEAN
  /\ ends = [c \in Conns |-> <<>>] /\ sendCq = [c \in Conns |-> <<>>]
  /\ ackd = [c \in Conns |-> 0] /\ waiting = [c \in Conns |-> 0]
  /\ delivered = [c \in Conns |-> 0] /\ broken = [c \in Conns |-> FALSE]
  /\ RQInit /\ buf = [b \in Buffers |-> <<>>]
  /\ cq = [r \in Receivers |-> <<>>] /\ cached = [r \in Receivers |-> <<>>]
  /\ taken = [c \in Conns |-> 0] /\ held = {}
  /\ stub = [c \in Conns |-> <<>>] /\ turn = 1

-----------------------------------------------------------------------------
(* Sender *)

\* SendAsync posts a message, or a chain of them of which the last is signaled
SendAsync(c) ==
  /\ waiting[c] = 0 /\ ~broken[c] /\ Sent(c) < MaxSent[c]
  /\ \E k \in Calls : ends' = [ends EXCEPT ![c] = Append(@, Sent(c) + k)]
  /\ UNCHANGED <<single, sendCq, ackd, waiting, qpVars, rcvVars>>

\* Mutant of Acked: the loop of Wait goes on until it meets the very id
AckedExactly(a, id) == a = id

Acked(a, id) == a >= id

\* Wait, for any call made so far, whose loop is not over at once
Wait(c) ==
  /\ waiting[c] = 0
  /\ \E id \in DOMAIN ends[c] :
       ~Acked(ackd[c], id) /\ waiting' = [waiting EXCEPT ![c] = id]
  /\ UNCHANGED <<single, ends, sendCq, ackd, qpVars, rcvVars>>

\* PollSendCq inside Wait, which returns once the id is acknowledged
WaitPoll(c) ==
  /\ waiting[c] # 0 /\ sendCq[c] # <<>>
  /\ ackd' = [ackd EXCEPT ![c] = Head(sendCq[c])]
  /\ sendCq' = [sendCq EXCEPT ![c] = Tail(@)]
  /\ waiting' = [waiting EXCEPT ![c] = IF Acked(ackd'[c], @) THEN 0 ELSE @]
  /\ UNCHANGED <<single, ends, qpVars, rcvVars>>

\* The queue pair is broken: its work requests complete with an error
WaitFail(c) ==
  /\ waiting[c] # 0 /\ sendCq[c] = <<>> /\ broken[c]
  /\ waiting' = [waiting EXCEPT ![c] = 0]
  /\ UNCHANGED <<single, ends, sendCq, ackd, qpVars, rcvVars>>

-----------------------------------------------------------------------------
(* The network *)

\* Mutant of Completes: the first message of a chain is the signaled one
CompletesFirst(c, n) ==
  {id \in DOMAIN ends[c] : n = 1 + (IF id = 1 THEN 0 ELSE ends[c][id - 1])}

\* The calls that message n completes
Completes(c, n) == {id \in DOMAIN ends[c] : ends[c][id] = n}

Deliver(c) ==
  LET n == delivered[c] + 1  r == ReceiverOf(c) IN
  /\ ~broken[c] /\ n <= Sent(c)
  /\ Consume
  /\ buf' = [buf EXCEPT ![Head(recvs)] = <<c, n>>]
  /\ cq' = [cq EXCEPT ![r] = Append(@, [id |-> Head(recvs), conn |-> c])]
  /\ delivered' = [delivered EXCEPT ![c] = n]
  /\ sendCq' = IF Completes(c, n) = {} THEN sendCq
               ELSE [sendCq EXCEPT ![c] =
                       Append(@, CHOOSE id \in Completes(c, n) : TRUE)]
  /\ UNCHANGED <<single, ends, ackd, waiting, broken, cached, taken, held,
                 stub, turn>>

\* The retries are used up before a buffer is posted
Break(c) ==
  /\ ~broken[c] /\ delivered[c] < Sent(c) /\ recvs = <<>>
  /\ broken' = [broken EXCEPT ![c] = TRUE]
  /\ UNCHANGED <<single, sndVars, delivered, rcvVars>>

-----------------------------------------------------------------------------
(* Receivers *)

\* A connection polls through its endpoint's array, the listener one by one
Polled(r) ==
  IF r = Listener THEN [cached |-> <<>>, cq |-> Tail(cq[r])]
  ELSE AfterPoll(cached[r], cq[r])

\* Receive of the connection or, for all of them, of the listener
Receive(r) ==
  /\ CanPoll(cached[r], cq[r])
  /\ LET wc == NextWc(cached[r], cq[r]) IN
     /\ held' = held \cup {[buf |-> wc.id, msg |-> <<wc.conn, taken[wc.conn] + 1>>]}
     /\ taken' = [taken EXCEPT ![wc.conn] = @ + 1]
  /\ cached' = [cached EXCEPT ![r] = Polled(r).cached]
  /\ cq' = [cq EXCEPT ![r] = Polled(r).cq]
  /\ UNCHANGED <<single, sndVars, qpVars, rqVars, buf, stub, turn>>

\* Free: SharedReceiveQueue::PostMR of the listener, or try_enqueue of the stub
Free ==
  \E h \in held :
    /\ held' = held \ {h}
    /\ IF single
       THEN PostMR(h.buf) /\ UNCHANGED stub
       ELSE /\ stub' = [stub EXCEPT ![h.msg[1]] = Append(@, h.buf)]
            /\ UNCHANGED rqVars
    /\ UNCHANGED <<single, sndVars, qpVars, buf, cq, cached, taken, turn>>

\* Mutant of NextTurn: the loop over queues_ stops one short
NextTurnShort == IF turn + 1 >= N THEN 1 ELSE turn + 1

NextTurn == IF turn = N THEN 1 ELSE turn + 1

\* SharedReceiveQueue::Run looks at one queue after the other, without end
Run ==
  /\ ~single
  /\ turn' = NextTurn
  /\ IF stub[turn] = <<>>
     THEN UNCHANGED <<stub, rqVars>>
     ELSE /\ PostMR(Head(stub[turn]))
          /\ stub' = [stub EXCEPT ![turn] = Tail(@)]
  /\ UNCHANGED <<single, sndVars, qpVars, buf, cq, cached, taken, held>>

-----------------------------------------------------------------------------
Next ==
  \/ \E c \in Conns : \/ SendAsync(c) \/ Wait(c) \/ WaitPoll(c) \/ WaitFail(c)
                      \/ Deliver(c) \/ Break(c)
  \/ \E r \in Receivers : Receive(r)
  \/ Free \/ Run

Spec == Init /\ [][Next]_vars

\* Threads and network go on whenever they can, and applications free what
\* they received; nobody has to send, to wait, or to break
FairSpec ==
  /\ Spec
  /\ \A c \in Conns : WF_vars(Deliver(c)) /\ WF_vars(WaitPoll(c) \/ WaitFail(c))
  /\ \A r \in Receivers : WF_vars(Receive(r))
  /\ WF_vars(Free) /\ WF_vars(Run)

-----------------------------------------------------------------------------
Completion == [id : Buffers, conn : Conns]

\* Every variable has its type.
TypeOK ==
  /\ single \in BOOLEAN /\ RQTypeOK
  /\ ends \in [Conns -> Seq(Nat)] /\ sendCq \in [Conns -> Seq(Nat)]
  /\ ackd \in [Conns -> Nat] /\ waiting \in [Conns -> Nat]
  /\ delivered \in [Conns -> Nat] /\ broken \in [Conns -> BOOLEAN]
  /\ buf \in [Buffers -> Conns \X Nat \cup {<<>>}]
  /\ cq \in [Receivers -> Seq(Completion)]
  /\ cached \in [Receivers -> Seq(Completion)] /\ cached[Listener] = <<>>
  /\ taken \in [Conns -> Nat] /\ held \subseteq [buf : Buffers, msg : Conns \X Nat]
  /\ stub \in [Conns -> Seq(Buffers)] /\ turn \in Conns

\* A message the application holds is the next one of its connection when it
\* was received, and its buffer is not used for another until Free.
HeldIntact == \A h \in held : buf[h.buf] = h.msg

\* Completions that were not received yet, in the order they will be
Pending(r) == cached[r] \o cq[r]

\* Each entry of each queue and each message held, with the buffer it is about
Entries(queue, place, owner) ==
  {<<queue[i], place, owner, i>> : i \in DOMAIN queue}
Whereabouts ==
  Entries(recvs, "posted", 0) \cup Entries(batch, "batch", 0)
    \cup {<<h.buf, "held", h.msg[1], h.msg[2]>> : h \in held}
    \cup (UNION {Entries(Ids(Pending(r)), "completed", r) : r \in Receivers})
    \cup (UNION {Entries(stub[c], "stub", c) : c \in Conns})

\* Every buffer is in exactly one place, whatever connection it came through:
\* posted, in PostMR's batch, in a completion, held, or on its way to Run.
BuffersConserved ==
  \A b \in Buffers :
    \E w \in Whereabouts : \A v \in Whereabouts : v[1] = b <=> v = w

\* What Receive, Free and SharedReceiveQueue::Run keep: no buffer is written while
\* its message is held, and all of them go round.
SendRecvInv == TypeOK /\ HeldIntact /\ BuffersConserved

\* When Wait returns without an error, the messages of the call it waited for
\* and of all calls before have arrived: ids complete in order.
WaitSound ==
  [][\A c \in Conns :
       (waiting[c] # 0 /\ waiting'[c] = 0 /\ ackd'[c] # ackd[c])
         => ends[c][waiting[c]] <= delivered[c]]_vars

\* Wait returns unless the connection breaks.
WaitReturns == \A c \in Conns : (waiting[c] # 0) ~> (waiting[c] = 0)

\* Every message sent is received unless its connection breaks: no connection
\* is starved of buffers by another, by Run or by the batch PostMR keeps back.
AllReceived == \A c \in Conns : []<>(taken[c] = Sent(c) \/ broken[c])
=============================================================================
