-------------------------------- MODULE Read ---------------------------------
(***************************************************************************)
(* ReadConnection: the sender sends only where a message lies, the receiver *)
(* reads it from there and then writes a 1 into the byte before it, which   *)
(* tells the sender's Wait that the region may be used again.  With `fence` *)
(* read and acknowledgement are posted as one chain, and the device holds   *)
(* the second back; without, the acknowledgement is kept in a slot until    *)
(* WaitReceive has seen the read complete.                                  *)
(***************************************************************************)
EXTENDS QueuePair, ReceiveQueue, FiniteSets

CONSTANTS
  Regions,     \* send regions of the client, which sends
  Window,      \* receives the server's caller starts before it waits for one
  MaxRcv,      \* max_rcv: slots for acknowledgements, 512 in the code
  Long,        \* messages that are longer than the region to receive into
  MaxMsgs      \* bound: messages

ASSUME ReadAssumption ==
  /\ {Regions, Window, MaxRcv, MaxMsgs} \subseteq Nat \ {0}
  /\ Long \subseteq 1 .. MaxMsgs /\ Cardinality(Long) < Regions

VARIABLES
  fence,       \* fence_, of either end
  \* --- client
  sent,        \* messages sent
  waiting,     \* regions of sends not waited for
  \* --- server
  next_rcv_id, ackd_rcv_id,
  outstanding, \* outstanding_read_wr_: where the acknowledgement of a slot goes
  reads,       \* receives not waited for: id, region to receive into, message
  got          \* what the caller found: number of the message, and data

clientVars == <<sent, waiting>>
serverVars == <<next_rcv_id, ackd_rcv_id, outstanding, reads, got>>
vars == <<qpVars, rqVars, fence, clientVars, serverVars>>

\* One region to receive into for each receive the caller may start
Into(id) == <<"into", id % Window>>
Slot(id) == id % MaxRcv
Locations == ({"data", "flag"} \X (1 .. Regions)) \cup {Into(i) : i \in 0 .. Window - 1}

-----------------------------------------------------------------------------
(* The client                                                               *)

\* The caller fills a region, whose flag GetMemoryRegion or the last Wait has
\* cleared; SendAsync drains the send completion queue and sends the request
SendAsync ==
  /\ sent < MaxMsgs
  /\ \E r \in (1 .. Regions) \ waiting :
       /\ mem' = [mem EXCEPT ![Client][<<"data", r>>] = sent + 1]
       /\ PostSendRaw(Client, <<PostInline(0, [addr |-> r, msg |-> sent + 1])>>)
       /\ waiting' = waiting \cup {r}
  /\ Drain(Client)
  /\ sent' = sent + 1
  /\ UNCHANGED <<flight, inbox, rqVars, fence, serverVars>>

\* Wait spins on the flag of its region and clears it
Wait(r) ==
  /\ r \in waiting /\ mem[Client][<<"flag", r>>] # 0
  /\ mem' = [mem EXCEPT ![Client][<<"flag", r>>] = 0]
  /\ waiting' = waiting \ {r}
  /\ UNCHANGED <<sq, flight, scq, inbox, rqVars, fence, sent, serverVars>>

-----------------------------------------------------------------------------
(* The server                                                               *)

\* ReceiveRequest: the oldest request is copied and its buffer given back
ReceiveRequest ==
  /\ inbox[Server] # <<>>
  /\ inbox' = [inbox EXCEPT ![Server] = Tail(@)]
  /\ PostMR(Head(inbox[Server]).id)
Req == Head(inbox[Server]).req

\* Mutant of RateLimit: one less
RateLimitEarly == next_rcv_id + 1 > ackd_rcv_id + MaxRcv

\* ReadInto refuses to start more reads than there are slots
RateLimit == next_rcv_id > ackd_rcv_id + MaxRcv

Ack(id, r, signaled, fenced) ==
  WriteRequest(id, signaled, fenced, <<PutInline(<<"flag", r>>, 1)>>)
Fetch(id, r, signaled) ==
  [op |-> "READ", id |-> id, signaled |-> signaled, fence |-> FALSE,
   from |-> <<"data", r>>, to |-> Into(id)]

\* Mutant of Chain: the acknowledgement is not fenced
ChainLoose(id, r) ==
  IF fence THEN <<Fetch(id, r, FALSE), Ack(id, r, TRUE, FALSE)>>
           ELSE <<Fetch(id, r, TRUE)>>

\* What ReadInto posts
Chain(id, r) ==
  IF fence THEN <<Fetch(id, r, FALSE), Ack(id, r, TRUE, TRUE)>>
           ELSE <<Fetch(id, r, TRUE)>>

ReadInto(req) ==
  LET id == next_rcv_id IN
  /\ next_rcv_id' = id + 1
  /\ outstanding' = IF fence THEN outstanding
                    ELSE [outstanding EXCEPT ![Slot(id)] = req.addr]
  /\ PostSendRaw(Server, Chain(id, req.addr))
  /\ reads' = Append(reads, [id |-> id, msg |-> req.msg])

\* ReceiveAsync, and the first part of Receive.  A request that cannot be read
\* now, or whose message is too long, is gone, and its sender is told nothing.
ReceiveAsync ==
  /\ Len(reads) < Window
  /\ ReceiveRequest
  /\ IF Req.msg \in Long \/ RateLimit
       THEN UNCHANGED <<sq, next_rcv_id, outstanding, reads>>
       ELSE ReadInto(Req)
  /\ UNCHANGED <<mem, flight, scq, fence, clientVars, ackd_rcv_id, got>>

\* WaitReceive polls the send completion queue until the oldest receive is done,
WaitReceivePoll ==
  /\ reads # <<>> /\ ackd_rcv_id < Head(reads).id
  /\ PollSendCq(Server)
  /\ ackd_rcv_id' = Polled(Server)
  /\ UNCHANGED <<mem, sq, flight, inbox, rqVars, fence, clientVars,
                 next_rcv_id, outstanding, reads, got>>

\* Mutant of Acknowledge: of the slot after, the next to be waited for
AcknowledgeNext(id) == <<Ack(id, outstanding[Slot(id + 1)], FALSE, FALSE)>>

\* The acknowledgement kept in the slot
Acknowledge(id) == <<Ack(id, outstanding[Slot(id)], FALSE, FALSE)>>

\* and without fence acknowledges it; then the caller looks at the message
WaitReceiveReturn ==
  /\ reads # <<>> /\ ackd_rcv_id >= Head(reads).id
  /\ IF fence THEN UNCHANGED sq
              ELSE PostSendRaw(Server, Acknowledge(Head(reads).id))
  /\ got' = Append(got, [msg |-> Head(reads).msg,
                         data |-> mem[Server][Into(Head(reads).id)]])
  /\ reads' = Tail(reads)
  /\ UNCHANGED <<mem, flight, scq, inbox, rqVars, fence, clientVars,
                 next_rcv_id, ackd_rcv_id, outstanding>>

-----------------------------------------------------------------------------
(* The device.  A message takes the next receive buffer; with none posted    *)
(* the connection would break, as rnr_retry_count is 0.                      *)

SendArrives ==
  /\ sq[Client] # <<>> /\ recvs # <<>>
  /\ Deliver(Client, [id |-> Head(recvs), req |-> Head(sq[Client]).val])
  /\ Consume
  /\ UNCHANGED <<fence, clientVars, serverVars>>

Device ==
  /\ Place(Server) \/ Start(Server) \/ Complete(Server) \/ Complete(Client)
  /\ UNCHANGED <<rqVars, fence, clientVars, serverVars>>

Init ==
  /\ QPInit([e \in Ends |-> [l \in Locations |-> 0]]) /\ RQInit
  /\ fence \in BOOLEAN
  /\ sent = 0 /\ waiting = {}
  /\ next_rcv_id = 1 /\ ackd_rcv_id = 0
  /\ outstanding = [i \in 0 .. MaxRcv - 1 |-> 0] /\ reads = <<>> /\ got = <<>>

Next ==
  \/ SendAsync \/ \E r \in 1 .. Regions : Wait(r)
  \/ ReceiveAsync \/ WaitReceivePoll \/ WaitReceiveReturn
  \/ SendArrives \/ Device

Spec == Init /\ [][Next]_vars

\* Callers go on calling, calls go on spinning, and the device makes progress.
\* No behaviour is endless, so that this is the same as fairness of every step.
FairSpec == Spec /\ WF_vars(Next)

-----------------------------------------------------------------------------
(* Properties                                                               *)

\* The values every variable may have; no receive buffer is lost or posted twice
TypeOK ==
  /\ RQTypeOK /\ fence \in BOOLEAN /\ sent \in 0 .. MaxMsgs
  /\ waiting \subseteq 1 .. Regions
  /\ next_rcv_id \in 1 .. MaxMsgs + 1 /\ ackd_rcv_id \in 0 .. next_rcv_id - 1
  /\ outstanding \in [0 .. MaxRcv - 1 -> 0 .. Regions]
  /\ Len(recvs) + Len(batch) + Len(inbox[Server]) = Inflight
  /\ Len(reads) <= Window
  /\ \A l \in Locations : mem[Client][l] \in 0 .. MaxMsgs

\* What a receiver finds is the message that was announced: a sender's Wait never
\* returns, and its caller never fills the region again, before the data has
\* been read, however late the device fetches it.  Messages come in order, once.
ReadWhole ==
  /\ \A i \in DOMAIN got : got[i].data = got[i].msg
  /\ \A i, j \in DOMAIN got : i < j => got[i].msg < got[j].msg

\* No acknowledgement comes for a region nobody waits for, now or later: the next
\* Wait on it would return at once
AcksAwaited ==
  \A r \in 1 .. Regions : r \notin waiting =>
    /\ mem[Client][<<"flag", r>>] = 0
    /\ \A i \in DOMAIN sq[Server] :
         LET w == sq[Server][i] IN w.op = "WRITE" => w.puts[1].at # <<"flag", r>>

\* A request never finds the receiver without a buffer, although PostMR keeps some
\* back: the sender has no more regions than are certainly posted
NeverRefused ==
  Regions + Batch - 1 <= Inflight =>
    ~(sq[Client] # <<>> /\ recvs = <<>>)

\* What SendRequest, WaitReceive and PostMR keep between the two ends: buffers for
\* requests go round, and an acknowledgement answers one request.
ReadInv == TypeOK /\ AcksAwaited /\ NeverRefused

\* All messages are sent, and those that fit are received and their sends end
Finishes ==
  <>[](/\ sent = MaxMsgs /\ Cardinality(waiting) = Cardinality(Long)
       /\ {got[i].msg : i \in DOMAIN got} = (1 .. MaxMsgs) \ Long)
=============================================================================
