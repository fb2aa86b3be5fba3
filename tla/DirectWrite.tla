----------------------------- MODULE DirectWrite -----------------------------
(***************************************************************************)
(* DirectWriteConnection: messages are written straight into buffers of the *)
(* receiver.  Each end keeps for the other an array of descriptors of free  *)
(* buffers, target_buf_, which the other fills in the order in which it     *)
(* frees them, and goes round with its messages; the receiver goes round    *)
(* rcv_buffers_, the array of what it wrote, and waits for the length at    *)
(* the end of the next buffer.  Nothing but the order of all this says      *)
(* which message is in which buffer.                                        *)
(***************************************************************************)
EXTENDS QueuePair, FiniteSets

CONSTANTS
  NrBuffers,   \* nr_buffers_, 128 in the code
  Regions,     \* regions a sender allocates
  MaxMsgs,     \* bound: messages, if only the client sends
  MaxTurns     \* bound: messages of each end, if both send

ASSUME DirectWriteAssumption ==
  {NrBuffers, Regions, MaxMsgs, MaxTurns} \subseteq Nat \ {0}

VARIABLES
  duplex,      \* do both ends send, each in turn, or does the client only?
  pc,          \* by end, where its thread is: "setup", "idle" or in a call
  arg,         \* what that call is about
  next_id, ackd_id,
  rcv_buffers, rcv_head, rcv_tail,
  waiting,     \* sends not waited for, in order: id, region
  received,    \* how many messages Receive returned
  held         \* received and not freed: buffer, number

dwVars == <<next_id, ackd_id, rcv_buffers, rcv_head, rcv_tail>>
callerVars == <<duplex, waiting, received, held>>
vars == <<qpVars, pc, arg, dwVars, callerVars>>

Slots == 0 .. NrBuffers - 1
Buffers == 1 .. NrBuffers
Next1(i) == (i + 1) % NrBuffers
Slot(id) == id % NrBuffers

\* Memory: descriptors of target_buf_, receive buffers and send regions, these
\* two with what precedes their length and the length at their end
Locations ==
  ({"target"} \X Slots) \cup ({"rcv", "rcv_len"} \X Buffers)
    \cup ({"snd", "snd_len"} \X (1 .. Regions))
NoDescriptor == [addr |-> 0, valid |-> FALSE]
Descriptor(b) == [addr |-> b, valid |-> TRUE]
Descriptors == [addr : {0} \cup Buffers, valid : BOOLEAN]

Sent(e) == next_id[e] - 1
Idle(e) == pc[e] = "idle"
Goto(e, where, what) ==
  pc' = [pc EXCEPT ![e] = where] /\ arg' = [arg EXCEPT ![e] = what]

-----------------------------------------------------------------------------
(* Sending                                                                  *)

\* A caller that also receives waits for each send at once, and ping-pong
\* takes turns: the client first
MayCall(e) == Idle(e) /\ (duplex => waiting[e] = <<>>)
Turn(e) ==
  IF duplex THEN Sent(e) = received[e] - (IF e = Client THEN 0 ELSE 1)
            ELSE e = Client
\* Only these buffers matter: those the other end never writes to are left out
Receives(e) == duplex \/ e = Server
Limit == IF duplex THEN MaxTurns ELSE MaxMsgs
Used(e) == {waiting[e][i].region : i \in DOMAIN waiting[e]}

\* GetMemoryRegion writes the length, the caller its message, and SendAsync
\* spins until the descriptor is valid, then reads it
SendAsync(e) ==
  /\ MayCall(e) /\ Turn(e) /\ Sent(e) < Limit
  /\ mem[e][<<"target", Slot(next_id[e])>>].valid
  /\ \E r \in (1 .. Regions) \ Used(e) :
       /\ mem' = [mem EXCEPT ![e][<<"snd", r>>] = next_id[e],
                             ![e][<<"snd_len", r>>] = 1]
       /\ Goto(e, "sending",
               [region |-> r, id |-> next_id[e],
                addr |-> mem[e][<<"target", Slot(next_id[e])>>].addr])
  /\ next_id' = [next_id EXCEPT ![e] = @ + 1]
  /\ UNCHANGED <<sq, flight, scq, inbox, ackd_id, rcv_buffers, rcv_head,
                 rcv_tail, callerVars>>

\* Mutant of Message: the length is at the front
MessageFront(w) ==
  PostWrite(w.id, <<Put(<<"rcv_len", w.addr>>, <<"snd_len", w.region>>),
                    Put(<<"rcv", w.addr>>, <<"snd", w.region>>)>>)

\* The whole buffer is written, whose end is its length
Message(w) ==
  PostWrite(w.id, <<Put(<<"rcv", w.addr>>, <<"snd", w.region>>),
                    Put(<<"rcv_len", w.addr>>, <<"snd_len", w.region>>)>>)

\* Mutant of Write: the descriptor is invalidated after the write is posted
WriteThenClear(e) ==
  /\ waiting' = IF pc[e] = "sending"
                  THEN [waiting EXCEPT ![e] = Append(@, [id |-> arg[e].id,
                                                        region |-> arg[e].region])]
                  ELSE waiting
  /\ \/ /\ pc[e] = "sending" /\ Goto(e, "sent", arg[e])
        /\ PostSendRaw(e, <<Message(arg[e])>>) /\ UNCHANGED mem
     \/ /\ pc[e] = "sent" /\ Goto(e, "idle", 0)
        /\ mem' = [mem EXCEPT ![e][<<"target", Slot(arg[e].id)>>].valid = FALSE]
        /\ UNCHANGED sq
  /\ UNCHANGED <<flight, scq, inbox, dwVars, duplex, received, held>>

\* and then invalidates the descriptor and posts the write
Write(e) ==
  /\ pc[e] = "sending"
  /\ mem' = [mem EXCEPT ![e][<<"target", Slot(arg[e].id)>>].valid = FALSE]
  /\ PostSendRaw(e, <<Message(arg[e])>>)
  /\ waiting' = [waiting EXCEPT ![e] =
                   Append(@, [id |-> arg[e].id, region |-> arg[e].region])]
  /\ Goto(e, "idle", 0)
  /\ UNCHANGED <<flight, scq, inbox, dwVars, duplex, received, held>>

\* Wait for the oldest send: the caller's buffers come back in order
WaitStart(e) ==
  /\ Idle(e) /\ waiting[e] # <<>>
  /\ Goto(e, "waiting", Head(waiting[e]).id)
  /\ UNCHANGED <<qpVars, dwVars, callerVars>>

WaitPoll(e) ==
  /\ pc[e] = "waiting" /\ ackd_id[e] < arg[e]
  /\ PollSendCq(e)
  /\ ackd_id' = [ackd_id EXCEPT ![e] = Polled(e)]
  /\ UNCHANGED <<mem, sq, flight, inbox, pc, arg, next_id, rcv_buffers,
                 rcv_head, rcv_tail, callerVars>>

WaitReturn(e) ==
  /\ pc[e] = "waiting" /\ ackd_id[e] >= arg[e]
  /\ waiting' = [waiting EXCEPT ![e] = Tail(@)]
  /\ Goto(e, "idle", 0)
  /\ UNCHANGED <<qpVars, dwVars, duplex, received, held>>

-----------------------------------------------------------------------------
(* Receiving                                                                *)

\* Receive spins on the length in the next buffer.  The caller must have given
\* back one of its buffers: Receive does not look at the valid flag.
Receive(e) ==
  /\ MayCall(e) /\ Receives(e) /\ Cardinality(held[e]) < NrBuffers
  /\ LET b == rcv_buffers[e][rcv_head[e]].addr IN
     /\ mem[e][<<"rcv_len", b>>] # 0
     /\ held' = [held EXCEPT ![e] = @ \cup {[buf |-> b, msg |-> received[e] + 1]}]
  /\ rcv_buffers' = [rcv_buffers EXCEPT ![e][rcv_head[e]].valid = FALSE]
  /\ rcv_head' = [rcv_head EXCEPT ![e] = Next1(@)]
  /\ received' = [received EXCEPT ![e] = @ + 1]
  /\ UNCHANGED <<qpVars, pc, arg, next_id, ackd_id, rcv_tail, duplex, waiting>>

\* Free of any region, and of all buffers in turn by Dial and Accept: first the
\* length is cleared,
FreeClear(e) ==
  /\ \/ pc[e] = "setup" \/ MayCall(e)
  /\ \E h \in held[e] :
       /\ pc[e] = "setup" => \A g \in held[e] : h.buf <= g.buf
       /\ mem' = [mem EXCEPT ![e][<<"rcv_len", h.buf>>] = 0]
       /\ Goto(e, "freeing", h)
  /\ UNCHANGED <<sq, flight, scq, inbox, dwVars, callerVars>>

\* Mutant of FreeSlot: a buffer goes back to its own place
FreeSlotOwn(e) == Slot(arg[e].buf)

\* Where Free puts the descriptor, here and there
FreeSlot(e) == rcv_tail[e]

\* then the send completion queue is drained, and the descriptor is sent and
\* remembered.  Its request has the region's context, which is 0.
FreeWrite(e) ==
  /\ pc[e] = "freeing"
  /\ Drain(e)
  /\ PostSendRaw(e, <<PostWriteInline(0, <<"target", rcv_tail[e]>>,
                                      Descriptor(arg[e].buf))>>)
  /\ rcv_buffers' = [rcv_buffers EXCEPT ![e][FreeSlot(e)] = Descriptor(arg[e].buf)]
  /\ rcv_tail' = [rcv_tail EXCEPT ![e] = Next1(@)]
  /\ held' = [held EXCEPT ![e] = @ \ {arg[e]}]
  /\ Goto(e, IF \E h \in held[e] \ {arg[e]} : h.msg = 0 THEN "setup" ELSE "idle", 0)
  /\ UNCHANGED <<mem, flight, inbox, next_id, ackd_id, rcv_head, duplex,
                 waiting, received>>

-----------------------------------------------------------------------------
Init ==
  /\ duplex \in BOOLEAN
  /\ QPInit([e \in Ends |-> [l \in Locations |->
               IF l[1] = "target" THEN NoDescriptor ELSE 0]])
  /\ pc = [e \in Ends |-> IF Receives(e) THEN "setup" ELSE "idle"]
  /\ arg = [e \in Ends |-> 0]
  /\ next_id = [e \in Ends |-> 1] /\ ackd_id = [e \in Ends |-> 0]
  /\ rcv_buffers = [e \in Ends |-> [i \in Slots |-> NoDescriptor]]
  /\ rcv_head = [e \in Ends |-> Slot(1)] /\ rcv_tail = [e \in Ends |-> Slot(1)]
  /\ waiting = [e \in Ends |-> <<>>] /\ received = [e \in Ends |-> 0]
  /\ held = [e \in Ends |-> IF Receives(e)
                THEN {[buf |-> b, msg |-> 0] : b \in Buffers} ELSE {}]

Device(e) == (Place(e) \/ Complete(e)) /\ UNCHANGED <<pc, arg, dwVars, callerVars>>

Next ==
  \E e \in Ends :
    \/ SendAsync(e) \/ Write(e) \/ WaitStart(e) \/ WaitPoll(e) \/ WaitReturn(e)
    \/ Receive(e) \/ FreeClear(e) \/ FreeWrite(e) \/ Device(e)

Spec == Init /\ [][Next]_vars

\* Callers go on calling, calls go on spinning, and the device makes progress.
\* No behaviour is endless, so that this is the same as fairness of every step.
FairSpec == Spec /\ WF_vars(Next)

-----------------------------------------------------------------------------
(* Properties                                                               *)

\* The values every variable may have
TypeOK ==
  /\ duplex \in BOOLEAN
  /\ pc \in [Ends -> {"setup", "idle", "sending", "waiting", "freeing"}]
  /\ next_id \in [Ends -> 1 .. Limit + 1] /\ ackd_id \in [Ends -> 0 .. Limit]
  /\ rcv_buffers \in [Ends -> [Slots -> Descriptors]]
  /\ {rcv_head, rcv_tail} \subseteq [Ends -> Slots]
  /\ received \in [Ends -> 0 .. Limit]
  /\ \A e \in Ends : Cardinality(Used(e)) = Len(waiting[e])
  /\ \A e \in Ends : \A g, h \in held[e] : g.buf = h.buf => g = h

\* The n-th message that Receive returns is the n-th that was sent, all of it,
\* and it stays until it is freed, in whatever order buffers are freed
HeldIntact ==
  \A e \in Ends : \A h \in held[e] :
    h.msg > 0 => /\ h.msg <= Sent(Peer(e))
                 /\ mem[e][<<"rcv", h.buf>>] = h.msg

\* What Receive and Free keep at the receiver: buffers have an owner each, and the
\* messages held stay.
DirectInv == TypeOK /\ HeldIntact

\* The indices of target buffers and receive buffers agree, which the FIXME at
\* direct_write.cpp:150 doubts: the message that the sender will write by a
\* descriptor is awaited by the receiver in the same buffer
InStep ==
  \A e \in Ends : \A i \in Slots :
    mem[e][<<"target", i>>].valid
      => /\ rcv_buffers[Peer(e)][i].addr = mem[e][<<"target", i>>].addr
         /\ rcv_buffers[Peer(e)][i].valid

\* Every message is received and every Wait returns: no descriptor and no
\* length is lost to the races between the threads and the device
Finishes ==
  <>[](/\ Sent(Client) = Limit
       /\ Sent(Server) = IF duplex THEN Limit ELSE 0
       /\ \A e \in Ends : received[e] = Sent(Peer(e)) /\ waiting[e] = <<>>)

-----------------------------------------------------------------------------
(* The inductive invariant behind DirectInv and InStep.  Frees and messages   *)
(* are numbered from 1 on: the message that an end sends next goes where the  *)
(* free with that number said.  For each end as a receiver, F is how many     *)
(* buffers it freed, D how many of their descriptors are with the sender, and *)
(* L how many messages landed; n numbers the requests that an end posted.     *)

\* What memory, requests and the caller's variables may be
Parts ==
  [at : Locations, inline : {FALSE}, from : Locations]
    \cup [at : Locations, inline : {TRUE}, val : Descriptors]
Requests ==
  [op : {"WRITE"}, id : Nat, signaled : {TRUE}, fence : {FALSE}, puts : Seq(Parts)]
Shapes ==
  /\ mem \in [Ends -> [Locations -> Nat \cup Descriptors]]
  /\ \A e \in Ends, j \in Slots : mem[e][<<"target", j>>] \in Descriptors
  /\ {sq, flight} \subseteq [Ends -> Seq(Requests)] /\ scq \in [Ends -> Seq(Nat)]
  /\ DOMAIN arg = Ends /\ arg = [e \in Ends |-> arg[e]]
  /\ waiting \in [Ends -> Seq([id : Nat, region : 1 .. Regions])]
  /\ held \in [Ends -> SUBSET [buf : Buffers, msg : Nat]]

\* The buffer of a free
At(e, i) == rcv_buffers[e][Slot(i)].addr

Posted(e) == IF pc[e] = "sending" THEN Sent(e) - 1 ELSE Sent(e)

\* The order in which sender and receiver go round their arrays
InTurn(e, F, D, L) ==
  /\ received[e] <= L[e] /\ L[e] <= Posted(Peer(e)) /\ Posted(Peer(e)) <= D[e]
  /\ D[e] <= F[e] /\ F[e] <= received[e] + NrBuffers
  /\ rcv_head[e] = Slot(received[e] + 1) /\ rcv_tail[e] = Slot(F[e] + 1)

\* Every buffer is held, or the array has it for a message to come, once
OneOwner(e, F) ==
  LET Awaited == received[e] + 1 .. F[e] IN
  /\ \A i \in Awaited : /\ rcv_buffers[e][Slot(i)] = Descriptor(At(e, i))
                        /\ At(e, i) \in Buffers
  /\ \A i, j \in Awaited : At(e, i) = At(e, j) => i = j
  /\ \A h \in held[e] : /\ h \in [buf : Buffers, msg : 0 .. received[e]]
                        /\ \A i \in Awaited : At(e, i) # h.buf
  /\ IF Receives(e)
     THEN \A b \in Buffers : \/ \E h \in held[e] : h.buf = b
                             \/ \E i \in Awaited : At(e, i) = b
     ELSE held[e] = {} /\ F[e] = 0

\* The valid descriptors at the sender
TargetsKnown(e, D) ==
  LET s == Peer(e)  Usable == Posted(s) + 1 .. D[e] IN
  /\ \A i \in Usable : mem[s][<<"target", Slot(i)>>] = Descriptor(At(e, i))
  /\ \A j \in Slots : mem[s][<<"target", j>>].valid
                        => \E i \in Usable : j = Slot(i)

\* What is in the buffers: messages that landed, or a length that is 0
BuffersFilled(e, F, L) ==
  /\ \A i \in received[e] + 1 .. L[e] :
       mem[e][<<"rcv_len", At(e, i)>>] = 1 /\ mem[e][<<"rcv", At(e, i)>>] = i
  /\ \A i \in L[e] + 1 .. F[e] : mem[e][<<"rcv_len", At(e, i)>>] = 0
  /\ \A h \in held[e] : h.msg > 0 => mem[e][<<"rcv", h.buf>>] = h.msg
  /\ pc[e] = "freeing" =>
       arg[e] \in held[e] /\ mem[e][<<"rcv_len", arg[e].buf>>] = 0

\* The requests posted: a message, of which the first part may be placed, or a
\* descriptor
IsMessage(e, k, i) ==
  LET w == sq[e][k]  r == Peer(e) IN
  /\ w.id = i
  /\ \E x \in DOMAIN waiting[e] :
       LET m == Message([id |-> i, region |-> waiting[e][x].region,
                         addr |-> At(r, i)]) IN
       /\ waiting[e][x].id = i
       /\ \/ w = m
          \/ /\ k = 1 /\ mem[r][<<"rcv", At(r, i)>>] = i
             /\ w = [m EXCEPT !.puts = Tail(@)]

IsDescriptor(e, k, i) ==
  sq[e][k] = PostWriteInline(0, <<"target", Slot(i)>>, Descriptor(At(e, i)))

\* Requests are posted, and started, in the order of their numbers
RequestsInOrder(e, F, D, L, n) ==
  LET r == Peer(e)
      Msgs == {k \in DOMAIN sq[e] : sq[e][k].id # 0}
      Descs == DOMAIN sq[e] \ Msgs IN
  /\ Len(n[e]) = Len(sq[e])
  /\ \A k \in Msgs : n[e][k] \in L[r] + 1 .. Posted(e) /\ IsMessage(e, k, n[e][k])
  /\ \A k \in Descs : n[e][k] \in D[e] + 1 .. F[e] /\ IsDescriptor(e, k, n[e][k])
  /\ \A k, l \in DOMAIN sq[e] :
       k < l /\ (k \in Msgs <=> l \in Msgs) => n[e][k] < n[e][l]
  /\ \A i \in L[r] + 1 .. Posted(e) : \E k \in Msgs : n[e][k] = i
  /\ \A i \in D[e] + 1 .. F[e] : \E k \in Descs : n[e][k] = i

\* The regions of sends not waited for, and of the call under way
RegionsKept(e, D) ==
  /\ \A x \in DOMAIN waiting[e] :
       LET w == waiting[e][x] IN
       /\ w \in [id : 1 .. Posted(e), region : 1 .. Regions]
       /\ mem[e][<<"snd", w.region>>] = w.id /\ mem[e][<<"snd_len", w.region>>] = 1
  /\ \A x, y \in DOMAIN waiting[e] :
       x # y => /\ waiting[e][x].region # waiting[e][y].region
                /\ waiting[e][x].id # waiting[e][y].id
  /\ pc[e] = "sending" =>
       LET a == arg[e] IN
       /\ a.id = Sent(e) /\ a.id \in 1 .. D[Peer(e)] /\ a.addr = At(Peer(e), a.id)
       /\ a.region \in (1 .. Regions) \ Used(e)
       /\ mem[e][<<"snd", a.region>>] = a.id /\ mem[e][<<"snd_len", a.region>>] = 1
  /\ pc[e] = "waiting" => waiting[e] # <<>> /\ arg[e] = waiting[e][1].id

\* Who learned of a completion learned of a message that landed
CompletedLanded(e, L) ==
  LET Done == 0 .. L[Peer(e)] IN
  /\ ackd_id[e] \in Done
  /\ \A k \in DOMAIN scq[e] : scq[e][k] \in Done
  /\ \A k \in DOMAIN flight[e] : flight[e][k].id \in Done /\ flight[e][k].op = "WRITE"

Agree(F, D, L, n) ==
  \A e \in Ends :
    /\ InTurn(e, F, D, L) /\ OneOwner(e, F) /\ TargetsKnown(e, D)
    /\ BuffersFilled(e, F, L) /\ RequestsInOrder(e, F, D, L, n)
    /\ RegionsKept(e, D) /\ CompletedLanded(e, L)

\* TypeOK strengthened until every step preserves it; DirectInv and InStep
\* follow from it (DirectWriteProofs).
IInv ==
  /\ TypeOK /\ Shapes
  /\ \E F, D, L \in [Ends -> Nat], n \in [Ends -> Seq(Nat)] : Agree(F, D, L, n)
=============================================================================
