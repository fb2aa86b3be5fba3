------------------------------ MODULE WriteImm ------------------------------
(***************************************************************************)
(* WriteImmSender and WriteImmReceiver: data is written with an immediate   *)
(* value, its length.  Each such write consumes a buffer of the receiver's  *)
(* ReceiveQueue and leaves a completion, by which Receive learns of it.  A  *)
(* write that finds no buffer posted breaks the connection (the endpoint    *)
(* options have rnr_retry_count 0): nothing the sender does is answered any *)
(* more, except by errors.                                                  *)
(***************************************************************************)
EXTENDS BufferedWrite, ReceiveQueue, FiniteSets

VARIABLES
  cq,          \* the receive completion queue: the buffer consumed, the
               \* length, and (place) of the message
  cached,      \* completions polled and not taken
  broken       \* a write found the receiver not ready

immVars == <<rqVars, cq, cached, broken>>
vars == <<baseVars, immVars>>

Init == BaseInit /\ RQInit /\ cq = <<>> /\ cached = <<>> /\ broken = FALSE

Post == PostCall /\ UNCHANGED immVars

\* The oldest write is executed, and consumes a receive buffer
Land ==
  /\ ~broken
  /\ LandWrite
  /\ Consume
  /\ cq' = Append(cq, [id |-> Head(recvs), len |-> msg[landed].len,
                        pos |-> landed])
  /\ UNCHANGED <<cached, broken>>

\* Receiver not ready
Break ==
  /\ ~broken /\ landed < posted /\ recvs = <<>>
  /\ broken' = TRUE
  /\ UNCHANGED <<baseVars, rqVars, cq, cached>>

\* The head arrives: read behind the writes, or sent by the receiver
GetHead ==
  /\ IF AckKind = "read" THEN ~broken /\ AckRead ELSE AckPoll
  /\ UNCHANGED immVars

\* Mutant of SendFail: the failed read is taken for one that is still to come
SendFailSpins == broken /\ spc = "get" /\ UNCHANGED vars

\* On a broken connection AckReceiver::Get returns an error, and SendAsync with
\* it.  What the call reserved stays reserved (the TODO in SendAsync).
SendFail ==
  /\ broken /\ spc = "get" /\ (AckKind = "read" \/ ackQ = <<>>)
  /\ spc' = "idle" /\ todo' = <<>>
  /\ UNCHANGED <<sndHead, sndTail, sndFull, reply, written, known, replyPos,
                 wireVars, rcvVars, mem, ackQ, immVars>>

\* WriteImmReceiver::Receive: a completion is taken, its buffer given back,
\* and a region of the length it names read from the ring
Receive ==
  /\ rpc = "idle"
  /\ CanPoll(cached, cq)
  /\ cached' = AfterPoll(cached, cq).cached /\ cq' = AfterPoll(cached, cq).cq
  /\ PostMR(NextWc(cached, cq).id)
  /\ ReadRegion(NextWc(cached, cq).len)
  /\ UNCHANGED broken

FreeStart == (\E k \in DOMAIN outstanding : FreeRegion(k)) /\ UNCHANGED immVars
FreeAck   == Acknowledge /\ UNCHANGED immVars

SendStart ==
  /\ ~broken /\ \E c \in Calls : SendAsync(c)
  /\ UNCHANGED immVars
SendRegion == Reserve    /\ UNCHANGED immVars
SendGet    == NeedHead   /\ UNCHANGED immVars
SendUpdate == UpdateHead /\ UNCHANGED immVars

Sender   == \/ SendStart \/ SendRegion \/ SendGet \/ SendUpdate
            \/ SendFail \/ Post
Network  == Land \/ Break \/ GetHead
Receiver == Receive \/ FreeStart \/ FreeAck

Next == Sender \/ Network \/ Receiver

Spec == Init /\ [][Next]_vars

\* Threads and network go on whenever they can; the application receives and
\* frees, but nobody has to start another send
FairSpec ==
  /\ Spec
  /\ WF_vars(SendRegion \/ SendGet \/ SendUpdate \/ SendFail \/ Post)
  /\ WF_vars(Network)
  /\ WF_vars(Receive) /\ WF_vars(FreeStart) /\ WF_vars(FreeAck)

-----------------------------------------------------------------------------
Completion == [id : Buffers, len : 1 .. Length - 1, pos : Nat]

\* Every variable has its type.
TypeOK ==
  /\ BaseTypeOK /\ RQTypeOK
  /\ {cq, cached} \subseteq Seq(Completion)
  /\ broken \in BOOLEAN

Owned == recvs \o Ids(cq) \o Ids(cached) \o batch

\* Every receive buffer is in exactly one place: posted, in a completion that
\* waits, or in PostMR's batch.  None is lost, none is posted twice.
BuffersConserved ==
  /\ Len(Owned) = Inflight
  /\ \A b \in Buffers : \E i \in DOMAIN Owned : Owned[i] = b

\* The completions name, one behind the other, the messages from the read pointer
\* on up to the last one landed
Waiting == cached \o cq
EndOf(wc) == wc.pos + wc.len
InTurn ==
  /\ read = (IF Waiting = <<>> THEN landed ELSE Waiting[1].pos)
  /\ \A i \in DOMAIN Waiting :
       /\ Waiting[i].pos \in DOMAIN msg
       /\ Waiting[i].len = msg[Waiting[i].pos].len
       /\ EndOf(Waiting[i]) = (IF i = Len(Waiting) THEN landed
                               ELSE Waiting[i + 1].pos)

\* The completions are those of the messages in the ring, in their order: what
\* Receive reads with an immediate value is the message sent next, whole.
CompletionsMatch ==
  /\ InTurn
  /\ \A i \in DOMAIN Waiting : \A j \in 0 .. Waiting[i].len - 1 :
       mem[(readPtr + Waiting[i].pos - read + j) % Length] = Waiting[i].pos + j

\* What Receive and PostMR keep: receive buffers go round, and what the
\* application holds stays.
ImmInv == TypeOK /\ BuffersConserved /\ HeldIntact

\* Nothing counts the messages under way.  Yet a write finds the receiver not
\* ready only if more of them are in the ring than there are buffers without
\* those a batch keeps back: what doc/thesis/evaluation.tex relies on ("We can
\* avoid any RNR errors for the write immediate sender by limiting the
\* ring-buffer size").
UnderWay == {p \in DOMAIN msg : read <= p /\ p < posted}
BreaksOnlyIfCrowded ==
  [][broken' # broken => Cardinality(UnderWay) > Inflight - (Batch - 1)]_vars

\* SendAsync returns: get_write_addr_or_die does not block forever.
SendReturns == (spc # "idle") ~> (spc = "idle")

-----------------------------------------------------------------------------
(* The inductive invariant behind the safety properties *)

\* No message announced begins before an earlier one ends
InOrder ==
  \A i, j \in DOMAIN Waiting : i < j => EndOf(Waiting[i]) <= Waiting[j].pos

\* TypeOK and BuffersConserved strengthened until every step preserves them;
\* CompletionsMatch and HeldIntact follow (WriteImmProofs).
IInv ==
  /\ TypeOK /\ BaseInv /\ LiveBytes
  /\ BuffersConserved /\ InTurn /\ InOrder
=============================================================================
