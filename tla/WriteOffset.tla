----------------------------- MODULE WriteOffset -----------------------------
(***************************************************************************)
(* WriteOffsetSender and WriteOffsetReceiver: behind the data of a call the *)
(* sender writes its tail offset into a word of the receiver, and the       *)
(* receiver spins until that word differs from its read pointer.            *)
(*                                                                          *)
(* Names of what every variant has begin with Offset, so that the module    *)
(* can stand beside another variant's (WritePollingProofs).                 *)
(***************************************************************************)
EXTENDS BufferedWrite

VARIABLES
  tails,       \* tail writes posted and not executed: offset, by place
  tail,        \* *tail_, the word the receiver spins on
  announced    \* (place) of tail

offsetVars == <<baseVars, tails, tail, announced>>
wordVars == <<tails, tail, announced>>

OffsetInit ==
  /\ BaseInit
  /\ tails = [p \in {} |-> 0] /\ tail = 0 /\ announced = 0

\* Mutant of OffsetPost: the write of the tail stands in front of the data
PostTailFirst ==
  /\ PostCall
  /\ tails' = [p \in DOMAIN tails \cup {posted} |->
                 IF p = posted THEN sndTail ELSE tails[p]]
  /\ UNCHANGED <<tail, announced>>

\* SendAsync posts the chain: the data writes, then the write of the tail
OffsetPost ==
  /\ PostCall
  /\ tails' = [p \in DOMAIN tails \cup {written} |->
                 IF p = written THEN sndTail ELSE tails[p]]
  /\ UNCHANGED <<tail, announced>>

\* The writes are executed in the order they were posted
LandData ==
  /\ landed \notin DOMAIN tails
  /\ LandWrite
  /\ UNCHANGED wordVars

LandTail ==
  /\ landed \in DOMAIN tails
  /\ tail' = tails[landed] /\ announced' = landed
  /\ tails' = [p \in DOMAIN tails \ {landed} |-> tails[p]]
  /\ UNCHANGED baseVars

\* The RDMA read of the head is executed behind all writes posted before it
ReadHead ==
  /\ DOMAIN tails = {}
  /\ AckRead
  /\ UNCHANGED wordVars

\* WriteOffsetReceiver::Receive
OffsetReceive ==
  /\ rpc = "idle" /\ tail # readPtr
  /\ \E len \in HeaderLengths(readPtr) : ReadRegion(len)
  /\ UNCHANGED wordVars

\* WriteOffsetReceiver::Free, in two steps
OffsetFreeStart ==
  (\E k \in DOMAIN outstanding : FreeRegion(k)) /\ UNCHANGED wordVars
OffsetFreeAck   == Acknowledge /\ UNCHANGED wordVars

OffsetSendStart  == (\E c \in Calls : SendAsync(c)) /\ UNCHANGED wordVars
OffsetSendRegion == Reserve    /\ UNCHANGED wordVars
OffsetSendGet    == NeedHead   /\ UNCHANGED wordVars
OffsetSendPoll   == AckPoll    /\ UNCHANGED wordVars
OffsetSendUpdate == UpdateHead /\ UNCHANGED wordVars

OffsetSender ==
  \/ OffsetSendStart \/ OffsetSendRegion \/ OffsetSendGet
  \/ OffsetSendPoll \/ OffsetSendUpdate \/ OffsetPost
OffsetNetwork  == LandData \/ LandTail \/ ReadHead
OffsetReceiver == OffsetReceive \/ OffsetFreeStart \/ OffsetFreeAck

OffsetNext == OffsetSender \/ OffsetNetwork \/ OffsetReceiver

OffsetSpec == OffsetInit /\ [][OffsetNext]_offsetVars

\* The two threads and the network go on whenever they can; the application
\* frees what it received, but nobody has to start another send
OffsetFairSpec ==
  /\ OffsetSpec
  /\ WF_offsetVars(\/ OffsetSendRegion \/ OffsetSendGet
                   \/ OffsetSendPoll \/ OffsetSendUpdate \/ OffsetPost)
  /\ WF_offsetVars(OffsetNetwork)
  /\ WF_offsetVars(OffsetReceive)
  /\ WF_offsetVars(OffsetFreeStart) /\ WF_offsetVars(OffsetFreeAck)

-----------------------------------------------------------------------------
\* Every variable has its type.
OffsetTypeOK ==
  /\ BaseTypeOK
  /\ DOMAIN tails \subseteq Nat /\ tails \in [DOMAIN tails -> Offsets]
  /\ tail \in Offsets /\ announced \in Nat

\* What Receive takes next, once the tail word announces it, is the header of
\* the message sent next: messages are received whole, in order, exactly once.
NextIsWhole ==
  tail # readPtr =>
    /\ read \in DOMAIN msg
    /\ \A i \in 0 .. msg[read].len - 1 : mem[(readPtr + i) % Length] = read + i

\* The sender's cache of the head lags behind the receiver's and never runs
\* ahead of it, and the bytes reserved since fit the ring with one to spare,
\* without which a full ring would look empty (MagicRemoteBuffer).
NoOverrun ==
  /\ known <= freed
  /\ written - known < Length

\* At most one head update is under way in send acknowledging: the drain loop
\* of SendAckReceiver::Get, which forgets all but the first, finds only one.
OneAckPending == Len(ackQ) <= 1

\* SendAsync returns (write_addr_or_die does not loop or block forever).
SendReturns == (spc # "idle") ~> (spc = "idle")

-----------------------------------------------------------------------------
(* The inductive invariant behind the safety properties *)

\* The word the receiver spins on and those under way hold offsets of places;
\* what is announced has landed
TailsMatch ==
  /\ tail = announced % Length
  /\ \A p \in DOMAIN tails : tails[p] = p % Length
  /\ read <= announced /\ announced <= landed /\ announced \in Boundaries

\* A tail write under way announces what is posted and not yet announced
TailsAhead ==
  /\ DOMAIN tails \subseteq Boundaries
  /\ \A p \in DOMAIN tails : landed <= p /\ p <= posted /\ announced < p
  /\ posted = announced \/ posted \in DOMAIN tails

\* OffsetTypeOK strengthened until every step preserves it; NoOverrun, HeldIntact,
\* NextIsWhole and OneAckPending follow from it (WritePollingProofs).
OffsetInv == OffsetTypeOK /\ BaseInv /\ LiveBytes /\ TailsMatch /\ TailsAhead
=============================================================================
