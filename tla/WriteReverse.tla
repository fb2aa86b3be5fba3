---------------------------- MODULE WriteReverse ----------------------------
(***************************************************************************)
(* WriteReverseSender and WriteReverseReceiver: the ring grows downwards,   *)
(* and a message is, in the order of the addresses, a zero byte that        *)
(* belongs to the next message, the data, the length, and a byte that is 1. *)
(* A write reaches the memory in that order, so the last byte says that it  *)
(* is complete, and the zero byte prepared it for that.                     *)
(*                                                                          *)
(* The bytes are numbered in the order of the stream, downwards from the    *)
(* end of the ring, so the first of a message is its last byte.  A pointer  *)
(* of the program is a record of the offset it holds and the place in the   *)
(* stream that offset is meant to denote.  The length takes one cell.       *)
(***************************************************************************)
EXTENDS ReverseRing, Sequences, FiniteSets

CONSTANTS
  Lengths,     \* bytes a call reserves: data, length and last byte
  MaxBytes,    \* bound: no call is made once this many bytes were reserved
  AckKind,     \* opts.acknowledger: "read" or "send"
  MaxHeld      \* how many messages the application holds at a time

ASSUME ReverseAssumption ==
  /\ Lengths \subseteq Nat \ {0, 1} /\ MaxBytes \in Nat
  /\ AckKind \in {"read", "send"} /\ MaxHeld \in Nat \ {0}

VARIABLES
  spc,         \* where SendAsync is: "idle", "reserve", "get", "reply"
  want,        \* the bytes the call reserves
  head, tail, full,   \* the ReverseRemoteBuffer of the sender
  reply,       \* what AckReceiver::Get is about to return
  writes,      \* by place: address and length of every write posted
  landed,      \* places below this are complete in the receiver's memory
  arrived,     \* how many bytes of the next write are in memory
  mem,         \* the ring: place of the byte each cell holds, -1 for zero
  rpc,         \* "idle", or "ack" inside Free
  bufHead, readPtr, outstanding,      \* the ReverseRingBuffer
  lengths,     \* lengths of the regions held, by place
  acked,       \* acked_
  ackOff,      \* curr_offset_ of the acknowledger
  ackQ         \* heads sent and not yet polled by the sender

sndVars == <<spc, want, head, tail, full, reply>>
wireVars == <<writes, landed, arrived>>
rcvVars == <<rpc, bufHead, readPtr, outstanding, lengths, acked, ackOff>>
vars == <<sndVars, wireVars, mem, rcvVars, ackQ>>

Origin == [off |-> 0, pos |-> 0]
Step(p, len) == [off |-> Down(p.off, len), pos |-> p.pos + len]

Init ==
  /\ spc = "idle" /\ want = 0
  /\ head = Origin /\ tail = Origin /\ full = FALSE /\ reply = Origin
  /\ writes = [p \in {} |-> 0] /\ landed = 0 /\ arrived = 0
  /\ mem = [o \in Offsets |-> -1]
  /\ rpc = "idle" /\ bufHead = Origin /\ readPtr = Origin
  /\ outstanding = [p \in {} |-> 0] /\ lengths = [p \in {} |-> 0]
  /\ acked = Origin /\ ackOff = Origin /\ ackQ = <<>>

Posted == tail.pos

-----------------------------------------------------------------------------
(* WriteReverseSender::SendAsync.  One byte more is written than reserved. *)

SendStart ==
  /\ spc = "idle" /\ Posted < MaxBytes
  /\ \E n \in Lengths : want' = n
  /\ spc' = "reserve"
  /\ UNCHANGED <<head, tail, full, reply, wireVars, mem, rcvVars, ackQ>>

HasRoom == ~NoNextTail(head.off, tail.off, full, want + 1)

Post ==
  /\ spc = "reserve" /\ HasRoom
  /\ writes' = [p \in DOMAIN writes \cup {Posted} |->
                  IF p = Posted
                  THEN [addr |-> Down(tail.off, want + 1), len |-> want]
                  ELSE writes[p]]
  /\ tail' = Step(tail, want)
  /\ full' = (Step(tail, want).off = head.off)
  /\ spc' = "idle"
  /\ UNCHANGED <<want, head, reply, landed, arrived, mem, rcvVars, ackQ>>

NeedHead ==
  /\ spc = "reserve" /\ ~HasRoom
  /\ spc' = "get"
  /\ UNCHANGED <<want, head, tail, full, reply, wireVars, mem, rcvVars, ackQ>>

\* ReadAckReceiver::Get reads the head, behind all writes; SendAckReceiver::Get
\* takes the first head sent, and forgets the others it drains
GetHead ==
  /\ spc = "get"
  /\ IF AckKind = "read" THEN landed = Posted ELSE ackQ # <<>>
  /\ reply' = IF AckKind = "read" THEN ackOff ELSE Head(ackQ)
  /\ ackQ' = <<>> /\ spc' = "reply"
  /\ UNCHANGED <<want, head, tail, full, wireVars, mem, rcvVars>>

UpdateHead ==
  /\ spc = "reply"
  /\ head' = reply /\ full' = FALSE /\ spc' = "reserve"
  /\ UNCHANGED <<want, tail, reply, wireVars, mem, rcvVars, ackQ>>

-----------------------------------------------------------------------------
\* Mutant of Land: the message does not carry the zero byte of the next one
LandUnzeroed ==
  /\ landed < Posted
  /\ LET w == writes[landed] IN
     /\ mem' = IF arrived = 0 THEN mem
               ELSE [mem EXCEPT ![(w.addr + arrived) % Length] =
                       landed + w.len - arrived]
     /\ IF arrived = w.len
        THEN arrived' = 0 /\ landed' = landed + w.len
        ELSE arrived' = arrived + 1 /\ UNCHANGED landed
  /\ UNCHANGED <<sndVars, writes, rcvVars, ackQ>>

\* The next byte of the oldest incomplete write, by rising address: the zero
\* byte of the next message, then its own bytes, the last in the stream first
Land ==
  /\ landed < Posted
  /\ LET w == writes[landed] IN
     /\ mem' = [mem EXCEPT ![(w.addr + arrived) % Length] =
                  IF arrived = 0 THEN -1 ELSE landed + w.len - arrived]
     /\ IF arrived = w.len
        THEN arrived' = 0 /\ landed' = landed + w.len
        ELSE arrived' = arrived + 1 /\ UNCHANGED landed
  /\ UNCHANGED <<sndVars, writes, rcvVars, ackQ>>

-----------------------------------------------------------------------------
(* Receiver *)

\* What the word below the byte at offset o may be taken for
LengthsBelow(o) ==
  LET p == mem[(o + Length - 1) % Length] - 1 IN
  IF p \in DOMAIN writes THEN {writes[p].len} ELSE 2 .. Length

\* WriteReverseReceiver::Receive: the byte spun on is not zero.  The list
\* holds the offset where the region begins, the end of it in the stream.
Receive ==
  /\ rpc = "idle" /\ Cardinality(DOMAIN outstanding) < MaxHeld
  /\ mem[LastByte(readPtr.off)] # -1
  /\ \E n \in LengthsBelow(LastByte(readPtr.off)) :
       LET next == Step(readPtr, n) IN
       /\ readPtr' = next
       /\ outstanding' = PushBack(outstanding, next.pos, next.off)
       /\ lengths' = PushBack(lengths, next.pos, n)
  /\ UNCHANGED <<sndVars, wireVars, mem, ackQ, rpc, bufHead, acked, ackOff>>

\* WriteReverseReceiver::Free: rbuf_->Free
FreeStart ==
  /\ rpc = "idle"
  /\ \E k \in DOMAIN outstanding :
       LET off == outstanding[k] IN
       /\ bufHead' =
            [off |-> OffsetAfterFree(outstanding, off, bufHead.off, readPtr.off),
             pos |-> HeadAfterFree(outstanding, off, bufHead.pos, readPtr.pos)]
       /\ outstanding' = Remove(outstanding, off)
       /\ lengths' = [j \in DOMAIN lengths \ {k} |-> lengths[j]]
  /\ rpc' = "ack"
  /\ UNCHANGED <<sndVars, wireVars, mem, ackQ, readPtr, acked, ackOff>>

\* Mutant of MustFlush: the head that wrapped around is forgotten
MustFlushUnwrapped(h, a) == h < a /\ a - h > Length \div 2

\* More than max_unacked_ bytes were freed since acked_
MustFlush(h, a) ==
  \/ h < a /\ a - h > Length \div 2
  \/ h > a /\ a + (Length - h) > Length \div 2

\* WriteReverseReceiver::Free: Ack and, if due, Flush
FreeAck ==
  /\ rpc = "ack"
  /\ ackOff' = bufHead
  /\ LET due == MustFlush(bufHead.off, acked.off) IN
     /\ acked' = IF due THEN bufHead ELSE acked
     /\ ackQ' = IF due /\ AckKind = "send" THEN Append(ackQ, bufHead) ELSE ackQ
  /\ rpc' = "idle"
  /\ UNCHANGED <<sndVars, wireVars, mem, bufHead, readPtr, outstanding, lengths>>

-----------------------------------------------------------------------------
Sender   == SendStart \/ Post \/ NeedHead \/ GetHead \/ UpdateHead
Receiver == Receive \/ FreeStart \/ FreeAck

Next == Sender \/ Land \/ Receiver

Spec == Init /\ [][Next]_vars

\* Threads and network go on whenever they can; the application receives and
\* frees, but nobody has to start another send
FairSpec ==
  /\ Spec
  /\ WF_vars(Post \/ NeedHead \/ GetHead \/ UpdateHead)
  /\ WF_vars(Land)
  /\ WF_vars(Receive) /\ WF_vars(FreeStart) /\ WF_vars(FreeAck)

-----------------------------------------------------------------------------
Pointer ==
  {p \in [off : 0 .. Length, pos : 0 .. MaxBytes + Length] :
     (p.off + p.pos) % Length = 0}

\* Every variable has its type; a pointer's offset is its place, downwards.
TypeOK ==
  /\ spc \in {"idle", "reserve", "get", "reply"} /\ want \in Lengths \cup {0}
  /\ {head, tail, reply, bufHead, readPtr, acked, ackOff} \subseteq Pointer
  /\ full \in BOOLEAN
  /\ writes \in [DOMAIN writes -> [addr : 0 .. Length, len : Lengths]]
  /\ landed \in Nat /\ arrived \in 0 .. Length
  /\ mem \in [Offsets -> Nat \cup {-1}]
  /\ rpc \in {"idle", "ack"} /\ ackQ \in Seq(Pointer)
  /\ outstanding \in [DOMAIN outstanding -> 0 .. Length]
  /\ lengths \in [DOMAIN outstanding -> 2 .. Length]

\* A message the application holds is one that was sent, and its bytes stay
\* what they were until Free gave it back (Receive, Free, GetNextTail).
HeldIntact ==
  \A k \in DOMAIN outstanding :
    LET p == k - lengths[k] IN
    /\ p \in DOMAIN writes /\ lengths[k] = writes[p].len
    /\ \A i \in 0 .. lengths[k] - 1 :
         mem[(outstanding[k] + i) % Length] = k - 1 - i

\* The byte Receive spins on is zero until the last byte of the next message
\* arrives, although nothing is cleared when a region is freed: the zero byte
\* in front of the message before did it, and hit nothing that is still held.
NextIsClear ==
  landed = readPtr.pos => mem[LastByte(readPtr.off)] = -1

\* The ring that grows downwards: what is held stays, and the byte in front of it
\* that Receive spins on is clear (SendAsync, Receive).
ReverseInv == TypeOK /\ HeldIntact /\ NextIsClear

\* SendAsync returns: it does not ask for the head forever.
SendReturns == (spc # "idle") ~> (spc = "idle")

\* Every message posted is received.
AllReceived == \A n \in 0 .. MaxBytes : (Posted > n) ~> (readPtr.pos > n)
=============================================================================
