---------------------------- MODULE BufferedWrite ----------------------------
(***************************************************************************)
(* What all buffered-write connections of tests/write share: a sender that  *)
(* reserves regions of the receiver's ring and posts RDMA writes into them, *)
(* a receiver that reads and frees regions, and the acknowledging of the    *)
(* head (read acknowledging, where the sender reads the head with RDMA, and *)
(* send acknowledging, where the receiver sends it now and then).           *)
(*                                                                          *)
(* The stream of all bytes ever reserved is numbered 0, 1, 2, ...; a byte's *)
(* number is its "place".  Places are auxiliary: the program only has the   *)
(* offsets.  Every offset the program keeps is a variable of its own, and   *)
(* next to it stands the place it is meant to denote.  A cell of the ring   *)
(* holds the place of the byte written to it last, which is all a property  *)
(* needs to know of the data.                                               *)
(*                                                                          *)
(* How the receiver learns of a message is left to the modules that extend  *)
(* this one.                                                                *)
(***************************************************************************)
EXTENDS RingBuffer, Sequences

CONSTANTS
  Calls,       \* argument lists of SendAsync: sequences of region lengths,
               \* each with the bytes the sender adds to it
  MaxBytes,    \* bound: no call is made once this many bytes were reserved
  AckKind      \* opts.acknowledger: "read" or "send"

ASSUME CallsAssumption ==
  \A c \in Calls : c \in Seq(Nat \ {0}) /\ c # <<>>
ASSUME MaxBytesAssumption == MaxBytes \in Nat
ASSUME AckKindAssumption == AckKind \in {"read", "send"}

VARIABLES
  \* --- sender: WriteSender and its MagicRemoteBuffer
  spc,         \* where SendAsync is: "idle", "reserve", "get", "reply"
  todo,        \* lengths of the regions of the call not yet reserved
  sndHead, sndTail, sndFull,       \* head_, tail_, full_
  reply,       \* the offset AckReceiver::Get is about to return
  written,     \* (place) of sndTail
  known,       \* (place) of sndHead
  replyPos,    \* (place) of reply
  \* --- RDMA writes: a reliable connection executes them in order
  msg,         \* by place: offset and length of each region reserved
  posted,      \* places below this are in posted writes
  landed,      \* places below this are in the receiver's memory
  \* --- receiver: WriteReceiver, its MagicRingBuffer and its Acknowledger
  mem,         \* the ring: place of the byte each cell holds, -1 for none
  rpc,         \* "idle", or "ack" inside Free after the ring was updated
  bufHead, readPtr, outstanding,   \* head_, read_ptr_, outstanding_
  acked,       \* acked_
  ackOff,      \* curr_offset_ of the acknowledger
  ackQ,        \* heads sent and not yet polled by the sender
  freed,       \* (place) of bufHead
  read,        \* (place) of readPtr
  ackedPos,    \* (place) of acked
  ackPos       \* (place) of ackOff

sndVars  == <<spc, todo, sndHead, sndTail, sndFull, reply,
              written, known, replyPos>>
wireVars == <<msg, posted, landed>>
rcvVars  == <<rpc, bufHead, readPtr, outstanding, acked, ackOff,
              freed, read, ackedPos, ackPos>>
baseVars == <<sndVars, wireVars, rcvVars, mem, ackQ>>

Region == [off : Offsets, len : Nat \ {0}]

\* Mutant of MaxUnacked: the eighth of the ring doc/thesis/write.tex speaks of
MaxUnackedEighth == Length \div 8

MaxUnacked == Length \div 2      \* max_unacked_, set by the constructor

BaseInit ==
  /\ spc = "idle" /\ todo = <<>>
  /\ sndHead = 0 /\ sndTail = 0 /\ sndFull = FALSE
  /\ reply = 0
  /\ written = 0 /\ known = 0 /\ replyPos = 0
  /\ msg = [p \in {} |-> 0] /\ posted = 0 /\ landed = 0
  /\ mem = [o \in Offsets |-> -1]
  /\ rpc = "idle"
  /\ bufHead = 0 /\ readPtr = 0 /\ outstanding = [p \in {} |-> 0]
  /\ acked = 0 /\ ackOff = 0 /\ ackQ = <<>>
  /\ freed = 0 /\ read = 0 /\ ackedPos = 0 /\ ackPos = 0

-----------------------------------------------------------------------------
(* Sender *)

\* The application calls SendAsync with one region or a vector of them
SendAsync(call) ==
  /\ spc = "idle" /\ written < MaxBytes
  /\ spc' = "reserve" /\ todo' = call
  /\ UNCHANGED <<sndHead, sndTail, sndFull, reply, written, known, replyPos,
                 wireVars, rcvVars, mem, ackQ>>

\* GetWriteAddr finds room: the region is Write's
Reserve ==
  /\ spc = "reserve" /\ todo # <<>>
  /\ ~NoWriteAddr(sndHead, sndTail, sndFull, Head(todo))
  /\ msg' = [p \in DOMAIN msg \cup {written} |->
               IF p = written THEN [off |-> sndTail, len |-> Head(todo)]
                              ELSE msg[p]]
  /\ sndTail' = NextTail(sndTail, Head(todo))
  /\ sndFull' = FullAfterWrite(sndHead, sndTail, Head(todo))
  /\ written' = written + Head(todo)
  /\ todo' = Tail(todo)
  /\ UNCHANGED <<spc, sndHead, reply, known, replyPos, posted, landed,
                 rcvVars, mem, ackQ>>

\* GetWriteAddr finds no room: ask for the head
NeedHead ==
  /\ spc = "reserve" /\ todo # <<>>
  /\ NoWriteAddr(sndHead, sndTail, sndFull, Head(todo))
  /\ spc' = "get"
  /\ UNCHANGED <<todo, sndHead, sndTail, sndFull, reply, written, known,
                 replyPos, wireVars, rcvVars, mem, ackQ>>

\* ReadAckReceiver::Get: the RDMA read fetches the receiver's curr_offset_.
\* It was posted behind the sender's writes and is executed behind them.
AckRead ==
  /\ AckKind = "read" /\ spc = "get" /\ landed = posted
  /\ reply' = ackOff /\ replyPos' = ackPos
  /\ spc' = "reply"
  /\ UNCHANGED <<todo, sndHead, sndTail, sndFull, written, known,
                 wireVars, rcvVars, mem, ackQ>>

\* SendAckReceiver::Get blocks for one completion.  Its drain loop consumes
\* the others too, but looks at the first one again (wcStatus, not wc_s).
AckPoll ==
  /\ AckKind = "send" /\ spc = "get" /\ ackQ # <<>>
  /\ reply' = Head(ackQ).off /\ replyPos' = Head(ackQ).pos
  /\ ackQ' = <<>>
  /\ spc' = "reply"
  /\ UNCHANGED <<todo, sndHead, sndTail, sndFull, written, known,
                 wireVars, rcvVars, mem>>

\* rbuf_->UpdateHead(head_s.value()), and back to GetWriteAddr
UpdateHead ==
  /\ spc = "reply"
  /\ sndHead' = reply /\ sndFull' = FullAfterUpdate
  /\ known' = replyPos
  /\ spc' = "reserve"
  /\ UNCHANGED <<todo, sndTail, reply, written, replyPos,
                 wireVars, rcvVars, mem, ackQ>>

\* Every region is reserved: the writes of the call are posted as one chain
PostCall ==
  /\ spc = "reserve" /\ todo = <<>>
  /\ posted' = written
  /\ spc' = "idle"
  /\ UNCHANGED <<todo, sndHead, sndTail, sndFull, reply, written, known,
                 replyPos, msg, landed, rcvVars, mem, ackQ>>

-----------------------------------------------------------------------------
(* The next posted write is executed: its bytes replace what the ring held *)

LandedIn(o) ==
  LET m == msg[landed] IN
  IF Distance(m.off, o) < m.len THEN landed + Distance(m.off, o) ELSE mem[o]

LandWrite ==
  /\ landed < posted
  /\ mem' = [o \in Offsets |-> LandedIn(o)]
  /\ landed' = landed + msg[landed].len
  /\ UNCHANGED <<sndVars, msg, posted, rcvVars, ackQ>>

-----------------------------------------------------------------------------
(* Receiver *)

\* The lengths the word at read_ptr_ may be taken for: the header of the
\* message there, or anything if the cell does not hold the start of one
HeaderLengths(o) ==
  IF mem[o] \in DOMAIN msg THEN {msg[mem[o]].len} ELSE 1 .. Length - 1

\* Receive, once the message was noticed: rbuf_->Read(len)
ReadRegion(len) ==
  /\ outstanding' = PushBack(outstanding, read, readPtr)
  /\ readPtr' = NextReadPtr(readPtr, len)
  /\ read' = read + len
  /\ UNCHANGED <<sndVars, wireVars, mem, ackQ, rpc, bufHead, acked, ackOff,
                 freed, ackedPos, ackPos>>

\* Free(reg), first half: rbuf_->Free
FreeRegion(k) ==
  /\ rpc = "idle" /\ k \in DOMAIN outstanding
  /\ bufHead' = OffsetAfterFree(outstanding, outstanding[k], bufHead, readPtr)
  /\ freed' = HeadAfterFree(outstanding, outstanding[k], freed, read)
  /\ outstanding' = Remove(outstanding, outstanding[k])
  /\ rpc' = "ack"
  /\ UNCHANGED <<sndVars, wireVars, mem, ackQ, readPtr, acked, ackOff, read,
                 ackedPos, ackPos>>

\* Mutant of MustFlush: the head that wrapped around is forgotten
MustFlushUnwrapped(head) == head > acked /\ head - acked > MaxUnacked

\* Free flushes once more than max_unacked_ bytes were freed since acked_
MustFlush(head) ==
  \/ head > acked /\ head - acked > MaxUnacked
  \/ head < acked /\ head + (Length - acked) > MaxUnacked

\* Mutant of Acknowledge: Ack is called only together with Flush
AcknowledgeWhenDue ==
  /\ rpc = "ack"
  /\ ackOff' = IF MustFlush(bufHead) THEN bufHead ELSE ackOff
  /\ ackPos' = IF MustFlush(bufHead) THEN freed ELSE ackPos
  /\ acked' = IF MustFlush(bufHead) THEN bufHead ELSE acked
  /\ ackedPos' = IF MustFlush(bufHead) THEN freed ELSE ackedPos
  /\ rpc' = "idle"
  /\ UNCHANGED <<sndVars, wireVars, mem, bufHead, readPtr, outstanding,
                 freed, read, ackQ>>

\* Free(reg), second half: Ack and, if due, Flush.  The sender may act in
\* between.  Flush sends the offset (SendAcknowledger) or does nothing.
Acknowledge ==
  /\ rpc = "ack"
  /\ ackOff' = bufHead /\ ackPos' = freed
  /\ acked' = IF MustFlush(bufHead) THEN bufHead ELSE acked
  /\ ackedPos' = IF MustFlush(bufHead) THEN freed ELSE ackedPos
  /\ ackQ' = IF MustFlush(bufHead) /\ AckKind = "send"
             THEN Append(ackQ, [off |-> bufHead, pos |-> freed]) ELSE ackQ
  /\ rpc' = "idle"
  /\ UNCHANGED <<sndVars, wireVars, mem, bufHead, readPtr, outstanding,
                 freed, read>>

-----------------------------------------------------------------------------
BaseTypeOK ==
  /\ spc \in {"idle", "reserve", "get", "reply"}
  /\ todo \in Seq(Nat \ {0})
  /\ sndHead \in Offsets /\ sndTail \in Offsets /\ sndFull \in BOOLEAN
  /\ reply \in Offsets
  /\ written \in Nat /\ known \in Nat /\ replyPos \in Nat
  /\ DOMAIN msg \subseteq Nat /\ msg \in [DOMAIN msg -> Region]
  /\ posted \in Nat /\ landed \in Nat
  /\ mem \in [Offsets -> Nat \cup {-1}]
  /\ rpc \in {"idle", "ack"}
  /\ bufHead \in Offsets /\ readPtr \in Offsets
  /\ DOMAIN outstanding \subseteq Nat
  /\ outstanding \in [DOMAIN outstanding -> Offsets]
  /\ acked \in Offsets /\ ackOff \in Offsets
  /\ ackQ \in Seq([off : Offsets, pos : Nat])
  /\ freed \in Nat /\ read \in Nat /\ ackedPos \in Nat /\ ackPos \in Nat

\* A region the application holds still holds the bytes that were sent: no
\* write lands in it before Free gave it back (Receive, Free, GetWriteAddr).
HeldIntact ==
  \A k \in DOMAIN outstanding :
    /\ k \in DOMAIN msg
    /\ \A i \in 0 .. msg[k].len - 1 :
         mem[(outstanding[k] + i) % Length] = k + i

-----------------------------------------------------------------------------
(* What every connection keeps, whichever way its receiver learns of          *)
(* messages: the part of their inductive invariants that they share           *)

\* Every region is shorter than the ring
ShortCalls == \A c \in Calls : c \in Seq(1 .. Length - 1)

Boundaries == DOMAIN msg \cup {written}

\* Every offset the program keeps is its place's, modulo the ring
OffsetsMatch ==
  /\ sndHead = known % Length /\ sndTail = written % Length
  /\ reply = replyPos % Length
  /\ bufHead = freed % Length /\ readPtr = read % Length
  /\ ackOff = ackPos % Length /\ acked = ackedPos % Length
  /\ \A p \in DOMAIN msg : msg[p].off = p % Length
  /\ \A k \in DOMAIN outstanding : outstanding[k] = k % Length
  /\ \A i \in 1 .. Len(ackQ) : ackQ[i].off = ackQ[i].pos % Length

\* The places in the order they chase each other around the ring
PlacesOrdered ==
  /\ known <= replyPos /\ replyPos <= ackPos /\ ackPos <= freed
  /\ freed <= read /\ read <= landed /\ landed <= posted /\ posted <= written
  /\ written - known < Length

\* The regions tile the stream, and all parties stand at region boundaries
RegionsTile ==
  /\ \A p \in DOMAIN msg : p + msg[p].len \in Boundaries /\ p < written
  /\ \A p, q \in DOMAIN msg : p < q => p + msg[p].len <= q
  /\ \A p \in DOMAIN msg : p + msg[p].len <= written
  /\ {read, landed, posted} \subseteq Boundaries

\* A call that is about to post has reserved something since the last one
CallUnderWay ==
  /\ spc \in {"get", "reply"} => todo # <<>>
  /\ spc = "reserve" /\ todo = <<>> => posted < written

\* Regions held start between the head and the read pointer
HeldAhead ==
  \A k \in DOMAIN outstanding : k \in DOMAIN msg /\ freed <= k /\ k < read

\* Send acknowledging: between the head the sender was told last and the one
\* the receiver sent last lies more than half of the ring, or nothing
AcksApart ==
  /\ spc # "reply" => known = replyPos
  /\ AckKind = "read" => ackQ = <<>>
  /\ AckKind = "send" =>
       /\ ackedPos <= ackPos
       /\ spc = "reply" => replyPos > known + MaxUnacked
       /\ ackQ = <<>> => ackedPos = replyPos
       /\ ackQ # <<>> => /\ Len(ackQ) = 1 /\ ackQ[1].pos = ackedPos
                         /\ ackedPos > replyPos + MaxUnacked

BaseInv ==
  /\ BaseTypeOK /\ sndFull = FALSE /\ todo \in Seq(1 .. Length - 1)
  /\ OffsetsMatch /\ PlacesOrdered /\ RegionsTile
  /\ CallUnderWay /\ HeldAhead /\ AcksApart

\* Where nothing is cleared, every byte from the head up to the last one landed
\* is in its cell
LiveBytes == \A b \in freed .. landed - 1 : mem[b % Length] = b
=============================================================================
