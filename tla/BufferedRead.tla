---------------------------- MODULE BufferedRead ----------------------------
(***************************************************************************)
(* One direction of BufferedReadConnection: the sender copies its messages  *)
(* into a ring of its own and only moves its tail; the receiver reads tail  *)
(* and data with RDMA into a copy of the ring, hands out messages from      *)
(* there, and writes the head back once a third of the ring was freed.      *)
(*                                                                          *)
(* Head, tail and read pointer count all cells ever used, so they are       *)
(* places.  Only the head may be something else: when a message is freed    *)
(* while another is held, it becomes the address of that one.  `freed` is   *)
(* the place it then stands for, `known` that of the sender's head.  A cell *)
(* holds the place of what was written to it last.                          *)
(***************************************************************************)
EXTENDS Integers, Sequences, SequencesExt

CONSTANTS
  Length,      \* length_, remote_buf_len_
  Header,      \* cells of the length in front of a message
  Lens,        \* lengths of messages
  Bases,       \* addresses the receiver's copy may be mapped at
  MaxHeld,     \* messages the application holds, if it may hold several
  MaxCells     \* bound: no message is sent once so many cells were used

Places == Nat
At(p) == p % Length

\* Each way to fill the ring by messages leads from one number of used cells in
\* this set to another, and with n cells used a message of l cells either is
\* refused (by NoRoom or TooLong) or fits with its header, and one cell is left
Fills(used) ==
  /\ 0 \in used
  /\ \A n \in used, l \in Lens :
       /\ n + l + Header <= Length => n + l + Header \in used
       /\ \/ IF n = 0 THEN l > Length ELSE l >= Length - n
          \/ n + l + Header < Length

\* What the code needs of the lengths and does not check: when room is found
\* for the data of a message there is room for its header too, and one cell is
\* left, without which a full ring would look empty
RoomForHeader == \E used \in SUBSET (0 .. Length) : Fills(used)

ASSUME BufferedReadAssumption ==
  /\ {Length, Header, MaxHeld} \subseteq Nat \ {0} /\ MaxCells \in Nat
  /\ Lens \subseteq Nat /\ RoomForHeader
  /\ \A b \in Bases : b \in Nat /\ b > MaxCells + 2 * Length

VARIABLES
  \* --- sender
  spc,         \* where Send is: "idle", "spin", "copy", "publish"
  len,         \* the length of its message
  mem,         \* buffer_: the ring
  tail,        \* *tail_
  head,        \* *head_, which the receiver writes
  msg,         \* by place, the length of each message copied
  \* --- receiver
  rpc,         \* "idle", "fetch" inside Receive, "update" inside Free
  base,        \* remote_buffer_->addr
  copy,        \* the ring it points to
  remote_tail, read_ptr, remote_head, acked_head,
  fetched,     \* places below this have been read into the copy
  outstanding, \* outstanding_: addresses of messages held, with their places
  freed,       \* (place) of remote_head
  known        \* (place) of head

sndVars == <<spc, len, mem, tail, msg>>
rcvVars == <<rpc, base, copy, remote_tail, read_ptr, remote_head, acked_head,
             fetched, outstanding, freed>>
vars == <<sndVars, head, known, rcvVars>>

-----------------------------------------------------------------------------
(* The sender                                                               *)

Send(l) ==
  /\ spc = "idle" /\ tail < MaxCells
  /\ spc' = "spin" /\ len' = l
  /\ UNCHANGED <<mem, tail, msg, head, known, rcvVars>>

TooLong == At(head) = At(tail) /\ len > Length

\* A message longer than the ring is refused, if the ring is seen empty
SendFails ==
  /\ spc = "spin" /\ TooLong
  /\ spc' = "idle"
  /\ UNCHANGED <<len, mem, tail, msg, head, known, rcvVars>>

\* Mutant of NoRoom: the case that the tail is behind the head is forgotten
NoRoomWrapped ==
  At(head) < At(tail) /\ Length - At(tail) + At(head) <= len

\* Send spins on the head
NoRoom ==
  \/ At(head) < At(tail) /\ Length - At(tail) + At(head) <= len
  \/ At(head) > At(tail) /\ At(head) - At(tail) <= len

FindRoom ==
  /\ spc = "spin" /\ ~TooLong /\ ~NoRoom
  /\ spc' = "copy"
  /\ UNCHANGED <<len, mem, tail, msg, head, known, rcvVars>>

\* The place of a cell of the message about to be copied: header, then data
Distance(c) == (c - At(tail) + Length) % Length

\* Mutant of Copy: what does not fit before the end of the ring is lost
CopyUnwrapped ==
  /\ spc = "copy"
  /\ mem' = [c \in DOMAIN mem |->
               IF c >= At(tail) /\ Distance(c) < len + Header
               THEN tail + Distance(c) ELSE mem[c]]
  /\ msg' = [p \in DOMAIN msg \cup {tail} |-> IF p = tail THEN len ELSE msg[p]]
  /\ spc' = "publish"
  /\ UNCHANGED <<len, tail, head, known, rcvVars>>

Copy ==
  /\ spc = "copy"
  /\ mem' = [c \in DOMAIN mem |->
               IF Distance(c) < len + Header THEN tail + Distance(c) ELSE mem[c]]
  /\ msg' = [p \in DOMAIN msg \cup {tail} |-> IF p = tail THEN len ELSE msg[p]]
  /\ spc' = "publish"
  /\ UNCHANGED <<len, tail, head, known, rcvVars>>

\* The tail is moved, and Send returns
Publish ==
  /\ spc = "publish"
  /\ tail' = tail + len + Header
  /\ spc' = "idle"
  /\ UNCHANGED <<len, mem, msg, head, known, rcvVars>>

-----------------------------------------------------------------------------
(* The receiver                                                             *)

\* The application holds one message at a time, unless the copy lies at a
\* multiple of its length, where an address is as good as a place
MayReceive ==
  /\ rpc = "idle"
  /\ Len(outstanding) < IF base % Length = 0 THEN MaxHeld ELSE 1

\* Receive has nothing left of what it read last: it reads the tail until that
\* has moved, and posts a read of all that is new
ReadTail ==
  /\ MayReceive /\ remote_tail = read_ptr /\ tail # remote_tail
  /\ remote_tail' = tail
  /\ rpc' = "fetch"
  /\ UNCHANGED <<sndVars, head, known, base, copy, read_ptr, remote_head,
                 acked_head, fetched, outstanding, freed>>

\* The device reads cell after cell, while the sender goes on
ReadData ==
  /\ rpc = "fetch"
  /\ copy' = [copy EXCEPT ![At(fetched)] = mem[At(fetched)]]
  /\ fetched' = fetched + 1
  /\ rpc' = IF fetched' = remote_tail THEN "fetched" ELSE "fetch"
  /\ UNCHANGED <<sndVars, head, known, base, remote_tail, read_ptr, remote_head,
                 acked_head, outstanding, freed>>

\* The length found in the copy: any, if no message begins there
LengthsAt(p) == IF copy[At(p)] \in DOMAIN msg THEN {msg[copy[At(p)]]} ELSE Lens

NextReadPtr(l) == read_ptr + l + Header

\* Receive returns the message at the read pointer
Receive ==
  /\ \/ rpc = "fetched"
     \/ MayReceive /\ remote_tail # read_ptr
  /\ \E l \in LengthsAt(read_ptr) : read_ptr' = NextReadPtr(l)
  /\ outstanding' = Append(outstanding,
                           [addr |-> base + At(read_ptr), place |-> read_ptr])
  /\ rpc' = "idle"
  /\ UNCHANGED <<sndVars, head, known, base, copy, remote_tail, remote_head,
                 acked_head, fetched, freed>>

\* The new head: the address of the next message held, or the read pointer
HeadAfterFree(rest) ==
  IF rest = <<>> THEN [addr |-> read_ptr, place |-> read_ptr] ELSE rest[1]

FreesFront(i) == outstanding[i].addr = outstanding[1].addr

\* Free, in any order: the head moves if the first message held was freed
Free ==
  /\ rpc = "idle"
  /\ \E i \in DOMAIN outstanding :
       LET rest == RemoveAt(outstanding, i) IN
       /\ outstanding' = rest
       /\ IF FreesFront(i)
            THEN /\ remote_head' = HeadAfterFree(rest).addr
                 /\ freed' = HeadAfterFree(rest).place
            ELSE UNCHANGED <<remote_head, freed>>
  /\ rpc' = "update"
  /\ UNCHANGED <<sndVars, head, known, base, copy, remote_tail, read_ptr,
                 acked_head, fetched>>

\* Mutant of Due: the numbers are taken for signed ones, and a head that went
\* back from an address to a place is not sent
DueSigned == remote_head - acked_head > Length \div 3

\* The difference of two unsigned numbers is more than a third of the ring
Due ==
  \/ remote_head < acked_head
  \/ remote_head - acked_head > Length \div 3

\* and is written to the sender if it moved far enough
UpdateHead ==
  /\ rpc = "update"
  /\ IF Due THEN head' = remote_head /\ known' = freed /\ acked_head' = remote_head
            ELSE UNCHANGED <<head, known, acked_head>>
  /\ rpc' = "idle"
  /\ UNCHANGED <<sndVars, base, copy, remote_tail, read_ptr, remote_head,
                 fetched, outstanding, freed>>

-----------------------------------------------------------------------------
Init ==
  /\ spc = "idle" /\ len = 0 /\ tail = 0 /\ head = 0
  /\ mem = [c \in 0 .. Length - 1 |-> -1] /\ copy = mem
  /\ msg = [p \in {} |-> 0]
  /\ rpc = "idle" /\ base \in Bases
  /\ remote_tail = 0 /\ read_ptr = 0 /\ remote_head = 0 /\ acked_head = 0
  /\ fetched = 0 /\ outstanding = <<>> /\ freed = 0 /\ known = 0

Sender == SendFails \/ FindRoom \/ Copy \/ Publish
Receiver == ReadTail \/ ReadData \/ Receive

Next == (\E l \in Lens : Send(l)) \/ Sender \/ Receiver \/ Free \/ UpdateHead

Spec == Init /\ [][Next]_vars

\* Send and Receive spin on, the device reads, and what was received is freed
FairSpec ==
  Spec /\ WF_vars(Sender) /\ WF_vars(Receiver) /\ WF_vars(Free) /\ WF_vars(UpdateHead)

-----------------------------------------------------------------------------
(* Properties                                                               *)

\* The values every variable may have
TypeOK ==
  /\ spc \in {"idle", "spin", "copy", "publish"}
  /\ rpc \in {"idle", "fetch", "fetched", "update"}
  /\ len \in {0} \cup Lens /\ base \in Bases
  /\ {mem, copy} \subseteq [0 .. Length - 1 -> Places \cup {-1}]
  /\ {tail, head, remote_tail, read_ptr, remote_head, acked_head, fetched,
      freed, known} \subseteq Places
  /\ msg \in [DOMAIN msg -> Lens]
  /\ outstanding \in Seq([addr : Places, place : Places])
  /\ read_ptr <= remote_tail /\ remote_tail <= tail

\* What was copied into the ring stays until it was freed, and the sender's
\* ring is never full: the head that Send waits for, an old one, and maybe an
\* address, always means a place not ahead of what is free (buffered_read.cpp:156)
NotOverwritten ==
  /\ At(head) = At(known) /\ known <= freed
  /\ \A p \in freed .. tail - 1 : mem[At(p)] = p
  /\ tail - known < Length

\* No cell of a message held changes, though the next read goes into the same
\* ring, and it is the message that was sent
HeldIntact ==
  \A i \in DOMAIN outstanding :
    LET p == outstanding[i].place IN
    /\ p \in DOMAIN msg
    /\ \A k \in 0 .. msg[p] + Header - 1 : copy[At(p + k)] = p + k

\* What Send, Receive and Free keep: neither of the two rings is written where a
\* message still has to be read.
BReadInv == TypeOK /\ NotOverwritten /\ HeldIntact

\* Send returns: the head comes back far enough before the sender needs it,
\* although the receiver keeps up to a third of the ring to itself.  A longer
\* message may spin for ever, and one that is too long is refused only if the
\* sender happens to see an empty ring (buffered_read.cpp:110, 153).
SendReturns ==
  spc = "spin" /\ len < Length - Length \div 3 ~> spc = "idle"

\* A message is the tuple of its cells; as sent, and as it is in the copy
AsSent(p) == [k \in 1 .. msg[p] + Header |-> p + k - 1]
InCopy(p) ==
  IF p \in DOMAIN msg THEN [k \in 1 .. msg[p] + Header |-> copy[At(p + k - 1)]]
                      ELSE <<>>

\* The position of a message is the place of its header
SentMessages == [p \in {q \in DOMAIN msg : q < tail} |-> AsSent(p)]
TakenPlaces  == {p \in DOMAIN msg : p < read_ptr}
HeldPlaces   == {outstanding[i].place : i \in DOMAIN outstanding}
HeldMessages == [p \in HeldPlaces |-> InCopy(p)]

Fifo == INSTANCE FifoChannel WITH
  sent <- SentMessages, taken <- TakenPlaces, held <- HeldMessages

\* The connection is a FIFO channel: moving the tail is Send, Receive is
\* Receive, Free is Free, and everything sent is received in the end
ImplementsFifo == Fifo!Spec
=============================================================================
