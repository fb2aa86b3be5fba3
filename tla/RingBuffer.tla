----------------------------- MODULE RingBuffer -----------------------------
(***************************************************************************)
(* The double-mapped ("magic") ring buffer of ring_buffer.cpp, as the       *)
(* operations its two ends perform on their own copies of the offsets.      *)
(*                                                                          *)
(* The sender owns a MagicRemoteBuffer: head_ (a cache of the receiver's    *)
(* head), tail_ and full_.  The receiver owns a MagicRingBuffer: head_,     *)
(* read_ptr_ and the list outstanding_ of the offsets of the regions that   *)
(* were read and not yet freed.  Offsets run over 0 .. Length-1; the second *)
(* mapping makes every region contiguous, so the i-th byte of a region at   *)
(* offset o is the cell (o + i) % Length.                                   *)
(*                                                                          *)
(* outstanding_ is a function: its keys are the places of the list's nodes  *)
(* in the order they were pushed, its values the offsets the nodes hold.    *)
(***************************************************************************)
EXTENDS Integers

CONSTANT Length           \* length_: bytes of the ring (mr->length / 2)

ASSUME LengthAssumption == Length \in Nat \ {0}

Offsets == 0 .. Length - 1

-----------------------------------------------------------------------------
(* MagicRemoteBuffer, the sender's view *)

\* Mutant of NoWriteAddr: a region may fill the ring to the last byte
NoWriteAddrExact(head, tail, full, len) ==
  \/ head = tail /\ full
  \/ head = tail /\ len > Length
  \/ head < tail /\ (Length - tail) + head < len
  \/ head > tail /\ head - tail < len

\* MagicRemoteBuffer::GetWriteAddr returns an error: the four refusals
NoWriteAddr(head, tail, full, len) ==
  \/ head = tail /\ full
  \/ head = tail /\ len > Length
  \/ head < tail /\ (Length - tail) + head <= len
  \/ head > tail /\ head - tail <= len

\* MagicRemoteBuffer::GetNextTail, and the new tail_ of Write
NextTail(tail, len) == (tail + len) % Length

\* MagicRemoteBuffer::Write: the new full_
FullAfterWrite(head, tail, len) == NextTail(tail, len) = head

\* MagicRemoteBuffer::UpdateHead: the new full_, whatever the new head is
FullAfterUpdate == FALSE

-----------------------------------------------------------------------------
(* MagicRingBuffer, the receiver's view *)

\* MagicRingBuffer::Read: the new read_ptr_
NextReadPtr(readPtr, len) == (readPtr + len) % Length

\* outstanding_.push_back(read_offset), at place k of the list
PushBack(out, k, off) ==
  [j \in DOMAIN out \cup {k} |-> IF j = k THEN off ELSE out[j]]

\* outstanding_.begin() and the node after it
IsFront(out, k) == k \in DOMAIN out /\ \A j \in DOMAIN out : k <= j
IsSecond(out, k) ==
  /\ k \in DOMAIN out /\ ~IsFront(out, k)
  /\ \A j \in DOMAIN out : k <= j \/ IsFront(out, j)

\* outstanding_.remove(region_start) drops every node with that offset
Remove(out, off) == [j \in {i \in DOMAIN out : out[i] # off} |-> out[j]]

\* Mutant of FreesFront: any region freed moves the head
FreesFrontAlways(out, off) == TRUE

\* MagicRingBuffer::Free tests whether the region is the oldest one
FreesFront(out, off) == \E k \in DOMAIN out : IsFront(out, k) /\ off = out[k]

\* MagicRingBuffer::Free: the place in the stream that the new head_ stands
\* for, given the places of the old head_ and of read_ptr_
HeadAfterFree(out, off, headPos, readPos) ==
  IF ~FreesFront(out, off) THEN headPos
  ELSE IF \E k \in DOMAIN out : IsSecond(out, k)
       THEN CHOOSE k \in DOMAIN out : IsSecond(out, k)
       ELSE readPos

\* Mutant of OffsetAfterFree: the head jumps over the regions still held
OffsetAfterFreeAll(out, off, head, readPtr) ==
  IF FreesFront(out, off) THEN readPtr ELSE head

\* MagicRingBuffer::Free: the new head_
OffsetAfterFree(out, off, head, readPtr) ==
  IF ~FreesFront(out, off) THEN head
  ELSE IF \E k \in DOMAIN out : IsSecond(out, k)
       THEN out[CHOOSE k \in DOMAIN out : IsSecond(out, k)]
       ELSE readPtr
-----------------------------------------------------------------------------
\* The distance from offset a forward to offset b
Distance(a, b) == IF a <= b THEN b - a ELSE b + (Length - a)
=============================================================================
