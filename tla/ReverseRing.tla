---------------------------- MODULE ReverseRing ----------------------------
(***************************************************************************)
(* The ring of reverse_buffer.cpp, which grows downwards: the two ends step *)
(* from the current offset to the lower one where the next region begins.   *)
(* Offsets run over 0 .. Length; 0, where both ends begin, and Length are   *)
(* the same byte of the double mapping, and no step ever arrives at 0.      *)
(***************************************************************************)
EXTENDS RingBuffer

\* ReverseRemoteBuffer::GetNextTail and ReverseRingBuffer::Read
Down(off, len) == IF off > len THEN off - len ELSE off + Length - len

\* Mutant of NoNextTail: the case head_ > tail_ is forgotten
NoNextTailWrapped(head, tail, full, len) ==
  \/ head = tail /\ (full \/ len > Length)
  \/ head < tail /\ tail - head <= len

\* ReverseRemoteBuffer::GetNextTail returns an error: the four refusals
NoNextTail(head, tail, full, len) ==
  \/ head = tail /\ full
  \/ head = tail /\ len > Length
  \/ head > tail /\ (Length - head) + tail <= len
  \/ head < tail /\ tail - head <= len

\* ReverseRingBuffer::GetReadOff: the last byte of the next region
LastByte(readPtr) == IF readPtr > 0 THEN readPtr - 1 ELSE Length - 1
=============================================================================
