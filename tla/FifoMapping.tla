----------------------------- MODULE FifoMapping -----------------------------
(***************************************************************************)
(* How the state of a buffered write maps to the FIFO channel it implements *)
(***************************************************************************)
EXTENDS BufferedWrite

\* A message is the tuple of its bytes; here as the receiver's ring holds them
\* from an offset on, and as the sender wrote them at a place of the stream
InRing(o, len) == [i \in 1 .. len |-> mem[(o + i - 1) % Length]]
AsSent(p) == [i \in 1 .. msg[p].len |-> p + i - 1]

LengthAt(k) == IF k \in DOMAIN msg THEN msg[k].len ELSE 1

\* The position of a message is the place it begins at
SentMessages == [p \in {q \in DOMAIN msg : q < posted} |-> AsSent(p)]
TakenPlaces  == {p \in DOMAIN msg : p < read}
HeldMessages == [k \in DOMAIN outstanding |-> InRing(outstanding[k], LengthAt(k))]

Fifo == INSTANCE FifoChannel WITH
  sent <- SentMessages, taken <- TakenPlaces, held <- HeldMessages

\* The connection is a FIFO channel: posting is Send, Receive is Receive, Free
\* is Free, every other step is invisible to the users, and what was sent is
\* received in the end.  A byte of a held message that changes in the ring, a
\* message skipped, doubled or cut would be a step the channel does not have
\* (SendAsync, Receive and Free of write.cpp).
ImplementsFifo == Fifo!Spec
=============================================================================
