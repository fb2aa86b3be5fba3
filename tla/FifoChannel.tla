----------------------------- MODULE FifoChannel -----------------------------
(***************************************************************************)
(* What a connection promises its two users (conn.hpp, Sender and           *)
(* Receiver): messages are received whole, in the order they were sent and  *)
(* once each, and a received message does not change until it is freed.     *)
(*                                                                          *)
(* A message is known by its position in the stream, a number.  Positions   *)
(* grow, but need not follow each other.                                    *)
(***************************************************************************)
EXTENDS Integers

VARIABLES
  sent,        \* the messages sent so far, by position
  taken,       \* the positions of those that were received
  held         \* the messages received and not freed, by position

vars == <<sent, taken, held>>

Init == sent = [p \in {} |-> 0] /\ taken = {} /\ held = [p \in {} |-> 0]

\* Sender::Send or SendAsync of one or more messages
Send ==
  /\ DOMAIN sent \subseteq DOMAIN sent' /\ DOMAIN sent # DOMAIN sent'
  /\ \A p \in DOMAIN sent : sent'[p] = sent[p]
  /\ \A p \in DOMAIN sent, q \in DOMAIN sent' \ DOMAIN sent : p < q
  /\ UNCHANGED <<taken, held>>

\* Receiver::Receive returns the first message that was not received
Receive ==
  \E p \in DOMAIN sent \ taken :
    /\ \A q \in DOMAIN sent \ taken : p <= q
    /\ taken' = taken \cup {p}
    /\ held' = [q \in DOMAIN held \cup {p} |-> IF q = p THEN sent[p] ELSE held[q]]
    /\ UNCHANGED sent

\* Receiver::Free, in any order
Free ==
  /\ \E p \in DOMAIN held : held' = [q \in DOMAIN held \ {p} |-> held[q]]
  /\ UNCHANGED <<sent, taken>>

Next == Send \/ Receive \/ Free

\* What may happen, and that all that was sent is received in the end
Safe == Init /\ [][Next]_vars
Spec == Safe /\ WF_vars(Receive)
=============================================================================
