------------------------------ MODULE WriteCrc ------------------------------
(***************************************************************************)
(* WriteSender and WriteReceiver: a message carries its length and the CRC  *)
(* of its bytes in front, and the receiver spins until the word at its read *)
(* pointer is no longer zero, then until the CRC is right.  What is freed   *)
(* is cleared, so that the spinning word is zero before a message arrives.  *)
(*                                                                          *)
(* A cell that holds -1 is a zero byte.  Nothing but the CRC says that a    *)
(* write is complete: its bytes reach the memory in any order.  A length    *)
(* word of which some bytes are missing or foreign may be read as anything. *)
(* That a wrong message has a right CRC by chance is left out.              *)
(***************************************************************************)
EXTENDS BufferedWrite

CONSTANTS
  Word,        \* bytes of the length word, and of the checksum
  TornHeaders  \* whether the header's bytes may arrive apart

ASSUME WordAssumption == Word \in Nat \ {0} /\ TornHeaders \in BOOLEAN

VARIABLES
  arrived,     \* bytes in memory of the write that is being executed
  seen,        \* length, as Receive read it; 0 while it spins for one
  checked,     \* whether the CRC was computed since
  lengths,     \* the lengths of the regions the application holds
  wiping       \* regions given back and not yet cleared: length, by offset

crcVars == <<arrived, seen, checked, lengths, wiping>>
vars == <<baseVars, crcVars>>

Init ==
  /\ BaseInit
  /\ arrived = {} /\ seen = 0 /\ checked = FALSE
  /\ lengths = [p \in {} |-> 0] /\ wiping = [o \in {} |-> 0]

-----------------------------------------------------------------------------
Post == PostCall /\ UNCHANGED crcVars

\* The pieces in which a write of len bytes reaches the memory
Pieces(len) ==
  IF TornHeaders THEN {{i} : i \in 0 .. len - 1}
  ELSE {0 .. 2 * Word - 1} \cup {{i} : i \in 2 * Word .. len - 1}

\* A piece of the oldest write that is not complete is executed
Land ==
  /\ landed < posted
  /\ \E piece \in Pieces(msg[landed].len) :
       LET here(o) == Distance(msg[landed].off, o)
           now     == arrived \cup piece
           whole   == now = 0 .. msg[landed].len - 1
       IN  /\ piece \cap arrived = {}
           /\ mem' = [o \in Offsets |->
                        IF here(o) \in piece THEN landed + here(o) ELSE mem[o]]
           /\ arrived' = IF whole THEN {} ELSE now
           /\ landed' = IF whole THEN landed + msg[landed].len ELSE landed
  /\ UNCHANGED <<sndVars, msg, posted, rcvVars, ackQ,
                 seen, checked, lengths, wiping>>

\* The head arrives: read behind the writes, or sent by the receiver
GetHead == (IF AckKind = "read" THEN AckRead ELSE AckPoll) /\ UNCHANGED crcVars

-----------------------------------------------------------------------------
(* WriteReceiver::Receive *)

Cell(o, i) == mem[(o + i) % Length]

\* The word at an offset: zero, the length of a message, or neither
IsZero(o) == \A i \in 0 .. Word - 1 : Cell(o, i) = -1
IsLengthOf(p, o) ==
  p \in DOMAIN msg /\ \A i \in 0 .. Word - 1 : Cell(o, i) = p + i

\* What the receiver may take the length word at an offset for
LengthsAt(o) ==
  IF IsZero(o) THEN {}
  ELSE IF \E p \in DOMAIN msg : IsLengthOf(p, o)
       THEN {msg[Cell(o, 0)].len}
       ELSE 1 .. Length - 1

\* while (*head == 0){}; the length is read once
Notice ==
  /\ rpc = "idle" /\ seen = 0
  /\ \E len \in LengthsAt(readPtr) : seen' = len
  /\ checked' = FALSE
  /\ UNCHANGED <<baseVars, arrived, lengths, wiping>>

\* The CRC of len bytes at an offset is the one that stands with them
Verified(o, len) ==
  \E p \in DOMAIN msg :
    /\ IsLengthOf(p, o) /\ len = msg[p].len
    /\ \A i \in 0 .. len - 1 : Cell(o, i) = p + i

\* Mutant of Passes: the length word alone announces the message
PassesUnchecked(o, len) == TRUE

\* The first comparison is made before anything was processed, when
\* result.checksum() is 0: it succeeds if the checksum word is still zero
Passes(o, len) == IF checked THEN Verified(o, len) ELSE IsZero((o + Word) % Length)

\* The comparison fails: the CRC is computed, and compared from then on
Compute ==
  /\ seen # 0 /\ ~checked /\ ~Passes(readPtr, seen)
  /\ checked' = TRUE
  /\ UNCHANGED <<baseVars, arrived, seen, lengths, wiping>>

\* The comparison succeeds: rbuf_->Read(length)
Receive ==
  /\ seen # 0 /\ Passes(readPtr, seen)
  /\ ReadRegion(seen)
  /\ lengths' = [k \in DOMAIN lengths \cup {read} |->
                   IF k = read THEN seen ELSE lengths[k]]
  /\ seen' = 0 /\ checked' = FALSE
  /\ UNCHANGED <<arrived, wiping>>

-----------------------------------------------------------------------------
(* WriteReceiver::Free *)

FreeStart ==
  /\ seen = 0
  /\ \E k \in DOMAIN outstanding :
       /\ FreeRegion(k)
       /\ wiping' = [o \in {outstanding[k]} |-> lengths[k]]
       /\ lengths' = [j \in DOMAIN lengths \ {k} |-> lengths[j]]
  /\ UNCHANGED <<arrived, seen, checked>>

\* Mutant of Clear: memset leaves the header alone
ClearData ==
  /\ wiping # [o \in {} |-> 0]
  /\ mem' = [c \in Offsets |->
               IF \E o \in DOMAIN wiping :
                    Distance(o, c) \in 2 * Word .. wiping[o] - 1
               THEN -1 ELSE mem[c]]
  /\ wiping' = [o \in {} |-> 0]
  /\ UNCHANGED <<sndVars, wireVars, rcvVars, ackQ,
                 arrived, seen, checked, lengths>>

\* memset of the region, before the head is acknowledged
Clear ==
  /\ wiping # [o \in {} |-> 0]
  /\ mem' = [c \in Offsets |->
               IF \E o \in DOMAIN wiping : Distance(o, c) < wiping[o]
               THEN -1 ELSE mem[c]]
  /\ wiping' = [o \in {} |-> 0]
  /\ UNCHANGED <<sndVars, wireVars, rcvVars, ackQ,
                 arrived, seen, checked, lengths>>

FreeAck ==
  /\ wiping = [o \in {} |-> 0]
  /\ Acknowledge
  /\ UNCHANGED crcVars

-----------------------------------------------------------------------------
SendStart  == (\E c \in Calls : SendAsync(c)) /\ UNCHANGED crcVars
SendRegion == Reserve    /\ UNCHANGED crcVars
SendGet    == NeedHead   /\ UNCHANGED crcVars
SendUpdate == UpdateHead /\ UNCHANGED crcVars

Sender   == SendStart \/ SendRegion \/ SendGet \/ SendUpdate \/ Post
Network  == Land \/ GetHead
Receiver == Notice \/ Compute \/ Receive \/ FreeStart \/ Clear \/ FreeAck

Next == Sender \/ Network \/ Receiver

Spec == Init /\ [][Next]_vars

\* Threads and network go on whenever they can; the application receives and
\* frees, but nobody has to start another send
FairSpec ==
  /\ Spec
  /\ WF_vars(SendRegion \/ SendGet \/ SendUpdate \/ Post)
  /\ WF_vars(Network)
  /\ WF_vars(Notice \/ Compute \/ Receive)
  /\ WF_vars(FreeStart) /\ WF_vars(Clear \/ FreeAck)

-----------------------------------------------------------------------------
\* Every variable has its type.
TypeOK ==
  /\ BaseTypeOK
  /\ arrived \subseteq 0 .. Length - 1
  /\ seen \in 0 .. Length - 1 /\ checked \in BOOLEAN
  /\ DOMAIN lengths \subseteq Nat
  /\ lengths \in [DOMAIN lengths -> 1 .. Length - 1]
  /\ DOMAIN wiping \subseteq Offsets
  /\ wiping \in [DOMAIN wiping -> 1 .. Length - 1]

\* What the application holds is a message that was sent, of its length and
\* complete, and no write or memset changes it before Free gave it back.
HeldWhole ==
  HeldIntact /\ \A k \in DOMAIN outstanding : lengths[k] = msg[k].len

\* The word Receive spins on is zero as long as nothing of the next message
\* has arrived, however full the ring is, and what Receive took for a length
\* is the length of the message sent next (Receive, memset in Free).
NoPhantom ==
  /\ read = landed /\ arrived = {} => IsZero(readPtr)
  /\ seen # 0 => read \in DOMAIN msg /\ seen = msg[read].len

\* The receiver's view of a CRC ring: what Receive returns is whole, and what it
\* spins on until then is blank (Receive, Free).
CrcInv == TypeOK /\ HeldWhole /\ NoPhantom

-----------------------------------------------------------------------------
(* The inductive invariant behind CrcInv, for headers that arrive at once and *)
(* a ring and regions that are whole words long                               *)

RegionLengths == {n \in 2 * Word .. Length - 1 : n % Word = 0}

\* The length word a receiver spins on never reaches into the next region
WordCalls == Length % Word = 0 /\ \A c \in Calls : c \in Seq(RegionLengths)

WordsAligned ==
  /\ todo \in Seq(RegionLengths)
  /\ \A p \in DOMAIN msg : msg[p].len \in RegionLengths
  /\ \A p \in Boundaries \cup {freed, ackPos} : p % Word = 0

\* Of the write that is executed some of the bytes are in memory and some are
\* not, and of its header all or none
InPart ==
  /\ arrived # {} => landed < posted
  /\ landed < posted =>
       /\ arrived \subseteq 0 .. msg[landed].len - 1
       /\ arrived # 0 .. msg[landed].len - 1
  /\ \A i \in 0 .. 2 * Word - 1 : i \in arrived <=> 0 \in arrived

\* Whether the byte at a place is in memory: it arrived and was not read, or it
\* is held, or it is given back and not yet cleared
Arrived(b) == b < landed \/ b - landed \in arrived
Held(b)    == \E k \in DOMAIN outstanding : k <= b /\ b < k + msg[k].len
Unwiped(b) == \E o \in DOMAIN wiping : Distance(o, b % Length) < wiping[o]
Filled(b)  == (read <= b /\ Arrived(b)) \/ Held(b) \/ Unwiped(b)

\* From the published head once around the ring every byte is in its cell or
\* the cell is clear
RingExact ==
  \A b \in ackPos .. ackPos + Length - 1 :
    mem[b % Length] = IF Filled(b) THEN b ELSE -1

LengthsKept ==
  /\ DOMAIN lengths = DOMAIN outstanding
  /\ \A k \in DOMAIN outstanding : lengths[k] = msg[k].len

\* What Free is about to clear was read, and nobody holds it any more
WipesFreed ==
  \A o \in DOMAIN wiping :
    /\ rpc = "ack"
    /\ \E w \in DOMAIN msg \ DOMAIN outstanding :
         /\ o = w % Length /\ wiping[o] = msg[w].len
         /\ ackPos <= w /\ w + msg[w].len <= read

SeenNext ==
  seen # 0 => read \in DOMAIN msg /\ seen = msg[read].len /\ Arrived(read)

\* TypeOK strengthened until every step preserves it; HeldWhole and NoPhantom
\* follow from it (WritePollingProofs).
IInv ==
  /\ TypeOK /\ BaseInv /\ WordsAligned /\ InPart /\ RingExact
  /\ LengthsKept /\ WipesFreed /\ SeenNext
=============================================================================
