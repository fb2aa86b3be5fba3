-------------------------- MODULE BufferedWriteProofs --------------------------
(***************************************************************************)
(* The ring buffer's operations for every length of the ring, and what      *)
(* sender, acknowledger and receiver of every buffered write keep, for      *)
(* every ring length, every set of calls with regions shorter than the ring *)
(* and both acknowledgers: one lemma for each step the connections share.   *)
(***************************************************************************)
EXTENDS FifoMapping, SequenceTheorems, TLAPS, WellFoundedInduction

-----------------------------------------------------------------------------
(* Offsets modulo the length of the ring *)

\* A multiple of a number L strictly between -L and L is 0.
LEMMA SmallMultiple ==
  ASSUME NEW L \in Nat \ {0}, NEW q \in Int, L * q < L, -L < L * q
  PROVE  q = 0
<1>1. CASE q >= 1
  <2>1. L * q >= L * 1 BY <1>1
  <2>2. QED BY <2>1
<1>2. CASE q <= -1
  <2>1. L * q <= L * (-1) BY <1>2
  <2>2. QED BY <2>1
<1>3. QED BY <1>1, <1>2

\* Quotient and remainder of a number by L.
LEMMA Quotient ==
  ASSUME NEW L \in Nat \ {0}, NEW p \in Int
  PROVE  /\ p % L \in 0 .. L - 1 /\ p \div L \in Int
         /\ p = L * (p \div L) + (p % L)
<1>1. p % L \in 0 .. L - 1 OBVIOUS
<1>2. p \div L \in Int OBVIOUS
<1>3. p = L * (p \div L) + (p % L) OBVIOUS
<1>4. QED BY <1>1, <1>2, <1>3

\* Two numbers less than L apart have the same remainder only if they are
\* equal.
LEMMA SameRemainder ==
  ASSUME NEW L \in Nat \ {0}, NEW p \in Int, NEW q \in Int, p - q < L, q - p < L,
         p % L = q % L
  PROVE  p = q
<1> DEFINE a == p \div L
<1> DEFINE b == q \div L
<1> DEFINE r == p % L
<1>1. a \in Int /\ b \in Int /\ r \in Int /\ p = L * a + r /\ q = L * b + r
  <2>1. /\ p % L \in 0 .. L - 1 /\ a \in Int
        /\ p = L * a + (p % L) BY Quotient
  <2>2. b \in Int /\ q = L * b + (q % L) BY Quotient
  <2>3. p % L \in Int BY <2>1
  <2>4. QED BY <2>1, <2>2, <2>3
<1> HIDE DEF a, b, r
<1>2. L * (a - b) = L * a - L * b /\ a - b \in Int
      /\ L * a \in Int /\ L * b \in Int
  BY <1>1
<1>3. L * (a - b) < L /\ -L < L * (a - b)
  BY <1>1, <1>2
<1>4. a - b = 0 BY <1>2, <1>3, SmallMultiple
<1>5. a = b BY <1>1, <1>4
<1>6. QED BY <1>1, <1>5

\* The remainder is unique.
LEMMA RemainderIs ==
  ASSUME NEW L \in Nat \ {0}, NEW q \in Int, NEW s \in 0 .. L - 1
  PROVE  (L * q + s) % L = s
<1> DEFINE x == L * q + s
<1> DEFINE d == q - (x \div L)
<1>0. x \in Int OBVIOUS
<1>1. /\ x % L \in 0 .. L - 1 /\ x \div L \in Int
      /\ x = L * (x \div L) + (x % L)
  <2> HIDE DEF x
  <2> QED BY <1>0, Quotient
<1>2. d \in Int BY <1>1
<1>3. L * d = L * q - L * (x \div L)
  BY <1>1
<1>x. x = L * q + s /\ L * q \in Int /\ s \in Int
  OBVIOUS
<1>4. L * d = (x % L) - s
  <2>1. x % L \in Int /\ L * (x \div L) \in Int
    BY <1>1
  <2> HIDE DEF x, d
  <2>2. QED BY <1>1, <1>3, <1>x, <2>1
<1>5. L * d < L /\ -L < L * d
  BY <1>1, <1>4
<1>6. d = 0
  <2> HIDE DEF d
  <2> QED BY <1>2, <1>5, SmallMultiple
<1>7. L * d = 0 BY <1>6
<1>8. QED BY <1>1, <1>4, <1>7

\* Quotient and remainder of a place by the length of the ring.
LEMMA Division ==
  ASSUME NEW p \in Int
  PROVE  /\ p % Length \in Offsets
         /\ p \div Length \in Int
         /\ p = Length * (p \div Length) + (p % Length)
BY LengthAssumption, Quotient DEF Offsets

\* The offset of a place is unique.
LEMMA Remainder ==
  ASSUME NEW q \in Int, NEW s \in Offsets
  PROVE  (Length * q + s) % Length = s
BY LengthAssumption, RemainderIs DEF Offsets

\* Adding at most a ring's length wraps around at most once; the code's
\* (offset + len) % length_ and the place's own offset agree.
LEMMA AddMod ==
  ASSUME NEW p \in Nat, NEW n \in 0 .. Length
  PROVE  /\ (p + n) % Length = IF (p % Length) + n < Length
                                 THEN (p % Length) + n
                                 ELSE (p % Length) + n - Length
         /\ ((p % Length) + n) % Length = (p + n) % Length
<1> DEFINE q == p \div Length
<1> DEFINE r == p % Length
<1>1. r \in Offsets /\ q \in Int /\ p = Length * q + r BY Division
<1> HIDE DEF q, r
<1>2. CASE r + n < Length
  <2>1. r + n \in Offsets BY <1>1, <1>2, LengthAssumption DEF Offsets
  <2>2. p + n = Length * q + (r + n) BY <1>1, LengthAssumption DEF Offsets
  <2>3. (p + n) % Length = r + n BY <2>1, <2>2, <1>1, Remainder
  <2>4. (r + n) % Length = r + n
    <3>1. Length * 0 + (r + n) = r + n BY <2>1, LengthAssumption DEF Offsets
    <3>2. r + n \in Nat BY <2>1 DEF Offsets
    <3>3. QED BY <2>1, <3>1, <3>2, Remainder
  <2>5. QED BY <1>2, <2>3, <2>4 DEF r
<1>3. CASE ~(r + n < Length)
  <2> DEFINE s == r + n - Length
  <2>1. s \in Offsets BY <1>1, <1>3, LengthAssumption DEF Offsets
  <2>2. Length * (q + 1) = Length * q + Length BY <1>1, LengthAssumption
  <2>3. p + n = Length * (q + 1) + s BY <1>1, <2>2, LengthAssumption DEF Offsets
  <2>4. q + 1 \in Int BY <1>1
  <2>5. (p + n) % Length = s
    <3> HIDE DEF s
    <3> QED BY <2>1, <2>3, <2>4, Remainder
  <2>6. (r + n) % Length = s
    <3>1. Length * 1 + s = r + n BY <1>1, LengthAssumption DEF Offsets
    <3>2. r + n \in Nat BY <1>1, LengthAssumption DEF Offsets
    <3> HIDE DEF s
    <3>3. QED BY <2>1, <3>1, <3>2, Remainder
  <2>7. QED BY <1>3, <2>5, <2>6 DEF r
<1>4. QED BY <1>2, <1>3

\* Distance is the difference of the places, within one turn of the ring.
LEMMA DistanceOfPlaces ==
  ASSUME NEW p \in Nat, NEW n \in Offsets
  PROVE  Distance(p % Length, (p + n) % Length) = n
<1> DEFINE r == p % Length
<1> DEFINE e == (p + n) % Length
<1>1. r \in Offsets BY Division
<1>2. n \in 0 .. Length BY LengthAssumption DEF Offsets
<1>3. e = IF r + n < Length THEN r + n ELSE r + n - Length
  BY <1>2, AddMod
<1>4. Distance(r, e) = n
  <2> HIDE DEF r, e
  <2> QED BY <1>1, <1>3, LengthAssumption DEF Distance, Offsets
<1>5. QED BY <1>4

\* Going Distance forward from an offset arrives at the other one.
LEMMA DistanceArrives ==
  ASSUME NEW p \in Nat, NEW o \in Offsets
  PROVE  /\ Distance(p % Length, o) \in Offsets
         /\ (p + Distance(p % Length, o)) % Length = o
<1> DEFINE r == p % Length
<1> DEFINE n == Distance(r, o)
<1>1. r \in Offsets BY Division
<1>2. n \in Offsets /\ n \in 0 .. Length
  <2> HIDE DEF r
  <2> QED BY <1>1, LengthAssumption DEF Distance, Offsets
<1>3. (p + n) % Length = IF r + n < Length THEN r + n ELSE r + n - Length
  <2> HIDE DEF n
  <2> QED BY <1>2, AddMod
<1>4. (IF r + n < Length THEN r + n ELSE r + n - Length) = o
  <2> HIDE DEF r
  <2> QED BY <1>1, LengthAssumption DEF Distance, Offsets
<1>5. QED BY <1>2, <1>3, <1>4

\* Two places less than a turn apart share an offset only if they are equal.
LEMMA SameOffset ==
  ASSUME NEW p \in Nat, NEW q \in Nat, p <= q, q - p < Length,
         p % Length = q % Length
  PROVE  p = q
<1>1. p - q < Length /\ p \in Int /\ q \in Int BY LengthAssumption
<1>2. QED BY <1>1, LengthAssumption, SameRemainder

\* The cells of a region, as Distance measures them from its first one, hold its
\* places and no others, as long as all are within one turn of the ring.
LEMMA RegionCells ==
  ASSUME NEW w \in Nat, NEW p \in Nat, NEW len \in Nat, NEW b \in Nat,
         w <= p, p + len <= w + Length, w <= b, b < w + Length
  PROVE  LET d == Distance(p % Length, b % Length)
         IN  /\ d \in Offsets
             /\ d < len <=> (p <= b /\ b < p + len)
             /\ d < len => p + d = b
<1> DEFINE d == Distance(p % Length, b % Length)
<1>1. b % Length \in Offsets BY Division
<1>2. d \in Offsets /\ (p + d) % Length = b % Length BY <1>1, DistanceArrives
<1>3. CASE p <= b
  <2>1. b - p \in Offsets /\ p + (b - p) = b
    BY <1>3, LengthAssumption DEF Offsets
  <2>2. d = b - p BY <2>1, DistanceOfPlaces
  <2>3. (d < len <=> p <= b /\ b < p + len) /\ (d < len => p + d = b)
    <3> HIDE DEF d
    <3> QED BY ONLY <1>3, <2>2, p \in Nat, b \in Nat, len \in Nat
  <2>4. QED BY <1>2, <2>3
<1>4. CASE ~(p <= b)
  <2>1. ~(d < len)
    <3>1. SUFFICES ASSUME d < len PROVE FALSE OBVIOUS
    <3> HIDE DEF d
    <3>2. d \in Nat BY <1>2, LengthAssumption DEF Offsets
    <3>3. p + d \in Nat /\ b <= p + d /\ (p + d) - b < Length
      BY <1>4, <3>1, <3>2, LengthAssumption
    <3>4. b = p + d BY <1>2, <3>3, SameOffset
    <3>5. QED BY <1>4, <3>2, <3>4
  <2>2. QED BY <1>2, <1>4, <2>1
<1>5. QED BY <1>3, <1>4

-----------------------------------------------------------------------------
(* The sender's view *)

\* GetWriteAddr: if the cached head lags less than a ring's length behind the
\* tail and full_ is not set, a region shorter than the ring that is not
\* refused leaves at least one byte free, and Write does not set full_.
LEMMA WriteLeavesRoom ==
  ASSUME NEW head \in Nat, NEW tail \in Nat, NEW len \in 1 .. Length - 1,
         head <= tail, tail - head < Length,
         ~NoWriteAddr(head % Length, tail % Length, FALSE, len)
  PROVE  /\ tail + len - head < Length
         /\ NextTail(tail % Length, len) = (tail + len) % Length
         /\ ~FullAfterWrite(head % Length, tail % Length, len)
<1> DEFINE n == tail - head
<1>1. n \in Offsets /\ tail = head + n BY LengthAssumption DEF Offsets
<1>2. n \in 0 .. Length /\ len \in 0 .. Length BY <1>1, LengthAssumption DEF Offsets
<1>3. head % Length \in Offsets /\ tail % Length \in Offsets BY Division
<1>4. tail % Length = IF (head % Length) + n < Length
                           THEN (head % Length) + n
                           ELSE (head % Length) + n - Length
  <2> HIDE DEF n
  <2> QED BY <1>1, <1>2, AddMod
<1>5. n + len < Length
  BY <1>1, <1>3, <1>4, LengthAssumption DEF NoWriteAddr, Offsets
<1>6. NextTail(tail % Length, len) = (tail + len) % Length
  BY <1>2, AddMod DEF NextTail
<1>7. (tail + len) % Length # head % Length
  <2>1. SUFFICES ASSUME head % Length = (tail + len) % Length PROVE FALSE
    OBVIOUS
  <2>2. head = tail + len BY <1>5, <2>1, SameOffset
  <2>3. QED BY <2>2
<1>8. QED BY <1>5, <1>6, <1>7 DEF FullAfterWrite

-----------------------------------------------------------------------------
(* The receiver's view *)

\* A nonempty set of places has a least element.
LEMMA LeastPlace ==
  ASSUME NEW S \in SUBSET Nat, S # {}
  PROVE  \E k \in S : \A j \in S : k <= j
<1> DEFINE R == {ss \in Nat \X Nat : ss[1] < ss[2]}
<1>1. IsWellFoundedOn(R, Nat) BY NatLessThanWellFounded DEF OpToRel
<1>2. PICK x \in S : \A y \in S : ~(<<y, x>> \in R)
  <2> HIDE DEF R
  <2> QED BY <1>1, WFMin
<1>3. \A j \in S : ~(j < x) BY <1>2
<1>4. QED BY <1>3

\* MagicRingBuffer::Free moves the head to the place of an outstanding region
\* or of the read pointer, never back, and never past a region that is left.
LEMMA FreeMovesHead ==
  ASSUME NEW out, DOMAIN out \subseteq Nat, NEW headPos \in Nat,
         NEW readPos \in Nat, headPos <= readPos,
         \A k \in DOMAIN out : headPos <= k /\ k < readPos,
         NEW off
  PROVE  LET new == HeadAfterFree(out, off, headPos, readPos)
         IN  /\ new \in Nat /\ headPos <= new /\ new <= readPos
             /\ \A k \in DOMAIN Remove(out, off) :
                   k \in DOMAIN out /\ new <= k
<1> DEFINE new == HeadAfterFree(out, off, headPos, readPos)
<1>0. \A k \in DOMAIN Remove(out, off) : k \in DOMAIN out /\ out[k] # off
  BY DEF Remove
<1>1. CASE ~FreesFront(out, off)
  BY <1>0, <1>1 DEF HeadAfterFree
<1>2. CASE FreesFront(out, off)
  <2>1. PICK f \in DOMAIN out : IsFront(out, f) /\ out[f] = off
    BY <1>2 DEF FreesFront
  <2>2. CASE \E k \in DOMAIN out : IsSecond(out, k)
    <3>1. PICK s \in DOMAIN out : IsSecond(out, s) /\ new = s
      BY <1>2, <2>2 DEF HeadAfterFree
    <3>2. ASSUME NEW k \in DOMAIN Remove(out, off) PROVE s <= k
      <4>1. k \in DOMAIN out /\ k # f BY <1>0, <2>1
      <4>2. ~IsFront(out, k) BY <2>1, <4>1 DEF IsFront
      <4>3. QED BY <3>1, <4>1, <4>2 DEF IsSecond
    <3>3. QED BY <1>0, <3>1, <3>2
  <2>3. CASE ~\E k \in DOMAIN out : IsSecond(out, k)
    <3>1. new = readPos BY <1>2, <2>3 DEF HeadAfterFree
    <3> DEFINE Rest == DOMAIN out \ {f}
    <3>2. Rest = {}
      <4>1. SUFFICES ASSUME Rest # {} PROVE FALSE OBVIOUS
      <4>2. PICK s \in Rest : \A j \in Rest : s <= j
        BY <4>1, LeastPlace
      <4>3. ~IsFront(out, s) BY <2>1, <4>2 DEF IsFront
      <4>4. IsSecond(out, s) BY <2>1, <4>2, <4>3 DEF IsSecond
      <4>5. QED BY <2>3, <4>4, <4>2
    <3>3. DOMAIN Remove(out, off) = {} BY <1>0, <2>1, <3>2
    <3>4. QED BY <3>1, <3>3
  <2>4. QED BY <2>2, <2>3
<1>3. QED BY <1>1, <1>2

\* The offset Free returns is that of the place the head moves to.
LEMMA FreeOffset ==
  ASSUME NEW out, \A k \in DOMAIN out : out[k] = k % Length,
         NEW headPos, NEW readPos, NEW off
  PROVE  OffsetAfterFree(out, off, headPos % Length, readPos % Length)
           = HeadAfterFree(out, off, headPos, readPos) % Length
BY DEF OffsetAfterFree, HeadAfterFree

-----------------------------------------------------------------------------
(* What the connections share *)

\* The facts about offsets of places that every step below needs.
LEMMA PlaceOffset ==
  ASSUME NEW p \in Nat
  PROVE  p % Length \in Offsets
BY Division

\* The first element of a sequence.
LEMMA HeadIsFirst ==
  ASSUME NEW S, NEW s \in Seq(S), s # <<>>
  PROVE  Head(s) = s[1] /\ s[1] \in S
OBVIOUS

\* The places, and how they follow each other.
LEMMA PlaceFacts ==
  ASSUME BaseInv
  PROVE  /\ {known, replyPos, ackPos, freed, read, landed, posted, written} \subseteq Nat
         /\ known <= ackPos /\ known <= freed /\ known <= read /\ known <= landed
         /\ ackPos <= freed /\ ackPos <= read /\ ackPos <= landed
         /\ freed <= read /\ freed <= landed /\ read <= landed
         /\ landed <= posted /\ posted <= written /\ landed <= written
         /\ read <= written /\ written - known < Length
<1>1. {known, replyPos, ackPos, freed, read, landed, posted, written} \subseteq Nat
  BY DEF BaseInv, BaseTypeOK
<1>2. PlacesOrdered BY DEF BaseInv
<1>3. QED BY ONLY <1>1, <1>2, LengthAssumption DEF PlacesOrdered

\* The regions reserved.
LEMMA RegionFacts ==
  ASSUME BaseInv, NEW p \in DOMAIN msg
  PROVE  /\ p \in Nat /\ msg[p].len \in Nat \ {0} /\ msg[p].off = p % Length
         /\ p + msg[p].len \in Boundaries /\ p + msg[p].len <= written
         /\ \A q \in Boundaries : p < q => p + msg[p].len <= q
<1>1. p \in Nat /\ msg[p] \in Region BY DEF BaseInv, BaseTypeOK
<1>2. p + msg[p].len \in Boundaries /\ p + msg[p].len <= written
  BY DEF BaseInv, RegionsTile
<1>3. msg[p].off = p % Length BY DEF BaseInv, OffsetsMatch
<1>4. \A q \in Boundaries : p < q => p + msg[p].len <= q
  BY <1>2 DEF BaseInv, RegionsTile, Boundaries
<1>5. QED BY <1>1, <1>2, <1>3, <1>4 DEF Region

\* The next region to land or to be read is one of those reserved.
LEMMA NextIsRegion ==
  ASSUME BaseInv
  PROVE  /\ landed < posted => landed \in DOMAIN msg
         /\ read < landed => read \in DOMAIN msg
         /\ landed \in Boundaries /\ read \in Boundaries /\ posted \in Boundaries
<1>1. landed \in Boundaries /\ read \in Boundaries /\ posted \in Boundaries
  BY DEF BaseInv, RegionsTile
<1>2. QED BY <1>1, PlaceFacts DEF Boundaries

-----------------------------------------------------------------------------
\* The initial state.
LEMMA BaseInitInv == BaseInit => BaseInv /\ LiveBytes
<1> SUFFICES ASSUME BaseInit PROVE BaseInv /\ LiveBytes OBVIOUS
<1> USE DEF BaseInit
<1>0. 0 \in Offsets /\ 0 % Length = 0
  <2>1. 0 \in Offsets BY LengthAssumption DEF Offsets
  <2>2. 0 % Length = 0
    <3>1. Length * 0 + 0 = 0 BY LengthAssumption
    <3>2. QED BY <2>1, <3>1, Remainder
  <2>3. QED BY <2>1, <2>2
<1>1. BaseTypeOK BY <1>0 DEF BaseTypeOK, Region
<1>2. sndFull = FALSE /\ todo \in Seq(1 .. Length - 1) OBVIOUS
<1>3. OffsetsMatch BY <1>0 DEF OffsetsMatch
<1>4. PlacesOrdered BY LengthAssumption DEF PlacesOrdered
<1>5. RegionsTile BY DEF RegionsTile, Boundaries
<1>6. CallUnderWay BY DEF CallUnderWay
<1>7. HeldAhead BY DEF HeldAhead
<1>8. AcksApart BY DEF AcksApart
<1>9. LiveBytes BY DEF LiveBytes
<1>10. QED BY <1>1, <1>2, <1>3, <1>4, <1>5, <1>6, <1>7, <1>8, <1>9 DEF BaseInv

\* Steps that leave all of this alone, whatever they do to the ring's memory.
LEMMA BaseKept ==
  ASSUME BaseInv, UNCHANGED <<sndVars, wireVars, rcvVars, ackQ>>,
         mem' \in [Offsets -> Nat \cup {-1}]
  PROVE  BaseInv'
<1> USE DEF BaseInv, sndVars, wireVars, rcvVars
<1>1. BaseTypeOK' BY DEF BaseTypeOK
<1>2. sndFull' = FALSE /\ todo' \in Seq(1 .. Length - 1) OBVIOUS
<1>3. OffsetsMatch' BY DEF OffsetsMatch
<1>4. PlacesOrdered' BY DEF PlacesOrdered
<1>5. RegionsTile' BY DEF RegionsTile, Boundaries
<1>6. CallUnderWay' BY DEF CallUnderWay
<1>7. HeldAhead' BY DEF HeldAhead
<1>8. AcksApart' BY DEF AcksApart
<1>9. QED BY <1>1, <1>2, <1>3, <1>4, <1>5, <1>6, <1>7, <1>8

\* Steps that write nothing and free nothing back keep the bytes of the stream.
LEMMA LiveBytesKept ==
  ASSUME BaseInv, LiveBytes, UNCHANGED <<mem, landed>>,
         freed' \in Nat, freed <= freed'
  PROVE  LiveBytes'
<1>1. freed \in Nat /\ landed \in Nat BY PlaceFacts
<1>2. \A b \in freed' .. landed' - 1 : b \in freed .. landed - 1 BY <1>1
<1>3. QED BY <1>2 DEF LiveBytes

-----------------------------------------------------------------------------
(* The sender *)

\* A call starts: only the sender's list of regions changes.
LEMMA SendAsyncInv ==
  ASSUME ShortCalls, BaseInv, NEW c \in Calls, SendAsync(c)
  PROVE  BaseInv'
<1> USE DEF SendAsync, BaseInv, wireVars, rcvVars
<1>0. todo' = c /\ c \in Seq(1 .. Length - 1)
  BY DEF ShortCalls
<1>1. BaseTypeOK'
  <2>1. todo' \in Seq(Nat \ {0}) BY <1>0, CallsAssumption
  <2>2. QED BY <2>1 DEF BaseTypeOK
<1>2. sndFull' = FALSE /\ todo' \in Seq(1 .. Length - 1) BY <1>0
<1>3. OffsetsMatch' BY DEF OffsetsMatch
<1>4. PlacesOrdered' BY DEF PlacesOrdered
<1>5. RegionsTile' BY DEF RegionsTile, Boundaries
<1>6. HeldAhead' BY DEF HeldAhead
<1>7. AcksApart' BY DEF AcksApart
<1>8. CallUnderWay' BY <1>0, CallsAssumption DEF CallUnderWay
<1>9. QED BY <1>1, <1>2, <1>3, <1>4, <1>5, <1>6, <1>7, <1>8

\* GetWriteAddr asks for the head: only the sender's control moves.
LEMMA NeedHeadInv ==
  ASSUME BaseInv, NeedHead
  PROVE  BaseInv'
<1> USE DEF NeedHead, BaseInv, wireVars, rcvVars
<1>1. BaseTypeOK' BY DEF BaseTypeOK
<1>2. sndFull' = FALSE /\ todo' \in Seq(1 .. Length - 1) OBVIOUS
<1>3. OffsetsMatch' BY DEF OffsetsMatch
<1>4. PlacesOrdered' BY DEF PlacesOrdered
<1>5. RegionsTile' BY DEF RegionsTile, Boundaries
<1>6. HeldAhead' BY DEF HeldAhead
<1>7. AcksApart' BY DEF AcksApart
<1>8. CallUnderWay' BY DEF CallUnderWay
<1>9. QED BY <1>1, <1>2, <1>3, <1>4, <1>5, <1>6, <1>7, <1>8

\* ReadAckReceiver::Get: the head the receiver published is fetched.
LEMMA AckReadInv ==
  ASSUME BaseInv, AckRead
  PROVE  BaseInv'
<1> USE DEF AckRead, BaseInv, wireVars, rcvVars
<1>1. BaseTypeOK' BY DEF BaseTypeOK
<1>2. sndFull' = FALSE /\ todo' \in Seq(1 .. Length - 1) OBVIOUS
<1>3. OffsetsMatch' BY DEF OffsetsMatch
<1>4. PlacesOrdered'
  BY LengthAssumption DEF PlacesOrdered, BaseTypeOK
<1>5. RegionsTile' BY DEF RegionsTile, Boundaries
<1>6. HeldAhead' BY DEF HeldAhead
<1>7. AcksApart' BY DEF AcksApart
<1>8. CallUnderWay' BY DEF CallUnderWay
<1>9. QED BY <1>1, <1>2, <1>3, <1>4, <1>5, <1>6, <1>7, <1>8

\* SendAckReceiver::Get: the one head update under way is taken.
LEMMA AckPollInv ==
  ASSUME BaseInv, AckPoll
  PROVE  BaseInv'
<1> USE DEF AckPoll, BaseInv, wireVars, rcvVars
<1>a. /\ Len(ackQ) = 1 /\ ackQ[1].pos = ackedPos
      /\ ackedPos > replyPos + MaxUnacked /\ known = replyPos
      /\ ackedPos <= ackPos
  BY DEF AcksApart
<1>b. ackQ \in Seq([off : Offsets, pos : Nat]) BY DEF BaseTypeOK
<1>c. Head(ackQ) = ackQ[1] /\ ackQ[1] \in [off : Offsets, pos : Nat]
  BY <1>b, HeadIsFirst DEF AckPoll
<1>d. ackQ[1].off = ackQ[1].pos % Length BY <1>a DEF OffsetsMatch
<1>0. /\ Head(ackQ) \in [off : Offsets, pos : Nat]
      /\ Head(ackQ).pos = ackedPos /\ Head(ackQ).off = ackedPos % Length
  BY <1>a, <1>c, <1>d
<1>1. BaseTypeOK'
  <2>1. ackQ' = <<>> /\ reply' \in Offsets /\ replyPos' \in Nat BY <1>0
  <2>2. ackQ' \in Seq([off : Offsets, pos : Nat]) BY <2>1
  <2>3. QED BY <2>1, <2>2 DEF BaseTypeOK
<1>2. sndFull' = FALSE /\ todo' \in Seq(1 .. Length - 1) OBVIOUS
<1>3. OffsetsMatch' BY <1>0 DEF OffsetsMatch
<1>4. PlacesOrdered'
  BY <1>0, <1>a, LengthAssumption, SMTT(30) DEF PlacesOrdered, BaseTypeOK, MaxUnacked
<1>5. RegionsTile' BY DEF RegionsTile, Boundaries
<1>6. HeldAhead' BY DEF HeldAhead
<1>7. AcksApart' BY <1>0, <1>a DEF AcksApart
<1>8. CallUnderWay' BY DEF CallUnderWay
<1>9. QED BY <1>1, <1>2, <1>3, <1>4, <1>5, <1>6, <1>7, <1>8

\* UpdateHead: the cached head catches up with the one that was fetched, which
\* lies between the old one and the receiver's.
LEMMA UpdateHeadInv ==
  ASSUME BaseInv, UpdateHead
  PROVE  BaseInv'
<1> USE DEF UpdateHead, BaseInv, wireVars, rcvVars
<1>1. BaseTypeOK' BY DEF BaseTypeOK, FullAfterUpdate
<1>2. sndFull' = FALSE /\ todo' \in Seq(1 .. Length - 1)
  BY DEF FullAfterUpdate
<1>3. OffsetsMatch' BY DEF OffsetsMatch
<1>4. PlacesOrdered'
  BY LengthAssumption DEF PlacesOrdered, BaseTypeOK
<1>5. RegionsTile' BY DEF RegionsTile, Boundaries
<1>6. HeldAhead' BY DEF HeldAhead
<1>7. AcksApart' BY DEF AcksApart
<1>8. CallUnderWay' BY DEF CallUnderWay
<1>9. QED BY <1>1, <1>2, <1>3, <1>4, <1>5, <1>6, <1>7, <1>8

\* Reserve: a region GetWriteAddr does not refuse extends the tiling and still
\* leaves a byte of the ring free.
LEMMA ReserveInv ==
  ASSUME BaseInv, Reserve
  PROVE  BaseInv'
<1> USE DEF Reserve, BaseInv, rcvVars
<1> DEFINE len == Head(todo)
<1>a. /\ len \in 1 .. Length - 1 /\ Tail(todo) \in Seq(1 .. Length - 1)
      /\ Tail(todo) \in Seq(Nat \ {0})
  BY HeadTailProperties DEF BaseTypeOK
<1>b. known \in Nat /\ written \in Nat /\ known <= written
      /\ written - known < Length
  BY DEF PlacesOrdered, BaseTypeOK
<1>c. sndHead = known % Length /\ sndTail = written % Length
  BY DEF OffsetsMatch
<1>d. /\ written + len - known < Length
      /\ sndTail' = (written + len) % Length
      /\ sndFull' = FALSE
  <2> HIDE DEF len
  <2>1. ~NoWriteAddr(known % Length, written % Length, FALSE, len)
    BY <1>c DEF len
  <2>2. QED BY <1>a, <1>b, <1>c, <2>1, WriteLeavesRoom DEF FullAfterWrite, len
<1>e. written' = written + len /\ written' \in Nat BY <1>a, <1>b
<1>f. sndTail \in Offsets /\ sndTail' \in Offsets
  BY <1>c, <1>d, <1>e, <1>b, PlaceOffset
<1>g. /\ DOMAIN msg' = DOMAIN msg \cup {written}
      /\ msg'[written] = [off |-> sndTail, len |-> len]
      /\ \A p \in DOMAIN msg : p < written /\ p # written /\ msg'[p] = msg[p]
      /\ DOMAIN msg \subseteq Nat /\ \A p \in DOMAIN msg : msg[p] \in Region
  <2>1. DOMAIN msg \subseteq Nat /\ msg \in [DOMAIN msg -> Region]
    BY DEF BaseTypeOK
  <2>2. \A p \in DOMAIN msg : p < written BY DEF RegionsTile
  <2>3. \A p \in DOMAIN msg : p # written BY <1>b, <2>1, <2>2
  <2>4. msg' = [p \in DOMAIN msg \cup {written} |->
                 IF p = written THEN [off |-> sndTail, len |-> len] ELSE msg[p]]
    OBVIOUS
  <2> HIDE DEF len
  <2>5. QED BY <2>1, <2>2, <2>3, <2>4
<1> HIDE DEF len
<1>1. BaseTypeOK'
  <2>1. msg'[written] \in Region BY <1>a, <1>f, <1>g DEF Region
  <2>2. msg' \in [DOMAIN msg' -> Region] BY <1>g, <2>1
  <2>3. todo' \in Seq(Nat \ {0}) BY <1>a DEF BaseTypeOK
  <2>4. DOMAIN msg' \subseteq Nat BY <1>b, <1>g
  <2>5. QED BY <1>d, <1>e, <1>f, <2>2, <2>3, <2>4 DEF BaseTypeOK
<1>2. sndFull' = FALSE /\ todo' \in Seq(1 .. Length - 1) BY <1>a, <1>d
<1>3. OffsetsMatch'
  <2>1. \A p \in DOMAIN msg' : msg'[p].off = p % Length
    BY <1>c, <1>g DEF OffsetsMatch
  <2>2. QED BY <1>d, <1>e, <2>1 DEF OffsetsMatch
<1>4. PlacesOrdered'
  <2>1. posted \in Nat /\ posted <= written BY DEF PlacesOrdered, BaseTypeOK
  <2>2. posted' <= written' /\ written' - known' < Length
    <3>1. posted' = posted /\ known' = known OBVIOUS
    <3>2. QED BY ONLY <1>a, <1>b, <1>d, <1>e, <2>1, <3>1, LengthAssumption
  <2>3. QED BY <2>2 DEF PlacesOrdered
<1>5. RegionsTile'
  <2>1. Boundaries' = Boundaries \cup {written + len}
    BY <1>e, <1>g DEF Boundaries
  <2>2. ASSUME NEW p \in DOMAIN msg'
        PROVE  /\ p + msg'[p].len \in Boundaries' /\ p < written'
               /\ p + msg'[p].len <= written'
    <3>1. CASE p = written BY <1>a, <1>b, <1>e, <1>g, <2>1, <3>1
    <3>2. CASE p \in DOMAIN msg
      <4>1. /\ p + msg[p].len \in Boundaries /\ p < written
            /\ p + msg[p].len <= written
            /\ p \in Nat /\ msg[p].len \in Nat
        BY <1>g, <3>2 DEF RegionsTile, Region
      <4>2. QED BY <1>a, <1>b, <1>e, <1>g, <2>1, <3>2, <4>1
    <3>3. QED BY <1>g, <3>1, <3>2
  <2>3. ASSUME NEW p \in DOMAIN msg', NEW q \in DOMAIN msg', p < q
        PROVE  p + msg'[p].len <= q
    <3>1. p # written BY <1>b, <1>g, <2>3
    <3>2. QED BY <1>g, <2>3, <3>1 DEF RegionsTile
  <2>4. ({read, landed, posted} \subseteq Boundaries)'
    BY <2>1 DEF RegionsTile
  <2>5. QED BY <2>2, <2>3, <2>4 DEF RegionsTile
<1>6. HeldAhead' BY <1>g DEF HeldAhead
<1>7. AcksApart' BY DEF AcksApart
<1>8. CallUnderWay'
  <2>1. posted \in Nat /\ posted <= written BY DEF PlacesOrdered, BaseTypeOK
  <2>2. posted' < written' BY <1>a, <1>b, <1>e, <2>1, LengthAssumption
  <2>3. QED BY <2>2 DEF CallUnderWay
<1>9. QED BY <1>1, <1>2, <1>3, <1>4, <1>5, <1>6, <1>7, <1>8

\* Every region of a call is reserved, and its writes are posted.
LEMMA PostCallInv ==
  ASSUME BaseInv, PostCall
  PROVE  BaseInv'
<1> USE DEF PostCall, BaseInv, rcvVars
<1>1. BaseTypeOK' BY DEF BaseTypeOK
<1>2. sndFull' = FALSE /\ todo' \in Seq(1 .. Length - 1) OBVIOUS
<1>3. OffsetsMatch' BY DEF OffsetsMatch
<1>4. PlacesOrdered' BY DEF PlacesOrdered, BaseTypeOK
<1>5. RegionsTile' BY DEF RegionsTile, Boundaries
<1>6. HeldAhead' BY DEF HeldAhead
<1>7. AcksApart' BY DEF AcksApart
<1>8. CallUnderWay' BY DEF CallUnderWay
<1>9. QED BY <1>1, <1>2, <1>3, <1>4, <1>5, <1>6, <1>7, <1>8

-----------------------------------------------------------------------------
(* The network *)

\* The region that lands next is as long as what it leaves to land.
LEMMA LandsWithin ==
  ASSUME BaseInv, landed < posted
  PROVE  /\ landed \in DOMAIN msg /\ msg[landed].len \in Nat \ {0}
         /\ msg[landed].off = landed % Length
         /\ landed + msg[landed].len \in Boundaries
         /\ landed + msg[landed].len <= posted
         /\ landed + msg[landed].len < known + Length
<1>1. landed \in DOMAIN msg /\ posted \in Boundaries BY NextIsRegion
<1>2. /\ msg[landed].len \in Nat \ {0} /\ msg[landed].off = landed % Length
      /\ landed + msg[landed].len \in Boundaries
      /\ landed + msg[landed].len <= posted
  BY <1>1, RegionFacts
<1>3. /\ posted \in Nat /\ written \in Nat /\ known \in Nat /\ landed \in Nat
      /\ posted <= written /\ written - known < Length
  BY PlaceFacts
<1>4. landed + msg[landed].len < known + Length
  BY ONLY <1>2, <1>3, LengthAssumption
<1>5. QED BY <1>1, <1>2, <1>4

\* The last byte of a write is in memory.
LEMMA LandedInv ==
  ASSUME BaseInv, landed < posted, landed' = landed + msg[landed].len,
         UNCHANGED <<sndVars, msg, posted, rcvVars, ackQ>>,
         mem' \in [Offsets -> Nat \cup {-1}]
  PROVE  BaseInv'
<1> USE DEF BaseInv, sndVars, rcvVars
<1>a. /\ landed \in Nat /\ msg[landed].len \in Nat
      /\ landed + msg[landed].len \in Boundaries
      /\ landed + msg[landed].len <= posted
      /\ read <= landed /\ read \in Nat
  BY LandsWithin, PlaceFacts
<1>1. BaseTypeOK'
  <2>1. landed' \in Nat BY <1>a
  <2>2. QED BY <2>1 DEF BaseTypeOK
<1>2. sndFull' = FALSE /\ todo' \in Seq(1 .. Length - 1) OBVIOUS
<1>3. OffsetsMatch' BY DEF OffsetsMatch
<1>4. PlacesOrdered' BY <1>a DEF PlacesOrdered
<1>5. RegionsTile' BY <1>a DEF RegionsTile, Boundaries
<1>6. CallUnderWay' BY DEF CallUnderWay
<1>7. HeldAhead' BY DEF HeldAhead
<1>8. AcksApart' BY DEF AcksApart
<1>9. QED BY <1>1, <1>2, <1>3, <1>4, <1>5, <1>6, <1>7, <1>8

\* The next write is executed: it fills the cells of its region, none of which
\* holds a byte from the head on.
LEMMA LandWriteInv ==
  ASSUME BaseInv, LandWrite
  PROVE  /\ BaseInv' /\ (LiveBytes => LiveBytes')
         /\ landed' = landed + msg[landed].len
<1> DEFINE len == msg[landed].len
<1>1. /\ landed < posted /\ landed' = landed + len
      /\ mem' = [o \in Offsets |-> LandedIn(o)]
      /\ UNCHANGED <<sndVars, msg, posted, rcvVars, ackQ>>
  BY DEF LandWrite
<1>2. /\ landed \in DOMAIN msg /\ len \in Nat \ {0}
      /\ msg[landed].off = landed % Length /\ landed + len < known + Length
  BY <1>1, LandsWithin
<1>3. landed \in Nat /\ freed \in Nat /\ known \in Nat /\ known <= freed
      /\ freed <= landed
  BY PlaceFacts
<1> HIDE DEF len
<1>4. mem' \in [Offsets -> Nat \cup {-1}]
  <2>1. ASSUME NEW o \in Offsets PROVE LandedIn(o) \in Nat \cup {-1}
    <3>1. Distance(landed % Length, o) \in Offsets BY <1>3, DistanceArrives
    <3>2. landed + Distance(landed % Length, o) \in Nat
      BY <1>3, <3>1, LengthAssumption DEF Offsets
    <3>3. mem[o] \in Nat \cup {-1} BY DEF BaseInv, BaseTypeOK
    <3>4. QED BY <1>2, <3>2, <3>3 DEF LandedIn, len
  <2>2. QED BY <1>1, <2>1
<1>5. BaseInv' BY <1>1, <1>4, LandedInv DEF len
<1>6. ASSUME LiveBytes PROVE LiveBytes'
  <2>1. freed' = freed BY <1>1 DEF rcvVars
  <2>2. ASSUME NEW b \in freed .. landed + len - 1
        PROVE  mem'[b % Length] = b
    <3>1. b \in Nat /\ b % Length \in Offsets BY <1>2, <1>3, PlaceOffset
    <3> DEFINE d == Distance(landed % Length, b % Length)
    <3>2. landed + len <= freed + Length /\ freed <= b /\ b < freed + Length
          /\ b < landed + len
      BY ONLY <1>2, <1>3, <2>2, LengthAssumption
    <3>3. (d < len <=> landed <= b) /\ (d < len => landed + d = b)
      BY <1>2, <1>3, <3>1, <3>2, RegionCells
    <3>4. ~(landed <= b) => mem[b % Length] = b
      BY <1>3, <1>6, <2>2, <3>1 DEF LiveBytes
    <3>5. mem'[b % Length] = IF d < len THEN landed + d ELSE mem[b % Length]
      BY <1>1, <1>2, <3>1 DEF LandedIn, len
    <3> HIDE DEF d
    <3>6. QED BY <3>3, <3>4, <3>5
  <2>3. landed' = landed + len BY <1>1 DEF len
  <2>4. freed' .. landed' - 1 = freed .. landed + len - 1
    BY <1>2, <1>3, <2>1, <2>3
  <2>5. \A b \in freed' .. landed' - 1 : mem'[b % Length] = b
    BY ONLY <2>2, <2>4, Zenon
  <2>6. QED BY ONLY <2>5 DEF LiveBytes
<1>7. QED BY <1>1, <1>5, <1>6 DEF len

-----------------------------------------------------------------------------
(* The receiver *)

\* Receive hands out the next region, which has landed.
LEMMA ReadRegionInv ==
  ASSUME BaseInv, read \in DOMAIN msg, read + msg[read].len <= landed,
         ReadRegion(msg[read].len)
  PROVE  /\ BaseInv' /\ read' = read + msg[read].len
         /\ DOMAIN outstanding' = DOMAIN outstanding \cup {read}
         /\ \A k \in DOMAIN outstanding : outstanding'[k] = outstanding[k]
         /\ outstanding'[read] = readPtr
<1> USE DEF ReadRegion, BaseInv, wireVars, sndVars
<1> DEFINE len == msg[read].len
<1>a. /\ len \in Nat \ {0} /\ read + len \in Boundaries
  BY RegionFacts
<1>b. /\ read' = read + len
      /\ readPtr' = NextReadPtr(readPtr, len)
      /\ outstanding' = PushBack(outstanding, read, readPtr)
  OBVIOUS
<1>c. /\ read \in Nat /\ freed \in Nat /\ landed \in Nat /\ known \in Nat
      /\ written \in Nat /\ freed <= read /\ known <= read /\ landed <= written
      /\ written - known < Length
  BY PlaceFacts
<1>d. readPtr = read % Length /\ readPtr \in Offsets
  BY DEF OffsetsMatch, BaseTypeOK
<1>l. read + len <= landed OBVIOUS
<1> HIDE DEF len
<1>e. readPtr' = read' % Length /\ read' \in Nat /\ readPtr' \in Offsets
  <2>1. read' \in Nat /\ len \in 0 .. Length
    BY ONLY <1>a, <1>b, <1>c, <1>l, LengthAssumption
  <2>2. readPtr' = read' % Length
    BY ONLY <1>b, <1>c, <1>d, <2>1, AddMod DEF NextReadPtr
  <2>3. QED BY ONLY <2>1, <2>2, PlaceOffset
<1>f. /\ DOMAIN outstanding' = DOMAIN outstanding \cup {read}
      /\ \A k \in DOMAIN outstanding' :
           outstanding'[k] = IF k = read THEN readPtr ELSE outstanding[k]
      /\ read \notin DOMAIN outstanding
  <2>1. read \notin DOMAIN outstanding BY <1>c DEF HeldAhead
  <2>2. QED BY <1>b, <2>1 DEF PushBack
<1>1. BaseTypeOK'
  <2>1. outstanding' \in [DOMAIN outstanding' -> Offsets]
    <3>1. \A k \in DOMAIN outstanding' : outstanding'[k] \in Offsets
      BY <1>d, <1>f DEF BaseTypeOK
    <3>2. outstanding' = [k \in DOMAIN outstanding' |-> outstanding'[k]]
      BY <1>b DEF PushBack
    <3>3. QED BY <3>1, <3>2
  <2>2. DOMAIN outstanding' \subseteq Nat
    BY <1>c, <1>f DEF BaseTypeOK
  <2>3. QED BY <1>e, <2>1, <2>2 DEF BaseTypeOK
<1>2. sndFull' = FALSE /\ todo' \in Seq(1 .. Length - 1) OBVIOUS
<1>3. OffsetsMatch'
  <2>1. \A k \in DOMAIN outstanding' : outstanding'[k] = k % Length
    BY <1>d, <1>f DEF OffsetsMatch
  <2>2. QED BY <1>e, <2>1 DEF OffsetsMatch
<1>4. PlacesOrdered'
  <2>1. freed' <= read' /\ read' <= landed'
    <3>1. freed' = freed /\ landed' = landed OBVIOUS
    <3>2. QED BY ONLY <1>a, <1>b, <1>c, <1>l, <3>1, LengthAssumption
  <2>2. QED BY <2>1 DEF PlacesOrdered
<1>5. RegionsTile' BY <1>a, <1>b DEF RegionsTile, Boundaries
<1>6. HeldAhead'
  <2>1. read < read' BY ONLY <1>a, <1>b, <1>c, LengthAssumption
  <2>2. ASSUME NEW k \in DOMAIN outstanding'
        PROVE  k \in DOMAIN msg /\ freed <= k /\ k < read'
    <3>1. CASE k = read BY <1>c, <2>1, <3>1
    <3>2. CASE k \in DOMAIN outstanding
      <4>1. k \in DOMAIN msg /\ freed <= k /\ k < read /\ k \in Nat
        BY <3>2 DEF HeldAhead, BaseTypeOK
      <4>2. QED BY <1>c, <1>e, <2>1, <4>1
    <3>3. QED BY <1>f, <3>1, <3>2
  <2>3. QED BY <2>2 DEF HeldAhead
<1>7. AcksApart' BY DEF AcksApart
<1>8. CallUnderWay' BY DEF CallUnderWay
<1>9. QED
  BY <1>b, <1>f, <1>1, <1>2, <1>3, <1>4, <1>5, <1>6, <1>7, <1>8 DEF len

\* Free moves the head forward to the oldest region still held.
LEMMA FreeRegionInv ==
  ASSUME BaseInv, NEW k \in DOMAIN outstanding, FreeRegion(k)
  PROVE  /\ BaseInv' /\ freed <= freed' /\ freed' <= read
         /\ DOMAIN outstanding' = DOMAIN outstanding \ {k}
         /\ \A j \in DOMAIN outstanding' : outstanding'[j] = outstanding[j]
<1> USE DEF BaseInv, wireVars, sndVars
<1> DEFINE off == outstanding[k]
<1>b. /\ freed' = HeadAfterFree(outstanding, off, freed, read)
      /\ bufHead' = OffsetAfterFree(outstanding, off, bufHead, readPtr)
      /\ outstanding' = Remove(outstanding, off)
      /\ rpc' = "ack"
      /\ UNCHANGED <<sndVars, wireVars, mem, ackQ, readPtr, acked, ackOff, read,
                     ackedPos, ackPos>>
  BY DEF FreeRegion
<1>c. /\ freed \in Nat /\ read \in Nat /\ freed <= read
      /\ DOMAIN outstanding \subseteq Nat
      /\ \A j \in DOMAIN outstanding : freed <= j /\ j < read
  BY DEF PlacesOrdered, HeldAhead, BaseTypeOK
<1>d. bufHead = freed % Length /\ readPtr = read % Length
      /\ \A j \in DOMAIN outstanding : outstanding[j] = j % Length
  BY DEF OffsetsMatch
<1> HIDE DEF off
<1>e. /\ freed' \in Nat /\ freed <= freed' /\ freed' <= read
      /\ \A j \in DOMAIN outstanding' : j \in DOMAIN outstanding /\ freed' <= j
  BY ONLY <1>b, <1>c, FreeMovesHead
<1>f. bufHead' = freed' % Length BY ONLY <1>b, <1>d, FreeOffset
<1>g. \A j \in DOMAIN outstanding' : outstanding'[j] = outstanding[j]
  BY ONLY <1>b DEF Remove
<1>h. DOMAIN outstanding' = DOMAIN outstanding \ {k}
  <2>1. ASSUME NEW j \in DOMAIN outstanding, outstanding[j] = outstanding[k]
        PROVE  j = k
    <3>1. j \in Nat /\ k \in Nat /\ j % Length = k % Length
      BY <1>c, <1>d, <2>1
    <3>2. j - k < Length /\ k - j < Length
      <4>1. written - known < Length /\ known <= freed /\ read <= written
            /\ known \in Nat /\ written \in Nat
        BY PlaceFacts
      <4>2. QED BY ONLY <1>c, <3>1, <4>1, LengthAssumption, j \in DOMAIN outstanding,
                        k \in DOMAIN outstanding
    <3>3. j <= k \/ k <= j BY <3>1
    <3>4. QED BY <3>1, <3>2, <3>3, SameOffset
  <2>2. QED BY <1>b, <2>1 DEF Remove, off
<1>1. BaseTypeOK'
  <2>1. outstanding' = [j \in DOMAIN outstanding' |-> outstanding[j]]
    BY ONLY <1>b DEF Remove
  <2>2. outstanding' \in [DOMAIN outstanding' -> Offsets]
    BY <1>e, <2>1 DEF BaseTypeOK
  <2>3. DOMAIN outstanding' \subseteq Nat BY <1>c, <1>e
  <2>4. bufHead' \in Offsets BY <1>e, <1>f, PlaceOffset
  <2>5. QED BY <1>b, <1>e, <2>2, <2>3, <2>4 DEF BaseTypeOK
<1>2. sndFull' = FALSE /\ todo' \in Seq(1 .. Length - 1) BY <1>b
<1>3. OffsetsMatch' BY <1>b, <1>d, <1>e, <1>f, <1>g DEF OffsetsMatch
<1>4. PlacesOrdered'
  <2>1. ackPos <= freed /\ ackPos \in Nat
    BY DEF PlacesOrdered, BaseTypeOK
  <2>2. ackPos' <= freed' /\ freed' <= read' BY <1>b, <1>c, <1>e, <2>1
  <2>3. QED BY <1>b, <2>2 DEF PlacesOrdered
<1>5. RegionsTile' BY <1>b DEF RegionsTile, Boundaries
<1>6. HeldAhead' BY <1>b, <1>e DEF HeldAhead
<1>7. AcksApart' BY <1>b DEF AcksApart
<1>8. CallUnderWay' BY <1>b DEF CallUnderWay
<1>9. QED BY <1>e, <1>g, <1>h, <1>1, <1>2, <1>3, <1>4, <1>5, <1>6, <1>7, <1>8

\* In send acknowledging a flush means that more than half of the ring lies
\* between the last head sent and this one, so none is still under way.
LEMMA FlushIsFar ==
  ASSUME BaseInv, AckKind = "send", MustFlush(bufHead)
  PROVE  freed > ackedPos + MaxUnacked /\ ackQ = <<>>
<1> USE DEF BaseInv
<1>a. /\ freed \in Nat /\ ackedPos \in Nat /\ known \in Nat /\ replyPos \in Nat
      /\ written \in Nat /\ ackPos \in Nat
      /\ known <= replyPos /\ ackedPos <= ackPos /\ ackPos <= freed
      /\ freed <= written /\ written - known < Length
      /\ replyPos <= ackedPos
  <2>1. MaxUnacked \in Nat BY LengthAssumption DEF MaxUnacked
  <2>2. /\ freed \in Nat /\ known \in Nat /\ written \in Nat /\ ackPos \in Nat
        /\ ackPos <= freed /\ freed <= written /\ written - known < Length
    <3>1. freed <= landed /\ landed <= written /\ {freed, landed, written} \subseteq Nat
      BY PlaceFacts
    <3>2. freed <= written BY <3>1
    <3>3. QED BY <3>2, PlaceFacts
  <2>3. ackedPos \in Nat /\ replyPos \in Nat BY DEF BaseTypeOK
  <2>4. known <= replyPos BY DEF PlacesOrdered
  <2>5. ackedPos <= ackPos /\ replyPos <= ackedPos
    BY <2>1, <2>3 DEF AcksApart
  <2>6. QED BY <2>2, <2>3, <2>4, <2>5
<1>b. bufHead = freed % Length /\ acked = ackedPos % Length
      /\ bufHead \in Offsets /\ acked \in Offsets
  BY DEF OffsetsMatch, BaseTypeOK
<1>c. Distance(acked, bufHead) = freed - ackedPos
  <2> DEFINE n == freed - ackedPos
  <2>1. n \in Offsets /\ ackedPos + n = freed
    BY <1>a, LengthAssumption DEF Offsets
  <2> HIDE DEF n
  <2>2. Distance(ackedPos % Length, (ackedPos + n) % Length) = n
    BY <1>a, <2>1, DistanceOfPlaces
  <2>3. QED BY <1>b, <2>1, <2>2 DEF n
<1>d. freed > ackedPos + MaxUnacked
  <2>1. MaxUnacked \in Nat BY LengthAssumption DEF MaxUnacked
  <2>2. Distance(acked, bufHead) > MaxUnacked
    BY <1>b, <2>1, LengthAssumption DEF MustFlush, Distance, Offsets
  <2>3. QED BY <1>a, <1>c, <2>1, <2>2
<1>e. ackQ = <<>>
  <2>1. SUFFICES ASSUME ackQ # <<>> PROVE FALSE OBVIOUS
  <2>2. ackedPos > replyPos + MaxUnacked BY <2>1 DEF AcksApart
  <2>3. MaxUnacked \in Nat /\ 2 * MaxUnacked + 1 >= Length
    BY LengthAssumption DEF MaxUnacked
  <2>4. QED BY ONLY <1>a, <1>d, <2>2, <2>3, LengthAssumption
<1>f. QED BY <1>d, <1>e

\* Ack publishes the head; Flush, if due, sends it.
LEMMA AcknowledgeInv ==
  ASSUME BaseInv, Acknowledge
  PROVE  BaseInv'
<1> USE DEF Acknowledge, BaseInv, wireVars, sndVars
<1>a. /\ freed \in Nat /\ bufHead \in Offsets /\ bufHead = freed % Length
      /\ ackPos <= freed /\ replyPos <= ackPos /\ ackPos \in Nat
      /\ replyPos \in Nat
  BY DEF PlacesOrdered, OffsetsMatch, BaseTypeOK
<1> DEFINE Sends == MustFlush(bufHead) /\ AckKind = "send"
<1> DEFINE update == [off |-> bufHead, pos |-> freed]
<1>b. ASSUME Sends PROVE BaseTypeOK' /\ OffsetsMatch' /\ AcksApart'
  <2>1. freed > ackedPos + MaxUnacked /\ ackQ = <<>> BY <1>b, FlushIsFar
  <2>2. ackQ' = Append(ackQ, update) /\ ackedPos' = freed BY <1>b
  <2>3. update \in [off : Offsets, pos : Nat] BY <1>a
  <2> HIDE DEF update
  <2>4. Append(ackQ, update) = <<update>> BY <2>1
  <2>5. /\ ackQ' = <<update>> /\ ackQ' # <<>>
        /\ ackQ' \in Seq([off : Offsets, pos : Nat])
        /\ Len(ackQ') = 1 /\ ackQ'[1] = update
    <3>1. ackQ' = <<update>> BY <2>2, <2>4
    <3>2. QED BY ONLY <2>3, <3>1
  <2>6. \A i \in 1 .. Len(ackQ') : ackQ'[i].off = ackQ'[i].pos % Length
    BY <1>a, <2>5 DEF update
  <2>7. ackQ'[1].pos = ackedPos' BY <2>2, <2>5 DEF update
  <2>8. BaseTypeOK' BY <1>a, <2>2, <2>5 DEF BaseTypeOK
  <2>9. OffsetsMatch' BY <1>a, <2>6 DEF OffsetsMatch
  <2>10. AcksApart'
    <3>1. replyPos <= ackedPos /\ ackedPos \in Nat
      <4>1. MaxUnacked \in Nat BY LengthAssumption DEF MaxUnacked
      <4>2. QED BY <1>b, <2>1, <4>1, <1>a DEF AcksApart, BaseTypeOK
    <3>2. MaxUnacked \in Nat BY LengthAssumption DEF MaxUnacked
    <3>3. ackedPos' > replyPos' + MaxUnacked
      BY <1>a, <2>1, <2>2, <3>1, <3>2
    <3>4. ackedPos' <= ackPos' BY <1>a, <2>2
    <3>5. QED BY <2>5, <2>7, <3>3, <3>4 DEF AcksApart
  <2>11. QED BY <2>8, <2>9, <2>10
<1>c. ASSUME ~Sends PROVE BaseTypeOK' /\ OffsetsMatch' /\ AcksApart'
  <2>1. ackQ' = ackQ BY <1>c
  <2>2. BaseTypeOK' BY <1>a, <2>1 DEF BaseTypeOK
  <2>3. OffsetsMatch' BY <1>a, <2>1 DEF OffsetsMatch
  <2>4. AcksApart'
    <3>1. AckKind = "send" => ackedPos' = ackedPos BY <1>c
    <3>2. AckKind = "send" => ackedPos' <= ackPos'
      BY <1>a, <3>1 DEF AcksApart, BaseTypeOK
    <3>3. QED BY <2>1, <3>1, <3>2 DEF AcksApart
  <2>5. QED BY <2>2, <2>3, <2>4
<1>1. BaseTypeOK' /\ OffsetsMatch' /\ AcksApart' BY <1>b, <1>c
<1>2. sndFull' = FALSE /\ todo' \in Seq(1 .. Length - 1) OBVIOUS
<1>3. PlacesOrdered'
  <2>1. replyPos' <= ackPos' /\ ackPos' <= freed' BY <1>a
  <2>2. QED BY <2>1 DEF PlacesOrdered
<1>4. RegionsTile' BY DEF RegionsTile, Boundaries
<1>5. HeldAhead' BY DEF HeldAhead
<1>6. CallUnderWay' BY DEF CallUnderWay
<1>7. QED BY <1>1, <1>2, <1>3, <1>4, <1>5, <1>6

-----------------------------------------------------------------------------
(* What the application holds *)

\* A region held lies between the head and the read pointer, all of it.
LEMMA HeldWithin ==
  ASSUME BaseInv, NEW k \in DOMAIN outstanding
  PROVE  /\ k \in DOMAIN msg /\ outstanding[k] = k % Length
         /\ freed <= k /\ k + msg[k].len <= read /\ k + msg[k].len <= landed
<1>1. k \in DOMAIN msg /\ freed <= k /\ k < read BY DEF BaseInv, HeldAhead
<1>2. outstanding[k] = k % Length BY DEF BaseInv, OffsetsMatch
<1>3. k + msg[k].len <= read BY <1>1, RegionFacts, NextIsRegion
<1>4. k \in Nat /\ msg[k].len \in Nat BY <1>1, RegionFacts
<1>5. k + msg[k].len <= landed BY <1>3, <1>4, PlaceFacts
<1>6. QED BY <1>1, <1>2, <1>3, <1>5

\* A region whose bytes all lie between the head and the last byte landed
\* reads back as it was written, wherever it wraps around the ring.
LEMMA RegionIntact ==
  ASSUME BaseInv, LiveBytes,
         NEW p \in DOMAIN msg, freed <= p, p + msg[p].len <= landed
  PROVE  \A i \in 0 .. msg[p].len - 1 : mem[((p % Length) + i) % Length] = p + i
<1>1. SUFFICES ASSUME NEW i \in 0 .. msg[p].len - 1
               PROVE  mem[((p % Length) + i) % Length] = p + i
  OBVIOUS
<1>2. /\ p \in Nat /\ msg[p].len \in Nat /\ freed \in Nat /\ landed \in Nat
      /\ known \in Nat /\ written \in Nat
  BY PlaceFacts, RegionFacts
<1>3. known <= freed /\ landed <= written /\ written - known < Length
  BY PlaceFacts
<1>4. i \in 0 .. Length /\ p + i \in freed .. landed - 1
  BY ONLY <1>1, <1>2, <1>3, freed <= p, p + msg[p].len <= landed,
          LengthAssumption
<1>5. mem[(p + i) % Length] = p + i BY <1>4 DEF LiveBytes
<1>6. ((p % Length) + i) % Length = (p + i) % Length BY <1>2, <1>4, AddMod
<1>7. QED BY <1>5, <1>6

\* Where the memory keeps the stream, what the application holds is whole.
LEMMA HeldIsIntact ==
  ASSUME BaseInv, LiveBytes, NEW k \in DOMAIN outstanding
  PROVE  /\ k \in DOMAIN msg
         /\ \A i \in 0 .. msg[k].len - 1 :
              mem[(outstanding[k] + i) % Length] = k + i
BY HeldWithin, RegionIntact

-----------------------------------------------------------------------------
(* The FIFO channel *)

\* A message that stands in the ring as it was sent is the same tuple of bytes.
LEMMA FifoTuple ==
  ASSUME NEW o \in Nat, NEW k \in Nat, NEW n \in Nat, NEW cells,
         \A i \in 0 .. n - 1 : cells[(o + i) % Length] = k + i
  PROVE  [i \in 1 .. n |-> cells[(o + i - 1) % Length]] =
           [i \in 1 .. n |-> k + i - 1]
<1>1. ASSUME NEW i \in 1 .. n
      PROVE  cells[(o + i - 1) % Length] = k + i - 1
  <2>1. /\ i - 1 \in 0 .. n - 1 /\ o + (i - 1) = o + i - 1
        /\ k + (i - 1) = k + i - 1
    OBVIOUS
  <2>2. cells[(o + (i - 1)) % Length] = k + (i - 1) BY <2>1
  <2>3. QED BY <2>1, <2>2
<1>2. QED BY <1>1

\* So what the channel holds are the messages as they were sent.
LEMMA FifoHeld ==
  ASSUME NEW out, NEW regions, NEW cells,
         \A k \in DOMAIN out :
           /\ k \in DOMAIN regions /\ k \in Nat /\ out[k] \in Nat
           /\ regions[k].len \in Nat
           /\ \A i \in 0 .. regions[k].len - 1 :
                cells[(out[k] + i) % Length] = k + i
  PROVE  [k \in DOMAIN out |->
            [i \in 1 .. (IF k \in DOMAIN regions THEN regions[k].len ELSE 1) |->
               cells[(out[k] + i - 1) % Length]]]
           = [k \in DOMAIN out |-> [i \in 1 .. regions[k].len |-> k + i - 1]]
<1>1. ASSUME NEW k \in DOMAIN out
      PROVE  [i \in 1 .. (IF k \in DOMAIN regions THEN regions[k].len ELSE 1) |->
                cells[(out[k] + i - 1) % Length]]
               = [i \in 1 .. regions[k].len |-> k + i - 1]
  <2>1. (IF k \in DOMAIN regions THEN regions[k].len ELSE 1) = regions[k].len
    OBVIOUS
  <2>2. [i \in 1 .. regions[k].len |-> cells[(out[k] + i - 1) % Length]]
          = [i \in 1 .. regions[k].len |-> k + i - 1]
    BY FifoTuple
  <2>3. QED BY <2>1, <2>2
<1>2. QED BY <1>1

\* In the state before a step and in the one after it.
LEMMA HeldAsSent ==
  /\ BaseInv /\ HeldIntact =>
       HeldMessages = [k \in DOMAIN outstanding |-> AsSent(k)]
  /\ (BaseInv /\ HeldIntact)' =>
       (HeldMessages = [k \in DOMAIN outstanding |-> AsSent(k)])'
<1>1. ASSUME BaseInv, HeldIntact
      PROVE  HeldMessages = [k \in DOMAIN outstanding |-> AsSent(k)]
  <2>1. \A k \in DOMAIN outstanding :
          /\ k \in DOMAIN msg /\ k \in Nat /\ outstanding[k] \in Nat
          /\ msg[k].len \in Nat
          /\ \A i \in 0 .. msg[k].len - 1 :
               mem[(outstanding[k] + i) % Length] = k + i
    <3>1. ASSUME NEW k \in DOMAIN outstanding
          PROVE  /\ k \in DOMAIN msg /\ k \in Nat /\ outstanding[k] \in Nat
                 /\ msg[k].len \in Nat
      <4>1. k \in DOMAIN msg BY <1>1 DEF HeldIntact
      <4>2. k \in Nat /\ outstanding[k] \in Offsets /\ msg[k] \in Region
        BY <1>1, <4>1 DEF BaseInv, BaseTypeOK
      <4>3. QED BY <4>1, <4>2, LengthAssumption DEF Region, Offsets
    <3>2. QED BY <1>1, <3>1 DEF HeldIntact
  <2>2. QED BY <2>1, FifoHeld, SMTT(30) DEF HeldMessages, InRing, LengthAt, AsSent
<1>2. ASSUME BaseInv', HeldIntact'
      PROVE  (HeldMessages = [k \in DOMAIN outstanding |-> AsSent(k)])'
  <2>1. \A k \in DOMAIN outstanding' :
          /\ k \in DOMAIN msg' /\ k \in Nat /\ outstanding'[k] \in Nat
          /\ msg'[k].len \in Nat
          /\ \A i \in 0 .. msg'[k].len - 1 :
               mem'[(outstanding'[k] + i) % Length] = k + i
    <3>1. ASSUME NEW k \in DOMAIN outstanding'
          PROVE  /\ k \in DOMAIN msg' /\ k \in Nat /\ outstanding'[k] \in Nat
                 /\ msg'[k].len \in Nat
      <4>1. k \in DOMAIN msg' BY <1>2 DEF HeldIntact
      <4>2. k \in Nat /\ outstanding'[k] \in Offsets /\ msg'[k] \in Region
        BY <1>2, <4>1 DEF BaseInv, BaseTypeOK
      <4>3. QED BY <4>1, <4>2, LengthAssumption DEF Region, Offsets
    <3>2. QED BY <1>2, <3>1 DEF HeldIntact
  <2>2. QED BY <2>1, FifoHeld, SMTT(30) DEF HeldMessages, InRing, LengthAt, AsSent
<1>3. QED BY <1>1, <1>2

\* Initially the channel is empty.
LEMMA FifoInit == BaseInit => Fifo!Init
<1> SUFFICES ASSUME BaseInit PROVE Fifo!Init OBVIOUS
<1>1. SentMessages = [p \in {} |-> 0] BY DEF BaseInit, SentMessages
<1>2. TakenPlaces = {} BY DEF BaseInit, TakenPlaces
<1>3. HeldMessages = [p \in {} |-> 0] BY DEF BaseInit, HeldMessages
<1>4. QED BY <1>1, <1>2, <1>3 DEF Fifo!Init

\* Steps that neither post nor read nor free are invisible to the users.
LEMMA FifoQuiet ==
  ASSUME BaseInv, BaseInv', HeldIntact, HeldIntact',
         UNCHANGED <<read, posted, outstanding>>, UNCHANGED msg \/ Reserve
  PROVE  UNCHANGED Fifo!vars
<1>1. /\ {read, posted, written} \subseteq Nat /\ read <= posted
      /\ posted <= written
  <2>1. {read, landed, posted, written} \subseteq Nat /\ read <= landed
        /\ landed <= posted /\ posted <= written
    BY PlaceFacts
  <2>2. QED BY ONLY <2>1
<1>2. /\ DOMAIN msg' \subseteq DOMAIN msg \cup {written}
      /\ DOMAIN msg \subseteq DOMAIN msg'
      /\ \A p \in DOMAIN msg : p # written => msg'[p] = msg[p]
  BY DEF Reserve
<1>3. \A p \in DOMAIN msg : p \in Nat /\ p < written
  BY DEF BaseInv, BaseTypeOK, RegionsTile
<1>4. \A p \in DOMAIN msg : msg'[p] = msg[p] BY <1>1, <1>2, <1>3
<1>5. /\ {p \in DOMAIN msg' : p < posted} = {p \in DOMAIN msg : p < posted}
      /\ {p \in DOMAIN msg' : p < read} = {p \in DOMAIN msg : p < read}
  <2>1. ~(written < posted) /\ ~(written < read) BY <1>1
  <2>2. QED BY <1>2, <2>1
<1>6. SentMessages' = SentMessages BY <1>4, <1>5 DEF SentMessages, AsSent
<1>7. TakenPlaces' = TakenPlaces BY <1>5 DEF TakenPlaces
<1>8. HeldMessages' = HeldMessages
  <2>1. \A k \in DOMAIN outstanding : AsSent(k)' = AsSent(k)
    BY <1>4 DEF AsSent, HeldIntact
  <2>2. QED BY <2>1, HeldAsSent
<1>9. QED BY <1>6, <1>7, <1>8 DEF Fifo!vars

\* Posting a call sends its messages, one at least.
LEMMA FifoSend ==
  ASSUME BaseInv, PostCall
  PROVE  Fifo!Send
<1>1. /\ posted' = written
      /\ UNCHANGED <<msg, read, outstanding, mem>>
  BY DEF PostCall, rcvVars
<1>2. posted < written BY DEF PostCall, BaseInv, CallUnderWay
<1>3. /\ posted \in DOMAIN msg /\ posted \in Nat /\ written \in Nat
      /\ DOMAIN msg \subseteq Nat
  <2>1. posted \in Boundaries /\ posted \in Nat /\ written \in Nat
    BY NextIsRegion, PlaceFacts
  <2>2. QED BY <1>2, <2>1 DEF Boundaries, BaseInv, BaseTypeOK
<1>4. /\ SentMessages = [p \in {q \in DOMAIN msg : q < posted} |-> AsSent(p)]
      /\ SentMessages' = [p \in {q \in DOMAIN msg : q < written} |-> AsSent(p)]
  BY <1>1 DEF SentMessages, AsSent
<1>5. \A q \in DOMAIN msg : q < posted => q < written
  BY <1>2, <1>3
<1>6. /\ DOMAIN SentMessages \subseteq DOMAIN SentMessages'
      /\ DOMAIN SentMessages # DOMAIN SentMessages'
      /\ \A p \in DOMAIN SentMessages : SentMessages'[p] = SentMessages[p]
  <2>1. posted \in DOMAIN SentMessages' /\ posted \notin DOMAIN SentMessages
    BY <1>2, <1>3, <1>4
  <2>2. QED BY <1>4, <1>5, <2>1
<1>7. \A p \in DOMAIN SentMessages :
        \A q \in DOMAIN SentMessages' \ DOMAIN SentMessages : p < q
  BY <1>3, <1>4
<1>8. TakenPlaces' = TakenPlaces BY <1>1 DEF TakenPlaces
<1>9. HeldMessages' = HeldMessages
  BY <1>1 DEF HeldMessages, InRing, LengthAt
<1>10. QED BY <1>6, <1>7, <1>8, <1>9 DEF Fifo!Send

\* Receive hands out the first message that was not handed out before.
LEMMA FifoReceive ==
  ASSUME BaseInv, BaseInv', HeldIntact, HeldIntact',
         read \in DOMAIN msg, read + msg[read].len <= landed,
         ReadRegion(msg[read].len)
  PROVE  Fifo!Receive
<1>1. /\ read' = read + msg[read].len
      /\ DOMAIN outstanding' = DOMAIN outstanding \cup {read}
      /\ UNCHANGED <<msg, posted>>
  BY ReadRegionInv DEF ReadRegion, wireVars
<1>2. /\ read \in Nat /\ posted \in Nat /\ msg[read].len \in Nat \ {0}
      /\ DOMAIN msg \subseteq Nat /\ read < posted
      /\ \A q \in DOMAIN msg : read < q => read + msg[read].len <= q
  <2>1. /\ {read, landed, posted} \subseteq Nat /\ landed <= posted
        /\ msg[read].len \in Nat \ {0}
    BY PlaceFacts, RegionFacts
  <2>2. read < posted BY <2>1
  <2>3. \A q \in DOMAIN msg : read < q => read + msg[read].len <= q
    BY RegionFacts DEF Boundaries
  <2>4. QED BY <2>1, <2>2, <2>3 DEF BaseInv, BaseTypeOK
<1>3. /\ SentMessages = [p \in {q \in DOMAIN msg : q < posted} |-> AsSent(p)]
      /\ SentMessages' = SentMessages
  BY <1>1 DEF SentMessages, AsSent
<1>4. TakenPlaces' = TakenPlaces \cup {read}
  <2>1. \A q \in DOMAIN msg : q < read + msg[read].len <=> q < read \/ q = read
    BY <1>2
  <2>2. QED BY <1>1, <2>1 DEF TakenPlaces
<1>5. /\ read \in DOMAIN SentMessages \ TakenPlaces
      /\ \A q \in DOMAIN SentMessages \ TakenPlaces : read <= q
  BY <1>2, <1>3 DEF TakenPlaces
<1>6. HeldMessages' =
        [q \in DOMAIN HeldMessages \cup {read} |->
           IF q = read THEN SentMessages[read] ELSE HeldMessages[q]]
  <2>1. HeldMessages = [k \in DOMAIN outstanding |-> AsSent(k)]
    BY HeldAsSent
  <2>2. HeldMessages' = [k \in DOMAIN outstanding' |-> AsSent(k)]
    <3>1. HeldMessages' = [k \in DOMAIN outstanding' |-> AsSent(k)']
      BY HeldAsSent
    <3>2. \A k : AsSent(k)' = AsSent(k) BY <1>1 DEF AsSent
    <3>3. QED BY <3>1, <3>2
  <2>3. SentMessages[read] = AsSent(read) BY <1>3, <1>5
  <2>4. QED BY <1>1, <2>1, <2>2, <2>3
<1>7. QED BY <1>3, <1>4, <1>5, <1>6 DEF Fifo!Receive

\* Free takes one of the messages held, whichever it is.
LEMMA FifoFree ==
  ASSUME BaseInv, BaseInv', HeldIntact, HeldIntact',
         NEW k \in DOMAIN outstanding, FreeRegion(k)
  PROVE  Fifo!Free
<1>1. /\ DOMAIN outstanding' = DOMAIN outstanding \ {k}
      /\ UNCHANGED <<msg, posted, read>>
  BY FreeRegionInv DEF FreeRegion, wireVars
<1>2. SentMessages' = SentMessages BY <1>1 DEF SentMessages, AsSent
<1>3. TakenPlaces' = TakenPlaces BY <1>1 DEF TakenPlaces
<1>4. k \in DOMAIN HeldMessages BY DEF HeldMessages
<1>5. HeldMessages' = [q \in DOMAIN HeldMessages \ {k} |-> HeldMessages[q]]
  <2>1. HeldMessages = [j \in DOMAIN outstanding |-> AsSent(j)]
    BY HeldAsSent
  <2>2. HeldMessages' = [j \in DOMAIN outstanding' |-> AsSent(j)]
    <3>1. HeldMessages' = [j \in DOMAIN outstanding' |-> AsSent(j)']
      BY HeldAsSent
    <3>2. \A j : AsSent(j)' = AsSent(j) BY <1>1 DEF AsSent
    <3>3. QED BY <3>1, <3>2
  <2>3. QED BY <1>1, <2>1, <2>2
<1>6. QED BY <1>2, <1>3, <1>4, <1>5 DEF Fifo!Free
==============================================================================
