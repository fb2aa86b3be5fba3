-------------------------- MODULE WriteAtomicProofs --------------------------
(***************************************************************************)
(* The ring that several senders share stays divided among them without gap *)
(* or overlap, and what the application holds stays: proofs for any set of  *)
(* senders, any ring size, any lengths of messages shorter than the ring    *)
(* and runs of any length.                                                  *)
(***************************************************************************)
EXTENDS WriteAtomic, FiniteSetTheorems, SequenceTheorems, TLAPS,
        WellFoundedInduction

-----------------------------------------------------------------------------
(* Global offsets and offsets in the ring *)

\* A multiple of Size strictly between -Size and Size is 0.
LEMMA SmallMultiple ==
  ASSUME NEW q \in Int, Size * q < Size, -Size < Size * q
  PROVE  q = 0
<1>1. CASE q >= 1
  <2>1. Size * q >= Size * 1 BY <1>1, WriteAtomicAssumption
  <2>2. QED BY <2>1, WriteAtomicAssumption
<1>2. CASE q <= -1
  <2>1. Size * q <= Size * (-1) BY <1>2, WriteAtomicAssumption
  <2>2. QED BY <2>1, WriteAtomicAssumption
<1>3. QED BY <1>1, <1>2

\* Quotient and remainder of a number by Size.
LEMMA Quotient ==
  ASSUME NEW p \in Int
  PROVE  /\ p % Size \in 0 .. Size - 1 /\ p \div Size \in Int
         /\ p = Size * (p \div Size) + (p % Size)
<1>1. p % Size \in 0 .. Size - 1 BY WriteAtomicAssumption
<1>2. p \div Size \in Int BY WriteAtomicAssumption
<1>3. p = Size * (p \div Size) + (p % Size) BY WriteAtomicAssumption
<1>4. QED BY <1>1, <1>2, <1>3

\* Two numbers less than Size apart have the same remainder only if they are
\* equal.
LEMMA SameRemainder ==
  ASSUME NEW p \in Int, NEW q \in Int, p - q < Size, q - p < Size,
         p % Size = q % Size
  PROVE  p = q
<1> DEFINE a == p \div Size
<1> DEFINE b == q \div Size
<1> DEFINE r == p % Size
<1>1. a \in Int /\ b \in Int /\ r \in Int /\ p = Size * a + r /\ q = Size * b + r
  <2>1. /\ p % Size \in 0 .. Size - 1 /\ a \in Int
        /\ p = Size * a + (p % Size) BY Quotient, WriteAtomicAssumption
  <2>2. b \in Int /\ q = Size * b + (q % Size) BY Quotient, WriteAtomicAssumption
  <2>3. p % Size \in Int BY <2>1, WriteAtomicAssumption
  <2>4. QED BY <2>1, <2>2, <2>3
<1> HIDE DEF a, b, r
<1>2. Size * (a - b) = Size * a - Size * b /\ a - b \in Int
      /\ Size * a \in Int /\ Size * b \in Int
  BY <1>1, WriteAtomicAssumption
<1>3. Size * (a - b) < Size /\ -Size < Size * (a - b)
  BY <1>1, <1>2, WriteAtomicAssumption
<1>4. a - b = 0 BY <1>2, <1>3, SmallMultiple
<1>5. a = b BY <1>1, <1>4
<1>6. QED BY <1>1, <1>5

\* The remainder is unique.
LEMMA RemainderIs ==
  ASSUME NEW q \in Int, NEW s \in 0 .. Size - 1
  PROVE  (Size * q + s) % Size = s
<1> DEFINE x == Size * q + s
<1> DEFINE d == q - (x \div Size)
<1>0. x \in Int BY WriteAtomicAssumption
<1>1. /\ x % Size \in 0 .. Size - 1 /\ x \div Size \in Int
      /\ x = Size * (x \div Size) + (x % Size)
  <2> HIDE DEF x
  <2> QED BY <1>0, Quotient
<1>2. d \in Int BY <1>1
<1>3. Size * d = Size * q - Size * (x \div Size)
  BY <1>1, WriteAtomicAssumption
<1>x. x = Size * q + s /\ Size * q \in Int /\ s \in Int
  BY WriteAtomicAssumption
<1>4. Size * d = (x % Size) - s
  <2>1. x % Size \in Int /\ Size * (x \div Size) \in Int
    BY <1>1, WriteAtomicAssumption
  <2> HIDE DEF x, d
  <2>2. QED BY <1>1, <1>3, <1>x, <2>1
<1>5. Size * d < Size /\ -Size < Size * d
  BY <1>1, <1>4, WriteAtomicAssumption
<1>6. d = 0
  <2> HIDE DEF d
  <2> QED BY <1>2, <1>5, SmallMultiple
<1>7. Size * d = 0 BY <1>6, WriteAtomicAssumption
<1>8. QED BY <1>1, <1>4, <1>7, WriteAtomicAssumption

\* A nonempty set of places has a least element.
LEMMA LeastPlace ==
  ASSUME NEW S \in SUBSET Nat, S # {}
  PROVE  \E k \in S : \A j \in S : k <= j
<1> DEFINE R == {ss \in Nat \X Nat : ss[1] < ss[2]}
<1>1. IsWellFoundedOn(R, Nat) BY NatLessThanWellFounded DEF OpToRel
<1>2. PICK x \in S : \A y \in S : ~(<<y, x>> \in R)
  <2> HIDE DEF R
  <2> QED BY <1>1, WFMin
<1>3. \A j \in S : ~(j < x) BY <1>2
<1>4. QED BY <1>3

\* The offset in the ring of a global offset.
LEMMA OffsetOf ==
  ASSUME NEW g \in Nat
  PROVE  /\ g % Size \in Offsets /\ g \div Size \in Nat
         /\ g = Size * (g \div Size) + (g % Size)
<1>1. /\ g % Size \in Offsets /\ g \div Size \in Int
      /\ g = Size * (g \div Size) + (g % Size)
  BY WriteAtomicAssumption, Quotient DEF Offsets
<1>2. g \div Size >= 0
  <2>1. SUFFICES ASSUME g \div Size <= -1 PROVE FALSE BY <1>1
  <2>2. Size * (g \div Size) <= Size * (-1)
    BY <1>1, <2>1, WriteAtomicAssumption
  <2>3. QED BY <1>1, <2>2, WriteAtomicAssumption DEF Offsets
<1>3. QED BY <1>1, <1>2

\* Two global offsets less than a turn apart differ in the ring.
LEMMA SameOffset ==
  ASSUME NEW p \in Nat, NEW q \in Nat, p % Size = q % Size,
         p - q < Size, q - p < Size
  PROVE  p = q
<1>1. p \in Int /\ q \in Int OBVIOUS
<1>2. QED BY <1>1, SameRemainder

\* GlobalOffset, for a head at `base`
At(base, off) ==
  IF base % Size <= off
  THEN (base \div Size) * Size + off
  ELSE (base \div Size + 1) * Size + off

\* GlobalOffset finds the one global offset within a turn of the head.
LEMMA GlobalOfOffset ==
  ASSUME NEW base \in Nat, NEW g \in Nat, base <= g, g < base + Size
  PROVE  At(base, g % Size) = g
<1> DEFINE n == g - base
<1> DEFINE r == base % Size
<1> DEFINE q == base \div Size
<1>1. n \in 0 .. Size - 1 /\ g = base + n BY WriteAtomicAssumption
<1>2. r \in Offsets /\ q \in Nat /\ base = Size * q + r BY OffsetOf
<1>3. g % Size = IF r + n < Size THEN r + n ELSE r + n - Size
  <2> HIDE DEF n, r, q
  <2>1. CASE r + n < Size
    <3>1. /\ g = Size * q + (r + n) /\ r + n \in 0 .. Size - 1
      BY ONLY <1>1, <1>2, <2>1, WriteAtomicAssumption DEF Offsets
    <3>2. QED BY <1>2, <2>1, <3>1, RemainderIs
  <2>2. CASE ~(r + n < Size)
    <3>1. Size * (q + 1) = Size * q + Size /\ q + 1 \in Int /\ Size * q \in Int
      BY <1>2, WriteAtomicAssumption
    <3>2. /\ g = Size * (q + 1) + (r + n - Size)
          /\ r + n - Size \in 0 .. Size - 1
      BY ONLY <1>1, <1>2, <2>2, <3>1, WriteAtomicAssumption DEF Offsets
    <3>3. QED BY <2>2, <3>1, <3>2, RemainderIs
  <2>3. QED BY <2>1, <2>2
<1>4. q * Size = Size * q /\ (q + 1) * Size = Size * q + Size
      /\ Size * q \in Nat
  BY <1>2, WriteAtomicAssumption
<1>5. At(base, g % Size) = IF r <= g % Size THEN q * Size + (g % Size)
                                            ELSE (q + 1) * Size + (g % Size)
  BY DEF At
<1> HIDE DEF n, r, q
<1>6. CASE r + n < Size
  <2>1. g % Size = r + n BY <1>3, <1>6
  <2>2. QED BY ONLY <1>1, <1>2, <1>4, <1>5, <2>1, WriteAtomicAssumption DEF Offsets
<1>7. CASE ~(r + n < Size)
  <2>1. g % Size = r + n - Size BY <1>3, <1>7
  <2>2. QED BY ONLY <1>1, <1>2, <1>4, <1>5, <2>1, WriteAtomicAssumption DEF Offsets
<1>8. QED BY <1>6, <1>7

\* What GlobalOffset finds has the offset it was given.
LEMMA OffsetOfGlobal ==
  ASSUME NEW base \in Nat, NEW off \in Offsets
  PROVE  /\ At(base, off) \in Nat
         /\ At(base, off) % Size = off
<1> DEFINE q == base \div Size
<1>1. q \in Nat /\ off \in Nat /\ off \in 0 .. Size - 1
  BY OffsetOf, WriteAtomicAssumption DEF Offsets
<1>2. At(base, off) = IF base % Size <= off THEN q * Size + off
                                            ELSE (q + 1) * Size + off
  BY DEF At
<1> HIDE DEF q
<1>3. \A n \in Nat : n * Size = Size * n /\ Size * n \in Nat
  BY WriteAtomicAssumption
<1>4. \A n \in Nat : /\ Size * n + off \in Nat
                     /\ (Size * n + off) % Size = off
  BY <1>1, <1>3, RemainderIs, WriteAtomicAssumption
<1>5. q * Size = Size * q /\ (q + 1) * Size = Size * (q + 1) BY <1>1, <1>3
<1>6. QED BY <1>1, <1>2, <1>4, <1>5

-----------------------------------------------------------------------------
(* Regions that divide a range of bytes *)

\* A region of a division lies within it.
LEMMA WithinTiles ==
  ASSUME NEW S, NEW lo \in Nat, NEW hi \in Nat, Tiles(S, lo, hi), NEW r \in S
  PROVE  /\ r.off \in Nat /\ r.len \in Nat \ {0}
         /\ lo <= r.off /\ r.off + r.len <= hi
<1>1. r.off \in Nat /\ r.len \in Nat \ {0} BY DEF Tiles
<1>2. r.off \in Places(r) /\ r.off + r.len - 1 \in Places(r) BY <1>1 DEF Places
<1>3. Places(r) \subseteq lo .. hi - 1 BY DEF Tiles, Bytes
<1>4. QED BY <1>1, <1>2, <1>3

\* Two of its regions that begin at one place are the same.
LEMMA SameStart ==
  ASSUME NEW S, NEW lo, NEW hi, Tiles(S, lo, hi), NEW r \in S, NEW q \in S,
         r.off = q.off
  PROVE  r = q
<1>1. /\ r.off \in Nat /\ r.len \in Nat \ {0}
      /\ q.off \in Nat /\ q.len \in Nat \ {0}
  BY DEF Tiles
<1>2. r.off \in Places(r) /\ r.off \in Places(q) BY <1>1 DEF Places
<1>3. QED BY <1>2 DEF Tiles

\* Two different ones do not overlap.
LEMMA OneBeforeOther ==
  ASSUME NEW S, NEW lo, NEW hi, Tiles(S, lo, hi), NEW r \in S, NEW q \in S,
         r # q
  PROVE  r.off + r.len <= q.off \/ q.off + q.len <= r.off
<1>1. /\ r.off \in Nat /\ r.len \in Nat \ {0}
      /\ q.off \in Nat /\ q.len \in Nat \ {0}
      /\ Places(r) \cap Places(q) = {}
  BY DEF Tiles
<1>2. CASE r.off <= q.off
  <2>1. q.off \in Places(q) /\ q.off \notin Places(r) BY <1>1 DEF Places
  <2>2. QED BY <1>1, <1>2, <2>1 DEF Places
<1>3. CASE q.off <= r.off
  <2>1. r.off \in Places(r) /\ r.off \notin Places(q) BY <1>1 DEF Places
  <2>2. QED BY <1>1, <1>3, <2>1 DEF Places
<1>4. QED BY <1>1, <1>2, <1>3

\* The fetch-and-add appends a region.
LEMMA TilesAppend ==
  ASSUME NEW S, NEW lo \in Nat, NEW hi \in Nat, lo <= hi, Tiles(S, lo, hi),
         NEW n \in Nat \ {0}
  PROVE  Tiles(S \cup {[off |-> hi, len |-> n]}, lo, hi + n)
<1> DEFINE new == [off |-> hi, len |-> n]
<1> DEFINE T == S \cup {new}
<1>1. Places(new) = hi .. hi + n - 1 BY DEF Places
<1>2. \A r \in T : r.off \in Nat /\ r.len \in Nat \ {0} BY DEF Tiles
<1>3. Bytes(T) = lo .. hi + n - 1
  <2>1. Bytes(T) = Bytes(S) \cup Places(new) BY DEF Bytes
  <2>2. Bytes(S) = lo .. hi - 1 BY DEF Tiles
  <2>3. (lo .. hi - 1) \cup (hi .. hi + n - 1) = lo .. hi + n - 1 OBVIOUS
  <2>4. QED BY <1>1, <2>1, <2>2, <2>3
<1>4. ASSUME NEW r \in T, NEW q \in T, r # q PROVE Places(r) \cap Places(q) = {}
  <2>1. \A x \in S : Places(x) \cap Places(new) = {}
    <3>1. \A x \in S : Places(x) \subseteq lo .. hi - 1 BY DEF Tiles, Bytes
    <3>2. QED BY <1>1, <3>1 DEF Bytes
  <2>2. QED BY <1>4, <2>1 DEF Tiles
<1>5. QED BY <1>2, <1>3, <1>4 DEF Tiles

\* Free merges the regions X of the bytes from a to b into one ...
LEMMA TilesMerge ==
  ASSUME NEW S, NEW lo \in Nat, NEW hi \in Nat, Tiles(S, lo, hi),
         NEW X \in SUBSET S, NEW a \in Nat, NEW b \in Nat, a < b,
         Bytes(X) = a .. b - 1
  PROVE  Tiles((S \ X) \cup {[off |-> a, len |-> b - a]}, lo, hi)
<1> DEFINE new == [off |-> a, len |-> b - a]
<1> DEFINE T == (S \ X) \cup {new}
<1>1. Places(new) = a .. b - 1 /\ new.off \in Nat /\ new.len \in Nat \ {0}
  BY DEF Places
<1>2. \A r \in T : r.off \in Nat /\ r.len \in Nat \ {0} BY <1>1 DEF Tiles
<1>3. Bytes(T) = lo .. hi - 1
  <2>1. Bytes(T) = Bytes(S \ X) \cup Bytes(X)
    BY <1>1 DEF Bytes
  <2>2. Bytes(S) = Bytes(S \ X) \cup Bytes(X) BY DEF Bytes
  <2>3. QED BY <2>1, <2>2 DEF Tiles
<1>4. \A r, q \in T : r # q => Places(r) \cap Places(q) = {}
  <2>1. \A x \in S \ X : Places(x) \cap Places(new) = {}
    <3>1. \A x \in S \ X : \A y \in X : Places(x) \cap Places(y) = {}
      BY DEF Tiles
    <3>2. QED BY <1>1, <3>1 DEF Bytes
  <2>2. \A x, y \in S \ X : x # y => Places(x) \cap Places(y) = {} BY DEF Tiles
  <2>3. QED BY <2>1, <2>2
<1>5. QED BY <1>2, <1>3, <1>4 DEF Tiles

\* ... or, at the head, leaves them behind.
LEMMA TilesDrop ==
  ASSUME NEW S, NEW lo \in Nat, NEW hi \in Nat, Tiles(S, lo, hi),
         NEW X \in SUBSET S, NEW b \in Nat, lo < b, b <= hi,
         Bytes(X) = lo .. b - 1
  PROVE  Tiles(S \ X, b, hi)
<1>1. Bytes(S) = Bytes(S \ X) \cup Bytes(X) BY DEF Bytes
<1>2. Bytes(S \ X) \cap Bytes(X) = {}
  <2>1. \A x \in S \ X : \A y \in X : Places(x) \cap Places(y) = {}
    BY DEF Tiles
  <2>2. QED BY <2>1 DEF Bytes
<1>3. Bytes(S) = lo .. hi - 1 BY DEF Tiles
<1>4. (lo .. hi - 1) \ (lo .. b - 1) = b .. hi - 1 OBVIOUS
<1>5. Bytes(S \ X) = b .. hi - 1
  BY <1>1, <1>2, <1>3, <1>4
<1>6. QED BY <1>5 DEF Tiles

-----------------------------------------------------------------------------
(* The loop of Free *)

\* A nonempty set of places that has an upper bound has a greatest element.
LEMMA GreatestPlace ==
  ASSUME NEW S \in SUBSET Nat, S # {}, NEW hi \in Nat, \A x \in S : x <= hi
  PROVE  \E x \in S : \A y \in S : y <= x
<1> DEFINE T == {hi - x : x \in S}
<1>1. T \in SUBSET Nat /\ T # {}
  <2>1. \A x \in S : hi - x \in Nat OBVIOUS
  <2>2. QED BY <2>1
<1>2. PICK t \in T : \A u \in T : t <= u
  <2> HIDE DEF T
  <2> QED BY <1>1, LeastPlace
<1>3. PICK x \in S : t = hi - x BY <1>2
<1>4. ASSUME NEW y \in S PROVE y <= x
  <2>1. hi - x <= hi - y BY <1>2, <1>3
  <2>2. QED BY <2>1
<1>5. QED BY <1>4

\* The regions freed_regions_ remembers at the keys of a set
FreedAt(keys) == {[off |-> k, len |-> freed[k] - k] : k \in keys}

\* The regions the loop erases cover the bytes from where it starts to where
\* it ends, without a gap.
LEMMA LoopCovers ==
  ASSUME NEW hi \in Nat, DOMAIN freed \subseteq Nat,
         \A k \in DOMAIN freed : freed[k] \in Nat /\ k < freed[k] /\ freed[k] <= hi,
         NEW start \in Nat, start <= hi,
         NEW erased \in SUBSET DOMAIN freed, NEW end,
         Leads(start, erased, end)
  PROVE  /\ end \in Nat /\ start <= end /\ end <= hi
         /\ Bytes(FreedAt(erased)) = start .. end - 1
<1> DEFINE Reached == {start} \cup {freed[k] : k \in erased}
<1>1. /\ Reached = erased \cup {end} /\ end \notin DOMAIN freed
      /\ \A k \in erased : k = start \/ \E j \in erased : freed[j] = k
  BY DEF Leads
<1>2. /\ Reached \in SUBSET Nat /\ \A x \in Reached : x <= hi
      /\ start \in Reached /\ \A k \in erased : freed[k] \in Reached
  OBVIOUS
<1>3. \A k \in erased : /\ k \in Nat /\ k # end /\ freed[k] \in Nat
                        /\ k < freed[k]
  BY <1>1
<1>4. end \in Nat /\ end <= hi BY <1>1, <1>2
<1> HIDE DEF Reached
<1>5. \A k \in erased : start <= k
  <2>1. CASE erased = {} BY <2>1
  <2>2. CASE erased # {}
    <3>1. erased \in SUBSET Nat BY <1>3
    <3>2. PICK m \in erased : \A j \in erased : m <= j
      BY <2>2, <3>1, LeastPlace
    <3>3. m = start
      <4>1. SUFFICES ASSUME NEW j \in erased, freed[j] = m PROVE FALSE
        BY <1>1
      <4>2. m <= j /\ j < m BY <1>3, <3>2, <4>1
      <4>3. QED BY <1>3, <4>2
    <3>4. QED BY <3>2, <3>3
  <2>3. QED BY <2>1, <2>2
<1>6. \A x \in Reached : start <= x
  <2>1. \A k \in erased : start <= freed[k] BY <1>3, <1>5
  <2>2. QED BY <2>1 DEF Reached
<1>7. start <= end BY <1>1, <1>6
<1>8. \A x \in Reached : x <= end
  <2>1. SUFFICES ASSUME NEW x \in Reached, ~(x <= end) PROVE FALSE OBVIOUS
  <2> DEFINE Beyond == {y \in Reached : ~(y <= end)}
  <2>2. /\ Beyond \in SUBSET Nat /\ Beyond # {} /\ \A y \in Beyond : y <= hi
    BY <1>2, <2>1
  <2>3. PICK m \in Beyond : \A y \in Beyond : y <= m
    <3> HIDE DEF Beyond
    <3> QED BY <2>2, GreatestPlace
  <2>4. m \in erased BY <1>1, <1>4, <2>3
  <2>5. freed[m] \in Beyond BY <1>2, <1>3, <1>4, <2>3, <2>4
  <2>6. freed[m] <= m /\ m < freed[m] /\ m \in Nat /\ freed[m] \in Nat
    BY <1>3, <2>3, <2>4, <2>5
  <2>7. QED BY <2>6
<1>9. ASSUME NEW b \in start .. end - 1
      PROVE  \E k \in erased : b \in k .. freed[k] - 1
  <2> DEFINE Passed == {y \in Reached : y <= b}
  <2>1. Passed \in SUBSET Nat /\ Passed # {} /\ b \in Nat
    <3>1. b \in Nat /\ start <= b BY <1>4
    <3>2. start \in Passed BY <1>2, <3>1
    <3>3. QED BY <1>2, <3>1, <3>2
  <2>2. PICK m \in Passed : \A y \in Passed : y <= m
    <3>1. \A y \in Passed : y <= b OBVIOUS
    <3> HIDE DEF Passed
    <3> QED BY <2>1, <3>1, GreatestPlace
  <2>3. m \in Reached /\ m <= b /\ m \in Nat BY <1>2, <2>2
  <2>4. m # end BY <1>4, <2>1, <2>3
  <2>5. m \in erased BY <1>1, <2>3, <2>4
  <2>6. freed[m] \in Reached /\ freed[m] \in Nat /\ m < freed[m]
    BY <1>2, <1>3, <2>5
  <2>7. ~(freed[m] <= b)
    <3>1. SUFFICES ASSUME freed[m] <= b PROVE FALSE OBVIOUS
    <3>2. freed[m] \in Passed BY <2>6, <3>1
    <3>3. freed[m] <= m
      <4> HIDE DEF Passed
      <4> QED BY <2>2, <3>2
    <3>4. QED BY <2>3, <2>6, <3>3
  <2>8. b \in m .. freed[m] - 1 BY <2>1, <2>3, <2>6, <2>7
  <2>9. QED BY <2>5, <2>8
<1>10. ASSUME NEW k \in erased PROVE k .. freed[k] - 1 \subseteq start .. end - 1
  <2>1. freed[k] <= end BY <1>2, <1>8
  <2>2. QED BY <1>3, <1>4, <1>5, <2>1
<1>11. Bytes(FreedAt(erased)) = UNION {k .. freed[k] - 1 : k \in erased}
  <2>1. ASSUME NEW k \in erased
        PROVE  Places([off |-> k, len |-> freed[k] - k]) = k .. freed[k] - 1
    BY <1>3 DEF Places
  <2>2. QED BY <2>1 DEF Bytes, FreedAt
<1>12. QED BY <1>4, <1>7, <1>9, <1>10, <1>11

-----------------------------------------------------------------------------
(* The invariant *)

\* The initial state satisfies it.
LEMMA InitInv == Init => IInv
<1> SUFFICES ASSUME Init PROVE IInv OBVIOUS
<1> USE DEF Init
<1>1. TypeOK
  <2>1. /\ DOMAIN freed = {} /\ freed \in [DOMAIN freed -> Nat]
    BY DEF Empty
  <2>2. 0 \in 0 .. Size - 1 BY WriteAtomicAssumption
  <2>3. QED BY <2>1, <2>2 DEF TypeOK
<1>2. /\ Reserved = {} /\ InFlight = {} /\ Completed = {}
      /\ FreedRegions = {}
  BY DEF Reserved, InFlight, Completed, FreedRegions, Empty
<1>3. Live = {} BY <1>2 DEF Live
<1>4. HeadsBehind /\ HeadsPublished
  BY DEF HeadsBehind, HeadsPublished
<1>5. Tiles(Live, metaHead, metaTail)
  <2>1. Bytes({}) = {} BY DEF Bytes
  <2>2. 0 .. 0 - 1 = {} OBVIOUS
  <2>3. QED BY <1>3, <2>1, <2>2 DEF Tiles
<1>6. OneOwner BY <1>2 DEF OneOwner, Separate
<1>7. InRing BY <1>2 DEF InRing
<1>8. Intact BY <1>2 DEF Intact
<1>9. QED BY <1>1, <1>4, <1>5, <1>6, <1>7, <1>8 DEF IInv

\* A call starts: nothing is reserved yet.
LEMMA SendStartInv ==
  ASSUME IInv, NEW s \in Senders, SendStart(s)
  PROVE  IInv'
<1> USE DEF SendStart, IInv, rcvVars
<1>1. PICK n \in Lengths : want' = [want EXCEPT ![s] = n] OBVIOUS
<1>2. n \in 1 .. Size - 1 /\ n \in 0 .. Size - 1 /\ n # 0
  BY WriteAtomicAssumption
<1>3. TypeOK' BY <1>1, <1>2 DEF TypeOK
<1>4. \A q \in Senders : spc'[q] # "idle" => want'[q] # 0
  BY <1>1, <1>2 DEF TypeOK
<1>5. \A q \in Senders : /\ spc'[q] = "check" <=> spc[q] = "check"
                         /\ spc[q] = "check" => want'[q] = want[q]
  BY <1>1 DEF TypeOK
<1>6. /\ Reserved' = Reserved /\ InFlight' = InFlight
      /\ Completed' = Completed /\ FreedRegions' = FreedRegions
  BY <1>5 DEF Reserved, RegionOf, InFlight, Completed, GlobalOffset, FreedRegions
<1>7. Live' = Live BY <1>6 DEF Live
<1>8. HeadsBehind' /\ HeadsPublished'
  BY DEF HeadsBehind, HeadsPublished
<1>9. Tiles(Live, metaHead, metaTail)' BY <1>7 DEF Tiles
<1>10. OneOwner' BY <1>5, <1>6 DEF OneOwner, Separate, GlobalOffset
<1>11. InRing' BY <1>6 DEF InRing
<1>12. Intact' BY <1>6 DEF Intact
<1>13. QED BY <1>3, <1>4, <1>8, <1>9, <1>10, <1>11, <1>12

\* The head is read: it is behind the receiver's.
LEMMA ReadHeadInv ==
  ASSUME IInv, NEW s \in Senders, ReadHead(s)
  PROVE  IInv'
<1> USE DEF ReadHead, IInv, rcvVars
<1>1. TypeOK' BY DEF TypeOK
<1>2. /\ Reserved' = Reserved /\ InFlight' = InFlight
      /\ Completed' = Completed /\ FreedRegions' = FreedRegions
  BY DEF Reserved, RegionOf, InFlight, Completed, GlobalOffset, FreedRegions
<1>3. Live' = Live BY <1>2 DEF Live
<1>4. HeadsBehind' /\ HeadsPublished'
  BY DEF HeadsBehind, TypeOK, HeadsPublished
<1>5. Tiles(Live, metaHead, metaTail)' BY <1>3 DEF Tiles
<1>6. OneOwner' BY <1>2 DEF OneOwner, Separate, GlobalOffset
<1>7. InRing' BY <1>2 DEF InRing
<1>8. Intact' BY <1>2 DEF Intact
<1>9. QED BY <1>1, <1>4, <1>5, <1>6, <1>7, <1>8

\* A region between head and tail lies between them.
LEMMA LiveWithin ==
  ASSUME IInv, NEW r \in Live
  PROVE  /\ r.off \in Nat /\ r.len \in Nat \ {0}
         /\ metaHead <= r.off /\ r.off + r.len <= metaTail
BY WithinTiles DEF IInv, TypeOK

\* The fetch-and-add: the region behind the tail is the sender's.
LEMMA FetchAndAddInv ==
  ASSUME IInv, NEW s \in Senders, FetchAndAdd(s)
  PROVE  IInv'
<1> USE DEF FetchAndAdd, IInv, rcvVars
<1> DEFINE new == [off |-> metaTail, len |-> want[s]]
<1>1. /\ want[s] \in Nat \ {0} /\ metaTail \in Nat /\ metaHead \in Nat
      /\ metaTail' \in Nat /\ metaTail <= metaTail'
  BY WriteAtomicAssumption DEF TypeOK
<1>2. TypeOK' BY <1>1 DEF TypeOK
<1>3. \A q \in Senders : spc'[q] # "idle" => want'[q] # 0 BY DEF TypeOK
<1>4. /\ spc'[s] = "check" /\ tail'[s] = metaTail /\ spc[s] # "check"
      /\ \A q \in Senders : q # s => spc'[q] = spc[q] /\ tail'[q] = tail[q]
  BY DEF TypeOK
<1>5. Reserved' = Reserved \cup {new}
  BY <1>4 DEF Reserved, RegionOf
<1>6. /\ InFlight' = InFlight /\ Completed' = Completed
      /\ FreedRegions' = FreedRegions
  BY DEF InFlight, Completed, GlobalOffset, FreedRegions
<1>7. Live' = Live \cup {new} BY <1>5, <1>6 DEF Live
<1>8. new \notin Live BY <1>1, LiveWithin
<1>9. HeadsBehind' /\ HeadsPublished'
  BY <1>1 DEF HeadsBehind, HeadsPublished
<1>10. Tiles(Live, metaHead, metaTail)'
  <2>1. Tiles(Live \cup {new}, metaHead, metaTail + want[s])
    BY <1>1, TilesAppend DEF HeadsBehind
  <2>2. QED BY <1>7, <2>1 DEF Tiles
<1>11. OneOwner'
  <2>1. Separate(Reserved, InFlight, Completed, held, FreedRegions, holes)'
    BY <1>5, <1>6, <1>8 DEF OneOwner, Separate, Live
  <2>2. \A q \in Senders : spc[q] = "check" => tail[q] < metaTail
    <3>1. SUFFICES ASSUME NEW q \in Senders, spc[q] = "check"
          PROVE  tail[q] < metaTail
      OBVIOUS
    <3>2. RegionOf(q) \in Live BY <3>1 DEF Live, Reserved
    <3>3. QED BY <1>1, <3>2, LiveWithin DEF RegionOf
  <2>3. \A q, p \in Senders :
          q # p /\ spc'[q] = "check" /\ spc'[p] = "check" => tail'[q] # tail'[p]
    BY <1>1, <1>4, <2>2, SMTT(30) DEF OneOwner, TypeOK
  <2>4. QED BY <2>1, <2>3 DEF OneOwner, GlobalOffset
<1>12. InRing' BY <1>6 DEF InRing
<1>13. Intact' BY <1>6 DEF Intact
<1>14. QED BY <1>2, <1>3, <1>9, <1>10, <1>11, <1>12, <1>13

\* The region of a call that returns is no longer that of a call.
LEMMA ReturnReserved ==
  ASSUME IInv, NEW s \in Senders, Return(s), spc[s] = "check"
  PROVE  /\ RegionOf(s) \in Reserved /\ Reserved' = Reserved \ {RegionOf(s)}
         /\ RegionOf(s) \in Region
<1>1. \A q \in Senders :
        /\ spc'[q] = IF q = s THEN "idle" ELSE spc[q]
        /\ q # s => want'[q] = want[q] /\ tail'[q] = tail[q]
  BY DEF Return, IInv, TypeOK
<1>2. RegionOf(s) \in Reserved BY DEF Reserved
<1>3. \A q \in Senders \ {s} : spc[q] = "check" => RegionOf(q) # RegionOf(s)
  BY DEF IInv, OneOwner, RegionOf
<1>4. Reserved' = Reserved \ {RegionOf(s)}
  BY <1>1, <1>3 DEF Reserved, RegionOf
<1>5. RegionOf(s) \in Region
  BY WriteAtomicAssumption DEF IInv, TypeOK, Region, RegionOf
<1>6. QED BY <1>2, <1>4, <1>5

\* The write is posted: the region has room within a turn of the head.
LEMMA PostWriteInv ==
  ASSUME IInv, NEW s \in Senders, PostWrite(s)
  PROVE  IInv'
<1> USE DEF PostWrite, IInv, rcvVars
<1> DEFINE r == RegionOf(s)
<1>1. r \in Reserved /\ Reserved' = Reserved \ {r} /\ r \in Region
  BY ReturnReserved
<1>2. TypeOK' BY <1>1, WriteAtomicAssumption, SMTT(30) DEF TypeOK, Return
<1>3. \A q \in Senders : /\ spc'[q] # "idle" => spc'[q] = spc[q] /\ want'[q] = want[q]
                         /\ spc'[q] = "check" => tail'[q] = tail[q]
  BY DEF Return, TypeOK
<1>4. \A q \in Senders : flight'[q] = IF q = s THEN flight[q] \cup {r} ELSE flight[q]
  BY DEF TypeOK
<1> HIDE DEF r
<1>5. InFlight' = InFlight \cup {r}
  <2>1. ASSUME NEW x PROVE x \in InFlight' <=> x \in InFlight \/ x = r
    <3>1. x \in InFlight' <=> \E q \in Senders : x \in flight'[q]
      BY DEF InFlight
    <3>2. x \in InFlight <=> \E q \in Senders : x \in flight[q]
      BY DEF InFlight
    <3>3. \A q \in Senders :
            x \in flight'[q] <=> x \in flight[q] \/ (q = s /\ x = r)
      <4>1. ASSUME NEW q \in Senders
            PROVE  x \in flight'[q] <=> x \in flight[q] \/ (q = s /\ x = r)
        <5>1. flight'[q] = IF q = s THEN flight[q] \cup {r} ELSE flight[q]
          BY <1>4
        <5>2. QED BY ONLY <5>1
      <4>2. QED BY <4>1
    <3>4. s \in Senders OBVIOUS
    <3>5. QED BY ONLY <3>1, <3>2, <3>3, <3>4, Zenon
  <2>2. QED BY <2>1
<1>6. Completed' = Completed /\ FreedRegions' = FreedRegions
  BY DEF Completed, GlobalOffset, FreedRegions
<1>7. Live' = Live BY <1>1, <1>5, <1>6 DEF Live
<1>8. HeadsBehind' /\ HeadsPublished'
  BY DEF HeadsBehind, HeadsPublished
<1>9. Tiles(Live, metaHead, metaTail)' BY <1>7 DEF Tiles
<1>10. OneOwner'
  <2>1. Separate(Reserved, InFlight, Completed, held, FreedRegions, holes)'
    BY <1>1, <1>5, <1>6 DEF OneOwner, Separate
  <2>2. r \notin InFlight BY <1>1 DEF OneOwner, Separate
  <2>3. \A q \in Senders : r \notin flight[q] BY <2>2 DEF InFlight
  <2>4. ASSUME NEW p \in Senders, NEW q \in Senders, p # q
        PROVE  flight'[p] \cap flight'[q] = {}
    <3>1. flight[p] \cap flight[q] = {} BY <2>4 DEF OneOwner
    <3>2. r \notin flight[p] /\ r \notin flight[q] BY <2>3
    <3>3. /\ flight'[p] = IF p = s THEN flight[p] \cup {r} ELSE flight[p]
          /\ flight'[q] = IF q = s THEN flight[q] \cup {r} ELSE flight[q]
      BY <1>4
    <3>4. QED BY ONLY <2>4, <3>1, <3>2, <3>3
  <2>5. QED BY <1>3, <2>1, <2>4 DEF OneOwner, GlobalOffset
<1>11. InRing'
  <2>1. r.off + r.len < metaHead + Size
    BY WriteAtomicAssumption DEF r, RegionOf, HasRoom, HeadsBehind, TypeOK
  <2>2. QED BY <1>5, <1>6, <2>1 DEF InRing
<1>12. Intact' BY <1>6 DEF Intact
<1>13. QED BY <1>2, <1>3, <1>8, <1>9, <1>10, <1>11, <1>12

\* A call that fails loses what it reserved.
LEMMA SendFailInv ==
  ASSUME IInv, NEW s \in Senders, SendFail(s)
  PROVE  IInv'
<1> USE DEF SendFail, IInv, rcvVars
<1>1. /\ TypeOK'
      /\ \/ Reserved' = Reserved /\ holes' = holes
         \/ \E r \in Reserved : /\ Reserved' = Reserved \ {r}
                                /\ holes' = holes \cup {r}
  <2>1. CASE spc[s] = "check"
    <3>1. /\ RegionOf(s) \in Reserved /\ RegionOf(s) \in Region
          /\ Reserved' = Reserved \ {RegionOf(s)}
      BY <2>1, ReturnReserved
    <3>2. QED BY <2>1, <3>1, WriteAtomicAssumption, SMTT(30) DEF TypeOK, Return
  <2>2. CASE spc[s] # "check"
    <3>1. \A q \in Senders : /\ spc'[q] = "check" <=> spc[q] = "check"
                             /\ spc[q] = "check" => RegionOf(q)' = RegionOf(q)
      BY <2>2 DEF TypeOK, Return, RegionOf
    <3>2. Reserved' = Reserved BY <3>1 DEF Reserved
    <3>3. QED BY <2>2, <3>2, WriteAtomicAssumption, SMTT(30) DEF TypeOK, Return
  <2>3. QED BY <2>1, <2>2
<1>2. \A q \in Senders : /\ spc'[q] # "idle" => spc'[q] = spc[q] /\ want'[q] = want[q]
                         /\ spc'[q] = "check" => tail'[q] = tail[q]
  BY DEF Return, TypeOK
<1>3. /\ InFlight' = InFlight /\ Completed' = Completed
      /\ FreedRegions' = FreedRegions
  BY DEF InFlight, Completed, GlobalOffset, FreedRegions
<1>4. Live' = Live BY <1>1, <1>3 DEF Live
<1>5. HeadsBehind' /\ HeadsPublished'
  BY DEF HeadsBehind, HeadsPublished
<1>6. Tiles(Live, metaHead, metaTail)' BY <1>4 DEF Tiles
<1>7. OneOwner'
  <2>1. Separate(Reserved, InFlight, Completed, held, FreedRegions, holes)'
    BY <1>1, <1>3 DEF OneOwner, Separate
  <2>2. QED BY <1>2, <2>1 DEF OneOwner, GlobalOffset
<1>8. InRing' BY <1>3 DEF InRing
<1>9. Intact' BY <1>3 DEF Intact
<1>10. QED BY <1>1, <1>2, <1>5, <1>6, <1>7, <1>8, <1>9

\* A connection breaks: its writes under way are lost.
LEMMA BreakInv ==
  ASSUME IInv, NEW s \in Senders, Break(s)
  PROVE  IInv'
<1> USE DEF Break, IInv, rcvVars
<1>1. flight[s] \subseteq Region BY DEF TypeOK
<1>2. TypeOK' BY <1>1 DEF TypeOK
<1>3. \A q \in Senders : flight'[q] = IF q = s THEN {} ELSE flight[q]
  BY DEF TypeOK
<1>4. \A q \in Senders : q # s => flight[q] \cap flight[s] = {} BY DEF OneOwner
<1>5. InFlight' = InFlight \ flight[s] /\ flight[s] \subseteq InFlight
  BY <1>3, <1>4 DEF InFlight
<1>6. /\ Reserved' = Reserved /\ Completed' = Completed
      /\ FreedRegions' = FreedRegions
  BY DEF Reserved, RegionOf, Completed, GlobalOffset, FreedRegions
<1>7. Live' = Live BY <1>5, <1>6 DEF Live
<1>8. HeadsBehind' /\ HeadsPublished'
  BY DEF HeadsBehind, HeadsPublished
<1>9. Tiles(Live, metaHead, metaTail)' BY <1>7 DEF Tiles
<1>10. OneOwner'
  <2>1. Separate(Reserved, InFlight, Completed, held, FreedRegions, holes)'
    BY <1>5, <1>6 DEF OneOwner, Separate
  <2>2. \A p, q \in Senders : p # q => flight'[p] \cap flight'[q] = {}
    BY <1>3 DEF OneOwner
  <2>3. QED BY <2>1, <2>2 DEF OneOwner, GlobalOffset
<1>11. InRing' BY <1>5, <1>6 DEF InRing
<1>12. Intact' BY <1>6 DEF Intact
<1>13. QED BY <1>2, <1>8, <1>9, <1>10, <1>11, <1>12

\* Where a write's byte lands is the byte's offset in the ring.
LEMMA LandsAt ==
  ASSUME NEW p \in Nat, NEW o \in Offsets
  PROVE  /\ (o - p) % Size \in Offsets
         /\ (p + ((o - p) % Size)) % Size = o
<1> DEFINE x == o - p
<1> DEFINE q == x \div Size
<1>1. x \in Int /\ o \in Int BY WriteAtomicAssumption DEF Offsets
<1>2. /\ x % Size \in Offsets /\ q \in Int /\ x = Size * q + (x % Size)
  <2> HIDE DEF x
  <2> QED BY <1>1, WriteAtomicAssumption, Quotient DEF Offsets
<1>3. Size * (-q) = -(Size * q) /\ Size * q \in Int /\ -q \in Int
  <2> HIDE DEF q
  <2> QED BY <1>2, WriteAtomicAssumption
<1>4. p + (x % Size) = Size * (-q) + o
  <2>1. x % Size \in Int BY <1>2, WriteAtomicAssumption DEF Offsets
  <2>2. x = o - p OBVIOUS
  <2> HIDE DEF q, x
  <2>3. QED BY ONLY <1>1, <1>2, <1>3, <2>1, <2>2, p \in Nat
<1>5. (Size * (-q) + o) % Size = o
  <2> HIDE DEF q
  <2>1. o \in 0 .. Size - 1 BY DEF Offsets
  <2>2. QED BY <1>3, <2>1, RemainderIs, WriteAtomicAssumption
<1>6. QED BY <1>2, <1>4, <1>5

\* And a byte of the write lands at its own offset.
LEMMA ByteLands ==
  ASSUME NEW p \in Nat, NEW i \in Offsets
  PROVE  (((p + i) % Size) - p) % Size = i
<1> DEFINE o == (p + i) % Size
<1> DEFINE j == (o - p) % Size
<1>0. i \in Nat /\ i < Size BY WriteAtomicAssumption DEF Offsets
<1>1. p + i \in Nat /\ o \in Offsets
  <2>1. p + i \in Nat BY <1>0
  <2>2. QED BY <2>1, OffsetOf
<1> HIDE DEF o
<1>2. j \in Offsets /\ (p + j) % Size = o BY <1>1, LandsAt
<1> HIDE DEF j
<1>3. p + j \in Nat /\ j \in Nat /\ j < Size
  BY <1>2, WriteAtomicAssumption DEF Offsets
<1>4. (p + j) % Size = (p + i) % Size BY <1>2 DEF o
<1>5. (p + j) - (p + i) < Size /\ (p + i) - (p + j) < Size
  BY <1>0, <1>3, WriteAtomicAssumption
<1>6. p + j = p + i BY <1>1, <1>3, <1>4, <1>5, SameOffset
<1>7. j = i BY <1>0, <1>3, <1>6
<1>8. QED BY <1>7 DEF j, o

\* The region of a completion.
LEMMA CompletedRegion ==
  ASSUME IInv, NEW i \in DOMAIN cq
  PROVE  LET g == GlobalOffset(cq[i].off)
         IN  /\ cq[i].off \in Offsets /\ cq[i].len \in 1 .. Size - 1
             /\ g \in Nat /\ g % Size = cq[i].off
             /\ [off |-> g, len |-> cq[i].len] \in Completed
             /\ metaHead <= g /\ g + cq[i].len < metaHead + Size
<1> DEFINE g == GlobalOffset(cq[i].off)
<1> DEFINE r == [off |-> g, len |-> cq[i].len]
<1>1. cq[i].off \in Offsets /\ cq[i].len \in 1 .. Size - 1
  <2>1. cq \in Seq([off : Offsets, len : 1 .. Size - 1]) BY DEF IInv, TypeOK
  <2>2. i \in 1 .. Len(cq) BY <2>1, LenProperties
  <2>3. cq[i] \in [off : Offsets, len : 1 .. Size - 1]
    BY <2>1, <2>2, ElementOfSeq
  <2>4. QED BY <2>3
<1>2. g = At(metaHead, cq[i].off) BY DEF At, GlobalOffset
<1>3. g \in Nat /\ g % Size = cq[i].off
  BY <1>1, <1>2, OffsetOfGlobal DEF IInv, TypeOK
<1>4. r \in Completed /\ r \in Live BY DEF Completed, Live
<1>5. metaHead <= r.off BY <1>4, LiveWithin
<1>6. r.off + r.len < metaHead + Size BY <1>4 DEF IInv, InRing
<1>7. QED BY <1>1, <1>3, <1>4, <1>5, <1>6

\* A write lands: its region has a completion, and its bytes are no other's.
LEMMA LandInv ==
  ASSUME IInv, NEW s \in Senders, Land(s)
  PROVE  IInv'
<1> USE DEF Land, IInv, rcvVars
<1>1. PICK w \in flight[s] :
        /\ mem' = [o \in Offsets |->
                     LET i == (o - w.off) % Size IN
                     IF i < w.len THEN w.off + i ELSE mem[o]]
        /\ cq' = Append(cq, [off |-> w.off % Size, len |-> w.len])
        /\ flight' = [flight EXCEPT ![s] = @ \ {w}]
  OBVIOUS
<1> DEFINE c == [off |-> w.off % Size, len |-> w.len]
<1>2. w \in InFlight /\ w \in Live /\ w \in Region
  BY DEF InFlight, Live, TypeOK
<1>3. /\ w.off \in Nat /\ w.len \in 1 .. Size - 1 /\ metaHead \in Nat
      /\ metaHead <= w.off /\ w.off + w.len < metaHead + Size
  BY <1>2, LiveWithin DEF Region, InRing, TypeOK
<1>4. c \in [off : Offsets, len : 1 .. Size - 1] BY <1>3, OffsetOf
<1>5. GlobalOffset(c.off) = w.off
  <2>1. w.off < metaHead + Size BY <1>3, WriteAtomicAssumption
  <2>2. At(metaHead, w.off % Size) = w.off BY <1>3, <2>1, GlobalOfOffset
  <2>3. QED BY <2>2 DEF At, GlobalOffset
<1>6. cq \in Seq([off : Offsets, len : 1 .. Size - 1]) BY DEF TypeOK
<1>7. /\ Len(cq') = Len(cq) + 1 /\ Len(cq) \in Nat
      /\ DOMAIN cq = 1 .. Len(cq) /\ DOMAIN cq' = 1 .. Len(cq) + 1
      /\ cq'[Len(cq) + 1] = c /\ \A i \in DOMAIN cq : cq'[i] = cq[i]
      /\ cq' \in Seq([off : Offsets, len : 1 .. Size - 1])
  BY <1>1, <1>4, <1>6, AppendProperties
<1>8. TypeOK'
  <2>1. mem' \in [Offsets -> Nat \cup {-1}]
    <3>1. ASSUME NEW o \in Offsets PROVE mem'[o] \in Nat \cup {-1}
      <4> DEFINE i == (o - w.off) % Size
      <4>1. i \in Nat
        <5>1. i \in Offsets BY <1>3, LandsAt
        <5>2. QED BY <5>1, WriteAtomicAssumption DEF Offsets
      <4>2. mem'[o] = IF i < w.len THEN w.off + i ELSE mem[o] BY <1>1
      <4> HIDE DEF i
      <4>3. QED BY <1>3, <4>1, <4>2, SMTT(30) DEF TypeOK
    <3>2. QED BY <1>1, <3>1
  <2>2. flight' \in [Senders -> SUBSET Region] BY <1>1 DEF TypeOK
  <2>3. QED BY <1>7, <2>1, <2>2 DEF TypeOK
<1>9. \A q \in Senders : flight'[q] = IF q = s THEN flight[q] \ {w} ELSE flight[q]
  BY <1>1 DEF TypeOK
<1>10. InFlight' = InFlight \ {w}
  <2>1. ASSUME NEW q \in Senders, q # s PROVE w \notin flight[q]
    <3>1. flight[q] \cap flight[s] = {} BY <2>1 DEF OneOwner
    <3>2. QED BY <3>1
  <2>2. ASSUME NEW x PROVE x \in InFlight' <=> x \in InFlight /\ x # w
    <3>1. x \in InFlight' <=> \E q \in Senders : x \in flight'[q]
      BY DEF InFlight
    <3>2. x \in InFlight <=> \E q \in Senders : x \in flight[q]
      BY DEF InFlight
    <3>3. ASSUME NEW q \in Senders
          PROVE  x \in flight'[q] <=> x \in flight[q] /\ x # w
      <4>1. flight'[q] = IF q = s THEN flight[q] \ {w} ELSE flight[q] BY <1>9
      <4>2. QED BY <2>1, <4>1
    <3>4. QED BY ONLY <3>1, <3>2, <3>3
  <2>3. QED BY <2>2
<1>11. /\ Completed = {[off |-> At(metaHead, cq[i].off), len |-> cq[i].len] :
                          i \in DOMAIN cq}
       /\ Completed' = {[off |-> At(metaHead, cq'[i].off), len |-> cq'[i].len] :
                           i \in DOMAIN cq'}
       /\ GlobalOffset(c.off) = At(metaHead, c.off)
  BY DEF Completed, GlobalOffset, At
<1>12. Completed' = Completed \cup {w}
  <2>1. w = [off |-> At(metaHead, c.off), len |-> c.len]
    BY <1>2, <1>5, <1>11 DEF Region
  <2>2. DOMAIN cq' = DOMAIN cq \cup {Len(cq) + 1} BY <1>7
  <2> DEFINE f(i) == [off |-> At(metaHead, cq'[i].off), len |-> cq'[i].len]
  <2>3. f(Len(cq) + 1) = w BY <1>7, <2>1
  <2> DEFINE h(i) == [off |-> At(metaHead, cq[i].off), len |-> cq[i].len]
  <2>4. \A i \in DOMAIN cq : f(i) = h(i) BY <1>7
  <2>5. Completed' = {f(i) : i \in DOMAIN cq'} BY <1>11
  <2>6. Completed = {h(i) : i \in DOMAIN cq} BY <1>11
  <2> HIDE DEF f, h
  <2>7. QED BY ONLY <2>2, <2>3, <2>4, <2>5, <2>6
<1>13. /\ Reserved' = Reserved /\ FreedRegions' = FreedRegions
  BY DEF Reserved, RegionOf, FreedRegions
<1>14. Live' = Live BY <1>2, <1>10, <1>12, <1>13 DEF Live
<1>15. HeadsBehind' /\ HeadsPublished'
  BY DEF HeadsBehind, HeadsPublished
<1>16. Tiles(Live, metaHead, metaTail)' BY <1>14 DEF Tiles
<1>17. OneOwner'
  <2>1. Separate(Reserved, InFlight, Completed, held, FreedRegions, holes)'
    BY <1>2, <1>10, <1>12, <1>13 DEF OneOwner, Separate
  <2>2. \A p, q \in Senders : p # q => flight'[p] \cap flight'[q] = {}
    BY <1>9 DEF OneOwner
  <2>3. \A i \in DOMAIN cq : GlobalOffset(cq[i].off) # w.off
    <3>1. SUFFICES ASSUME NEW i \in DOMAIN cq, GlobalOffset(cq[i].off) = w.off
          PROVE  FALSE
      OBVIOUS
    <3> DEFINE r == [off |-> GlobalOffset(cq[i].off), len |-> cq[i].len]
    <3>2. r \in Completed /\ r \in Live BY DEF Completed, Live
    <3>3. r.off = w.off BY <3>1
    <3> HIDE DEF r
    <3>4. r = w BY <1>2, <3>2, <3>3, SameStart
    <3>5. QED BY <1>2, <3>2, <3>4 DEF OneOwner, Separate
  <2>4. \A i, j \in DOMAIN cq' :
          i # j => GlobalOffset(cq'[i].off) # GlobalOffset(cq'[j].off)
    BY <1>5, <1>7, <2>3 DEF OneOwner
  <2>5. QED BY <2>1, <2>2, <2>4 DEF OneOwner, GlobalOffset
<1>18. InRing' BY <1>2, <1>10, <1>12 DEF InRing
<1>19. Intact'
  <2>1. SUFFICES ASSUME NEW r \in held \cup Completed \cup {w},
                        NEW i \in 0 .. r.len - 1
        PROVE  mem'[(r.off + i) % Size] = r.off + i
    BY <1>12 DEF Intact
  <2>2. /\ r.off \in Nat /\ r.len \in Nat \ {0} /\ metaHead <= r.off
        /\ r.off + r.len < metaHead + Size /\ r \in Live
    BY <1>2, <2>1, LiveWithin DEF InRing, Live
  <2> DEFINE g == r.off + i
  <2> DEFINE o == g % Size
  <2> DEFINE j == (o - w.off) % Size
  <2>3. g \in Nat /\ metaHead <= g /\ g < metaHead + Size
    BY ONLY <1>3, <2>1, <2>2, WriteAtomicAssumption
  <2>4. o \in Offsets
    <3> HIDE DEF g
    <3> QED BY <2>3, OffsetOf
  <2>5. j \in Offsets /\ (w.off + j) % Size = o
    <3> HIDE DEF o
    <3> QED BY <1>3, <2>4, LandsAt
  <2>6. mem'[o] = IF j < w.len THEN w.off + j ELSE mem[o] BY <1>1, <2>4
  <2>7. CASE r = w
    <3>1. i \in Offsets /\ i < w.len /\ r.off = w.off
      BY <1>3, <2>7, WriteAtomicAssumption DEF Offsets
    <3>2. j = i BY <1>3, <3>1, ByteLands
    <3>3. QED BY <2>6, <3>1, <3>2
  <2>8. CASE r # w
    <3>1. mem[o] = g BY <2>1, <2>8 DEF Intact
    <3>2. ~(j < w.len)
      <4>1. SUFFICES ASSUME j < w.len PROVE FALSE OBVIOUS
      <4>2. j \in Nat BY <2>5, WriteAtomicAssumption DEF Offsets
      <4> HIDE DEF j
      <4>3. /\ w.off + j \in Nat /\ metaHead <= w.off + j
            /\ w.off + j < metaHead + Size
        BY <1>3, <4>1, <4>2, WriteAtomicAssumption, SMTT(30)
      <4>4. (w.off + j) % Size = g % Size BY <2>5
      <4>5. w.off + j = g
        <5>1. (w.off + j) - g < Size /\ g - (w.off + j) < Size
          BY <1>3, <2>3, <4>3, WriteAtomicAssumption, SMTT(30)
        <5> HIDE DEF g
        <5>2. QED BY <2>3, <4>3, <4>4, <5>1, SameOffset
      <4>6. r.off + r.len <= w.off \/ w.off + w.len <= r.off
        BY <1>2, <2>2, <2>8, OneBeforeOther
      <4>7. QED BY <1>3, <2>2, <4>1, <4>2, <4>5, <4>6, SMTT(30)
    <3>3. QED BY <2>6, <3>1, <3>2
  <2>9. QED BY <2>7, <2>8
<1>20. QED BY <1>8, <1>15, <1>16, <1>17, <1>18, <1>19

\* Receive: the region of the first completion is the application's.
LEMMA ReceiveInv ==
  ASSUME IInv, Receive
  PROVE  IInv'
<1> USE DEF Receive, IInv, sndVars
<1> DEFINE r == [off |-> GlobalOffset(Head(cq).off), len |-> Head(cq).len]
<1>1. cq \in Seq([off : Offsets, len : 1 .. Size - 1]) /\ cq # <<>>
  BY DEF TypeOK
<1>2. /\ Len(cq) \in Nat \ {0} /\ DOMAIN cq = 1 .. Len(cq) /\ Head(cq) = cq[1]
      /\ cq' \in Seq([off : Offsets, len : 1 .. Size - 1])
      /\ DOMAIN cq' = 1 .. Len(cq) - 1
      /\ \A i \in DOMAIN cq' : i + 1 \in DOMAIN cq /\ cq'[i] = cq[i + 1]
  <2>1. Len(cq) \in Nat \ {0} /\ DOMAIN cq = 1 .. Len(cq) /\ Head(cq) = cq[1]
    BY <1>1, LenProperties, EmptySeq
  <2>2. /\ cq' \in Seq([off : Offsets, len : 1 .. Size - 1])
        /\ Len(cq') = Len(cq) - 1
        /\ \A i \in 1 .. Len(cq') : cq'[i] = cq[i + 1]
    BY <1>1, HeadTailProperties
  <2>3. DOMAIN cq' = 1 .. Len(cq) - 1 BY <2>2, LenProperties
  <2>4. QED BY <2>1, <2>2, <2>3
<1>3. 1 \in DOMAIN cq BY <1>2
<1>4. /\ r \in Completed /\ r.off \in Nat /\ r.len \in 1 .. Size - 1
      /\ r.off = GlobalOffset(cq[1].off)
  BY <1>2, <1>3, CompletedRegion
<1>5. TypeOK' BY <1>2, <1>4 DEF TypeOK, Region
<1>6. Completed' = Completed \ {r}
  <2> DEFINE f(i) == [off |-> At(metaHead, cq'[i].off), len |-> cq'[i].len]
  <2> DEFINE h(i) == [off |-> At(metaHead, cq[i].off), len |-> cq[i].len]
  <2>1. Completed = {h(i) : i \in DOMAIN cq} BY DEF Completed, GlobalOffset, At
  <2>2. Completed' = {f(i) : i \in DOMAIN cq'} BY DEF Completed, GlobalOffset, At
  <2>3. \A i \in DOMAIN cq' : f(i) = h(i + 1) BY <1>2
  <2>4. r = h(1) BY <1>2 DEF GlobalOffset, At
  <2>5. \A i \in DOMAIN cq : i # 1 => h(i) # h(1)
    <3>1. \A i \in DOMAIN cq : h(i).off = GlobalOffset(cq[i].off)
      BY DEF GlobalOffset, At
    <3> HIDE DEF h
    <3>2. QED BY <1>3, <3>1 DEF OneOwner
  <2>6. \A i \in DOMAIN cq : i # 1 => i - 1 \in DOMAIN cq' /\ (i - 1) + 1 = i
    BY <1>2
  <2>7. \A i \in DOMAIN cq' : i + 1 # 1 BY <1>2
  <2> HIDE DEF f, h, r
  <2>8. ASSUME NEW x PROVE x \in Completed' <=> x \in Completed /\ x # r
    <3>1. ASSUME x \in Completed' PROVE x \in Completed /\ x # r
      BY ONLY <1>2, <2>1, <2>2, <2>3, <2>4, <2>5, <2>7, <3>1
    <3>2. ASSUME x \in Completed, x # r PROVE x \in Completed'
      <4>1. PICK i \in DOMAIN cq : x = h(i) BY <2>1, <3>2
      <4>2. i # 1 BY <2>4, <3>2, <4>1
      <4>3. i - 1 \in DOMAIN cq' /\ f(i - 1) = h(i) BY <2>3, <2>6, <4>2
      <4>4. QED BY <2>2, <4>1, <4>3
    <3>3. QED BY <3>1, <3>2
  <2>9. QED BY <2>8
<1> HIDE DEF r
<1>7. held' = held \cup {r} BY DEF r
<1>8. /\ Reserved' = Reserved /\ InFlight' = InFlight
      /\ FreedRegions' = FreedRegions
  BY DEF Reserved, RegionOf, InFlight, FreedRegions
<1>9. Live' = Live BY <1>4, <1>6, <1>7, <1>8 DEF Live
<1>10. HeadsBehind' /\ HeadsPublished'
  BY DEF HeadsBehind, HeadsPublished
<1>11. Tiles(Live, metaHead, metaTail)' BY <1>9 DEF Tiles
<1>12. OneOwner'
  <2>1. Separate(Reserved, InFlight, Completed, held, FreedRegions, holes)'
    BY <1>4, <1>6, <1>7, <1>8 DEF OneOwner, Separate
  <2>2. ASSUME NEW i \in DOMAIN cq', NEW j \in DOMAIN cq', i # j
        PROVE  (GlobalOffset(cq[i].off) # GlobalOffset(cq[j].off))'
    <3>1. /\ i + 1 \in DOMAIN cq /\ cq'[i] = cq[i + 1]
          /\ j + 1 \in DOMAIN cq /\ cq'[j] = cq[j + 1] /\ i + 1 # j + 1
      BY <1>2, <2>2
    <3>2. GlobalOffset(cq[i + 1].off) # GlobalOffset(cq[j + 1].off)
      BY <3>1 DEF OneOwner
    <3>3. QED BY <3>1, <3>2 DEF GlobalOffset
  <2>3. QED BY <2>1, <2>2 DEF OneOwner
<1>13. InRing' BY <1>4, <1>6, <1>7, <1>8 DEF InRing
<1>14. Intact' BY <1>4, <1>6, <1>7 DEF Intact
<1>15. QED BY <1>5, <1>10, <1>11, <1>12, <1>13, <1>14

\* A region freed_regions_ remembers lies between head and tail.
LEMMA FreedWithin ==
  ASSUME IInv, NEW k \in DOMAIN freed
  PROVE  /\ k \in Nat /\ freed[k] \in Nat /\ k < freed[k]
         /\ metaHead <= k /\ freed[k] <= metaTail
         /\ [off |-> k, len |-> freed[k] - k] \in FreedRegions
<1> DEFINE q == [off |-> k, len |-> freed[k] - k]
<1>1. k \in Nat /\ freed[k] \in Nat /\ metaTail \in Nat BY DEF IInv, TypeOK
<1>2. q \in FreedRegions BY DEF FreedRegions
<1>3. q \in Live BY <1>2 DEF Live
<1>4. /\ q.len \in Nat \ {0} /\ metaHead <= q.off /\ q.off + q.len <= metaTail
  BY <1>3, LiveWithin
<1>5. QED BY <1>1, <1>2, <1>4

\* What one execution of Free gives back: the region and what the loop erased
\* make up the bytes from the region's start to the end of the last of them.
LEMMA FreeGivesBack ==
  ASSUME IInv, NEW r \in held, NEW erased \in SUBSET DOMAIN freed, NEW end,
         Leads(r.off + r.len, erased, end)
  PROVE  /\ r.off \in Nat /\ end \in Nat /\ r.off < end /\ end <= metaTail
         /\ r.off \notin DOMAIN freed
         /\ {r} \cup FreedAt(erased) \in SUBSET Live
         /\ Bytes({r} \cup FreedAt(erased)) = r.off .. end - 1
<1> DEFINE start == r.off + r.len
<1>1. r \in Live BY DEF Live
<1>2. /\ r.off \in Nat /\ r.len \in Nat \ {0} /\ metaTail \in Nat
      /\ start \in Nat /\ r.off < start /\ start <= metaTail
  BY <1>1, LiveWithin DEF IInv, TypeOK
<1>3. \A k \in DOMAIN freed : freed[k] \in Nat /\ k < freed[k] /\ freed[k] <= metaTail
  BY FreedWithin
<1>4. DOMAIN freed \subseteq Nat BY DEF IInv, TypeOK
<1>5. /\ end \in Nat /\ start <= end /\ end <= metaTail
      /\ Bytes(FreedAt(erased)) = start .. end - 1
  <2> HIDE DEF start
  <2>1. Leads(start, erased, end) BY DEF start
  <2>2. QED BY <1>2, <1>3, <1>4, <2>1, LoopCovers
<1>6. FreedAt(erased) \subseteq FreedRegions BY DEF FreedAt, FreedRegions
<1>7. r.off \notin DOMAIN freed
  <2>1. SUFFICES ASSUME r.off \in DOMAIN freed PROVE FALSE OBVIOUS
  <2> DEFINE q == [off |-> r.off, len |-> freed[r.off] - r.off]
  <2>2. q \in FreedRegions /\ q.off = r.off BY <2>1, FreedWithin
  <2> HIDE DEF q
  <2>3. q \in Live BY <2>2 DEF Live
  <2>4. q = r BY <1>1, <2>2, <2>3, SameStart DEF IInv
  <2>5. QED BY <2>2, <2>4 DEF IInv, OneOwner, Separate
<1>8. Bytes({r} \cup FreedAt(erased)) = r.off .. end - 1
  <2>1. Bytes({r} \cup FreedAt(erased)) = Places(r) \cup Bytes(FreedAt(erased))
    BY DEF Bytes
  <2>2. Places(r) = r.off .. start - 1 BY <1>2 DEF Places
  <2>3. (r.off .. start - 1) \cup (start .. end - 1) = r.off .. end - 1
    <3> HIDE DEF start
    <3> QED BY <1>2, <1>5
  <2>4. QED BY <1>5, <2>1, <2>2, <2>3
<1>9. {r} \cup FreedAt(erased) \in SUBSET Live BY <1>1, <1>6 DEF Live
<1>10. QED BY <1>2, <1>5, <1>7, <1>8, <1>9

\* freed_regions_ without the keys that were erased.
LEMMA FreedWithout ==
  ASSUME NEW erased \in SUBSET DOMAIN freed
  PROVE  FreedAt(DOMAIN freed \ erased) = FreedRegions \ FreedAt(erased)
<1>1. \A j, k : [off |-> j, len |-> freed[j] - j] = [off |-> k, len |-> freed[k] - k]
                  => j = k
  <2>1. TAKE j, k
  <2> DEFINE x == [off |-> j, len |-> freed[j] - j]
  <2> DEFINE y == [off |-> k, len |-> freed[k] - k]
  <2>2. x.off = j /\ y.off = k OBVIOUS
  <2>3. QED BY <2>2
<1> DEFINE f(k) == [off |-> k, len |-> freed[k] - k]
<1>2. /\ FreedRegions = {f(k) : k \in DOMAIN freed}
      /\ \A K : FreedAt(K) = {f(k) : k \in K}
  BY DEF FreedRegions, FreedAt
<1>3. \A j, k : f(j) = f(k) => j = k BY <1>1
<1> HIDE DEF f
<1>4. QED BY <1>2, <1>3

\* Free: the region, with what follows it without a gap, is given back.
LEMMA FreeInv ==
  ASSUME IInv, NEW r \in held, Free(r)
  PROVE  IInv'
<1> USE DEF Free, IInv, sndVars
<1>1. PICK erased \in SUBSET DOMAIN freed :
        \E end \in {r.off + r.len} \cup {freed[k] : k \in erased} :
          Leads(r.off + r.len, erased, end) /\ Merge(r, end, erased)
  OBVIOUS
<1>2. PICK end : Leads(r.off + r.len, erased, end) /\ Merge(r, end, erased)
  BY <1>1
<1> DEFINE E == FreedAt(erased)
<1> DEFINE X == {r} \cup E
<1> DEFINE new == [off |-> r.off, len |-> end - r.off]
<1> DEFINE S == IF r.off = metaHead THEN {} ELSE {new}
<1>3. /\ r.off \in Nat /\ end \in Nat /\ r.off < end /\ end <= metaTail
      /\ r.off \notin DOMAIN freed /\ X \in SUBSET Live
      /\ Bytes(X) = r.off .. end - 1
  BY <1>2, FreeGivesBack
<1>4. /\ r \in Live /\ metaHead <= r.off /\ metaHead \in Nat /\ metaTail \in Nat
      /\ DOMAIN freed \subseteq Nat
  BY LiveWithin DEF Live, TypeOK
<1>5. /\ metaHead' = IF r.off = metaHead THEN end ELSE metaHead
      /\ metaHead' \in Nat /\ metaHead <= metaHead' /\ metaHead' <= metaTail
  BY <1>2, <1>3, <1>4 DEF Merge, HeadsBehind
<1>6. DOMAIN freed' \subseteq Nat /\ freed' \in [DOMAIN freed' -> Nat]
  <2>1. \A k \in DOMAIN freed : freed[k] \in Nat BY DEF TypeOK
  <2>2. QED BY <1>2, <1>3, <1>4, <2>1 DEF Merge
<1>7. dmHead' \in Nat /\ dmHead' <= metaHead'
  BY <1>5 DEF Publish, HeadsBehind, TypeOK
<1>8. TypeOK' BY <1>5, <1>6, <1>7 DEF TypeOK
<1>9. FreedRegions' = (FreedRegions \ E) \cup S
  <2>1. FreedAt(DOMAIN freed \ erased) = FreedRegions \ E BY FreedWithout
  <2>2. CASE r.off = metaHead
    <3>1. freed' = [k \in DOMAIN freed \ erased |-> freed[k]]
      BY <1>2, <2>2 DEF Merge
    <3>2. FreedRegions' = FreedAt(DOMAIN freed \ erased)
      BY <3>1 DEF FreedRegions, FreedAt
    <3>3. QED BY <2>1, <2>2, <3>2
  <2>3. CASE r.off # metaHead
    <3> DEFINE K == DOMAIN freed \ erased
    <3>1. freed' = [k \in {r.off} \cup K |-> IF k = r.off THEN end ELSE freed[k]]
      BY <1>2, <2>3 DEF Merge
    <3>2. /\ DOMAIN freed' = {r.off} \cup K /\ freed'[r.off] = end
          /\ \A k \in K : freed'[k] = freed[k] /\ k # r.off
      BY <1>3, <3>1
    <3> DEFINE f(k) == [off |-> k, len |-> freed'[k] - k]
    <3> DEFINE h(k) == [off |-> k, len |-> freed[k] - k]
    <3>3. f(r.off) = new /\ \A k \in K : f(k) = h(k) BY <3>2
    <3>4. /\ FreedRegions' = {f(k) : k \in {r.off} \cup K}
          /\ FreedAt(K) = {h(k) : k \in K}
      BY <3>2 DEF FreedRegions, FreedAt
    <3> HIDE DEF f, h, K, new
    <3>5. FreedRegions' = FreedAt(K) \cup {new} BY <3>3, <3>4
    <3>6. QED BY <2>1, <2>3, <3>5 DEF K
  <2>4. QED BY <2>2, <2>3
<1>10. held' = held \ {r} OBVIOUS
<1>11. Reserved' = Reserved /\ InFlight' = InFlight
  BY DEF Reserved, RegionOf, InFlight
<1>12. E \subseteq FreedRegions BY DEF FreedAt, FreedRegions
<1>13. Live \ X = Reserved \cup InFlight \cup Completed \cup (held \ {r})
                     \cup (FreedRegions \ E) \cup holes
  <2> HIDE DEF E
  <2>1. QED BY <1>12 DEF Live, OneOwner, Separate
<1>14. Tiles((Live \ X) \cup S, metaHead', metaTail)
  <2>1. CASE r.off = metaHead
    <3>1. Tiles(Live \ X, end, metaTail)
      <4> HIDE DEF X
      <4>1. QED BY <1>3, <1>4, <2>1, TilesDrop
    <3>2. QED BY <1>5, <2>1, <3>1
  <2>2. CASE r.off # metaHead
    <3>1. Tiles((Live \ X) \cup {new}, metaHead, metaTail)
      <4> HIDE DEF X
      <4>1. QED BY <1>3, <1>4, TilesMerge
    <3>2. QED BY <1>5, <2>2, <3>1
  <2>3. QED BY <2>1, <2>2
<1> HIDE DEF E, X, new, S
<1>15. \A i \in DOMAIN cq : GlobalOffset(cq[i].off)' = GlobalOffset(cq[i].off)
  <2>1. SUFFICES ASSUME NEW i \in DOMAIN cq
        PROVE  GlobalOffset(cq[i].off)' = GlobalOffset(cq[i].off)
    OBVIOUS
  <2> DEFINE g == GlobalOffset(cq[i].off)
  <2> DEFINE c == [off |-> g, len |-> cq[i].len]
  <2>2. /\ g \in Nat /\ g % Size = cq[i].off /\ c \in Completed
        /\ cq[i].len \in 1 .. Size - 1 /\ g + cq[i].len < metaHead + Size
    BY CompletedRegion
  <2>3. c.off = g OBVIOUS
  <2> HIDE DEF g, c
  <2>4. metaHead' <= g
    <3>1. c \in (Live \ X) \cup S BY <1>13, <2>2
    <3>2. QED BY <1>4, <1>5, <1>14, <2>3, <3>1, WithinTiles
  <2>5. g < metaHead' + Size
    <3>1. /\ cq[i].len \in Nat /\ Size \in Nat
      BY <2>2, WriteAtomicAssumption
    <3>2. QED BY ONLY <1>4, <1>5, <2>2, <3>1
  <2>6. At(metaHead', g % Size) = g BY <1>5, <2>2, <2>4, <2>5, GlobalOfOffset
  <2>7. GlobalOffset(cq[i].off)' = At(metaHead', cq[i].off)
    BY DEF At, GlobalOffset
  <2>8. QED BY <2>2, <2>6, <2>7 DEF g
<1>16. Completed' = Completed
  <2> DEFINE f(i) == [off |-> GlobalOffset(cq[i].off)', len |-> cq[i].len]
  <2> DEFINE h(i) == [off |-> GlobalOffset(cq[i].off), len |-> cq[i].len]
  <2>1. \A i \in DOMAIN cq : f(i) = h(i) BY <1>15
  <2>2. Completed = {h(i) : i \in DOMAIN cq} BY DEF Completed
  <2>3. Completed' = {f(i) : i \in DOMAIN cq} BY DEF Completed, GlobalOffset
  <2> HIDE DEF f, h
  <2>4. QED BY <2>1, <2>2, <2>3
<1>17. Live' = (Live \ X) \cup S
  BY <1>9, <1>10, <1>11, <1>13, <1>16 DEF Live
<1>18. HeadsBehind' /\ HeadsPublished'
  BY <1>4, <1>5, <1>7 DEF HeadsBehind, TypeOK, HeadsPublished, Publish
<1>19. Tiles(Live, metaHead, metaTail)' BY <1>14, <1>17 DEF Tiles
<1>20. OneOwner'
  <2>1. \A y \in Live : y # r => y # new
    <3>1. ASSUME NEW y \in Live, y = new PROVE y = r
      <4>1. y.off = r.off BY <3>1 DEF new
      <4>2. QED BY <1>4, <4>1, SameStart
    <3>2. QED BY <3>1
  <2>2. Separate(Reserved, InFlight, Completed, held \ {r},
                 (FreedRegions \ E) \cup S, holes)
    <3>1. \A x \in S : x = new BY DEF S
    <3>2. QED BY <2>1, <3>1 DEF OneOwner, Separate, Live
  <2>3. Separate(Reserved, InFlight, Completed, held, FreedRegions, holes)'
    BY <1>9, <1>10, <1>11, <1>16, <2>2 DEF Separate
  <2>4. QED BY <1>15, <2>3 DEF OneOwner
<1>21. InRing'
  <2>1. SUFFICES ASSUME NEW q \in InFlight \cup Completed \cup held
        PROVE  q.off + q.len < metaHead' + Size
    BY <1>10, <1>11, <1>16 DEF InRing
  <2>2. q.off + q.len < metaHead + Size BY <2>1 DEF InRing
  <2>3. q.off \in Nat /\ q.len \in Nat
    BY <2>1, LiveWithin DEF Live
  <2>4. QED BY ONLY <1>4, <1>5, <2>2, <2>3, WriteAtomicAssumption
<1>22. Intact' BY <1>10, <1>16 DEF Intact
<1>23. QED BY <1>4, <1>5, <1>8, <1>18, <1>19, <1>20, <1>21, <1>22

\* Steps that change nothing.
LEMMA StutterInv ==
  ASSUME IInv, UNCHANGED vars
  PROVE  IInv'
<1> USE DEF IInv, vars, sndVars, rcvVars
<1>1. TypeOK' BY DEF TypeOK
<1>2. /\ Reserved' = Reserved /\ InFlight' = InFlight
      /\ Completed' = Completed /\ FreedRegions' = FreedRegions
  BY DEF Reserved, RegionOf, InFlight, Completed, GlobalOffset, FreedRegions
<1>3. Live' = Live BY <1>2 DEF Live
<1>4. HeadsBehind' /\ HeadsPublished'
  BY DEF HeadsBehind, HeadsPublished
<1>5. Tiles(Live, metaHead, metaTail)' BY <1>3 DEF Tiles
<1>6. OneOwner' BY <1>2 DEF OneOwner, Separate, GlobalOffset
<1>7. InRing' BY <1>2 DEF InRing
<1>8. Intact' BY <1>2 DEF Intact
<1>9. QED BY <1>1, <1>4, <1>5, <1>6, <1>7, <1>8

\* Every step preserves the invariant.
LEMMA StepInv ==
  ASSUME IInv, [Next]_vars
  PROVE  IInv'
<1>1. ASSUME NEW s \in Senders, SendStart(s) PROVE IInv'
  BY <1>1, SendStartInv
<1>2. ASSUME NEW s \in Senders, FetchAndAdd(s) PROVE IInv'
  BY <1>2, FetchAndAddInv
<1>3. ASSUME NEW s \in Senders, ReadHead(s) PROVE IInv'
  BY <1>3, ReadHeadInv
<1>4. ASSUME NEW s \in Senders, PostWrite(s) PROVE IInv'
  BY <1>4, PostWriteInv
<1>5. ASSUME NEW s \in Senders, SendFail(s) PROVE IInv'
  BY <1>5, SendFailInv
<1>6. ASSUME NEW s \in Senders, Land(s) PROVE IInv'
  BY <1>6, LandInv
<1>7. ASSUME NEW s \in Senders, Break(s) PROVE IInv'
  BY <1>7, BreakInv
<1>8. CASE Receive BY <1>8, ReceiveInv
<1>9. ASSUME NEW r \in held, Free(r) PROVE IInv'
  BY <1>9, FreeInv
<1>10. CASE UNCHANGED vars BY <1>10, StutterInv
<1>11. QED
  BY <1>1, <1>2, <1>3, <1>4, <1>5, <1>6, <1>7, <1>8, <1>9, <1>10
  DEF Next, Sender, FreeAny

-----------------------------------------------------------------------------
\* The regions reserved and not yet given back divide the bytes between head
\* and tail, each of them is in one place of its life, and what was written is
\* there until Free.
THEOREM Invariance == Spec => []IInv
<1>1. Init => IInv BY InitInv
<1>2. IInv /\ [Next]_vars => IInv' BY StepInv
<1>3. QED BY <1>1, <1>2, PTL DEF Spec

\* Every completion that waits is that of a region of its own.
LEMMA OneCompletionEach ==
  ASSUME IInv
  PROVE  Cardinality(Completed) = Len(cq)
<1> DEFINE f == [i \in 1 .. Len(cq) |->
                   [off |-> GlobalOffset(cq[i].off), len |-> cq[i].len]]
<1>1. Len(cq) \in Nat /\ DOMAIN cq = 1 .. Len(cq)
  <2>1. cq \in Seq([off : Offsets, len : 1 .. Size - 1]) BY DEF IInv, TypeOK
  <2>2. QED BY <2>1, LenProperties
<1>2. \A i, j \in 1 .. Len(cq) : f[i] = f[j] => i = j
  <2>1. \A i \in 1 .. Len(cq) : f[i].off = GlobalOffset(cq[i].off) OBVIOUS
  <2> HIDE DEF f
  <2>2. QED BY <1>1, <2>1 DEF IInv, OneOwner
<1>3. f \in Bijection(1 .. Len(cq), Completed)
  <2>1. \A i \in 1 .. Len(cq) : f[i] \in Completed BY <1>1 DEF Completed
  <2>2. f \in [1 .. Len(cq) -> Completed] BY <2>1
  <2>3. \A x \in Completed : \E i \in 1 .. Len(cq) : f[i] = x
    BY <1>1 DEF Completed
  <2> HIDE DEF f
  <2>4. QED BY <1>2, <2>2, <2>3 DEF Bijection, Injection, IsInjective, Surjection
<1>4. ExistsBijection(1 .. Len(cq), Completed) BY <1>3 DEF ExistsBijection
<1>5. IsFiniteSet(1 .. Len(cq)) /\ Cardinality(1 .. Len(cq)) = Len(cq)
  <2> DEFINE n == Len(cq)
  <2>1. n \in Nat BY <1>1
  <2> HIDE DEF n
  <2>2. /\ IsFiniteSet(1 .. n)
        /\ Cardinality(1 .. n) = IF 1 > n THEN 0 ELSE n - 1 + 1
    BY <2>1, FS_Interval
  <2>3. Cardinality(1 .. n) = n BY <2>1, <2>2
  <2>4. QED BY <2>2, <2>3 DEF n
<1>6. QED BY <1>4, <1>5, FS_Bijection

\* The ring the senders share is divided among them without gap or overlap,
\* a region the application holds is left alone, and a call whose message would
\* need a head that the threshold holds back has no room (SendAsync, Receive,
\* Free).
THEOREM RingDivided == Spec => []AtomicInv
<1>1. IInv => AtomicInv
  <2>1. SUFFICES ASSUME IInv PROVE AtomicInv OBVIOUS
  <2>2. TypeOK BY <2>1 DEF IInv
  <2>3. HeldIntact BY <2>1 DEF IInv, Intact, HeldIntact
  <2>4. Accounted
    BY <2>1, OneCompletionEach DEF IInv, Tiles, Accounted
  <2>5. WithheldHasNoRoom
    <3>1. SUFFICES ASSUME NEW s \in Senders, Withheld(s) PROVE ~HasRoom(s)
      BY DEF WithheldHasNoRoom
    <3>2. RegionOf(s) \in Live BY <3>1 DEF Withheld, Reserved, Live
    <3>3. metaHead <= tail[s] BY <2>1, <3>2, LiveWithin DEF RegionOf
    <3>4. head[s] \in Nat /\ metaHead \in Nat /\ head[s] <= tail[s]
      BY <2>1, <3>1, <3>3 DEF IInv, HeadsBehind, TypeOK
    <3>5. head[s] = 0
      BY <2>1, <3>1, <3>4, WriteAtomicAssumption
      DEF IInv, HeadsPublished, Withheld, TypeOK
    <3>6. QED
      BY <2>1, <3>1, <3>5, WriteAtomicAssumption
      DEF IInv, Withheld, HasRoom, TypeOK
  <2>6. QED BY <2>2, <2>3, <2>4, <2>5 DEF AtomicInv
<1>2. QED BY <1>1, Invariance, PTL
=============================================================================
