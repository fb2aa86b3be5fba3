------------------------- MODULE BufferedReadProofs -------------------------
(***************************************************************************)
(* Neither ring of BufferedRead is written where a message still has to be  *)
(* read, and the connection is a FIFO channel: proofs for every length of   *)
(* the ring and of the header, every set of messages the code has room for, *)
(* a copy at any address behind the places, and runs of any length.         *)
(***************************************************************************)
EXTENDS BufferedRead, SequenceTheorems, TLAPS

-----------------------------------------------------------------------------
(* The inductive invariant *)

\* How much of the ring can be in use
Used == CHOOSE used \in SUBSET (0 .. Length) : Fills(used)

\* The sender's ring is filled up to here
Top == IF spc = "publish" THEN tail + len + Header ELSE tail

\* Where messages begin, and the next one will
Bounds == DOMAIN msg \cup {tail}
EndOf(p) == p + msg[p] + Header

\* The two ends follow each other less than a ring apart, and what was read into
\* the copy is between what is returned and what the tail said.
PlacesOrdered ==
  /\ known <= freed /\ freed <= read_ptr /\ read_ptr <= fetched
  /\ fetched <= remote_tail /\ remote_tail <= tail /\ tail - known < Length
  /\ IF rpc = "fetch" THEN fetched < remote_tail ELSE fetched = remote_tail
  /\ rpc = "fetched" => read_ptr < remote_tail

\* A message about to be copied has room, with its header and a cell to spare.
RoomFound ==
  /\ spc # "idle" => len \in Lens
  /\ spc \in {"copy", "publish"} => tail + len + Header - known < Length

\* Messages follow each other without gap, the ends stand where one begins, and
\* what is between two of them is one of the ways to fill the ring.
MessagesTile ==
  /\ \A p \in DOMAIN msg : p \in Nat /\ p <= tail
  /\ IF spc = "publish" THEN tail \in DOMAIN msg /\ msg[tail] = len
                        ELSE tail \notin DOMAIN msg
  /\ \A p \in DOMAIN msg : p < tail => EndOf(p) \in Bounds
  /\ \A p, q \in DOMAIN msg : p < q => EndOf(p) <= q
  /\ {known, freed, read_ptr, remote_tail} \subseteq Bounds
  /\ \A p \in Bounds : tail - p <= Length => tail - p \in Used

\* What was not freed is in its cell, at the sender and as far as it was read in
\* the copy.
RingsHold ==
  /\ \A p \in freed .. Top - 1 : mem[At(p)] = p
  /\ \A p \in freed .. fetched - 1 : copy[At(p)] = p

\* Messages are held in the order they were received; the first is where the
\* ring is not yet freed.
HeldInOrder ==
  /\ \A i \in DOMAIN outstanding :
       LET h == outstanding[i] IN
       /\ h.addr = base + At(h.place) /\ h.place \in DOMAIN msg
       /\ freed <= h.place /\ EndOf(h.place) <= read_ptr
  /\ \A i, j \in DOMAIN outstanding :
       i < j => outstanding[i].place < outstanding[j].place
  /\ freed = IF outstanding = <<>> THEN read_ptr ELSE outstanding[1].place
  /\ base % Length # 0 =>
       Len(outstanding) <= IF rpc \in {"fetch", "fetched"} THEN 0 ELSE 1

\* A head, be it an address, means the same cell as its place.
HeadsMatch == At(remote_head) = At(freed) /\ At(head) = At(known)

IInv ==
  /\ TypeOK /\ PlacesOrdered /\ RoomFound /\ MessagesTile
  /\ RingsHold /\ HeldInOrder /\ HeadsMatch

-----------------------------------------------------------------------------
(* Cells *)

\* A multiple of the length that is less than one length away from 0 is 0.
LEMMA SmallMultiple ==
  ASSUME NEW q \in Int, Length * q < Length, -Length < Length * q
  PROVE  q = 0
<1>1. Length \in Nat \ {0} BY BufferedReadAssumption
<1>2. CASE q >= 1
  <2>1. Length * q >= Length * 1 BY ONLY <1>1, <1>2, q \in Int
  <2>2. QED BY <1>1, <2>1
<1>3. CASE q <= -1
  <2>1. Length * q <= Length * (-1) BY ONLY <1>1, <1>3, q \in Int
  <2>2. QED BY <1>1, <2>1
<1>4. QED BY <1>2, <1>3

\* A place, its turn around the ring and its cell.
LEMMA Division ==
  ASSUME NEW p \in Int
  PROVE  \E a \in Int : At(p) \in 0 .. Length - 1 /\ p = Length * a + At(p)
<1>1. Length \in Nat \ {0} BY BufferedReadAssumption
<1>2. /\ p % Length \in 0 .. Length - 1 /\ p \div Length \in Int
      /\ p = Length * (p \div Length) + (p % Length)
  BY <1>1
<1>3. QED BY <1>2 DEF At

\* The cell of a place is unique.
LEMMA CellIs ==
  ASSUME NEW a \in Int, NEW s \in 0 .. Length - 1
  PROVE  At(Length * a + s) = s
<1>1. Length \in Nat \ {0} BY BufferedReadAssumption
<1>2. PICK p \in Int : p = Length * a + s BY <1>1
<1>3. PICK b \in Int : At(p) \in 0 .. Length - 1 /\ p = Length * b + At(p)
  BY Division
<1>4. PICK d \in Int : d = b - a OBVIOUS
<1>5. Length * d = Length * b - Length * a BY <1>1, <1>4
<1>6. Length * a \in Int /\ Length * b \in Int /\ At(p) \in Int /\ s \in Int
  BY <1>1, <1>3
<1>7. Length * d = s - At(p) BY ONLY <1>2, <1>3, <1>5, <1>6
<1>8. Length * d < Length /\ -Length < Length * d
  BY ONLY <1>1, <1>3, <1>6, <1>7, s \in 0 .. Length - 1
<1>9. d = 0 BY <1>8, SmallMultiple
<1>10. Length * d = 0 BY <1>1, <1>9
<1>11. At(p) = s BY ONLY <1>6, <1>7, <1>10
<1>12. QED BY <1>2, <1>11

\* Two places less than a ring apart have different cells.
LEMMA SameCell ==
  ASSUME NEW p \in Int, NEW q \in Int, p - q < Length, q - p < Length,
         At(p) = At(q)
  PROVE  p = q
<1>1. Length \in Nat \ {0} BY BufferedReadAssumption
<1>2. PICK a \in Int : At(p) \in 0 .. Length - 1 /\ p = Length * a + At(p)
  BY Division
<1>3. PICK b \in Int : At(q) \in 0 .. Length - 1 /\ q = Length * b + At(q)
  BY Division
<1>4. PICK d \in Int : d = a - b OBVIOUS
<1>5. Length * d = Length * a - Length * b BY <1>1, <1>4
<1>6. Length * a \in Int /\ Length * b \in Int /\ At(p) \in Int
  BY <1>1, <1>2
<1>7. Length * d = p - q BY ONLY <1>2, <1>3, <1>5, <1>6, At(p) = At(q)
<1>8. Length * d < Length /\ -Length < Length * d
  BY ONLY <1>1, <1>7, p - q < Length, q - p < Length, p \in Int, q \in Int
<1>9. d = 0 BY <1>8, SmallMultiple
<1>10. Length * d = 0 BY <1>1, <1>9
<1>11. QED BY ONLY <1>7, <1>10, p \in Int, q \in Int

\* The address of a place is as good as the place, if the copy lies at a multiple
\* of the length.
LEMMA AddressCell ==
  ASSUME NEW b \in Int, b % Length = 0, NEW p \in Int
  PROVE  At(b + At(p)) = At(p)
<1>1. Length \in Nat \ {0} BY BufferedReadAssumption
<1>2. At(p) \in 0 .. Length - 1 BY Division
<1>3. PICK a \in Int : b = Length * a
  <2>1. PICK a \in Int : b = Length * a + At(b) BY Division
  <2>2. Length * a \in Int BY <1>1
  <2>3. QED BY <2>1, <2>2 DEF At
<1>4. QED BY <1>2, <1>3, CellIs

\* What the sender computes from head and tail is how much of the ring is used.
LEMMA UsedCells ==
  ASSUME NEW h \in Nat, NEW t \in Nat, h <= t, t - h < Length
  PROVE  /\ At(h) \in 0 .. Length - 1 /\ At(t) \in 0 .. Length - 1
         /\ At(h) = At(t) => t - h = 0
         /\ At(h) < At(t) => At(t) - At(h) = t - h
         /\ At(h) > At(t) => At(h) - At(t) = Length - (t - h)
<1>1. Length \in Nat \ {0} BY BufferedReadAssumption
<1>2. PICK a \in Int : At(h) \in 0 .. Length - 1 /\ h = Length * a + At(h)
  BY Division
<1>3. PICK b \in Int : At(t) \in 0 .. Length - 1 /\ t = Length * b + At(t)
  BY Division
<1>4. PICK d \in Int : d = b - a OBVIOUS
<1>5. PICK e \in Int : e = d - 1 OBVIOUS
<1>6. /\ Length * d = Length * b - Length * a
      /\ Length * e = Length * d - Length
  BY <1>1, <1>4, <1>5
<1>7. /\ Length * a \in Int /\ Length * b \in Int /\ Length * d \in Int
      /\ At(h) \in Int /\ At(t) \in Int
  BY <1>1, <1>2, <1>3
<1>8. Length * d = t - h + At(h) - At(t) BY ONLY <1>2, <1>3, <1>6, <1>7
<1>9. CASE At(h) <= At(t)
  <2>1. -Length < Length * d /\ Length * d < Length
    BY ONLY <1>1, <1>2, <1>3, <1>7, <1>8, <1>9, h \in Nat, t \in Nat, h <= t,
            t - h < Length
  <2>2. d = 0 BY <2>1, SmallMultiple
  <2>3. Length * d = 0 BY <1>1, <2>2
  <2>4. QED BY ONLY <1>2, <1>3, <1>7, <1>8, <1>9, <2>3, h \in Nat, t \in Nat
<1>10. CASE At(h) > At(t)
  <2>1. -Length < Length * e /\ Length * e < Length
    BY ONLY <1>1, <1>2, <1>3, <1>6, <1>7, <1>8, <1>10, h \in Nat, t \in Nat,
            h <= t, t - h < Length
  <2>2. e = 0 BY <2>1, SmallMultiple
  <2>3. Length * e = 0 BY <1>1, <2>2
  <2>4. QED
    BY ONLY <1>1, <1>2, <1>3, <1>6, <1>7, <1>8, <1>10, <2>3, h \in Nat, t \in Nat
<1>11. QED BY <1>2, <1>3, <1>7, <1>9, <1>10

\* How far behind the tail a cell is, as Copy computes it.
LEMMA DistanceIs ==
  ASSUME tail \in Nat
  PROVE  /\ \A c \in 0 .. Length - 1 :
              Distance(c) \in 0 .. Length - 1 /\ At(tail + Distance(c)) = c
         /\ \A k \in 0 .. Length - 1 : Distance(At(tail + k)) = k
<1>1. Length \in Nat \ {0} BY BufferedReadAssumption
<1>2. PICK a \in Int : At(tail) \in 0 .. Length - 1 /\ tail = Length * a + At(tail)
  BY Division
<1>3. Length * a \in Int /\ At(tail) \in Int BY <1>1, <1>2
<1>4. ASSUME NEW c \in 0 .. Length - 1
      PROVE  Distance(c) \in 0 .. Length - 1 /\ At(tail + Distance(c)) = c
  <2>1. PICK x \in Int : x = c - At(tail) + Length BY <1>1, <1>3
  <2>2. Distance(c) = At(x) BY <2>1 DEF Distance, At
  <2>3. PICK q \in Int : At(x) \in 0 .. Length - 1 /\ x = Length * q + At(x)
    BY Division
  <2>4. PICK e \in Int : e = a + 1 - q OBVIOUS
  <2>5. Length * e = Length * a + Length - Length * q BY <1>1, <2>4
  <2>6. Length * q \in Int /\ At(x) \in Int BY <1>1, <2>3
  <2>7. tail + At(x) = Length * e + c
    BY ONLY <1>1, <1>2, <1>3, <2>1, <2>3, <2>5, <2>6, c \in 0 .. Length - 1
  <2>8. QED BY <2>2, <2>3, <2>7, CellIs
<1>5. ASSUME NEW k \in 0 .. Length - 1 PROVE Distance(At(tail + k)) = k
  <2>1. PICK y \in Int : y = tail + k OBVIOUS
  <2>2. PICK b \in Int : At(y) \in 0 .. Length - 1 /\ y = Length * b + At(y)
    BY Division
  <2>3. PICK e \in Int : e = a + 1 - b OBVIOUS
  <2>4. Length * e = Length * a + Length - Length * b BY <1>1, <2>3
  <2>5. Length * b \in Int /\ At(y) \in Int BY <1>1, <2>2
  <2>6. At(y) - At(tail) + Length = Length * e + k
    BY ONLY <1>1, <1>2, <1>3, <2>1, <2>2, <2>4, <2>5, k \in 0 .. Length - 1
  <2>7. At(Length * e + k) = k BY CellIs
  <2>8. QED BY <2>1, <2>6, <2>7 DEF Distance, At
<1>6. QED BY <1>4, <1>5

-----------------------------------------------------------------------------
(* What the invariant says, in the form the steps need it *)

\* The constants.
LEMMA ConstantFacts ==
  /\ Length \in Nat \ {0} /\ Header \in Nat \ {0} /\ MaxHeld \in Nat \ {0}
  /\ Lens \subseteq Nat /\ Bases \subseteq Nat
  /\ Used \subseteq 0 .. Length /\ Fills(Used)
<1>1. Used \in SUBSET (0 .. Length) /\ Fills(Used)
  BY BufferedReadAssumption DEF RoomForHeader, Used
<1>2. QED BY <1>1, BufferedReadAssumption

\* The places, in order.
LEMMA PlaceFacts ==
  ASSUME TypeOK, PlacesOrdered
  PROVE  /\ known \in Nat /\ freed \in Nat /\ read_ptr \in Nat /\ fetched \in Nat
         /\ remote_tail \in Nat /\ tail \in Nat /\ head \in Nat
         /\ remote_head \in Nat /\ acked_head \in Nat /\ base \in Nat
         /\ known <= freed /\ freed <= read_ptr /\ read_ptr <= fetched
         /\ fetched <= remote_tail /\ remote_tail <= tail
         /\ tail - known < Length
         /\ outstanding \in Seq([addr : Nat, place : Nat])
         /\ mem \in [0 .. Length - 1 -> Nat \cup {-1}]
         /\ copy \in [0 .. Length - 1 -> Nat \cup {-1}]
         /\ DOMAIN mem = 0 .. Length - 1 /\ DOMAIN copy = 0 .. Length - 1
BY ConstantFacts DEF TypeOK, PlacesOrdered, Places

\* A message in the ring: it ends where the next begins, or at the tail.
LEMMA MessageFacts ==
  ASSUME TypeOK, PlacesOrdered, MessagesTile, NEW p \in DOMAIN msg
  PROVE  /\ p \in Nat /\ p <= tail /\ msg[p] \in Lens /\ msg[p] \in Nat
         /\ EndOf(p) \in Nat /\ p < EndOf(p)
         /\ p < tail => EndOf(p) <= tail
<1>1. /\ p \in Nat /\ p <= tail /\ msg[p] \in Lens /\ msg[p] \in Nat
      /\ tail \in Nat
  BY ConstantFacts, PlaceFacts DEF TypeOK, MessagesTile
<1>2. EndOf(p) \in Nat /\ p < EndOf(p) BY <1>1, ConstantFacts DEF EndOf
<1>3. p < tail => EndOf(p) <= tail
  BY <1>1 DEF MessagesTile, Bounds
<1>4. QED BY <1>1, <1>2, <1>3

-----------------------------------------------------------------------------
(* The sender *)

\* Initially both rings are empty.
LEMMA InitInv == Init => IInv
<1> SUFFICES ASSUME Init PROVE IInv OBVIOUS
<1> USE DEF Init
<1>1. DOMAIN msg = {} /\ Top = 0 BY DEF Top
<1>2. 0 \in Used BY ConstantFacts DEF Fills
<1>3. TypeOK
  <2>1. mem \in [0 .. Length - 1 -> Nat \cup {-1}] OBVIOUS
  <2>2. QED BY <1>1, <2>1 DEF TypeOK, Places
<1>4. PlacesOrdered BY ConstantFacts DEF PlacesOrdered
<1>5. RoomFound BY DEF RoomFound
<1>6. MessagesTile BY <1>1, <1>2 DEF MessagesTile, Bounds
<1>7. RingsHold BY <1>1 DEF RingsHold
<1>8. HeldInOrder BY DEF HeldInOrder
<1>9. HeadsMatch BY DEF HeadsMatch
<1>10. QED BY <1>3, <1>4, <1>5, <1>6, <1>7, <1>8, <1>9 DEF IInv

\* Steps that move neither the rings nor what the receiver knows of them.
LEMMA ControlStep ==
  ASSUME IInv, UNCHANGED <<mem, tail, msg, head, known, rcvVars>>,
         spc # "publish", spc' \in {"idle", "spin", "copy"},
         len' \in {0} \cup Lens, RoomFound'
  PROVE  IInv'
<1> USE DEF IInv, rcvVars
<1>1. TypeOK' BY DEF TypeOK
<1>2. PlacesOrdered' BY DEF PlacesOrdered
<1>3. MessagesTile' BY DEF MessagesTile, Bounds, EndOf
<1>4. RingsHold'
  <2>1. Top' = Top BY DEF Top
  <2>2. QED BY <2>1 DEF RingsHold
<1>5. HeldInOrder' BY DEF HeldInOrder, EndOf
<1>6. HeadsMatch' BY DEF HeadsMatch
<1>7. QED BY <1>1, <1>2, <1>3, <1>4, <1>5, <1>6

\* When Send leaves its loop there is room for the message and its header, though
\* it asked only for the message (BufferedReadConnection::Send).
LEMMA RoomIsFound ==
  ASSUME IInv, spc = "spin", ~TooLong, ~NoRoom
  PROVE  tail + len + Header - known < Length
<1> USE DEF IInv
<1>1. PICK n \in Nat : n = tail - known BY PlaceFacts
<1>2. n \in Used
  <2>1. known \in Bounds /\ tail - known <= Length
    BY PlaceFacts, ConstantFacts DEF MessagesTile
  <2>2. QED BY <1>1, <2>1 DEF MessagesTile
<1>3. len \in Lens /\ len \in Nat BY ConstantFacts DEF RoomFound
<1>4. \/ IF n = 0 THEN len > Length ELSE len >= Length - n
      \/ n + len + Header < Length
  BY <1>2, <1>3, ConstantFacts DEF Fills
<1>5. /\ At(known) \in 0 .. Length - 1 /\ At(tail) \in 0 .. Length - 1
      /\ At(known) = At(tail) => n = 0
      /\ At(known) < At(tail) => At(tail) - At(known) = n
      /\ At(known) > At(tail) => At(known) - At(tail) = Length - n
  <2>1. known \in Nat /\ tail \in Nat /\ known <= tail /\ tail - known < Length
    <3>1. /\ known \in Nat /\ freed \in Nat /\ read_ptr \in Nat /\ fetched \in Nat
          /\ remote_tail \in Nat /\ tail \in Nat /\ tail - known < Length
          /\ known <= freed /\ freed <= read_ptr /\ read_ptr <= fetched
          /\ fetched <= remote_tail /\ remote_tail <= tail
      BY PlaceFacts
    <3>2. QED BY ONLY <3>1
  <2>2. QED BY ONLY <1>1, <2>1, UsedCells
<1>6. At(head) = At(known) BY DEF HeadsMatch
<1>7. n + len + Header < Length
  <2>1. CASE n = 0
    <3>1. At(known) = At(tail) BY <1>5, <2>1, ConstantFacts
    <3>2. QED BY <1>4, <1>6, <2>1, <3>1 DEF TooLong
  <2>2. CASE n # 0
    <3>1. ~(len >= Length - n)
      BY <1>3, <1>5, <1>6, <2>2, ConstantFacts DEF NoRoom
    <3>2. QED BY <1>4, <2>2, <3>1
  <2>3. QED BY <2>1, <2>2
<1>8. known \in Nat /\ tail \in Nat /\ Header \in Nat /\ Length \in Nat
  BY PlaceFacts, ConstantFacts
<1>9. QED BY ONLY <1>1, <1>3, <1>7, <1>8

\* Send is called.
LEMMA SendInv == ASSUME IInv, NEW l \in Lens, Send(l) PROVE IInv'
<1>1. RoomFound' BY DEF Send, RoomFound
<1>2. QED BY <1>1, ControlStep DEF Send

\* A message that is too long is refused.
LEMMA SendFailsInv == ASSUME IInv, SendFails PROVE IInv'
<1>1. RoomFound' BY DEF SendFails, RoomFound
<1>2. len \in {0} \cup Lens BY DEF IInv, TypeOK
<1>3. QED BY <1>1, <1>2, ControlStep DEF SendFails

\* The loop of Send ends.
LEMMA FindRoomInv == ASSUME IInv, FindRoom PROVE IInv'
<1>1. RoomFound' BY RoomIsFound DEF FindRoom, RoomFound, IInv
<1>2. len \in {0} \cup Lens BY DEF IInv, TypeOK
<1>3. QED BY <1>1, <1>2, ControlStep DEF FindRoom

\* A message is copied to where nothing lies that was not freed.
LEMMA CopyInv == ASSUME IInv, Copy PROVE IInv'
<1> USE DEF IInv
<1> DEFINE n == len + Header
<1>1. /\ spc = "copy" /\ spc' = "publish"
      /\ mem' = [c \in DOMAIN mem |->
                   IF Distance(c) < len + Header THEN tail + Distance(c) ELSE mem[c]]
      /\ msg' = [p \in DOMAIN msg \cup {tail} |-> IF p = tail THEN len ELSE msg[p]]
      /\ UNCHANGED <<len, tail, head, known, rcvVars>>
  BY DEF Copy
<1>2. /\ len \in Lens /\ len \in Nat /\ n \in Nat /\ n > 0 /\ n = len + Header
      /\ tail + n - known < Length /\ n < Length
  <2>1. len \in Lens /\ len \in Nat /\ tail + len + Header - known < Length
    BY <1>1, ConstantFacts DEF RoomFound
  <2>2. Header \in Nat \ {0} /\ tail \in Nat /\ known \in Nat /\ known <= tail
        /\ Length \in Nat
    BY PlaceFacts, ConstantFacts
  <2>3. QED BY ONLY <2>1, <2>2
<1> HIDE DEF n
<1>3. /\ tail \notin DOMAIN msg /\ DOMAIN msg' = DOMAIN msg \cup {tail}
      /\ msg'[tail] = len /\ \A p \in DOMAIN msg : msg'[p] = msg[p]
      /\ msg' = [p \in DOMAIN msg' |-> msg'[p]]
  BY <1>1 DEF MessagesTile
<1>4. TypeOK'
  <2>1. \A c \in 0 .. Length - 1 : Distance(c) \in 0 .. Length - 1
    BY PlaceFacts, DistanceIs
  <2>2. mem' \in [0 .. Length - 1 -> Nat \cup {-1}]
    <3>1. ASSUME NEW c \in 0 .. Length - 1 PROVE tail + Distance(c) \in Nat
      <4>1. Distance(c) \in 0 .. Length - 1 /\ tail \in Nat BY <2>1, PlaceFacts
      <4>2. QED BY ONLY <4>1
    <3>2. QED BY <1>1, <3>1, PlaceFacts
  <2>3. \A p \in DOMAIN msg' : msg'[p] \in Lens
    BY <1>2, <1>3 DEF TypeOK
  <2>4. msg' \in [DOMAIN msg' -> Lens] BY <1>3, <2>3
  <2>5. QED BY <1>1, <2>2, <2>4 DEF TypeOK, rcvVars, Places
<1>5. PlacesOrdered' BY <1>1 DEF PlacesOrdered, rcvVars
<1>6. RoomFound' BY <1>1 DEF RoomFound
<1>7. \A p \in DOMAIN msg : EndOf(p)' = EndOf(p) BY <1>3 DEF EndOf
<1>8. MessagesTile'
  <2>1. Bounds' = Bounds BY <1>1, <1>3 DEF Bounds
  <2>2. \A p \in DOMAIN msg' : p \in Nat /\ p <= tail
    BY <1>3, MessageFacts, PlaceFacts
  <2>3. \A p \in DOMAIN msg' : p < tail => p \in DOMAIN msg
    BY <1>3, <2>2
  <2>4. \A p \in DOMAIN msg : p < tail /\ EndOf(p) <= tail
    BY <1>3, MessageFacts, PlaceFacts
  <2>5. \A p, q \in DOMAIN msg' : p < q => EndOf(p)' <= q
    <3>1. SUFFICES ASSUME NEW p \in DOMAIN msg', NEW q \in DOMAIN msg', p < q
                   PROVE  EndOf(p)' <= q
      OBVIOUS
    <3>2. p < tail
      <4>1. p \in Nat /\ q \in Nat /\ q <= tail /\ tail \in Nat BY <2>2, PlaceFacts
      <4>2. QED BY ONLY <3>1, <4>1
    <3>3. p \in DOMAIN msg BY <2>3, <3>2
    <3>4. CASE q = tail BY <1>7, <2>4, <3>3, <3>4
    <3>5. CASE q \in DOMAIN msg BY <1>7, <3>1, <3>3, <3>5 DEF MessagesTile
    <3>6. QED BY <1>3, <3>4, <3>5
  <2>6. \A p \in DOMAIN msg' : p < tail => EndOf(p)' \in Bounds'
    BY <1>7, <2>1, <2>3 DEF MessagesTile
  <2>7. QED BY <1>1, <1>3, <2>1, <2>2, <2>5, <2>6 DEF MessagesTile, rcvVars
<1>9. RingsHold'
  <2>1. \A k \in 0 .. n - 1 : mem'[At(tail + k)] = tail + k
    <3>1. TAKE k \in 0 .. n - 1
    <3>2. k \in 0 .. Length - 1 BY <1>2, ConstantFacts
    <3>3. Distance(At(tail + k)) = k BY <3>2, PlaceFacts, DistanceIs
    <3>4. At(tail + k) \in DOMAIN mem
      <4>1. tail + k \in Int BY <3>2, PlaceFacts
      <4>2. At(tail + k) \in 0 .. Length - 1 BY <4>1, Division
      <4>3. QED BY <4>2, PlaceFacts
    <3>5. QED BY <1>1, <1>2, <3>3, <3>4
  <2>2. \A p \in freed .. tail - 1 : mem'[At(p)] = p
    <3>1. TAKE p \in freed .. tail - 1
    <3>2. p \in Nat /\ p < tail /\ known <= p BY PlaceFacts
    <3>3. PICK k \in 0 .. Length - 1 : k = Distance(At(p)) /\ At(tail + k) = At(p)
      <4>1. At(p) \in 0 .. Length - 1 BY <3>2, Division
      <4>2. QED BY <4>1, PlaceFacts, DistanceIs
    <3>4. ~(k < n)
      <4>1. SUFFICES ASSUME k < n PROVE FALSE OBVIOUS
      <4>2. k \in Nat /\ tail \in Nat /\ tail + k \in Nat /\ tail + k - p < Length
            /\ p - (tail + k) < Length /\ p # tail + k
        <5>1. /\ tail \in Nat /\ known \in Nat /\ Length \in Nat /\ k \in Nat
          BY PlaceFacts, ConstantFacts
        <5>2. QED BY ONLY <1>2, <3>2, <4>1, <5>1
      <4>3. PICK x \in Nat : x = tail + k BY <4>2
      <4>4. x - p < Length /\ p - x < Length /\ At(x) = At(p) /\ p \in Int
        BY ONLY <3>2, <3>3, <4>2, <4>3
      <4>5. x = p BY ONLY <4>3, <4>4, SameCell
      <4>6. QED BY <4>2, <4>3, <4>5
    <3>5. mem[At(p)] = p BY <1>1, <3>1 DEF RingsHold, Top
    <3>6. At(p) \in DOMAIN mem BY <3>2, PlaceFacts, Division
    <3>7. ~(Distance(At(p)) < len + Header) BY <1>2, <3>3, <3>4
    <3>8. QED BY <1>1, <3>5, <3>6, <3>7
  <2>3. Top' = tail + n /\ freed' = freed /\ fetched' = fetched /\ copy' = copy
    <3>1. freed' = freed /\ fetched' = fetched /\ copy' = copy
      BY <1>1 DEF rcvVars
    <3>2. Top' = tail + len + Header BY <1>1 DEF Top
    <3>3. tail \in Nat /\ Header \in Nat BY PlaceFacts, ConstantFacts
    <3>4. tail + len + Header = tail + n BY ONLY <1>2, <3>3
    <3>5. QED BY <3>1, <3>2, <3>4
  <2>4. \A p \in freed .. tail + n - 1 : mem'[At(p)] = p
    <3>1. TAKE p \in freed .. tail + n - 1
    <3>2. p \in freed .. tail - 1 \/ \E k \in 0 .. n - 1 : p = tail + k
      <4>1. CASE p < tail BY <4>1, PlaceFacts
      <4>2. CASE p >= tail
        <5>1. tail \in Nat /\ p \in Int /\ p <= tail + n - 1 BY <1>2, PlaceFacts
        <5>2. PICK k \in Int : k = p - tail BY <5>1
        <5>3. k \in 0 .. n - 1 /\ p = tail + k BY ONLY <1>2, <4>2, <5>1, <5>2
        <5>4. QED BY <5>3
      <4>3. QED BY <4>1, <4>2, PlaceFacts
    <3>3. QED BY <2>1, <2>2, <3>2
  <2>5. \A p \in freed .. fetched - 1 : copy[At(p)] = p BY DEF RingsHold
  <2>6. freed' .. Top' - 1 = freed .. tail + n - 1
    <3>1. tail \in Nat /\ n \in Nat BY <1>2, PlaceFacts
    <3>2. QED BY ONLY <2>3, <3>1
  <2>7. QED BY <2>3, <2>4, <2>5, <2>6 DEF RingsHold
<1>10. HeldInOrder'
  <2>1. UNCHANGED <<outstanding, freed, read_ptr, base, rpc>> BY <1>1 DEF rcvVars
  <2>2. QED BY <1>3, <1>7, <2>1 DEF HeldInOrder
<1>11. HeadsMatch' BY <1>1 DEF HeadsMatch, rcvVars
<1>12. QED BY <1>4, <1>5, <1>6, <1>8, <1>9, <1>10, <1>11

\* The tail is moved behind the message.
LEMMA PublishInv == ASSUME IInv, Publish PROVE IInv'
<1> USE DEF IInv
<1>1. /\ spc = "publish" /\ spc' = "idle" /\ tail' = tail + len + Header
      /\ UNCHANGED <<len, mem, msg, head, known, rcvVars>>
  BY DEF Publish
<1>2. /\ len \in Lens /\ len \in Nat /\ Header \in Nat \ {0}
      /\ tail' - known < Length /\ tail \in Nat /\ tail' \in Nat /\ tail < tail'
      /\ Length \in Nat
  <2>1. len \in Lens /\ tail + len + Header - known < Length
    BY <1>1 DEF RoomFound
  <2>2. len \in Nat /\ Header \in Nat \ {0} /\ Length \in Nat
    BY <2>1, ConstantFacts
  <2>3. tail \in Nat /\ known \in Nat BY PlaceFacts
  <2>4. tail' \in Nat /\ tail < tail' BY ONLY <1>1, <2>2, <2>3
  <2>5. QED BY <1>1, <2>1, <2>2, <2>3, <2>4
<1>3. TypeOK'
  <2>1. remote_tail \in Nat /\ remote_tail <= tail' BY <1>2, PlaceFacts
  <2>2. QED BY <1>1, <1>2, <2>1 DEF TypeOK, rcvVars, Places
<1>4. PlacesOrdered' BY <1>1, <1>2, PlaceFacts DEF PlacesOrdered, rcvVars
<1>5. RoomFound' BY <1>1 DEF RoomFound
<1>6. \A p \in DOMAIN msg : EndOf(p)' = EndOf(p) BY <1>1 DEF EndOf
<1>7. MessagesTile'
  <2>1. /\ tail \in DOMAIN msg /\ msg[tail] = len
        /\ Bounds = DOMAIN msg /\ Bounds' = DOMAIN msg \cup {tail'}
    BY <1>1 DEF MessagesTile, Bounds
  <2>2. \A p \in DOMAIN msg : p \in Nat /\ p <= tail /\ p < tail'
    BY <1>2, MessageFacts
  <2>3. \A p \in DOMAIN msg : EndOf(p) \in Bounds'
    <3>1. TAKE p \in DOMAIN msg
    <3>2. CASE p = tail
      <4>1. EndOf(p) = tail' BY <1>1, <1>2, <2>1, <3>2 DEF EndOf
      <4>2. QED BY <2>1, <4>1
    <3>3. CASE p # tail
      <4>1. p < tail BY <1>2, <2>2, <3>3
      <4>2. QED BY <2>1, <4>1 DEF MessagesTile
    <3>4. QED BY <3>2, <3>3
  <2>4. \A p \in Bounds' : tail' - p <= Length => tail' - p \in Used
    <3>1. SUFFICES ASSUME NEW p \in Bounds', tail' - p <= Length
                   PROVE  tail' - p \in Used
      OBVIOUS
    <3>2. CASE p = tail' BY <1>2, <3>2, ConstantFacts DEF Fills
    <3>3. CASE p \in DOMAIN msg
      <4>1. PICK m \in Nat : m = tail - p BY <1>2, <2>2, <3>3
      <4>2. tail' - p = m + len + Header BY <1>1, <1>2, <2>2, <3>3, <4>1
      <4>3. tail - p <= Length BY <1>2, <2>2, <3>1, <3>3
      <4>4. m \in Used BY <2>1, <3>3, <4>1, <4>3 DEF MessagesTile
      <4>5. QED BY <1>2, <3>1, <4>2, <4>4, ConstantFacts DEF Fills
    <3>4. QED BY <2>1, <3>2, <3>3
  <2>5. {known, freed, read_ptr, remote_tail} \subseteq Bounds'
    BY <2>1 DEF MessagesTile
  <2>6. tail' \notin DOMAIN msg BY <1>2, <2>2
  <2>7. \A p, q \in DOMAIN msg : p < q => EndOf(p) <= q BY DEF MessagesTile
  <2>8. UNCHANGED <<known, freed, read_ptr, remote_tail, msg, len>>
    BY <1>1 DEF rcvVars
  <2>9. \A p, q \in DOMAIN msg' : p < q => EndOf(p)' <= q
    BY <1>6, <2>7, <2>8
  <2>10. \A p \in DOMAIN msg' : p \in Nat /\ p <= tail' /\ EndOf(p)' \in Bounds'
    BY <1>2, <1>6, <2>2, <2>3, <2>8
  <2>11. spc' # "publish" BY <1>1
  <2>12. QED BY <2>4, <2>5, <2>6, <2>8, <2>9, <2>10, <2>11 DEF MessagesTile
<1>8. RingsHold'
  <2>1. Top' = Top BY <1>1 DEF Top
  <2>2. QED BY <1>1, <2>1 DEF RingsHold, rcvVars
<1>9. HeldInOrder' BY <1>1, <1>6 DEF HeldInOrder, rcvVars
<1>10. HeadsMatch' BY <1>1 DEF HeadsMatch, rcvVars
<1>11. QED BY <1>3, <1>4, <1>5, <1>7, <1>8, <1>9, <1>10

-----------------------------------------------------------------------------
(* The receiver *)

\* What a step of the receiver leaves as it is: the sender's messages.
LEMMA TilesKept ==
  ASSUME MessagesTile, UNCHANGED sndVars,
         {known, freed, read_ptr, remote_tail}' \subseteq Bounds
  PROVE  MessagesTile'
BY DEF MessagesTile, sndVars, Bounds, EndOf

\* The tail is read: all that the sender has published may be fetched.
LEMMA ReadTailInv == ASSUME IInv, ReadTail PROVE IInv'
<1> USE DEF IInv
<1>1. /\ MayReceive /\ remote_tail = read_ptr /\ tail # remote_tail
      /\ remote_tail' = tail /\ rpc' = "fetch"
      /\ UNCHANGED <<sndVars, head, known, base, copy, read_ptr, remote_head,
                     acked_head, fetched, outstanding, freed>>
      /\ UNCHANGED <<spc, len, mem, tail, msg>>
  BY DEF ReadTail, sndVars
<1>2. rpc = "idle" /\ fetched = remote_tail /\ remote_tail < tail
  <2>1. rpc = "idle" BY <1>1 DEF MayReceive
  <2>2. fetched = remote_tail BY <2>1 DEF PlacesOrdered
  <2>3. QED BY <1>1, <2>1, <2>2, PlaceFacts
<1>3. TypeOK' BY <1>1, PlaceFacts DEF TypeOK, Places
<1>4. PlacesOrdered' BY <1>1, <1>2, PlaceFacts DEF PlacesOrdered
<1>5. RoomFound' BY <1>1 DEF RoomFound
<1>6. MessagesTile'
  <2>1. tail \in Bounds BY DEF Bounds
  <2>2. {known, freed, read_ptr, remote_tail}' \subseteq Bounds
    BY <1>1, <2>1 DEF MessagesTile
  <2>3. QED BY <1>1, <2>2, TilesKept
<1>7. RingsHold' BY <1>1 DEF RingsHold, Top
<1>8. HeldInOrder'
  <2>1. base % Length # 0 => Len(outstanding) <= 0
    BY <1>1, PlaceFacts, ConstantFacts DEF MayReceive
  <2>2. QED BY <1>1, <2>1 DEF HeldInOrder, EndOf
<1>9. HeadsMatch' BY <1>1 DEF HeadsMatch
<1>10. QED BY <1>3, <1>4, <1>5, <1>6, <1>7, <1>8, <1>9

\* The device reads the next cell, which lies behind all that is held.
LEMMA ReadDataInv == ASSUME IInv, ReadData PROVE IInv'
<1> USE DEF IInv
<1>1. /\ rpc = "fetch"
      /\ copy' = [copy EXCEPT ![At(fetched)] = mem[At(fetched)]]
      /\ fetched' = fetched + 1
      /\ rpc' = IF fetched' = remote_tail THEN "fetched" ELSE "fetch"
      /\ UNCHANGED <<sndVars, head, known, base, remote_tail, read_ptr, remote_head,
                     acked_head, outstanding, freed>>
      /\ UNCHANGED <<spc, len, mem, tail, msg>>
  BY DEF ReadData, sndVars
<1>2. /\ fetched \in Nat /\ remote_tail \in Nat /\ freed \in Nat /\ tail \in Nat
      /\ freed <= fetched /\ fetched < remote_tail /\ remote_tail <= tail
      /\ tail - freed < Length /\ read_ptr <= fetched /\ read_ptr \in Nat
  <2>1. fetched < remote_tail BY <1>1 DEF PlacesOrdered
  <2>2. /\ known \in Nat /\ freed \in Nat /\ read_ptr \in Nat /\ fetched \in Nat
        /\ remote_tail \in Nat /\ tail \in Nat /\ Length \in Nat
        /\ known <= freed /\ freed <= read_ptr /\ read_ptr <= fetched
        /\ remote_tail <= tail /\ tail - known < Length
    BY PlaceFacts, ConstantFacts
  <2>3. QED BY ONLY <2>1, <2>2
<1>3. At(fetched) \in 0 .. Length - 1 BY <1>2, Division
<1>4. mem[At(fetched)] = fetched
  <2>1. fetched \in freed .. tail - 1 BY <1>2
  <2>2. spc # "publish" => Top = tail BY DEF Top
  <2>3. fetched \in freed .. Top - 1
    <3>1. CASE spc = "publish"
      <4>1. len \in Nat /\ Header \in Nat /\ Top = tail + len + Header
        BY <3>1, ConstantFacts DEF RoomFound, Top
      <4>2. QED BY ONLY <1>2, <4>1
    <3>2. QED BY <2>1, <2>2, <3>1
  <2>4. QED BY <2>3 DEF RingsHold
<1>5. TypeOK'
  <2>1. copy' \in [0 .. Length - 1 -> Nat \cup {-1}]
    <3>1. copy \in [0 .. Length - 1 -> Nat \cup {-1}] BY PlaceFacts
    <3>2. copy' = [copy EXCEPT ![At(fetched)] = fetched] BY <1>1, <1>4
    <3>3. QED BY <1>2, <3>1, <3>2
  <2>2. fetched' \in Nat /\ rpc' \in {"fetch", "fetched"} BY <1>1, <1>2
  <2>3. /\ UNCHANGED <<spc, len, mem, tail, msg, head, known, base, remote_tail>>
        /\ UNCHANGED <<read_ptr, remote_head, acked_head, outstanding, freed>>
    BY <1>1
  <2>4. QED BY <2>1, <2>2, <2>3 DEF TypeOK, Places
<1>6. PlacesOrdered' BY <1>1, <1>2 DEF PlacesOrdered
<1>7. RoomFound' BY <1>1 DEF RoomFound
<1>8. MessagesTile'
  <2>1. {known, freed, read_ptr, remote_tail}' \subseteq Bounds
    BY <1>1 DEF MessagesTile
  <2>2. QED BY <1>1, <2>1, TilesKept
<1>9. RingsHold'
  <2>1. ASSUME NEW p \in freed .. fetched PROVE copy'[At(p)] = p
    <3>1. CASE p = fetched BY <1>1, <1>3, <1>4, <3>1, PlaceFacts
    <3>2. CASE p # fetched
      <4>1. /\ p \in Nat /\ p \in freed .. fetched - 1
            /\ p - fetched < Length /\ fetched - p < Length
        BY <1>2, <3>2, ConstantFacts
      <4>2. At(p) # At(fetched) BY <1>2, <3>2, <4>1, SameCell
      <4>3. copy[At(p)] = p BY <4>1 DEF RingsHold
      <4>4. At(p) \in 0 .. Length - 1 BY <4>1, Division
      <4>5. QED BY <1>1, <4>2, <4>3, <4>4, PlaceFacts
    <3>3. QED BY <3>1, <3>2
  <2>2. freed' .. fetched' - 1 = freed .. fetched BY <1>1, <1>2
  <2>3. Top' = Top BY <1>1 DEF Top
  <2>4. \A p \in freed .. Top - 1 : mem[At(p)] = p BY DEF RingsHold
  <2>5. QED BY <1>1, <2>1, <2>2, <2>3, <2>4 DEF RingsHold
<1>10. HeldInOrder' BY <1>1 DEF HeldInOrder, EndOf
<1>11. HeadsMatch' BY <1>1 DEF HeadsMatch
<1>12. QED BY <1>5, <1>6, <1>7, <1>8, <1>9, <1>10, <1>11

\* What the receiver finds at its read pointer, when it returns something: the
\* message sent next, which has been read as a whole.
LEMMA NextMessage ==
  ASSUME IInv, Receive
  PROVE  /\ rpc \in {"idle", "fetched"} /\ read_ptr < remote_tail
         /\ read_ptr \in DOMAIN msg /\ LengthsAt(read_ptr) = {msg[read_ptr]}
         /\ EndOf(read_ptr) <= remote_tail /\ read_ptr' = EndOf(read_ptr)
<1> USE DEF IInv
<1>1. /\ \/ rpc = "fetched"
         \/ MayReceive /\ remote_tail # read_ptr
      /\ \E l \in LengthsAt(read_ptr) : read_ptr' = NextReadPtr(l)
  BY DEF Receive
<1>2. /\ read_ptr \in Nat /\ fetched \in Nat /\ remote_tail \in Nat /\ tail \in Nat
      /\ freed \in Nat /\ freed <= read_ptr /\ read_ptr <= fetched
      /\ fetched <= remote_tail /\ remote_tail <= tail
  BY PlaceFacts
<1>3. rpc \in {"idle", "fetched"} BY <1>1 DEF MayReceive
<1>4. fetched = remote_tail /\ read_ptr < remote_tail
  <2>1. fetched = remote_tail BY <1>3 DEF PlacesOrdered
  <2>2. rpc = "fetched" => read_ptr < remote_tail BY DEF PlacesOrdered
  <2>3. QED BY <1>1, <1>2, <2>1, <2>2
<1>5. read_ptr \in DOMAIN msg
  <2>1. read_ptr \in Bounds BY DEF MessagesTile
  <2>2. QED BY <1>2, <1>4, <2>1 DEF Bounds
<1>6. copy[At(read_ptr)] = read_ptr
  <2>1. read_ptr \in freed .. fetched - 1 BY <1>2, <1>4
  <2>2. QED BY <2>1 DEF RingsHold
<1>7. LengthsAt(read_ptr) = {msg[read_ptr]} BY <1>5, <1>6 DEF LengthsAt
<1>8. EndOf(read_ptr) <= remote_tail
  <2>1. remote_tail \in Bounds BY DEF MessagesTile
  <2>2. CASE remote_tail \in DOMAIN msg BY <1>4, <1>5, <2>2 DEF MessagesTile
  <2>3. CASE remote_tail = tail BY <1>4, <1>5, <2>3, MessageFacts
  <2>4. QED BY <2>1, <2>2, <2>3 DEF Bounds
<1>9. read_ptr' = EndOf(read_ptr) BY <1>1, <1>7 DEF NextReadPtr, EndOf
<1>10. QED BY <1>3, <1>4, <1>5, <1>7, <1>8, <1>9

\* A message is handed out.
LEMMA ReceiveInv == ASSUME IInv, Receive PROVE IInv'
<1> USE DEF IInv
<1> DEFINE m == [addr |-> base + At(read_ptr), place |-> read_ptr]
<1>1. /\ outstanding' = Append(outstanding, m) /\ rpc' = "idle"
      /\ UNCHANGED <<sndVars, head, known, base, copy, remote_tail, remote_head,
                     acked_head, fetched, freed>>
      /\ UNCHANGED <<spc, len, mem, tail, msg>>
  BY DEF Receive, sndVars
<1>2. /\ rpc \in {"idle", "fetched"} /\ read_ptr < remote_tail
      /\ read_ptr \in DOMAIN msg /\ EndOf(read_ptr) <= remote_tail
      /\ read_ptr' = EndOf(read_ptr) /\ fetched = remote_tail
      /\ EndOf(read_ptr) \in Nat /\ read_ptr < EndOf(read_ptr)
  BY NextMessage, MessageFacts DEF PlacesOrdered
<1>3. /\ m \in [addr : Nat, place : Nat] /\ m.place = read_ptr
      /\ m.addr = base + At(read_ptr)
  <2>1. base \in Nat /\ At(read_ptr) \in Nat /\ read_ptr \in Nat
    <3>1. base \in Nat /\ read_ptr \in Nat BY PlaceFacts
    <3>2. At(read_ptr) \in 0 .. Length - 1 BY <3>1, Division
    <3>3. QED BY <3>1, <3>2
  <2>2. QED BY <2>1
<1> HIDE DEF m
<1>4. TypeOK'
  <2>1. outstanding' \in Seq([addr : Nat, place : Nat]) BY <1>1, <1>3, PlaceFacts
  <2>2. QED BY <1>1, <1>2, <2>1, PlaceFacts DEF TypeOK, Places
<1>5. PlacesOrdered' BY <1>1, <1>2, PlaceFacts DEF PlacesOrdered
<1>6. RoomFound' BY <1>1 DEF RoomFound
<1>7. MessagesTile'
  <2>1. EndOf(read_ptr) \in Bounds BY <1>2, PlaceFacts DEF MessagesTile
  <2>2. {known, freed, read_ptr, remote_tail}' \subseteq Bounds
    BY <1>1, <1>2, <2>1 DEF MessagesTile
  <2>3. QED BY <1>1, <2>2, TilesKept
<1>8. RingsHold' BY <1>1 DEF RingsHold, Top
<1>9. HeldInOrder'
  <2>1. /\ Len(outstanding) \in Nat /\ DOMAIN outstanding = 1 .. Len(outstanding)
        /\ DOMAIN outstanding' = 1 .. Len(outstanding) + 1
        /\ Len(outstanding') = Len(outstanding) + 1
        /\ outstanding'[Len(outstanding) + 1] = m
        /\ \A i \in DOMAIN outstanding : outstanding'[i] = outstanding[i]
    <3>1. outstanding \in Seq([addr : Nat, place : Nat]) BY PlaceFacts
    <3>2. QED BY ONLY <1>1, <1>3, <3>1
  <2>2. \A i \in DOMAIN outstanding' :
          i \in DOMAIN outstanding \/ i = Len(outstanding) + 1
    BY <2>1
  <2>3. \A p \in DOMAIN msg : EndOf(p)' = EndOf(p) BY <1>1 DEF EndOf
  <2>4. ASSUME NEW i \in DOMAIN outstanding'
        PROVE  LET h == outstanding'[i] IN
               /\ h.addr = base + At(h.place) /\ h.place \in DOMAIN msg
               /\ freed <= h.place /\ EndOf(h.place) <= read_ptr'
    <3>1. CASE i \in DOMAIN outstanding
      <4>1. LET h == outstanding[i] IN
            /\ h.addr = base + At(h.place) /\ h.place \in DOMAIN msg
            /\ freed <= h.place /\ EndOf(h.place) <= read_ptr
        BY <3>1 DEF HeldInOrder
      <4>2. EndOf(outstanding[i].place) \in Nat /\ read_ptr \in Nat
        BY <4>1, MessageFacts, PlaceFacts
      <4>3. QED BY <1>2, <2>1, <3>1, <4>1, <4>2
    <3>2. CASE i = Len(outstanding) + 1
      BY <1>2, <1>3, <2>1, <3>2, PlaceFacts
    <3>3. QED BY <2>2, <3>1, <3>2
  <2>5. ASSUME NEW i \in DOMAIN outstanding', NEW j \in DOMAIN outstanding', i < j
        PROVE  outstanding'[i].place < outstanding'[j].place
    <3>1. i \in DOMAIN outstanding BY <2>1, <2>5
    <3>2. CASE j \in DOMAIN outstanding
      BY <2>1, <2>5, <3>1, <3>2 DEF HeldInOrder
    <3>3. CASE j = Len(outstanding) + 1
      <4>1. /\ outstanding[i].place \in DOMAIN msg
            /\ EndOf(outstanding[i].place) <= read_ptr
        BY <3>1 DEF HeldInOrder
      <4>2. outstanding[i].place < read_ptr
        <5>1. PICK p \in DOMAIN msg : p = outstanding[i].place BY <4>1
        <5>2. p \in Nat /\ EndOf(p) \in Nat /\ p < EndOf(p) /\ read_ptr \in Nat
          BY MessageFacts, PlaceFacts
        <5>3. p < read_ptr BY ONLY <4>1, <5>1, <5>2
        <5>4. QED BY <5>1, <5>3
      <4>3. QED BY <1>3, <2>1, <3>1, <3>3, <4>2
    <3>4. QED BY <2>2, <3>2, <3>3
  <2>6. freed = outstanding'[1].place
    <3>1. CASE outstanding = <<>>
      BY <1>3, <2>1, <3>1 DEF HeldInOrder
    <3>2. CASE outstanding # <<>>
      <4>1. 1 \in DOMAIN outstanding BY <2>1, <3>2, PlaceFacts
      <4>2. QED BY <2>1, <3>2, <4>1 DEF HeldInOrder
    <3>3. QED BY <3>1, <3>2
  <2>7. base % Length # 0 => Len(outstanding') <= 1
    <3>1. CASE rpc = "fetched" BY <2>1, <3>1 DEF HeldInOrder
    <3>2. CASE rpc # "fetched"
      <4>1. MayReceive BY <3>2 DEF Receive
      <4>2. QED BY <2>1, <4>1 DEF MayReceive
    <3>3. QED BY <3>1, <3>2
  <2>8. outstanding' # <<>> BY <2>1
  <2>9. QED BY <1>1, <2>3, <2>4, <2>5, <2>6, <2>7, <2>8 DEF HeldInOrder
<1>10. HeadsMatch' BY <1>1 DEF HeadsMatch
<1>11. QED BY <1>4, <1>5, <1>6, <1>7, <1>8, <1>9, <1>10

\* What is left of a sequence when one element is taken out: the others, in order.
LEMMA RemoveAtFacts ==
  ASSUME NEW T, NEW s \in Seq(T), NEW i \in DOMAIN s
  PROVE  /\ RemoveAt(s, i) \in Seq(T) /\ Len(RemoveAt(s, i)) = Len(s) - 1
         /\ Len(s) \in Nat \ {0} /\ DOMAIN s = 1 .. Len(s)
         /\ DOMAIN RemoveAt(s, i) = 1 .. Len(s) - 1
         /\ \A j \in 1 .. Len(s) - 1 :
              RemoveAt(s, i)[j] = IF j < i THEN s[j] ELSE s[j + 1]
<1>1. /\ Len(s) \in Nat /\ DOMAIN s = 1 .. Len(s) /\ i \in 1 .. Len(s)
  OBVIOUS
<1>2. PICK a : a = SubSeq(s, 1, i - 1) OBVIOUS
<1>3. PICK b : b = SubSeq(s, i + 1, Len(s)) OBVIOUS
<1>4. /\ a \in Seq(T) /\ Len(a) = i - 1
      /\ \A j \in 1 .. i - 1 : a[j] = s[j]
  BY <1>1, <1>2
<1>5. /\ b \in Seq(T) /\ Len(b) = Len(s) - i
      /\ \A j \in 1 .. Len(s) - i : b[j] = s[i + j]
  BY <1>1, <1>3
<1>6. RemoveAt(s, i) = a \o b BY <1>2, <1>3 DEF RemoveAt
<1>7. PICK r : r = a \o b OBVIOUS
<1>8. /\ r \in Seq(T) /\ Len(r) = Len(a) + Len(b)
      /\ \A j \in 1 .. Len(r) : r[j] = IF j <= Len(a) THEN a[j] ELSE b[j - Len(a)]
  <2>1. /\ a \o b \in Seq(T) /\ Len(a \o b) = Len(a) + Len(b)
        /\ \A j \in 1 .. Len(a) + Len(b) :
             (a \o b)[j] = IF j <= Len(a) THEN a[j] ELSE b[j - Len(a)]
    BY <1>4, <1>5, ConcatProperties
  <2>2. QED BY <1>7, <2>1
<1>9. Len(r) = Len(s) - 1 BY ONLY <1>1, <1>4, <1>5, <1>8
<1>10. DOMAIN r = 1 .. Len(s) - 1 BY ONLY <1>8, <1>9
<1>11. ASSUME NEW j \in 1 .. Len(s) - 1
       PROVE  r[j] = IF j < i THEN s[j] ELSE s[j + 1]
  <2>1. CASE j < i
    <3>1. j <= Len(a) /\ j \in 1 .. i - 1
      BY ONLY <1>1, <1>4, <2>1, j \in 1 .. Len(s) - 1
    <3>2. QED BY <1>4, <1>8, <1>9, <2>1, <3>1
  <2>2. CASE ~(j < i)
    <3>1. /\ ~(j <= Len(a)) /\ j - Len(a) \in 1 .. Len(s) - i
          /\ i + (j - Len(a)) = j + 1
      BY ONLY <1>1, <1>4, <2>2, j \in 1 .. Len(s) - 1
    <3>2. b[j - Len(a)] = s[j + 1] BY <1>5, <3>1
    <3>3. QED BY <1>8, <1>9, <2>2, <3>1, <3>2
  <2>3. QED BY <2>1, <2>2
<1>12. Len(s) \in Nat \ {0} BY ONLY <1>1
<1>13. RemoveAt(s, i) = r BY <1>6, <1>7
<1>14. QED BY ONLY <1>1, <1>8, <1>9, <1>10, <1>11, <1>12, <1>13

\* The address of a message held tells which one it is: none but the first is
\* freed as the first.
LEMMA FrontIsFirst ==
  ASSUME IInv, NEW i \in DOMAIN outstanding, FreesFront(i)
  PROVE  i = 1
<1> USE DEF IInv
<1>1. /\ DOMAIN outstanding = 1 .. Len(outstanding) /\ Len(outstanding) \in Nat
      /\ i \in Nat /\ i >= 1
  <2>1. outstanding \in Seq([addr : Nat, place : Nat]) BY PlaceFacts
  <2>2. QED BY ONLY <2>1, i \in DOMAIN outstanding
<1>2. 1 \in DOMAIN outstanding BY <1>1
<1>3. PICK p \in DOMAIN msg : p = outstanding[i].place BY DEF HeldInOrder
<1>4. PICK q \in DOMAIN msg : q = outstanding[1].place
  BY <1>2 DEF HeldInOrder
<1>5. At(p) = At(q)
  <2>1. /\ outstanding[i].addr = base + At(p)
        /\ outstanding[1].addr = base + At(q)
    BY <1>2, <1>3, <1>4 DEF HeldInOrder
  <2>2. base \in Nat /\ p \in Nat /\ q \in Nat BY MessageFacts, PlaceFacts
  <2>3. PICK x \in Int : x = At(p) BY <2>2, Division
  <2>4. PICK y \in Int : y = At(q) BY <2>2, Division
  <2>5. base + x = base + y BY <2>1, <2>3, <2>4 DEF FreesFront
  <2>6. x = y BY ONLY <2>2, <2>3, <2>4, <2>5
  <2>7. QED BY <2>3, <2>4, <2>6
<1>6. p \in Nat /\ q \in Nat /\ p - q < Length /\ q - p < Length
  <2>1. /\ freed <= p /\ freed <= q /\ EndOf(p) <= read_ptr /\ EndOf(q) <= read_ptr
    BY <1>2, <1>3, <1>4 DEF HeldInOrder
  <2>2. /\ p \in Nat /\ q \in Nat /\ EndOf(p) \in Nat /\ p < EndOf(p)
        /\ EndOf(q) \in Nat /\ q < EndOf(q)
    BY MessageFacts
  <2>3. /\ known \in Nat /\ freed \in Nat /\ read_ptr \in Nat /\ tail \in Nat
        /\ known <= freed /\ read_ptr <= tail /\ tail - known < Length
        /\ Length \in Nat
    <3>1. /\ known \in Nat /\ freed \in Nat /\ read_ptr \in Nat /\ fetched \in Nat
          /\ remote_tail \in Nat /\ tail \in Nat /\ Length \in Nat
          /\ known <= freed /\ read_ptr <= fetched /\ fetched <= remote_tail
          /\ remote_tail <= tail /\ tail - known < Length
      BY PlaceFacts, ConstantFacts
    <3>2. QED BY ONLY <3>1
  <2>4. QED BY ONLY <2>1, <2>2, <2>3
<1>7. p = q BY ONLY <1>5, <1>6, SameCell, p \in Int, q \in Int
<1>8. QED
  <2>1. 1 < i => q < p BY <1>2, <1>3, <1>4 DEF HeldInOrder
  <2>2. QED BY ONLY <1>1, <1>6, <1>7, <2>1

\* What Free makes the new head: the place of the first message still held, or
\* the read pointer, or an address that means the same cell.
LEMMA HeadFreed ==
  ASSUME IInv, 1 \in DOMAIN outstanding, NEW rest, rest = RemoveAt(outstanding, 1)
  PROVE  /\ HeadAfterFree(rest).place =
              IF rest = <<>> THEN read_ptr ELSE outstanding[2].place
         /\ rest # <<>> => 2 \in DOMAIN outstanding
         /\ HeadAfterFree(rest).place \in Bounds \cap Nat
         /\ HeadAfterFree(rest).place <= read_ptr
         /\ freed <= HeadAfterFree(rest).place
         /\ HeadAfterFree(rest).addr \in Nat
         /\ At(HeadAfterFree(rest).addr) = At(HeadAfterFree(rest).place)
<1> USE DEF IInv
<1>1. /\ outstanding \in Seq([addr : Nat, place : Nat])
      /\ read_ptr \in Nat /\ freed \in Nat /\ freed <= read_ptr /\ base \in Nat
  BY PlaceFacts
<1>2. /\ Len(rest) = Len(outstanding) - 1 /\ Len(outstanding) \in Nat
      /\ DOMAIN outstanding = 1 .. Len(outstanding)
      /\ DOMAIN rest = 1 .. Len(outstanding) - 1
      /\ \A j \in 1 .. Len(outstanding) - 1 : rest[j] = outstanding[j + 1]
      /\ rest \in Seq([addr : Nat, place : Nat])
  <2>1. PICK T : T = [addr : Nat, place : Nat] OBVIOUS
  <2>2. outstanding \in Seq(T) BY <1>1, <2>1
  <2>3. /\ RemoveAt(outstanding, 1) \in Seq(T)
        /\ Len(RemoveAt(outstanding, 1)) = Len(outstanding) - 1
        /\ Len(outstanding) \in Nat \ {0}
        /\ DOMAIN outstanding = 1 .. Len(outstanding)
        /\ DOMAIN RemoveAt(outstanding, 1) = 1 .. Len(outstanding) - 1
        /\ \A j \in 1 .. Len(outstanding) - 1 :
             RemoveAt(outstanding, 1)[j] =
               IF j < 1 THEN outstanding[j] ELSE outstanding[j + 1]
    BY ONLY <2>2, 1 \in DOMAIN outstanding, RemoveAtFacts
  <2>4. \A j \in 1 .. Len(outstanding) - 1 : ~(j < 1) BY <2>3
  <2>5. QED BY <2>1, <2>3, <2>4
<1>3. CASE rest = <<>>
  <2>1. HeadAfterFree(rest) = [addr |-> read_ptr, place |-> read_ptr]
    BY <1>3 DEF HeadAfterFree
  <2>2. read_ptr \in Bounds BY DEF MessagesTile
  <2>3. QED BY <1>1, <1>3, <2>1, <2>2
<1>4. CASE rest # <<>>
  <2>1. Len(rest) # 0 BY <1>2, <1>4
  <2>2. 1 \in 1 .. Len(outstanding) - 1 /\ 2 \in DOMAIN outstanding
        /\ Len(outstanding) > 1
    BY ONLY <1>2, <2>1
  <2>3. HeadAfterFree(rest) = outstanding[2]
    BY <1>2, <1>4, <2>2 DEF HeadAfterFree
  <2>4. PICK p \in DOMAIN msg : p = outstanding[2].place
    BY <2>2 DEF HeldInOrder
  <2>5. outstanding[2].addr = base + At(p) /\ freed <= p /\ EndOf(p) <= read_ptr
    BY <2>2, <2>4 DEF HeldInOrder
  <2>6. p \in Nat /\ p <= read_ptr
    <3>1. p \in Nat /\ EndOf(p) \in Nat /\ p < EndOf(p) BY MessageFacts
    <3>2. QED BY ONLY <1>1, <2>5, <3>1
  <2>7. base % Length = 0
    <3>1. SUFFICES ASSUME base % Length # 0 PROVE FALSE OBVIOUS
    <3>2. Len(outstanding) <= 1
      BY <1>2, <3>1 DEF HeldInOrder
    <3>3. QED BY <1>2, <2>2, <3>2
  <2>8. At(base + At(p)) = At(p) BY <1>1, <2>6, <2>7, AddressCell
  <2>9. base + At(p) \in Nat
    <3>1. At(p) \in 0 .. Length - 1 BY <2>6, Division
    <3>2. QED BY <1>1, <3>1
  <2>10. p \in Bounds BY DEF Bounds
  <2>11. QED BY <1>4, <2>2, <2>3, <2>4, <2>5, <2>6, <2>8, <2>9, <2>10
<1>5. QED BY <1>3, <1>4

\* A message is freed, in any order.
LEMMA FreeInv == ASSUME IInv, Free PROVE IInv'
<1> USE DEF IInv
<1>1. /\ rpc = "idle" /\ rpc' = "update"
      /\ UNCHANGED <<sndVars, head, known, base, copy, remote_tail, read_ptr,
                     acked_head, fetched>>
      /\ UNCHANGED <<spc, len, mem, tail, msg>>
  BY DEF Free, sndVars
<1>2. PICK i \in DOMAIN outstanding :
        /\ outstanding' = RemoveAt(outstanding, i)
        /\ IF FreesFront(i)
             THEN /\ remote_head' = HeadAfterFree(RemoveAt(outstanding, i)).addr
                  /\ freed' = HeadAfterFree(RemoveAt(outstanding, i)).place
             ELSE UNCHANGED <<remote_head, freed>>
  BY DEF Free
<1>3. PICK rest : rest = RemoveAt(outstanding, i) OBVIOUS
<1>4. PICK n \in Nat \ {0} :
        /\ n = Len(outstanding) /\ DOMAIN outstanding = 1 .. n /\ i \in 1 .. n
        /\ Len(rest) = n - 1 /\ DOMAIN rest = 1 .. n - 1
        /\ rest \in Seq([addr : Nat, place : Nat])
        /\ \A j \in 1 .. n - 1 :
             rest[j] = IF j < i THEN outstanding[j] ELSE outstanding[j + 1]
  <2>1. PICK T : T = [addr : Nat, place : Nat] OBVIOUS
  <2>2. outstanding \in Seq(T) BY <2>1, PlaceFacts
  <2>3. /\ RemoveAt(outstanding, i) \in Seq(T)
        /\ Len(RemoveAt(outstanding, i)) = Len(outstanding) - 1
        /\ Len(outstanding) \in Nat \ {0}
        /\ DOMAIN outstanding = 1 .. Len(outstanding)
        /\ DOMAIN RemoveAt(outstanding, i) = 1 .. Len(outstanding) - 1
        /\ \A j \in 1 .. Len(outstanding) - 1 :
             RemoveAt(outstanding, i)[j] =
               IF j < i THEN outstanding[j] ELSE outstanding[j + 1]
    BY ONLY <2>2, i \in DOMAIN outstanding, RemoveAtFacts
  <2>4. QED BY ONLY <1>3, <2>1, <2>3, i \in DOMAIN outstanding
<1>5. ASSUME NEW j \in DOMAIN rest
      PROVE  \E k \in DOMAIN outstanding :
               /\ rest[j] = outstanding[k] /\ k = IF j < i THEN j ELSE j + 1
  <2>1. PICK k \in Nat : k = IF j < i THEN j ELSE j + 1 BY <1>4
  <2>2. k \in 1 .. n
    <3>1. j \in 1 .. n - 1 /\ i \in Nat /\ n \in Nat BY <1>4
    <3>2. QED BY ONLY <2>1, <3>1
  <2>3. rest[j] = outstanding[k]
    <3>1. j \in 1 .. n - 1 BY <1>4
    <3>2. QED BY <1>4, <2>1, <3>1
  <2>4. QED BY <1>4, <2>1, <2>2, <2>3
<1>6. /\ freed \in Nat /\ freed' \in Bounds \cap Nat
      /\ freed <= freed' /\ freed' <= read_ptr
      /\ remote_head' \in Nat /\ At(remote_head') = At(freed')
      /\ freed' = IF rest = <<>> THEN read_ptr ELSE rest[1].place
  <2>1. CASE FreesFront(i)
    <3>1. i = 1 BY <2>1, FrontIsFirst
    <3>2. 1 \in DOMAIN outstanding /\ rest = RemoveAt(outstanding, 1)
      BY <1>3, <3>1
    <3>3. remote_head' = HeadAfterFree(rest).addr /\ freed' = HeadAfterFree(rest).place
      BY <1>2, <1>3, <2>1
    <3>4. /\ HeadAfterFree(rest).place \in Bounds \cap Nat
          /\ HeadAfterFree(rest).place <= read_ptr
          /\ freed <= HeadAfterFree(rest).place
          /\ HeadAfterFree(rest).addr \in Nat
          /\ At(HeadAfterFree(rest).addr) = At(HeadAfterFree(rest).place)
      BY <3>2, HeadFreed
    <3>5. HeadAfterFree(rest).place = IF rest = <<>> THEN read_ptr ELSE rest[1].place
      BY DEF HeadAfterFree
    <3>6. freed \in Nat BY PlaceFacts
    <3>7. QED BY <3>3, <3>4, <3>5, <3>6
  <2>2. CASE ~FreesFront(i)
    <3>1. remote_head' = remote_head /\ freed' = freed BY <1>2, <2>2
    <3>2. i # 1 BY <2>2 DEF FreesFront
    <3>3. 1 \in DOMAIN rest /\ 1 < i /\ 1 \in DOMAIN outstanding
      BY ONLY <1>4, <3>2
    <3>4. rest[1] = outstanding[1] BY <1>5, <3>3
    <3>5. rest # <<>> /\ outstanding # <<>> BY <3>3
    <3>6. freed = outstanding[1].place BY <3>5 DEF HeldInOrder
    <3>7. freed \in Bounds /\ At(remote_head) = At(freed)
      BY DEF MessagesTile, HeadsMatch
    <3>8. freed \in Nat /\ freed <= read_ptr /\ remote_head \in Nat BY PlaceFacts
    <3>9. QED BY <3>1, <3>4, <3>5, <3>6, <3>7, <3>8
  <2>3. QED BY <2>1, <2>2
<1>7. TypeOK'
  <2>1. outstanding' \in Seq([addr : Nat, place : Nat]) BY <1>2, <1>3, <1>4
  <2>2. QED BY <1>1, <1>6, <2>1, PlaceFacts DEF TypeOK, Places
<1>8. PlacesOrdered'
  <2>1. /\ known \in Nat /\ known <= freed BY PlaceFacts
  <2>2. known <= freed' BY <1>6, <2>1
  <2>3. QED BY <1>1, <1>6, <2>2 DEF PlacesOrdered
<1>9. RoomFound' BY <1>1 DEF RoomFound
<1>10. MessagesTile'
  <2>1. {known, freed, read_ptr, remote_tail}' \subseteq Bounds
    BY <1>1, <1>6 DEF MessagesTile
  <2>2. QED BY <1>1, <2>1, TilesKept
<1>11. RingsHold'
  <2>1. Top' = Top BY <1>1 DEF Top
  <2>2. \A x \in Int : freed' .. x \subseteq freed .. x BY <1>6
  <2>3. Top - 1 \in Int /\ fetched - 1 \in Int
    <3>1. spc = "publish" => len \in Nat BY ConstantFacts DEF RoomFound
    <3>2. fetched \in Nat /\ tail \in Nat /\ Header \in Nat
      BY PlaceFacts, ConstantFacts
    <3>3. CASE spc = "publish" BY <3>1, <3>2, <3>3 DEF Top
    <3>4. CASE spc # "publish" BY <3>2, <3>4 DEF Top
    <3>5. QED BY <3>3, <3>4
  <2>4. QED BY <1>1, <2>1, <2>2, <2>3 DEF RingsHold
<1>12. HeldInOrder'
  <2>1. outstanding' = rest BY <1>2, <1>3
  <2>2. \A p \in DOMAIN msg : EndOf(p)' = EndOf(p) BY <1>1 DEF EndOf
  <2>3. \A j \in DOMAIN rest :
          /\ rest[j].addr = base + At(rest[j].place) /\ rest[j].place \in DOMAIN msg
          /\ EndOf(rest[j].place) <= read_ptr
    BY <1>5 DEF HeldInOrder
  <2>4. ASSUME NEW j \in DOMAIN rest, NEW k \in DOMAIN rest, j < k
        PROVE  rest[j].place < rest[k].place
    <3>1. PICK a \in DOMAIN outstanding :
            rest[j] = outstanding[a] /\ a = IF j < i THEN j ELSE j + 1
      BY <1>5
    <3>2. PICK b \in DOMAIN outstanding :
            rest[k] = outstanding[b] /\ b = IF k < i THEN k ELSE k + 1
      BY <1>5
    <3>3. a < b
      <4>1. j \in Nat /\ k \in Nat /\ i \in Nat
        <5>1. n \in Nat /\ i \in 1 .. n /\ DOMAIN rest = 1 .. n - 1 BY <1>4
        <5>2. QED BY ONLY <5>1, j \in DOMAIN rest, k \in DOMAIN rest
      <4>2. a = IF j < i THEN j ELSE j + 1 BY <3>1
      <4>3. b = IF k < i THEN k ELSE k + 1 BY <3>2
      <4>4. QED BY ONLY <2>4, <4>1, <4>2, <4>3
    <3>4. QED BY <3>1, <3>2, <3>3 DEF HeldInOrder
  <2>5. ASSUME NEW j \in DOMAIN rest PROVE freed' <= rest[j].place
    <3>1. rest # <<>> /\ 1 \in DOMAIN rest /\ j \in Nat /\ j >= 1
      <4>1. 1 \in DOMAIN rest /\ j \in Nat /\ j >= 1
        BY ONLY <1>4, j \in DOMAIN rest
      <4>2. QED BY <4>1
    <3>2. freed' = rest[1].place BY <1>6, <3>1
    <3>3. CASE j = 1 BY <1>6, <3>2, <3>3
    <3>4. CASE 1 < j
      <4>1. rest[1].place < rest[j].place BY <2>4, <3>1, <3>4
      <4>2. rest[j].place \in Nat BY <2>3, MessageFacts
      <4>3. QED BY <1>6, <3>2, <4>1, <4>2
    <3>5. QED BY <3>1, <3>3, <3>4
  <2>6. base % Length # 0 => Len(rest) <= 1
    <3>1. base % Length # 0 => n <= 1 BY <1>1, <1>4 DEF HeldInOrder
    <3>2. QED BY ONLY <1>4, <3>1
  <2>7. QED BY <1>1, <1>6, <2>1, <2>2, <2>3, <2>4, <2>5, <2>6 DEF HeldInOrder
<1>13. HeadsMatch' BY <1>1, <1>6 DEF HeadsMatch
<1>14. QED BY <1>7, <1>8, <1>9, <1>10, <1>11, <1>12, <1>13

\* The head is written to the sender, or not.
LEMMA UpdateHeadInv == ASSUME IInv, UpdateHead PROVE IInv'
<1> USE DEF IInv
<1>1. /\ rpc = "update" /\ rpc' = "idle"
      /\ \/ head' = remote_head /\ known' = freed /\ acked_head' = remote_head
         \/ UNCHANGED <<head, known, acked_head>>
      /\ UNCHANGED <<sndVars, base, copy, remote_tail, read_ptr, remote_head,
                     fetched, outstanding, freed>>
      /\ UNCHANGED <<spc, len, mem, tail, msg>>
  BY DEF UpdateHead, sndVars
<1>2. /\ known \in Nat /\ known' \in Nat /\ known <= known' /\ known' <= freed
      /\ head' \in Nat /\ acked_head' \in Nat /\ known' \in Bounds
      /\ At(head') = At(known')
  <2>1. {known, freed} \subseteq Bounds /\ At(remote_head) = At(freed)
        /\ At(head) = At(known)
    BY DEF MessagesTile, HeadsMatch
  <2>2. QED BY <1>1, <2>1, PlaceFacts
<1>3. TypeOK' BY <1>1, <1>2, PlaceFacts DEF TypeOK, Places
<1>4. PlacesOrdered'
  <2>1. tail - known' < Length
    <3>1. tail \in Nat /\ tail - known < Length /\ Length \in Nat
      BY PlaceFacts, ConstantFacts
    <3>2. PICK k \in Nat : k = known' /\ known <= k BY <1>2
    <3>3. known \in Nat /\ known <= k BY <1>2, <3>2
    <3>4. tail - k < Length BY ONLY <3>1, <3>3
    <3>5. QED BY <3>2, <3>4
  <2>2. QED BY <1>1, <1>2, <2>1 DEF PlacesOrdered
<1>5. RoomFound'
  <2>1. ASSUME spc \in {"copy", "publish"}
        PROVE  tail + len + Header - known' < Length
    <3>1. tail + len + Header - known < Length /\ len \in Lens
      BY <2>1 DEF RoomFound
    <3>2. tail \in Nat /\ len \in Nat /\ Header \in Nat /\ Length \in Nat
      BY <3>1, PlaceFacts, ConstantFacts
    <3>3. PICK k \in Nat : k = known' /\ known <= k BY <1>2
    <3>4. known \in Nat /\ known <= k BY <1>2, <3>3
    <3>5. tail + len + Header - k < Length BY ONLY <3>1, <3>2, <3>4
    <3>6. QED BY <3>3, <3>5
  <2>2. QED BY <1>1, <2>1 DEF RoomFound
<1>6. MessagesTile'
  <2>1. {known, freed, read_ptr, remote_tail}' \subseteq Bounds
    BY <1>1, <1>2 DEF MessagesTile
  <2>2. QED BY <1>1, <2>1, TilesKept
<1>7. RingsHold' BY <1>1 DEF RingsHold, Top
<1>8. HeldInOrder' BY <1>1 DEF HeldInOrder, EndOf
<1>9. HeadsMatch' BY <1>1, <1>2 DEF HeadsMatch
<1>10. QED BY <1>3, <1>4, <1>5, <1>6, <1>7, <1>8, <1>9

-----------------------------------------------------------------------------
(* Theorems *)

\* A step that changes nothing.
LEMMA StutterInv == ASSUME IInv, UNCHANGED vars PROVE IInv'
<1>1. UNCHANGED <<spc, len, mem, tail, msg, head, known, rpc, base, copy,
                  remote_tail, read_ptr, remote_head, acked_head, fetched,
                  outstanding, freed>>
  BY DEF vars, sndVars, rcvVars
<1>2. TypeOK' BY <1>1 DEF IInv, TypeOK
<1>3. PlacesOrdered' BY <1>1 DEF IInv, PlacesOrdered
<1>4. RoomFound' BY <1>1 DEF IInv, RoomFound
<1>5. MessagesTile' BY <1>1 DEF IInv, MessagesTile, Bounds, EndOf
<1>6. RingsHold' BY <1>1 DEF IInv, RingsHold, Top
<1>7. HeldInOrder' BY <1>1 DEF IInv, HeldInOrder, EndOf
<1>8. HeadsMatch' BY <1>1 DEF IInv, HeadsMatch
<1>9. QED BY <1>2, <1>3, <1>4, <1>5, <1>6, <1>7, <1>8 DEF IInv

\* Every step keeps the invariant.
LEMMA StepInv == ASSUME IInv, [Next]_vars PROVE IInv'
BY SendInv, SendFailsInv, FindRoomInv, CopyInv, PublishInv, ReadTailInv,
   ReadDataInv, ReceiveInv, FreeInv, UpdateHeadInv, StutterInv
   DEF Next, Sender, Receiver

\* What Send, Receive and Free of BufferedReadConnection keep about the two
\* rings and the places in them.
THEOREM Invariance == Spec => []IInv
<1>1. Init => IInv BY InitInv
<1>2. IInv /\ [Next]_vars => IInv' BY StepInv
<1>3. QED BY <1>1, <1>2, PTL DEF Spec

\* A message held is in the copy as it was sent.
LEMMA HeldAsSent ==
  ASSUME IInv, NEW i \in DOMAIN outstanding
  PROVE  /\ outstanding[i].place \in DOMAIN msg
         /\ EndOf(outstanding[i].place) <= read_ptr
         /\ \A k \in 0 .. msg[outstanding[i].place] + Header - 1 :
              copy[At(outstanding[i].place + k)] = outstanding[i].place + k
<1> USE DEF IInv
<1>1. PICK p \in DOMAIN msg : p = outstanding[i].place BY DEF HeldInOrder
<1>2. freed <= p /\ EndOf(p) <= read_ptr BY <1>1 DEF HeldInOrder
<1>3. ASSUME NEW k \in 0 .. msg[p] + Header - 1 PROVE copy[At(p + k)] = p + k
  <2>1. p + k \in freed .. fetched - 1
    <3>1. /\ p \in Nat /\ msg[p] \in Nat /\ Header \in Nat /\ freed \in Nat
          /\ read_ptr \in Nat /\ fetched \in Nat /\ read_ptr <= fetched
      BY MessageFacts, PlaceFacts, ConstantFacts
    <3>2. EndOf(p) = p + msg[p] + Header BY DEF EndOf
    <3>3. QED BY ONLY <1>2, <3>1, <3>2, k \in 0 .. msg[p] + Header - 1
  <2>2. QED BY <2>1 DEF RingsHold
<1>4. QED BY <1>1, <1>2, <1>3

\* No cell of either ring is written before the message in it was freed.
THEOREM NothingOverwritten == Spec => []BReadInv
<1>1. IInv => BReadInv
  <2>1. SUFFICES ASSUME IInv PROVE BReadInv OBVIOUS
  <2>2. NotOverwritten
    <3>1. \A p \in freed .. tail - 1 : p \in freed .. Top - 1
      <4>1. CASE spc = "publish"
        <5>1. /\ len \in Nat /\ Header \in Nat /\ tail \in Nat /\ freed \in Nat
              /\ Top = tail + len + Header
          BY <2>1, <4>1, PlaceFacts, ConstantFacts DEF IInv, RoomFound, Top
        <5>2. QED BY ONLY <5>1
      <4>2. CASE spc # "publish" BY <4>2 DEF Top
      <4>3. QED BY <4>1, <4>2
    <3>2. \A p \in freed .. tail - 1 : mem[At(p)] = p
      BY <2>1, <3>1 DEF IInv, RingsHold
    <3>3. QED BY <2>1, <3>2 DEF IInv, NotOverwritten, HeadsMatch, PlacesOrdered
  <2>3. HeldIntact BY <2>1, HeldAsSent DEF HeldIntact
  <2>4. QED BY <2>1, <2>2, <2>3 DEF BReadInv, IInv
<1>2. QED BY <1>1, Invariance, PTL

-----------------------------------------------------------------------------
(* The FIFO channel *)

\* The channel holds the messages as they were sent, in the state before a step
\* and in the one after it.
LEMMA MessagesHeld ==
  /\ IInv => HeldMessages = [p \in HeldPlaces |-> AsSent(p)]
  /\ IInv' => (HeldMessages = [p \in HeldPlaces |-> AsSent(p)])'
<1>1. ASSUME IInv PROVE HeldMessages = [p \in HeldPlaces |-> AsSent(p)]
  <2>1. ASSUME NEW p \in HeldPlaces PROVE InCopy(p) = AsSent(p)
    <3>1. PICK i \in DOMAIN outstanding : p = outstanding[i].place
      BY DEF HeldPlaces
    <3>2. /\ p \in DOMAIN msg
          /\ \A k \in 0 .. msg[p] + Header - 1 : copy[At(p + k)] = p + k
      BY <1>1, <3>1, HeldAsSent
    <3>3. PICK n \in Nat : n = msg[p] + Header
      BY <1>1, <3>2, MessageFacts, ConstantFacts DEF IInv
    <3>4. p \in Nat BY <1>1, <3>2, MessageFacts DEF IInv
    <3>5. ASSUME NEW k \in 1 .. n PROVE copy[At(p + k - 1)] = p + k - 1
      <4>1. k - 1 \in 0 .. n - 1 /\ p + (k - 1) = p + k - 1
        BY ONLY <3>4, n \in Nat, k \in 1 .. n
      <4>2. PICK m \in 0 .. n - 1 : m = k - 1 BY <4>1
      <4>3. copy[At(p + m)] = p + m
        <5>1. msg[p] \in Nat /\ Header \in Nat
          BY <1>1, <3>2, MessageFacts, ConstantFacts DEF IInv
        <5>2. n - 1 = msg[p] + Header - 1 BY <3>3, <5>1
        <5>3. QED BY <3>2, <5>2
      <4>4. p + m = p + k - 1 BY <4>1, <4>2
      <4>5. QED BY <4>3, <4>4
    <3>6. [k \in 1 .. n |-> copy[At(p + k - 1)]] = [k \in 1 .. n |-> p + k - 1]
      BY <3>5
    <3>7. QED BY <3>2, <3>3, <3>6 DEF InCopy, AsSent
  <2>2. QED BY <2>1 DEF HeldMessages
<1>2. ASSUME IInv' PROVE (HeldMessages = [p \in HeldPlaces |-> AsSent(p)])'
  BY <1>1, <1>2, PTL
<1>3. QED BY <1>1, <1>2

\* Initially the channel is empty.
LEMMA FifoInit == Init => Fifo!Init
<1> SUFFICES ASSUME Init PROVE Fifo!Init OBVIOUS
<1>1. DOMAIN msg = {} /\ HeldPlaces = {} BY DEF Init, HeldPlaces
<1>2. SentMessages = [p \in {} |-> 0] BY <1>1 DEF SentMessages
<1>3. TakenPlaces = {} BY <1>1 DEF TakenPlaces
<1>4. HeldMessages = [p \in {} |-> 0] BY <1>1 DEF HeldMessages
<1>5. QED BY <1>2, <1>3, <1>4 DEF Fifo!Init

\* Steps that neither publish nor receive nor free are invisible to the users.
LEMMA FifoQuiet ==
  ASSUME IInv, IInv', UNCHANGED <<tail, read_ptr, outstanding>>,
         UNCHANGED msg \/ Copy
  PROVE  UNCHANGED Fifo!vars
<1>1. /\ DOMAIN msg \subseteq DOMAIN msg'
      /\ DOMAIN msg' \subseteq DOMAIN msg \cup {tail}
      /\ \A p \in DOMAIN msg : p # tail => msg'[p] = msg[p]
  BY DEF Copy
<1>2. \A p \in DOMAIN msg : p # tail => AsSent(p)' = AsSent(p)
  BY <1>1 DEF AsSent
<1>3. tail \in Nat /\ read_ptr \in Nat /\ read_ptr <= tail
  <2>1. /\ tail \in Nat /\ read_ptr \in Nat /\ fetched \in Nat /\ remote_tail \in Nat
        /\ read_ptr <= fetched /\ fetched <= remote_tail /\ remote_tail <= tail
    BY PlaceFacts DEF IInv
  <2>2. QED BY ONLY <2>1
<1>4. /\ {p \in DOMAIN msg' : p < tail} = {p \in DOMAIN msg : p < tail}
      /\ {p \in DOMAIN msg' : p < read_ptr} = {p \in DOMAIN msg : p < read_ptr}
  <2>1. ~(tail < tail) /\ ~(tail < read_ptr) BY <1>3
  <2>2. QED BY <1>1, <2>1
<1>5. SentMessages' = SentMessages
  <2>1. \A p \in {q \in DOMAIN msg : q < tail} : AsSent(p)' = AsSent(p)
    BY <1>2, <1>3
  <2>2. QED BY <1>4, <2>1 DEF SentMessages
<1>6. TakenPlaces' = TakenPlaces BY <1>4 DEF TakenPlaces
<1>7. HeldMessages' = HeldMessages
  <2>1. HeldPlaces' = HeldPlaces BY DEF HeldPlaces
  <2>2. ASSUME NEW p \in HeldPlaces PROVE AsSent(p)' = AsSent(p)
    <3>1. PICK i \in DOMAIN outstanding : p = outstanding[i].place
      BY DEF HeldPlaces
    <3>2. p \in DOMAIN msg /\ EndOf(p) <= read_ptr BY <3>1, HeldAsSent
    <3>3. p # tail
      <4>1. p \in Nat /\ EndOf(p) \in Nat /\ p < EndOf(p)
        BY <3>2, MessageFacts DEF IInv
      <4>2. QED BY ONLY <1>3, <3>2, <4>1
    <3>4. QED BY <1>2, <3>2, <3>3
  <2>3. QED BY <2>1, <2>2, MessagesHeld
<1>8. QED BY <1>5, <1>6, <1>7 DEF Fifo!vars

\* Moving the tail sends the message that was copied.
LEMMA FifoSend == ASSUME IInv, IInv', Publish PROVE Fifo!Send
<1>1. /\ spc = "publish" /\ tail' = tail + len + Header
      /\ UNCHANGED <<msg, read_ptr, outstanding, copy>>
  BY DEF Publish, rcvVars
<1>2. tail \in Nat /\ tail' \in Nat /\ tail < tail' /\ tail \in DOMAIN msg
  <2>1. len \in Lens BY <1>1 DEF IInv, RoomFound
  <2>2. len \in Nat /\ Header \in Nat \ {0} BY <2>1, ConstantFacts
  <2>3. tail \in Nat BY PlaceFacts DEF IInv
  <2>4. tail' \in Nat /\ tail < tail' BY ONLY <1>1, <2>2, <2>3
  <2>5. QED BY <1>1, <2>3, <2>4 DEF IInv, MessagesTile
<1>3. \A p \in DOMAIN msg : p \in Nat BY MessageFacts DEF IInv
<1>4. /\ SentMessages = [p \in {q \in DOMAIN msg : q < tail} |-> AsSent(p)]
      /\ SentMessages' = [p \in {q \in DOMAIN msg : q < tail'} |-> AsSent(p)]
  BY <1>1 DEF SentMessages, AsSent
<1>5. \A q \in DOMAIN msg : q < tail => q < tail' BY <1>2, <1>3
<1>6. /\ DOMAIN SentMessages \subseteq DOMAIN SentMessages'
      /\ DOMAIN SentMessages # DOMAIN SentMessages'
      /\ \A p \in DOMAIN SentMessages : SentMessages'[p] = SentMessages[p]
  <2>1. tail \in DOMAIN SentMessages' /\ tail \notin DOMAIN SentMessages
    BY <1>2, <1>4
  <2>2. QED BY <1>4, <1>5, <2>1
<1>7. \A p \in DOMAIN SentMessages :
        \A q \in DOMAIN SentMessages' \ DOMAIN SentMessages : p < q
  BY <1>2, <1>3, <1>4
<1>8. TakenPlaces' = TakenPlaces BY <1>1 DEF TakenPlaces
<1>9. HeldMessages' = HeldMessages BY <1>1 DEF HeldMessages, HeldPlaces, InCopy
<1>10. QED BY <1>6, <1>7, <1>8, <1>9 DEF Fifo!Send

\* Receive hands out the first message that was not handed out before.
LEMMA FifoReceive == ASSUME IInv, IInv', Receive PROVE Fifo!Receive
<1>1. /\ outstanding' =
           Append(outstanding, [addr |-> base + At(read_ptr), place |-> read_ptr])
      /\ UNCHANGED <<msg, tail>>
  BY DEF Receive, sndVars
<1>2. /\ read_ptr \in DOMAIN msg /\ read_ptr \in Nat /\ tail \in Nat /\ read_ptr < tail
      /\ EndOf(read_ptr) \in Nat /\ read_ptr < EndOf(read_ptr)
      /\ read_ptr' = EndOf(read_ptr)
  <2>1. /\ read_ptr \in DOMAIN msg /\ read_ptr < remote_tail
        /\ read_ptr' = EndOf(read_ptr)
    BY NextMessage
  <2>2. remote_tail \in Nat /\ remote_tail <= tail /\ tail \in Nat /\ read_ptr \in Nat
    BY PlaceFacts DEF IInv
  <2>3. read_ptr < tail BY ONLY <2>1, <2>2
  <2>4. QED BY <2>1, <2>2, <2>3, MessageFacts DEF IInv
<1>3. /\ \A q \in DOMAIN msg : q \in Nat
      /\ \A q \in DOMAIN msg : read_ptr < q => EndOf(read_ptr) <= q
  BY <1>2, MessageFacts DEF IInv, MessagesTile
<1>4. /\ SentMessages = [p \in {q \in DOMAIN msg : q < tail} |-> AsSent(p)]
      /\ SentMessages' = SentMessages
  BY <1>1 DEF SentMessages, AsSent
<1>5. TakenPlaces' = TakenPlaces \cup {read_ptr}
  <2>1. \A q \in DOMAIN msg : q < EndOf(read_ptr) <=> q < read_ptr \/ q = read_ptr
    BY <1>2, <1>3
  <2>2. QED BY <1>1, <1>2, <2>1 DEF TakenPlaces
<1>6. /\ read_ptr \in DOMAIN SentMessages \ TakenPlaces
      /\ \A q \in DOMAIN SentMessages \ TakenPlaces : read_ptr <= q
  BY <1>2, <1>3, <1>4 DEF TakenPlaces
<1>7. HeldPlaces' = HeldPlaces \cup {read_ptr}
  <2>1. PICK h : h = [addr |-> base + At(read_ptr), place |-> read_ptr] OBVIOUS
  <2>2. PICK n \in Nat :
          /\ DOMAIN outstanding = 1 .. n /\ DOMAIN outstanding' = 1 .. n + 1
          /\ outstanding'[n + 1] = h
          /\ \A i \in 1 .. n : outstanding'[i] = outstanding[i]
    <3>1. outstanding \in Seq([addr : Nat, place : Nat]) BY PlaceFacts DEF IInv
    <3>2. outstanding' = Append(outstanding, h) BY <1>1, <2>1
    <3>3. PICK n \in Nat : n = Len(outstanding) BY <3>1
    <3>4. /\ DOMAIN outstanding = 1 .. n /\ DOMAIN outstanding' = 1 .. n + 1
          /\ outstanding'[n + 1] = h
          /\ \A i \in 1 .. n : outstanding'[i] = outstanding[i]
      BY ONLY <3>1, <3>2, <3>3
    <3>5. QED BY <3>4
  <2>3. h.place = read_ptr BY <2>1
  <2>4. 1 .. n + 1 = (1 .. n) \cup {n + 1} OBVIOUS
  <2>5. QED BY <2>2, <2>3, <2>4 DEF HeldPlaces
<1>8. HeldMessages' =
        [q \in DOMAIN HeldMessages \cup {read_ptr} |->
           IF q = read_ptr THEN SentMessages[read_ptr] ELSE HeldMessages[q]]
  <2>1. HeldMessages = [p \in HeldPlaces |-> AsSent(p)] BY MessagesHeld
  <2>2. HeldMessages' = [p \in HeldPlaces' |-> AsSent(p)]
    <3>1. HeldMessages' = [p \in HeldPlaces' |-> AsSent(p)'] BY MessagesHeld
    <3>2. \A p : AsSent(p)' = AsSent(p) BY <1>1 DEF AsSent
    <3>3. QED BY <3>1, <3>2
  <2>3. SentMessages[read_ptr] = AsSent(read_ptr) BY <1>4, <1>6
  <2>4. QED BY <1>7, <2>1, <2>2, <2>3
<1>9. QED BY <1>4, <1>5, <1>6, <1>8 DEF Fifo!Receive

\* Free takes one of the messages held, whichever it is.
LEMMA FifoFree == ASSUME IInv, IInv', Free PROVE Fifo!Free
<1>1. UNCHANGED <<msg, tail, read_ptr>> BY DEF Free, sndVars
<1>2. PICK i \in DOMAIN outstanding : outstanding' = RemoveAt(outstanding, i)
  BY DEF Free
<1>3. PICK n \in Nat :
        /\ DOMAIN outstanding = 1 .. n /\ DOMAIN outstanding' = 1 .. n - 1
        /\ \A j \in 1 .. n - 1 :
             outstanding'[j] = IF j < i THEN outstanding[j] ELSE outstanding[j + 1]
  <2>1. PICK T : T = [addr : Nat, place : Nat] OBVIOUS
  <2>2. outstanding \in Seq(T) BY <2>1, PlaceFacts DEF IInv
  <2>3. /\ Len(outstanding) \in Nat \ {0}
        /\ DOMAIN outstanding = 1 .. Len(outstanding)
        /\ DOMAIN RemoveAt(outstanding, i) = 1 .. Len(outstanding) - 1
        /\ \A j \in 1 .. Len(outstanding) - 1 :
             RemoveAt(outstanding, i)[j] =
               IF j < i THEN outstanding[j] ELSE outstanding[j + 1]
    BY ONLY <2>2, i \in DOMAIN outstanding, RemoveAtFacts
  <2>4. QED BY <1>2, <2>3
<1>4. PICK p : p = outstanding[i].place OBVIOUS
<1>5. p \in HeldPlaces BY <1>4 DEF HeldPlaces
<1>6. HeldPlaces' = HeldPlaces \ {p}
  <2>1. ASSUME NEW j \in DOMAIN outstanding'
        PROVE  \E k \in DOMAIN outstanding : outstanding'[j] = outstanding[k] /\ k # i
    <3>1. i \in Nat /\ j \in Nat /\ i \in 1 .. n /\ j \in 1 .. n - 1 BY <1>3
    <3>2. PICK k \in Nat : k = IF j < i THEN j ELSE j + 1 BY <3>1
    <3>3. k \in 1 .. n /\ k # i BY ONLY <3>1, <3>2, n \in Nat
    <3>4. outstanding'[j] = outstanding[k] BY <1>3, <3>1, <3>2
    <3>5. QED BY <1>3, <3>3, <3>4
  <2>2. ASSUME NEW k \in DOMAIN outstanding, k # i
        PROVE  \E j \in DOMAIN outstanding' : outstanding'[j] = outstanding[k]
    <3>1. i \in Nat /\ k \in Nat /\ i \in 1 .. n /\ k \in 1 .. n BY <1>3
    <3>2. PICK j \in Int : j = IF k < i THEN k ELSE k - 1 BY <3>1
    <3>3. /\ j \in 1 .. n - 1
          /\ j < i => j = k
          /\ ~(j < i) => j + 1 = k
      BY ONLY <2>2, <3>1, <3>2, n \in Nat
    <3>4. outstanding'[j] = outstanding[k] BY <1>3, <3>3
    <3>5. QED BY <1>3, <3>3, <3>4
  <2>3. ASSUME NEW k \in DOMAIN outstanding, k # i
        PROVE  outstanding[k].place # p
    <3>1. i \in Nat /\ k \in Nat BY <1>3
    <3>2. k < i \/ i < k BY <2>3, <3>1
    <3>3. /\ outstanding[i].place \in DOMAIN msg /\ outstanding[k].place \in DOMAIN msg
          /\ i < k => outstanding[i].place < outstanding[k].place
          /\ k < i => outstanding[k].place < outstanding[i].place
      BY DEF IInv, HeldInOrder
    <3>4. PICK x \in Nat : x = outstanding[i].place
      BY <3>3, MessageFacts DEF IInv
    <3>5. PICK y \in Nat : y = outstanding[k].place
      BY <3>3, MessageFacts DEF IInv
    <3>6. x # y BY <3>2, <3>3, <3>4, <3>5
    <3>7. QED BY <1>4, <3>4, <3>5, <3>6
  <2>4. HeldPlaces' \subseteq HeldPlaces \ {p}
    BY <2>1, <2>3 DEF HeldPlaces
  <2>5. HeldPlaces \ {p} \subseteq HeldPlaces'
    BY <1>4, <2>2 DEF HeldPlaces
  <2>6. QED BY <2>4, <2>5
<1>7. SentMessages' = SentMessages BY <1>1 DEF SentMessages, AsSent
<1>8. TakenPlaces' = TakenPlaces BY <1>1 DEF TakenPlaces
<1>9. HeldMessages' = [q \in DOMAIN HeldMessages \ {p} |-> HeldMessages[q]]
  <2>1. HeldMessages = [q \in HeldPlaces |-> AsSent(q)] BY MessagesHeld
  <2>2. HeldMessages' = [q \in HeldPlaces' |-> AsSent(q)]
    <3>1. HeldMessages' = [q \in HeldPlaces' |-> AsSent(q)'] BY MessagesHeld
    <3>2. \A q : AsSent(q)' = AsSent(q) BY <1>1 DEF AsSent
    <3>3. QED BY <3>1, <3>2
  <2>3. QED BY <1>6, <2>1, <2>2
<1>10. p \in DOMAIN HeldMessages BY <1>5 DEF HeldMessages
<1>11. QED BY <1>7, <1>8, <1>9, <1>10 DEF Fifo!Free

\* Every step is one of the channel, or none.
LEMMA StepIsFifo == IInv /\ IInv' /\ [Next]_vars => [Fifo!Next]_(Fifo!vars)
<1> SUFFICES ASSUME IInv, IInv', [Next]_vars PROVE [Fifo!Next]_(Fifo!vars)
  OBVIOUS
<1>1. CASE Publish BY <1>1, FifoSend DEF Fifo!Next
<1>2. CASE Receive BY <1>2, FifoReceive DEF Fifo!Next
<1>3. CASE Free BY <1>3, FifoFree DEF Fifo!Next
<1>4. CASE Copy
  <2>1. UNCHANGED <<tail, read_ptr, outstanding>> BY <1>4 DEF Copy, rcvVars
  <2>2. QED BY <1>4, <2>1, FifoQuiet
<1>5. CASE \/ (\E l \in Lens : Send(l)) \/ SendFails \/ FindRoom
           \/ ReadTail \/ ReadData \/ UpdateHead \/ UNCHANGED vars
  <2>1. UNCHANGED <<tail, read_ptr, outstanding, msg>>
    BY <1>5 DEF Send, SendFails, FindRoom, ReadTail, ReadData, UpdateHead,
                vars, sndVars, rcvVars
  <2>2. QED BY <2>1, FifoQuiet
<1>6. QED BY <1>1, <1>2, <1>3, <1>4, <1>5 DEF Next, Sender, Receiver

\* The connection is a FIFO channel as far as safety goes: messages come in the
\* order they were sent, whole, and stay until they are freed
\* (BufferedReadConnection::Send, Receive and Free).
THEOREM IsFifo == Spec => Fifo!Safe
<1>1. Init => Fifo!Init BY FifoInit
<1>2. IInv /\ IInv' /\ [Next]_vars => [Fifo!Next]_(Fifo!vars) BY StepIsFifo
<1>3. QED BY <1>1, <1>2, Invariance, PTL DEF Spec, Fifo!Safe
=============================================================================
