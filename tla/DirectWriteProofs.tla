-------------------------- MODULE DirectWriteProofs --------------------------
(***************************************************************************)
(* The two ends of a direct write connection go round their arrays in step, *)
(* and the messages held stay: proofs for any number of buffers and         *)
(* regions, any number of messages, one way and both.                       *)
(***************************************************************************)
EXTENDS DirectWrite, FiniteSetTheorems, SequenceTheorems, TLAPS

-----------------------------------------------------------------------------
(* Slots, ends, and what is in a request *)

\* The constant's type, for arithmetic.
LEMMA NrBuffersIs == NrBuffers \in Nat \ {0}
BY DirectWriteAssumption

\* A multiple of NrBuffers strictly between -NrBuffers and NrBuffers is 0.
LEMMA SmallMultiple ==
  ASSUME NEW q \in Int, NrBuffers * q < NrBuffers, -NrBuffers < NrBuffers * q
  PROVE  q = 0
<1>1. CASE q >= 1
  <2>1. NrBuffers * q >= NrBuffers * 1 BY <1>1, NrBuffersIs
  <2>2. QED BY <2>1, NrBuffersIs
<1>2. CASE q <= -1
  <2>1. NrBuffers * q <= NrBuffers * (-1) BY <1>2, NrBuffersIs
  <2>2. QED BY <2>1, NrBuffersIs
<1>3. QED BY <1>1, <1>2

\* Quotient and remainder of a number by NrBuffers.
LEMMA Quotient ==
  ASSUME NEW p \in Int
  PROVE  /\ p % NrBuffers \in 0 .. NrBuffers - 1 /\ p \div NrBuffers \in Int
         /\ p = NrBuffers * (p \div NrBuffers) + (p % NrBuffers)
<1>1. p % NrBuffers \in 0 .. NrBuffers - 1 BY NrBuffersIs
<1>2. p \div NrBuffers \in Int BY NrBuffersIs
<1>3. p = NrBuffers * (p \div NrBuffers) + (p % NrBuffers) BY NrBuffersIs
<1>4. QED BY <1>1, <1>2, <1>3

\* Two numbers less than NrBuffers apart have the same remainder only if they are
\* equal.
LEMMA SameRemainder ==
  ASSUME NEW p \in Int, NEW q \in Int, p - q < NrBuffers, q - p < NrBuffers,
         p % NrBuffers = q % NrBuffers
  PROVE  p = q
<1> DEFINE a == p \div NrBuffers
<1> DEFINE b == q \div NrBuffers
<1> DEFINE r == p % NrBuffers
<1>1. a \in Int /\ b \in Int /\ r \in Int /\ p = NrBuffers * a + r /\ q = NrBuffers * b + r
  <2>1. /\ p % NrBuffers \in 0 .. NrBuffers - 1 /\ a \in Int
        /\ p = NrBuffers * a + (p % NrBuffers) BY Quotient, NrBuffersIs
  <2>2. b \in Int /\ q = NrBuffers * b + (q % NrBuffers) BY Quotient, NrBuffersIs
  <2>3. p % NrBuffers \in Int BY <2>1, NrBuffersIs
  <2>4. QED BY <2>1, <2>2, <2>3
<1> HIDE DEF a, b, r
<1>2. NrBuffers * (a - b) = NrBuffers * a - NrBuffers * b /\ a - b \in Int
      /\ NrBuffers * a \in Int /\ NrBuffers * b \in Int
  BY <1>1, NrBuffersIs
<1>3. NrBuffers * (a - b) < NrBuffers /\ -NrBuffers < NrBuffers * (a - b)
  BY <1>1, <1>2, NrBuffersIs
<1>4. a - b = 0 BY <1>2, <1>3, SmallMultiple
<1>5. a = b BY <1>1, <1>4
<1>6. QED BY <1>1, <1>5

\* The remainder is unique.
LEMMA RemainderIs ==
  ASSUME NEW q \in Int, NEW s \in 0 .. NrBuffers - 1
  PROVE  (NrBuffers * q + s) % NrBuffers = s
<1> DEFINE x == NrBuffers * q + s
<1> DEFINE d == q - (x \div NrBuffers)
<1>0. x \in Int BY NrBuffersIs
<1>1. /\ x % NrBuffers \in 0 .. NrBuffers - 1 /\ x \div NrBuffers \in Int
      /\ x = NrBuffers * (x \div NrBuffers) + (x % NrBuffers)
  <2> HIDE DEF x
  <2> QED BY <1>0, Quotient
<1>2. d \in Int BY <1>1
<1>3. NrBuffers * d = NrBuffers * q - NrBuffers * (x \div NrBuffers)
  BY <1>1, NrBuffersIs
<1>x. x = NrBuffers * q + s /\ NrBuffers * q \in Int /\ s \in Int
  BY NrBuffersIs
<1>4. NrBuffers * d = (x % NrBuffers) - s
  <2>1. x % NrBuffers \in Int /\ NrBuffers * (x \div NrBuffers) \in Int
    BY <1>1, NrBuffersIs
  <2> HIDE DEF x, d
  <2>2. QED BY <1>1, <1>3, <1>x, <2>1
<1>5. NrBuffers * d < NrBuffers /\ -NrBuffers < NrBuffers * d
  BY <1>1, <1>4, NrBuffersIs
<1>6. d = 0
  <2> HIDE DEF d
  <2> QED BY <1>2, <1>5, SmallMultiple
<1>7. NrBuffers * d = 0 BY <1>6, NrBuffersIs
<1>8. QED BY <1>1, <1>4, <1>7, NrBuffersIs

\* Places less than a turn apart have different slots.
LEMMA SlotFacts ==
  ASSUME NEW i \in Nat
  PROVE  /\ Slot(i) \in Slots
         /\ Next1(Slot(i)) = Slot(i + 1)
         /\ \A j \in Nat : /\ -NrBuffers < j - i /\ j - i < NrBuffers
                           /\ Slot(i) = Slot(j)
                           => i = j
<1> DEFINE q == i \div NrBuffers
<1> DEFINE r == i % NrBuffers
<1>1. r \in Slots /\ r \in Int /\ q \in Int /\ i = NrBuffers * q + r
  BY Quotient, NrBuffersIs DEF Slots
<1>2. i % NrBuffers \in Slots BY <1>1
<1>3. (r + 1) % NrBuffers = (i + 1) % NrBuffers
  <2> HIDE DEF q, r
  <2>1. CASE r + 1 < NrBuffers
    <3>1. /\ i + 1 = NrBuffers * q + (r + 1) /\ r + 1 = NrBuffers * 0 + (r + 1)
          /\ r + 1 \in 0 .. NrBuffers - 1
      BY <1>1, <2>1, NrBuffersIs DEF Slots
    <3>2. QED BY <1>1, <3>1, RemainderIs
  <2>2. CASE ~(r + 1 < NrBuffers)
    <3>1. /\ NrBuffers * (q + 1) = NrBuffers * q + NrBuffers
          /\ NrBuffers * q \in Int /\ q + 1 \in Int
          /\ NrBuffers * 1 = NrBuffers /\ r + 1 = NrBuffers
      BY <1>1, <2>2, NrBuffersIs DEF Slots
    <3>2. /\ i + 1 = NrBuffers * (q + 1) + 0 /\ r + 1 = NrBuffers * 1 + 0
          /\ 0 \in 0 .. NrBuffers - 1
      BY <1>1, <3>1, NrBuffersIs
    <3>3. QED BY <3>1, <3>2, RemainderIs
  <2>3. QED BY <2>1, <2>2
<1>4. ASSUME NEW j \in Nat, -NrBuffers < j - i, j - i < NrBuffers,
             Slot(i) = Slot(j)
      PROVE  i = j
  <2>1. i - j < NrBuffers BY <1>4, NrBuffersIs
  <2>2. QED BY <1>4, <2>1, SameRemainder DEF Slot
<1>5. QED BY <1>2, <1>3, <1>4 DEF Slot, Next1

\* The ends are two, each the peer of the other.
LEMMA EndFacts ==
  ASSUME NEW e \in Ends
  PROVE  /\ Peer(e) \in Ends /\ Peer(Peer(e)) = e /\ Peer(e) # e
         /\ \A x \in Ends : x = e \/ x = Peer(e)
BY DEF Ends, Peer, Client, Server

\* The request for a message, whole, and with only its length to be placed.
Whole(i, g, b) == Message([id |-> i, region |-> g, addr |-> b])
LengthLeft(i, g, b) == [Whole(i, g, b) EXCEPT !.puts = Tail(@)]

\* What the device looks at in the whole request
LEMMA WholeFields ==
  ASSUME NEW i, NEW g, NEW b
  PROVE  /\ Whole(i, g, b).id = i /\ Len(Whole(i, g, b).puts) = 2
         /\ Head(Whole(i, g, b).puts) = Put(<<"rcv", b>>, <<"snd", g>>)
<1> DEFINE p == Put(<<"rcv", b>>, <<"snd", g>>)
<1> DEFINE q == Put(<<"rcv_len", b>>, <<"snd_len", g>>)
<1> DEFINE m == Whole(i, g, b)
<1>1. m = WriteRequest(i, TRUE, FALSE, <<p, q>>) BY DEF Whole, Message, PostWrite
<1> HIDE DEF p, q, m
<1>2. m.id = i /\ m.puts = <<p, q>> BY <1>1 DEF WriteRequest
<1>3. Len(<<p, q>>) = 2 /\ Head(<<p, q>>) = p OBVIOUS
<1>4. QED BY <1>2, <1>3 DEF m, p

\* and in what is left.
LEMMA LengthLeftFields ==
  ASSUME NEW i, NEW g, NEW b
  PROVE  /\ Len(LengthLeft(i, g, b).puts) = 1
         /\ Head(LengthLeft(i, g, b).puts) = Put(<<"rcv_len", b>>, <<"snd_len", g>>)
<1> DEFINE p == Put(<<"rcv", b>>, <<"snd", g>>)
<1> DEFINE q == Put(<<"rcv_len", b>>, <<"snd_len", g>>)
<1> DEFINE m == Whole(i, g, b)
<1>1. m = WriteRequest(i, TRUE, FALSE, <<p, q>>) BY DEF Whole, Message, PostWrite
<1>2. LengthLeft(i, g, b) = [m EXCEPT !.puts = Tail(@)] BY DEF LengthLeft
<1> HIDE DEF p, q, m
<1>3. m.puts = <<p, q>> BY <1>1 DEF WriteRequest
<1>4. LengthLeft(i, g, b).puts = Tail(m.puts) BY <1>1, <1>2, <1>3 DEF WriteRequest
<1>5. Tail(<<p, q>>) = <<q>> OBVIOUS
<1>6. Len(<<q>>) = 1 /\ Head(<<q>>) = q OBVIOUS
<1>7. QED BY <1>3, <1>4, <1>5, <1>6 DEF q

\* Which of the two it is shows in the number of its parts.
LEMMA MessageParts ==
  ASSUME NEW e, NEW k, NEW i, IsMessage(e, k, i)
  PROVE  \E x \in DOMAIN waiting[e] :
           LET w == sq[e][k]  g == waiting[e][x].region  b == At(Peer(e), i) IN
           /\ waiting[e][x].id = i /\ w.id = i
           /\ IF Len(w.puts) > 1
              THEN /\ w = Whole(i, g, b)
                   /\ Head(w.puts) = Put(<<"rcv", b>>, <<"snd", g>>)
              ELSE /\ Head(w.puts) = Put(<<"rcv_len", b>>, <<"snd_len", g>>)
                   /\ mem[Peer(e)][<<"rcv", b>>] = i
<1> DEFINE b == At(Peer(e), i)
<1>1. PICK x \in DOMAIN waiting[e] :
        LET g == waiting[e][x].region IN
        /\ waiting[e][x].id = i
        /\ \/ sq[e][k] = Whole(i, g, b)
           \/ mem[Peer(e)][<<"rcv", b>>] = i /\ sq[e][k] = LengthLeft(i, g, b)
  BY DEF IsMessage, Whole, LengthLeft
<1> DEFINE g == waiting[e][x].region
<1> DEFINE w == sq[e][k]
<1>2. /\ waiting[e][x].id = i /\ w.id = i
      /\ \/ w = Whole(i, g, b)
         \/ mem[Peer(e)][<<"rcv", b>>] = i /\ w = LengthLeft(i, g, b)
  BY <1>1 DEF IsMessage
<1> HIDE DEF b, g, w
<1>3. IF Len(w.puts) > 1
      THEN /\ w = Whole(i, g, b)
           /\ Head(w.puts) = Put(<<"rcv", b>>, <<"snd", g>>)
      ELSE /\ Head(w.puts) = Put(<<"rcv_len", b>>, <<"snd_len", g>>)
           /\ mem[Peer(e)][<<"rcv", b>>] = i
  <2>1. CASE w = Whole(i, g, b) BY <2>1, WholeFields
  <2>2. CASE mem[Peer(e)][<<"rcv", b>>] = i /\ w = LengthLeft(i, g, b)
    <3>0. /\ Len(LengthLeft(i, g, b).puts) = 1
          /\ Head(LengthLeft(i, g, b).puts) = Put(<<"rcv_len", b>>, <<"snd_len", g>>)
      BY LengthLeftFields
    <3>1. Len(w.puts) = 1 /\ Head(w.puts) = Put(<<"rcv_len", b>>, <<"snd_len", g>>)
      BY ONLY <2>2, <3>0
    <3>2. ~(Len(w.puts) > 1) BY <3>1
    <3>3. QED BY <2>2, <3>1, <3>2
  <2>3. QED BY <1>2, <2>1, <2>2
<1>4. QED BY <1>2, <1>3 DEF b, g, w

\* The request for a descriptor.
LEMMA DescriptorFields ==
  ASSUME NEW j, NEW v
  PROVE  LET d == PostWriteInline(0, <<"target", j>>, v)
         IN  /\ d.id = 0 /\ d.op = "WRITE" /\ d.signaled = TRUE
             /\ Len(d.puts) = 1 /\ Head(d.puts) = PutInline(<<"target", j>>, v)
BY DEF PostWriteInline, WriteRequest

\* Requests are what Shapes says they are.
LEMMA RequestsTyped ==
  ASSUME NEW i \in Nat, NEW g \in 1 .. Regions, NEW b \in Buffers,
         NEW j \in Slots
  PROVE  /\ Message([id |-> i, region |-> g, addr |-> b]) \in Requests
         /\ PostWriteInline(0, <<"target", j>>, Descriptor(b)) \in Requests
<1>1. /\ <<"rcv", b>> \in Locations /\ <<"rcv_len", b>> \in Locations
      /\ <<"snd", g>> \in Locations /\ <<"snd_len", g>> \in Locations
      /\ <<"target", j>> \in Locations
  BY DEF Locations
<1>2. /\ Put(<<"rcv", b>>, <<"snd", g>>) \in Parts
      /\ Put(<<"rcv_len", b>>, <<"snd_len", g>>) \in Parts
      /\ PutInline(<<"target", j>>, Descriptor(b)) \in Parts
  BY <1>1 DEF Put, PutInline, Parts, Descriptor, Descriptors
<1>3. QED
  BY <1>2 DEF Message, PostWrite, PostWriteInline, WriteRequest, Requests

\* A cell of memory is written, and nothing else of it.
LEMMA CellWritten ==
  ASSUME NEW m \in [Ends -> [Locations -> Nat \cup Descriptors]],
         NEW e \in Ends, NEW l \in Locations, NEW v \in Nat \cup Descriptors
  PROVE  LET m2 == [m EXCEPT ![e][l] = v]
         IN  /\ m2 \in [Ends -> [Locations -> Nat \cup Descriptors]]
             /\ \A x \in Ends, k \in Locations :
                  m2[x][k] = IF x = e /\ k = l THEN v ELSE m[x][k]
OBVIOUS

\* Locations differ if their kinds or their numbers do.
LEMMA LocationFacts ==
  /\ \A j \in Slots : <<"target", j>> \in Locations
  /\ \A b \in Buffers : <<"rcv", b>> \in Locations /\ <<"rcv_len", b>> \in Locations
  /\ \A g \in 1 .. Regions :
       <<"snd", g>> \in Locations /\ <<"snd_len", g>> \in Locations
  /\ \A k, x, l, y : <<k, x>> = <<l, y>> => k = l /\ x = y
BY DEF Locations

-----------------------------------------------------------------------------
(* What each part of the invariant depends on.  F2, D2, L2 and n2 are the     *)
(* counts and numbers after a step.                                           *)

Counted(F, D, L, n) ==
  F \in [Ends -> Nat] /\ D \in [Ends -> Nat] /\ L \in [Ends -> Nat]
    /\ n \in [Ends -> Seq(Nat)]

Good(F, D, L, n) == TypeOK /\ Shapes /\ Counted(F, D, L, n) /\ Agree(F, D, L, n)

\* The messages an end took in are in turn: its own counters decide.
LEMMA InTurnKept ==
  ASSUME NEW e \in Ends, NEW F, NEW D, NEW L, NEW F2, NEW D2, NEW L2,
         InTurn(e, F, D, L), F2[e] = F[e], D2[e] = D[e], L2[e] = L[e],
         received'[e] = received[e], Posted(Peer(e))' = Posted(Peer(e)),
         rcv_head'[e] = rcv_head[e], rcv_tail'[e] = rcv_tail[e]
  PROVE  InTurn(e, F2, D2, L2)'
BY DEF InTurn

\* A receive buffer has one owner: the credits out and what is held decide.
LEMMA OneOwnerKept ==
  ASSUME NEW e \in Ends, NEW F, NEW F2, OneOwner(e, F), F2[e] = F[e],
         received'[e] = received[e], rcv_buffers'[e] = rcv_buffers[e],
         held'[e] = held[e], duplex' = duplex
  PROVE  OneOwner(e, F2)'
BY DEF OneOwner, At, Receives

\* A credit that has landed names the buffer it was posted for.
LEMMA TargetsKept ==
  ASSUME NEW e \in Ends, NEW D, NEW D2, TargetsKnown(e, D), D2[e] = D[e],
         D[e] \in Nat, Posted(Peer(e)) \in Nat,
         Posted(Peer(e))' = Posted(Peer(e)),
         \A i \in Posted(Peer(e)) + 1 .. D[e] : At(e, i)' = At(e, i),
         \A j \in Slots :
           mem'[Peer(e)][<<"target", j>>] = mem[Peer(e)][<<"target", j>>]
  PROVE  TargetsKnown(e, D2)'
<1>1. \A i \in Posted(Peer(e)) + 1 .. D[e] : Slot(i) \in Slots BY SlotFacts
<1>2. QED BY <1>1 DEF TargetsKnown

\* What has landed in a buffer stays while that message is to be received.
LEMMA BuffersStay ==
  ASSUME NEW e \in Ends, NEW F, NEW L, NEW F2, NEW L2,
         BuffersFilled(e, F, L), F2[e] = F[e], L2[e] = L[e],
         received'[e] = received[e], held'[e] = held[e],
         \A i \in received[e] + 1 .. F[e] :
           At(e, i)' = At(e, i) /\ At(e, i) \in Buffers,
         L[e] <= F[e], L[e] \in Nat, F[e] \in Nat, received[e] \in Nat,
         received[e] <= L[e],
         held[e] \subseteq [buf : Buffers, msg : Nat],
         pc'[e] = "freeing" => pc[e] = "freeing" /\ arg'[e] = arg[e],
         \A b \in Buffers : /\ mem'[e][<<"rcv", b>>] = mem[e][<<"rcv", b>>]
                            /\ mem'[e][<<"rcv_len", b>>] = mem[e][<<"rcv_len", b>>]
  PROVE  BuffersFilled(e, F2, L2)'
<1>1. \A i \in received[e] + 1 .. L[e] : i \in received[e] + 1 .. F[e] OBVIOUS
<1>2. \A i \in L[e] + 1 .. F[e] : i \in received[e] + 1 .. F[e] OBVIOUS
<1>3. \A h \in held[e] : h.buf \in Buffers OBVIOUS
<1>4. \A i \in received[e] + 1 .. L[e] :
        mem'[e][<<"rcv_len", At(e, i)'>>] = 1 /\ mem'[e][<<"rcv", At(e, i)'>>] = i
  BY <1>1 DEF BuffersFilled
<1>5. \A i \in L[e] + 1 .. F[e] : mem'[e][<<"rcv_len", At(e, i)'>>] = 0
  BY <1>2 DEF BuffersFilled
<1>6. \A h \in held'[e] : h.msg > 0 => mem'[e][<<"rcv", h.buf>>] = h.msg
  BY <1>3 DEF BuffersFilled
<1>7. pc'[e] = "freeing" =>
        arg'[e] \in held'[e] /\ mem'[e][<<"rcv_len", arg'[e].buf>>] = 0
  BY <1>3 DEF BuffersFilled
<1>8. QED BY <1>4, <1>5, <1>6, <1>7 DEF BuffersFilled

\* The requests on their way are in order, whatever the other end does.
LEMMA RequestsStay ==
  ASSUME NEW e \in Ends, NEW F, NEW D, NEW L, NEW n,
         NEW F2, NEW D2, NEW L2, NEW n2,
         RequestsInOrder(e, F, D, L, n),
         F2[e] = F[e], D2[e] = D[e], L2[Peer(e)] = L[Peer(e)], n2[e] = n[e],
         sq'[e] = sq[e], Posted(e)' = Posted(e),
         \A i \in D[e] + 1 .. F[e] : At(e, i)' = At(e, i),
         \A i \in L[Peer(e)] + 1 .. Posted(e) :
           /\ At(Peer(e), i)' = At(Peer(e), i)
           /\ mem'[Peer(e)][<<"rcv", At(Peer(e), i)>>]
                = mem[Peer(e)][<<"rcv", At(Peer(e), i)>>],
         \A x \in DOMAIN waiting[e] :
           waiting[e][x].id \in L[Peer(e)] + 1 .. Posted(e)
             => \E y \in DOMAIN waiting'[e] : waiting'[e][y] = waiting[e][x]
  PROVE  RequestsInOrder(e, F2, D2, L2, n2)'
<1> DEFINE Lo == L[Peer(e)] + 1 .. Posted(e)
<1>1. ASSUME NEW k, NEW i \in Lo, IsMessage(e, k, i) PROVE IsMessage(e, k, i)'
  <2>1. PICK x \in DOMAIN waiting[e] :
          LET m == Message([id |-> i, region |-> waiting[e][x].region,
                            addr |-> At(Peer(e), i)])
          IN  /\ waiting[e][x].id = i
              /\ \/ sq[e][k] = m
                 \/ /\ k = 1 /\ mem[Peer(e)][<<"rcv", At(Peer(e), i)>>] = i
                    /\ sq[e][k] = [m EXCEPT !.puts = Tail(@)]
    BY <1>1 DEF IsMessage
  <2>2. PICK y \in DOMAIN waiting'[e] : waiting'[e][y] = waiting[e][x] BY <2>1
  <2>3. sq[e][k].id = i BY <1>1 DEF IsMessage
  <2>4. QED BY <1>1, <2>1, <2>2, <2>3, ZenonT(60) DEF IsMessage
<1>2. \A k, i : i \in D[e] + 1 .. F[e] /\ IsDescriptor(e, k, i)
                  => IsDescriptor(e, k, i)'
  BY DEF IsDescriptor
<1>3. QED BY <1>1, <1>2 DEF RequestsInOrder

\* A region still being read holds its message.
LEMMA RegionsStay ==
  ASSUME NEW e \in Ends, NEW D, NEW D2, RegionsKept(e, D),
         D[Peer(e)] \in Nat, D2[Peer(e)] \in Nat, D[Peer(e)] <= D2[Peer(e)],
         waiting'[e] = waiting[e], next_id'[e] = next_id[e],
         pc'[e] = "sending" <=> pc[e] = "sending",
         pc[e] = "sending" => At(Peer(e), Sent(e))' = At(Peer(e), Sent(e)),
         pc'[e] = "waiting" => pc[e] = "waiting",
         pc[e] \in {"sending", "waiting"} => arg'[e] = arg[e],
         \A g \in 1 .. Regions :
           /\ mem'[e][<<"snd", g>>] = mem[e][<<"snd", g>>]
           /\ mem'[e][<<"snd_len", g>>] = mem[e][<<"snd_len", g>>]
  PROVE  RegionsKept(e, D2)'
<1>1. Sent(e)' = Sent(e) /\ Posted(e)' = Posted(e) BY DEF Sent, Posted
<1>2. Used(e)' = Used(e) BY DEF Used
<1>3. \A i : i \in 1 .. D[Peer(e)] => i \in 1 .. D2[Peer(e)] OBVIOUS
<1>4. \A x \in DOMAIN waiting'[e] :
        LET w == waiting'[e][x] IN
        /\ w \in [id : 1 .. Posted(e)', region : 1 .. Regions]
        /\ mem'[e][<<"snd", w.region>>] = w.id
        /\ mem'[e][<<"snd_len", w.region>>] = 1
  BY <1>1 DEF RegionsKept
<1>5. \A x, y \in DOMAIN waiting'[e] :
        x # y => /\ waiting'[e][x].region # waiting'[e][y].region
                 /\ waiting'[e][x].id # waiting'[e][y].id
  BY DEF RegionsKept
<1>6. pc'[e] = "sending" =>
        LET a == arg'[e] IN
        /\ a.id = Sent(e)' /\ a.id \in 1 .. D2[Peer(e)]
        /\ a.addr = rcv_buffers'[Peer(e)][Slot(a.id)].addr
        /\ a.region \in (1 .. Regions) \ Used(e)'
        /\ mem'[e][<<"snd", a.region>>] = a.id
        /\ mem'[e][<<"snd_len", a.region>>] = 1
  <2>0. SUFFICES ASSUME pc'[e] = "sending"
        PROVE  LET a == arg'[e] IN
               /\ a.id = Sent(e)' /\ a.id \in 1 .. D2[Peer(e)]
               /\ a.addr = rcv_buffers'[Peer(e)][Slot(a.id)].addr
               /\ a.region \in (1 .. Regions) \ Used(e)'
               /\ mem'[e][<<"snd", a.region>>] = a.id
               /\ mem'[e][<<"snd_len", a.region>>] = 1
    OBVIOUS
  <2>1. pc[e] = "sending" /\ arg'[e] = arg[e] BY <2>0
  <2>2. /\ arg[e].id = Sent(e) /\ arg[e].id \in 1 .. D[Peer(e)]
        /\ arg[e].addr = At(Peer(e), arg[e].id)
        /\ arg[e].region \in (1 .. Regions) \ Used(e)
        /\ mem[e][<<"snd", arg[e].region>>] = arg[e].id
        /\ mem[e][<<"snd_len", arg[e].region>>] = 1
    BY <2>1 DEF RegionsKept
  <2>3. arg[e].addr = rcv_buffers'[Peer(e)][Slot(Sent(e))].addr
    BY <1>1, <2>1, <2>2 DEF At
  <2>4. QED BY <1>1, <1>2, <1>3, <2>1, <2>2, <2>3
<1>7. pc'[e] = "waiting" => waiting'[e] # <<>> /\ arg'[e] = waiting'[e][1].id
  BY DEF RegionsKept
<1>8. QED BY <1>4, <1>5, <1>6, <1>7 DEF RegionsKept, At

\* What a completion reports has landed.
LEMMA CompletedKept ==
  ASSUME NEW e \in Ends, NEW L, NEW L2, CompletedLanded(e, L),
         L2[Peer(e)] = L[Peer(e)], ackd_id'[e] = ackd_id[e], scq'[e] = scq[e],
         flight'[e] = flight[e]
  PROVE  CompletedLanded(e, L2)'
BY DEF CompletedLanded

-----------------------------------------------------------------------------
(* Facts used throughout *)

\* The counts of a good state, in their order.
LEMMA CountFacts ==
  ASSUME NEW F, NEW D, NEW L, NEW n, Good(F, D, L, n), NEW e \in Ends
  PROVE  /\ F[e] \in Nat /\ D[e] \in Nat /\ L[e] \in Nat /\ NrBuffers \in Nat \ {0}
         /\ received[e] \in Nat /\ Sent(e) \in Nat /\ Posted(Peer(e)) \in Nat
         /\ received[e] <= L[e] /\ L[e] <= Posted(Peer(e))
         /\ Posted(Peer(e)) <= D[e] /\ D[e] <= F[e]
         /\ F[e] <= received[e] + NrBuffers
         /\ Posted(Peer(e)) = IF pc[Peer(e)] = "sending" THEN Sent(Peer(e)) - 1
                                                         ELSE Sent(Peer(e))
<1>1. /\ F[e] \in Nat /\ D[e] \in Nat /\ L[e] \in Nat BY DEF Good, Counted
<1>2. Limit \in Nat BY DirectWriteAssumption DEF Limit
<1>3. \A x \in Ends : received[x] \in Nat /\ next_id[x] \in Nat \ {0}
  BY <1>2 DEF Good, TypeOK
<1>4. InTurn(e, F, D, L) BY DEF Good, Agree
<1>5. NrBuffers \in Nat \ {0} BY NrBuffersIs
<1>6. Peer(e) \in Ends BY EndFacts
<1>7. Posted(Peer(e)) \in Int BY <1>3, <1>6 DEF Posted, Sent
<1>8. QED BY <1>1, <1>3, <1>4, <1>5, <1>6, <1>7 DEF InTurn, Posted, Sent

\* The buffers awaited, which are those of the last frees.
LEMMA AwaitedFacts ==
  ASSUME NEW F, NEW D, NEW L, NEW n, Good(F, D, L, n), NEW e \in Ends,
         NEW i \in received[e] + 1 .. F[e]
  PROVE  /\ i \in Nat /\ Slot(i) \in Slots /\ At(e, i) \in Buffers
         /\ rcv_buffers[e][Slot(i)] = Descriptor(At(e, i))
         /\ \A j \in received[e] + 1 .. F[e] :
              Slot(i) = Slot(j) \/ At(e, i) = At(e, j) => i = j
         /\ Slot(i) = Slot(F[e] + 1) => F[e] + 1 = i + NrBuffers
<1>1. /\ F[e] \in Nat /\ received[e] \in Nat /\ NrBuffers \in Nat \ {0}
      /\ F[e] <= received[e] + NrBuffers
  BY CountFacts
<1>2. i \in Nat /\ F[e] + 1 \in Nat BY <1>1
<1>3. Slot(i) \in Slots BY <1>2, SlotFacts
<1>4. OneOwner(e, F) BY DEF Good, Agree
<1>5. \A j \in received[e] + 1 .. F[e] : Slot(i) = Slot(j) => i = j
  <2>1. SUFFICES ASSUME NEW j \in received[e] + 1 .. F[e], Slot(i) = Slot(j)
        PROVE  i = j
    OBVIOUS
  <2>2. j \in Nat /\ -NrBuffers < j - i /\ j - i < NrBuffers BY <1>1
  <2>3. QED BY <1>2, <2>1, <2>2, SlotFacts
<1>6. Slot(i) = Slot(F[e] + 1) => F[e] + 1 = i + NrBuffers
  <2>1. SUFFICES ASSUME Slot(i) = Slot(F[e] + 1), F[e] + 1 # i + NrBuffers
        PROVE  FALSE
    OBVIOUS
  <2> DEFINE j == F[e] + 1
  <2>2. -NrBuffers < j - i /\ j - i < NrBuffers BY <1>1, <2>1
  <2>3. j \in Nat /\ Slot(i) = Slot(j) BY <1>2, <2>1
  <2>4. i # j BY <1>1
  <2> HIDE DEF j
  <2>5. QED BY <1>2, <2>2, <2>3, <2>4, SlotFacts
<1>7. QED BY <1>2, <1>3, <1>4, <1>5, <1>6 DEF OneOwner

\* The parts of the invariant at one end.
LEMMA PartsOf ==
  ASSUME NEW F, NEW D, NEW L, NEW n, Good(F, D, L, n), NEW e \in Ends
  PROVE  /\ InTurn(e, F, D, L) /\ OneOwner(e, F) /\ TargetsKnown(e, D)
         /\ BuffersFilled(e, F, L) /\ RequestsInOrder(e, F, D, L, n)
         /\ RegionsKept(e, D) /\ CompletedLanded(e, L)
BY DEF Good, Agree

-----------------------------------------------------------------------------
(* Waiting for a send *)

\* The steps of Wait change what one end waits for and learned, nothing else.
LEMMA WaitStep ==
  ASSUME NEW F, NEW D, NEW L, NEW n, Good(F, D, L, n), NEW a \in Ends,
         UNCHANGED <<mem, sq, flight, next_id, rcv_buffers, rcv_head, rcv_tail,
                     duplex, received, held>>,
         pc[a] \notin {"sending", "freeing"}, pc'[a] \notin {"sending", "freeing"},
         \A x \in Ends :
           x # a => /\ pc'[x] = pc[x] /\ arg'[x] = arg[x]
                    /\ waiting'[x] = waiting[x],
         \A x \in DOMAIN waiting[a] :
           waiting[a][x].id \in L[Peer(a)] + 1 .. Posted(a)
             => \E y \in DOMAIN waiting'[a] : waiting'[a][y] = waiting[a][x],
         RegionsKept(a, D)', \A x \in Ends : CompletedLanded(x, L)'
  PROVE  Agree(F, D, L, n)'
<1>1. \A x \in Ends : Posted(x)' = Posted(x) /\ Sent(x)' = Sent(x)
  BY DEF Posted, Sent
<1>2. SUFFICES ASSUME NEW e \in Ends
               PROVE  /\ InTurn(e, F, D, L)' /\ OneOwner(e, F)'
                      /\ TargetsKnown(e, D)' /\ BuffersFilled(e, F, L)'
                      /\ RequestsInOrder(e, F, D, L, n)' /\ RegionsKept(e, D)'
                      /\ CompletedLanded(e, L)'
  BY DEF Agree
<1>3. Peer(e) \in Ends BY EndFacts
<1>4. /\ InTurn(e, F, D, L) /\ OneOwner(e, F) /\ TargetsKnown(e, D)
      /\ BuffersFilled(e, F, L) /\ RequestsInOrder(e, F, D, L, n)
      /\ RegionsKept(e, D) /\ CompletedLanded(e, L)
  BY PartsOf
<1>5. InTurn(e, F, D, L)' BY <1>1, <1>3, <1>4, InTurnKept
<1>6. OneOwner(e, F)' BY <1>4, OneOwnerKept
<1>7. TargetsKnown(e, D)' BY <1>1, <1>3, <1>4 DEF TargetsKnown, At
<1>8. BuffersFilled(e, F, L)' BY <1>4 DEF BuffersFilled, At
<1>9. RequestsInOrder(e, F, D, L, n)'
  BY <1>1, <1>3, <1>4, RequestsStay DEF At
<1>10. RegionsKept(e, D)'
  <2>1. D[Peer(e)] \in Nat BY <1>3 DEF Good, Counted
  <2>2. CASE e # a BY <1>3, <1>4, <2>1, <2>2, RegionsStay DEF At, Sent
  <2>3. QED BY <2>2
<1>11. QED BY <1>5, <1>6, <1>7, <1>8, <1>9, <1>10

\* Wait is called.
LEMMA WaitStartInv ==
  ASSUME NEW F, NEW D, NEW L, NEW n, Good(F, D, L, n), NEW a \in Ends,
         WaitStart(a)
  PROVE  Good(F, D, L, n)'
<1>1. TypeOK /\ Shapes /\ Counted(F, D, L, n) BY DEF Good
<1>2. /\ pc[a] = "idle" /\ waiting[a] # <<>>
      /\ pc' = [pc EXCEPT ![a] = "waiting"]
      /\ arg' = [arg EXCEPT ![a] = Head(waiting[a]).id]
      /\ UNCHANGED <<mem, sq, flight, scq, next_id, ackd_id, rcv_buffers,
                     rcv_head, rcv_tail, duplex, waiting, received, held>>
  BY DEF WaitStart, Idle, Goto, qpVars, dwVars, callerVars
<1>3. /\ pc'[a] = "waiting" /\ arg'[a] = waiting[a][1].id
      /\ \A x \in Ends : x # a => pc'[x] = pc[x] /\ arg'[x] = arg[x]
  BY <1>1, <1>2 DEF TypeOK, Shapes
<1>4. TypeOK'
  <2>1. pc' \in [Ends -> {"setup", "idle", "sending", "waiting", "freeing"}]
    BY <1>1, <1>2 DEF TypeOK
  <2>2. Limit' = Limit /\ \A e \in Ends : Used(e)' = Used(e)
    BY <1>2 DEF Limit, Used
  <2>3. QED BY <1>1, <1>2, <2>1, <2>2 DEF TypeOK
<1>5. Shapes' BY <1>1, <1>2 DEF Shapes
<1>6. RegionsKept(a, D)'
  <2>1. RegionsKept(a, D) BY PartsOf
  <2>2. Posted(a)' = Posted(a) /\ Used(a)' = Used(a)
    BY <1>2, <1>3 DEF Posted, Sent, Used
  <2>3. QED BY <1>2, <1>3, <2>1, <2>2 DEF RegionsKept
<1>7. \A x \in Ends : CompletedLanded(x, L)'
  BY <1>2, PartsOf, CompletedKept
<1>8. Agree(F, D, L, n)' BY <1>2, <1>3, <1>6, <1>7, WaitStep
<1>9. QED BY <1>1, <1>4, <1>5, <1>8 DEF Good, Counted

\* A completion that was polled is that of a descriptor, or of a message that
\* landed.
LEMMA WaitPollInv ==
  ASSUME NEW F, NEW D, NEW L, NEW n, Good(F, D, L, n), NEW a \in Ends,
         WaitPoll(a)
  PROVE  Good(F, D, L, n)'
<1>1. TypeOK /\ Shapes /\ Counted(F, D, L, n) BY DEF Good
<1>2. /\ pc[a] = "waiting" /\ scq[a] # <<>>
      /\ scq' = [scq EXCEPT ![a] = Tail(scq[a])]
      /\ ackd_id' = [ackd_id EXCEPT ![a] = Head(scq[a])]
      /\ UNCHANGED <<mem, sq, flight, next_id, rcv_buffers, rcv_head, rcv_tail,
                     pc, arg, duplex, waiting, received, held>>
  BY DEF WaitPoll, PollSendCq, Polled, callerVars
<1>3. /\ scq'[a] = Tail(scq[a]) /\ ackd_id'[a] = Head(scq[a])
      /\ \A x \in Ends : x # a => scq'[x] = scq[x] /\ ackd_id'[x] = ackd_id[x]
  BY <1>1, <1>2 DEF TypeOK, Shapes
<1>4. \A x \in Ends : CompletedLanded(x, L)'
  <2>1. SUFFICES ASSUME NEW x \in Ends PROVE CompletedLanded(x, L)' OBVIOUS
  <2>2. CompletedLanded(x, L) BY PartsOf
  <2>3. CASE x # a BY <1>2, <1>3, <2>2, <2>3, CompletedKept
  <2>4. CASE x = a
    <3> DEFINE s == scq[a]
    <3>1. s \in Seq(Nat) /\ s # <<>> BY <1>1, <1>2 DEF Shapes
    <3>2. \A k \in DOMAIN s : s[k] \in 0 .. L[Peer(a)]
      BY <2>2, <2>4 DEF CompletedLanded
    <3> HIDE DEF s
    <3>3. Head(s) \in 0 .. L[Peer(a)] BY <3>1, <3>2
    <3>4. \A k \in DOMAIN Tail(s) : Tail(s)[k] \in 0 .. L[Peer(a)]
      BY <3>1, <3>2
    <3>5. QED BY <1>2, <1>3, <2>2, <2>4, <3>3, <3>4 DEF CompletedLanded, s
  <2>5. QED BY <2>3, <2>4
<1>5. TypeOK'
  <2>1. ackd_id'[a] \in 0 .. Limit
    <3>1. Peer(a) \in Ends /\ Peer(Peer(a)) = a BY EndFacts
    <3>2. /\ L[Peer(a)] \in Nat /\ L[Peer(a)] <= Posted(a) /\ Sent(a) \in Nat
          /\ Posted(a) \in Nat /\ Posted(a) <= Sent(a)
      BY <3>1, CountFacts
    <3>3. Sent(a) <= Limit /\ Limit \in Nat
      BY <1>1, DirectWriteAssumption DEF TypeOK, Sent, Limit
    <3>4. ackd_id'[a] \in 0 .. L[Peer(a)] BY <1>4 DEF CompletedLanded
    <3>5. QED BY <3>2, <3>3, <3>4
  <2>2. ackd_id' \in [Ends -> 0 .. Limit] BY <1>1, <1>2, <1>3, <2>1 DEF TypeOK
  <2>3. Limit' = Limit /\ \A e \in Ends : Used(e)' = Used(e)
    BY <1>2 DEF Limit, Used
  <2>4. QED BY <1>1, <1>2, <2>2, <2>3 DEF TypeOK
<1>6. Shapes'
  <2>1. scq[a] \in Seq(Nat) /\ scq[a] # <<>> BY <1>1, <1>2 DEF Shapes
  <2>2. Tail(scq[a]) \in Seq(Nat) BY <2>1
  <2>3. scq' \in [Ends -> Seq(Nat)] BY <1>1, <1>2, <2>2 DEF Shapes
  <2>4. QED BY <1>1, <1>2, <2>3 DEF Shapes
<1>7. RegionsKept(a, D)'
  <2>1. RegionsKept(a, D) BY PartsOf
  <2>2. Posted(a)' = Posted(a) /\ Used(a)' = Used(a)
    BY <1>2 DEF Posted, Sent, Used
  <2>3. QED BY <1>2, <2>1, <2>2 DEF RegionsKept
<1>8. Agree(F, D, L, n)' BY <1>2, <1>4, <1>7, WaitStep
<1>9. QED BY <1>1, <1>5, <1>6, <1>8 DEF Good, Counted

\* Sends not waited for use a region each.
LEMMA RegionCount ==
  ASSUME NEW T, NEW s \in Seq(T),
         \A x, y \in DOMAIN s : x # y => s[x].region # s[y].region
  PROVE  Cardinality({s[i].region : i \in DOMAIN s}) = Len(s)
<1> DEFINE m == Len(s)
<1> DEFINE U == {s[i].region : i \in DOMAIN s}
<1> DEFINE f == [i \in 1 .. m |-> s[i].region]
<1>1. m \in Nat /\ DOMAIN s = 1 .. m OBVIOUS
<1> HIDE DEF m
<1>2. f \in Bijection(1 .. m, U)
  <2>1. f \in [1 .. m -> U] BY <1>1
  <2>2. \A i, j \in 1 .. m : f[i] = f[j] => i = j BY <1>1
  <2>3. \A x \in U : \E i \in 1 .. m : f[i] = x BY <1>1
  <2> HIDE DEF f, U
  <2>4. QED BY <2>1, <2>2, <2>3 DEF Bijection, Injection, IsInjective, Surjection
<1>3. ExistsBijection(1 .. m, U) BY <1>2 DEF ExistsBijection
<1>4. IsFiniteSet(1 .. m) /\ Cardinality(1 .. m) = m
  <2>1. /\ IsFiniteSet(1 .. m)
        /\ Cardinality(1 .. m) = IF 1 > m THEN 0 ELSE m - 1 + 1
    BY <1>1, FS_Interval
  <2>2. QED BY <1>1, <2>1
<1> HIDE DEF U
<1>5. Cardinality(U) = m BY <1>3, <1>4, FS_Bijection
<1>6. QED BY <1>5 DEF U, m

\* Wait returns when the message it is about has landed: no request on its way
\* uses the region any more.
LEMMA WaitReturnInv ==
  ASSUME NEW F, NEW D, NEW L, NEW n, Good(F, D, L, n), NEW a \in Ends,
         WaitReturn(a)
  PROVE  Good(F, D, L, n)'
<1>1. TypeOK /\ Shapes /\ Counted(F, D, L, n) BY DEF Good
<1>2. /\ pc[a] = "waiting" /\ ackd_id[a] >= arg[a]
      /\ waiting' = [waiting EXCEPT ![a] = Tail(waiting[a])]
      /\ pc' = [pc EXCEPT ![a] = "idle"] /\ arg' = [arg EXCEPT ![a] = 0]
      /\ UNCHANGED <<mem, sq, flight, scq, next_id, ackd_id, rcv_buffers,
                     rcv_head, rcv_tail, duplex, received, held>>
  BY DEF WaitReturn, Goto, qpVars, dwVars
<1> DEFINE s == waiting[a]
<1>3. /\ pc'[a] = "idle" /\ waiting'[a] = Tail(s)
      /\ \A x \in Ends : x # a => /\ pc'[x] = pc[x] /\ arg'[x] = arg[x]
                                  /\ waiting'[x] = waiting[x]
  BY <1>1, <1>2 DEF TypeOK, Shapes
<1>4. RegionsKept(a, D) /\ CompletedLanded(a, L) BY PartsOf
<1>5. /\ s \in Seq([id : Nat, region : 1 .. Regions]) /\ s # <<>>
      /\ arg[a] = s[1].id
  BY <1>1, <1>2, <1>4 DEF Shapes, RegionsKept
<1>6. /\ \A x \in DOMAIN Tail(s) : x + 1 \in DOMAIN s /\ Tail(s)[x] = s[x + 1]
      /\ \A x \in DOMAIN s : x = 1 \/ (x - 1 \in DOMAIN Tail(s)
                                        /\ Tail(s)[x - 1] = s[x])
      /\ DOMAIN Tail(s) \subseteq Nat /\ 1 \in DOMAIN s
      /\ Tail(s) \in Seq([id : Nat, region : 1 .. Regions])
  <2> HIDE DEF s
  <2>1. QED BY <1>5
<1>7. \A x \in DOMAIN s : s[x].id \in L[Peer(a)] + 1 .. Posted(a)
        => \E y \in DOMAIN waiting'[a] : waiting'[a][y] = s[x]
  <2>1. SUFFICES ASSUME NEW x \in DOMAIN s, s[x].id \in L[Peer(a)] + 1 .. Posted(a)
        PROVE  x # 1
    BY <1>3, <1>6, ZenonT(60)
  <2>2. Peer(a) \in Ends BY EndFacts
  <2>3. L[Peer(a)] \in Nat BY <1>1, <2>2 DEF Counted
  <2>4. s[1].id \in Nat
    <3> HIDE DEF s
    <3> DEFINE W == [id : Nat, region : 1 .. Regions]
    <3>1. s \in Seq(W) /\ 1 \in DOMAIN s BY <1>5, <1>6
    <3>2. W = [id : Nat, region : 1 .. Regions] OBVIOUS
    <3> HIDE DEF W
    <3>3. s[1] \in W BY ONLY <3>1
    <3>4. QED BY <3>2, <3>3
  <2>5. ackd_id[a] \in 0 .. L[Peer(a)] BY <1>4 DEF CompletedLanded
  <2>6. ~(L[Peer(a)] + 1 <= s[1].id) BY <1>2, <1>5, <2>3, <2>4, <2>5, SMTT(30)
  <2>7. QED BY <2>1, <2>6
<1>8. Posted(a)' = Posted(a) BY <1>2, <1>3 DEF Posted, Sent
<1>9. /\ \A x \in DOMAIN waiting'[a] :
           LET w == waiting'[a][x] IN
           /\ w \in [id : 1 .. Posted(a), region : 1 .. Regions]
           /\ mem[a][<<"snd", w.region>>] = w.id
           /\ mem[a][<<"snd_len", w.region>>] = 1
      /\ \A x, y \in DOMAIN waiting'[a] :
           x # y => /\ waiting'[a][x].region # waiting'[a][y].region
                    /\ waiting'[a][x].id # waiting'[a][y].id
  <2>1. \A x, y \in DOMAIN Tail(s) : x # y => x + 1 # y + 1 BY <1>6
  <2>2. /\ \A x \in DOMAIN s :
             LET w == s[x] IN
             /\ w \in [id : 1 .. Posted(a), region : 1 .. Regions]
             /\ mem[a][<<"snd", w.region>>] = w.id
             /\ mem[a][<<"snd_len", w.region>>] = 1
        /\ \A x, y \in DOMAIN s : x # y => /\ s[x].region # s[y].region
                                           /\ s[x].id # s[y].id
    BY <1>4 DEF RegionsKept
  <2> DEFINE t == waiting'[a]
  <2>3. t = Tail(s) BY <1>3
  <2> HIDE DEF s, t
  <2>4. \A x \in DOMAIN t : x + 1 \in DOMAIN s /\ t[x] = s[x + 1] BY <1>6, <2>3
  <2>5. \A x \in DOMAIN t :
          LET w == t[x] IN
          /\ w \in [id : 1 .. Posted(a), region : 1 .. Regions]
          /\ mem[a][<<"snd", w.region>>] = w.id
          /\ mem[a][<<"snd_len", w.region>>] = 1
    BY <2>2, <2>4
  <2>6. \A x, y \in DOMAIN t : x # y => /\ t[x].region # t[y].region
                                       /\ t[x].id # t[y].id
    <3>1. SUFFICES ASSUME NEW x \in DOMAIN t, NEW y \in DOMAIN t, x # y
          PROVE  t[x].region # t[y].region /\ t[x].id # t[y].id
      OBVIOUS
    <3>2. x + 1 # y + 1 BY <2>1, <2>3, <3>1
    <3>3. QED BY <2>2, <2>4, <3>2
  <2>7. QED BY <2>5, <2>6 DEF t
<1>10. RegionsKept(a, D)' BY <1>2, <1>3, <1>8, <1>9 DEF RegionsKept
<1>11. \A x \in Ends : CompletedLanded(x, L)'
  BY <1>2, PartsOf, CompletedKept
<1>12. Agree(F, D, L, n)'
  <2> HIDE DEF s
  <2>1. \A x \in DOMAIN waiting[a] : waiting[a][x].id \in L[Peer(a)] + 1 .. Posted(a)
          => \E y \in DOMAIN waiting'[a] : waiting'[a][y] = waiting[a][x]
    BY <1>7 DEF s
  <2>2. QED BY <1>2, <1>3, <1>10, <1>11, <2>1, WaitStep
<1>13. TypeOK'
  <2>1. pc' \in [Ends -> {"setup", "idle", "sending", "waiting", "freeing"}]
    BY <1>1, <1>2 DEF TypeOK
  <2>2. Limit' = Limit BY <1>2 DEF Limit
  <2>3. ASSUME NEW e \in Ends
        PROVE  Cardinality(Used(e)') = Len(waiting'[e])
    <3>1. CASE e # a
      <4>1. Used(e)' = Used(e) BY <1>3, <3>1 DEF Used
      <4>2. QED BY <1>1, <1>3, <3>1, <4>1 DEF TypeOK
    <3>2. CASE e = a
      <4>1. waiting'[a] \in Seq([id : Nat, region : 1 .. Regions])
        BY <1>3, <1>6
      <4>2. Cardinality({waiting'[a][i].region : i \in DOMAIN waiting'[a]})
              = Len(waiting'[a])
        BY <1>9, <4>1, RegionCount
      <4>3. QED BY <3>2, <4>2 DEF Used
    <3>3. QED BY <3>1, <3>2
  <2>4. QED BY <1>1, <1>2, <2>1, <2>2, <2>3 DEF TypeOK
<1>14. Shapes'
  <2>1. waiting' \in [Ends -> Seq([id : Nat, region : 1 .. Regions])]
    BY <1>1, <1>2, <1>6 DEF Shapes
  <2>2. QED BY <1>1, <1>2, <2>1 DEF Shapes
<1>15. QED BY <1>1, <1>12, <1>13, <1>14 DEF Good, Counted

-----------------------------------------------------------------------------
(* Sending                                                                  *)

\* A step after which counts and requests are what they were: it remains to
\* show what it does to messages and regions.
LEMMA QuietStep ==
  ASSUME NEW F, NEW D, NEW L, NEW n, Good(F, D, L, n),
         UNCHANGED <<sq, rcv_buffers, rcv_head, rcv_tail, duplex, waiting,
                     received, held>>,
         \A x \in Ends : Posted(x)' = Posted(x),
         \A x \in Ends, j \in Slots :
           mem'[x][<<"target", j>>] = mem[x][<<"target", j>>],
         \A x \in Ends, b \in Buffers :
           mem'[x][<<"rcv", b>>] = mem[x][<<"rcv", b>>],
         \A x \in Ends : /\ BuffersFilled(x, F, L)' /\ RegionsKept(x, D)'
                         /\ CompletedLanded(x, L)'
  PROVE  Agree(F, D, L, n)'
<1>1. SUFFICES ASSUME NEW e \in Ends
               PROVE  /\ InTurn(e, F, D, L)' /\ OneOwner(e, F)'
                      /\ TargetsKnown(e, D)' /\ RequestsInOrder(e, F, D, L, n)'
  BY DEF Agree
<1>2. Peer(e) \in Ends /\ Peer(Peer(e)) = e BY EndFacts
<1>3. /\ InTurn(e, F, D, L) /\ OneOwner(e, F) /\ TargetsKnown(e, D)
      /\ RequestsInOrder(e, F, D, L, n)
  BY PartsOf
<1>4. InTurn(e, F, D, L)' BY <1>2, <1>3, InTurnKept
<1>5. OneOwner(e, F)' BY <1>3, OneOwnerKept
<1>6. TargetsKnown(e, D)'
  <2>1. D[e] \in Nat /\ Posted(Peer(e)) \in Nat BY CountFacts
  <2>2. QED BY <1>2, <1>3, <2>1, TargetsKept DEF At
<1>7. RequestsInOrder(e, F, D, L, n)'
  <2> DEFINE r == Peer(e)
  <2>1. /\ received[r] \in Nat /\ L[r] \in Nat /\ F[r] \in Nat /\ Posted(e) \in Nat
        /\ received[r] <= L[r] /\ Posted(e) <= F[r]
    BY <1>2, CountFacts
  <2>2. \A i \in L[r] + 1 .. Posted(e) : At(r, i) \in Buffers
    <3>1. \A i \in L[r] + 1 .. Posted(e) : i \in received[r] + 1 .. F[r] BY <2>1
    <3>2. QED BY <1>2, <3>1, AwaitedFacts
  <2>3. QED BY <1>2, <1>3, <2>2, RequestsStay DEF At
<1>8. QED BY <1>4, <1>5, <1>6, <1>7

\* SendAsync finds a valid descriptor in its slot: it is the one it is to use.
LEMMA SendAsyncInv ==
  ASSUME NEW F, NEW D, NEW L, NEW n, Good(F, D, L, n), NEW a \in Ends,
         SendAsync(a)
  PROVE  Good(F, D, L, n)'
<1> DEFINE r == Peer(a)
<1> DEFINE i == next_id[a]
<1>1. TypeOK /\ Shapes /\ Counted(F, D, L, n) BY DEF Good
<1>2. PICK g \in (1 .. Regions) \ Used(a) :
        /\ mem' = [mem EXCEPT ![a][<<"snd", g>>] = i, ![a][<<"snd_len", g>>] = 1]
        /\ pc' = [pc EXCEPT ![a] = "sending"]
        /\ arg' = [arg EXCEPT ![a] =
                     [region |-> g, id |-> i,
                      addr |-> mem[a][<<"target", Slot(i)>>].addr]]
  BY DEF SendAsync, Goto
<1>3. /\ pc[a] = "idle" /\ Sent(a) < Limit /\ mem[a][<<"target", Slot(i)>>].valid
      /\ next_id' = [next_id EXCEPT ![a] = i + 1]
      /\ UNCHANGED <<sq, flight, scq, ackd_id, rcv_buffers, rcv_head, rcv_tail,
                     duplex, waiting, received, held>>
  BY DEF SendAsync, MayCall, Idle, callerVars
<1>4. i \in Nat \ {0} /\ i < Limit + 1 /\ Limit \in Nat
  BY <1>1, <1>3, DirectWriteAssumption DEF TypeOK, Sent, Limit
<1>5. /\ pc'[a] = "sending" /\ next_id'[a] = i + 1
      /\ arg'[a] = [region |-> g, id |-> i,
                    addr |-> mem[a][<<"target", Slot(i)>>].addr]
      /\ \A x \in Ends : x # a => /\ pc'[x] = pc[x] /\ arg'[x] = arg[x]
                                  /\ next_id'[x] = next_id[x]
  BY <1>1, <1>2, <1>3 DEF TypeOK, Shapes
<1>6. /\ mem' \in [Ends -> [Locations -> Nat \cup Descriptors]]
      /\ \A x \in Ends, k \in Locations :
           mem'[x][k] = IF x = a /\ k = <<"snd_len", g>> THEN 1
                        ELSE IF x = a /\ k = <<"snd", g>> THEN i ELSE mem[x][k]
  <2>1. <<"snd", g>> \in Locations /\ <<"snd_len", g>> \in Locations
    BY <1>2, LocationFacts
  <2> DEFINE m == [mem EXCEPT ![a][<<"snd", g>>] = i]
  <2>2. mem' = [m EXCEPT ![a][<<"snd_len", g>>] = 1] BY <1>2
  <2>3. /\ m \in [Ends -> [Locations -> Nat \cup Descriptors]]
        /\ \A x \in Ends, k \in Locations :
             m[x][k] = IF x = a /\ k = <<"snd", g>> THEN i ELSE mem[x][k]
    BY <1>1, <1>4, <2>1, CellWritten DEF Shapes
  <2> HIDE DEF m
  <2>4. QED BY <2>1, <2>2, <2>3, CellWritten
<1>7. /\ \A x \in Ends, j \in Slots :
           mem'[x][<<"target", j>>] = mem[x][<<"target", j>>]
      /\ \A x \in Ends, b \in Buffers :
           /\ mem'[x][<<"rcv", b>>] = mem[x][<<"rcv", b>>]
           /\ mem'[x][<<"rcv_len", b>>] = mem[x][<<"rcv_len", b>>]
      /\ \A x \in Ends, k \in 1 .. Regions : x # a \/ k # g =>
           /\ mem'[x][<<"snd", k>>] = mem[x][<<"snd", k>>]
           /\ mem'[x][<<"snd_len", k>>] = mem[x][<<"snd_len", k>>]
      /\ mem'[a][<<"snd", g>>] = i /\ mem'[a][<<"snd_len", g>>] = 1
  BY <1>2, <1>6, LocationFacts
<1>8. r \in Ends /\ Peer(r) = a BY EndFacts
<1>9. /\ Posted(a) = i - 1 /\ Posted(a)' = i - 1
      /\ \A x \in Ends : Posted(x)' = Posted(x)
  BY <1>3, <1>4, <1>5 DEF Posted, Sent
<1>10. i <= D[r] /\ mem[a][<<"target", Slot(i)>>].addr = At(r, i)
  <2>1. TargetsKnown(r, D) BY <1>8, PartsOf
  <2>2. Slot(i) \in Slots BY <1>4, SlotFacts
  <2>3. PICK j \in Posted(a) + 1 .. D[r] : Slot(i) = Slot(j)
    BY <1>3, <1>8, <2>1, <2>2 DEF TargetsKnown
  <2>4. /\ D[r] \in Nat /\ D[r] <= Posted(a) + NrBuffers
        /\ NrBuffers \in Nat \ {0}
    <3>1. /\ F[r] \in Nat /\ D[r] \in Nat /\ L[r] \in Nat
          /\ received[r] \in Nat /\ NrBuffers \in Nat \ {0}
          /\ Posted(a) \in Nat /\ D[r] <= F[r]
          /\ F[r] <= received[r] + NrBuffers /\ received[r] <= L[r]
          /\ L[r] <= Posted(a)
      BY <1>8, CountFacts
    <3>2. QED BY <3>1
  <2>5. j \in Nat /\ -NrBuffers < j - i /\ j - i < NrBuffers
    BY <1>4, <1>9, <2>4
  <2>6. i = j BY <1>4, <2>3, <2>5, SlotFacts
  <2>7. mem[a][<<"target", Slot(i)>>] = Descriptor(At(r, i))
    BY <1>8, <2>1, <2>3, <2>6 DEF TargetsKnown
  <2>8. QED BY <1>4, <2>4, <2>6, <2>7 DEF Descriptor
<1>11. \A x \in Ends : BuffersFilled(x, F, L)'
  <2>1. SUFFICES ASSUME NEW x \in Ends PROVE BuffersFilled(x, F, L)' OBVIOUS
  <2>2. BuffersFilled(x, F, L) BY PartsOf
  <2>3. /\ L[x] <= F[x] /\ L[x] \in Nat /\ F[x] \in Nat
        /\ received[x] \in Nat /\ received[x] <= L[x]
    BY CountFacts
  <2>4. \A k \in received[x] + 1 .. F[x] : At(x, k)' = At(x, k) /\ At(x, k) \in Buffers
    BY <1>3, AwaitedFacts DEF At
  <2>5. pc'[x] = "freeing" => pc[x] = "freeing" /\ arg'[x] = arg[x] BY <1>5
  <2>6. held[x] \subseteq [buf : Buffers, msg : Nat] BY <1>1 DEF Shapes
  <2>7. QED BY <1>3, <1>7, <2>2, <2>3, <2>4, <2>5, <2>6, BuffersStay
<1>12. RegionsKept(a, D)'
  <2>1. RegionsKept(a, D) BY PartsOf
  <2>2. Used(a)' = Used(a) /\ Sent(a)' = i BY <1>3, <1>4, <1>5 DEF Used, Sent
  <2>3. \A x \in DOMAIN waiting[a] :
          LET w == waiting[a][x] IN
          /\ w \in [id : 1 .. Posted(a), region : 1 .. Regions]
          /\ mem'[a][<<"snd", w.region>>] = w.id
          /\ mem'[a][<<"snd_len", w.region>>] = 1
    <3>1. \A x \in DOMAIN waiting[a] : waiting[a][x].region # g
      BY <1>2 DEF Used
    <3>2. QED BY <1>7, <2>1, <3>1, SMTT(30) DEF RegionsKept
  <2>4. \A x, y \in DOMAIN waiting[a] :
          x # y => /\ waiting[a][x].region # waiting[a][y].region
                   /\ waiting[a][x].id # waiting[a][y].id
    BY <2>1 DEF RegionsKept
  <2>5. LET c == arg'[a] IN
        /\ c.id = Sent(a)' /\ c.id \in 1 .. D[r]
        /\ c.addr = rcv_buffers'[r][Slot(c.id)].addr
        /\ c.region \in (1 .. Regions) \ Used(a)'
        /\ mem'[a][<<"snd", c.region>>] = c.id
        /\ mem'[a][<<"snd_len", c.region>>] = 1
    <3>1. D[r] \in Nat /\ i \in 1 .. D[r] BY <1>1, <1>4, <1>8, <1>10 DEF Counted
    <3>2. arg'[a].region = g /\ arg'[a].id = i /\ arg'[a].addr = At(r, i)
      BY <1>5, <1>10
    <3> HIDE DEF i, r
    <3>3. QED BY <1>2, <1>3, <1>7, <2>2, <3>1, <3>2 DEF At
  <2>6. pc'[a] = "sending" BY <1>5
  <2>7. QED BY <1>3, <1>9, <2>3, <2>4, <2>5, <2>6 DEF RegionsKept, At
<1>13. \A x \in Ends : RegionsKept(x, D)'
  <2>1. SUFFICES ASSUME NEW x \in Ends, x # a PROVE RegionsKept(x, D)' BY <1>12
  <2>2. RegionsKept(x, D) /\ Peer(x) \in Ends BY PartsOf, EndFacts
  <2>3. D[Peer(x)] \in Nat BY <1>1, <2>2 DEF Counted
  <2>4. At(Peer(x), Sent(x))' = At(Peer(x), Sent(x))
    BY <1>3, <1>5, <2>1 DEF At, Sent
  <2>5. QED BY <1>3, <1>5, <1>7, <2>1, <2>2, <2>3, <2>4, RegionsStay
<1>14. \A x \in Ends : CompletedLanded(x, L)' BY <1>3, PartsOf, CompletedKept
<1>15. Agree(F, D, L, n)' BY <1>3, <1>7, <1>9, <1>11, <1>13, <1>14, QuietStep
<1>16. TypeOK'
  <2>1. pc' \in [Ends -> {"setup", "idle", "sending", "waiting", "freeing"}]
    BY <1>1, <1>2 DEF TypeOK
  <2>2. Limit' = Limit /\ \A e \in Ends : Used(e)' = Used(e)
    BY <1>3 DEF Limit, Used
  <2>3. next_id' \in [Ends -> 1 .. Limit + 1]
    <3>1. i + 1 \in 1 .. Limit + 1 BY <1>4
    <3>2. QED BY <1>1, <1>3, <3>1 DEF TypeOK
  <2>4. QED BY <1>1, <1>3, <2>1, <2>2, <2>3 DEF TypeOK
<1>17. Shapes'
  <2>1. \A e \in Ends, j \in Slots : mem'[e][<<"target", j>>] \in Descriptors
    <3>1. \A e \in Ends, j \in Slots : mem[e][<<"target", j>>] \in Descriptors
      BY <1>1 DEF Shapes
    <3>2. QED BY ONLY <1>7, <3>1
  <2>2. DOMAIN arg' = Ends /\ arg' = [e \in Ends |-> arg'[e]]
    BY <1>1, <1>2 DEF Shapes
  <2>3. QED BY <1>1, <1>3, <1>6, <2>1, <2>2 DEF Shapes
<1>18. QED BY <1>1, <1>15, <1>16, <1>17 DEF Good, Counted

-----------------------------------------------------------------------------
(* The first step of a free, and completions *)

\* Free clears the length of a buffer that is held, which no message awaits.
LEMMA FreeClearInv ==
  ASSUME NEW F, NEW D, NEW L, NEW n, Good(F, D, L, n), NEW a \in Ends,
         FreeClear(a)
  PROVE  Good(F, D, L, n)'
<1>1. TypeOK /\ Shapes /\ Counted(F, D, L, n) BY DEF Good
<1>2. PICK h \in held[a] :
        /\ mem' = [mem EXCEPT ![a][<<"rcv_len", h.buf>>] = 0]
        /\ pc' = [pc EXCEPT ![a] = "freeing"] /\ arg' = [arg EXCEPT ![a] = h]
  BY DEF FreeClear, Goto
<1>3. /\ pc[a] \in {"setup", "idle"}
      /\ UNCHANGED <<sq, flight, scq, next_id, ackd_id, rcv_buffers, rcv_head,
                     rcv_tail, duplex, waiting, received, held>>
  BY DEF FreeClear, MayCall, Idle, dwVars, callerVars
<1>4. /\ pc'[a] = "freeing" /\ arg'[a] = h
      /\ \A x \in Ends : x # a => pc'[x] = pc[x] /\ arg'[x] = arg[x]
  BY <1>1, <1>2 DEF TypeOK, Shapes
<1>5. h.buf \in Buffers BY <1>1 DEF Shapes
<1>6. /\ mem' \in [Ends -> [Locations -> Nat \cup Descriptors]]
      /\ \A x \in Ends, k \in Locations :
           mem'[x][k] = IF x = a /\ k = <<"rcv_len", h.buf>> THEN 0 ELSE mem[x][k]
  <2>1. <<"rcv_len", h.buf>> \in Locations BY <1>5, LocationFacts
  <2>2. mem \in [Ends -> [Locations -> Nat \cup Descriptors]] BY <1>1 DEF Shapes
  <2>3. QED BY <1>2, <2>1, <2>2, CellWritten
<1>7. /\ \A x \in Ends, j \in Slots :
           mem'[x][<<"target", j>>] = mem[x][<<"target", j>>]
      /\ \A x \in Ends, b \in Buffers :
           /\ mem'[x][<<"rcv", b>>] = mem[x][<<"rcv", b>>]
           /\ x # a \/ b # h.buf =>
                mem'[x][<<"rcv_len", b>>] = mem[x][<<"rcv_len", b>>]
      /\ \A x \in Ends, k \in 1 .. Regions :
           /\ mem'[x][<<"snd", k>>] = mem[x][<<"snd", k>>]
           /\ mem'[x][<<"snd_len", k>>] = mem[x][<<"snd_len", k>>]
      /\ mem'[a][<<"rcv_len", h.buf>>] = 0
  BY <1>5, <1>6, LocationFacts
<1>8. \A x \in Ends : Posted(x)' = Posted(x) /\ Sent(x)' = Sent(x)
  BY <1>3, <1>4 DEF Posted, Sent
<1>9. BuffersFilled(a, F, L)'
  <2>1. BuffersFilled(a, F, L) /\ OneOwner(a, F) BY PartsOf
  <2>2. /\ F[a] \in Nat /\ L[a] \in Nat /\ received[a] \in Nat
        /\ received[a] <= L[a] /\ L[a] <= F[a]
    BY CountFacts
  <2>3. \A i \in received[a] + 1 .. F[a] :
          /\ At(a, i)' = At(a, i) /\ At(a, i) \in Buffers /\ At(a, i) # h.buf
    <3>1. \A i \in received[a] + 1 .. F[a] : At(a, i)' = At(a, i) BY <1>3 DEF At
    <3>2. QED BY <2>1, <3>1 DEF OneOwner
  <2>4. /\ \A i \in received[a] + 1 .. L[a] : i \in received[a] + 1 .. F[a]
        /\ \A i \in L[a] + 1 .. F[a] : i \in received[a] + 1 .. F[a]
    BY <2>2
  <2>5. \A i \in received[a] + 1 .. L[a] :
          /\ mem'[a][<<"rcv_len", At(a, i)'>>] = 1
          /\ mem'[a][<<"rcv", At(a, i)'>>] = i
    BY <1>7, <2>1, <2>3, <2>4 DEF BuffersFilled
  <2>6. \A i \in L[a] + 1 .. F[a] : mem'[a][<<"rcv_len", At(a, i)'>>] = 0
    <3>1. \A i \in L[a] + 1 .. F[a] : mem[a][<<"rcv_len", At(a, i)>>] = 0
      BY <2>1 DEF BuffersFilled
    <3>2. ASSUME NEW i \in L[a] + 1 .. F[a]
          PROVE  mem'[a][<<"rcv_len", At(a, i)'>>] = 0
      <4>1. /\ At(a, i)' = At(a, i) /\ At(a, i) \in Buffers
            /\ At(a, i) # h.buf
        BY <2>3, <2>4
      <4>2. mem'[a][<<"rcv_len", At(a, i)>>] = mem[a][<<"rcv_len", At(a, i)>>]
        BY <1>7, <4>1
      <4>3. QED BY <3>1, <4>1, <4>2
    <3>3. QED BY <3>2
  <2>7. \A g \in held[a] : g.msg > 0 => mem'[a][<<"rcv", g.buf>>] = g.msg
    <3>1. \A g \in held[a] : g.buf \in Buffers BY <1>1 DEF Shapes
    <3>2. QED BY <1>7, <2>1, <3>1 DEF BuffersFilled
  <2>8. QED BY <1>2, <1>3, <1>4, <1>7, <2>5, <2>6, <2>7 DEF BuffersFilled
<1>10. ASSUME NEW x \in Ends, x # a PROVE BuffersFilled(x, F, L)'
  <2>2. BuffersFilled(x, F, L) BY PartsOf
  <2>3. /\ L[x] <= F[x] /\ L[x] \in Nat /\ F[x] \in Nat
        /\ received[x] \in Nat /\ received[x] <= L[x]
    BY CountFacts
  <2>4. \A k \in received[x] + 1 .. F[x] : At(x, k)' = At(x, k) /\ At(x, k) \in Buffers
    BY <1>3, AwaitedFacts DEF At
  <2>5. pc'[x] = "freeing" => pc[x] = "freeing" /\ arg'[x] = arg[x] BY <1>4, <1>10
  <2>6. held[x] \subseteq [buf : Buffers, msg : Nat] BY <1>1 DEF Shapes
  <2>7. QED BY <1>3, <1>7, <1>10, <2>2, <2>3, <2>4, <2>5, <2>6, BuffersStay
<1>11. \A x \in Ends : RegionsKept(x, D)'
  <2>1. SUFFICES ASSUME NEW x \in Ends PROVE RegionsKept(x, D)' OBVIOUS
  <2>2. RegionsKept(x, D) /\ Peer(x) \in Ends BY PartsOf, EndFacts
  <2>3. D[Peer(x)] \in Nat BY <1>1, <2>2 DEF Counted
  <2>4. At(Peer(x), Sent(x))' = At(Peer(x), Sent(x)) BY <1>3, <1>8 DEF At
  <2>5. /\ pc'[x] = "sending" <=> pc[x] = "sending"
        /\ pc'[x] = "waiting" => pc[x] = "waiting"
        /\ pc[x] \in {"sending", "waiting"} => arg'[x] = arg[x]
    BY <1>3, <1>4
  <2>6. QED BY <1>3, <1>7, <2>2, <2>3, <2>4, <2>5, RegionsStay
<1>12. \A x \in Ends : CompletedLanded(x, L)' BY <1>3, PartsOf, CompletedKept
<1>13. Agree(F, D, L, n)'
  <2>1. \A x \in Ends : BuffersFilled(x, F, L)' BY <1>9, <1>10
  <2>2. QED BY <1>3, <1>7, <1>8, <1>11, <1>12, <2>1, QuietStep
<1>14. TypeOK'
  <2>1. pc' \in [Ends -> {"setup", "idle", "sending", "waiting", "freeing"}]
    BY <1>1, <1>2 DEF TypeOK
  <2>2. Limit' = Limit /\ \A e \in Ends : Used(e)' = Used(e)
    BY <1>3 DEF Limit, Used
  <2>3. QED BY <1>1, <1>3, <2>1, <2>2 DEF TypeOK
<1>15. Shapes'
  <2>1. \A e \in Ends, j \in Slots : mem'[e][<<"target", j>>] \in Descriptors
    <3>1. \A e \in Ends, j \in Slots : mem[e][<<"target", j>>] \in Descriptors
      BY <1>1 DEF Shapes
    <3>2. QED BY ONLY <1>7, <3>1
  <2>2. DOMAIN arg' = Ends /\ arg' = [e \in Ends |-> arg'[e]]
    BY <1>1, <1>2 DEF Shapes
  <2>3. QED BY <1>1, <1>3, <1>6, <2>1, <2>2 DEF Shapes
<1>16. QED BY <1>1, <1>13, <1>14, <1>15 DEF Good, Counted

\* Completions come in the order of the requests, and all are of writes.
LEMMA CompleteInv ==
  ASSUME NEW F, NEW D, NEW L, NEW n, Good(F, D, L, n), NEW a \in Ends,
         Complete(a), UNCHANGED <<pc, arg, dwVars, callerVars>>
  PROVE  Good(F, D, L, n)'
<1>1. TypeOK /\ Shapes /\ Counted(F, D, L, n) BY DEF Good
<1> DEFINE s == flight[a]
<1>2. CompletedLanded(a, L) BY PartsOf
<1>3. s \in Seq(Requests) /\ s # <<>> BY <1>1 DEF Complete, Shapes
<1>4. /\ Head(s) = s[1] /\ 1 \in DOMAIN s /\ Head(s) \in Requests
      /\ Tail(s) \in Seq(Requests)
      /\ \A k \in DOMAIN Tail(s) : k + 1 \in DOMAIN s /\ Tail(s)[k] = s[k + 1]
  <2> HIDE DEF s
  <2>1. QED BY <1>3
<1>5. Head(s).id \in 0 .. L[Peer(a)] /\ Head(s).op = "WRITE"
  BY <1>2, <1>4 DEF CompletedLanded
<1>6. /\ scq' = [scq EXCEPT ![a] = Append(scq[a], Head(s).id)]
      /\ flight' = [flight EXCEPT ![a] = Tail(s)]
      /\ UNCHANGED <<mem, sq, pc, arg, next_id, ackd_id, rcv_buffers, rcv_head,
                     rcv_tail, duplex, waiting, received, held>>
  <2>1. Head(s).signaled = TRUE BY <1>4 DEF Requests
  <2> HIDE DEF s
  <2>2. QED BY <1>5, <2>1 DEF Complete, dwVars, callerVars, s
<1>7. /\ scq'[a] = Append(scq[a], Head(s).id) /\ flight'[a] = Tail(s)
      /\ \A x \in Ends : x # a => scq'[x] = scq[x] /\ flight'[x] = flight[x]
  BY <1>1, <1>6 DEF Shapes
<1>8. CompletedLanded(a, L)'
  <2> DEFINE Done == 0 .. L[Peer(a)]
  <2> DEFINE c == scq[a]
  <2>1. c \in Seq(Nat) /\ \A k \in DOMAIN c : c[k] \in Done
    BY <1>1, <1>2 DEF Shapes, CompletedLanded
  <2>2. \A k \in DOMAIN Append(c, Head(s).id) : Append(c, Head(s).id)[k] \in Done
    <3> DEFINE v == Head(s).id
    <3>1. v \in Done /\ v \in Nat BY <1>4, <1>5 DEF Requests
    <3> HIDE DEF c, Done, v
    <3>2. \A k \in DOMAIN Append(c, v) : Append(c, v)[k] \in Done
      BY ONLY <2>1, <3>1
    <3>3. QED BY <3>2 DEF v
  <2>3. \A k \in DOMAIN Tail(s) : Tail(s)[k].id \in Done /\ Tail(s)[k].op = "WRITE"
    <3> HIDE DEF Done
    <3>1. \A k \in DOMAIN s : s[k].id \in Done /\ s[k].op = "WRITE"
      BY <1>2 DEF CompletedLanded, Done
    <3> HIDE DEF s
    <3>2. QED BY <1>4, <3>1
  <2>4. QED BY <1>2, <1>6, <1>7, <2>2, <2>3 DEF CompletedLanded
<1>9. \A x \in Ends : CompletedLanded(x, L)'
  <2>1. SUFFICES ASSUME NEW x \in Ends, x # a PROVE CompletedLanded(x, L)' BY <1>8
  <2>2. QED BY <1>6, <1>7, <2>1, PartsOf, CompletedKept
<1>10. \A x \in Ends : RegionsKept(x, D)' /\ BuffersFilled(x, F, L)'
  <2>1. SUFFICES ASSUME NEW x \in Ends
                 PROVE  RegionsKept(x, D)' /\ BuffersFilled(x, F, L)'
    OBVIOUS
  <2>2. RegionsKept(x, D) /\ BuffersFilled(x, F, L) BY PartsOf
  <2>3. QED
    BY <1>6, <2>2 DEF RegionsKept, BuffersFilled, At, Used, Sent, Posted
<1>11. Agree(F, D, L, n)'
  <2>1. \A x \in Ends : Posted(x)' = Posted(x) BY <1>6 DEF Posted, Sent
  <2>2. QED BY <1>6, <1>9, <1>10, <2>1, QuietStep
<1>12. TypeOK'
  <2>1. Limit' = Limit /\ \A e \in Ends : Used(e)' = Used(e)
    BY <1>6 DEF Limit, Used
  <2>2. QED BY <1>1, <1>6, <2>1 DEF TypeOK
<1>13. Shapes'
  <2>1. flight' \in [Ends -> Seq(Requests)] BY <1>1, <1>4, <1>6 DEF Shapes
  <2>2. scq' \in [Ends -> Seq(Nat)]
    <3>1. Head(s).id \in Nat BY <1>4 DEF Requests
    <3>2. Append(scq[a], Head(s).id) \in Seq(Nat)
      <4> HIDE DEF s
      <4>1. QED BY <1>1, <3>1 DEF Shapes
    <3>3. QED BY <1>1, <1>6, <3>2 DEF Shapes
  <2>3. QED BY <1>1, <1>6, <2>1, <2>2 DEF Shapes
<1>14. QED BY <1>1, <1>11, <1>12, <1>13 DEF Good, Counted

-----------------------------------------------------------------------------
(* Receiving and freeing                                                    *)

\* Buffers are NrBuffers, and what has a buffer each has all only if it is as
\* many.
LEMMA OneBufferEach ==
  ASSUME NEW S, NEW f \in Injection(S, Buffers)
  PROVE  /\ IsFiniteSet(S)
         /\ Cardinality(S) = NrBuffers <=> f \in Surjection(S, Buffers)
<1>1. IsFiniteSet(Buffers) /\ Cardinality(Buffers) = NrBuffers
  <2>1. /\ IsFiniteSet(1 .. NrBuffers)
        /\ Cardinality(1 .. NrBuffers)
             = IF 1 > NrBuffers THEN 0 ELSE NrBuffers - 1 + 1
    BY NrBuffersIs, FS_Interval
  <2>2. QED BY NrBuffersIs, <2>1 DEF Buffers
<1>2. QED BY <1>1, FS_Injection

\* Who does not hold every buffer has given one back for a message to come.
LEMMA NotAllHeld ==
  ASSUME NEW F, NEW D, NEW L, NEW n, Good(F, D, L, n), NEW e \in Ends,
         Receives(e), Cardinality(held[e]) < NrBuffers
  PROVE  received[e] < F[e]
<1>1. SUFFICES ASSUME ~(received[e] < F[e]) PROVE FALSE OBVIOUS
<1>2. F[e] \in Nat /\ received[e] \in Nat /\ NrBuffers \in Nat \ {0}
  BY CountFacts
<1>3. \A i \in received[e] + 1 .. F[e] : FALSE BY <1>1, <1>2
<1>4. /\ \A b \in Buffers : \E h \in held[e] : h.buf = b
      /\ \A h \in held[e] : h.buf \in Buffers
  <2>1. OneOwner(e, F) BY PartsOf
  <2>2. QED BY <1>3, <2>1 DEF OneOwner
<1>5. \A g, h \in held[e] : g.buf = h.buf => g = h BY DEF Good, TypeOK
<1> DEFINE f == [h \in held[e] |-> h.buf]
<1>6. f \in Injection(held[e], Buffers) /\ f \in Surjection(held[e], Buffers)
  <2>1. f \in [held[e] -> Buffers] BY <1>4
  <2>2. \A g, h \in held[e] : f[g] = f[h] => g = h BY <1>5
  <2>3. \A b \in Buffers : \E h \in held[e] : f[h] = b BY <1>4
  <2> HIDE DEF f
  <2>4. QED BY <2>1, <2>2, <2>3 DEF Injection, IsInjective, Surjection
<1> HIDE DEF f
<1>7. Cardinality(held[e]) = NrBuffers BY <1>6, OneBufferEach
<1>8. QED BY <1>2, <1>7

\* The buffer that a free gives back is awaited after it, and was not before.
LEMMA NotAllAwaited ==
  ASSUME NEW F, NEW D, NEW L, NEW n, Good(F, D, L, n), NEW e \in Ends,
         NEW h \in held[e]
  PROVE  F[e] < received[e] + NrBuffers
<1>1. /\ F[e] \in Nat /\ received[e] \in Nat /\ NrBuffers \in Nat \ {0}
      /\ F[e] <= received[e] + NrBuffers
  BY CountFacts
<1> DEFINE S == received[e] + 1 .. F[e]
<1> DEFINE f == [i \in S |-> At(e, i)]
<1>2. OneOwner(e, F) BY PartsOf
<1>3. f \in Injection(S, Buffers) /\ f \notin Surjection(S, Buffers)
  <2>1. f \in [S -> Buffers] BY <1>2 DEF OneOwner
  <2>2. \A i, j \in S : f[i] = f[j] => i = j BY <1>2 DEF OneOwner
  <2>3. h.buf \in Buffers /\ \A i \in S : f[i] # h.buf BY <1>2 DEF OneOwner
  <2> HIDE DEF f, S
  <2>4. QED BY <2>1, <2>2, <2>3 DEF Injection, IsInjective, Surjection
<1>4. Cardinality(S) # NrBuffers
  <2> HIDE DEF f, S
  <2>1. QED BY <1>3, OneBufferEach
<1>5. Cardinality(S)
        = IF received[e] + 1 > F[e] THEN 0 ELSE F[e] - (received[e] + 1) + 1
  <2>1. received[e] + 1 \in Int /\ F[e] \in Int BY <1>1
  <2>2. QED BY <2>1, FS_Interval
<1> HIDE DEF S
<1>6. QED BY <1>1, <1>4, <1>5

\* Receive returns the next message, which landed in the buffer awaited first.
LEMMA ReceiveInv ==
  ASSUME NEW F, NEW D, NEW L, NEW n, Good(F, D, L, n), NEW a \in Ends,
         Receive(a)
  PROVE  Good(F, D, L, n)'
<1> DEFINE R == received[a]
<1> DEFINE i == R + 1
<1> DEFINE b == At(a, i)
<1> DEFINE g == [buf |-> b, msg |-> i]
<1>1. TypeOK /\ Shapes /\ Counted(F, D, L, n) BY DEF Good
<1>2. /\ InTurn(a, F, D, L) /\ OneOwner(a, F) /\ BuffersFilled(a, F, L)
  BY PartsOf
<1>3. /\ F[a] \in Nat /\ D[a] \in Nat /\ L[a] \in Nat /\ R \in Nat
      /\ NrBuffers \in Nat \ {0} /\ R <= L[a] /\ L[a] <= F[a]
      /\ L[a] <= Posted(Peer(a)) /\ Posted(Peer(a)) \in Nat
      /\ F[a] <= R + NrBuffers
  BY CountFacts
<1>4. R < F[a]
  <2>1. Receives(a) /\ Cardinality(held[a]) < NrBuffers BY DEF Receive
  <2>2. QED BY <2>1, NotAllHeld
<1>5. i \in R + 1 .. F[a] /\ i \in Nat /\ i > 0 BY <1>3, <1>4
<1>6. /\ rcv_head[a] = Slot(i) /\ b \in Buffers /\ Slot(i) \in Slots
      /\ \A j \in R + 1 .. F[a] : Slot(i) = Slot(j) \/ At(a, j) = b => j = i
  BY <1>2, <1>5, AwaitedFacts DEF InTurn
<1>7. /\ pc[a] = "idle" /\ mem[a][<<"rcv_len", b>>] # 0
      /\ held' = [held EXCEPT ![a] = held[a] \cup {g}]
      /\ rcv_buffers' = [rcv_buffers EXCEPT ![a][Slot(i)].valid = FALSE]
      /\ rcv_head' = [rcv_head EXCEPT ![a] = Next1(Slot(i))]
      /\ received' = [received EXCEPT ![a] = i]
      /\ UNCHANGED <<mem, sq, flight, scq, pc, arg, next_id, ackd_id, rcv_tail,
                     duplex, waiting>>
  BY <1>6 DEF Receive, MayCall, Idle, At, qpVars
<1>8. i <= L[a] /\ mem[a][<<"rcv", b>>] = i
  <2>1. i <= L[a]
    <3>1. SUFFICES ASSUME ~(i <= L[a]) PROVE FALSE OBVIOUS
    <3>2. i \in L[a] + 1 .. F[a] BY <1>3, <1>5, <3>1
    <3>3. QED BY <1>2, <1>7, <3>2 DEF BuffersFilled
  <2>2. i \in R + 1 .. L[a] BY <1>3, <1>5, <2>1
  <2>3. QED BY <1>2, <2>1, <2>2 DEF BuffersFilled
<1> HIDE DEF R, i, b, g
<1>9. /\ held'[a] = held[a] \cup {g} /\ received'[a] = i
      /\ rcv_head'[a] = Slot(i + 1)
      /\ \A x \in Ends : x # a => /\ held'[x] = held[x]
                                  /\ received'[x] = received[x]
                                  /\ rcv_head'[x] = rcv_head[x]
                                  /\ rcv_buffers'[x] = rcv_buffers[x]
  BY <1>1, <1>5, <1>7, SlotFacts DEF TypeOK, Shapes
<1>10. /\ rcv_buffers' \in [Ends -> [Slots -> Descriptors]]
       /\ \A j \in Slots :
            /\ rcv_buffers'[a][j].addr = rcv_buffers[a][j].addr
            /\ j # Slot(i) => rcv_buffers'[a][j] = rcv_buffers[a][j]
  <2> DEFINE w == rcv_buffers[a][Slot(i)]
  <2> DEFINE w2 == [w EXCEPT !.valid = FALSE]
  <2>1. w \in Descriptors BY <1>1, <1>6 DEF TypeOK
  <2>2. w2 \in Descriptors /\ w2.addr = w.addr BY <2>1 DEF Descriptors
  <2>3. rcv_buffers' = [rcv_buffers EXCEPT ![a][Slot(i)] = w2] BY <1>7
  <2> HIDE DEF w2
  <2>4. QED BY <1>1, <1>6, <2>2, <2>3 DEF TypeOK
<1>11. \A x \in Ends, j \in Nat : At(x, j)' = At(x, j)
  <2>1. \A j \in Nat : Slot(j) \in Slots BY SlotFacts
  <2>2. QED BY <1>9, <1>10, <2>1 DEF At
<1>12. \A x \in Ends : Posted(x)' = Posted(x) /\ Sent(x)' = Sent(x)
  BY <1>7 DEF Posted, Sent
<1>13. g \in [buf : Buffers, msg : Nat] /\ g.buf = b /\ g.msg = i
  BY <1>5, <1>6 DEF g
<1>14. \A x \in Ends : InTurn(x, F, D, L)'
  <2>1. SUFFICES ASSUME NEW x \in Ends PROVE InTurn(x, F, D, L)' OBVIOUS
  <2>2. InTurn(x, F, D, L) /\ Peer(x) \in Ends BY PartsOf, EndFacts
  <2>3. CASE x # a BY <1>7, <1>9, <1>12, <2>2, <2>3, InTurnKept
  <2>4. CASE x = a
    <3>1. F[a] <= i + NrBuffers BY <1>3 DEF i
    <3>2. QED BY <1>7, <1>8, <1>9, <1>12, <2>2, <2>4, <3>1 DEF InTurn
  <2>5. QED BY <2>3, <2>4
<1>15. OneOwner(a, F)'
  <2> DEFINE Later == i + 1 .. F[a]
  <2>1. \A j \in Later : /\ j \in R + 1 .. F[a] /\ j # i /\ j \in Nat
                         /\ Slot(j) # Slot(i) /\ At(a, j) # b
    <3>1. \A j \in Later : j \in R + 1 .. F[a] /\ j # i /\ j \in Nat
      BY <1>3, <1>5 DEF i
    <3>2. QED BY <1>6, <3>1
  <2>2. \A j \in Later : /\ rcv_buffers'[a][Slot(j)] = Descriptor(At(a, j))
                         /\ At(a, j) \in Buffers /\ At(a, j)' = At(a, j)
    <3>1. \A j \in Later : Slot(j) \in Slots BY <2>1, SlotFacts
    <3>2. QED BY <1>2, <1>10, <1>11, <2>1, <3>1 DEF OneOwner, R
  <2>3. \A j, k \in Later : At(a, j) = At(a, k) => j = k
    BY <1>2, <2>1 DEF OneOwner, R
  <2>4. \A h \in held'[a] : /\ h \in [buf : Buffers, msg : 0 .. i]
                            /\ \A j \in Later : At(a, j) # h.buf
    <3>1. SUFFICES ASSUME NEW h \in held'[a]
                   PROVE  /\ h \in [buf : Buffers, msg : 0 .. i]
                          /\ \A j \in Later : At(a, j) # h.buf
      OBVIOUS
    <3>2. CASE h = g
      <4>1. g \in [buf : Buffers, msg : 0 .. i] BY <1>5, <1>6 DEF g
      <4>2. QED BY <1>13, <2>1, <3>2, <4>1
    <3>3. CASE h \in held[a]
      <4>1. h \in [buf : Buffers, msg : 0 .. R] BY <1>2, <3>3 DEF OneOwner, R
      <4>2. \A x \in 0 .. R : x \in 0 .. i BY <1>3 DEF i
      <4>3. h \in [buf : Buffers, msg : 0 .. i] BY <4>1, <4>2
      <4>4. QED BY <1>2, <2>1, <3>3, <4>3 DEF OneOwner, R
    <3>4. QED BY <1>9, <3>2, <3>3
  <2>5. IF Receives(a)
        THEN \A c \in Buffers : \/ \E h \in held'[a] : h.buf = c
                                \/ \E j \in Later : At(a, j) = c
        ELSE held'[a] = {} /\ F[a] = 0
    <3>1. Receives(a) BY DEF Receive
    <3>2. \A c \in Buffers : \/ \E h \in held[a] : h.buf = c
                             \/ \E j \in R + 1 .. F[a] : At(a, j) = c
      BY <1>2, <3>1 DEF OneOwner, R
    <3>3. ASSUME NEW c \in Buffers, NEW j \in R + 1 .. F[a], At(a, j) = c, j \notin Later
          PROVE  g.buf = c
      <4>1. j = i BY <1>3, <3>3 DEF i
      <4>2. QED BY <1>13, <3>3, <4>1 DEF b
    <3>4. QED BY <1>9, <3>1, <3>2, <3>3
  <2>6. Receives(a)' = Receives(a) BY <1>7 DEF Receives
  <2> HIDE DEF Later
  <2>7. QED
    <3>1. received'[a] + 1 .. F[a] = Later /\ received'[a] = i BY <1>9 DEF Later
    <3>2. \A j \in Later : /\ rcv_buffers'[a][Slot(j)] = Descriptor(At(a, j)')
                          /\ At(a, j)' \in Buffers
      BY <2>2
    <3>3. \A j, k \in Later : At(a, j)' = At(a, k)' => j = k BY <2>2, <2>3
    <3>4. \A h \in held'[a] : /\ h \in [buf : Buffers, msg : 0 .. i]
                              /\ \A j \in Later : At(a, j)' # h.buf
      BY <2>2, <2>4
    <3>5. IF Receives(a)'
          THEN \A c \in Buffers : \/ \E h \in held'[a] : h.buf = c
                                  \/ \E j \in Later : At(a, j)' = c
          ELSE held'[a] = {} /\ F[a] = 0
      BY <2>2, <2>5, <2>6
    <3>6. QED BY <3>1, <3>2, <3>3, <3>4, <3>5 DEF OneOwner
<1>16. \A x \in Ends : OneOwner(x, F)'
  <2>1. SUFFICES ASSUME NEW x \in Ends, x # a PROVE OneOwner(x, F)' BY <1>15
  <2>2. QED BY <1>7, <1>9, <2>1, PartsOf, OneOwnerKept
<1>17. \A x \in Ends : TargetsKnown(x, D)'
  <2>1. SUFFICES ASSUME NEW x \in Ends PROVE TargetsKnown(x, D)' OBVIOUS
  <2>2. /\ TargetsKnown(x, D) /\ D[x] \in Nat /\ Posted(Peer(x)) \in Nat
        /\ Peer(x) \in Ends
    BY PartsOf, CountFacts, EndFacts
  <2>3. \A j \in Posted(Peer(x)) + 1 .. D[x] : At(x, j)' = At(x, j)
    BY <1>11, <2>2
  <2>4. QED BY <1>7, <1>12, <2>2, <2>3, TargetsKept
<1>18. BuffersFilled(a, F, L)'
  <2>1. \A j \in i + 1 .. L[a] : j \in R + 1 .. L[a] /\ j \in Nat
    BY <1>3 DEF i
  <2>2. \A j \in L[a] + 1 .. F[a] : j \in Nat BY <1>3
  <2>3. \A j \in i + 1 .. L[a] :
          mem[a][<<"rcv_len", At(a, j)'>>] = 1 /\ mem[a][<<"rcv", At(a, j)'>>] = j
    BY <1>2, <1>11, <2>1 DEF BuffersFilled, R
  <2>4. \A j \in L[a] + 1 .. F[a] : mem[a][<<"rcv_len", At(a, j)'>>] = 0
    BY <1>2, <1>11, <2>2 DEF BuffersFilled
  <2>5. \A h \in held'[a] : h.msg > 0 => mem[a][<<"rcv", h.buf>>] = h.msg
    BY <1>2, <1>8, <1>9, <1>13 DEF BuffersFilled
  <2>6. pc[a] # "freeing" BY <1>7
  <2>7. QED BY <1>7, <1>9, <2>3, <2>4, <2>5, <2>6 DEF BuffersFilled
<1>19. \A x \in Ends : BuffersFilled(x, F, L)'
  <2>1. SUFFICES ASSUME NEW x \in Ends, x # a PROVE BuffersFilled(x, F, L)' BY <1>18
  <2>2. BuffersFilled(x, F, L) BY PartsOf
  <2>3. QED BY <1>7, <1>9, <2>1, <2>2 DEF BuffersFilled, At
<1>20. \A x \in Ends : RequestsInOrder(x, F, D, L, n)'
  <2>1. SUFFICES ASSUME NEW x \in Ends PROVE RequestsInOrder(x, F, D, L, n)' OBVIOUS
  <2>2. /\ RequestsInOrder(x, F, D, L, n) /\ Peer(x) \in Ends /\ D[x] \in Nat
        /\ Peer(Peer(x)) = x
    BY PartsOf, CountFacts, EndFacts
  <2>3. L[Peer(x)] \in Nat BY <2>2, CountFacts
  <2>4. /\ \A j \in D[x] + 1 .. F[x] : At(x, j)' = At(x, j)
        /\ \A j \in L[Peer(x)] + 1 .. Posted(x) : At(Peer(x), j)' = At(Peer(x), j)
    <3>1. F[x] \in Nat /\ Posted(x) \in Int
      BY <2>2, CountFacts
    <3>2. QED BY <1>11, <2>2, <2>3, <3>1
  <2>5. QED BY <1>7, <1>12, <2>2, <2>4, RequestsStay
<1>21. \A x \in Ends : RegionsKept(x, D)'
  <2>1. SUFFICES ASSUME NEW x \in Ends PROVE RegionsKept(x, D)' OBVIOUS
  <2>2. RegionsKept(x, D) /\ Peer(x) \in Ends /\ Sent(x) \in Nat
    BY PartsOf, EndFacts, CountFacts
  <2>3. D[Peer(x)] \in Nat BY <1>1, <2>2 DEF Counted
  <2>4. At(Peer(x), Sent(x))' = At(Peer(x), Sent(x)) BY <1>11, <1>12, <2>2
  <2>5. QED BY <1>7, <2>2, <2>3, <2>4, RegionsStay
<1>22. \A x \in Ends : CompletedLanded(x, L)' BY <1>7, PartsOf, CompletedKept
<1>23. Agree(F, D, L, n)'
  BY <1>14, <1>16, <1>17, <1>19, <1>20, <1>21, <1>22 DEF Agree
<1>24. TypeOK'
  <2>1. received' \in [Ends -> 0 .. Limit]
    <3>1. Peer(a) \in Ends BY EndFacts
    <3>2. next_id[Peer(a)] \in 1 .. Limit + 1 /\ Limit \in Nat
      BY <1>1, <3>1, DirectWriteAssumption DEF TypeOK, Limit
    <3>3. Posted(Peer(a)) <= Limit BY <3>2 DEF Posted, Sent
    <3>4. i \in 0 .. Limit BY <1>3, <1>5, <1>8, <3>2, <3>3
    <3>5. QED BY <1>1, <1>7, <3>4 DEF TypeOK
  <2>2. rcv_head' \in [Ends -> Slots]
    <3>1. Next1(Slot(i)) \in Slots
      <4>1. Next1(Slot(i)) = Slot(i + 1) BY <1>5, SlotFacts
      <4>2. i + 1 \in Nat BY <1>5
      <4>3. QED BY <4>1, <4>2, SlotFacts
    <3>2. QED BY <1>1, <1>7, <3>1 DEF TypeOK
  <2>3. Limit' = Limit /\ \A e \in Ends : Used(e)' = Used(e)
    BY <1>7 DEF Limit, Used
  <2>4. \A e \in Ends : \A h, k \in held'[e] : h.buf = k.buf => h = k
    <3>1. \A h \in held[a] : h.buf # b
      BY <1>2, <1>5 DEF OneOwner, b, R
    <3>2. \A h, k \in held'[a] : h.buf = k.buf => h = k
      BY <1>1, <1>9, <1>13, <3>1 DEF TypeOK
    <3>3. QED BY <1>1, <1>9, <3>2 DEF TypeOK
  <2>5. QED BY <1>1, <1>7, <1>10, <2>1, <2>2, <2>3, <2>4 DEF TypeOK
<1>25. Shapes'
  <2>1. held' \in [Ends -> SUBSET [buf : Buffers, msg : Nat]]
    BY <1>1, <1>7, <1>13 DEF Shapes
  <2>2. QED BY <1>1, <1>7, <2>1 DEF Shapes
<1>26. QED BY <1>1, <1>23, <1>24, <1>25 DEF Good, Counted

\* A request is posted with the next number of its kind.
LEMMA RequestAdded ==
  ASSUME NEW e \in Ends, NEW F, NEW D, NEW L, NEW n, NEW F2, NEW n2,
         NEW w \in Requests, NEW v \in Nat,
         RequestsInOrder(e, F, D, L, n),
         sq[e] \in Seq(Requests), n[e] \in Seq(Nat),
         F[e] \in Nat, D[e] \in Nat, L[Peer(e)] \in Nat, Posted(e) \in Nat,
         D[e] <= F[e], L[Peer(e)] <= Posted(e),
         sq'[e] = Append(sq[e], w), n2[e] = Append(n[e], v),
         \A k \in DOMAIN sq[e], i \in L[Peer(e)] + 1 .. Posted(e) :
           IsMessage(e, k, i) => IsMessage(e, k, i)',
         \A k \in DOMAIN sq[e], i \in D[e] + 1 .. F[e] :
           IsDescriptor(e, k, i) => IsDescriptor(e, k, i)',
         \/ /\ w.id # 0 /\ v = Posted(e) + 1 /\ Posted(e)' = v /\ F2[e] = F[e]
            /\ \A k, i : k = Len(sq[e]) + 1 /\ i = v => IsMessage(e, k, i)'
         \/ /\ w.id = 0 /\ v = F[e] + 1 /\ F2[e] = v /\ Posted(e)' = Posted(e)
            /\ \A k, i : k = Len(sq[e]) + 1 /\ i = v => IsDescriptor(e, k, i)'
  PROVE  RequestsInOrder(e, F2, D, L, n2)'
<1> DEFINE s == sq[e]
<1> DEFINE t == sq'[e]
<1> DEFINE N == n[e]
<1> DEFINE M == n2[e]
<1> DEFINE z == Len(s) + 1
<1> DEFINE Lo == L[Peer(e)]
<1> DEFINE Hi == Posted(e)'
<1> DEFINE Msgs == {k \in DOMAIN s : s[k].id # 0}
<1> DEFINE Msgs2 == {k \in DOMAIN t : t[k].id # 0}
<1>1. /\ DOMAIN t = DOMAIN s \cup {z} /\ z \notin DOMAIN s /\ Len(t) = z
      /\ t[z] = w /\ \A k \in DOMAIN s : t[k] = s[k] /\ k < z
      /\ DOMAIN s \subseteq Nat /\ z \in Nat
  <2>1. s \in Seq(Requests) /\ t = Append(s, w) OBVIOUS
  <2> HIDE DEF s, t
  <2>2. /\ Len(s) \in Nat /\ DOMAIN s = 1 .. Len(s)
        /\ Len(t) = Len(s) + 1 /\ DOMAIN t = 1 .. Len(s) + 1
        /\ t[Len(s) + 1] = w /\ \A k \in 1 .. Len(s) : t[k] = s[k]
    BY <2>1
  <2> HIDE DEF z
  <2>3. z = Len(s) + 1 BY DEF z
  <2>4. QED BY ONLY <2>2, <2>3
<1>2. /\ Len(N) = Len(s)
      /\ \A k \in Msgs : N[k] \in Lo + 1 .. Posted(e) /\ IsMessage(e, k, N[k])
      /\ \A k \in DOMAIN s \ Msgs : N[k] \in D[e] + 1 .. F[e] /\ IsDescriptor(e, k, N[k])
      /\ \A k, l \in DOMAIN s : k < l /\ (k \in Msgs <=> l \in Msgs) => N[k] < N[l]
      /\ \A i \in Lo + 1 .. Posted(e) : \E k \in Msgs : N[k] = i
      /\ \A i \in D[e] + 1 .. F[e] : \E k \in DOMAIN s \ Msgs : N[k] = i
  BY DEF RequestsInOrder
<1>3. /\ Len(M) = z /\ M[z] = v /\ \A k \in DOMAIN s : M[k] = N[k]
  <2>1. /\ N \in Seq(Nat) /\ M = Append(N, v) /\ Len(N) = Len(s)
        /\ DOMAIN s = 1 .. Len(s)
    BY <1>2
  <2> HIDE DEF N, M, s
  <2>2. QED BY <2>1 DEF z
<1>4. /\ DOMAIN s \subseteq DOMAIN t
      /\ \A k \in DOMAIN s : k \in Msgs2 <=> k \in Msgs
      /\ z \in Msgs2 <=> w.id # 0
  <2> HIDE DEF s, t, z
  <2>1. QED BY <1>1
<1>5. /\ Posted(e) <= Hi /\ F[e] <= F2[e] /\ Hi \in Nat /\ F2[e] \in Nat
      /\ w.id # 0 => v = Hi /\ Hi = Posted(e) + 1 /\ F2[e] = F[e]
      /\ w.id = 0 => v = F2[e] /\ F2[e] = F[e] + 1 /\ Hi = Posted(e)
  BY SMTT(30)
<1>6. \A k, i : k = z /\ i = v => /\ w.id # 0 => IsMessage(e, k, i)'
                                  /\ w.id = 0 => IsDescriptor(e, k, i)'
  OBVIOUS
<1>7. /\ \A k \in Msgs : IsMessage(e, k, N[k])'
      /\ \A k \in DOMAIN s \ Msgs : IsDescriptor(e, k, N[k])'
  BY <1>2
<1> HIDE DEF s, t, N, M, z, Lo, Hi, Msgs, Msgs2
<1>8. \A k \in Msgs2 : M[k] \in Lo + 1 .. Hi /\ IsMessage(e, k, M[k])'
  <2>1. SUFFICES ASSUME NEW k \in Msgs2
                 PROVE  M[k] \in Lo + 1 .. Hi /\ IsMessage(e, k, M[k])'
    OBVIOUS
  <2>2. CASE k \in DOMAIN s
    <3>1. k \in Msgs /\ M[k] = N[k] BY <1>3, <1>4, <2>2
    <3>2. N[k] \in Lo + 1 .. Posted(e) /\ Lo \in Nat BY <1>2, <3>1 DEF Lo
    <3>3. M[k] \in Lo + 1 .. Hi BY <1>5, <3>1, <3>2
    <3>4. QED BY <1>7, <3>1, <3>3
  <2>3. CASE k = z
    <3>1. w.id # 0 /\ M[k] = v BY <1>3, <1>4, <2>3
    <3>2. v \in Lo + 1 .. Hi BY <1>5, <3>1 DEF Lo
    <3>3. QED BY <1>6, <2>3, <3>1, <3>2
  <2>4. QED BY <1>1, <2>2, <2>3 DEF Msgs2
<1>9. \A k \in DOMAIN t \ Msgs2 :
        M[k] \in D[e] + 1 .. F2[e] /\ IsDescriptor(e, k, M[k])'
  <2>1. SUFFICES ASSUME NEW k \in DOMAIN t \ Msgs2
                 PROVE  M[k] \in D[e] + 1 .. F2[e] /\ IsDescriptor(e, k, M[k])'
    OBVIOUS
  <2>2. CASE k \in DOMAIN s
    <3>1. k \in DOMAIN s \ Msgs /\ M[k] = N[k] BY <1>3, <1>4, <2>2
    <3>2. N[k] \in D[e] + 1 .. F[e] BY <1>2, <3>1
    <3>3. M[k] \in D[e] + 1 .. F2[e] BY <1>5, <3>1, <3>2
    <3>4. QED BY <1>7, <3>1, <3>3
  <2>3. CASE k = z
    <3>1. w.id = 0 /\ M[k] = v BY <1>3, <1>4, <2>1, <2>3
    <3>2. v \in D[e] + 1 .. F2[e] BY <1>5, <3>1
    <3>3. QED BY <1>6, <2>3, <3>1, <3>2
  <2>4. QED BY <1>1, <2>1, <2>2, <2>3
<1>10. \A k, l \in DOMAIN t :
         k < l /\ (k \in Msgs2 <=> l \in Msgs2) => M[k] < M[l]
  <2>1. SUFFICES ASSUME NEW k \in DOMAIN t, NEW l \in DOMAIN t, k < l,
                        k \in Msgs2 <=> l \in Msgs2
                 PROVE  M[k] < M[l]
    OBVIOUS
  <2>2. k \in DOMAIN s
    <3>1. l \in Nat /\ l <= z BY <1>1
    <3>2. k # z BY <1>1, <2>1, <3>1
    <3>3. QED BY <1>1, <3>2
  <2>3. CASE l \in DOMAIN s
    <3>1. k \in Msgs <=> l \in Msgs BY <1>4, <2>1, <2>2, <2>3
    <3>2. N[k] < N[l] BY <1>2, <2>1, <2>2, <2>3, <3>1
    <3>3. QED BY <1>3, <2>2, <2>3, <3>2
  <2>4. CASE l = z
    <3>1. CASE w.id # 0
      <4>1. k \in Msgs BY <1>4, <2>1, <2>2, <2>4, <3>1
      <4>2. N[k] \in Lo + 1 .. Posted(e) /\ Lo \in Nat BY <1>2, <4>1 DEF Lo
      <4>3. N[k] < v BY <1>5, <3>1, <4>2
      <4>4. QED BY <1>3, <2>2, <2>4, <4>3
    <3>2. CASE w.id = 0
      <4>1. k \in DOMAIN s \ Msgs BY <1>4, <2>1, <2>2, <2>4, <3>2
      <4>2. N[k] \in D[e] + 1 .. F[e] BY <1>2, <4>1
      <4>3. N[k] < v BY <1>5, <3>2, <4>2
      <4>4. QED BY <1>3, <2>2, <2>4, <4>3
    <3>3. QED BY <3>1, <3>2
  <2>5. QED BY <1>1, <2>3, <2>4
<1>11. \A i \in Lo + 1 .. Hi : \E k \in Msgs2 : M[k] = i
  <2>1. SUFFICES ASSUME NEW i \in Lo + 1 .. Hi PROVE \E k \in Msgs2 : M[k] = i
    OBVIOUS
  <2>2. CASE i \in Lo + 1 .. Posted(e)
    <3>1. PICK k \in Msgs : N[k] = i BY <1>2, <2>2
    <3>2. k \in DOMAIN s BY DEF Msgs
    <3>3. QED BY <1>3, <1>4, <3>1, <3>2
  <2>3. CASE i \notin Lo + 1 .. Posted(e)
    <3>1. w.id # 0 /\ i = v
      <4>1. Lo \in Nat BY DEF Lo
      <4>2. QED BY <1>5, <2>3, <4>1
    <3>2. QED BY <1>3, <1>4, <3>1
  <2>4. QED BY <2>2, <2>3
<1>12. \A i \in D[e] + 1 .. F2[e] : \E k \in DOMAIN t \ Msgs2 : M[k] = i
  <2>1. SUFFICES ASSUME NEW i \in D[e] + 1 .. F2[e]
                 PROVE  \E k \in DOMAIN t \ Msgs2 : M[k] = i
    OBVIOUS
  <2>2. CASE i \in D[e] + 1 .. F[e]
    <3>1. PICK k \in DOMAIN s \ Msgs : N[k] = i BY <1>2, <2>2
    <3>2. QED BY <1>3, <1>4, <3>1
  <2>3. CASE i \notin D[e] + 1 .. F[e]
    <3>1. w.id = 0 /\ i = v BY <1>5, <2>3
    <3>2. QED BY <1>1, <1>3, <1>4, <3>1
  <2>4. QED BY <2>2, <2>3
<1>13. Len(M) = Len(t) BY <1>1, <1>3
<1>14. QED
  BY <1>8, <1>9, <1>10, <1>11, <1>12, <1>13
  DEF RequestsInOrder, t, M, Lo, Hi, Msgs2

\* The rest of Free: the buffer gets the next place in both arrays.
LEMMA FreeWriteInv ==
  ASSUME NEW F, NEW D, NEW L, NEW n, Good(F, D, L, n), NEW a \in Ends,
         FreeWrite(a)
  PROVE  \E F2, n2 : Good(F2, D, L, n2)'
<1> DEFINE v == F[a] + 1
<1> DEFINE F2 == [F EXCEPT ![a] = v]
<1> DEFINE n2 == [n EXCEPT ![a] = Append(n[a], v)]
<1> DEFINE h == arg[a]
<1> DEFINE w == PostWriteInline(0, <<"target", Slot(v)>>, Descriptor(h.buf))
<1> DEFINE R == received[a]
<1>1. TypeOK /\ Shapes /\ Counted(F, D, L, n) BY DEF Good
<1>2. /\ InTurn(a, F, D, L) /\ OneOwner(a, F) /\ BuffersFilled(a, F, L)
  BY PartsOf
<1>3. /\ F[a] \in Nat /\ D[a] \in Nat /\ L[a] \in Nat /\ R \in Nat
      /\ NrBuffers \in Nat \ {0} /\ R <= L[a] /\ L[a] <= F[a]
      /\ L[a] <= Posted(Peer(a)) /\ Posted(Peer(a)) <= D[a]
      /\ Posted(Peer(a)) \in Nat /\ D[a] <= F[a]
  BY CountFacts
<1>4. v \in Nat /\ Slot(v) \in Slots /\ Next1(Slot(v)) = Slot(v + 1)
  BY <1>3, SlotFacts
<1>5. rcv_tail[a] = Slot(v) BY <1>2 DEF InTurn
<1>6. /\ pc[a] = "freeing" /\ pc'[a] \in {"setup", "idle"}
      /\ pc' \in [Ends -> {"setup", "idle", "sending", "waiting", "freeing"}]
      /\ \A x \in Ends : x # a => pc'[x] = pc[x] /\ arg'[x] = arg[x]
      /\ DOMAIN arg' = Ends /\ arg' = [x \in Ends |-> arg'[x]]
  BY <1>1 DEF FreeWrite, Goto, TypeOK, Shapes
<1>7. /\ scq' = [scq EXCEPT ![a] = <<>>]
      /\ sq' = [sq EXCEPT ![a] = sq[a] \o <<w>>]
      /\ rcv_buffers' = [rcv_buffers EXCEPT ![a][Slot(v)] = Descriptor(h.buf)]
      /\ rcv_tail' = [rcv_tail EXCEPT ![a] = Next1(Slot(v))]
      /\ held' = [held EXCEPT ![a] = held[a] \ {h}]
      /\ UNCHANGED <<mem, flight, next_id, ackd_id, rcv_head, duplex, waiting,
                     received>>
  BY <1>5 DEF FreeWrite, Drain, PostSendRaw, FreeSlot
<1>8. /\ h \in held[a] /\ h.buf \in Buffers
      /\ mem[a][<<"rcv_len", h.buf>>] = 0
      /\ \A g \in held[a] : g.buf = h.buf => g = h
      /\ \A i \in R + 1 .. F[a] : At(a, i) # h.buf
  BY <1>1, <1>2, <1>6 DEF BuffersFilled, OneOwner, TypeOK
<1>9. F[a] < R + NrBuffers BY <1>8, NotAllAwaited
<1>10. w \in Requests
  <2>1. 1 \in 1 .. Regions BY DirectWriteAssumption
  <2>2. QED BY <1>4, <1>8, <2>1, RequestsTyped
<1>11. /\ sq'[a] = Append(sq[a], w) /\ sq' \in [Ends -> Seq(Requests)]
       /\ \A x \in Ends : x # a => sq'[x] = sq[x]
  <2> HIDE DEF w
  <2>1. sq[a] \in Seq(Requests) BY <1>1 DEF Shapes
  <2>2. sq[a] \o <<w>> = Append(sq[a], w) /\ Append(sq[a], w) \in Seq(Requests)
    BY <1>10, <2>1
  <2>3. QED BY <1>1, <1>7, <2>2 DEF Shapes
<1>12. /\ rcv_buffers' \in [Ends -> [Slots -> Descriptors]]
       /\ rcv_buffers'[a][Slot(v)] = Descriptor(h.buf)
       /\ \A j \in Slots : j # Slot(v) => rcv_buffers'[a][j] = rcv_buffers[a][j]
       /\ \A x \in Ends : x # a => rcv_buffers'[x] = rcv_buffers[x]
  <2>1. Descriptor(h.buf) \in Descriptors
    BY <1>8 DEF Descriptor, Descriptors
  <2> HIDE DEF h, v
  <2>2. QED BY <1>1, <1>4, <1>7, <2>1 DEF TypeOK
<1>13. /\ F2[a] = v /\ n2[a] = Append(n[a], v)
       /\ \A x \in Ends : x # a => F2[x] = F[x] /\ n2[x] = n[x]
       /\ Counted(F2, D, L, n2)
  <2>1. n[a] \in Seq(Nat) BY <1>1 DEF Counted
  <2>2. Append(n[a], v) \in Seq(Nat) BY <1>4, <2>1
  <2>3. QED BY <1>1, <1>4, <2>2 DEF Counted
<1>14. /\ held'[a] = held[a] \ {h} /\ rcv_tail'[a] = Slot(v + 1)
       /\ scq'[a] = <<>>
       /\ \A x \in Ends : x # a => /\ held'[x] = held[x] /\ scq'[x] = scq[x]
                                   /\ rcv_tail'[x] = rcv_tail[x]
  BY <1>1, <1>4, <1>7 DEF TypeOK, Shapes
<1> HIDE DEF h, w, v, F2, n2
<1>15. /\ \A j \in R + 1 .. F[a] : /\ Slot(j) \in Slots /\ Slot(j) # Slot(v)
                                   /\ At(a, j)' = At(a, j) /\ At(a, j) \in Buffers
       /\ At(a, v)' = h.buf
  <2>1. ASSUME NEW j \in R + 1 .. F[a]
        PROVE  Slot(j) \in Slots /\ Slot(j) # Slot(v) /\ At(a, j) \in Buffers
    <3>1. Slot(j) = Slot(v) => v = j + NrBuffers BY AwaitedFacts DEF v
    <3>2. Slot(j) \in Slots /\ At(a, j) \in Buffers BY AwaitedFacts
    <3>3. v # j + NrBuffers BY <1>3, <1>9 DEF v
    <3>4. QED BY <3>1, <3>2, <3>3
  <2>2. \A j \in R + 1 .. F[a] : At(a, j)' = At(a, j) BY <1>12, <2>1 DEF At
  <2>3. QED BY <1>12, <2>1, <2>2 DEF At, Descriptor
<1>16. \A x \in Ends : \A j : x # a => At(x, j)' = At(x, j) BY <1>12 DEF At
<1>17. \A x \in Ends : Posted(x)' = Posted(x) /\ Sent(x)' = Sent(x)
  BY <1>6, <1>7 DEF Posted, Sent
<1>18. Peer(a) \in Ends /\ Peer(Peer(a)) = a /\ Peer(a) # a BY EndFacts
<1>19. \A x \in Ends : InTurn(x, F2, D, L)'
  <2>1. SUFFICES ASSUME NEW x \in Ends PROVE InTurn(x, F2, D, L)' OBVIOUS
  <2>2. InTurn(x, F, D, L) /\ Peer(x) \in Ends BY PartsOf, EndFacts
  <2>3. CASE x # a BY <1>7, <1>13, <1>14, <1>17, <2>2, <2>3, InTurnKept
  <2>4. CASE x = a
    <3>1. D[a] <= v /\ v <= R + NrBuffers BY <1>3, <1>9 DEF v
    <3>2. QED BY <1>7, <1>13, <1>14, <1>17, <2>2, <2>4, <3>1 DEF InTurn
  <2>5. QED BY <2>3, <2>4
<1>20. \A x \in Ends : OneOwner(x, F2)'
  <2>1. SUFFICES ASSUME NEW x \in Ends PROVE OneOwner(x, F2)' OBVIOUS
  <2>2. CASE x # a BY <1>7, <1>12, <1>13, <1>14, <2>2, PartsOf, OneOwnerKept
  <2>3. OneOwner(a, F2)'
    <3> DEFINE Now == R + 1 .. v
    <3>1. \A j \in Now : j = v \/ j \in R + 1 .. F[a] BY <1>3 DEF v
    <3>2. v \in Now /\ \A j \in R + 1 .. F[a] : j \in Now /\ j # v
      BY <1>3 DEF v
    <3> HIDE DEF Now
    <3>3. \A j \in Now : /\ rcv_buffers'[a][Slot(j)] = Descriptor(At(a, j)')
                         /\ At(a, j)' \in Buffers
      <4>1. SUFFICES ASSUME NEW j \in Now
                     PROVE  /\ rcv_buffers'[a][Slot(j)] = Descriptor(At(a, j)')
                            /\ At(a, j)' \in Buffers
        OBVIOUS
      <4>2. CASE j = v
        <5>1. rcv_buffers'[a][Slot(j)] = Descriptor(h.buf) BY <1>12, <4>2
        <5>2. At(a, j)' = h.buf BY <5>1 DEF At, Descriptor
        <5>3. QED BY <1>8, <5>1, <5>2
      <4>3. CASE j \in R + 1 .. F[a]
        <5>1. rcv_buffers[a][Slot(j)] = Descriptor(At(a, j))
          BY <1>2, <4>3 DEF OneOwner, R
        <5>2. rcv_buffers'[a][Slot(j)] = rcv_buffers[a][Slot(j)]
          BY <1>12, <1>15, <4>3
        <5>3. QED BY <1>15, <4>3, <5>1, <5>2
      <4>4. QED BY <3>1, <4>2, <4>3
    <3>4. \A j, k \in Now : At(a, j)' = At(a, k)' => j = k
      <4>1. \A j \in Now : IF j = v THEN At(a, j)' = h.buf
                           ELSE At(a, j)' = At(a, j) /\ At(a, j) # h.buf
        BY <1>8, <1>15, <3>1 DEF At
      <4>2. \A j, k \in R + 1 .. F[a] : At(a, j) = At(a, k) => j = k
        BY <1>2 DEF OneOwner, R
      <4>3. QED BY <3>1, <4>1, <4>2
    <3>5. \A g \in held'[a] : /\ g \in [buf : Buffers, msg : 0 .. R]
                              /\ \A j \in Now : At(a, j)' # g.buf
      <4>1. SUFFICES ASSUME NEW g \in held[a], g # h
                     PROVE  /\ g \in [buf : Buffers, msg : 0 .. R]
                            /\ \A j \in Now : At(a, j)' # g.buf
        BY <1>14
      <4>2. g \in [buf : Buffers, msg : 0 .. R] /\ g.buf # h.buf
        BY <1>2, <1>8, <4>1 DEF OneOwner, R
      <4>3. \A j \in R + 1 .. F[a] : At(a, j) # g.buf BY <1>2 DEF OneOwner, R
      <4>4. ASSUME NEW j \in Now PROVE At(a, j)' # g.buf
        <5>1. CASE j = v
          <6>1. At(a, j)' = h.buf BY <1>12, <5>1 DEF At, Descriptor
          <6>2. QED BY <4>2, <6>1
        <5>2. CASE j \in R + 1 .. F[a] BY <1>15, <4>3, <5>2
        <5>3. QED BY <3>1, <5>1, <5>2
      <4>5. QED BY <4>2, <4>4
    <3>6. IF Receives(a)'
          THEN \A c \in Buffers : \/ \E g \in held'[a] : g.buf = c
                                  \/ \E j \in Now : At(a, j)' = c
          ELSE held'[a] = {} /\ F2[a] = 0
      <4>1. Receives(a)' = Receives(a) BY <1>7 DEF Receives
      <4>2. Receives(a) BY <1>2, <1>8 DEF OneOwner
      <4>3. \A c \in Buffers : \/ \E g \in held[a] : g.buf = c
                               \/ \E j \in R + 1 .. F[a] : At(a, j) = c
        BY <1>2, <4>2 DEF OneOwner, R
      <4>4. \E j \in Now : At(a, j)' = h.buf
        <5>1. \A j : j = v => At(a, j)' = h.buf BY <1>12 DEF At, Descriptor
        <5>2. QED BY <3>2, <5>1
      <4>5. \A c \in Buffers : \/ \E g \in held'[a] : g.buf = c
                               \/ \E j \in Now : At(a, j)' = c
        <5>1. SUFFICES ASSUME NEW c \in Buffers
              PROVE  \/ \E g \in held'[a] : g.buf = c
                     \/ \E j \in Now : At(a, j)' = c
          OBVIOUS
        <5>2. CASE c = h.buf BY <4>4, <5>2
        <5>3. CASE c # h.buf
          <6>1. CASE \E g \in held[a] : g.buf = c BY <1>14, <5>3, <6>1
          <6>2. CASE \E j \in R + 1 .. F[a] : At(a, j) = c BY <1>15, <3>2, <6>2
          <6>3. QED BY <4>3, <6>1, <6>2
        <5>4. QED BY <5>2, <5>3
      <4>6. QED BY <4>1, <4>2, <4>5
    <3>7. received'[a] = R /\ received'[a] + 1 .. F2[a] = Now
      BY <1>7, <1>13 DEF R, Now
    <3> HIDE DEF R
    <3>8. QED BY <3>3, <3>4, <3>5, <3>6, <3>7 DEF OneOwner
  <2>4. QED BY <2>2, <2>3
<1>21. \A x \in Ends : TargetsKnown(x, D)'
  <2>1. SUFFICES ASSUME NEW x \in Ends PROVE TargetsKnown(x, D)' OBVIOUS
  <2>2. /\ TargetsKnown(x, D) /\ D[x] \in Nat /\ Posted(Peer(x)) \in Nat
        /\ Peer(x) \in Ends
    BY PartsOf, CountFacts, EndFacts
  <2>3. \A j \in Posted(Peer(x)) + 1 .. D[x] : At(x, j)' = At(x, j)
    <3>1. CASE x # a BY <1>16, <3>1
    <3>2. CASE x = a
      <4>1. \A j \in Posted(Peer(a)) + 1 .. D[a] : j \in R + 1 .. F[a]
        BY <1>3
      <4>2. QED BY <1>15, <3>2, <4>1
    <3>3. QED BY <3>1, <3>2
  <2>4. QED BY <1>7, <1>17, <2>2, <2>3, TargetsKept
<1>22. BuffersFilled(a, F2, L)'
  <2>1. \A j \in R + 1 .. L[a] : j \in R + 1 .. F[a] BY <1>3
  <2>2. \A j \in L[a] + 1 .. v : j = v \/ (j \in L[a] + 1 .. F[a] /\ j \in R + 1 .. F[a])
    BY <1>3 DEF v
  <2>3. \A j \in R + 1 .. L[a] :
          mem[a][<<"rcv_len", At(a, j)'>>] = 1 /\ mem[a][<<"rcv", At(a, j)'>>] = j
    BY <1>2, <1>15, <2>1 DEF BuffersFilled, R
  <2>4. \A j \in L[a] + 1 .. v : mem[a][<<"rcv_len", At(a, j)'>>] = 0
    <3>1. SUFFICES ASSUME NEW j \in L[a] + 1 .. v
                   PROVE  mem[a][<<"rcv_len", At(a, j)'>>] = 0
      OBVIOUS
    <3>2. CASE j = v
      <4>1. At(a, j)' = h.buf BY <1>12, <3>2 DEF At, Descriptor
      <4>2. QED BY <1>8, <4>1
    <3>3. CASE j \in L[a] + 1 .. F[a] /\ j \in R + 1 .. F[a]
      <4>1. mem[a][<<"rcv_len", At(a, j)>>] = 0 BY <1>2, <3>3 DEF BuffersFilled
      <4>2. QED BY <1>15, <3>3, <4>1
    <3>4. QED BY <2>2, <3>2, <3>3
  <2>5. \A g \in held'[a] : g.msg > 0 => mem[a][<<"rcv", g.buf>>] = g.msg
    BY <1>2, <1>14 DEF BuffersFilled
  <2>6. pc'[a] # "freeing" BY <1>6
  <2>7. QED BY <1>7, <1>13, <2>3, <2>4, <2>5, <2>6 DEF BuffersFilled, R
<1>23. \A x \in Ends : BuffersFilled(x, F2, L)'
  <2>1. SUFFICES ASSUME NEW x \in Ends, x # a PROVE BuffersFilled(x, F2, L)' BY <1>22
  <2>2. BuffersFilled(x, F, L) BY PartsOf
  <2>3. /\ rcv_buffers'[x] = rcv_buffers[x] /\ F2[x] = F[x] /\ pc'[x] = pc[x]
        /\ arg'[x] = arg[x] /\ held'[x] = held[x]
    BY <1>6, <1>12, <1>13, <1>14, <2>1
  <2>4. QED BY <1>7, <2>2, <2>3 DEF BuffersFilled, At
<1>24. RequestsInOrder(a, F2, D, L, n2)'
  <2> DEFINE r == Peer(a)
  <2>1. RequestsInOrder(a, F, D, L, n) BY PartsOf
  <2>2. /\ sq[a] \in Seq(Requests) /\ n[a] \in Seq(Nat)
        /\ \A k \in DOMAIN sq[a] : sq'[a][k] = sq[a][k]
        /\ sq'[a][Len(sq[a]) + 1] = w
    <3>1. sq[a] \in Seq(Requests) /\ n[a] \in Seq(Nat)
      BY <1>1 DEF Shapes, Counted
    <3>2. QED BY <1>10, <1>11, <3>1
  <2>3. /\ L[r] \in Nat /\ Posted(a) \in Nat /\ L[r] <= Posted(a)
    BY <1>18, CountFacts
  <2>4. \A k \in DOMAIN sq[a], i \in L[r] + 1 .. Posted(a) :
          IsMessage(a, k, i) => IsMessage(a, k, i)'
    <3>1. r \in Ends /\ r # a BY <1>18
    <3>2. rcv_buffers'[r] = rcv_buffers[r] BY <1>12, <3>1
    <3>3. QED BY <1>7, <2>2, <3>2, ZenonT(60) DEF IsMessage, At
  <2>5. \A k \in DOMAIN sq[a], i \in D[a] + 1 .. F[a] :
          IsDescriptor(a, k, i) => IsDescriptor(a, k, i)'
    <3>1. \A i \in D[a] + 1 .. F[a] : i \in R + 1 .. F[a] BY <1>3
    <3>2. \A i \in D[a] + 1 .. F[a] : At(a, i)' = At(a, i) BY <1>15, <3>1
    <3>3. QED BY <2>2, <3>2 DEF IsDescriptor
  <2>6. \A k, i : k = Len(sq[a]) + 1 /\ i = v => IsDescriptor(a, k, i)'
    <3>1. SUFFICES ASSUME NEW k, NEW i, k = Len(sq[a]) + 1, i = v
                   PROVE  IsDescriptor(a, k, i)'
      OBVIOUS
    <3>2. At(a, i)' = h.buf BY <1>12, <3>1 DEF At, Descriptor
    <3>3. QED BY <2>2, <3>1, <3>2 DEF IsDescriptor, w
  <2>7. w.id = 0 BY DescriptorFields DEF w
  <2>8. Posted(a)' = Posted(a) BY <1>17
  <2>9. QED
    BY <1>3, <1>4, <1>10, <1>11, <1>13, <2>1, <2>2, <2>3, <2>4, <2>5, <2>6, <2>7,
       <2>8, RequestAdded DEF v
<1>25. \A x \in Ends : RequestsInOrder(x, F2, D, L, n2)'
  <2>1. SUFFICES ASSUME NEW x \in Ends, x # a PROVE RequestsInOrder(x, F2, D, L, n2)'
    BY <1>24
  <2>2. x = Peer(a) /\ Peer(x) = a BY <1>18, <2>1, EndFacts
  <2>3. RequestsInOrder(x, F, D, L, n) BY PartsOf
  <2>4. \A i \in L[a] + 1 .. Posted(x) : At(a, i)' = At(a, i)
    <3>1. \A i \in L[a] + 1 .. Posted(x) : i \in R + 1 .. F[a]
      BY <1>3, <2>2
    <3>2. QED BY <1>15, <3>1
  <2>5. \A i : At(x, i)' = At(x, i) BY <1>16, <2>1
  <2>6. QED BY <1>7, <1>11, <1>13, <1>17, <2>1, <2>2, <2>3, <2>4, <2>5, RequestsStay
<1>26. \A x \in Ends : RegionsKept(x, D)'
  <2>1. SUFFICES ASSUME NEW x \in Ends PROVE RegionsKept(x, D)' OBVIOUS
  <2>2. RegionsKept(x, D) /\ Peer(x) \in Ends BY PartsOf, EndFacts
  <2>3. D[Peer(x)] \in Nat BY <1>1, <2>2 DEF Counted
  <2>4. pc[x] = "sending" => At(Peer(x), Sent(x))' = At(Peer(x), Sent(x))
    <3>1. CASE x = a BY <1>16, <1>17, <1>18, <3>1 DEF At
    <3>2. CASE x # a
      <4>1. x = Peer(a) /\ Peer(x) = a BY <1>18, <3>2, EndFacts
      <4>2. SUFFICES ASSUME pc[x] = "sending"
                     PROVE  At(a, Sent(x))' = At(a, Sent(x))
        BY <4>1
      <4>3. Sent(x) \in 1 .. D[a] BY <2>2, <4>1, <4>2 DEF RegionsKept
      <4>4. Posted(x) = Sent(x) - 1 BY <4>2 DEF Posted
      <4>5. Sent(x) \in R + 1 .. F[a] BY <1>3, <4>1, <4>3, <4>4
      <4>6. rcv_buffers'[a][Slot(Sent(x))].addr = At(a, Sent(x))
        BY <1>12, <1>15, <4>5 DEF At
      <4>7. QED BY <1>17, <4>6 DEF At
    <3>3. QED BY <3>1, <3>2
  <2>5. /\ pc'[x] = "sending" <=> pc[x] = "sending"
        /\ pc'[x] = "waiting" => pc[x] = "waiting"
        /\ pc[x] \in {"sending", "waiting"} => arg'[x] = arg[x]
    BY <1>6
  <2>6. QED BY <1>7, <2>2, <2>3, <2>4, <2>5, RegionsStay
<1>27. \A x \in Ends : CompletedLanded(x, L)'
  <2>1. SUFFICES ASSUME NEW x \in Ends PROVE CompletedLanded(x, L)' OBVIOUS
  <2>2. CompletedLanded(x, L) BY PartsOf
  <2>3. CASE x # a BY <1>7, <1>14, <2>2, <2>3, CompletedKept
  <2>4. CASE x = a BY <1>7, <1>14, <2>2, <2>4 DEF CompletedLanded
  <2>5. QED BY <2>3, <2>4
<1>28. Agree(F2, D, L, n2)'
  BY <1>19, <1>20, <1>21, <1>23, <1>25, <1>26, <1>27 DEF Agree
<1>29. TypeOK'
  <2>1. rcv_tail' \in [Ends -> Slots]
    <3>1. v + 1 \in Nat BY <1>4
    <3>2. Slot(v + 1) \in Slots BY <3>1, SlotFacts
    <3>3. QED BY <1>1, <1>4, <1>7, <3>2 DEF TypeOK
  <2>2. Limit' = Limit /\ \A e \in Ends : Used(e)' = Used(e)
    BY <1>7 DEF Limit, Used
  <2>3. \A e \in Ends : \A g, k \in held'[e] : g.buf = k.buf => g = k
    BY <1>1, <1>14 DEF TypeOK
  <2>4. QED BY <1>1, <1>6, <1>7, <1>12, <2>1, <2>2, <2>3 DEF TypeOK
<1>30. Shapes'
  <2>1. held' \in [Ends -> SUBSET [buf : Buffers, msg : Nat]]
    BY <1>1, <1>7 DEF Shapes
  <2>2. scq' \in [Ends -> Seq(Nat)] BY <1>1, <1>7 DEF Shapes
  <2>3. QED BY <1>1, <1>6, <1>7, <1>11, <2>1, <2>2 DEF Shapes
<1>31. Good(F2, D, L, n2)' BY <1>13, <1>28, <1>29, <1>30 DEF Good, Counted
<1>32. QED BY <1>31

-----------------------------------------------------------------------------
(* Posting a message *)

\* The descriptor is used up, and the message posted.
LEMMA WriteInv ==
  ASSUME NEW F, NEW D, NEW L, NEW n, Good(F, D, L, n), NEW a \in Ends, Write(a)
  PROVE  \E n2 : Good(F, D, L, n2)'
<1>0. PICK i \in Nat : i = Sent(a) BY CountFacts
<1> DEFINE r == Peer(a)
<1> DEFINE g == arg[a].region
<1> DEFINE b == At(r, i)
<1> DEFINE n2 == [n EXCEPT ![a] = Append(n[a], i)]
<1> DEFINE m == Message([id |-> i, region |-> g, addr |-> b])
<1> DEFINE s == waiting[a]
<1> DEFINE u == [id |-> i, region |-> g]
<1> DEFINE d == mem[a][<<"target", Slot(i)>>]
<1> DEFINE d2 == [d EXCEPT !.valid = FALSE]
<1>1. TypeOK /\ Shapes /\ Counted(F, D, L, n) BY DEF Good
<1>2. r \in Ends /\ Peer(r) = a /\ r # a BY EndFacts
<1>3. pc[a] = "sending" BY DEF Write
<1>4. RegionsKept(a, D) BY PartsOf
<1>5. /\ arg[a].id = i /\ i \in 1 .. D[r] /\ arg[a].addr = b
      /\ g \in (1 .. Regions) \ Used(a)
      /\ mem[a][<<"snd", g>>] = i /\ mem[a][<<"snd_len", g>>] = 1
  BY <1>0, <1>3, <1>4 DEF RegionsKept
<1>6. /\ F[r] \in Nat /\ D[r] \in Nat /\ L[r] \in Nat /\ received[r] \in Nat
      /\ i \in Nat /\ NrBuffers \in Nat \ {0} /\ received[r] <= L[r]
      /\ L[r] <= Posted(a) /\ Posted(a) = i - 1 /\ Posted(a) \in Nat
      /\ D[r] <= F[r] /\ F[r] <= received[r] + NrBuffers
  BY <1>0, <1>2, <1>3, CountFacts
<1>7. Slot(i) \in Slots BY <1>6, SlotFacts
<1>8. /\ mem' = [mem EXCEPT ![a][<<"target", Slot(i)>>] = d2]
      /\ sq' = [sq EXCEPT ![a] = sq[a] \o <<m>>]
      /\ waiting' = [waiting EXCEPT ![a] = Append(s, u)]
      /\ pc' = [pc EXCEPT ![a] = "idle"] /\ arg' = [arg EXCEPT ![a] = 0]
      /\ UNCHANGED <<flight, scq, next_id, ackd_id, rcv_buffers, rcv_head,
                     rcv_tail, duplex, received, held>>
  BY <1>5 DEF Write, PostSendRaw, Goto, Message, dwVars
<1>9. /\ i \in received[r] + 1 .. F[r] /\ i \in Posted(a) + 1 .. D[r]
      /\ b \in Buffers
  <2>1. i \in received[r] + 1 .. F[r] /\ i \in Posted(a) + 1 .. D[r]
    BY <1>5, <1>6
  <2>2. QED BY <1>2, <2>1, AwaitedFacts
<1>10. m \in Requests /\ m.id = i
  <2>1. 0 \in Slots BY NrBuffersIs DEF Slots
  <2> HIDE DEF g, b, m
  <2>2. i \in Nat /\ g \in 1 .. Regions /\ b \in Buffers
    BY <1>5, <1>6, <1>9 DEF g, b
  <2>3. m \in Requests BY <2>1, <2>2, RequestsTyped DEF m
  <2>4. m.id = i BY DEF m, Message, PostWrite, WriteRequest
  <2>5. QED BY <2>3, <2>4
<1>11. u \in [id : Nat, region : 1 .. Regions] /\ u.id = i /\ u.region = g
  BY <1>5, <1>6
<1> HIDE DEF g, b, m, u, d2, n2
<1>12. /\ pc'[a] = "idle"
       /\ \A x \in Ends : x # a => /\ pc'[x] = pc[x] /\ arg'[x] = arg[x]
                                   /\ sq'[x] = sq[x] /\ waiting'[x] = waiting[x]
  BY <1>1, <1>8 DEF TypeOK, Shapes
<1>13. /\ Posted(a)' = i /\ \A x \in Ends : Sent(x)' = Sent(x)
       /\ \A x \in Ends : x # a => Posted(x)' = Posted(x)
  BY <1>0, <1>8, <1>12 DEF Posted, Sent
<1>14. /\ sq'[a] = Append(sq[a], m) /\ sq' \in [Ends -> Seq(Requests)]
       /\ \A k \in DOMAIN sq[a] : sq'[a][k] = sq[a][k]
       /\ sq'[a][Len(sq[a]) + 1] = m /\ sq[a] \in Seq(Requests)
  <2>1. sq[a] \in Seq(Requests) BY <1>1 DEF Shapes
  <2>2. sq[a] \o <<m>> = Append(sq[a], m) /\ Append(sq[a], m) \in Seq(Requests)
    BY <1>10, <2>1
  <2>3. sq'[a] = Append(sq[a], m) /\ sq' \in [Ends -> Seq(Requests)]
    BY <1>1, <1>8, <2>2 DEF Shapes
  <2>4. QED BY <1>10, <2>1, <2>3
<1>15. /\ waiting'[a] = Append(s, u)
       /\ Append(s, u) \in Seq([id : Nat, region : 1 .. Regions])
       /\ DOMAIN waiting'[a] = DOMAIN s \cup {Len(s) + 1}
       /\ Len(s) + 1 \notin DOMAIN s
       /\ waiting'[a][Len(s) + 1] = u
       /\ \A x \in DOMAIN s : waiting'[a][x] = s[x]
  <2> DEFINE W == [id : Nat, region : 1 .. Regions]
  <2> DEFINE t == waiting'[a]
  <2>1. s \in Seq(W) /\ u \in W /\ t = Append(s, u)
    BY <1>1, <1>8, <1>11 DEF Shapes
  <2> HIDE DEF W, s, t
  <2>2. Append(s, u) \in Seq(W) BY <2>1
  <2>3. /\ Len(s) \in Nat /\ DOMAIN s = 1 .. Len(s)
        /\ DOMAIN t = 1 .. Len(s) + 1 /\ t[Len(s) + 1] = u
        /\ \A x \in 1 .. Len(s) : t[x] = s[x]
    BY <2>1
  <2>4. DOMAIN t = DOMAIN s \cup {Len(s) + 1} /\ Len(s) + 1 \notin DOMAIN s
    BY <2>3
  <2>5. QED BY <2>1, <2>2, <2>3, <2>4 DEF W, t
<1>16. /\ n2[a] = Append(n[a], i) /\ \A x \in Ends : x # a => n2[x] = n[x]
       /\ Counted(F, D, L, n2) /\ n[a] \in Seq(Nat)
  <2>1. n[a] \in Seq(Nat) BY <1>1 DEF Counted
  <2>2. Append(n[a], i) \in Seq(Nat) BY <1>6, <2>1
  <2>3. QED BY <1>1, <2>1, <2>2 DEF Counted, n2
<1>17. /\ mem' \in [Ends -> [Locations -> Nat \cup Descriptors]]
       /\ \A x \in Ends, l \in Locations :
            mem'[x][l] = IF x = a /\ l = <<"target", Slot(i)>> THEN d2 ELSE mem[x][l]
       /\ d2 \in Descriptors /\ d2.valid = FALSE
  <2>1. d \in Descriptors BY <1>1, <1>7 DEF Shapes
  <2>2. d2 \in Descriptors /\ d2.valid = FALSE BY <2>1 DEF Descriptors, d2
  <2>3. <<"target", Slot(i)>> \in Locations BY <1>7, LocationFacts
  <2>4. mem \in [Ends -> [Locations -> Nat \cup Descriptors]] BY <1>1 DEF Shapes
  <2>5. mem' = [mem EXCEPT ![a][<<"target", Slot(i)>>] = d2] BY <1>8 DEF d2
  <2>6. QED BY <2>2, <2>3, <2>4, <2>5, CellWritten
<1>18. /\ \A x \in Ends, j \in Slots : x # a \/ j # Slot(i) =>
            mem'[x][<<"target", j>>] = mem[x][<<"target", j>>]
       /\ \A x \in Ends, c \in Buffers :
            /\ mem'[x][<<"rcv", c>>] = mem[x][<<"rcv", c>>]
            /\ mem'[x][<<"rcv_len", c>>] = mem[x][<<"rcv_len", c>>]
       /\ \A x \in Ends, k \in 1 .. Regions :
            /\ mem'[x][<<"snd", k>>] = mem[x][<<"snd", k>>]
            /\ mem'[x][<<"snd_len", k>>] = mem[x][<<"snd_len", k>>]
       /\ mem'[a][<<"target", Slot(i)>>] = d2
  <2>1. Slot(i) \in Slots BY <1>7
  <2>2. QED BY <1>17, <2>1, LocationFacts
<1>19. \A x \in Ends : InTurn(x, F, D, L)'
  <2>1. SUFFICES ASSUME NEW x \in Ends PROVE InTurn(x, F, D, L)' OBVIOUS
  <2>2. InTurn(x, F, D, L) BY PartsOf
  <2>3. CASE x = a
    <3>1. Posted(Peer(x))' = Posted(Peer(x)) BY <1>2, <1>13, <2>3
    <3>2. QED BY <1>8, <2>2, <3>1, InTurnKept
  <2>4. CASE x = r
    <3>1. L[r] <= i /\ i <= D[r] BY <1>6, <1>9
    <3>2. Posted(Peer(x))' = i BY <1>2, <1>13, <2>4
    <3>3. QED BY <1>8, <2>2, <2>4, <3>1, <3>2 DEF InTurn
  <2>5. QED BY <2>3, <2>4, EndFacts
<1>20. \A x \in Ends : OneOwner(x, F)' BY <1>8, PartsOf, OneOwnerKept
<1>21. TargetsKnown(r, D)'
  <2>1. TargetsKnown(r, D) BY <1>2, PartsOf
  <2>2. \A k \in i + 1 .. D[r] : /\ k \in Posted(a) + 1 .. D[r]
                                 /\ k \in received[r] + 1 .. F[r] /\ k # i
    BY <1>6
  <2>3. \A k \in i + 1 .. D[r] : Slot(k) \in Slots /\ Slot(k) # Slot(i)
    <3>1. i \in received[r] + 1 .. F[r] BY <1>9
    <3>2. QED BY <1>2, <2>2, <3>1, AwaitedFacts
  <2>4. \A k \in i + 1 .. D[r] :
          mem'[a][<<"target", Slot(k)>>] = Descriptor(At(r, k))
    BY <1>2, <1>18, <2>1, <2>2, <2>3 DEF TargetsKnown
  <2>5. \A j \in Slots : mem'[a][<<"target", j>>].valid
                           => \E k \in i + 1 .. D[r] : j = Slot(k)
    <3>1. SUFFICES ASSUME NEW j \in Slots, mem'[a][<<"target", j>>].valid
                   PROVE  \E k \in i + 1 .. D[r] : j = Slot(k)
      OBVIOUS
    <3>2. j # Slot(i) BY <1>17, <1>18, <3>1
    <3>3. mem[a][<<"target", j>>].valid BY <1>18, <3>1, <3>2
    <3>4. PICK k \in Posted(a) + 1 .. D[r] : j = Slot(k)
      BY <1>2, <2>1, <3>3 DEF TargetsKnown
    <3>5. k # i BY <3>2, <3>4
    <3>6. k \in i + 1 .. D[r] BY <1>6, <3>5
    <3>7. QED BY <3>4, <3>6
  <2>6. Peer(r)' = a /\ Posted(a)' = i BY <1>2, <1>13
  <2>7. QED BY <1>2, <1>8, <2>4, <2>5, <2>6 DEF TargetsKnown, At
<1>22. \A x \in Ends : TargetsKnown(x, D)'
  <2>1. SUFFICES TargetsKnown(a, D)' BY <1>21, EndFacts
  <2>2. TargetsKnown(a, D) /\ D[a] \in Nat /\ Posted(r) \in Nat
    BY PartsOf, CountFacts
  <2>3. QED BY <1>2, <1>8, <1>13, <1>18, <2>2, TargetsKept DEF At
<1>23. \A x \in Ends : BuffersFilled(x, F, L)'
  <2>1. SUFFICES ASSUME NEW x \in Ends PROVE BuffersFilled(x, F, L)' OBVIOUS
  <2>2. BuffersFilled(x, F, L) BY PartsOf
  <2>3. /\ L[x] <= F[x] /\ L[x] \in Nat /\ F[x] \in Nat
        /\ received[x] \in Nat /\ received[x] <= L[x]
    BY CountFacts
  <2>4. \A k \in received[x] + 1 .. F[x] : At(x, k)' = At(x, k) /\ At(x, k) \in Buffers
    BY <1>8, AwaitedFacts DEF At
  <2>5. pc'[x] = "freeing" => pc[x] = "freeing" /\ arg'[x] = arg[x] BY <1>12
  <2>6. held[x] \subseteq [buf : Buffers, msg : Nat] BY <1>1 DEF Shapes
  <2>7. QED BY <1>8, <1>18, <2>2, <2>3, <2>4, <2>5, <2>6, BuffersStay
<1>24. RequestsInOrder(a, F, D, L, n2)'
  <2>1. RequestsInOrder(a, F, D, L, n) BY PartsOf
  <2>2. \A k \in DOMAIN sq[a], j \in L[r] + 1 .. Posted(a) :
          IsMessage(a, k, j) => IsMessage(a, k, j)'
    <3>1. SUFFICES ASSUME NEW k \in DOMAIN sq[a], NEW j \in L[r] + 1 .. Posted(a),
                          IsMessage(a, k, j)
                   PROVE  IsMessage(a, k, j)'
      OBVIOUS
    <3>2. At(r, j) \in Buffers
      <4>1. j \in received[r] + 1 .. F[r] BY <1>5, <1>6
      <4>2. QED BY <1>2, <4>1, AwaitedFacts
    <3>3. mem'[r][<<"rcv", At(r, j)>>] = mem[r][<<"rcv", At(r, j)>>]
      BY <1>2, <1>18, <3>2
    <3>4. sq'[a][k] = sq[a][k] BY <1>14
    <3>5. PICK x \in DOMAIN s :
            LET c == Message([id |-> j, region |-> s[x].region, addr |-> At(r, j)])
            IN  /\ s[x].id = j
                /\ \/ sq[a][k] = c
                   \/ /\ k = 1 /\ mem[r][<<"rcv", At(r, j)>>] = j
                      /\ sq[a][k] = [c EXCEPT !.puts = Tail(@)]
      BY <3>1 DEF IsMessage
    <3>6. x \in DOMAIN waiting'[a] /\ waiting'[a][x] = s[x] BY <1>15
    <3>7. sq[a][k].id = j /\ rcv_buffers' = rcv_buffers
      BY <1>8, <3>1 DEF IsMessage
    <3> HIDE DEF s
    <3>8. QED BY <3>3, <3>4, <3>5, <3>6, <3>7 DEF IsMessage, At
  <2>3. \A k \in DOMAIN sq[a], j \in D[a] + 1 .. F[a] :
          IsDescriptor(a, k, j) => IsDescriptor(a, k, j)'
    BY <1>8, <1>14 DEF IsDescriptor, At
  <2>4. \A k, j : k = Len(sq[a]) + 1 /\ j = i => IsMessage(a, k, j)'
    <3>1. SUFFICES ASSUME NEW k, NEW j, k = Len(sq[a]) + 1, j = i
                   PROVE  IsMessage(a, k, j)'
      OBVIOUS
    <3>2. sq'[a][k] = m /\ m.id = j BY <1>10, <1>14, <3>1
    <3>3. At(r, j)' = b BY <1>8, <3>1 DEF At, b
    <3> DEFINE x == Len(s) + 1
    <3>4. x \in DOMAIN waiting'[a] /\ waiting'[a][x] = u BY <1>15
    <3> HIDE DEF x
    <3>5. waiting'[a][x].id = j /\ waiting'[a][x].region = g BY <1>11, <3>1, <3>4
    <3>6. m = Message([id |-> j, region |-> g, addr |-> b]) BY <3>1 DEF m
    <3>7. QED BY <3>2, <3>3, <3>4, <3>5, <3>6 DEF IsMessage
  <2>5. m.id # 0 /\ i = Posted(a) + 1 /\ i \in Nat BY <1>5, <1>6, <1>10
  <2>6. F[a] \in Nat /\ D[a] \in Nat /\ D[a] <= F[a] BY CountFacts
  <2>7. /\ sq'[a] = Append(sq[a], m) /\ n2[a] = Append(n[a], i)
        /\ sq[a] \in Seq(Requests) /\ n[a] \in Seq(Nat) /\ m \in Requests
        /\ L[Peer(a)] \in Nat /\ Posted(a) \in Nat /\ L[Peer(a)] <= Posted(a)
        /\ Posted(a)' = i
    BY <1>6, <1>10, <1>13, <1>14, <1>16
  <2> HIDE DEF r
  <2>8. \A k \in DOMAIN sq[a], j \in L[Peer(a)] + 1 .. Posted(a) :
          IsMessage(a, k, j) => IsMessage(a, k, j)'
    BY <2>2 DEF r
  <2>9. QED BY <2>1, <2>3, <2>4, <2>5, <2>6, <2>7, <2>8, RequestAdded
<1>25. \A x \in Ends : RequestsInOrder(x, F, D, L, n2)'
  <2>1. SUFFICES ASSUME NEW x \in Ends, x # a PROVE RequestsInOrder(x, F, D, L, n2)'
    BY <1>24
  <2>2. RequestsInOrder(x, F, D, L, n) /\ Peer(x) \in Ends BY PartsOf, EndFacts
  <2>3. \A k \in L[Peer(x)] + 1 .. Posted(x) : At(Peer(x), k) \in Buffers
    <3>1. x = r /\ Peer(x) = a BY <1>2, <2>1, EndFacts
    <3>2. /\ L[a] \in Nat /\ Posted(r) \in Nat /\ received[a] \in Nat
          /\ F[a] \in Nat /\ received[a] <= L[a] /\ D[a] <= F[a] /\ D[a] \in Nat
          /\ Posted(r) <= D[a]
      BY CountFacts
    <3>3. \A k \in L[a] + 1 .. Posted(r) : k \in received[a] + 1 .. F[a] BY <3>2
    <3>4. QED BY <3>1, <3>3, AwaitedFacts
  <2>4. /\ sq'[x] = sq[x] /\ Posted(x)' = Posted(x) /\ n2[x] = n[x]
        /\ \A y \in DOMAIN waiting[x] :
             \E z \in DOMAIN waiting'[x] : waiting'[x][z] = waiting[x][y]
    BY <1>12, <1>13, <1>16, <2>1
  <2>5. \A y, k : At(y, k)' = At(y, k) BY <1>8 DEF At
  <2>6. \A k \in L[Peer(x)] + 1 .. Posted(x) :
          mem'[Peer(x)][<<"rcv", At(Peer(x), k)>>]
            = mem[Peer(x)][<<"rcv", At(Peer(x), k)>>]
    BY <1>18, <2>2, <2>3
  <2>7. QED BY <2>2, <2>4, <2>5, <2>6, RequestsStay
<1>26. /\ \A x \in DOMAIN waiting'[a] :
            LET w == waiting'[a][x] IN
            /\ w \in [id : 1 .. i, region : 1 .. Regions]
            /\ mem'[a][<<"snd", w.region>>] = w.id
            /\ mem'[a][<<"snd_len", w.region>>] = 1
       /\ \A x, y \in DOMAIN waiting'[a] :
            x # y => /\ waiting'[a][x].region # waiting'[a][y].region
                     /\ waiting'[a][x].id # waiting'[a][y].id
  <2>1. \A x \in DOMAIN s :
          /\ s[x] \in [id : 1 .. i, region : 1 .. Regions]
          /\ mem'[a][<<"snd", s[x].region>>] = s[x].id
          /\ mem'[a][<<"snd_len", s[x].region>>] = 1
          /\ s[x].id # i /\ s[x].region # g
    <3>1. SUFFICES ASSUME NEW x \in DOMAIN s
                   PROVE  /\ s[x] \in [id : 1 .. i, region : 1 .. Regions]
                          /\ mem'[a][<<"snd", s[x].region>>] = s[x].id
                          /\ mem'[a][<<"snd_len", s[x].region>>] = 1
                          /\ s[x].id # i /\ s[x].region # g
      OBVIOUS
    <3>2. /\ s[x] \in [id : 1 .. Posted(a), region : 1 .. Regions]
          /\ mem[a][<<"snd", s[x].region>>] = s[x].id
          /\ mem[a][<<"snd_len", s[x].region>>] = 1
      BY <1>4 DEF RegionsKept
    <3>3. s[x].region # g BY <1>5 DEF Used, g
    <3>4. s[x].id \in 1 .. Posted(a) /\ s[x].region \in 1 .. Regions BY <3>2
    <3>5. s[x].id \in 1 .. i /\ s[x].id # i BY <1>6, <3>4
    <3>6. s[x] = [id |-> s[x].id, region |-> s[x].region] BY <3>2
    <3>7. s[x] \in [id : 1 .. i, region : 1 .. Regions] BY <3>4, <3>5, <3>6
    <3>8. QED BY <1>18, <3>2, <3>3, <3>4, <3>5, <3>7
  <2>2. /\ u \in [id : 1 .. i, region : 1 .. Regions]
        /\ mem'[a][<<"snd", u.region>>] = u.id
        /\ mem'[a][<<"snd_len", u.region>>] = 1
    <3>1. i \in 1 .. i /\ g \in 1 .. Regions BY <1>5, <1>6 DEF g
    <3>2. u \in [id : 1 .. i, region : 1 .. Regions] BY <3>1 DEF u
    <3>3. mem[a][<<"snd", g>>] = i /\ mem[a][<<"snd_len", g>>] = 1
      BY <1>5 DEF g
    <3>4. QED BY <1>11, <1>18, <3>1, <3>2, <3>3
  <2>3. \A x, y \in DOMAIN s :
          x # y => s[x].region # s[y].region /\ s[x].id # s[y].id
    BY <1>4 DEF RegionsKept
  <2> DEFINE t == waiting'[a]
  <2> HIDE DEF s, t
  <2>4. /\ DOMAIN t = DOMAIN s \cup {Len(s) + 1} /\ Len(s) + 1 \notin DOMAIN s
        /\ t[Len(s) + 1] = u /\ \A x \in DOMAIN s : t[x] = s[x]
    BY <1>15 DEF t
  <2>5. \A x \in DOMAIN t :
          LET w == t[x] IN
          /\ w \in [id : 1 .. i, region : 1 .. Regions]
          /\ mem'[a][<<"snd", w.region>>] = w.id
          /\ mem'[a][<<"snd_len", w.region>>] = 1
    BY <2>1, <2>2, <2>4
  <2>6. \A x, y \in DOMAIN t :
          x # y => t[x].region # t[y].region /\ t[x].id # t[y].id
    <3> DEFINE z == Len(s) + 1
    <3>1. \A x \in DOMAIN t : x \in DOMAIN s \/ x = z BY <2>4
    <3>2. t[z] = u /\ u.id = i /\ u.region = g BY <1>11, <2>4
    <3>3. \A x \in DOMAIN s : t[x] = s[x] /\ t[x].id # i /\ t[x].region # g
      BY <2>1, <2>4
    <3> HIDE DEF z
    <3>4. QED BY <2>3, <3>1, <3>2, <3>3
  <2>7. QED BY <2>5, <2>6 DEF t
<1>27. \A x \in Ends : RegionsKept(x, D)'
  <2>1. RegionsKept(a, D)' BY <1>12, <1>13, <1>26 DEF RegionsKept
  <2>2. SUFFICES ASSUME NEW x \in Ends, x # a PROVE RegionsKept(x, D)' BY <2>1
  <2>3. RegionsKept(x, D) /\ Peer(x) \in Ends BY PartsOf, EndFacts
  <2>4. D[Peer(x)] \in Nat BY <1>1, <2>3 DEF Counted
  <2>5. At(Peer(x), Sent(x))' = At(Peer(x), Sent(x)) BY <1>8, <1>13 DEF At
  <2>6. QED BY <1>8, <1>12, <1>18, <2>2, <2>3, <2>4, <2>5, RegionsStay
<1>28. \A x \in Ends : CompletedLanded(x, L)' BY <1>8, PartsOf, CompletedKept
<1>29. Agree(F, D, L, n2)'
  BY <1>19, <1>20, <1>22, <1>23, <1>25, <1>27, <1>28 DEF Agree
<1>30. TypeOK'
  <2>1. pc' \in [Ends -> {"setup", "idle", "sending", "waiting", "freeing"}]
    BY <1>1, <1>8 DEF TypeOK
  <2>2. Limit' = Limit BY <1>8 DEF Limit
  <2>3. \A e \in Ends : Cardinality(Used(e)') = Len(waiting'[e])
    <3>1. ASSUME NEW e \in Ends, e # a
          PROVE  Cardinality(Used(e)') = Len(waiting'[e])
      <4>1. Used(e)' = Used(e) /\ waiting'[e] = waiting[e]
        BY <1>12, <3>1 DEF Used
      <4>2. QED BY <1>1, <4>1 DEF TypeOK
    <3>2. Cardinality(Used(a)') = Len(waiting'[a])
      <4>1. waiting'[a] \in Seq([id : Nat, region : 1 .. Regions]) BY <1>15
      <4>2. Cardinality({waiting'[a][k].region : k \in DOMAIN waiting'[a]})
              = Len(waiting'[a])
        BY <1>26, <4>1, RegionCount
      <4>3. QED BY <4>2 DEF Used
    <3>3. QED BY <3>1, <3>2
  <2>4. QED BY <1>1, <1>8, <2>1, <2>2, <2>3 DEF TypeOK
<1>31. Shapes'
  <2>1. waiting' \in [Ends -> Seq([id : Nat, region : 1 .. Regions])]
    BY <1>1, <1>8, <1>15 DEF Shapes
  <2>2. \A e \in Ends, j \in Slots : mem'[e][<<"target", j>>] \in Descriptors
    <3>1. \A e \in Ends, j \in Slots : mem[e][<<"target", j>>] \in Descriptors
      BY <1>1 DEF Shapes
    <3>2. QED BY <1>17, <1>18, <3>1
  <2>3. DOMAIN arg' = Ends /\ arg' = [e \in Ends |-> arg'[e]]
    BY <1>1, <1>8 DEF Shapes
  <2>4. QED BY <1>1, <1>8, <1>14, <1>17, <2>1, <2>2, <2>3 DEF Shapes
<1>32. Good(F, D, L, n2)' BY <1>16, <1>29, <1>30, <1>31 DEF Good, Counted
<1>33. QED BY <1>32

-----------------------------------------------------------------------------
(* The device places writes *)

\* The first request is that of the next message, or of the next descriptor.
LEMMA FirstInTurn ==
  ASSUME NEW F, NEW D, NEW L, NEW n, Good(F, D, L, n), NEW a \in Ends,
         sq[a] # <<>>
  PROVE  /\ 1 \in DOMAIN sq[a] /\ Head(sq[a]) = sq[a][1] /\ sq[a][1] \in Requests
         /\ IF sq[a][1].id # 0
            THEN /\ n[a][1] = L[Peer(a)] + 1 /\ n[a][1] <= Posted(a)
                 /\ IsMessage(a, 1, n[a][1])
            ELSE /\ n[a][1] = D[a] + 1 /\ n[a][1] <= F[a]
                 /\ IsDescriptor(a, 1, n[a][1])
<1> DEFINE s == sq[a]
<1> DEFINE N == n[a]
<1> DEFINE Msgs == {k \in DOMAIN s : s[k].id # 0}
<1>1. s \in Seq(Requests) /\ s # <<>> BY DEF Good, Shapes
<1>2. /\ 1 \in DOMAIN s /\ Head(s) = s[1] /\ s[1] \in Requests
      /\ \A k \in DOMAIN s : k \in Nat /\ (k = 1 \/ 1 < k)
  <2> HIDE DEF s
  <2>1. QED BY <1>1
<1>3. /\ L[Peer(a)] \in Nat /\ Posted(a) \in Nat /\ F[a] \in Nat /\ D[a] \in Nat
  <2>1. Peer(a) \in Ends /\ Peer(Peer(a)) = a BY EndFacts
  <2>2. QED BY <2>1, CountFacts
<1>4. /\ \A k \in Msgs : N[k] \in L[Peer(a)] + 1 .. Posted(a) /\ IsMessage(a, k, N[k])
      /\ \A k \in DOMAIN s \ Msgs : N[k] \in D[a] + 1 .. F[a] /\ IsDescriptor(a, k, N[k])
      /\ \A k, l \in DOMAIN s : k < l /\ (k \in Msgs <=> l \in Msgs) => N[k] < N[l]
      /\ \A i \in L[Peer(a)] + 1 .. Posted(a) : \E k \in Msgs : N[k] = i
      /\ \A i \in D[a] + 1 .. F[a] : \E k \in DOMAIN s \ Msgs : N[k] = i
  BY PartsOf DEF RequestsInOrder
<1> HIDE DEF s, N, Msgs
<1>5. ASSUME s[1].id # 0
      PROVE  N[1] = L[Peer(a)] + 1 /\ N[1] <= Posted(a) /\ IsMessage(a, 1, N[1])
  <2>1. 1 \in Msgs BY <1>2, <1>5 DEF Msgs
  <2>2. N[1] \in L[Peer(a)] + 1 .. Posted(a) /\ IsMessage(a, 1, N[1])
    BY <1>4, <2>1
  <2>3. L[Peer(a)] + 1 \in L[Peer(a)] + 1 .. Posted(a) BY <1>3, <2>2
  <2>4. PICK k \in Msgs : N[k] = L[Peer(a)] + 1 BY <1>4, <2>3
  <2>5. k \in DOMAIN s BY DEF Msgs
  <2>6. ~(1 < k)
    <3>1. SUFFICES ASSUME 1 < k PROVE FALSE OBVIOUS
    <3>2. N[1] < N[k] BY <1>2, <1>4, <2>1, <2>5, <3>1
    <3>3. QED BY <1>3, <2>2, <2>4, <3>2
  <2>7. k = 1 BY <1>2, <2>5, <2>6
  <2>8. QED BY <1>3, <2>2, <2>4, <2>7
<1>6. ASSUME s[1].id = 0
      PROVE  N[1] = D[a] + 1 /\ N[1] <= F[a] /\ IsDescriptor(a, 1, N[1])
  <2>1. 1 \in DOMAIN s \ Msgs BY <1>2, <1>6 DEF Msgs
  <2>2. N[1] \in D[a] + 1 .. F[a] /\ IsDescriptor(a, 1, N[1]) BY <1>4, <2>1
  <2>3. D[a] + 1 \in D[a] + 1 .. F[a] BY <1>3, <2>2
  <2>4. PICK k \in DOMAIN s \ Msgs : N[k] = D[a] + 1 BY <1>4, <2>3
  <2>5. ~(1 < k)
    <3>1. SUFFICES ASSUME 1 < k PROVE FALSE OBVIOUS
    <3>2. N[1] < N[k] BY <1>2, <1>4, <2>1, <2>4, <3>1
    <3>3. QED BY <1>3, <2>2, <2>4, <3>2
  <2>6. k = 1 BY <1>2, <2>4, <2>5
  <2>7. QED BY <1>3, <2>2, <2>4, <2>6
<1>7. QED BY <1>2, <1>5, <1>6 DEF s, N

\* The first request is placed in full, and the rest moves up.
LEMMA RequestDone ==
  ASSUME NEW e \in Ends, NEW F, NEW D, NEW L, NEW n, NEW D2, NEW L2, NEW n2,
         RequestsInOrder(e, F, D, L, n),
         sq[e] \in Seq(Requests), sq[e] # <<>>, n[e] \in Seq(Nat),
         F[e] \in Nat, D[e] \in Nat, L[Peer(e)] \in Nat, Posted(e) \in Nat,
         sq'[e] = Tail(sq[e]), n2[e] = Tail(n[e]), Posted(e)' = Posted(e),
         UNCHANGED <<waiting, rcv_buffers>>,
         IF sq[e][1].id # 0 THEN L2[Peer(e)] = n[e][1] /\ D2[e] = D[e]
                            ELSE L2[Peer(e)] = L[Peer(e)] /\ D2[e] = n[e][1]
  PROVE  RequestsInOrder(e, F, D2, L2, n2)'
<1> DEFINE s == sq[e]
<1> DEFINE t == sq'[e]
<1> DEFINE N == n[e]
<1> DEFINE M == n2[e]
<1> DEFINE Lo == L[Peer(e)]
<1> DEFINE Lo2 == L2[Peer(e)]
<1> DEFINE Hi == Posted(e)
<1> DEFINE Msgs == {k \in DOMAIN s : s[k].id # 0}
<1> DEFINE Msgs2 == {k \in DOMAIN t : t[k].id # 0}
<1>1. /\ Len(N) = Len(s)
      /\ \A k \in Msgs : N[k] \in Lo + 1 .. Hi /\ IsMessage(e, k, N[k])
      /\ \A k \in DOMAIN s \ Msgs : N[k] \in D[e] + 1 .. F[e] /\ IsDescriptor(e, k, N[k])
      /\ \A k, l \in DOMAIN s : k < l /\ (k \in Msgs <=> l \in Msgs) => N[k] < N[l]
      /\ \A i \in Lo + 1 .. Hi : \E k \in Msgs : N[k] = i
      /\ \A i \in D[e] + 1 .. F[e] : \E k \in DOMAIN s \ Msgs : N[k] = i
  BY DEF RequestsInOrder
<1>2. /\ 1 \in DOMAIN s /\ DOMAIN t \subseteq Nat /\ Len(t) = Len(s) - 1
      /\ \A k \in DOMAIN t : k + 1 \in DOMAIN s /\ 1 < k + 1 /\ t[k] = s[k + 1]
      /\ \A k \in DOMAIN s : k = 1 \/ (k - 1 \in DOMAIN t /\ k - 1 + 1 = k)
  <2> DEFINE z == Len(s)
  <2>1. s \in Seq(Requests) /\ s # <<>> /\ t = Tail(s) OBVIOUS
  <2> HIDE DEF s, t
  <2>2. /\ z \in Nat \ {0} /\ DOMAIN s = 1 .. z
        /\ Len(t) = z - 1 /\ DOMAIN t = 1 .. z - 1
        /\ \A k \in 1 .. z - 1 : t[k] = s[k + 1]
    BY <2>1
  <2> HIDE DEF z
  <2>3. /\ 1 \in DOMAIN s /\ DOMAIN t \subseteq Nat /\ Len(t) = z - 1
        /\ \A k \in DOMAIN t : k + 1 \in DOMAIN s /\ 1 < k + 1
        /\ \A k \in DOMAIN s : k = 1 \/ (k - 1 \in DOMAIN t /\ k - 1 + 1 = k)
    BY <2>2, SMTT(30)
  <2>4. QED BY <2>2, <2>3 DEF z
<1>3. Len(M) = Len(N) - 1 /\ \A k \in DOMAIN t : M[k] = N[k + 1]
  <2>1. N \in Seq(Nat) /\ N # <<>> /\ M = Tail(N) /\ Len(N) = Len(s) BY <1>1, <1>2
  <2>2. DOMAIN t = 1 .. Len(N) - 1
    <3>1. s \in Seq(Requests) /\ s # <<>> /\ t = Tail(s) OBVIOUS
    <3> HIDE DEF s, t, N
    <3>2. QED BY <2>1, <3>1
  <2> HIDE DEF s, t, N, M
  <2>3. QED BY <2>1, <2>2
<1>4. /\ F[e] \in Nat /\ D[e] \in Nat /\ Lo \in Nat /\ Hi \in Nat
      /\ IF 1 \in Msgs THEN Lo2 = N[1] /\ D2[e] = D[e]
                       ELSE Lo2 = Lo /\ D2[e] = N[1]
  BY <1>2
<1>5. \A k, i : k \in DOMAIN t =>
        /\ IsMessage(e, k + 1, i) => IsMessage(e, k, i)'
        /\ IsDescriptor(e, k + 1, i) => IsDescriptor(e, k, i)'
  <2>1. SUFFICES ASSUME NEW k \in DOMAIN t, NEW i
                 PROVE  /\ IsMessage(e, k + 1, i) => IsMessage(e, k, i)'
                        /\ IsDescriptor(e, k + 1, i) => IsDescriptor(e, k, i)'
    OBVIOUS
  <2>2. sq'[e][k] = sq[e][k + 1] /\ k + 1 # 1 BY <1>2
  <2>3. QED BY <2>2 DEF IsMessage, IsDescriptor, At
<1> HIDE DEF s, t, N, M, Lo, Lo2, Hi, Msgs, Msgs2
<1>6. \A k \in DOMAIN t : k \in Msgs2 <=> k + 1 \in Msgs
  BY <1>2 DEF Msgs, Msgs2
<1>7. \A k \in Msgs2 : M[k] \in Lo2 + 1 .. Hi /\ IsMessage(e, k, M[k])'
  <2>1. SUFFICES ASSUME NEW k \in Msgs2
                 PROVE  M[k] \in Lo2 + 1 .. Hi /\ IsMessage(e, k, M[k])'
    OBVIOUS
  <2>2. k \in DOMAIN t /\ k + 1 \in Msgs /\ M[k] = N[k + 1]
    BY <1>3, <1>6 DEF Msgs2
  <2>3. N[k + 1] \in Lo + 1 .. Hi /\ IsMessage(e, k + 1, N[k + 1])
    BY <1>1, <2>2
  <2>4. 1 \in Msgs => N[1] < N[k + 1] /\ N[1] \in Nat
    <3>1. 1 \in Msgs => N[1] < N[k + 1] BY <1>1, <1>2, <2>2
    <3>2. 1 \in Msgs => N[1] \in Lo + 1 .. Hi BY <1>1
    <3>3. QED BY <1>4, <3>1, <3>2
  <2>5. M[k] \in Lo2 + 1 .. Hi BY <1>4, <2>2, <2>3, <2>4
  <2>6. \A i : i = N[k + 1] => IsMessage(e, k, i)' BY <1>5, <2>2, <2>3
  <2>7. QED BY <2>2, <2>5, <2>6
<1>8. \A k \in DOMAIN t \ Msgs2 : M[k] \in D2[e] + 1 .. F[e] /\ IsDescriptor(e, k, M[k])'
  <2>1. SUFFICES ASSUME NEW k \in DOMAIN t \ Msgs2
                 PROVE  M[k] \in D2[e] + 1 .. F[e] /\ IsDescriptor(e, k, M[k])'
    OBVIOUS
  <2>2. k + 1 \in DOMAIN s \ Msgs /\ M[k] = N[k + 1] BY <1>2, <1>3, <1>6
  <2>3. N[k + 1] \in D[e] + 1 .. F[e] /\ IsDescriptor(e, k + 1, N[k + 1])
    BY <1>1, <2>2
  <2>4. 1 \notin Msgs => N[1] < N[k + 1] /\ N[1] \in Nat
    <3>1. 1 \notin Msgs => N[1] < N[k + 1] BY <1>1, <1>2, <2>2
    <3>2. 1 \notin Msgs => N[1] \in D[e] + 1 .. F[e] BY <1>1, <1>2
    <3>3. QED BY <1>4, <3>1, <3>2
  <2>5. M[k] \in D2[e] + 1 .. F[e] BY <1>4, <2>2, <2>3, <2>4
  <2>6. \A i : i = N[k + 1] => IsDescriptor(e, k, i)' BY <1>5, <2>2, <2>3
  <2>7. QED BY <2>2, <2>5, <2>6
<1>9. \A k, l \in DOMAIN t :
        k < l /\ (k \in Msgs2 <=> l \in Msgs2) => M[k] < M[l]
  <2>1. SUFFICES ASSUME NEW k \in DOMAIN t, NEW l \in DOMAIN t, k < l,
                        k \in Msgs2 <=> l \in Msgs2
                 PROVE  M[k] < M[l]
    OBVIOUS
  <2>2. /\ k + 1 \in DOMAIN s /\ l + 1 \in DOMAIN s
        /\ k + 1 \in Msgs <=> l + 1 \in Msgs
    BY <1>2, <1>6, <2>1
  <2>3. k + 1 < l + 1
    <3>1. k \in Nat /\ l \in Nat BY <1>2
    <3>2. QED BY <2>1, <3>1
  <2>4. N[k + 1] < N[l + 1] BY <1>1, <2>2, <2>3
  <2>5. QED BY <1>3, <2>4
<1>10. \A i \in Lo2 + 1 .. Hi : \E k \in Msgs2 : M[k] = i
  <2>1. SUFFICES ASSUME NEW i \in Lo2 + 1 .. Hi PROVE \E k \in Msgs2 : M[k] = i
    OBVIOUS
  <2>2. 1 \in Msgs => N[1] \in Lo + 1 .. Hi BY <1>1
  <2>3. i \in Lo + 1 .. Hi /\ (1 \in Msgs => i # N[1])
    BY <1>4, <2>2
  <2>4. PICK x \in Msgs : N[x] = i BY <1>1, <2>3
  <2>5. x # 1 /\ x \in DOMAIN s BY <2>3, <2>4 DEF Msgs
  <2>6. x - 1 \in DOMAIN t /\ x - 1 + 1 = x BY <1>2, <2>5
  <2>7. x - 1 \in Msgs2 /\ M[x - 1] = i
    <3> DEFINE k == x - 1
    <3>1. k \in DOMAIN t /\ k + 1 = x BY <2>6
    <3> HIDE DEF k
    <3>2. k \in Msgs2 /\ M[k] = i BY <1>3, <1>6, <2>4, <3>1
    <3>3. QED BY <3>2 DEF k
  <2>8. QED BY <2>7
<1>11. \A i \in D2[e] + 1 .. F[e] : \E k \in DOMAIN t \ Msgs2 : M[k] = i
  <2>1. SUFFICES ASSUME NEW i \in D2[e] + 1 .. F[e]
                 PROVE  \E k \in DOMAIN t \ Msgs2 : M[k] = i
    OBVIOUS
  <2>2. 1 \notin Msgs => N[1] \in D[e] + 1 .. F[e] BY <1>1, <1>2
  <2>3. i \in D[e] + 1 .. F[e] /\ (1 \notin Msgs => i # N[1])
    BY <1>4, <2>2
  <2>4. PICK x \in DOMAIN s \ Msgs : N[x] = i BY <1>1, <2>3
  <2>5. x # 1 BY <2>3, <2>4
  <2>6. x - 1 \in DOMAIN t /\ x - 1 + 1 = x BY <1>2, <2>5
  <2>7. x - 1 \in DOMAIN t \ Msgs2 /\ M[x - 1] = i
    <3> DEFINE k == x - 1
    <3>1. k \in DOMAIN t /\ k + 1 = x BY <2>6
    <3> HIDE DEF k
    <3>2. k \in DOMAIN t \ Msgs2 /\ M[k] = i BY <1>3, <1>6, <2>4, <3>1
    <3>3. QED BY <3>2 DEF k
  <2>8. QED BY <2>7
<1>12. Len(M) = Len(t) BY <1>1, <1>2, <1>3
<1>13. QED
  <2>1. Posted(e)' = Hi BY DEF Hi
  <2>2. QED
    BY <1>7, <1>8, <1>9, <1>10, <1>11, <1>12, <2>1
    DEF RequestsInOrder, t, M, Lo2, Msgs2

\* A part of a request is placed.
Placed(e, k, i, v) == mem' = [mem EXCEPT ![Peer(e)][<<k, i>>] = v]

\* Where a request is placed, no end keeps a region or an index.
LEMMA PlaceFrame ==
  ASSUME NEW F, NEW D, NEW L, NEW n, Good(F, D, L, n), NEW a \in Ends,
         NEW D2 \in [Ends -> Nat], \A x \in Ends : D[x] <= D2[x],
         UNCHANGED <<scq, pc, arg, next_id, ackd_id, rcv_buffers, rcv_head,
                     rcv_tail, duplex, waiting, received, held>>,
         sq' \in [Ends -> Seq(Requests)], flight' \in [Ends -> Seq(Requests)],
         NEW k \in {"target", "rcv", "rcv_len"}, NEW i,
         IF k = "target" THEN i \in Slots ELSE i \in Buffers,
         NEW v \in Nat \cup Descriptors, k = "target" => v \in Descriptors,
         Placed(a, k, i, v)
  PROVE  /\ TypeOK' /\ Shapes'
         /\ \A x \in Ends, l \in Locations :
              mem'[x][l] = IF x = Peer(a) /\ l = <<k, i>> THEN v ELSE mem[x][l]
         /\ \A x \in Ends : /\ OneOwner(x, F)' /\ RegionsKept(x, D2)'
                            /\ Posted(x)' = Posted(x)
<1>1. TypeOK /\ Shapes /\ Counted(F, D, L, n) BY DEF Good
<1>2. Peer(a) \in Ends /\ <<k, i>> \in Locations BY EndFacts, LocationFacts
<1>3. /\ mem' \in [Ends -> [Locations -> Nat \cup Descriptors]]
      /\ \A x \in Ends, l \in Locations :
           mem'[x][l] = IF x = Peer(a) /\ l = <<k, i>> THEN v ELSE mem[x][l]
  <2>1. mem \in [Ends -> [Locations -> Nat \cup Descriptors]] BY <1>1 DEF Shapes
  <2>2. mem' = [mem EXCEPT ![Peer(a)][<<k, i>>] = v] BY DEF Placed
  <2>3. QED BY <1>2, <2>1, <2>2, CellWritten
<1>4. TypeOK'
  <2>1. Limit' = Limit /\ \A e \in Ends : Used(e)' = Used(e) BY DEF Limit, Used
  <2>2. QED BY <1>1, <2>1 DEF TypeOK
<1>5. Shapes'
  <2>1. ASSUME NEW e \in Ends, NEW j \in Slots
        PROVE  mem'[e][<<"target", j>>] \in Descriptors
    <3>1. mem[e][<<"target", j>>] \in Descriptors BY <1>1 DEF Shapes
    <3>2. <<"target", j>> \in Locations BY LocationFacts
    <3>3. CASE e = Peer(a) /\ <<"target", j>> = <<k, i>>
      <4>1. k = "target" BY <3>3
      <4>2. QED BY <1>3, <3>2, <3>3, <4>1
    <3>4. CASE ~(e = Peer(a) /\ <<"target", j>> = <<k, i>>)
      BY <1>3, <3>1, <3>2, <3>4
    <3>5. QED BY <3>3, <3>4
  <2>2. QED BY <1>1, <1>3, <2>1 DEF Shapes
<1>6. \A x \in Ends : Posted(x)' = Posted(x) /\ Sent(x)' = Sent(x)
  BY DEF Posted, Sent
<1>7. \A x \in Ends : OneOwner(x, F)' BY PartsOf, OneOwnerKept
<1>8. ASSUME NEW x \in Ends PROVE RegionsKept(x, D2)'
  <2>1. RegionsKept(x, D) /\ Peer(x) \in Ends BY PartsOf, EndFacts
  <2>2. /\ D[Peer(x)] \in Nat /\ D2[Peer(x)] \in Nat /\ D[Peer(x)] <= D2[Peer(x)]
    BY <1>1, <2>1 DEF Counted
  <2>3. At(Peer(x), Sent(x))' = At(Peer(x), Sent(x)) BY <1>6 DEF At
  <2>4. \A g \in 1 .. Regions :
          /\ mem'[x][<<"snd", g>>] = mem[x][<<"snd", g>>]
          /\ mem'[x][<<"snd_len", g>>] = mem[x][<<"snd_len", g>>]
    <3>1. \A g : <<"snd", g>> # <<k, i>> /\ <<"snd_len", g>> # <<k, i>>
      OBVIOUS
    <3>2. QED BY <1>3, <3>1, LocationFacts
  <2>5. QED BY <2>1, <2>2, <2>3, <2>4, RegionsStay
<1>9. QED BY <1>3, <1>4, <1>5, <1>6, <1>7, <1>8

\* What Place does with the first request.
LEMMA PlaceStep ==
  ASSUME NEW F, NEW D, NEW L, NEW n, Good(F, D, L, n), NEW a \in Ends,
         Place(a), UNCHANGED <<pc, arg, dwVars, callerVars>>
  PROVE  LET w == sq[a][1]  p == Head(w.puts) IN
         /\ sq[a] # <<>>
         /\ mem' = [mem EXCEPT ![Peer(a)][p.at] =
                      IF p.inline THEN p.val ELSE mem[a][p.from]]
         /\ IF Len(w.puts) > 1
            THEN /\ sq' = [sq EXCEPT ![a] = [sq[a] EXCEPT ![1] =
                             [w EXCEPT !.puts = Tail(@)]]]
                 /\ flight' = flight
            ELSE /\ sq' = [sq EXCEPT ![a] = Tail(sq[a])]
                 /\ flight' = [flight EXCEPT ![a] = Append(flight[a], w)]
         /\ UNCHANGED <<scq, pc, arg, next_id, ackd_id, rcv_buffers, rcv_head,
                        rcv_tail, duplex, waiting, received, held>>
<1>1. sq[a] # <<>> BY DEF Place
<1>2. Head(sq[a]) = sq[a][1] BY <1>1, FirstInTurn
<1>3. UNCHANGED <<scq, pc, arg, next_id, ackd_id, rcv_buffers, rcv_head,
                  rcv_tail, duplex, waiting, received, held>>
  BY DEF Place, dwVars, callerVars
<1>4. sq \in [Ends -> Seq(Requests)] BY DEF Good, Shapes
<1>5. QED BY <1>1, <1>2, <1>3, <1>4 DEF Place

\* The message is placed, its length not yet.
LEMMA PlaceBodyInv ==
  ASSUME NEW F, NEW D, NEW L, NEW n, Good(F, D, L, n), NEW a \in Ends,
         Place(a), UNCHANGED <<pc, arg, dwVars, callerVars>>,
         sq[a][1].id # 0, Len(sq[a][1].puts) > 1
  PROVE  Good(F, D, L, n)'
<1> DEFINE r == Peer(a)
<1> DEFINE w == sq[a][1]
<1> DEFINE w2 == [w EXCEPT !.puts = Tail(@)]
<1>1. TypeOK /\ Shapes /\ Counted(F, D, L, n) BY DEF Good
<1>2. r \in Ends /\ Peer(r) = a /\ r # a BY EndFacts
<1>3. /\ F[r] \in Nat /\ D[r] \in Nat /\ L[r] \in Nat /\ received[r] \in Nat
      /\ received[r] <= L[r] /\ L[r] <= Posted(a) /\ Posted(a) \in Nat
      /\ Posted(a) <= D[r] /\ D[r] <= F[r]
  BY <1>2, CountFacts
<1>4. PICK i \in Nat : /\ n[a][1] = i /\ i = L[r] + 1 /\ i <= Posted(a)
                       /\ IsMessage(a, 1, i) /\ 1 \in DOMAIN sq[a]
                       /\ w \in Requests
  <2>1. sq[a] # <<>> BY DEF Place
  <2>2. QED BY <1>3, <2>1, FirstInTurn
<1> DEFINE b == At(r, i)
<1>5. /\ i \in received[r] + 1 .. F[r] /\ b \in Buffers
      /\ \A j \in received[r] + 1 .. F[r] : At(r, j) = b => j = i
  <2>1. i \in received[r] + 1 .. F[r] BY <1>3, <1>4
  <2>2. QED BY <1>2, <2>1, AwaitedFacts
<1>6. PICK x \in DOMAIN waiting[a] :
        LET g == waiting[a][x].region IN
        /\ waiting[a][x].id = i /\ w.id = i /\ w = Whole(i, g, b)
        /\ Head(w.puts) = Put(<<"rcv", b>>, <<"snd", g>>)
  <2>1. Len(w.puts) > 1 OBVIOUS
  <2>2. PICK x \in DOMAIN waiting[a] :
          LET g == waiting[a][x].region IN
          /\ waiting[a][x].id = i /\ w.id = i
          /\ IF Len(w.puts) > 1
             THEN /\ w = Whole(i, g, b)
                  /\ Head(w.puts) = Put(<<"rcv", b>>, <<"snd", g>>)
             ELSE /\ Head(w.puts) = Put(<<"rcv_len", b>>, <<"snd_len", g>>)
                  /\ mem[Peer(a)][<<"rcv", b>>] = i
    <3>1. IsMessage(a, 1, i) BY <1>4
    <3>2. QED BY ONLY <3>1, MessageParts
  <2> HIDE DEF w, b, r
  <2>3. QED BY <2>1, <2>2
<1> DEFINE g == waiting[a][x].region
<1>7. g \in 1 .. Regions /\ mem[a][<<"snd", g>>] = i
  <2>1. RegionsKept(a, D) BY PartsOf
  <2>2. QED BY <1>6, <2>1 DEF RegionsKept
<1>8. /\ w.id = i /\ Head(w.puts) = Put(<<"rcv", b>>, <<"snd", g>>)
      /\ w2.id = i /\ w2 \in Requests
  <2>1. w.id = i /\ Head(w.puts) = Put(<<"rcv", b>>, <<"snd", g>>)
    BY <1>6
  <2>2. /\ w2.id = i /\ w2.puts = Tail(w.puts)
        /\ w2 = [w EXCEPT !.puts = Tail(w.puts)]
    BY <1>4, <2>1 DEF Requests
  <2>3. Tail(w.puts) \in Seq(Parts)
    <3> DEFINE q == w.puts
    <3>1. q \in Seq(Parts) /\ Len(q) > 1 BY <1>4 DEF Requests
    <3> HIDE DEF q
    <3>2. Tail(q) \in Seq(Parts) BY <3>1
    <3>3. QED BY <3>2 DEF q
  <2>4. w2 \in Requests
    <3> DEFINE q == Tail(w.puts)
    <3>1. w \in Requests /\ q \in Seq(Parts) /\ w2 = [w EXCEPT !.puts = q]
      BY <1>4, <2>2, <2>3
    <3> HIDE DEF w, w2, q
    <3>2. QED BY <3>1 DEF Requests
  <2>5. QED BY <2>1, <2>2, <2>4
<1>9. /\ mem' = [mem EXCEPT ![r][<<"rcv", b>>] = i]
      /\ sq' = [sq EXCEPT ![a] = [sq[a] EXCEPT ![1] = w2]]
      /\ UNCHANGED <<flight, scq, pc, arg, next_id, ackd_id, rcv_buffers, rcv_head,
                     rcv_tail, duplex, waiting, received, held>>
  <2> DEFINE p == Head(w.puts)
  <2>1. p.at = <<"rcv", b>> /\ p.inline = FALSE /\ p.from = <<"snd", g>>
    BY <1>8 DEF Put
  <2>2. /\ mem' = [mem EXCEPT ![r][p.at] =
                     IF p.inline THEN p.val ELSE mem[a][p.from]]
        /\ sq' = [sq EXCEPT ![a] = [sq[a] EXCEPT ![1] = w2]]
        /\ UNCHANGED <<flight, scq, pc, arg, next_id, ackd_id, rcv_buffers,
                       rcv_head, rcv_tail, duplex, waiting, received, held>>
    BY PlaceStep
  <2> HIDE DEF p, w, w2, r, b, g
  <2>3. QED BY <1>7, <2>1, <2>2 DEF r, b, g
<1> HIDE DEF r, w, w2, b, g
<1>10. /\ sq' \in [Ends -> Seq(Requests)] /\ sq'[a][1] = w2
       /\ DOMAIN sq'[a] = DOMAIN sq[a] /\ Len(sq'[a]) = Len(sq[a])
       /\ \A k \in DOMAIN sq[a] : k # 1 => sq'[a][k] = sq[a][k]
       /\ \A y \in Ends : y # a => sq'[y] = sq[y]
  <2> DEFINE s == sq[a]
  <2> DEFINE t == [s EXCEPT ![1] = w2]
  <2>1. s \in Seq(Requests) /\ 1 \in DOMAIN s /\ w2 \in Requests
    BY <1>1, <1>4, <1>8 DEF Shapes
  <2> HIDE DEF s
  <2>2. /\ t \in Seq(Requests) /\ t[1] = w2 /\ DOMAIN t = DOMAIN s
        /\ Len(t) = Len(s) /\ \A k \in DOMAIN s : k # 1 => t[k] = s[k]
    BY <2>1
  <2> HIDE DEF t
  <2>3. sq' = [sq EXCEPT ![a] = t] BY <1>9 DEF s, t
  <2>4. QED BY <1>1, <2>2, <2>3 DEF Shapes, s
<1>11. /\ TypeOK' /\ Shapes'
       /\ \A y \in Ends, l \in Locations :
            mem'[y][l] = IF y = r /\ l = <<"rcv", b>> THEN i ELSE mem[y][l]
       /\ \A y \in Ends : /\ OneOwner(y, F)' /\ RegionsKept(y, D)'
                          /\ Posted(y)' = Posted(y)
  <2>1. D \in [Ends -> Nat] /\ \A y \in Ends : D[y] <= D[y] BY <1>1 DEF Counted
  <2>2. flight' \in [Ends -> Seq(Requests)] BY <1>1, <1>9 DEF Shapes
  <2>3. mem' = [mem EXCEPT ![Peer(a)][<<"rcv", b>>] = i] BY <1>9 DEF r
  <2>4. b \in Buffers /\ i \in Nat \cup Descriptors BY <1>4, <1>5 DEF b
  <2> DEFINE k == "rcv"
  <2>5. /\ k \in {"target", "rcv", "rcv_len"}
        /\ IF k = "target" THEN b \in Slots ELSE b \in Buffers
        /\ k = "target" => i \in Descriptors
        /\ Placed(a, k, b, i)
    BY <2>3, <2>4 DEF Placed
  <2>6. UNCHANGED <<scq, pc, arg, next_id, ackd_id, rcv_buffers, rcv_head,
                    rcv_tail, duplex, waiting, received, held>>
    BY <1>9
  <2> HIDE DEF k
  <2>7. /\ TypeOK' /\ Shapes'
        /\ \A y \in Ends, l \in Locations :
             mem'[y][l] = IF y = Peer(a) /\ l = <<k, b>> THEN i ELSE mem[y][l]
        /\ \A y \in Ends : /\ OneOwner(y, F)' /\ RegionsKept(y, D)'
                           /\ Posted(y)' = Posted(y)
    <3>1. sq' \in [Ends -> Seq(Requests)] BY <1>10
    <3>2. QED BY <2>1, <2>2, <2>4, <2>5, <2>6, <3>1, PlaceFrame, ZenonT(60)
  <2>8. QED BY <2>7 DEF k, r
<1>12. /\ \A y \in Ends, j \in Slots :
            mem'[y][<<"target", j>>] = mem[y][<<"target", j>>]
       /\ \A y \in Ends, c \in Buffers :
            /\ mem'[y][<<"rcv_len", c>>] = mem[y][<<"rcv_len", c>>]
            /\ y # r \/ c # b => mem'[y][<<"rcv", c>>] = mem[y][<<"rcv", c>>]
       /\ mem'[r][<<"rcv", b>>] = i
  <2>1. b \in Buffers /\ r \in Ends BY <1>2, <1>5 DEF b, r
  <2>2. QED BY <1>11, <2>1, LocationFacts
<1>13. \A y \in Ends : InTurn(y, F, D, L)'
  <2>1. SUFFICES ASSUME NEW y \in Ends PROVE InTurn(y, F, D, L)' OBVIOUS
  <2>2. InTurn(y, F, D, L) /\ Peer(y) \in Ends BY PartsOf, EndFacts
  <2>3. Posted(Peer(y))' = Posted(Peer(y)) BY <1>11, <2>2
  <2>4. QED BY <1>9, <2>2, <2>3, InTurnKept
<1>14. \A y \in Ends : TargetsKnown(y, D)'
  <2>1. SUFFICES ASSUME NEW y \in Ends PROVE TargetsKnown(y, D)' OBVIOUS
  <2>2. /\ TargetsKnown(y, D) /\ D[y] \in Nat /\ Posted(Peer(y)) \in Nat
        /\ Peer(y) \in Ends
    BY PartsOf, CountFacts, EndFacts
  <2>3. Posted(Peer(y))' = Posted(Peer(y)) BY <1>11, <2>2
  <2>4. \A j : At(y, j)' = At(y, j) BY <1>9 DEF At
  <2>5. QED BY <1>12, <2>2, <2>3, <2>4, TargetsKept
<1>15. BuffersFilled(r, F, L)'
  <2>1. BuffersFilled(r, F, L) /\ OneOwner(r, F) BY <1>2, PartsOf DEF r
  <2>2. \A j \in received[r] + 1 .. F[r] : At(r, j) \in Buffers
    BY <2>1 DEF OneOwner
  <2>3. \A j \in received[r] + 1 .. L[r] : j \in received[r] + 1 .. F[r] /\ j # i
    BY <1>3, <1>4 DEF r
  <2>4. \A j \in L[r] + 1 .. F[r] : j \in received[r] + 1 .. F[r]
    BY <1>3 DEF r
  <2>5. \A j \in received[r] + 1 .. L[r] :
          mem'[r][<<"rcv_len", At(r, j)>>] = 1 /\ mem'[r][<<"rcv", At(r, j)>>] = j
    <3>1. \A j \in received[r] + 1 .. L[r] : At(r, j) # b /\ At(r, j) \in Buffers
      BY <1>5, <2>2, <2>3 DEF r, b
    <3>2. r \in Ends BY <1>2 DEF r
    <3>3. QED BY <1>12, <2>1, <3>1, <3>2 DEF BuffersFilled
  <2>6. \A j \in L[r] + 1 .. F[r] : mem'[r][<<"rcv_len", At(r, j)>>] = 0
    <3>1. r \in Ends BY <1>2 DEF r
    <3>2. \A j \in L[r] + 1 .. F[r] : mem[r][<<"rcv_len", At(r, j)>>] = 0
      BY <2>1 DEF BuffersFilled
    <3>3. QED BY <1>12, <2>2, <2>4, <3>1, <3>2
  <2>7. \A h \in held[r] : /\ h.buf \in Buffers /\ h.buf # b
                           /\ h.msg > 0 => mem'[r][<<"rcv", h.buf>>] = h.msg
    <3>1. \A h \in held[r] : h.buf \in Buffers /\ h.buf # b
      BY <1>5, <2>1 DEF OneOwner, b, r
    <3>2. r \in Ends BY <1>2 DEF r
    <3>3. QED BY <1>12, <2>1, <3>1, <3>2 DEF BuffersFilled
  <2>8. pc[r] = "freeing" =>
          arg[r] \in held[r] /\ mem'[r][<<"rcv_len", arg[r].buf>>] = 0
    <3>1. r \in Ends BY <1>2 DEF r
    <3>2. QED BY <1>12, <2>1, <2>7, <3>1 DEF BuffersFilled
  <2>9. QED BY <1>9, <2>5, <2>6, <2>7, <2>8 DEF BuffersFilled, At
<1>16. \A y \in Ends : BuffersFilled(y, F, L)'
  <2>1. SUFFICES ASSUME NEW y \in Ends, y # r PROVE BuffersFilled(y, F, L)' BY <1>15
  <2>2. BuffersFilled(y, F, L) BY PartsOf
  <2>3. /\ L[y] <= F[y] /\ L[y] \in Nat /\ F[y] \in Nat
        /\ received[y] \in Nat /\ received[y] <= L[y]
    BY CountFacts
  <2>4. \A k \in received[y] + 1 .. F[y] : At(y, k)' = At(y, k) /\ At(y, k) \in Buffers
    BY <1>9, AwaitedFacts DEF At
  <2>5. held[y] \subseteq [buf : Buffers, msg : Nat] BY <1>1 DEF Shapes
  <2>6. QED BY <1>9, <1>12, <2>1, <2>2, <2>3, <2>4, <2>5, BuffersStay
<1>17. RequestsInOrder(a, F, D, L, n)'
  <2> DEFINE Msgs == {k \in DOMAIN sq[a] : sq[a][k].id # 0}
  <2>1. /\ Len(n[a]) = Len(sq[a])
        /\ \A k \in Msgs : n[a][k] \in L[r] + 1 .. Posted(a) /\ IsMessage(a, k, n[a][k])
        /\ \A k \in DOMAIN sq[a] \ Msgs :
             n[a][k] \in D[a] + 1 .. F[a] /\ IsDescriptor(a, k, n[a][k])
        /\ \A k, l \in DOMAIN sq[a] :
             k < l /\ (k \in Msgs <=> l \in Msgs) => n[a][k] < n[a][l]
        /\ \A j \in L[r] + 1 .. Posted(a) : \E k \in Msgs : n[a][k] = j
        /\ \A j \in D[a] + 1 .. F[a] : \E k \in DOMAIN sq[a] \ Msgs : n[a][k] = j
    BY PartsOf DEF RequestsInOrder, r
  <2>2. w.id = i /\ w2.id = i /\ i # 0 /\ 1 \in Msgs
    BY <1>4, <1>8 DEF w
  <2>3. {k \in DOMAIN sq'[a] : sq'[a][k].id # 0} = Msgs BY <1>10, <2>2
  <2>4. \A k, j : k \in DOMAIN sq[a] /\ k # 1 =>
          /\ IsMessage(a, k, j) => IsMessage(a, k, j)'
          /\ IsDescriptor(a, k, j) => IsDescriptor(a, k, j)'
    BY <1>9, <1>10 DEF IsMessage, IsDescriptor, At
  <2>5. \A k, j : k = 1 /\ j = i => IsMessage(a, k, j)'
    <3>1. SUFFICES ASSUME NEW k, NEW j, k = 1, j = i PROVE IsMessage(a, k, j)'
      OBVIOUS
    <3>2. sq'[a][k] = w2 /\ w2.id = j /\ At(r, j)' = b
      BY <1>9, <1>10, <2>2, <3>1 DEF At, b
    <3>3. mem'[r][<<"rcv", b>>] = j BY <1>12, <3>1
    <3>4. x \in DOMAIN waiting'[a] /\ waiting'[a][x].id = j BY <1>6, <1>9, <3>1
    <3>5. w2 = [Message([id |-> j, region |-> waiting'[a][x].region, addr |-> b])
                  EXCEPT !.puts = Tail(@)]
      BY <1>6, <1>9, <3>1 DEF w2, Whole
    <3>6. QED BY <3>1, <3>2, <3>3, <3>4, <3>5 DEF IsMessage, r
  <2>6. \A k \in Msgs : n[a][k] \in L[r] + 1 .. Posted(a) /\ IsMessage(a, k, n[a][k])'
    <3>1. SUFFICES ASSUME NEW k \in Msgs PROVE IsMessage(a, k, n[a][k])' BY <2>1
    <3>2. CASE k = 1
      <4>1. \A j : j = n[a][k] => IsMessage(a, k, j)' BY <1>4, <2>5, <3>2
      <4>2. QED BY <4>1
    <3>3. CASE k # 1
      <4>1. \A j : j = n[a][k] => IsMessage(a, k, j)' BY <2>1, <2>4, <3>3
      <4>2. QED BY <4>1
    <3>4. QED BY <3>2, <3>3
  <2>7. \A k \in DOMAIN sq[a] \ Msgs :
          n[a][k] \in D[a] + 1 .. F[a] /\ IsDescriptor(a, k, n[a][k])'
    BY <2>1, <2>2, <2>4
  <2>8. Posted(a)' = Posted(a) /\ DOMAIN sq'[a] = DOMAIN sq[a] /\ Len(sq'[a]) = Len(sq[a])
    BY <1>10, <1>11
  <2> HIDE DEF Msgs
  <2>9. QED BY <2>1, <2>3, <2>6, <2>7, <2>8 DEF RequestsInOrder, r
<1>18. \A y \in Ends : RequestsInOrder(y, F, D, L, n)'
  <2>1. SUFFICES ASSUME NEW y \in Ends, y # a PROVE RequestsInOrder(y, F, D, L, n)'
    BY <1>17
  <2>2. RequestsInOrder(y, F, D, L, n) BY PartsOf
  <2>3. Peer(y) = a /\ y = r /\ a # r BY <1>2, <2>1, EndFacts DEF r
  <2>4. \A j \in L[a] + 1 .. Posted(y) :
          mem'[a][<<"rcv", At(a, j)>>] = mem[a][<<"rcv", At(a, j)>>]
    <3>1. /\ L[a] \in Nat /\ Posted(y) \in Nat /\ received[a] \in Nat
          /\ F[a] \in Nat /\ received[a] <= L[a] /\ D[a] <= F[a] /\ D[a] \in Nat
          /\ Posted(y) <= D[a]
      BY <2>3, CountFacts DEF r
    <3>2. \A j \in L[a] + 1 .. Posted(y) : j \in received[a] + 1 .. F[a] BY <3>1
    <3>3. \A j \in L[a] + 1 .. Posted(y) : At(a, j) \in Buffers
      BY <3>2, AwaitedFacts
    <3>4. QED BY <1>12, <2>3, <3>3
  <2>5. sq'[y] = sq[y] /\ Posted(y)' = Posted(y) /\ waiting' = waiting
    BY <1>9, <1>10, <1>11, <2>1
  <2>6. \A z, j : At(z, j)' = At(z, j) BY <1>9 DEF At
  <2>7. QED BY <2>2, <2>3, <2>4, <2>5, <2>6, RequestsStay
<1>19. \A y \in Ends : CompletedLanded(y, L)' BY <1>9, PartsOf, CompletedKept
<1>20. Agree(F, D, L, n)'
  BY <1>11, <1>13, <1>14, <1>16, <1>18, <1>19 DEF Agree
<1>21. QED BY <1>1, <1>11, <1>20 DEF Good, Counted

\* The length is placed: the message has landed.
LEMMA PlaceLengthInv ==
  ASSUME NEW F, NEW D, NEW L, NEW n, Good(F, D, L, n), NEW a \in Ends,
         Place(a), UNCHANGED <<pc, arg, dwVars, callerVars>>,
         sq[a][1].id # 0, ~(Len(sq[a][1].puts) > 1)
  PROVE  \E L2, n2 : Good(F, D, L2, n2)'
<1> DEFINE r == Peer(a)
<1> DEFINE w == sq[a][1]
<1>1. TypeOK /\ Shapes /\ Counted(F, D, L, n) BY DEF Good
<1>2. r \in Ends /\ Peer(r) = a /\ r # a BY EndFacts
<1>3. /\ F[r] \in Nat /\ D[r] \in Nat /\ L[r] \in Nat /\ received[r] \in Nat
      /\ received[r] <= L[r] /\ L[r] <= Posted(a) /\ Posted(a) \in Nat
      /\ Posted(a) <= D[r] /\ D[r] <= F[r]
  BY <1>2, CountFacts
<1>4. PICK i \in Nat : /\ n[a][1] = i /\ i = L[r] + 1 /\ i <= Posted(a)
                       /\ IsMessage(a, 1, i) /\ w \in Requests /\ sq[a] # <<>>
  <2>1. sq[a] # <<>> BY DEF Place
  <2>2. QED BY <1>3, <2>1, FirstInTurn
<1> DEFINE b == At(r, i)
<1> DEFINE L2 == [L EXCEPT ![Peer(a)] = i]
<1> DEFINE n2 == [n EXCEPT ![a] = Tail(n[a])]
<1>5. /\ i \in received[r] + 1 .. F[r] /\ b \in Buffers
      /\ \A j \in received[r] + 1 .. F[r] : At(r, j) = b => j = i
  <2>1. i \in received[r] + 1 .. F[r] BY <1>3, <1>4
  <2>2. QED BY <1>2, <2>1, AwaitedFacts
<1>6. PICK x \in DOMAIN waiting[a] :
        LET g == waiting[a][x].region IN
        /\ waiting[a][x].id = i /\ w.id = i /\ mem[r][<<"rcv", b>>] = i
        /\ Head(w.puts) = Put(<<"rcv_len", b>>, <<"snd_len", g>>)
  <2>1. ~(Len(w.puts) > 1) OBVIOUS
  <2>2. PICK x \in DOMAIN waiting[a] :
          LET g == waiting[a][x].region IN
          /\ waiting[a][x].id = i /\ w.id = i
          /\ IF Len(w.puts) > 1
             THEN /\ w = Whole(i, g, b)
                  /\ Head(w.puts) = Put(<<"rcv", b>>, <<"snd", g>>)
             ELSE /\ Head(w.puts) = Put(<<"rcv_len", b>>, <<"snd_len", g>>)
                  /\ mem[r][<<"rcv", b>>] = i
    BY <1>4, MessageParts
  <2> HIDE DEF w, b, r
  <2>3. QED BY <2>1, <2>2
<1> DEFINE g == waiting[a][x].region
<1>7. g \in 1 .. Regions /\ mem[a][<<"snd_len", g>>] = 1
  <2>1. RegionsKept(a, D) BY PartsOf
  <2>2. QED BY <1>6, <2>1 DEF RegionsKept
<1>8. /\ mem' = [mem EXCEPT ![r][<<"rcv_len", b>>] = 1]
      /\ sq' = [sq EXCEPT ![a] = Tail(sq[a])]
      /\ flight' = [flight EXCEPT ![a] = Append(flight[a], w)]
      /\ UNCHANGED <<scq, pc, arg, next_id, ackd_id, rcv_buffers, rcv_head,
                     rcv_tail, duplex, waiting, received, held>>
  <2> DEFINE p == Head(w.puts)
  <2>1. p.at = <<"rcv_len", b>> /\ p.inline = FALSE /\ p.from = <<"snd_len", g>>
    BY <1>6 DEF Put
  <2>2. /\ mem' = [mem EXCEPT ![r][p.at] =
                     IF p.inline THEN p.val ELSE mem[a][p.from]]
        /\ sq' = [sq EXCEPT ![a] = Tail(sq[a])]
        /\ flight' = [flight EXCEPT ![a] = Append(flight[a], w)]
        /\ UNCHANGED <<scq, pc, arg, next_id, ackd_id, rcv_buffers, rcv_head,
                       rcv_tail, duplex, waiting, received, held>>
    BY PlaceStep
  <2> HIDE DEF p, w, r, b, g
  <2>3. QED BY <1>7, <2>1, <2>2 DEF r, b, g
<1> HIDE DEF r, w, b, g, L2, n2
<1>9. /\ sq' \in [Ends -> Seq(Requests)] /\ sq'[a] = Tail(sq[a])
      /\ \A y \in Ends : y # a => sq'[y] = sq[y]
      /\ sq[a] \in Seq(Requests)
  <2>1. sq[a] \in Seq(Requests) /\ sq[a] # <<>> BY <1>1, <1>4 DEF Shapes
  <2>2. Tail(sq[a]) \in Seq(Requests) BY <2>1
  <2>3. QED BY <1>1, <1>8, <2>1, <2>2 DEF Shapes
<1>10. /\ flight' \in [Ends -> Seq(Requests)]
       /\ flight'[a] = Append(flight[a], w) /\ flight[a] \in Seq(Requests)
       /\ \A y \in Ends : y # a => flight'[y] = flight[y]
  <2>1. flight[a] \in Seq(Requests) BY <1>1 DEF Shapes
  <2>2. Append(flight[a], w) \in Seq(Requests) BY <1>4, <2>1
  <2>3. QED BY <1>1, <1>8, <2>1, <2>2 DEF Shapes
<1>11. /\ TypeOK' /\ Shapes'
       /\ \A y \in Ends, l \in Locations :
            mem'[y][l] = IF y = r /\ l = <<"rcv_len", b>> THEN 1 ELSE mem[y][l]
       /\ \A y \in Ends : /\ OneOwner(y, F)' /\ RegionsKept(y, D)'
                          /\ Posted(y)' = Posted(y)
  <2>1. D \in [Ends -> Nat] /\ \A y \in Ends : D[y] <= D[y] BY <1>1 DEF Counted
  <2>2. mem' = [mem EXCEPT ![Peer(a)][<<"rcv_len", b>>] = 1] BY <1>8 DEF r
  <2>3. b \in Buffers BY <1>5 DEF b
  <2> DEFINE k == "rcv_len"
  <2> DEFINE v == 1
  <2>4. /\ k \in {"target", "rcv", "rcv_len"}
        /\ IF k = "target" THEN b \in Slots ELSE b \in Buffers
        /\ k = "target" => v \in Descriptors
        /\ Placed(a, k, b, v) /\ v \in Nat \cup Descriptors
    BY <2>2, <2>3 DEF Placed
  <2>5. UNCHANGED <<scq, pc, arg, next_id, ackd_id, rcv_buffers, rcv_head,
                    rcv_tail, duplex, waiting, received, held>>
    BY <1>8
  <2>6. sq' \in [Ends -> Seq(Requests)] /\ flight' \in [Ends -> Seq(Requests)]
    BY <1>9, <1>10
  <2> HIDE DEF k, v
  <2>7. /\ TypeOK' /\ Shapes'
        /\ \A y \in Ends, l \in Locations :
             mem'[y][l] = IF y = Peer(a) /\ l = <<k, b>> THEN v ELSE mem[y][l]
        /\ \A y \in Ends : /\ OneOwner(y, F)' /\ RegionsKept(y, D)'
                           /\ Posted(y)' = Posted(y)
    BY <2>1, <2>4, <2>5, <2>6, PlaceFrame, ZenonT(60)
  <2>8. QED BY <2>7 DEF k, v, r
<1>12. /\ \A y \in Ends, j \in Slots :
            mem'[y][<<"target", j>>] = mem[y][<<"target", j>>]
       /\ \A y \in Ends, c \in Buffers :
            /\ mem'[y][<<"rcv", c>>] = mem[y][<<"rcv", c>>]
            /\ y # r \/ c # b => mem'[y][<<"rcv_len", c>>] = mem[y][<<"rcv_len", c>>]
       /\ mem'[r][<<"rcv_len", b>>] = 1
  <2>1. b \in Buffers /\ r \in Ends BY <1>2, <1>5 DEF b, r
  <2>2. QED BY <1>11, <2>1, LocationFacts
<1>13. /\ L2[r] = i /\ n2[a] = Tail(n[a]) /\ Counted(F, D, L2, n2)
       /\ \A y \in Ends : y # r => L2[y] = L[y]
       /\ \A y \in Ends : y # a => n2[y] = n[y]
       /\ n[a] \in Seq(Nat) /\ n[a] # <<>>
  <2>1. n[a] \in Seq(Nat) /\ Len(n[a]) = Len(sq[a])
    BY <1>1, PartsOf DEF Counted, RequestsInOrder
  <2>2. n[a] # <<>>
    <3>1. Len(sq[a]) # 0 BY <1>4, <1>9
    <3>2. QED BY <2>1, <3>1
  <2>3. Tail(n[a]) \in Seq(Nat) BY <2>1, <2>2
  <2>4. QED BY <1>1, <1>2, <2>1, <2>2, <2>3 DEF Counted, L2, n2, r
<1>14. \A y \in Ends : InTurn(y, F, D, L2)'
  <2>1. SUFFICES ASSUME NEW y \in Ends PROVE InTurn(y, F, D, L2)' OBVIOUS
  <2>2. InTurn(y, F, D, L) /\ Peer(y) \in Ends BY PartsOf, EndFacts
  <2>3. Posted(Peer(y))' = Posted(Peer(y)) BY <1>11, <2>2
  <2>4. CASE y # r BY <1>8, <1>13, <2>2, <2>3, <2>4, InTurnKept
  <2>5. CASE y = r
    <3>1. received[r] <= i /\ i <= Posted(Peer(r))
      BY <1>2, <1>3, <1>4 DEF r
    <3>2. QED BY <1>8, <1>13, <2>2, <2>3, <2>5, <3>1 DEF InTurn
  <2>6. QED BY <2>4, <2>5
<1>15. \A y \in Ends : TargetsKnown(y, D)'
  <2>1. SUFFICES ASSUME NEW y \in Ends PROVE TargetsKnown(y, D)' OBVIOUS
  <2>2. /\ TargetsKnown(y, D) /\ D[y] \in Nat /\ Posted(Peer(y)) \in Nat
        /\ Peer(y) \in Ends
    BY PartsOf, CountFacts, EndFacts
  <2>3. Posted(Peer(y))' = Posted(Peer(y)) BY <1>11, <2>2
  <2>4. \A j : At(y, j)' = At(y, j) BY <1>8 DEF At
  <2>5. QED BY <1>12, <2>2, <2>3, <2>4, TargetsKept
<1>16. BuffersFilled(r, F, L2)'
  <2>1. /\ BuffersFilled(r, F, L) /\ OneOwner(r, F) /\ r \in Ends
    BY <1>2, PartsOf DEF r
  <2>2. \A j \in received[r] + 1 .. F[r] : At(r, j) \in Buffers
    BY <2>1 DEF OneOwner
  <2>3. \A j \in received[r] + 1 .. i : j = i \/ (j \in received[r] + 1 .. L[r]
                                                    /\ j \in received[r] + 1 .. F[r])
    BY <1>3, <1>4 DEF r
  <2>4. \A j \in i + 1 .. F[r] : /\ j \in received[r] + 1 .. F[r]
                                 /\ j \in L[r] + 1 .. F[r] /\ j # i
    BY <1>3, <1>4 DEF r
  <2>5. \A j \in received[r] + 1 .. i :
          mem'[r][<<"rcv_len", At(r, j)>>] = 1 /\ mem'[r][<<"rcv", At(r, j)>>] = j
    <3>1. SUFFICES ASSUME NEW j \in received[r] + 1 .. i
                   PROVE  /\ mem'[r][<<"rcv_len", At(r, j)>>] = 1
                          /\ mem'[r][<<"rcv", At(r, j)>>] = j
      OBVIOUS
    <3>2. CASE j = i
      <4>1. At(r, j) = b /\ b \in Buffers BY <1>5, <3>2 DEF b
      <4>2. mem[r][<<"rcv", b>>] = i BY <1>6
      <4>3. QED BY <1>12, <2>1, <3>2, <4>1, <4>2
    <3>3. CASE j # i
      <4>1. j \in received[r] + 1 .. L[r] /\ j \in received[r] + 1 .. F[r]
        BY <2>3, <3>3
      <4>2. At(r, j) # b /\ At(r, j) \in Buffers
        BY <1>5, <2>2, <3>3, <4>1 DEF b, r
      <4>3. mem[r][<<"rcv_len", At(r, j)>>] = 1 /\ mem[r][<<"rcv", At(r, j)>>] = j
        BY <2>1, <4>1 DEF BuffersFilled
      <4>4. QED BY <1>12, <2>1, <4>2, <4>3
    <3>4. QED BY <3>2, <3>3
  <2>6. \A j \in i + 1 .. F[r] : mem'[r][<<"rcv_len", At(r, j)>>] = 0
    <3>1. SUFFICES ASSUME NEW j \in i + 1 .. F[r]
                   PROVE  mem'[r][<<"rcv_len", At(r, j)>>] = 0
      OBVIOUS
    <3>2. At(r, j) # b /\ At(r, j) \in Buffers
      BY <1>5, <2>2, <2>4 DEF b, r
    <3>3. mem[r][<<"rcv_len", At(r, j)>>] = 0 BY <2>1, <2>4 DEF BuffersFilled
    <3>4. QED BY <1>12, <2>1, <3>2, <3>3
  <2>7. \A h \in held[r] : /\ h.buf \in Buffers /\ h.buf # b
                           /\ h.msg > 0 => mem'[r][<<"rcv", h.buf>>] = h.msg
    <3>1. \A h \in held[r] : h.buf \in Buffers /\ h.buf # b
      BY <1>5, <2>1 DEF OneOwner, b, r
    <3>2. QED BY <1>12, <2>1, <3>1 DEF BuffersFilled
  <2>8. pc[r] = "freeing" =>
          arg[r] \in held[r] /\ mem'[r][<<"rcv_len", arg[r].buf>>] = 0
    <3>1. SUFFICES ASSUME pc[r] = "freeing"
          PROVE  arg[r] \in held[r] /\ mem'[r][<<"rcv_len", arg[r].buf>>] = 0
      OBVIOUS
    <3>2. arg[r] \in held[r] /\ mem[r][<<"rcv_len", arg[r].buf>>] = 0
      BY <2>1, <3>1 DEF BuffersFilled
    <3>3. QED BY <1>12, <2>1, <2>7, <3>2
  <2>9. QED BY <1>8, <1>13, <2>5, <2>6, <2>7, <2>8 DEF BuffersFilled, At
<1>17. \A y \in Ends : BuffersFilled(y, F, L2)'
  <2>1. SUFFICES ASSUME NEW y \in Ends, y # r PROVE BuffersFilled(y, F, L2)' BY <1>16
  <2>2. BuffersFilled(y, F, L) BY PartsOf
  <2>3. /\ L[y] <= F[y] /\ L[y] \in Nat /\ F[y] \in Nat
        /\ received[y] \in Nat /\ received[y] <= L[y]
    BY CountFacts, SMTT(30)
  <2>4. \A k \in received[y] + 1 .. F[y] : At(y, k)' = At(y, k) /\ At(y, k) \in Buffers
    BY <1>8, AwaitedFacts DEF At
  <2>5. held[y] \subseteq [buf : Buffers, msg : Nat] BY <1>1 DEF Shapes
  <2>6. QED BY <1>8, <1>12, <1>13, <2>1, <2>2, <2>3, <2>4, <2>5, BuffersStay
<1>18. RequestsInOrder(a, F, D, L2, n2)'
  <2>1. RequestsInOrder(a, F, D, L, n) BY PartsOf
  <2>2. F[a] \in Nat /\ D[a] \in Nat BY CountFacts
  <2>3. L[Peer(a)] \in Nat /\ Posted(a) \in Nat /\ L2[Peer(a)] = n[a][1]
    BY <1>3, <1>4, <1>13 DEF r
  <2>4. sq[a] \in Seq(Requests) /\ sq[a] # <<>> /\ sq'[a] = Tail(sq[a])
    BY <1>4, <1>9
  <2>5. Posted(a)' = Posted(a) /\ UNCHANGED <<waiting, rcv_buffers>>
    BY <1>8, <1>11
  <2>6. QED BY <1>13, <2>1, <2>2, <2>3, <2>4, <2>5, RequestDone
<1>19. \A y \in Ends : RequestsInOrder(y, F, D, L2, n2)'
  <2>1. SUFFICES ASSUME NEW y \in Ends, y # a PROVE RequestsInOrder(y, F, D, L2, n2)'
    BY <1>18
  <2>2. RequestsInOrder(y, F, D, L, n) BY PartsOf
  <2>3. Peer(y) = a /\ y = r /\ a # r BY <1>2, <2>1, EndFacts DEF r
  <2>4. \A j \in L[a] + 1 .. Posted(y) :
          mem'[a][<<"rcv", At(a, j)>>] = mem[a][<<"rcv", At(a, j)>>]
    <3>1. /\ L[a] \in Nat /\ Posted(y) \in Nat /\ received[a] \in Nat
          /\ F[a] \in Nat /\ received[a] <= L[a] /\ D[a] <= F[a] /\ D[a] \in Nat
          /\ Posted(y) <= D[a]
      BY <2>3, CountFacts DEF r
    <3>2. \A j \in L[a] + 1 .. Posted(y) : j \in received[a] + 1 .. F[a] BY <3>1
    <3>3. \A j \in L[a] + 1 .. Posted(y) : At(a, j) \in Buffers
      BY <3>2, AwaitedFacts
    <3>4. QED BY <1>12, <3>3
  <2>5. /\ sq'[y] = sq[y] /\ Posted(y)' = Posted(y) /\ waiting' = waiting
        /\ n2[y] = n[y] /\ L2[Peer(y)] = L[Peer(y)]
    BY <1>8, <1>9, <1>11, <1>13, <2>1, <2>3
  <2>6. \A z, j : At(z, j)' = At(z, j) BY <1>8 DEF At
  <2>7. QED BY <2>2, <2>3, <2>4, <2>5, <2>6, RequestsStay
<1>20. CompletedLanded(a, L2)'
  <2> DEFINE Done == 0 .. L2[Peer(a)]
  <2> DEFINE s == flight[a]
  <2>1. CompletedLanded(a, L) BY PartsOf
  <2>2. i \in Done /\ \A v \in 0 .. L[Peer(a)] : v \in Done
    BY <1>3, <1>4, <1>13 DEF r
  <2>3. w.id = i /\ w.op = "WRITE" BY <1>4, <1>6 DEF Requests
  <2> HIDE DEF Done
  <2>4. \A k \in DOMAIN s : s[k].id \in Done /\ s[k].op = "WRITE"
    BY <2>1, <2>2 DEF CompletedLanded
  <2>5. s \in Seq(Requests) /\ w \in Requests BY <1>4, <1>10 DEF w
  <2> HIDE DEF s
  <2>6. \A k \in DOMAIN Append(s, w) :
          Append(s, w)[k].id \in Done /\ Append(s, w)[k].op = "WRITE"
    <3>1. \A k \in DOMAIN Append(s, w) :
            Append(s, w)[k] = w \/ (k \in DOMAIN s /\ Append(s, w)[k] = s[k])
      BY <2>5
    <3>2. QED BY <2>2, <2>3, <2>4, <3>1
  <2>7. flight'[a] = Append(s, w) BY <1>10 DEF s
  <2>8. ackd_id'[a] \in Done /\ \A k \in DOMAIN scq'[a] : scq'[a][k] \in Done
    BY <1>8, <2>1, <2>2 DEF CompletedLanded
  <2>9. QED BY <2>6, <2>7, <2>8 DEF CompletedLanded, Done
<1>21. \A y \in Ends : CompletedLanded(y, L2)'
  <2>1. SUFFICES ASSUME NEW y \in Ends, y # a PROVE CompletedLanded(y, L2)' BY <1>20
  <2>2. Peer(y) = a /\ a # r BY <1>2, <2>1, EndFacts DEF r
  <2>3. L2[Peer(y)] = L[Peer(y)] BY <1>13, <2>2
  <2>4. QED BY <1>8, <1>10, <2>1, <2>3, PartsOf, CompletedKept
<1>22. Agree(F, D, L2, n2)'
  BY <1>11, <1>14, <1>15, <1>17, <1>19, <1>21 DEF Agree
<1>23. Good(F, D, L2, n2)' BY <1>11, <1>13, <1>22 DEF Good, Counted
<1>24. QED BY <1>23

\* The descriptor is placed: the sender may use the buffer.
LEMMA PlaceDescriptorInv ==
  ASSUME NEW F, NEW D, NEW L, NEW n, Good(F, D, L, n), NEW a \in Ends,
         Place(a), UNCHANGED <<pc, arg, dwVars, callerVars>>, sq[a][1].id = 0
  PROVE  \E D2, n2 : Good(F, D2, L, n2)'
<1> DEFINE r == Peer(a)
<1> DEFINE w == sq[a][1]
<1>1. TypeOK /\ Shapes /\ Counted(F, D, L, n) BY DEF Good
<1>2. r \in Ends /\ Peer(r) = a /\ r # a BY EndFacts
<1>3. /\ F[a] \in Nat /\ D[a] \in Nat /\ L[a] \in Nat /\ received[a] \in Nat
      /\ received[a] <= L[a] /\ L[a] <= Posted(r) /\ Posted(r) \in Nat
      /\ Posted(r) <= D[a] /\ D[a] <= F[a]
  BY CountFacts
<1>4. PICK i \in Nat : /\ n[a][1] = i /\ i = D[a] + 1 /\ i <= F[a]
                       /\ IsDescriptor(a, 1, i) /\ w \in Requests /\ sq[a] # <<>>
  <2>1. sq[a] # <<>> BY DEF Place
  <2>2. QED BY <1>3, <2>1, FirstInTurn
<1> DEFINE j == Slot(i)
<1> DEFINE d == Descriptor(At(a, i))
<1> DEFINE D2 == [D EXCEPT ![a] = i]
<1> DEFINE n2 == [n EXCEPT ![a] = Tail(n[a])]
<1>5. /\ i \in received[a] + 1 .. F[a] /\ j \in Slots /\ d \in Descriptors
      /\ \A k \in received[a] + 1 .. F[a] : Slot(k) = j => k = i
  <2>1. i \in received[a] + 1 .. F[a] BY <1>3, <1>4
  <2>2. /\ Slot(i) \in Slots /\ At(a, i) \in Buffers
        /\ \A k \in received[a] + 1 .. F[a] : Slot(i) = Slot(k) => i = k
    BY <2>1, AwaitedFacts
  <2>3. d \in Descriptors BY <2>2 DEF Descriptor, Descriptors
  <2>4. QED BY <2>1, <2>2, <2>3
<1>6. /\ w.id = 0 /\ w.op = "WRITE" /\ ~(Len(w.puts) > 1)
      /\ Head(w.puts) = PutInline(<<"target", j>>, d)
  <2> DEFINE m == PostWriteInline(0, <<"target", j>>, d)
  <2>1. w = m BY <1>4 DEF IsDescriptor
  <2> HIDE DEF w, j, d
  <2>2. /\ m.id = 0 /\ m.op = "WRITE" /\ Len(m.puts) = 1
        /\ Head(m.puts) = PutInline(<<"target", j>>, d)
    BY DescriptorFields
  <2> HIDE DEF m
  <2>3. QED BY <2>1, <2>2
<1>7. /\ mem' = [mem EXCEPT ![r][<<"target", j>>] = d]
      /\ sq' = [sq EXCEPT ![a] = Tail(sq[a])]
      /\ flight' = [flight EXCEPT ![a] = Append(flight[a], w)]
      /\ UNCHANGED <<scq, pc, arg, next_id, ackd_id, rcv_buffers, rcv_head,
                     rcv_tail, duplex, waiting, received, held>>
  <2> DEFINE p == Head(w.puts)
  <2>1. p.at = <<"target", j>> /\ p.inline = TRUE /\ p.val = d
    BY <1>6 DEF PutInline
  <2>2. /\ mem' = [mem EXCEPT ![r][p.at] =
                     IF p.inline THEN p.val ELSE mem[a][p.from]]
        /\ sq' = [sq EXCEPT ![a] = Tail(sq[a])]
        /\ flight' = [flight EXCEPT ![a] = Append(flight[a], w)]
        /\ UNCHANGED <<scq, pc, arg, next_id, ackd_id, rcv_buffers, rcv_head,
                       rcv_tail, duplex, waiting, received, held>>
    BY <1>6, PlaceStep
  <2> HIDE DEF p, w, r, j, d
  <2>3. QED BY <2>1, <2>2 DEF r
<1> HIDE DEF r, w, j, d, D2, n2
<1>8. /\ sq' \in [Ends -> Seq(Requests)] /\ sq'[a] = Tail(sq[a])
      /\ \A y \in Ends : y # a => sq'[y] = sq[y]
      /\ sq[a] \in Seq(Requests)
  <2>1. sq[a] \in Seq(Requests) /\ sq[a] # <<>> BY <1>1, <1>4 DEF Shapes
  <2>2. Tail(sq[a]) \in Seq(Requests) BY <2>1
  <2>3. QED BY <1>1, <1>7, <2>1, <2>2 DEF Shapes
<1>9. /\ flight' \in [Ends -> Seq(Requests)]
      /\ flight'[a] = Append(flight[a], w) /\ flight[a] \in Seq(Requests)
      /\ \A y \in Ends : y # a => flight'[y] = flight[y]
  <2>1. flight[a] \in Seq(Requests) BY <1>1 DEF Shapes
  <2>2. Append(flight[a], w) \in Seq(Requests) BY <1>4, <2>1
  <2>3. QED BY <1>1, <1>7, <2>1, <2>2 DEF Shapes
<1>10. /\ D2[a] = i /\ n2[a] = Tail(n[a]) /\ Counted(F, D2, L, n2)
       /\ \A y \in Ends : y # a => D2[y] = D[y] /\ n2[y] = n[y]
       /\ D2 \in [Ends -> Nat] /\ \A y \in Ends : D[y] <= D2[y]
       /\ n[a] \in Seq(Nat) /\ n[a] # <<>>
  <2>1. n[a] \in Seq(Nat) /\ Len(n[a]) = Len(sq[a])
    BY <1>1, PartsOf DEF Counted, RequestsInOrder
  <2>2. n[a] # <<>>
    <3>1. Len(sq[a]) # 0 BY <1>4, <1>8
    <3>2. QED BY <2>1, <3>1
  <2>3. Tail(n[a]) \in Seq(Nat) BY <2>1, <2>2
  <2>4. D2 \in [Ends -> Nat] /\ D2[a] = i /\ \A y \in Ends : y # a => D2[y] = D[y]
    BY <1>1 DEF Counted, D2
  <2>5. \A y \in Ends : D[y] <= D2[y]
    <3>1. \A y \in Ends : D[y] \in Nat BY <1>1 DEF Counted
    <3>2. QED BY <1>4, <2>4, <3>1
  <2>6. /\ n2 \in [Ends -> Seq(Nat)] /\ n2[a] = Tail(n[a])
        /\ \A y \in Ends : y # a => n2[y] = n[y]
    BY <1>1, <2>3 DEF Counted, n2
  <2>7. QED BY <1>1, <2>1, <2>2, <2>4, <2>5, <2>6 DEF Counted
<1>11. /\ TypeOK' /\ Shapes'
       /\ \A y \in Ends, l \in Locations :
            mem'[y][l] = IF y = r /\ l = <<"target", j>> THEN d ELSE mem[y][l]
       /\ \A y \in Ends : /\ OneOwner(y, F)' /\ RegionsKept(y, D2)'
                          /\ Posted(y)' = Posted(y)
  <2>1. D2 \in [Ends -> Nat] /\ \A y \in Ends : D[y] <= D2[y] BY <1>10
  <2> DEFINE k == "target"
  <2>2. /\ k \in {"target", "rcv", "rcv_len"}
        /\ IF k = "target" THEN j \in Slots ELSE j \in Buffers
        /\ k = "target" => d \in Descriptors
        /\ Placed(a, k, j, d) /\ d \in Nat \cup Descriptors
    BY <1>5, <1>7 DEF Placed, r
  <2>3. UNCHANGED <<scq, pc, arg, next_id, ackd_id, rcv_buffers, rcv_head,
                    rcv_tail, duplex, waiting, received, held>>
    BY <1>7
  <2>4. sq' \in [Ends -> Seq(Requests)] /\ flight' \in [Ends -> Seq(Requests)]
    BY <1>8, <1>9
  <2> HIDE DEF k
  <2>5. /\ TypeOK' /\ Shapes'
        /\ \A y \in Ends, l \in Locations :
             mem'[y][l] = IF y = Peer(a) /\ l = <<k, j>> THEN d ELSE mem[y][l]
        /\ \A y \in Ends : /\ OneOwner(y, F)' /\ RegionsKept(y, D2)'
                           /\ Posted(y)' = Posted(y)
    BY <2>1, <2>2, <2>3, <2>4, PlaceFrame, ZenonT(60)
  <2>6. QED BY <2>5 DEF k, r
<1>12. /\ \A y \in Ends, c \in Buffers :
            /\ mem'[y][<<"rcv", c>>] = mem[y][<<"rcv", c>>]
            /\ mem'[y][<<"rcv_len", c>>] = mem[y][<<"rcv_len", c>>]
       /\ \A y \in Ends, s \in Slots :
            y # r \/ s # j => mem'[y][<<"target", s>>] = mem[y][<<"target", s>>]
       /\ mem'[r][<<"target", j>>] = d
  <2>1. j \in Slots /\ r \in Ends BY <1>2, <1>5 DEF r
  <2>2. QED BY <1>11, <2>1, LocationFacts
<1>13. \A y \in Ends : InTurn(y, F, D2, L)'
  <2>1. SUFFICES ASSUME NEW y \in Ends PROVE InTurn(y, F, D2, L)' OBVIOUS
  <2>2. InTurn(y, F, D, L) /\ Peer(y) \in Ends BY PartsOf, EndFacts
  <2>3. Posted(Peer(y))' = Posted(Peer(y)) BY <1>11, <2>2
  <2>4. CASE y # a BY <1>7, <1>10, <2>2, <2>3, <2>4, InTurnKept
  <2>5. CASE y = a
    <3>1. Posted(Peer(a)) <= i /\ i <= F[a] BY <1>3, <1>4 DEF r
    <3>2. QED BY <1>7, <1>10, <2>2, <2>3, <2>5, <3>1 DEF InTurn
  <2>6. QED BY <2>4, <2>5
<1>14. TargetsKnown(a, D2)'
  <2> DEFINE lo == Posted(r)
  <2>1. TargetsKnown(a, D) BY PartsOf
  <2>2. lo' = lo BY <1>2, <1>11 DEF r
  <2>3. \A k : At(a, k)' = At(a, k) BY <1>7 DEF At
  <2>4. \A k \in lo + 1 .. i :
          mem'[r][<<"target", Slot(k)>>] = Descriptor(At(a, k))
    <3>1. SUFFICES ASSUME NEW k \in lo + 1 .. i
                   PROVE  mem'[r][<<"target", Slot(k)>>] = Descriptor(At(a, k))
      OBVIOUS
    <3>2. CASE k = i BY <1>12, <3>2 DEF j, d
    <3>3. CASE k # i
      <4>1. k \in lo + 1 .. D[a] /\ k \in received[a] + 1 .. F[a]
        BY <1>3, <1>4, <3>3
      <4>2. Slot(k) # j /\ Slot(k) \in Slots BY <1>5, <3>3, <4>1, AwaitedFacts
      <4>3. mem[r][<<"target", Slot(k)>>] = Descriptor(At(a, k))
        BY <2>1, <4>1 DEF TargetsKnown, r
      <4>4. QED BY <1>2, <1>12, <4>2, <4>3 DEF r
    <3>4. QED BY <3>2, <3>3
  <2>5. \A s \in Slots : mem'[r][<<"target", s>>].valid
                           => \E k \in lo + 1 .. i : s = Slot(k)
    <3>1. SUFFICES ASSUME NEW s \in Slots, mem'[r][<<"target", s>>].valid
                   PROVE  \E k \in lo + 1 .. i : s = Slot(k)
      OBVIOUS
    <3>2. CASE s = j
      <4>1. i \in lo + 1 .. i BY <1>3, <1>4
      <4>2. QED BY <3>2, <4>1 DEF j
    <3>3. CASE s # j
      <4>1. mem[r][<<"target", s>>].valid BY <1>2, <1>12, <3>1, <3>3 DEF r
      <4>2. \E k \in lo + 1 .. D[a] : s = Slot(k)
        BY <2>1, <4>1 DEF TargetsKnown, r
      <4>3. \A k \in lo + 1 .. D[a] : k \in lo + 1 .. i BY <1>3, <1>4
      <4>4. QED BY <4>2, <4>3
    <3>4. QED BY <3>2, <3>3
  <2>6. QED BY <1>10, <2>2, <2>3, <2>4, <2>5 DEF TargetsKnown, r
<1>15. \A y \in Ends : TargetsKnown(y, D2)'
  <2>1. SUFFICES ASSUME NEW y \in Ends, y # a PROVE TargetsKnown(y, D2)' BY <1>14
  <2>2. /\ TargetsKnown(y, D) /\ D[y] \in Nat /\ Posted(Peer(y)) \in Nat
        /\ Peer(y) \in Ends /\ Peer(y) # r
    BY <1>2, <2>1, PartsOf, CountFacts, EndFacts DEF r
  <2>3. Posted(Peer(y))' = Posted(Peer(y)) BY <1>11, <2>2
  <2>4. \A k : At(y, k)' = At(y, k) BY <1>7 DEF At
  <2>5. QED BY <1>10, <1>12, <2>1, <2>2, <2>3, <2>4, TargetsKept
<1>16. \A y \in Ends : BuffersFilled(y, F, L)'
  <2>1. SUFFICES ASSUME NEW y \in Ends PROVE BuffersFilled(y, F, L)' OBVIOUS
  <2>2. BuffersFilled(y, F, L) BY PartsOf
  <2>3. /\ L[y] <= F[y] /\ L[y] \in Nat /\ F[y] \in Nat
        /\ received[y] \in Nat /\ received[y] <= L[y]
    BY CountFacts
  <2>4. \A k \in received[y] + 1 .. F[y] : At(y, k)' = At(y, k) /\ At(y, k) \in Buffers
    BY <1>7, AwaitedFacts DEF At
  <2>5. held[y] \subseteq [buf : Buffers, msg : Nat] BY <1>1 DEF Shapes
  <2>6. QED BY <1>7, <1>12, <2>2, <2>3, <2>4, <2>5, BuffersStay
<1>17. RequestsInOrder(a, F, D2, L, n2)'
  <2>1. RequestsInOrder(a, F, D, L, n) BY PartsOf
  <2>2. F[a] \in Nat /\ D[a] \in Nat /\ D2[a] = n[a][1] BY <1>3, <1>4, <1>10
  <2>3. L[Peer(a)] \in Nat /\ Posted(a) \in Nat BY <1>2, CountFacts DEF r
  <2>4. sq[a] \in Seq(Requests) /\ sq[a] # <<>> /\ sq'[a] = Tail(sq[a])
    BY <1>4, <1>8
  <2>5. Posted(a)' = Posted(a) /\ UNCHANGED <<waiting, rcv_buffers>>
    BY <1>7, <1>11
  <2>6. QED BY <1>10, <2>1, <2>2, <2>3, <2>4, <2>5, RequestDone
<1>18. \A y \in Ends : RequestsInOrder(y, F, D2, L, n2)'
  <2>1. SUFFICES ASSUME NEW y \in Ends, y # a PROVE RequestsInOrder(y, F, D2, L, n2)'
    BY <1>17
  <2>2. RequestsInOrder(y, F, D, L, n) BY PartsOf
  <2>3. Peer(y) = a BY <2>1, EndFacts
  <2>4. \A k \in L[a] + 1 .. Posted(y) :
          mem'[a][<<"rcv", At(a, k)>>] = mem[a][<<"rcv", At(a, k)>>]
    <3>1. /\ L[a] \in Nat /\ Posted(y) \in Nat /\ received[a] \in Nat
          /\ F[a] \in Nat /\ received[a] <= L[a] /\ D[a] <= F[a] /\ D[a] \in Nat
          /\ Posted(y) <= D[a]
      BY <2>1, EndFacts, CountFacts
    <3>2. \A k \in L[a] + 1 .. Posted(y) : k \in received[a] + 1 .. F[a] BY <3>1
    <3>3. \A k \in L[a] + 1 .. Posted(y) : At(a, k) \in Buffers
      BY <3>2, AwaitedFacts
    <3>4. QED BY <1>12, <3>3
  <2>5. /\ sq'[y] = sq[y] /\ Posted(y)' = Posted(y) /\ waiting' = waiting
        /\ n2[y] = n[y] /\ D2[y] = D[y]
    BY <1>7, <1>8, <1>10, <1>11, <2>1
  <2>6. \A z, k : At(z, k)' = At(z, k) BY <1>7 DEF At
  <2>7. QED BY <2>2, <2>3, <2>4, <2>5, <2>6, RequestsStay
<1>19. CompletedLanded(a, L)'
  <2> DEFINE Done == 0 .. L[Peer(a)]
  <2> DEFINE s == flight[a]
  <2>1. CompletedLanded(a, L) BY PartsOf
  <2>2. 0 \in Done
    <3>1. L[Peer(a)] \in Nat BY <1>2, CountFacts DEF r
    <3>2. QED BY <3>1
  <2>3. w.id = 0 /\ w.op = "WRITE" BY <1>6
  <2> HIDE DEF Done
  <2>4. \A k \in DOMAIN s : s[k].id \in Done /\ s[k].op = "WRITE"
    BY <2>1 DEF CompletedLanded, Done
  <2>5. s \in Seq(Requests) /\ w \in Requests BY <1>4, <1>9 DEF w
  <2> HIDE DEF s
  <2>6. \A k \in DOMAIN Append(s, w) :
          Append(s, w)[k].id \in Done /\ Append(s, w)[k].op = "WRITE"
    <3>1. \A k \in DOMAIN Append(s, w) :
            Append(s, w)[k] = w \/ (k \in DOMAIN s /\ Append(s, w)[k] = s[k])
      BY <2>5
    <3>2. QED BY <2>2, <2>3, <2>4, <3>1
  <2>7. flight'[a] = Append(s, w) BY <1>9 DEF s
  <2>8. ackd_id'[a] \in Done /\ \A k \in DOMAIN scq'[a] : scq'[a][k] \in Done
    BY <1>7, <2>1 DEF CompletedLanded, Done
  <2>9. QED BY <2>6, <2>7, <2>8 DEF CompletedLanded, Done
<1>20. \A y \in Ends : CompletedLanded(y, L)'
  <2>1. SUFFICES ASSUME NEW y \in Ends, y # a PROVE CompletedLanded(y, L)' BY <1>19
  <2>2. QED BY <1>7, <1>9, <2>1, PartsOf, CompletedKept
<1>21. Agree(F, D2, L, n2)'
  BY <1>11, <1>13, <1>15, <1>16, <1>18, <1>20 DEF Agree
<1>22. Good(F, D2, L, n2)' BY <1>10, <1>11, <1>21 DEF Good, Counted
<1>23. QED BY <1>22

-----------------------------------------------------------------------------
(* The inductive invariant *)

\* Before Dial and Accept nothing was freed, and a receiver has all its buffers.
LEMMA InitInv == Init => IInv
<1> SUFFICES ASSUME Init PROVE IInv OBVIOUS
<1> DEFINE Z == [e \in Ends |-> 0]
<1> DEFINE N == [e \in Ends |-> <<>>]
<1>1. Z \in [Ends -> Nat] /\ N \in [Ends -> Seq(Nat)] OBVIOUS
<1>2. NrBuffers \in Nat \ {0} /\ Limit \in Nat
  BY NrBuffersIs, DirectWriteAssumption DEF Limit
<1>3. /\ mem = [e \in Ends |-> [l \in Locations |->
                   IF l[1] = "target" THEN NoDescriptor ELSE 0]]
      /\ sq = [e \in Ends |-> <<>>] /\ flight = [e \in Ends |-> <<>>]
      /\ scq = [e \in Ends |-> <<>>]
  BY DEF Init, QPInit
<1>4. /\ \A e \in Ends : pc[e] \in {"setup", "idle"}
      /\ \A e \in Ends : received[e] = 0 /\ waiting[e] = <<>> /\ Sent(e) = 0
      /\ \A e \in Ends : Posted(e) = 0
  BY DEF Init, Sent, Posted
<1>5. ASSUME NEW e \in Ends
      PROVE  /\ held[e] \in SUBSET [buf : Buffers, msg : {0}]
             /\ \A g, h \in held[e] : g.buf = h.buf => g = h
             /\ IF Receives(e) THEN \A b \in Buffers : \E h \in held[e] : h.buf = b
                               ELSE held[e] = {}
  <2>1. CASE Receives(e)
    <3>1. held[e] = {[buf |-> b, msg |-> 0] : b \in Buffers} BY <2>1 DEF Init
    <3>2. \A b \in Buffers : [buf |-> b, msg |-> 0].buf = b OBVIOUS
    <3>3. \A g, h \in held[e] : g.buf = h.buf => g = h BY <3>1, <3>2
    <3>4. held[e] \subseteq [buf : Buffers, msg : {0}]
      <4>1. \A b \in Buffers : [buf |-> b, msg |-> 0] \in [buf : Buffers, msg : {0}]
        OBVIOUS
      <4>2. QED BY <3>1, <4>1
    <3>5. \A b \in Buffers : \E h \in held[e] : h.buf = b BY <3>1, <3>2
    <3>6. QED BY <2>1, <3>3, <3>4, <3>5
  <2>2. CASE ~Receives(e)
    <3>1. held[e] = {} BY <2>2 DEF Init
    <3>2. QED BY <2>2, <3>1
  <2>3. QED BY <2>1, <2>2
<1>6. TypeOK
  <2>1. \A e \in Ends : Cardinality(Used(e)) = Len(waiting[e])
    <3>1. \A e \in Ends : Used(e) = {} BY <1>4 DEF Used
    <3>2. QED BY <1>4, <3>1, FS_EmptySet
  <2>2. /\ pc \in [Ends -> {"setup", "idle", "sending", "waiting", "freeing"}]
        /\ duplex \in BOOLEAN
    BY DEF Init
  <2>3. /\ next_id \in [Ends -> 1 .. Limit + 1] /\ ackd_id \in [Ends -> 0 .. Limit]
        /\ received \in [Ends -> 0 .. Limit]
    BY <1>2 DEF Init
  <2>4. rcv_buffers \in [Ends -> [Slots -> Descriptors]]
    <3>1. NoDescriptor \in Descriptors BY DEF NoDescriptor, Descriptors
    <3>2. QED BY <3>1 DEF Init
  <2>5. {rcv_head, rcv_tail} \subseteq [Ends -> Slots]
    <3>1. Slot(1) \in Slots BY SlotFacts
    <3>2. QED BY <3>1 DEF Init
  <2>6. QED BY <1>5, <2>1, <2>2, <2>3, <2>4, <2>5 DEF TypeOK
<1>7. /\ mem \in [Ends -> [Locations -> Nat \cup Descriptors]]
      /\ \A e \in Ends, j \in Slots : mem[e][<<"target", j>>] = NoDescriptor
      /\ \A e \in Ends, b \in Buffers : mem[e][<<"rcv_len", b>>] = 0
  <2>1. NoDescriptor \in Descriptors BY DEF NoDescriptor, Descriptors
  <2>2. mem \in [Ends -> [Locations -> Nat \cup Descriptors]] BY <1>3, <2>1
  <2>3. \A e \in Ends, j \in Slots : mem[e][<<"target", j>>] = NoDescriptor
    <3>1. \A j : <<"target", j>>[1] = "target" OBVIOUS
    <3>2. QED BY <1>3, <3>1, LocationFacts
  <2>4. \A e \in Ends, b \in Buffers : mem[e][<<"rcv_len", b>>] = 0
    <3>1. \A b : <<"rcv_len", b>>[1] # "target" OBVIOUS
    <3>2. QED BY <1>3, <3>1, LocationFacts
  <2>5. QED BY <2>2, <2>3, <2>4
<1>8. Shapes
  <2>1. \A e \in Ends, j \in Slots : mem[e][<<"target", j>>] \in Descriptors
    <3>1. NoDescriptor \in Descriptors BY DEF NoDescriptor, Descriptors
    <3>2. QED BY <1>7, <3>1
  <2>2. {sq, flight} \subseteq [Ends -> Seq(Requests)] /\ scq \in [Ends -> Seq(Nat)]
    BY <1>3
  <2>3. DOMAIN arg = Ends /\ arg = [e \in Ends |-> arg[e]] BY DEF Init
  <2>4. waiting \in [Ends -> Seq([id : Nat, region : 1 .. Regions])] BY DEF Init
  <2>5. held \in [Ends -> SUBSET [buf : Buffers, msg : Nat]]
    <3>1. held = [e \in Ends |-> held[e]] BY DEF Init
    <3>2. \A e \in Ends : held[e] \in SUBSET [buf : Buffers, msg : Nat] BY <1>5
    <3>3. QED BY <3>1, <3>2
  <2>6. QED BY <1>7, <2>1, <2>2, <2>3, <2>4, <2>5 DEF Shapes
<1>9. Agree(Z, Z, Z, N)
  <2>1. SUFFICES ASSUME NEW e \in Ends
                 PROVE  /\ InTurn(e, Z, Z, Z) /\ OneOwner(e, Z) /\ TargetsKnown(e, Z)
                        /\ BuffersFilled(e, Z, Z) /\ RequestsInOrder(e, Z, Z, Z, N)
                        /\ RegionsKept(e, Z) /\ CompletedLanded(e, Z)
    BY DEF Agree
  <2>2. Peer(e) \in Ends BY EndFacts
  <2>3. /\ Z[e] = 0 /\ Z[Peer(e)] = 0 /\ N[e] = <<>>
        /\ Posted(e) = 0 /\ Posted(Peer(e)) = 0 /\ received[e] = 0
    BY <1>4, <2>2
  <2> HIDE DEF Z, N
  <2>4. InTurn(e, Z, Z, Z) BY <1>2, <2>3 DEF InTurn, Init
  <2>5. OneOwner(e, Z)
    <3>1. received[e] + 1 .. Z[e] = {} BY <2>3
    <3>2. held[e] \subseteq [buf : Buffers, msg : 0 .. received[e]] BY <1>5, <2>3
    <3>3. QED BY <1>5, <2>3, <3>1, <3>2 DEF OneOwner
  <2>6. TargetsKnown(e, Z)
    <3>1. Posted(Peer(e)) + 1 .. Z[e] = {} BY <2>3
    <3>2. \A j \in Slots : ~mem[Peer(e)][<<"target", j>>].valid
      <4>1. ~NoDescriptor.valid BY DEF NoDescriptor
      <4>2. QED BY <1>7, <2>2, <4>1
    <3>3. QED BY <3>1, <3>2 DEF TargetsKnown
  <2>7. BuffersFilled(e, Z, Z)
    <3>1. /\ received[e] + 1 .. Z[e] = {} /\ Z[e] + 1 .. Z[e] = {}
          /\ pc[e] # "freeing" /\ \A h \in held[e] : ~(h.msg > 0)
      BY <1>4, <1>5, <2>3
    <3>2. QED BY <3>1 DEF BuffersFilled
  <2>8. RequestsInOrder(e, Z, Z, Z, N)
    <3>1. /\ Z[Peer(e)] + 1 .. Posted(e) = {} /\ Z[e] + 1 .. Z[e] = {}
          /\ sq[e] = <<>> /\ DOMAIN sq[e] = {} /\ Len(N[e]) = Len(sq[e])
      BY <1>3, <2>3
    <3>2. QED BY <3>1 DEF RequestsInOrder
  <2>9. RegionsKept(e, Z)
    <3>1. DOMAIN waiting[e] = {} /\ pc[e] \notin {"sending", "waiting"} BY <1>4
    <3>2. QED BY <3>1 DEF RegionsKept
  <2>10. CompletedLanded(e, Z)
    <3>1. /\ DOMAIN scq[e] = {} /\ DOMAIN flight[e] = {} /\ ackd_id[e] = 0
      BY <1>3 DEF Init
    <3>2. QED BY <2>3, <3>1 DEF CompletedLanded
  <2>11. QED BY <2>4, <2>5, <2>6, <2>7, <2>8, <2>9, <2>10
<1> HIDE DEF Z, N
<1>10. QED BY <1>1, <1>6, <1>8, <1>9 DEF IInv

\* Whatever the device places, some counts and numbers fit afterwards.
LEMMA PlaceInv ==
  ASSUME NEW F, NEW D, NEW L, NEW n, Good(F, D, L, n), NEW a \in Ends,
         Place(a), UNCHANGED <<pc, arg, dwVars, callerVars>>
  PROVE  \E D2, L2, n2 : Good(F, D2, L2, n2)'
<1>1. CASE sq[a][1].id = 0
  <2>1. \E D2, n2 : Good(F, D2, L, n2)' BY <1>1, PlaceDescriptorInv
  <2>2. QED BY <2>1
<1>2. CASE sq[a][1].id # 0 /\ Len(sq[a][1].puts) > 1
  <2>1. Good(F, D, L, n)' BY <1>2, PlaceBodyInv
  <2>2. QED BY <2>1
<1>3. CASE sq[a][1].id # 0 /\ ~(Len(sq[a][1].puts) > 1)
  <2>1. \E L2, n2 : Good(F, D, L2, n2)' BY <1>3, PlaceLengthInv
  <2>2. QED BY <2>1
<1>4. QED BY <1>1, <1>2, <1>3

\* Every step of the connection preserves the invariant.
LEMMA StepInv == IInv /\ [Next]_vars => IInv'
<1> SUFFICES ASSUME IInv, [Next]_vars PROVE IInv' OBVIOUS
<1>1. PICK F, D, L, n : Good(F, D, L, n)
  <2>1. PICK F \in [Ends -> Nat], D \in [Ends -> Nat], L \in [Ends -> Nat],
             n \in [Ends -> Seq(Nat)] : Agree(F, D, L, n)
    BY DEF IInv
  <2>2. Good(F, D, L, n) BY <2>1 DEF Good, Counted, IInv
  <2>3. QED BY <2>2
<1>2. SUFFICES \E F2, D2, L2, n2 : Good(F2, D2, L2, n2)'
  <2>1. ASSUME NEW F2, NEW D2, NEW L2, NEW n2, Good(F2, D2, L2, n2)' PROVE IInv'
    <3>1. TypeOK' /\ Shapes' /\ Agree(F2, D2, L2, n2)' BY <2>1 DEF Good
    <3>2. /\ F2 \in [Ends -> Nat] /\ D2 \in [Ends -> Nat] /\ L2 \in [Ends -> Nat]
          /\ n2 \in [Ends -> Seq(Nat)]
      BY <2>1 DEF Good, Counted
    <3>3. QED BY <3>1, <3>2 DEF IInv
  <2>2. QED BY <2>1
<1>3. ASSUME NEW a \in Ends, SendAsync(a)
      PROVE  \E F2, D2, L2, n2 : Good(F2, D2, L2, n2)'
  <2>1. Good(F, D, L, n)' BY <1>1, <1>3, SendAsyncInv
  <2>2. QED BY <2>1
<1>4. ASSUME NEW a \in Ends, Write(a)
      PROVE  \E F2, D2, L2, n2 : Good(F2, D2, L2, n2)'
  <2>1. \E n2 : Good(F, D, L, n2)' BY <1>1, <1>4, WriteInv
  <2>2. QED BY <2>1
<1>5. ASSUME NEW a \in Ends, WaitStart(a)
      PROVE  \E F2, D2, L2, n2 : Good(F2, D2, L2, n2)'
  <2>1. Good(F, D, L, n)' BY <1>1, <1>5, WaitStartInv
  <2>2. QED BY <2>1
<1>6. ASSUME NEW a \in Ends, WaitPoll(a)
      PROVE  \E F2, D2, L2, n2 : Good(F2, D2, L2, n2)'
  <2>1. Good(F, D, L, n)' BY <1>1, <1>6, WaitPollInv
  <2>2. QED BY <2>1
<1>7. ASSUME NEW a \in Ends, WaitReturn(a)
      PROVE  \E F2, D2, L2, n2 : Good(F2, D2, L2, n2)'
  <2>1. Good(F, D, L, n)' BY <1>1, <1>7, WaitReturnInv
  <2>2. QED BY <2>1
<1>8. ASSUME NEW a \in Ends, Receive(a)
      PROVE  \E F2, D2, L2, n2 : Good(F2, D2, L2, n2)'
  <2>1. Good(F, D, L, n)' BY <1>1, <1>8, ReceiveInv
  <2>2. QED BY <2>1
<1>9. ASSUME NEW a \in Ends, FreeClear(a)
      PROVE  \E F2, D2, L2, n2 : Good(F2, D2, L2, n2)'
  <2>1. Good(F, D, L, n)' BY <1>1, <1>9, FreeClearInv
  <2>2. QED BY <2>1
<1>10. ASSUME NEW a \in Ends, FreeWrite(a)
       PROVE  \E F2, D2, L2, n2 : Good(F2, D2, L2, n2)'
  <2>1. \E F2, n2 : Good(F2, D, L, n2)' BY <1>1, <1>10, FreeWriteInv
  <2>2. QED BY <2>1
<1>11. ASSUME NEW a \in Ends, Place(a), UNCHANGED <<pc, arg, dwVars, callerVars>>
       PROVE  \E F2, D2, L2, n2 : Good(F2, D2, L2, n2)'
  <2>1. \E D2, L2, n2 : Good(F, D2, L2, n2)' BY <1>1, <1>11, PlaceInv
  <2>2. QED BY <2>1
<1>12. ASSUME NEW a \in Ends, Complete(a), UNCHANGED <<pc, arg, dwVars, callerVars>>
       PROVE  \E F2, D2, L2, n2 : Good(F2, D2, L2, n2)'
  <2>1. Good(F, D, L, n)' BY <1>1, <1>12, CompleteInv
  <2>2. QED BY <2>1
<1>13. CASE UNCHANGED vars
  <2>1. /\ UNCHANGED <<mem, sq, flight, scq, pc, arg, next_id, ackd_id,
                       rcv_buffers, rcv_head, rcv_tail, duplex, waiting, received,
                       held>>
        /\ \A x \in Ends : Posted(x)' = Posted(x)
    BY <1>13 DEF vars, qpVars, dwVars, callerVars, Posted, Sent
  <2>2. TypeOK' /\ Shapes' /\ Counted(F, D, L, n)
    <3>1. TypeOK /\ Shapes /\ Counted(F, D, L, n) BY <1>1 DEF Good
    <3>2. Limit' = Limit /\ \A e \in Ends : Used(e)' = Used(e)
      BY <2>1 DEF Limit, Used
    <3>3. TypeOK' BY <2>1, <3>1, <3>2 DEF TypeOK
    <3>4. Shapes' BY <2>1, <3>1 DEF Shapes
    <3>5. QED BY <3>1, <3>3, <3>4
  <2>3. Agree(F, D, L, n)'
    <3>1. SUFFICES ASSUME NEW e \in Ends
                   PROVE  /\ InTurn(e, F, D, L)' /\ OneOwner(e, F)'
                          /\ TargetsKnown(e, D)' /\ BuffersFilled(e, F, L)'
                          /\ RequestsInOrder(e, F, D, L, n)'
                          /\ RegionsKept(e, D)' /\ CompletedLanded(e, L)'
      BY DEF Agree
    <3>2. /\ InTurn(e, F, D, L) /\ OneOwner(e, F) /\ TargetsKnown(e, D)
          /\ BuffersFilled(e, F, L) /\ RequestsInOrder(e, F, D, L, n)
          /\ RegionsKept(e, D) /\ CompletedLanded(e, L) /\ Peer(e) \in Ends
      BY <1>1, PartsOf, EndFacts
    <3>3. InTurn(e, F, D, L)' BY <2>1, <3>2, InTurnKept
    <3>4. OneOwner(e, F)' BY <2>1, <3>2, OneOwnerKept
    <3>5. TargetsKnown(e, D)' BY <2>1, <3>2 DEF TargetsKnown, At
    <3>6. BuffersFilled(e, F, L)' BY <2>1, <3>2 DEF BuffersFilled, At
    <3>7. RequestsInOrder(e, F, D, L, n)' BY <2>1, <3>2, RequestsStay DEF At
    <3>8. RegionsKept(e, D)' BY <2>1, <3>2 DEF RegionsKept, At, Posted, Sent, Used
    <3>9. CompletedLanded(e, L)' BY <2>1, <3>2, CompletedKept
    <3>10. QED BY <3>3, <3>4, <3>5, <3>6, <3>7, <3>8, <3>9
  <2>4. Good(F, D, L, n)' BY <2>2, <2>3 DEF Good, Counted
  <2>5. QED BY <2>4
<1>14. QED
  BY <1>3, <1>4, <1>5, <1>6, <1>7, <1>8, <1>9, <1>10, <1>11, <1>12, <1>13
  DEF Next, Device

-----------------------------------------------------------------------------
(* What follows from it *)

\* A message held was sent, and is still in its buffer.
LEMMA HeldIntactInv == IInv => HeldIntact
<1> SUFFICES ASSUME IInv, NEW e \in Ends, NEW h \in held[e], h.msg > 0
             PROVE  h.msg <= Sent(Peer(e)) /\ mem[e][<<"rcv", h.buf>>] = h.msg
  BY DEF HeldIntact
<1>1. PICK F, D, L, n : Good(F, D, L, n)
  <2>1. PICK F \in [Ends -> Nat], D \in [Ends -> Nat], L \in [Ends -> Nat],
             n \in [Ends -> Seq(Nat)] : Agree(F, D, L, n)
    BY DEF IInv
  <2>2. Good(F, D, L, n) BY <2>1 DEF Good, Counted, IInv
  <2>3. QED BY <2>2
<1>2. OneOwner(e, F) /\ BuffersFilled(e, F, L) BY <1>1, PartsOf
<1>3. mem[e][<<"rcv", h.buf>>] = h.msg BY <1>2 DEF BuffersFilled
<1>4. h.msg \in 0 .. received[e] BY <1>2 DEF OneOwner
<1>5. received[e] <= Sent(Peer(e))
  <2>1. /\ received[e] \in Nat /\ L[e] \in Nat /\ Posted(Peer(e)) \in Nat
        /\ received[e] <= L[e] /\ L[e] <= Posted(Peer(e))
        /\ Posted(Peer(e)) = IF pc[Peer(e)] = "sending" THEN Sent(Peer(e)) - 1
                                                        ELSE Sent(Peer(e))
    BY <1>1, CountFacts
  <2>2. Sent(Peer(e)) \in Nat BY <1>1, CountFacts, EndFacts
  <2>3. QED BY <2>1, <2>2
<1>6. received[e] \in Nat /\ Sent(Peer(e)) \in Nat BY <1>1, CountFacts, EndFacts
<1>7. QED BY <1>3, <1>4, <1>5, <1>6

\* What the sender may use the receiver awaits, in the same place.
LEMMA InStepInv == IInv => InStep
<1> SUFFICES ASSUME IInv, NEW e \in Ends, NEW i \in Slots,
                    mem[e][<<"target", i>>].valid
             PROVE  /\ rcv_buffers[Peer(e)][i].addr = mem[e][<<"target", i>>].addr
                    /\ rcv_buffers[Peer(e)][i].valid
  BY DEF InStep
<1> DEFINE r == Peer(e)
<1>1. PICK F, D, L, n : Good(F, D, L, n)
  <2>1. PICK F \in [Ends -> Nat], D \in [Ends -> Nat], L \in [Ends -> Nat],
             n \in [Ends -> Seq(Nat)] : Agree(F, D, L, n)
    BY DEF IInv
  <2>2. Good(F, D, L, n) BY <2>1 DEF Good, Counted, IInv
  <2>3. QED BY <2>2
<1>2. r \in Ends /\ Peer(r) = e BY EndFacts
<1>3. TargetsKnown(r, D) BY <1>1, <1>2, PartsOf
<1>4. PICK k \in Posted(e) + 1 .. D[r] :
        i = Slot(k) /\ mem[e][<<"target", i>>] = Descriptor(At(r, k))
  <2>1. PICK k \in Posted(e) + 1 .. D[r] : i = Slot(k)
    BY <1>2, <1>3 DEF TargetsKnown
  <2>2. mem[e][<<"target", Slot(k)>>] = Descriptor(At(r, k))
    BY <1>2, <1>3 DEF TargetsKnown
  <2>3. QED BY <2>1, <2>2
<1>5. k \in received[r] + 1 .. F[r]
  <2>1. /\ F[r] \in Nat /\ D[r] \in Nat /\ L[r] \in Nat /\ received[r] \in Nat
        /\ Posted(e) \in Nat /\ received[r] <= L[r] /\ L[r] <= Posted(e)
        /\ D[r] <= F[r]
    BY <1>1, <1>2, CountFacts
  <2>2. QED BY <2>1
<1> HIDE DEF r
<1>6. rcv_buffers[r][i] = Descriptor(At(r, k))
  <2>1. rcv_buffers[r][Slot(k)] = Descriptor(At(r, k))
    BY <1>1, <1>2, <1>5, AwaitedFacts
  <2>2. QED BY <1>4, <2>1
<1>7. QED BY <1>4, <1>6 DEF Descriptor, r

-----------------------------------------------------------------------------
\* Every reachable state satisfies the inductive invariant: frees and messages
\* can be numbered such that the n-th message goes where the n-th free said
\* (DirectWriteConnection::SendAsync, Receive, Free).
THEOREM Invariance == Spec => []IInv
<1>1. Init => IInv BY InitInv
<1>2. IInv /\ [Next]_vars => IInv' BY StepInv
<1>3. QED BY <1>1, <1>2, PTL DEF Spec

\* Every buffer has one owner, and a message that Receive returned is the next
\* that was sent, whole, and stays until Free, in whatever order buffers are
\* freed.
THEOREM ReceivedStays == Spec => []DirectInv
<1>1. Spec => []IInv BY Invariance
<1>2. IInv => DirectInv BY HeldIntactInv DEF DirectInv, IInv
<1>3. QED BY <1>1, <1>2, PTL

\* The FIXME at direct_write.cpp:150 need not be feared: where the sender has a
\* descriptor that is valid, the receiver awaits a message in that very buffer.
THEOREM ArraysAgree == Spec => []InStep
<1>1. Spec => []IInv BY Invariance
<1>2. IInv => InStep BY InStepInv
<1>3. QED BY <1>1, <1>2, PTL
=============================================================================
