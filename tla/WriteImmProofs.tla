---------------------------- MODULE WriteImmProofs ----------------------------
(***************************************************************************)
(* WriteImm keeps its receive buffers and takes the messages in their       *)
(* order: proofs for every ring, every number of buffers, every batch and   *)
(* completion array, both acknowledgers, and runs in which the connection   *)
(* breaks as well as runs in which it does not.                             *)
(***************************************************************************)
EXTENDS WriteImm, BufferedWriteProofs, FiniteSetTheorems

-----------------------------------------------------------------------------
(* Receive buffers: where each of them is *)

\* A buffer is among those a sequence of buffers, or of completions, names.
In(b, s) == \E i \in DOMAIN s : s[i] = b
Named(b, wcs) == \E i \in DOMAIN wcs : wcs[i].id = b

\* The elements of a concatenation.
LEMMA ConcatIn ==
  ASSUME NEW S, NEW s \in Seq(S), NEW t \in Seq(S)
  PROVE  /\ s \o t \in Seq(S) /\ Len(s \o t) = Len(s) + Len(t)
         /\ DOMAIN (s \o t) = 1 .. Len(s) + Len(t)
         /\ \A i \in 1 .. Len(s) : (s \o t)[i] = s[i]
         /\ \A i \in 1 .. Len(t) : (s \o t)[Len(s) + i] = t[i]
         /\ \A b : In(b, s \o t) <=> In(b, s) \/ In(b, t)
<1>1. /\ s \o t \in Seq(S) /\ Len(s \o t) = Len(s) + Len(t)
      /\ DOMAIN (s \o t) = 1 .. Len(s) + Len(t)
      /\ Len(s) \in Nat /\ Len(t) \in Nat
      /\ DOMAIN s = 1 .. Len(s) /\ DOMAIN t = 1 .. Len(t)
  OBVIOUS
<1>2. /\ \A i \in 1 .. Len(s) : (s \o t)[i] = s[i]
      /\ \A i \in 1 .. Len(t) : (s \o t)[Len(s) + i] = t[i]
  OBVIOUS
<1> DEFINE st == s \o t
<1> HIDE DEF st
<1>3. ASSUME NEW b PROVE In(b, st) <=> In(b, s) \/ In(b, t)
  <2>1. ASSUME NEW i \in DOMAIN st, st[i] = b PROVE In(b, s) \/ In(b, t)
    <3>1. CASE i <= Len(s)
      <4>1. i \in 1 .. Len(s) BY <1>1, <2>1, <3>1 DEF st
      <4>2. QED BY <1>1, <1>2, <2>1, <4>1 DEF In, st
    <3>2. CASE ~(i <= Len(s))
      <4>1. i - Len(s) \in 1 .. Len(t) /\ Len(s) + (i - Len(s)) = i
        BY <1>1, <2>1, <3>2 DEF st
      <4>2. t[i - Len(s)] = b BY <1>2, <2>1, <4>1 DEF st
      <4>3. QED BY <1>1, <4>1, <4>2 DEF In
    <3>3. QED BY <3>1, <3>2
  <2>2. ASSUME NEW i \in DOMAIN s, s[i] = b PROVE In(b, st)
    <3>1. i \in DOMAIN st /\ st[i] = b BY <1>1, <1>2, <2>2 DEF st
    <3>2. QED BY <3>1 DEF In
  <2>3. ASSUME NEW i \in DOMAIN t, t[i] = b PROVE In(b, st)
    <3>1. Len(s) + i \in DOMAIN st /\ st[Len(s) + i] = b
      BY <1>1, <1>2, <2>3 DEF st
    <3>2. QED BY <3>1 DEF In
  <2>4. QED BY <2>1, <2>2, <2>3 DEF In
<1>4. QED BY <1>1, <1>2, <1>3 DEF st

\* The ids of a sequence of completions.
LEMMA IdsIn ==
  ASSUME NEW wcs \in Seq(Completion)
  PROVE  /\ Ids(wcs) \in Seq(Buffers) /\ Len(Ids(wcs)) = Len(wcs)
         /\ \A b : In(b, Ids(wcs)) <=> Named(b, wcs)
<1>1. /\ DOMAIN wcs = 1 .. Len(wcs) /\ Len(wcs) \in Nat
      /\ \A i \in DOMAIN wcs : wcs[i].id \in Buffers
  <2>1. DOMAIN wcs = 1 .. Len(wcs) /\ Len(wcs) \in Nat OBVIOUS
  <2>2. \A i \in 1 .. Len(wcs) : wcs[i] \in Completion OBVIOUS
  <2>3. QED BY <2>1, <2>2 DEF Completion
<1>2. Ids(wcs) \in [1 .. Len(wcs) -> Buffers] BY <1>1 DEF Ids
<1>3. Ids(wcs) \in Seq(Buffers) /\ Len(Ids(wcs)) = Len(wcs)
  BY <1>1, <1>2, SeqDef
<1>4. \A b : In(b, Ids(wcs)) <=> Named(b, wcs) BY DEF In, Named, Ids
<1>5. QED BY <1>3, <1>4

\* What is in the four places a buffer can be in.
LEMMA FourPlaces ==
  ASSUME NEW r \in Seq(Buffers), NEW p \in Seq(Buffers),
         NEW q \in Seq(Completion), NEW c \in Seq(Completion)
  PROVE  /\ Len(r \o Ids(q) \o Ids(c) \o p) = Len(r) + Len(q) + Len(c) + Len(p)
         /\ \A b : In(b, r \o Ids(q) \o Ids(c) \o p)
                     <=> \/ In(b, r) \/ Named(b, q)
                         \/ Named(b, c) \/ In(b, p)
<1> DEFINE qIds == Ids(q)
<1> DEFINE cIds == Ids(c)
<1> DEFINE one == r \o qIds
<1> DEFINE two == one \o cIds
<1> DEFINE all == two \o p
<1>1. /\ qIds \in Seq(Buffers) /\ Len(qIds) = Len(q)
      /\ \A b : In(b, qIds) <=> Named(b, q)
  BY IdsIn
<1>2. /\ cIds \in Seq(Buffers) /\ Len(cIds) = Len(c)
      /\ \A b : In(b, cIds) <=> Named(b, c)
  BY IdsIn
<1> HIDE DEF qIds, cIds
<1>3. /\ one \in Seq(Buffers) /\ Len(one) = Len(r) + Len(qIds)
      /\ \A b : In(b, one) <=> In(b, r) \/ In(b, qIds)
  BY <1>1, ConcatIn, Zenon DEF one
<1> HIDE DEF one
<1>4. /\ two \in Seq(Buffers) /\ Len(two) = Len(one) + Len(cIds)
      /\ \A b : In(b, two) <=> In(b, one) \/ In(b, cIds)
  BY <1>2, <1>3, ConcatIn, Zenon DEF two
<1> HIDE DEF two
<1>5. /\ Len(all) = Len(two) + Len(p)
      /\ \A b : In(b, all) <=> In(b, two) \/ In(b, p)
  BY <1>4, ConcatIn, Zenon DEF all
<1>6. all = r \o Ids(q) \o Ids(c) \o p BY DEF all, two, one, qIds, cIds
<1> HIDE DEF all
<1>7. Len(all) = Len(r) + Len(q) + Len(c) + Len(p)
  BY <1>1, <1>2, <1>3, <1>4, <1>5
<1>8. \A b : In(b, all) <=> \/ In(b, r) \/ Named(b, q)
                            \/ Named(b, c) \/ In(b, p)
  BY <1>1, <1>2, <1>3, <1>4, <1>5, Zenon
<1>9. QED BY <1>6, <1>7, <1>8, Zenon

\* What BuffersConserved says of the four places.
LEMMA OwnedIn ==
  ASSUME TypeOK
  PROVE  /\ Len(Owned) = Len(recvs) + Len(cq) + Len(cached) + Len(batch)
         /\ \A b : In(b, Owned) <=> \/ In(b, recvs) \/ Named(b, cq)
                                    \/ Named(b, cached) \/ In(b, batch)
<1>1. /\ recvs \in Seq(Buffers) /\ batch \in Seq(Buffers)
      /\ cq \in Seq(Completion) /\ cached \in Seq(Completion)
  BY DEF TypeOK, RQTypeOK
<1>2. QED BY <1>1, FourPlaces, Zenon DEF Owned

\* A step that keeps the number of places filled and loses no buffer.
LEMMA BuffersKept ==
  ASSUME TypeOK, TypeOK', BuffersConserved,
         Len(recvs') + Len(cq') + Len(cached') + Len(batch')
           = Len(recvs) + Len(cq) + Len(cached) + Len(batch),
         \A b : In(b, recvs) \/ Named(b, cq) \/ Named(b, cached) \/ In(b, batch)
                  => \/ In(b, recvs') \/ Named(b, cq')
                     \/ Named(b, cached') \/ In(b, batch')
  PROVE  BuffersConserved'
<1>1. /\ recvs' \in Seq(Buffers) /\ batch' \in Seq(Buffers)
      /\ cq' \in Seq(Completion) /\ cached' \in Seq(Completion)
  BY DEF TypeOK, RQTypeOK
<1>2. /\ Len(Owned') = Len(recvs') + Len(cq') + Len(cached') + Len(batch')
      /\ \A b : In(b, Owned') <=> \/ In(b, recvs') \/ Named(b, cq')
                                  \/ Named(b, cached') \/ In(b, batch')
  BY <1>1, FourPlaces, ZenonT(60) DEF Owned
<1>3. /\ Len(Owned) = Len(recvs) + Len(cq) + Len(cached) + Len(batch)
      /\ \A b : In(b, Owned) <=> \/ In(b, recvs) \/ Named(b, cq)
                                 \/ Named(b, cached) \/ In(b, batch)
  BY OwnedIn
<1>4. Len(Owned) = Inflight /\ \A b \in Buffers : In(b, Owned)
  BY DEF BuffersConserved, In
<1>5. Len(Owned') = Inflight BY <1>2, <1>3, <1>4
<1>6. \A b \in Buffers : In(b, Owned') BY <1>2, <1>3, <1>4
<1>7. QED BY <1>5, <1>6 DEF BuffersConserved, In

\* PostMR keeps the buffer it is given and all it had gathered.
LEMMA PostMRKeeps ==
  ASSUME TypeOK, NEW id \in Buffers, PostMR(id)
  PROVE  /\ recvs' \in Seq(Buffers) /\ batch' \in Seq(Buffers)
         /\ Len(batch') < Batch
         /\ Len(recvs') + Len(batch') = Len(recvs) + Len(batch) + 1
         /\ \A b : In(b, recvs') \/ In(b, batch')
                     <=> In(b, recvs) \/ In(b, batch) \/ b = id
<1>1. /\ recvs \in Seq(Buffers) /\ batch \in Seq(Buffers)
      /\ Len(batch) < Batch /\ Batch \in Nat
  BY ReceiveQueueAssumption DEF TypeOK, RQTypeOK
<1> DEFINE gathered == <<id>> \o batch
<1>2. /\ gathered \in Seq(Buffers) /\ Len(gathered) = Len(batch) + 1
      /\ \A b : In(b, gathered) <=> In(b, batch) \/ b = id
  <2> DEFINE first == <<id>>
  <2>1. /\ first \in Seq(Buffers) /\ Len(first) = 1
        /\ \A b : In(b, first) <=> b = id
    BY DEF In
  <2> HIDE DEF first
  <2>2. /\ first \o batch \in Seq(Buffers)
        /\ Len(first \o batch) = Len(first) + Len(batch)
        /\ \A b : In(b, first \o batch) <=> In(b, first) \/ In(b, batch)
    BY <1>1, <2>1, ConcatIn, Zenon
  <2>3. first \o batch = gathered BY DEF first
  <2> HIDE DEF gathered
  <2>4. QED BY <1>1, <2>1, <2>2, <2>3
<1>3. IF Len(gathered) = Batch
      THEN recvs' = recvs \o gathered /\ batch' = <<>>
      ELSE batch' = gathered /\ recvs' = recvs
  BY DEF PostMR
<1> HIDE DEF gathered
<1>4. CASE Len(gathered) = Batch
  <2>1. recvs' = recvs \o gathered /\ batch' = <<>> BY <1>3, <1>4
  <2>2. /\ recvs' \in Seq(Buffers) /\ Len(recvs') = Len(recvs) + Len(gathered)
        /\ \A b : In(b, recvs') <=> In(b, recvs) \/ In(b, gathered)
    BY <1>1, <1>2, <2>1, ConcatIn, Zenon
  <2>3. batch' \in Seq(Buffers) /\ Len(batch') = 0 /\ \A b : ~In(b, batch')
    BY <2>1 DEF In
  <2>4. QED BY <1>1, <1>2, <2>2, <2>3, ReceiveQueueAssumption
<1>5. CASE Len(gathered) # Batch
  <2>1. recvs' = recvs /\ batch' = gathered BY <1>3, <1>5
  <2>2. Len(gathered) < Batch BY <1>1, <1>2, <1>5
  <2>3. QED BY <1>1, <1>2, <2>1, <2>2
<1>6. QED BY <1>4, <1>5

-----------------------------------------------------------------------------
(* Completions: the endpoint's array and the queue behind it *)

\* What an array of completions and the queue behind it name.
LEMMA ConcatNamed ==
  ASSUME NEW s \in Seq(Completion), NEW t \in Seq(Completion), NEW b
  PROVE  Named(b, s \o t) <=> Named(b, s) \/ Named(b, t)
<1> DEFINE w == s \o t
<1>1. /\ w \in Seq(Completion) /\ Len(w) = Len(s) + Len(t)
      /\ DOMAIN w = 1 .. Len(s) + Len(t)
      /\ \A i \in 1 .. Len(s) : w[i] = s[i]
      /\ \A i \in 1 .. Len(t) : w[Len(s) + i] = t[i]
  BY ConcatIn
<1>2. /\ DOMAIN s = 1 .. Len(s) /\ DOMAIN t = 1 .. Len(t)
      /\ Len(s) \in Nat /\ Len(t) \in Nat
  OBVIOUS
<1> HIDE DEF w
<1>3. ASSUME NEW i \in DOMAIN w, w[i].id = b PROVE Named(b, s) \/ Named(b, t)
  <2>1. CASE i <= Len(s)
    <3>1. i \in DOMAIN s BY <1>1, <1>2, <1>3, <2>1
    <3>2. QED BY <1>1, <1>2, <1>3, <3>1 DEF Named
  <2>2. CASE ~(i <= Len(s))
    <3>1. i - Len(s) \in 1 .. Len(t) /\ Len(s) + (i - Len(s)) = i
      BY <1>1, <1>2, <1>3, <2>2
    <3>2. t[i - Len(s)].id = b BY <1>1, <1>3, <3>1
    <3>3. QED BY <1>2, <3>1, <3>2 DEF Named
  <2>3. QED BY <2>1, <2>2
<1>4. ASSUME NEW i \in DOMAIN s, s[i].id = b PROVE Named(b, w)
  <2>1. i \in DOMAIN w /\ w[i].id = b BY <1>1, <1>2, <1>4
  <2>2. QED BY <2>1 DEF Named
<1>5. ASSUME NEW i \in DOMAIN t, t[i].id = b PROVE Named(b, w)
  <2>1. Len(s) + i \in DOMAIN w /\ w[Len(s) + i].id = b BY <1>1, <1>2, <1>5
  <2>2. QED BY <2>1 DEF Named
<1>6. Named(b, w) <=> Named(b, s) \/ Named(b, t)
  BY <1>3, <1>4, <1>5 DEF Named
<1>7. QED BY <1>6 DEF w

\* PollRecvCq: what array and queue are when its next entry was taken, whether
\* the array was filled again or not.
LEMMA AfterPollIs ==
  ASSUME NEW s \in Seq(Completion), NEW t \in Seq(Completion), CanPoll(s, t)
  PROVE  LET s2 == AfterPoll(s, t).cached
             t2 == AfterPoll(s, t).cq
         IN  /\ s2 \in Seq(Completion) /\ t2 \in Seq(Completion)
             /\ s \o t # <<>> /\ NextWc(s, t) = (s \o t)[1]
             /\ Len(s2) + Len(t2) + 1 = Len(s) + Len(t)
             /\ \A i \in 1 .. Len(s2) : s2[i] = (s \o t)[i + 1]
             /\ \A i \in 1 .. Len(t2) : t2[i] = (s \o t)[Len(s2) + i + 1]
<1> DEFINE s2 == AfterPoll(s, t).cached
<1> DEFINE t2 == AfterPoll(s, t).cq
<1> DEFINE w == s \o t
<1>1. /\ w \in Seq(Completion) /\ Len(w) = Len(s) + Len(t)
      /\ DOMAIN w = 1 .. Len(s) + Len(t)
      /\ \A i \in 1 .. Len(s) : w[i] = s[i]
      /\ \A i \in 1 .. Len(t) : w[Len(s) + i] = t[i]
  BY ConcatIn
<1>2. Len(s) \in Nat /\ Len(t) \in Nat OBVIOUS
<1> HIDE DEF w
<1> SUFFICES /\ s2 \in Seq(Completion) /\ t2 \in Seq(Completion)
             /\ w # <<>> /\ NextWc(s, t) = w[1]
             /\ Len(s2) + Len(t2) + 1 = Len(s) + Len(t)
             /\ \A i \in 1 .. Len(s2) : s2[i] = w[i + 1]
             /\ \A i \in 1 .. Len(t2) : t2[i] = w[Len(s2) + i + 1]
  BY DEF w
<1>3. CASE s # <<>>
  <2>1. s2 = Tail(s) /\ t2 = t BY <1>3 DEF AfterPoll
  <2>2. /\ Head(s) = s[1] /\ Len(s) >= 1
        /\ Tail(s) \in Seq(Completion) /\ Len(Tail(s)) = Len(s) - 1
        /\ \A i \in 1 .. Len(s) - 1 : Tail(s)[i] = s[i + 1]
    BY <1>3, HeadTailProperties
  <2>3. w # <<>> BY <1>1, <1>2, <2>2
  <2>4. NextWc(s, t) = w[1] BY <1>1, <1>2, <1>3, <2>2 DEF NextWc
  <2>5. \A i \in 1 .. Len(s2) : s2[i] = w[i + 1] BY <1>1, <1>2, <2>1, <2>2
  <2>6. \A i \in 1 .. Len(t2) : t2[i] = w[Len(s2) + i + 1]
    BY <1>1, <1>2, <2>1, <2>2
  <2>7. QED BY <1>2, <2>1, <2>2, <2>3, <2>4, <2>5, <2>6
<1>4. CASE s = <<>>
  <2> DEFINE n == Smaller(MaxWc, Len(t))
  <2>1. t # <<>> /\ Len(s) = 0 BY <1>4 DEF CanPoll
  <2>2. Len(t) >= 1 /\ Head(t) = t[1] BY <2>1, HeadTailProperties
  <2>3. n \in 1 .. Len(t)
    BY <1>2, <2>2, ReceiveQueueAssumption DEF Smaller
  <2>4. s2 = SubSeq(t, 2, n) /\ t2 = SubSeq(t, n + 1, Len(t))
    BY <1>4 DEF AfterPoll, Refill
  <2> HIDE DEF n
  <2>5. \A i \in 2 .. n : i \in 1 .. Len(t) BY <1>2, <2>3
  <2>6. \A i \in n + 1 .. Len(t) : i \in 1 .. Len(t) BY <1>2, <2>3
  <2>7. /\ s2 \in Seq(Completion) /\ Len(s2) = n - 1
        /\ \A i \in 1 .. n - 1 : s2[i] = t[i + 1]
    BY <1>2, <2>3, <2>4, <2>5
  <2>8. /\ t2 \in Seq(Completion) /\ Len(t2) = Len(t) - n
        /\ \A i \in 1 .. Len(t) - n : t2[i] = t[n + i]
    BY <1>2, <2>3, <2>4, <2>6
  <2>9. \A i \in 1 .. Len(t) : w[i] = t[i] BY <1>1, <2>1
  <2>10. w # <<>> BY <1>1, <1>2, <2>1, <2>2
  <2>11. NextWc(s, t) = w[1] BY <1>2, <1>4, <2>2, <2>9 DEF NextWc
  <2>12. Len(s2) + Len(t2) + 1 = Len(s) + Len(t)
    BY <1>2, <2>1, <2>3, <2>7, <2>8
  <2>13. \A i \in 1 .. Len(s2) : s2[i] = w[i + 1]
    BY <1>2, <2>3, <2>7, <2>9
  <2>14. \A i \in 1 .. Len(t2) : t2[i] = w[Len(s2) + i + 1]
    BY <1>2, <2>3, <2>7, <2>8, <2>9
  <2>15. QED BY <2>7, <2>8, <2>10, <2>11, <2>12, <2>13, <2>14
<1>5. QED BY <1>3, <1>4

-----------------------------------------------------------------------------
(* The steps *)

\* The initial state satisfies the invariant: all buffers are posted.
LEMMA InitInv == Init => IInv
<1> SUFFICES ASSUME Init PROVE IInv OBVIOUS
<1>1. BaseInv /\ LiveBytes BY BaseInitInv DEF Init
<1>2. /\ recvs = [i \in 1 .. Inflight |-> i - 1] /\ batch = <<>>
      /\ cq = <<>> /\ cached = <<>> /\ broken = FALSE
      /\ read = landed
  BY DEF Init, RQInit, BaseInit
<1>3. /\ recvs \in Seq(Buffers) /\ Len(recvs) = Inflight
      /\ \A b \in Buffers : In(b, recvs)
  <2>1. Inflight \in Nat BY ReceiveQueueAssumption
  <2>2. recvs \in [1 .. Inflight -> Buffers] BY <1>2, <2>1 DEF Buffers
  <2>3. recvs \in Seq(Buffers) /\ Len(recvs) = Inflight BY <2>1, <2>2, SeqDef
  <2>4. ASSUME NEW b \in Buffers PROVE In(b, recvs)
    <3>1. b + 1 \in DOMAIN recvs /\ recvs[b + 1] = b
      BY <1>2, <2>1, <2>4 DEF Buffers
    <3>2. QED BY <3>1 DEF In
  <2>5. QED BY <2>3, <2>4
<1>4. TypeOK
  <2>1. batch \in Seq(Buffers) /\ Len(batch) < Batch
    BY <1>2, ReceiveQueueAssumption
  <2>2. cq \in Seq(Completion) /\ cached \in Seq(Completion) BY <1>2
  <2>3. QED BY <1>1, <1>2, <1>3, <2>1, <2>2 DEF TypeOK, RQTypeOK, BaseInv
<1>5. BuffersConserved
  <2>1. Len(Owned) = Inflight
    <3>1. Len(cq) = 0 /\ Len(cached) = 0 /\ Len(batch) = 0 BY <1>2
    <3>2. QED BY <1>3, <1>4, <3>1, OwnedIn, ReceiveQueueAssumption
  <2>2. \A b \in Buffers : In(b, Owned) BY <1>3, <1>4, OwnedIn
  <2>3. QED BY <2>1, <2>2 DEF BuffersConserved, In
<1>6. Waiting = <<>> BY <1>2 DEF Waiting
<1>7. InTurn /\ InOrder BY <1>2, <1>6 DEF InTurn, InOrder
<1>8. QED BY <1>1, <1>4, <1>5, <1>7 DEF IInv

\* Steps that leave the buffers and completions alone, and with them what the
\* completions speak of.
LEMMA ImmKept ==
  ASSUME IInv, BaseInv', LiveBytes', UNCHANGED <<rqVars, cq, cached>>,
         broken' \in BOOLEAN, UNCHANGED <<landed, read>>,
         \A p \in DOMAIN msg : p \in DOMAIN msg' /\ msg'[p] = msg[p]
  PROVE  IInv'
<1> USE DEF rqVars
<1>1. TypeOK' BY DEF IInv, TypeOK, RQTypeOK, BaseInv
<1>2. BuffersConserved' BY DEF IInv, BuffersConserved, Owned
<1>3. Waiting' = Waiting BY DEF Waiting
<1>4. InTurn' BY <1>3 DEF IInv, InTurn
<1>5. InOrder' BY <1>3 DEF IInv, InOrder
<1>6. QED BY <1>1, <1>2, <1>4, <1>5 DEF IInv

\* Steps of the sender that only move its control or its cached head.
LEMMA QuietStep ==
  ASSUME IInv, BaseInv', UNCHANGED <<wireVars, rcvVars, mem>>,
         UNCHANGED <<rqVars, cq, cached>>, broken' \in BOOLEAN
  PROVE  IInv'
<1> USE DEF wireVars, rcvVars
<1>1. freed' \in Nat /\ freed <= freed' BY PlaceFacts DEF IInv
<1>2. LiveBytes' BY <1>1, LiveBytesKept DEF IInv
<1>3. QED BY <1>2, ImmKept

\* A call starts.
LEMMA SendStartInv ==
  ASSUME ShortCalls, IInv, SendStart
  PROVE  IInv'
<1>1. PICK c \in Calls : SendAsync(c) BY DEF SendStart
<1>2. BaseInv' BY <1>1, SendAsyncInv DEF IInv
<1>3. broken' \in BOOLEAN BY DEF SendStart, immVars, IInv, TypeOK
<1>4. QED BY <1>1, <1>2, <1>3, QuietStep DEF SendStart, SendAsync, immVars

\* GetWriteAddr asks for the head.
LEMMA SendGetInv ==
  ASSUME IInv, SendGet
  PROVE  IInv'
<1>1. BaseInv' BY NeedHeadInv DEF IInv, SendGet
<1>2. broken' \in BOOLEAN BY DEF SendGet, immVars, IInv, TypeOK
<1>3. QED BY <1>1, <1>2, QuietStep DEF SendGet, NeedHead, immVars

\* UpdateHead: the cached head catches up with the one that was fetched.
LEMMA SendUpdateInv ==
  ASSUME IInv, SendUpdate
  PROVE  IInv'
<1>1. BaseInv' BY UpdateHeadInv DEF IInv, SendUpdate
<1>2. broken' \in BOOLEAN BY DEF SendUpdate, immVars, IInv, TypeOK
<1>3. QED BY <1>1, <1>2, QuietStep DEF SendUpdate, UpdateHead, immVars

\* AckReceiver::Get: the head is read, or taken from what was sent.
LEMMA GetHeadInv ==
  ASSUME IInv, GetHead
  PROVE  IInv'
<1>1. (AckRead \/ AckPoll) /\ UNCHANGED immVars BY DEF GetHead
<1>2. BaseInv' BY <1>1, AckReadInv, AckPollInv DEF IInv
<1>3. broken' \in BOOLEAN BY <1>1 DEF immVars, IInv, TypeOK
<1>4. UNCHANGED <<wireVars, rcvVars, mem>> BY <1>1 DEF AckRead, AckPoll
<1>5. UNCHANGED <<rqVars, cq, cached>> BY <1>1 DEF immVars
<1>6. QED BY <1>2, <1>3, <1>4, <1>5, QuietStep

\* On a broken connection SendAsync returns with an error: what the call
\* reserved stays reserved, and all of the invariant with it.
LEMMA SendFailInv ==
  ASSUME IInv, SendFail
  PROVE  IInv'
<1>1. /\ spc = "get" /\ spc' = "idle" /\ todo' = <<>>
      /\ UNCHANGED <<sndHead, sndTail, sndFull, reply, written, known, replyPos>>
      /\ UNCHANGED <<wireVars, rcvVars, mem, ackQ, immVars>>
  BY DEF SendFail
<1>2. BaseInv'
  <2> USE <1>1 DEF IInv, BaseInv, wireVars, rcvVars
  <2>1. BaseTypeOK' BY DEF BaseTypeOK
  <2>2. sndFull' = FALSE /\ todo' \in Seq(1 .. Length - 1) OBVIOUS
  <2>3. OffsetsMatch' BY DEF OffsetsMatch
  <2>4. PlacesOrdered' BY DEF PlacesOrdered
  <2>5. RegionsTile' BY DEF RegionsTile, Boundaries
  <2>6. CallUnderWay' BY DEF CallUnderWay
  <2>7. HeldAhead' BY DEF HeldAhead
  <2>8. AcksApart' BY DEF AcksApart
  <2>9. QED BY <2>1, <2>2, <2>3, <2>4, <2>5, <2>6, <2>7, <2>8
<1>3. broken' \in BOOLEAN BY <1>1 DEF immVars, IInv, TypeOK
<1>4. QED BY <1>1, <1>2, <1>3, QuietStep DEF immVars

\* A write finds the receiver not ready: nothing but the connection changes.
LEMMA BreakInv ==
  ASSUME IInv, Break
  PROVE  IInv'
<1>1. UNCHANGED <<sndVars, wireVars, rcvVars, ackQ, mem, rqVars, cq, cached>>
  BY DEF Break, baseVars
<1>2. mem' \in [Offsets -> Nat \cup {-1}]
  BY <1>1 DEF IInv, BaseInv, BaseTypeOK
<1>3. BaseInv' BY <1>1, <1>2, BaseKept DEF IInv
<1>4. broken' \in BOOLEAN BY DEF Break
<1>5. QED BY <1>1, <1>3, <1>4, QuietStep

\* Every region is reserved: the call is posted.
LEMMA PostInv ==
  ASSUME IInv, Post
  PROVE  IInv'
<1>1. PostCall /\ UNCHANGED immVars BY DEF Post
<1>2. BaseInv' BY <1>1, PostCallInv DEF IInv
<1>3. UNCHANGED <<mem, landed, freed, read, msg>> BY <1>1 DEF PostCall, rcvVars
<1>4. LiveBytes'
  <2>1. freed' \in Nat /\ freed <= freed' BY <1>3, PlaceFacts DEF IInv
  <2>2. QED BY <1>3, <2>1, LiveBytesKept DEF IInv
<1>5. broken' \in BOOLEAN BY <1>1 DEF immVars, IInv, TypeOK
<1>6. QED BY <1>1, <1>2, <1>3, <1>4, <1>5, ImmKept DEF immVars

\* Reserve: the tiling grows, and no message announced changes.
LEMMA SendRegionInv ==
  ASSUME IInv, SendRegion
  PROVE  IInv'
<1>1. Reserve /\ UNCHANGED immVars BY DEF SendRegion
<1>2. BaseInv' BY <1>1, ReserveInv DEF IInv
<1>3. UNCHANGED <<mem, landed, freed, read>> BY <1>1 DEF Reserve, rcvVars
<1>4. LiveBytes'
  <2>1. freed' \in Nat /\ freed <= freed' BY <1>3, PlaceFacts DEF IInv
  <2>2. QED BY <1>3, <2>1, LiveBytesKept DEF IInv
<1>5. \A p \in DOMAIN msg : p \in DOMAIN msg' /\ msg'[p] = msg[p]
  <2>1. \A p \in DOMAIN msg : p # written
    <3>1. \A p \in DOMAIN msg : p < written BY DEF IInv, BaseInv, RegionsTile
    <3>2. written \in Nat BY PlaceFacts DEF IInv
    <3>3. QED BY <3>1, <3>2
  <2>2. QED BY <1>1, <2>1 DEF Reserve
<1>6. broken' \in BOOLEAN BY <1>1 DEF immVars, IInv, TypeOK
<1>7. QED BY <1>1, <1>2, <1>3, <1>4, <1>5, <1>6, ImmKept DEF immVars

\* Free moves the head forward to the oldest region still held.
LEMMA FreeStartInv ==
  ASSUME IInv, FreeStart
  PROVE  IInv'
<1>1. PICK k \in DOMAIN outstanding : FreeRegion(k) BY DEF FreeStart
<1>2. UNCHANGED immVars BY DEF FreeStart
<1>3. UNCHANGED <<mem, landed, read, msg>> BY <1>1 DEF FreeRegion, wireVars
<1>4. BaseInv' /\ freed <= freed' BY <1>1, FreeRegionInv DEF IInv
<1>5. LiveBytes'
  <2>1. freed' \in Nat BY <1>4 DEF BaseInv, BaseTypeOK
  <2>2. QED BY <1>3, <1>4, <2>1, LiveBytesKept DEF IInv
<1>6. broken' \in BOOLEAN BY <1>2 DEF immVars, IInv, TypeOK
<1>7. QED BY <1>2, <1>3, <1>4, <1>5, <1>6, ImmKept DEF immVars

\* Ack publishes the head; Flush, if due, sends it.
LEMMA FreeAckInv ==
  ASSUME IInv, FreeAck
  PROVE  IInv'
<1>1. Acknowledge /\ UNCHANGED immVars BY DEF FreeAck
<1>2. BaseInv' BY <1>1, AcknowledgeInv DEF IInv
<1>3. UNCHANGED <<mem, landed, read, msg, freed>>
  BY <1>1 DEF Acknowledge, wireVars
<1>4. LiveBytes'
  <2>1. freed' \in Nat /\ freed <= freed' BY <1>3, PlaceFacts DEF IInv
  <2>2. QED BY <1>3, <2>1, LiveBytesKept DEF IInv
<1>5. broken' \in BOOLEAN BY <1>1 DEF immVars, IInv, TypeOK
<1>6. QED BY <1>1, <1>2, <1>3, <1>4, <1>5, ImmKept DEF immVars

\* The first element and the others of a sequence.
LEMMA HeadAndTail ==
  ASSUME NEW S, NEW s \in Seq(S), s # <<>>
  PROVE  /\ Head(s) \in S /\ Tail(s) \in Seq(S) /\ Len(Tail(s)) + 1 = Len(s)
         /\ \A b : In(b, s) <=> In(b, Tail(s)) \/ b = Head(s)
<1>1. /\ Head(s) = s[1] /\ Head(s) \in S /\ Len(s) >= 1
      /\ Tail(s) \in Seq(S) /\ Len(Tail(s)) = Len(s) - 1
      /\ \A i \in 1 .. Len(s) - 1 : Tail(s)[i] = s[i + 1]
  BY HeadTailProperties
<1>2. /\ DOMAIN s = 1 .. Len(s) /\ Len(s) \in Nat
      /\ DOMAIN Tail(s) = 1 .. Len(s) - 1
  BY <1>1
<1> DEFINE rest == Tail(s)
<1> HIDE DEF rest
<1>3. ASSUME NEW b PROVE In(b, s) <=> In(b, rest) \/ b = s[1]
  <2>1. ASSUME NEW i \in DOMAIN s, s[i] = b, i # 1 PROVE In(b, rest)
    <3>1. i - 1 \in 1 .. Len(s) - 1 /\ (i - 1) + 1 = i BY <1>2, <2>1
    <3>2. rest[i - 1] = b BY <1>1, <2>1, <3>1 DEF rest
    <3>3. i - 1 \in DOMAIN rest BY <1>2, <3>1 DEF rest
    <3>4. QED BY <3>2, <3>3 DEF In
  <2>2. ASSUME NEW i \in DOMAIN rest, rest[i] = b PROVE In(b, s)
    <3>1. i + 1 \in DOMAIN s /\ s[i + 1] = b BY <1>1, <1>2, <2>2 DEF rest
    <3>2. QED BY <3>1 DEF In
  <2>3. In(s[1], s) BY <1>1, <1>2 DEF In
  <2>4. QED BY <2>1, <2>2, <2>3 DEF In
<1>4. QED BY <1>1, <1>2, <1>3 DEF rest

\* A completion is appended to those that wait.
LEMMA AppendWaits ==
  ASSUME NEW s \in Seq(Completion), NEW t \in Seq(Completion),
         NEW wc \in Completion
  PROVE  /\ Append(t, wc) \in Seq(Completion)
         /\ s \o t \in Seq(Completion) /\ s \o Append(t, wc) \in Seq(Completion)
         /\ Len(Append(t, wc)) = Len(t) + 1
         /\ Len(s \o Append(t, wc)) = Len(s \o t) + 1
         /\ \A i \in 1 .. Len(s \o t) : (s \o Append(t, wc))[i] = (s \o t)[i]
         /\ (s \o Append(t, wc))[Len(s \o t) + 1] = wc
         /\ \A b : Named(b, Append(t, wc)) <=> Named(b, t) \/ b = wc.id
<1> DEFINE u == Append(t, wc)
<1>1. /\ u \in Seq(Completion) /\ Len(u) = Len(t) + 1
      /\ \A i \in 1 .. Len(t) : u[i] = t[i]
      /\ u[Len(t) + 1] = wc
      /\ DOMAIN u = 1 .. Len(t) + 1 /\ DOMAIN t = 1 .. Len(t)
      /\ Len(t) \in Nat /\ Len(s) \in Nat
  OBVIOUS
<1> HIDE DEF u
<1> DEFINE v == s \o t
<1> DEFINE w == s \o u
<1>2. /\ v \in Seq(Completion) /\ Len(v) = Len(s) + Len(t)
      /\ \A i \in 1 .. Len(s) : v[i] = s[i]
      /\ \A i \in 1 .. Len(t) : v[Len(s) + i] = t[i]
  BY ConcatIn
<1>3. /\ w \in Seq(Completion) /\ Len(w) = Len(s) + Len(u)
      /\ \A i \in 1 .. Len(s) : w[i] = s[i]
      /\ \A i \in 1 .. Len(u) : w[Len(s) + i] = u[i]
  <2>1. u \in Seq(Completion) BY <1>1
  <2>2. s \in Seq(Completion) OBVIOUS
  <2>3. QED BY ONLY <2>1, <2>2, ConcatIn
<1> HIDE DEF v, w
<1>4. ASSUME NEW i \in 1 .. Len(v) PROVE w[i] = v[i]
  <2>1. CASE i <= Len(s) BY <1>1, <1>2, <1>3, <1>4, <2>1
  <2>2. CASE ~(i <= Len(s))
    <3>1. i - Len(s) \in 1 .. Len(t) /\ Len(s) + (i - Len(s)) = i
      BY <1>1, <1>2, <1>4, <2>2
    <3>2. v[i] = t[i - Len(s)] BY <1>2, <3>1
    <3>3. i - Len(s) \in 1 .. Len(u) BY <1>1, <3>1
    <3>4. w[i] = u[i - Len(s)] BY <1>3, <3>1, <3>3
    <3>5. QED BY <1>1, <3>1, <3>2, <3>4
  <2>3. QED BY <2>1, <2>2
<1>5. Len(w) = Len(v) + 1 BY <1>1, <1>2, <1>3
<1>6. w[Len(v) + 1] = wc
  <2>1. Len(t) + 1 \in 1 .. Len(u) BY <1>1
  <2>2. w[Len(s) + (Len(t) + 1)] = wc BY <1>1, <1>3, <2>1
  <2>3. Len(s) + (Len(t) + 1) = Len(v) + 1 BY <1>1, <1>2
  <2>4. QED BY <2>2, <2>3
<1>7. ASSUME NEW b PROVE Named(b, u) <=> Named(b, t) \/ b = wc.id
  <2>1. ASSUME NEW i \in DOMAIN u, u[i].id = b PROVE Named(b, t) \/ b = wc.id
    BY <1>1, <2>1 DEF Named
  <2>2. ASSUME NEW i \in DOMAIN t, t[i].id = b PROVE Named(b, u)
    <3>1. i \in DOMAIN u /\ u[i].id = b BY <1>1, <2>2
    <3>2. QED BY <3>1 DEF Named
  <2>3. Named(wc.id, u)
    <3>1. Len(t) + 1 \in DOMAIN u BY <1>1
    <3>2. QED BY <1>1, <3>1 DEF Named
  <2>4. QED BY <2>1, <2>2, <2>3 DEF Named
<1>8. QED BY <1>1, <1>2, <1>3, <1>4, <1>5, <1>6, <1>7 DEF u, v, w

\* A message lands: the buffer posted first goes into its completion, which is
\* the last of those that wait, as the message is the last in the ring.
LEMMA LandInv ==
  ASSUME IInv, Land
  PROVE  IInv'
<1> DEFINE wc == [id |-> Head(recvs), len |-> msg[landed].len, pos |-> landed]
<1>1. /\ LandWrite /\ landed < posted /\ recvs # <<>>
      /\ recvs' = Tail(recvs) /\ batch' = batch /\ cached' = cached
      /\ cq' = Append(cq, wc) /\ broken' = broken
      /\ UNCHANGED <<msg, read>>
  BY DEF Land, LandWrite, Consume, rcvVars
<1>2. /\ TypeOK /\ BaseInv /\ LiveBytes /\ BuffersConserved /\ InTurn /\ InOrder
      /\ recvs \in Seq(Buffers) /\ batch \in Seq(Buffers)
      /\ cq \in Seq(Completion) /\ cached \in Seq(Completion)
  BY DEF IInv, TypeOK, RQTypeOK
<1>3. BaseInv' /\ LiveBytes' /\ landed' = landed + msg[landed].len
  BY <1>1, <1>2, LandWriteInv
<1>4. /\ Head(recvs) \in Buffers /\ Tail(recvs) \in Seq(Buffers)
      /\ Len(Tail(recvs)) + 1 = Len(recvs)
      /\ \A b : In(b, recvs) <=> In(b, Tail(recvs)) \/ b = Head(recvs)
  BY <1>1, <1>2, HeadAndTail
<1>5. /\ wc \in Completion /\ wc.id = Head(recvs) /\ wc.pos = landed
      /\ wc.len = msg[landed].len /\ landed \in DOMAIN msg
      /\ landed \in Nat /\ wc.len \in Nat
  <2>1. /\ landed \in DOMAIN msg /\ msg[landed].len \in Nat \ {0}
        /\ landed + msg[landed].len < known + Length
    BY <1>1, <1>2, LandsWithin
  <2>2. landed \in Nat /\ known \in Nat /\ known <= landed BY <1>2, PlaceFacts
  <2>3. msg[landed].len \in 1 .. Length - 1
    BY <2>1, <2>2, LengthAssumption
  <2>4. QED BY <1>4, <2>1, <2>2, <2>3 DEF Completion
<1> HIDE DEF wc
<1> DEFINE n == Len(Waiting)
<1>6. /\ cq' \in Seq(Completion) /\ Len(cq') = Len(cq) + 1
      /\ Waiting \in Seq(Completion) /\ Waiting' \in Seq(Completion)
      /\ Len(Waiting') = n + 1
      /\ \A i \in 1 .. n : Waiting'[i] = Waiting[i]
      /\ Waiting'[n + 1] = wc
      /\ \A b : Named(b, cq') <=> Named(b, cq) \/ b = wc.id
  <2>1. Waiting = cached \o cq /\ Waiting' = cached \o Append(cq, wc)
    BY <1>1 DEF Waiting
  <2>2. QED BY <1>1, <1>2, <1>5, <2>1, AppendWaits
<1>7. /\ n \in Nat /\ DOMAIN Waiting = 1 .. n /\ DOMAIN Waiting' = 1 .. n + 1
      /\ (n = 0 <=> Waiting = <<>>) /\ Waiting' # <<>>
  <2>1. n \in Nat /\ DOMAIN Waiting = 1 .. n /\ (n = 0 <=> Waiting = <<>>)
    BY <1>6
  <2>2. DOMAIN Waiting' = 1 .. Len(Waiting') BY <1>6
  <2>3. Waiting' # <<>> BY <1>6, <2>1
  <2>4. QED BY <1>6, <2>1, <2>2, <2>3
<1> HIDE DEF n
<1>8. TypeOK'
  BY <1>1, <1>2, <1>3, <1>4, <1>6 DEF TypeOK, RQTypeOK, BaseInv
<1>9. BuffersConserved'
  <2>1. /\ Len(recvs) \in Nat /\ Len(cq) \in Nat /\ Len(Tail(recvs)) \in Nat
        /\ Len(cached) \in Nat /\ Len(batch) \in Nat
    BY <1>2, <1>4
  <2>2. Len(recvs') + Len(cq') + Len(cached') + Len(batch')
          = Len(recvs) + Len(cq) + Len(cached) + Len(batch)
    BY <1>1, <1>4, <1>6, <2>1
  <2>3. \A b : In(b, recvs) \/ Named(b, cq) \/ Named(b, cached) \/ In(b, batch)
                 => \/ In(b, recvs') \/ Named(b, cq')
                    \/ Named(b, cached') \/ In(b, batch')
    BY <1>1, <1>4, <1>5, <1>6
  <2>4. QED BY <1>2, <1>8, <2>2, <2>3, BuffersKept
<1>10. /\ \A i \in 1 .. n : EndOf(Waiting[i]) =
                              IF i = n THEN landed ELSE Waiting[i + 1].pos
       /\ \A i \in 1 .. n : /\ Waiting[i].pos \in DOMAIN msg
                            /\ Waiting[i].len = msg[Waiting[i].pos].len
       /\ read = IF n = 0 THEN landed ELSE Waiting[1].pos
       /\ \A i, j \in 1 .. n : i < j => EndOf(Waiting[i]) <= Waiting[j].pos
  BY <1>2, <1>7 DEF InTurn, InOrder, n
<1>11. ASSUME NEW i \in 1 .. n PROVE EndOf(Waiting[i]) <= landed
  <2>1. CASE i = n BY <1>5, <1>7, <1>10, <1>11, <2>1
  <2>2. CASE i # n
    <3>1. n \in 1 .. n /\ i < n BY <1>7, <1>11, <2>2
    <3>2. EndOf(Waiting[i]) <= Waiting[n].pos BY <1>10, <3>1
    <3>3. /\ Waiting[n].pos \in Nat /\ Waiting[n].len \in Nat
          /\ Waiting[i].pos \in Nat /\ Waiting[i].len \in Nat
      BY <1>2, <1>10, <3>1, RegionFacts
    <3>4. Waiting[n].pos + Waiting[n].len = landed BY <1>10, <3>1 DEF EndOf
    <3>5. QED BY <1>5, <3>2, <3>3, <3>4 DEF EndOf
  <2>3. QED BY <2>1, <2>2
<1>12. EndOf(wc) = landed' BY <1>3, <1>5 DEF EndOf
<1>13. InTurn'
  <2>1. read' = Waiting'[1].pos
    <3>1. CASE n = 0 BY <1>1, <1>5, <1>6, <1>10, <3>1
    <3>2. CASE n # 0
      <4>1. 1 \in 1 .. n BY <1>7, <3>2
      <4>2. QED BY <1>1, <1>6, <1>10, <3>2, <4>1
    <3>3. QED BY <3>1, <3>2
  <2>2. ASSUME NEW i \in 1 .. n + 1
        PROVE  /\ Waiting'[i].pos \in DOMAIN msg'
               /\ Waiting'[i].len = msg'[Waiting'[i].pos].len
               /\ EndOf(Waiting'[i]) = (IF i = n + 1 THEN landed'
                                        ELSE Waiting'[i + 1].pos)
    <3>1. CASE i = n + 1 BY <1>1, <1>5, <1>6, <1>12, <3>1
    <3>2. CASE i = n
      <4>1. i \in 1 .. n /\ i # n + 1 BY <1>7, <2>2, <3>2
      <4>2. EndOf(Waiting[i]) = landed BY <1>10, <3>2, <4>1
      <4>3. Waiting'[i] = Waiting[i] /\ Waiting'[i + 1].pos = landed
        BY <1>5, <1>6, <3>2, <4>1
      <4>4. QED BY <1>1, <1>10, <4>1, <4>2, <4>3
    <3>3. CASE i < n
      <4>1. i \in 1 .. n /\ i # n + 1 /\ i # n /\ i + 1 \in 1 .. n
        BY <1>7, <2>2, <3>3
      <4>2. Waiting'[i] = Waiting[i] /\ Waiting'[i + 1] = Waiting[i + 1]
        BY <1>6, <4>1
      <4>3. QED BY <1>1, <1>10, <4>1, <4>2
    <3>4. QED BY <1>7, <2>2, <3>1, <3>2, <3>3
  <2>3. QED BY <1>6, <1>7, <2>1, <2>2 DEF InTurn
<1>14. InOrder'
  <2>1. ASSUME NEW i \in 1 .. n + 1, NEW j \in 1 .. n + 1, i < j
        PROVE  EndOf(Waiting'[i]) <= Waiting'[j].pos
    <3>1. i \in 1 .. n BY <1>7, <2>1
    <3>2. CASE j = n + 1 BY <1>5, <1>6, <1>11, <3>1, <3>2
    <3>3. CASE j # n + 1
      <4>1. j \in 1 .. n BY <1>7, <2>1, <3>3
      <4>2. QED BY <1>6, <1>10, <2>1, <3>1, <4>1
    <3>4. QED BY <3>2, <3>3
  <2>2. QED BY <1>7, <2>1 DEF InOrder
<1>15. QED BY <1>3, <1>8, <1>9, <1>13, <1>14 DEF IInv

\* The first completion is that of the region at the read pointer, which has
\* landed.
LEMMA ReceivesNext ==
  ASSUME IInv, Receive
  PROVE  /\ read \in DOMAIN msg /\ read + msg[read].len <= landed
         /\ NextWc(cached, cq).len = msg[read].len
         /\ ReadRegion(msg[read].len)
<1> DEFINE n == Len(Waiting)
<1> DEFINE wc == NextWc(cached, cq)
<1>1. /\ CanPoll(cached, cq) /\ ReadRegion(wc.len)
      /\ cq \in Seq(Completion) /\ cached \in Seq(Completion)
      /\ BaseInv /\ InTurn /\ InOrder
  BY DEF Receive, IInv, TypeOK
<1> HIDE DEF wc
<1>2. Waiting # <<>> /\ wc = Waiting[1]
  <2> DEFINE w == cached \o cq
  <2>1. w # <<>> /\ NextWc(cached, cq) = w[1] BY ONLY <1>1, AfterPollIs
  <2>2. QED BY <2>1 DEF Waiting, wc
<1>3. DOMAIN Waiting = 1 .. n /\ n \in Nat /\ n >= 1
  <2>1. Waiting \in Seq(Completion) BY <1>1, ConcatIn DEF Waiting
  <2>2. QED BY <1>2, <2>1
<1> HIDE DEF n
<1>4. /\ \A i \in 1 .. n : /\ EndOf(Waiting[i]) =
                                IF i = n THEN landed ELSE Waiting[i + 1].pos
                           /\ Waiting[i].pos \in DOMAIN msg
                           /\ Waiting[i].len = msg[Waiting[i].pos].len
      /\ read = Waiting[1].pos
      /\ \A i, j \in 1 .. n : i < j => EndOf(Waiting[i]) <= Waiting[j].pos
  BY <1>1, <1>2, <1>3 DEF InTurn, InOrder, n
<1>5. /\ read \in DOMAIN msg /\ wc.len = msg[read].len
      /\ EndOf(Waiting[1]) = read + wc.len
      /\ read \in Nat /\ wc.len \in Nat /\ landed \in Nat
  <2>1. 1 \in 1 .. n BY <1>3
  <2>2. read \in DOMAIN msg /\ wc.len = msg[read].len /\ wc.pos = read
    BY <1>2, <1>4, <2>1
  <2>3. read \in Nat /\ wc.len \in Nat /\ landed \in Nat
    BY <1>1, <2>2, PlaceFacts, RegionFacts
  <2>4. EndOf(wc) = read + wc.len BY <2>2 DEF EndOf
  <2>5. QED BY <1>2, <2>2, <2>3, <2>4
<1>6. read + wc.len <= landed
  <2>1. CASE n = 1
    <3>1. 1 \in 1 .. n BY <2>1
    <3>2. EndOf(Waiting[1]) = landed BY <1>4, <2>1, <3>1
    <3>3. QED BY <1>5, <3>2
  <2>2. CASE n # 1
    <3>1. 1 \in 1 .. n /\ n \in 1 .. n /\ 1 < n BY <1>3, <2>2
    <3>2. EndOf(Waiting[1]) <= Waiting[n].pos BY <1>4, <3>1
    <3>3. Waiting[n].pos + Waiting[n].len = landed BY <1>4, <3>1 DEF EndOf
    <3>4. Waiting[n].pos \in Nat /\ Waiting[n].len \in Nat
      BY <1>1, <1>4, <3>1, RegionFacts
    <3>5. QED BY <1>5, <3>2, <3>3, <3>4
  <2>3. QED BY <2>1, <2>2
<1>7. QED BY <1>1, <1>5, <1>6 DEF wc

\* Receive takes the oldest completion, which is that of the message at the
\* read pointer, gives its buffer to PostMR and reads the message.
LEMMA ReceiveInv ==
  ASSUME IInv, Receive
  PROVE  IInv'
<1> DEFINE wc == NextWc(cached, cq)
<1>1. /\ CanPoll(cached, cq)
      /\ cached' = AfterPoll(cached, cq).cached
      /\ cq' = AfterPoll(cached, cq).cq
      /\ PostMR(wc.id) /\ ReadRegion(wc.len) /\ broken' = broken
  BY DEF Receive
<1>2. /\ TypeOK /\ BaseInv /\ LiveBytes /\ BuffersConserved /\ InTurn /\ InOrder
      /\ recvs \in Seq(Buffers) /\ batch \in Seq(Buffers)
      /\ cq \in Seq(Completion) /\ cached \in Seq(Completion)
  BY DEF IInv, TypeOK, RQTypeOK
<1> HIDE DEF wc
<1> DEFINE n == Len(Waiting)
<1>3. /\ cached' \in Seq(Completion) /\ cq' \in Seq(Completion)
      /\ Waiting # <<>> /\ wc = Waiting[1]
      /\ Len(cached') + Len(cq') + 1 = Len(cached) + Len(cq)
      /\ \A i \in 1 .. Len(cached') : cached'[i] = Waiting[i + 1]
      /\ \A i \in 1 .. Len(cq') : cq'[i] = Waiting[Len(cached') + i + 1]
  <2> DEFINE w == cached \o cq
  <2>1. /\ cached' \in Seq(Completion) /\ cq' \in Seq(Completion)
        /\ w # <<>> /\ NextWc(cached, cq) = w[1]
        /\ Len(cached') + Len(cq') + 1 = Len(cached) + Len(cq)
        /\ \A i \in 1 .. Len(cached') : cached'[i] = w[i + 1]
        /\ \A i \in 1 .. Len(cq') : cq'[i] = w[Len(cached') + i + 1]
    <3>1. /\ cached \in Seq(Completion) /\ cq \in Seq(Completion)
          /\ CanPoll(cached, cq)
          /\ cached' = AfterPoll(cached, cq).cached
          /\ cq' = AfterPoll(cached, cq).cq
      BY <1>1, <1>2
    <3>2. QED BY ONLY <3>1, AfterPollIs
  <2>2. Waiting = w BY DEF Waiting
  <2>3. wc = NextWc(cached, cq) BY DEF wc
  <2> HIDE DEF w
  <2>4. QED BY ONLY <2>1, <2>2, <2>3
<1>4. /\ Waiting \in Seq(Completion) /\ n = Len(cached) + Len(cq)
      /\ DOMAIN Waiting = 1 .. n /\ n \in Nat /\ n >= 1
      /\ wc \in Completion
      /\ Len(cached') \in Nat /\ Len(cq') \in Nat
  <2>1. Waiting \in Seq(Completion) /\ n = Len(cached) + Len(cq)
    BY <1>2, ConcatIn DEF Waiting
  <2>2. DOMAIN Waiting = 1 .. n /\ n \in Nat /\ n >= 1
    BY <1>3, <2>1
  <2>3. Waiting[1] \in Completion BY <2>1, <2>2
  <2>4. QED BY <1>3, <2>1, <2>2, <2>3
<1>5. /\ Waiting' \in Seq(Completion) /\ Len(Waiting') = n - 1
      /\ DOMAIN Waiting' = 1 .. n - 1
      /\ \A i \in 1 .. n - 1 : Waiting'[i] = Waiting[i + 1]
  <2> DEFINE w == cached' \o cq'
  <2> HIDE DEF n
  <2>1. /\ w \in Seq(Completion) /\ Len(w) = Len(cached') + Len(cq')
        /\ DOMAIN w = 1 .. Len(cached') + Len(cq')
        /\ \A i \in 1 .. Len(cached') : w[i] = cached'[i]
        /\ \A i \in 1 .. Len(cq') : w[Len(cached') + i] = cq'[i]
    <3>1. cached' \in Seq(Completion) /\ cq' \in Seq(Completion) BY <1>3
    <3>2. QED BY ONLY <3>1, ConcatIn
  <2>2. Waiting' = w BY DEF Waiting
  <2> HIDE DEF w
  <2>3. Len(cached') + Len(cq') = n - 1 BY <1>3, <1>4
  <2>4. ASSUME NEW i \in 1 .. n - 1 PROVE w[i] = Waiting[i + 1]
    <3>1. CASE i <= Len(cached') BY <1>3, <1>4, <2>1, <2>4, <3>1
    <3>2. CASE ~(i <= Len(cached'))
      <4>1. i - Len(cached') \in 1 .. Len(cq')
            /\ Len(cached') + (i - Len(cached')) = i
        BY <1>4, <2>3, <2>4, <3>2
      <4>2. w[i] = cq'[i - Len(cached')] BY <2>1, <4>1
      <4>3. cq'[i - Len(cached')] = Waiting[i + 1] BY <1>3, <4>1
      <4>4. QED BY <4>2, <4>3
    <3>3. QED BY <3>1, <3>2
  <2>5. QED BY <2>1, <2>2, <2>3, <2>4
<1> HIDE DEF n
<1>6. /\ \A i \in 1 .. n : /\ EndOf(Waiting[i]) =
                                IF i = n THEN landed ELSE Waiting[i + 1].pos
                           /\ Waiting[i].pos \in DOMAIN msg
                           /\ Waiting[i].len = msg[Waiting[i].pos].len
      /\ read = Waiting[1].pos
      /\ \A i, j \in 1 .. n : i < j => EndOf(Waiting[i]) <= Waiting[j].pos
  BY <1>2, <1>3, <1>4 DEF InTurn, InOrder, n
<1>7. /\ read \in DOMAIN msg /\ wc.len = msg[read].len
      /\ EndOf(wc) = read + wc.len
      /\ read \in Nat /\ wc.len \in Nat /\ landed \in Nat
      /\ read + wc.len = IF n = 1 THEN landed ELSE Waiting[2].pos
  <2>1. 1 \in 1 .. n BY <1>4
  <2>2. read \in DOMAIN msg /\ wc.len = msg[read].len /\ wc.pos = read
    BY <1>3, <1>6, <2>1
  <2>3. read \in Nat /\ wc.len \in Nat /\ landed \in Nat
    BY <1>2, <2>2, PlaceFacts, RegionFacts
  <2>4. EndOf(wc) = read + wc.len BY <2>2 DEF EndOf
  <2>5. QED BY <1>3, <1>6, <2>1, <2>2, <2>3, <2>4
<1>8. read + wc.len <= landed /\ ReadRegion(msg[read].len)
  BY <1>1, <1>7, ReceivesNext
<1>9. BaseInv' /\ read' = read + wc.len
  BY <1>2, <1>7, <1>8, ReadRegionInv
<1>10. UNCHANGED <<mem, landed, freed, msg>>
  BY <1>1 DEF ReadRegion, wireVars
<1>11. LiveBytes'
  <2>1. freed' \in Nat /\ freed <= freed' BY <1>2, <1>10, PlaceFacts
  <2>2. QED BY <1>2, <1>10, <2>1, LiveBytesKept
<1>12. /\ recvs' \in Seq(Buffers) /\ batch' \in Seq(Buffers)
       /\ Len(batch') < Batch
       /\ Len(recvs') + Len(batch') = Len(recvs) + Len(batch) + 1
       /\ \A b : In(b, recvs') \/ In(b, batch')
                   <=> In(b, recvs) \/ In(b, batch) \/ b = wc.id
  <2>1. wc.id \in Buffers BY <1>4 DEF Completion
  <2>2. QED BY <1>1, <1>2, <2>1, PostMRKeeps
<1>13. TypeOK'
  BY <1>1, <1>2, <1>3, <1>9, <1>12 DEF TypeOK, RQTypeOK, BaseInv
<1>14. BuffersConserved'
  <2>1. Len(recvs') + Len(cq') + Len(cached') + Len(batch')
          = Len(recvs) + Len(cq) + Len(cached) + Len(batch)
    <3>1. /\ Len(recvs) \in Nat /\ Len(cq) \in Nat /\ Len(recvs') \in Nat
          /\ Len(cached) \in Nat /\ Len(batch) \in Nat /\ Len(batch') \in Nat
      BY <1>2, <1>12
    <3>2. /\ Len(cached') + Len(cq') + 1 = Len(cached) + Len(cq)
          /\ Len(recvs') + Len(batch') = Len(recvs) + Len(batch) + 1
          /\ Len(cached') \in Nat /\ Len(cq') \in Nat /\ Len(recvs') \in Nat
      BY <1>3, <1>4, <1>12, <3>1
    <3>3. QED BY ONLY <3>1, <3>2
  <2>2. ASSUME NEW b, Named(b, cq) \/ Named(b, cached)
        PROVE  Named(b, cq') \/ Named(b, cached') \/ b = wc.id
    <3>1. Named(b, Waiting) BY <1>2, <2>2, ConcatNamed DEF Waiting
    <3>2. PICK i \in 1 .. n : Waiting[i].id = b BY <1>4, <3>1 DEF Named
    <3>3. CASE i = 1 BY <1>3, <3>2, <3>3
    <3>4. CASE i # 1
      <4>1. i - 1 \in 1 .. n - 1 /\ (i - 1) + 1 = i BY <1>4, <3>2, <3>4
      <4>2. Waiting'[i - 1].id = b BY <1>5, <3>2, <4>1
      <4>3. Named(b, Waiting') BY <1>5, <4>1, <4>2 DEF Named
      <4>4. QED BY <1>3, <4>3, ConcatNamed DEF Waiting
    <3>5. QED BY <3>3, <3>4
  <2>3. \A b : In(b, recvs) \/ Named(b, cq) \/ Named(b, cached) \/ In(b, batch)
                 => \/ In(b, recvs') \/ Named(b, cq')
                    \/ Named(b, cached') \/ In(b, batch')
    BY <1>12, <2>2
  <2>4. QED BY <1>2, <1>13, <2>1, <2>3, BuffersKept
<1>15. InTurn'
  <2>1. read' = (IF Waiting' = <<>> THEN landed' ELSE Waiting'[1].pos)
    <3>1. CASE n = 1
      <4>1. Waiting' = <<>> BY <1>5, <3>1
      <4>2. QED BY <1>7, <1>9, <1>10, <3>1, <4>1
    <3>2. CASE n # 1
      <4>1. Waiting' # <<>> /\ 1 \in 1 .. n - 1 BY <1>4, <1>5, <3>2
      <4>2. Waiting'[1] = Waiting[2] BY <1>5, <4>1
      <4>3. QED BY <1>7, <1>9, <3>2, <4>1, <4>2
    <3>3. QED BY <3>1, <3>2
  <2>2. ASSUME NEW i \in 1 .. n - 1
        PROVE  /\ Waiting'[i].pos \in DOMAIN msg'
               /\ Waiting'[i].len = msg'[Waiting'[i].pos].len
               /\ EndOf(Waiting'[i]) = (IF i = n - 1 THEN landed'
                                        ELSE Waiting'[i + 1].pos)
    <3>1. i + 1 \in 1 .. n /\ (i + 1 = n <=> i = n - 1) BY <1>4, <2>2
    <3>2. Waiting'[i] = Waiting[i + 1] BY <1>5, <2>2
    <3>3. i # n - 1 => Waiting'[i + 1] = Waiting[(i + 1) + 1]
      <4>1. i # n - 1 => i + 1 \in 1 .. n - 1 BY <1>4, <2>2
      <4>2. QED BY <1>5, <4>1
    <3>4. QED BY <1>6, <1>10, <3>1, <3>2, <3>3
  <2>3. QED BY <1>5, <2>1, <2>2 DEF InTurn
<1>16. InOrder'
  <2>1. ASSUME NEW i \in 1 .. n - 1, NEW j \in 1 .. n - 1, i < j
        PROVE  EndOf(Waiting'[i]) <= Waiting'[j].pos
    <3>1. i + 1 \in 1 .. n /\ j + 1 \in 1 .. n /\ i + 1 < j + 1
      BY <1>4, <2>1
    <3>2. EndOf(Waiting[i + 1]) <= Waiting[j + 1].pos BY <1>6, <3>1
    <3>3. QED BY <1>5, <2>1, <3>2
  <2>2. QED BY <1>5, <2>1 DEF InOrder
<1>17. QED BY <1>9, <1>11, <1>13, <1>14, <1>15, <1>16 DEF IInv

\* A stuttering step changes nothing the invariant speaks of.
LEMMA StutterInv ==
  ASSUME IInv, UNCHANGED vars
  PROVE  IInv'
<1>1. /\ UNCHANGED <<sndVars, wireVars, rcvVars, ackQ, mem>>
      /\ UNCHANGED <<rqVars, cq, cached, broken>>
  BY DEF vars, baseVars, immVars
<1>2. mem' \in [Offsets -> Nat \cup {-1}]
  BY <1>1 DEF IInv, BaseInv, BaseTypeOK
<1>3. BaseInv' BY <1>1, <1>2, BaseKept DEF IInv
<1>4. broken' \in BOOLEAN BY <1>1 DEF IInv, TypeOK
<1>5. QED BY <1>1, <1>3, <1>4, QuietStep

\* Every step of the sender, the network and the receiver preserves IInv.
LEMMA StepInv ==
  ASSUME ShortCalls, IInv, [Next]_vars
  PROVE  IInv'
<1>1. CASE SendStart BY <1>1, SendStartInv
<1>2. CASE SendRegion BY <1>2, SendRegionInv
<1>3. CASE SendGet BY <1>3, SendGetInv
<1>4. CASE SendUpdate BY <1>4, SendUpdateInv
<1>5. CASE SendFail BY <1>5, SendFailInv
<1>6. CASE Post BY <1>6, PostInv
<1>7. CASE Land BY <1>7, LandInv
<1>8. CASE Break BY <1>8, BreakInv
<1>9. CASE GetHead BY <1>9, GetHeadInv
<1>10. CASE Receive BY <1>10, ReceiveInv
<1>11. CASE FreeStart BY <1>11, FreeStartInv
<1>12. CASE FreeAck BY <1>12, FreeAckInv
<1>13. CASE UNCHANGED vars BY <1>13, StutterInv
<1>14. QED
  BY <1>1, <1>2, <1>3, <1>4, <1>5, <1>6, <1>7, <1>8, <1>9, <1>10, <1>11,
     <1>12, <1>13 DEF Next, Sender, Network, Receiver

-----------------------------------------------------------------------------
\* IInv is an invariant when every region is shorter than the ring, whether or
\* not the connection breaks: ring, completions and receive buffers agree.
THEOREM Invariance == ASSUME ShortCalls PROVE Spec => []IInv
<1>1. Init => IInv BY InitInv
<1>2. IInv /\ [Next]_vars => IInv' BY StepInv
<1>3. QED BY <1>1, <1>2, PTL DEF Spec

\* Receive and PostMR lose no receive buffer and post none twice, and what the
\* application holds stays as it was sent.
THEOREM BuffersGoRound == ASSUME ShortCalls PROVE Spec => []ImmInv
<1>1. IInv => ImmInv
  <2>1. IInv => HeldIntact BY HeldIsIntact DEF IInv, HeldIntact
  <2>2. QED BY <2>1 DEF IInv, ImmInv
<1>2. QED BY <1>1, Invariance, PTL

\* Completions that wait name messages of the ring one behind the other, from the
\* read pointer on and no further than what landed.
LEMMA WaitingMessages ==
  ASSUME IInv
  PROVE  LET n == Len(Waiting)
         IN  /\ n \in Nat /\ DOMAIN Waiting = 1 .. n
             /\ \A i \in 1 .. n :
                  LET p == Waiting[i].pos
                  IN  /\ p \in DOMAIN msg /\ p \in Nat
                      /\ Waiting[i].len = msg[p].len
                      /\ msg[p].len \in Nat \ {0}
                      /\ read <= p /\ p + msg[p].len <= landed
             /\ \A i, j \in 1 .. n : i < j => Waiting[i].pos < Waiting[j].pos
<1> DEFINE n == Len(Waiting)
<1>1. DOMAIN Waiting = 1 .. n /\ n \in Nat
  <2>1. Waiting \in Seq(Completion) BY ConcatIn DEF IInv, TypeOK, Waiting
  <2>2. QED BY <2>1
<1>2. /\ \A k \in 1 .. n : /\ EndOf(Waiting[k]) =
                                IF k = n THEN landed ELSE Waiting[k + 1].pos
                           /\ Waiting[k].pos \in DOMAIN msg
                           /\ Waiting[k].len = msg[Waiting[k].pos].len
      /\ Waiting # <<>> => read = Waiting[1].pos
      /\ \A k, m \in 1 .. n : k < m => EndOf(Waiting[k]) <= Waiting[m].pos
  BY <1>1 DEF IInv, InTurn, InOrder
<1>3. \A k \in 1 .. n : Waiting[k].pos \in Nat /\ Waiting[k].len \in Nat \ {0}
  BY <1>2, RegionFacts DEF IInv
<1>4. landed \in Nat BY PlaceFacts DEF IInv
<1> HIDE DEF n
<1>5. ASSUME NEW i \in 1 .. n
      PROVE  LET p == Waiting[i].pos
             IN  /\ p \in DOMAIN msg /\ p \in Nat
                 /\ Waiting[i].len = msg[p].len
                 /\ msg[p].len \in Nat \ {0}
                 /\ read <= p /\ p + msg[p].len <= landed
  <2> DEFINE p == Waiting[i].pos
  <2>1. Waiting # <<>> /\ 1 \in 1 .. n /\ n \in 1 .. n
    BY <1>1, <1>5
  <2>2. /\ p \in DOMAIN msg /\ p \in Nat
        /\ Waiting[i].len = msg[p].len /\ msg[p].len \in Nat \ {0}
    BY <1>2, <1>3
  <2>3. read <= p
    <3>1. CASE i = 1 BY <1>2, <2>1, <2>2, <3>1
    <3>2. CASE i # 1
      <4>1. EndOf(Waiting[1]) <= p BY <1>1, <1>2, <2>1, <3>2
      <4>2. QED BY <1>2, <1>3, <2>1, <2>2, <4>1 DEF EndOf
    <3>3. QED BY <3>1, <3>2
  <2>4. p + msg[p].len <= landed
    <3>1. EndOf(Waiting[i]) = p + msg[p].len BY <2>2 DEF EndOf
    <3>2. CASE i = n BY <1>2, <1>4, <2>2, <3>1, <3>2
    <3>3. CASE i # n
      <4>1. EndOf(Waiting[i]) <= Waiting[n].pos BY <1>1, <1>2, <2>1, <3>3
      <4>2. Waiting[n].pos + Waiting[n].len = landed BY <1>2, <2>1 DEF EndOf
      <4>3. QED BY <1>3, <1>4, <2>1, <2>2, <3>1, <4>1, <4>2, SMTT(30)
    <3>4. QED BY <3>2, <3>3
  <2>5. QED BY <2>2, <2>3, <2>4
<1>6. ASSUME NEW i \in 1 .. n, NEW j \in 1 .. n, i < j
      PROVE  Waiting[i].pos < Waiting[j].pos
  <2>1. EndOf(Waiting[i]) <= Waiting[j].pos BY <1>2, <1>6
  <2>2. QED BY <1>3, <2>1 DEF EndOf
<1>7. QED BY <1>1, <1>5, <1>6 DEF n

\* The next completion is that of the message at the read pointer, which is
\* whole: Receive takes every message once and in the order they were sent.
THEOREM CompletionsInTurn == ASSUME ShortCalls PROVE Spec => []CompletionsMatch
<1>1. ASSUME IInv PROVE CompletionsMatch
  <2>1. SUFFICES ASSUME NEW i \in DOMAIN Waiting,
                        NEW j \in 0 .. Waiting[i].len - 1
        PROVE  mem[(readPtr + Waiting[i].pos - read + j) % Length]
                 = Waiting[i].pos + j
    BY <1>1 DEF IInv, CompletionsMatch
  <2> DEFINE p == Waiting[i].pos
  <2>2. p \in DOMAIN msg /\ p \in Nat /\ j \in 0 .. msg[p].len - 1
        /\ msg[p].len \in Nat
    BY <1>1, <2>1, WaitingMessages
  <2>3. read <= p /\ p + msg[p].len <= landed
    BY <1>1, <2>1, WaitingMessages
  <2> HIDE DEF p
  <2>4. freed <= read /\ freed <= p /\ read \in Nat /\ freed \in Nat
    BY <1>1, <2>2, <2>3, PlaceFacts DEF IInv
  <2>5. mem[((p % Length) + j) % Length] = p + j
    BY <1>1, <2>2, <2>3, <2>4, RegionIntact DEF IInv
  <2>6. (readPtr + p - read + j) % Length = ((p % Length) + j) % Length
    <3>1. readPtr = read % Length BY <1>1 DEF IInv, BaseInv, OffsetsMatch
    <3>2. /\ (p - read) + j \in 0 .. Length /\ j \in 0 .. Length
          /\ read + ((p - read) + j) = p + j
      <4>1. /\ known <= freed /\ landed <= written /\ written - known < Length
            /\ known \in Nat /\ written \in Nat /\ landed \in Nat
        BY <1>1, PlaceFacts DEF IInv
      <4>2. QED BY ONLY <2>2, <2>3, <2>4, <4>1, LengthAssumption
    <3>3. readPtr \in Nat BY <2>4, <3>1, PlaceOffset DEF Offsets
    <3>4. readPtr + p - read + j = (read % Length) + ((p - read) + j)
      BY <2>2, <2>4, <3>1, <3>3
    <3>5. ((read % Length) + ((p - read) + j)) % Length = (p + j) % Length
      BY <2>4, <3>2, AddMod
    <3>6. ((p % Length) + j) % Length = (p + j) % Length BY <2>2, <3>2, AddMod
    <3>7. QED BY <3>4, <3>5, <3>6
  <2>7. QED BY <2>5, <2>6 DEF p
<1>2. QED BY <1>1, Invariance, PTL

\* When no buffer is posted, all but those in the batch are in completions: more
\* messages are under way than the batch leaves buffers.
LEMMA CrowdedWhenEmpty ==
  ASSUME IInv, recvs = <<>>, landed < posted
  PROVE  Cardinality(UnderWay) > Inflight - (Batch - 1)
<1> DEFINE n == Len(Waiting)
<1> DEFINE f == [i \in 1 .. n + 1 |-> IF i = n + 1 THEN landed ELSE Waiting[i].pos]
<1>1. /\ n \in Nat
      /\ \A i \in 1 .. n :
           /\ Waiting[i].pos \in DOMAIN msg /\ Waiting[i].pos \in Nat
           /\ read <= Waiting[i].pos /\ Waiting[i].pos < landed
      /\ \A i, j \in 1 .. n : i < j => Waiting[i].pos < Waiting[j].pos
  <2>1. landed \in Nat BY PlaceFacts DEF IInv
  <2>2. QED BY <2>1, WaitingMessages
<1>2. n = Inflight - Len(batch) /\ Len(batch) \in Nat /\ Len(batch) < Batch
  <2>1. /\ recvs \in Seq(Buffers) /\ batch \in Seq(Buffers) /\ Len(batch) < Batch
        /\ cq \in Seq(Completion) /\ cached \in Seq(Completion)
    BY DEF IInv, TypeOK, RQTypeOK
  <2>2. Len(Owned) = Len(recvs) + Len(cq) + Len(cached) + Len(batch)
    BY <2>1, FourPlaces DEF Owned
  <2>3. n = Len(cached) + Len(cq) BY <2>1, ConcatIn DEF Waiting
  <2>4. /\ Len(recvs) = 0 /\ Len(cq) \in Nat /\ Len(cached) \in Nat
        /\ Len(batch) \in Nat
    BY <2>1
  <2>5. Len(Owned) = Inflight BY DEF IInv, BuffersConserved
  <2> HIDE DEF n
  <2>6. QED BY <2>1, <2>2, <2>3, <2>4, <2>5, SMTT(30)
<1>3. /\ read \in Nat /\ landed \in Nat /\ posted \in Nat /\ read <= landed
      /\ landed \in DOMAIN msg
  <2>1. /\ read \in Nat /\ landed \in Nat /\ posted \in Nat /\ written \in Nat
        /\ read <= landed /\ posted <= written
    BY PlaceFacts DEF IInv
  <2>2. landed \in DOMAIN msg \cup {written}
    BY DEF IInv, BaseInv, RegionsTile, Boundaries
  <2>3. QED BY <2>1, <2>2
<1> HIDE DEF n
<1>4. f \in Injection(1 .. n + 1, UnderWay)
  <2>1. ASSUME NEW i \in 1 .. n + 1 PROVE f[i] \in UnderWay
    <3>1. CASE i = n + 1 BY <1>3, <3>1 DEF UnderWay
    <3>2. CASE i # n + 1
      <4>1. i \in 1 .. n BY <1>1, <3>2
      <4>2. QED BY <1>1, <1>3, <3>2, <4>1 DEF UnderWay
    <3>3. QED BY <3>1, <3>2
  <2>2. ASSUME NEW i \in 1 .. n + 1, NEW j \in 1 .. n + 1, i < j
        PROVE  f[i] # f[j]
    <3>1. i \in 1 .. n BY <1>1, <2>2
    <3>2. CASE j = n + 1 BY <1>1, <1>3, <2>2, <3>1, <3>2
    <3>3. CASE j # n + 1
      <4>1. j \in 1 .. n BY <1>1, <3>3
      <4>2. Waiting[i].pos < Waiting[j].pos BY <1>1, <2>2, <3>1, <4>1
      <4>3. QED BY <1>1, <2>2, <3>1, <3>3, <4>1, <4>2
    <3>4. QED BY <3>2, <3>3
  <2>3. f \in [1 .. n + 1 -> UnderWay] BY <2>1
  <2> HIDE DEF f
  <2>4. \A i, j \in 1 .. n + 1 : f[i] = f[j] => i = j
    <3>1. SUFFICES ASSUME NEW i \in 1 .. n + 1, NEW j \in 1 .. n + 1,
                          f[i] = f[j], i # j
          PROVE  FALSE
      OBVIOUS
    <3>2. i < j \/ j < i BY <1>1, <3>1
    <3>3. QED BY <2>2, <3>1, <3>2
  <2>5. QED BY <2>3, <2>4 DEF Injection, IsInjective
<1>5. IsFiniteSet(UnderWay)
  <2>1. UnderWay \in SUBSET (0 .. posted)
    BY <1>3 DEF UnderWay, IInv, BaseInv, BaseTypeOK
  <2>2. IsFiniteSet(0 .. posted) BY <1>3, FS_Interval
  <2>3. QED BY <2>1, <2>2, FS_Subset
<1> HIDE DEF f
<1>6. n + 1 <= Cardinality(UnderWay)
  <2>1. Cardinality(1 .. n + 1) <= Cardinality(UnderWay)
    BY <1>4, <1>5, FS_Injection
  <2>2. Cardinality(1 .. n + 1) = n + 1
    <3>1. Cardinality(1 .. n + 1) = IF 1 > n + 1 THEN 0 ELSE n + 1 - 1 + 1
      BY <1>1, FS_Interval
    <3>2. QED BY <1>1, <3>1
  <2>3. QED BY <2>1, <2>2
<1>7. Cardinality(UnderWay) \in Nat BY <1>5, FS_CardinalityType
<1>8. Inflight \in Nat /\ Batch \in Nat BY ReceiveQueueAssumption
<1>9. QED BY <1>1, <1>2, <1>6, <1>7, <1>8

\* A write finds the receiver not ready only if more messages are in the ring
\* than there are buffers without those PostMR keeps back in its batch: a ring
\* with room for fewer never breaks the connection.
THEOREM BreaksIfCrowded ==
  ASSUME ShortCalls PROVE Spec => BreaksOnlyIfCrowded
<1>1. IInv /\ [Next]_vars
        => [broken' # broken
              => Cardinality(UnderWay) > Inflight - (Batch - 1)]_vars
  <2>1. SUFFICES ASSUME IInv, Next, broken' # broken
        PROVE  Cardinality(UnderWay) > Inflight - (Batch - 1)
    OBVIOUS
  <2>2. Break
    BY <2>1 DEF Next, Sender, Network, Receiver, SendStart, SendRegion, SendGet,
       SendUpdate, SendFail, Post, Land, GetHead, Receive, FreeStart, FreeAck,
       immVars
  <2>3. recvs = <<>> /\ landed < posted BY <2>2 DEF Break
  <2>4. QED BY <2>1, <2>3, CrowdedWhenEmpty
<1>2. QED BY <1>1, Invariance, PTL DEF Spec, BreaksOnlyIfCrowded

-----------------------------------------------------------------------------
\* What each step is to the users of the channel: posting is Send, Receive is
\* Receive, Free is Free, and everything else is invisible.
LEMMA StepIsFifo ==
  IInv /\ IInv' /\ HeldIntact /\ HeldIntact' /\ [Next]_vars
    => [Fifo!Next]_(Fifo!vars)
<1> SUFFICES ASSUME IInv, IInv', HeldIntact, HeldIntact', [Next]_vars
             PROVE  [Fifo!Next]_(Fifo!vars)
  OBVIOUS
<1>0. BaseInv /\ BaseInv' BY DEF IInv
<1>1. CASE Post
  <2>1. Fifo!Send BY <1>0, <1>1, FifoSend DEF Post
  <2>2. QED BY <2>1 DEF Fifo!Next
<1>2. CASE Receive
  <2>1. Fifo!Receive BY <1>0, <1>2, ReceivesNext, FifoReceive
  <2>2. QED BY <2>1 DEF Fifo!Next
<1>3. CASE FreeStart
  <2>1. PICK k \in DOMAIN outstanding : FreeRegion(k) BY <1>3 DEF FreeStart
  <2>2. Fifo!Free BY <1>0, <2>1, FifoFree
  <2>3. QED BY <2>2 DEF Fifo!Next
<1>4. CASE SendRegion
  <2>1. UNCHANGED <<read, posted, outstanding>> /\ Reserve
    BY <1>4 DEF SendRegion, Reserve, rcvVars
  <2>2. QED BY <1>0, <2>1, FifoQuiet
<1>5. CASE \/ SendStart \/ SendGet \/ SendUpdate
           \/ SendFail \/ Land \/ Break \/ GetHead
           \/ FreeAck \/ UNCHANGED vars
  <2>1. UNCHANGED <<read, posted, outstanding, msg>>
    BY <1>5
    DEF SendStart, SendGet, SendUpdate, FreeAck, vars, baseVars,
        SendAsync, NeedHead, UpdateHead, AckRead, AckPoll, Acknowledge,
        SendFail, Land, LandWrite, Break, GetHead, rcvVars, wireVars
  <2>2. QED BY <1>0, <2>1, FifoQuiet
<1>6. QED
  BY <1>1, <1>2, <1>3, <1>4, <1>5 DEF Next, Sender, Network, Receiver

\* The connection is a FIFO channel as far as safety goes: messages come
\* in the order they were posted, whole, and stay until they are freed, on a
\* connection that breaks too (WriteImmSender, WriteImmReceiver).
THEOREM IsFifo == ASSUME ShortCalls PROVE Spec => Fifo!Safe
<1>1. Init => Fifo!Init BY FifoInit DEF Init
<1>2. Spec => []IInv BY Invariance
<1>3. IInv => HeldIntact BY HeldIsIntact DEF IInv, HeldIntact
<1>4. IInv /\ IInv' /\ HeldIntact /\ HeldIntact' /\ [Next]_vars
        => [Fifo!Next]_(Fifo!vars)
  BY StepIsFifo
<1>5. QED BY <1>1, <1>2, <1>3, <1>4, PTL DEF Spec, Fifo!Safe
=============================================================================
