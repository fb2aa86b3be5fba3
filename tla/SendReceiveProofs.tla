-------------------------- MODULE SendReceiveProofs --------------------------
(***************************************************************************)
(* The buffers of a shared receive queue go round among the connections     *)
(* without loss, and what is held stays; Wait is right: proofs for any      *)
(* number of connections and buffers, any sizes of batch and array, both    *)
(* ways to receive, and runs of any length.                                 *)
(***************************************************************************)
EXTENDS SendReceive, SequenceTheorems, TLAPS

-----------------------------------------------------------------------------
(* The inductive invariant *)

Members(s) == {s[i] : i \in DOMAIN s}
NoDuplicates(s) == \A i, j \in DOMAIN s : s[i] = s[j] => i = j

\* Where the buffers are: posted, in the batch, completed (by receiver), held
\* and in the queues to Run (by connection)
Completed == [r \in Receivers |-> Members(Ids(Pending(r)))]
Held == {h.buf : h \in held}
Stubbed == [c \in Conns |-> Members(stub[c])]

\* Every buffer is in one of these sets, and none is in two.
Divided(p, b, w, h, s) ==
  /\ \A x \in Buffers : \/ x \in p \/ x \in b \/ x \in h
                        \/ \E r \in Receivers : x \in w[r]
                        \/ \E c \in Conns : x \in s[c]
  /\ \A x \in p : x \notin b /\ x \notin h
  /\ \A x \in b : x \notin h
  /\ \A r \in Receivers : \A x \in w[r] :
       /\ x \notin p /\ x \notin b /\ x \notin h
       /\ \A q \in Receivers : x \in w[q] => q = r
       /\ \A c \in Conns : x \notin s[c]
  /\ \A c \in Conns : \A x \in s[c] :
       /\ x \notin p /\ x \notin b /\ x \notin h
       /\ \A d \in Conns : x \in s[d] => d = c

PlacesInv ==
  /\ NoDuplicates(recvs) /\ NoDuplicates(batch)
  /\ \A r \in Receivers : NoDuplicates(Ids(Pending(r)))
  /\ \A c \in Conns : NoDuplicates(stub[c])
  /\ \A g, h \in held : g.buf = h.buf => g = h
  /\ Divided(Members(recvs), Members(batch), Completed, Held, Stubbed)

\* The completions p of receiver r are those of its connections' messages that
\* arrived and were not received, each connection's in order.
InOrder(p, r, sg, bf, tk, dl) ==
  /\ \A i \in DOMAIN p :
       /\ r = IF sg THEN Listener ELSE p[i].conn
       /\ \E n \in tk[p[i].conn] + 1 .. dl[p[i].conn] :
            bf[p[i].id] = <<p[i].conn, n>>
  /\ \A i, j \in DOMAIN p :
       i < j /\ p[i].conn = p[j].conn => bf[p[i].id][2] < bf[p[j].id][2]
  /\ \A c \in Conns : r = (IF sg THEN Listener ELSE c) =>
       \A n \in tk[c] + 1 .. dl[c] :
         \E i \in DOMAIN p : p[i].conn = c /\ bf[p[i].id] = <<c, n>>

OrderInv ==
  /\ \A r \in Receivers : InOrder(Pending(r), r, single, buf, taken, delivered)
  /\ \A c \in Conns : taken[c] <= delivered[c]

\* The calls of a connection end later one after the other, and those whose
\* completion is there have arrived.
SendInv ==
  \A c \in Conns :
    /\ waiting[c] \in 0 .. Len(ends[c])
    /\ \A i, j \in DOMAIN ends[c] : i < j => ends[c][i] < ends[c][j]
    /\ \A k \in DOMAIN sendCq[c] : /\ sendCq[c][k] \in DOMAIN ends[c]
                                   /\ ends[c][sendCq[c][k]] <= delivered[c]

IInv == TypeOK /\ PlacesInv /\ OrderInv /\ HeldIntact /\ SendInv

-----------------------------------------------------------------------------
(* Queues of buffers and completions *)

\* The constants' types.
LEMMA ConstantFacts ==
  /\ N \in Nat \ {0} /\ Inflight \in Nat \ {0} /\ Batch \in Nat \ {0}
  /\ MaxWc \in Nat \ {0} /\ Calls \subseteq Nat \ {0}
  /\ Listener \in Receivers /\ Conns \subseteq Receivers /\ Listener \notin Conns
BY ReceiveQueueAssumption, SendReceiveAssumption
DEF Listener, Receivers, Conns

\* A sequence is the function of its elements.
LEMMA SequenceIsFunction ==
  ASSUME NEW T, NEW s \in Seq(T)
  PROVE  s = [i \in 1 .. Len(s) |-> s[i]]
OBVIOUS

\* What is taken from a queue without duplicates is not in the rest of it.
LEMMA TailOfQueue ==
  ASSUME NEW T, NEW s \in Seq(T), s # <<>>, NoDuplicates(s)
  PROVE  /\ Head(s) \in T /\ Head(s) \in Members(s) /\ Tail(s) \in Seq(T)
         /\ Members(Tail(s)) = Members(s) \ {Head(s)} /\ NoDuplicates(Tail(s))
<1>1. /\ Len(s) \in Nat \ {0} /\ DOMAIN s = 1 .. Len(s) /\ Head(s) = s[1]
      /\ s[1] \in T /\ Tail(s) \in Seq(T) /\ DOMAIN Tail(s) = 1 .. Len(s) - 1
      /\ \A i \in 1 .. Len(s) - 1 : Tail(s)[i] = s[i + 1]
  OBVIOUS
<1>2. Head(s) \in Members(s) BY <1>1 DEF Members
<1>3. ASSUME NEW x \in Members(Tail(s)) PROVE x \in Members(s) \ {Head(s)}
  <2>1. PICK i \in 1 .. Len(s) - 1 : x = s[i + 1] BY <1>1 DEF Members
  <2>2. i + 1 \in DOMAIN s /\ 1 \in DOMAIN s /\ i + 1 # 1 BY <1>1
  <2>3. s[i + 1] # s[1] BY <2>2 DEF NoDuplicates
  <2>4. QED BY <1>1, <2>1, <2>2, <2>3 DEF Members
<1>4. ASSUME NEW x \in Members(s) \ {Head(s)} PROVE x \in Members(Tail(s))
  <2>1. PICK i \in DOMAIN s : x = s[i] BY DEF Members
  <2>2. i - 1 \in 1 .. Len(s) - 1 /\ i - 1 + 1 = i BY <1>1, <2>1
  <2>3. Tail(s)[i - 1] = s[i] BY <1>1, <2>2
  <2>4. QED BY <1>1, <2>1, <2>2, <2>3 DEF Members
<1>5. NoDuplicates(Tail(s))
  <2>1. SUFFICES ASSUME NEW i \in 1 .. Len(s) - 1, NEW j \in 1 .. Len(s) - 1,
                        s[i + 1] = s[j + 1]
                 PROVE  i = j
    BY <1>1 DEF NoDuplicates
  <2>2. i + 1 \in DOMAIN s /\ j + 1 \in DOMAIN s BY <1>1
  <2>3. i + 1 = j + 1 BY <2>1, <2>2 DEF NoDuplicates
  <2>4. QED BY <2>3
<1>6. QED BY <1>1, <1>2, <1>3, <1>4, <1>5

\* One queue behind another that has nothing in common with it.
LEMMA ConcatOfQueues ==
  ASSUME NEW T, NEW s \in Seq(T), NEW t \in Seq(T),
         NoDuplicates(s), NoDuplicates(t), \A x \in Members(s) : x \notin Members(t)
  PROVE  /\ s \o t \in Seq(T) /\ Members(s \o t) = Members(s) \cup Members(t)
         /\ NoDuplicates(s \o t)
<1>1. /\ Len(s) \in Nat /\ Len(t) \in Nat /\ DOMAIN s = 1 .. Len(s)
      /\ DOMAIN t = 1 .. Len(t) /\ s \o t \in Seq(T)
      /\ DOMAIN (s \o t) = 1 .. Len(s) + Len(t)
      /\ \A i \in 1 .. Len(s) + Len(t) :
           (s \o t)[i] = IF i <= Len(s) THEN s[i] ELSE t[i - Len(s)]
  OBVIOUS
<1>2. \A i \in 1 .. Len(s) + Len(t) :
        \/ i \in DOMAIN s /\ (s \o t)[i] = s[i]
        \/ i > Len(s) /\ i - Len(s) \in DOMAIN t /\ (s \o t)[i] = t[i - Len(s)]
  BY <1>1
<1>3. Members(s \o t) \subseteq Members(s) \cup Members(t)
  BY <1>1, <1>2 DEF Members
<1>4. Members(s) \subseteq Members(s \o t)
  <2>1. SUFFICES ASSUME NEW i \in DOMAIN s PROVE s[i] \in Members(s \o t)
    BY DEF Members
  <2>2. i \in DOMAIN (s \o t) /\ (s \o t)[i] = s[i] BY <1>1
  <2>3. QED BY <2>2 DEF Members
<1>5. Members(t) \subseteq Members(s \o t)
  <2>1. SUFFICES ASSUME NEW i \in DOMAIN t PROVE t[i] \in Members(s \o t)
    BY DEF Members
  <2>2. i + Len(s) \in DOMAIN (s \o t) /\ (s \o t)[i + Len(s)] = t[i] BY <1>1
  <2>3. QED BY <2>2 DEF Members
<1>6. ASSUME NEW i \in 1 .. Len(s) + Len(t), NEW j \in 1 .. Len(s) + Len(t),
             (s \o t)[i] = (s \o t)[j]
      PROVE  i = j
  <2>1. CASE i \in DOMAIN s /\ (s \o t)[i] = s[i]
    <3>1. s[i] \in Members(s) BY <2>1 DEF Members
    <3>2. CASE j \in DOMAIN s /\ (s \o t)[j] = s[j]
      BY <1>6, <2>1, <3>2 DEF NoDuplicates
    <3>3. CASE j - Len(s) \in DOMAIN t /\ (s \o t)[j] = t[j - Len(s)]
      <4>1. t[j - Len(s)] \in Members(t) BY <3>3 DEF Members
      <4>2. QED BY <1>6, <2>1, <3>1, <3>3, <4>1
    <3>4. QED BY <1>2, <3>2, <3>3
  <2>2. CASE i > Len(s) /\ i - Len(s) \in DOMAIN t /\ (s \o t)[i] = t[i - Len(s)]
    <3>1. t[i - Len(s)] \in Members(t) BY <2>2 DEF Members
    <3>2. CASE j \in DOMAIN s /\ (s \o t)[j] = s[j]
      <4>1. s[j] \in Members(s) BY <3>2 DEF Members
      <4>2. QED BY <1>6, <2>2, <3>1, <3>2, <4>1
    <3>3. CASE j - Len(s) \in DOMAIN t /\ (s \o t)[j] = t[j - Len(s)]
      <4>1. i - Len(s) = j - Len(s) BY <1>6, <2>2, <3>3 DEF NoDuplicates
      <4>2. QED BY <1>1, <4>1
    <3>4. QED BY <1>2, <3>2, <3>3
  <2>3. QED BY <1>2, <2>1, <2>2
<1>7. NoDuplicates(s \o t)
  BY <1>1, <1>6 DEF NoDuplicates
<1>8. QED BY <1>1, <1>3, <1>4, <1>5, <1>7

\* Appending to the second of two sequences is appending to both together.
LEMMA AppendToConcat ==
  ASSUME NEW T, NEW s \in Seq(T), NEW t \in Seq(T), NEW x \in T
  PROVE  s \o Append(t, x) = Append(s \o t, x)
<1> DEFINE u == s \o Append(t, x)
<1> DEFINE v == Append(s \o t, x)
<1> DEFINE n == Len(s) + Len(t) + 1
<1>1. u \in Seq(T) /\ v \in Seq(T) /\ Len(u) = n /\ Len(v) = n OBVIOUS
<1>2. ASSUME NEW i \in 1 .. n PROVE u[i] = v[i]
  <2>1. CASE i <= Len(s) BY <2>1
  <2>2. CASE i > Len(s) /\ i # n BY <2>2
  <2>3. CASE i = n BY <2>3
  <2>4. QED BY <2>1, <2>2, <2>3
<1> HIDE DEF u, v, n
<1>3. u = [i \in 1 .. n |-> u[i]] /\ v = [i \in 1 .. n |-> v[i]]
  BY <1>1, SequenceIsFunction
<1>4. u = v BY <1>2, <1>3
<1>5. QED BY <1>4 DEF u, v

\* One buffer is a queue.
LEMMA SingleQueue ==
  ASSUME NEW T, NEW x \in T
  PROVE  /\ <<x>> \in Seq(T) /\ Members(<<x>>) = {x} /\ NoDuplicates(<<x>>)
         /\ \A s \in Seq(T) : Append(s, x) = s \o <<x>>
BY DEF Members, NoDuplicates

\* Appending what is not in a queue yet.
LEMMA AppendToQueue ==
  ASSUME NEW T, NEW s \in Seq(T), NEW x \in T, NoDuplicates(s), x \notin Members(s)
  PROVE  /\ Append(s, x) \in Seq(T) /\ Members(Append(s, x)) = Members(s) \cup {x}
         /\ NoDuplicates(Append(s, x))
<1>1. PICK t : t = <<x>> OBVIOUS
<1>2. /\ t \in Seq(T) /\ Members(t) = {x} /\ NoDuplicates(t) /\ Append(s, x) = s \o t
  BY <1>1, SingleQueue
<1>3. \A z \in Members(s) : z \notin Members(t) BY <1>2
<1>4. /\ s \o t \in Seq(T) /\ Members(s \o t) = Members(s) \cup Members(t)
      /\ NoDuplicates(s \o t)
  BY ONLY <1>2, <1>3, s \in Seq(T), NoDuplicates(s), ConcatOfQueues
<1>5. QED BY ONLY <1>2, <1>4

\* The buffers of completions are in the completions' order.
LEMMA IdsOfQueue ==
  ASSUME NEW p \in Seq(Completion)
  PROVE  /\ Ids(p) \in Seq(Buffers) /\ Len(Ids(p)) = Len(p)
         /\ \A i \in DOMAIN p : Ids(p)[i] = p[i].id
         /\ p # <<>> => /\ Ids(p) # <<>> /\ Head(Ids(p)) = Head(p).id
                        /\ Ids(Tail(p)) = Tail(Ids(p))
         /\ \A x \in Completion : Ids(Append(p, x)) = Append(Ids(p), x.id)
<1>1. /\ Len(p) \in Nat /\ DOMAIN p = 1 .. Len(p)
      /\ \A i \in 1 .. Len(p) : p[i] \in Completion /\ p[i].id \in Buffers
  <2>1. \A x \in Completion : x.id \in Buffers BY DEF Completion
  <2>2. \A i \in 1 .. Len(p) : p[i] \in Completion OBVIOUS
  <2>3. QED BY <2>1, <2>2
<1>2. Ids(p) \in Seq(Buffers) /\ Len(Ids(p)) = Len(p)
      /\ \A i \in DOMAIN p : Ids(p)[i] = p[i].id
  BY <1>1 DEF Ids
<1>3. ASSUME p # <<>>
      PROVE  Ids(p) # <<>> /\ Head(Ids(p)) = Head(p).id /\ Ids(Tail(p)) = Tail(Ids(p))
  <2>1. Len(p) >= 1 /\ Ids(p) # <<>> BY <1>1, <1>2, <1>3
  <2>2. Head(p) = p[1] /\ Head(Ids(p)) = Ids(p)[1] BY <1>2, <2>1
  <2>3. Tail(p) \in Seq(Completion) /\ Len(Tail(p)) = Len(p) - 1
        /\ \A i \in 1 .. Len(p) - 1 : Tail(p)[i] = p[i + 1]
    BY <1>3
  <2>4. Tail(Ids(p)) \in Seq(Buffers) /\ Len(Tail(Ids(p))) = Len(p) - 1
        /\ \A i \in 1 .. Len(p) - 1 : Tail(Ids(p))[i] = Ids(p)[i + 1]
    BY <1>2, <2>1
  <2>5. Ids(Tail(p)) = [i \in 1 .. Len(p) - 1 |-> Tail(p)[i].id]
    BY <2>3 DEF Ids
  <2>6. Tail(Ids(p)) = [i \in 1 .. Len(p) - 1 |-> Tail(Ids(p))[i]]
    BY <2>4, SequenceIsFunction
  <2>7. \A i \in 1 .. Len(p) - 1 : Tail(p)[i].id = Tail(Ids(p))[i]
    BY <1>1, <1>2, <2>3, <2>4
  <2>8. Ids(Tail(p)) = Tail(Ids(p)) BY <2>5, <2>6, <2>7
  <2>9. QED BY <1>1, <1>2, <2>1, <2>2, <2>8
<1>4. ASSUME NEW x \in Completion PROVE Ids(Append(p, x)) = Append(Ids(p), x.id)
  <2>1. x.id \in Buffers BY DEF Completion
  <2>2. Append(p, x) \in Seq(Completion) /\ Len(Append(p, x)) = Len(p) + 1
        /\ \A i \in 1 .. Len(p) + 1 :
             Append(p, x)[i] = IF i <= Len(p) THEN p[i] ELSE x
    OBVIOUS
  <2>3. Append(Ids(p), x.id) \in Seq(Buffers) /\ Len(Append(Ids(p), x.id)) = Len(p) + 1
        /\ \A i \in 1 .. Len(p) + 1 :
             Append(Ids(p), x.id)[i] = IF i <= Len(p) THEN Ids(p)[i] ELSE x.id
    BY <1>2, <2>1
  <2>4. Ids(Append(p, x)) = [i \in 1 .. Len(p) + 1 |-> Append(p, x)[i].id]
    BY <2>2 DEF Ids
  <2>5. Append(Ids(p), x.id) = [i \in 1 .. Len(p) + 1 |-> Append(Ids(p), x.id)[i]]
    BY <2>3, SequenceIsFunction
  <2>6. \A i \in 1 .. Len(p) + 1 : Append(p, x)[i].id = Append(Ids(p), x.id)[i]
    BY <1>1, <1>2, <2>2, <2>3
  <2>7. QED BY <2>4, <2>5, <2>6
<1>5. QED BY <1>2, <1>3, <1>4

\* Array and completion queue together are a queue: AfterPoll takes its first.
LEMMA PollTakesFirst ==
  ASSUME NEW T, NEW a \in Seq(T), NEW q \in Seq(T), CanPoll(a, q)
  PROVE  /\ a \o q # <<>> /\ NextWc(a, q) = Head(a \o q)
         /\ AfterPoll(a, q).cached \in Seq(T) /\ AfterPoll(a, q).cq \in Seq(T)
         /\ AfterPoll(a, q).cached \o AfterPoll(a, q).cq = Tail(a \o q)
<1>1. CASE a # <<>>
  <2>1. a \o q # <<>> /\ Head(a) = Head(a \o q) /\ Tail(a) \in Seq(T) BY <1>1
  <2>2. Tail(a) \o q = Tail(a \o q) BY <1>1
  <2>3. AfterPoll(a, q).cached = Tail(a) /\ AfterPoll(a, q).cq = q
    BY <1>1 DEF AfterPoll
  <2>4. QED BY <1>1, <2>1, <2>2, <2>3 DEF NextWc
<1>2. CASE a = <<>>
  <2> DEFINE n == Smaller(MaxWc, Len(q))
  <2>1. q # <<>> /\ a \o q = q BY <1>2 DEF CanPoll
  <2>2. n \in 1 .. Len(q) BY <2>1, ConstantFacts DEF Smaller
  <2>3. AfterPoll(a, q).cached = SubSeq(q, 2, n)
        /\ AfterPoll(a, q).cq = SubSeq(q, n + 1, Len(q))
    BY <1>2 DEF AfterPoll, Refill
  <2>4. SubSeq(q, 2, n) \in Seq(T) /\ SubSeq(q, n + 1, Len(q)) \in Seq(T)
    <3> HIDE DEF n
    <3> QED BY <2>2
  <2>5. SubSeq(q, 2, n) \o SubSeq(q, n + 1, Len(q)) = Tail(q)
    <3> DEFINE u == SubSeq(q, 2, n) \o SubSeq(q, n + 1, Len(q))
    <3>1. /\ Len(q) \in Nat \ {0} /\ Tail(q) \in Seq(T) /\ Len(Tail(q)) = Len(q) - 1
          /\ \A i \in 1 .. Len(q) - 1 : Tail(q)[i] = q[i + 1]
      BY <2>1
    <3>2. /\ u \in Seq(T) /\ Len(u) = Len(q) - 1
          /\ \A i \in 1 .. Len(q) - 1 : u[i] = q[i + 1]
      <4> DEFINE x == SubSeq(q, 2, n)
      <4> DEFINE y == SubSeq(q, n + 1, Len(q))
      <4>1. /\ Len(x) = n - 1 /\ \A i \in 1 .. n - 1 : x[i] = q[i + 1]
            /\ Len(y) = Len(q) - n /\ \A i \in 1 .. Len(q) - n : y[i] = q[i + n]
        <5> HIDE DEF n
        <5>1. Len(x) = n - 1 /\ \A i \in 1 .. n - 1 : x[i] = q[i + 1]
          BY <2>2, <3>1
        <5>2. Len(y) = Len(q) - n
          <6>1. CASE n = Len(q)
            <7>1. n + 1 > Len(q) /\ Len(q) - n = 0 BY <2>2, <6>1
            <7>2. y = <<>> BY <2>2, <3>1, <7>1
            <7>3. QED BY <7>1, <7>2
          <6>2. CASE n < Len(q)
            <7>1. n + 1 \in 1 .. Len(q) BY <2>2, <6>2
            <7>2. Len(y) = Len(q) - (n + 1) + 1 BY <3>1, <7>1
            <7>3. n \in Int /\ Len(q) \in Int BY <2>2, <3>1
            <7> HIDE DEF y
            <7>4. QED BY ONLY <7>2, <7>3
          <6>3. QED BY <2>2, <6>1, <6>2
        <5>3. ASSUME NEW i \in 1 .. Len(q) - n PROVE y[i] = q[i + n]
          <6>1. y[i] = q[(n + 1) + i - 1] BY <2>2, <3>1
          <6>2. (n + 1) + i - 1 = i + n BY <2>2, <3>1
          <6>3. QED BY <6>1, <6>2
        <5>4. QED BY <5>1, <5>2, <5>3
      <4>2. x \in Seq(T) /\ y \in Seq(T) /\ u = x \o y BY <2>4
      <4> HIDE DEF n, x, y, u
      <4>3. /\ x \o y \in Seq(T) /\ Len(x \o y) = Len(x) + Len(y)
            /\ \A i \in 1 .. Len(x) + Len(y) :
                 (x \o y)[i] = IF i <= Len(x) THEN x[i] ELSE y[i - Len(x)]
        BY <4>2
      <4>4. ASSUME NEW i \in 1 .. Len(q) - 1 PROVE u[i] = q[i + 1]
        <5>1. CASE i <= n - 1 BY <2>2, <3>1, <4>1, <4>2, <4>3, <5>1
        <5>2. CASE ~(i <= n - 1)
          <6>1. i - (n - 1) \in 1 .. Len(q) - n /\ (i - (n - 1)) + n = i + 1
            BY <2>2, <3>1, <5>2
          <6>2. i - Len(x) = i - (n - 1) /\ i \in 1 .. Len(x) + Len(y)
                /\ ~(i <= Len(x))
            BY <2>2, <3>1, <4>1, <5>2
          <6>3. u[i] = y[i - (n - 1)] BY <4>2, <4>3, <6>2
          <6>4. y[i - (n - 1)] = q[(i - (n - 1)) + n] BY <4>1, <6>1
          <6>5. QED BY <6>1, <6>3, <6>4
        <5>3. QED BY <5>1, <5>2
      <4>5. QED BY <2>2, <3>1, <4>1, <4>2, <4>3, <4>4
    <3> HIDE DEF u
    <3>3. u = [i \in 1 .. Len(q) - 1 |-> u[i]] BY <3>2, SequenceIsFunction
    <3>4. Tail(q) = [i \in 1 .. Len(q) - 1 |-> Tail(q)[i]]
      BY <3>1, SequenceIsFunction
    <3>5. u = Tail(q) BY <3>1, <3>2, <3>3, <3>4
    <3>6. QED BY <3>5 DEF u
  <2>6. NextWc(a, q) = Head(q) BY <1>2 DEF NextWc
  <2>7. QED BY <2>1, <2>3, <2>4, <2>5, <2>6
<1>3. QED BY <1>1, <1>2

-----------------------------------------------------------------------------
(* A buffer moves on: one lemma for each way it can go *)

\* A message arrives: a posted buffer is completed.
LEMMA PostedToCompleted ==
  ASSUME NEW p, NEW b, NEW w \in [Receivers -> SUBSET Buffers], NEW h, NEW s,
         Divided(p, b, w, h, s), NEW x \in p, NEW r \in Receivers
  PROVE  /\ x \notin w[r]
         /\ Divided(p \ {x}, b, [w EXCEPT ![r] = @ \cup {x}], h, s)
<1> DEFINE p2 == p \ {x}
<1> DEFINE w2 == [w EXCEPT ![r] = @ \cup {x}]
<1>1. /\ \A z : z \in p2 <=> z \in p /\ z # x
      /\ \A q \in Receivers : \A z :
           z \in w2[q] <=> (z \in w[q] \/ (q = r /\ z = x))
  OBVIOUS
<1> HIDE DEF p2, w2
<1>2. x \notin w[r] BY DEF Divided
<1>3. Divided(p2, b, w2, h, s) BY <1>1, SMTT(30) DEF Divided
<1>4. QED BY <1>2, <1>3 DEF p2, w2

\* Receive: the buffer of a completion is held.
LEMMA CompletedToHeld ==
  ASSUME NEW p, NEW b, NEW w \in [Receivers -> SUBSET Buffers], NEW h, NEW s,
         Divided(p, b, w, h, s), NEW r \in Receivers, NEW x \in w[r]
  PROVE  /\ x \notin h
         /\ Divided(p, b, [w EXCEPT ![r] = @ \ {x}], h \cup {x}, s)
<1> DEFINE w2 == [w EXCEPT ![r] = @ \ {x}]
<1> DEFINE h2 == h \cup {x}
<1>1. /\ \A z : z \in h2 <=> z \in h \/ z = x
      /\ \A q \in Receivers : \A z :
           z \in w2[q] <=> (z \in w[q] /\ ~(q = r /\ z = x))
  OBVIOUS
<1> HIDE DEF w2, h2
<1>2. x \notin h BY DEF Divided
<1>3. Divided(p, b, w2, h2, s) BY <1>1, SMTT(30) DEF Divided
<1>4. QED BY <1>2, <1>3 DEF w2, h2

\* Free of a connection: a buffer that was held is on its way to Run.
LEMMA HeldToStub ==
  ASSUME NEW p, NEW b, NEW w, NEW h, NEW s \in [Conns -> SUBSET Buffers],
         Divided(p, b, w, h, s), NEW c \in Conns, NEW x \in h
  PROVE  /\ x \notin s[c]
         /\ Divided(p, b, w, h \ {x}, [s EXCEPT ![c] = @ \cup {x}])
<1> DEFINE h2 == h \ {x}
<1> DEFINE s2 == [s EXCEPT ![c] = @ \cup {x}]
<1>1. /\ \A z : z \in h2 <=> z \in h /\ z # x
      /\ \A d \in Conns : \A z :
           z \in s2[d] <=> (z \in s[d] \/ (d = c /\ z = x))
  OBVIOUS
<1> HIDE DEF h2, s2
<1>2. x \notin s[c] BY DEF Divided
<1>3. Divided(p, b, w, h2, s2) BY <1>1, SMTT(30) DEF Divided
<1>4. QED BY <1>2, <1>3 DEF h2, s2

\* Free of the listener: a buffer that was held is in the batch.
LEMMA HeldToBatch ==
  ASSUME NEW p, NEW b, NEW w, NEW h, NEW s, Divided(p, b, w, h, s), NEW x \in h
  PROVE  /\ x \notin b
         /\ Divided(p, b \cup {x}, w, h \ {x}, s)
<1> DEFINE b2 == b \cup {x}
<1> DEFINE h2 == h \ {x}
<1>1. /\ \A z : z \in b2 <=> z \in b \/ z = x
      /\ \A z : z \in h2 <=> z \in h /\ z # x
  OBVIOUS
<1> HIDE DEF b2, h2
<1>2. x \notin b BY DEF Divided
<1>3. Divided(p, b2, w, h2, s) BY <1>1, SMTT(30) DEF Divided
<1>4. QED BY <1>2, <1>3 DEF b2, h2

\* Run: a buffer from a connection's queue is in the batch.
LEMMA StubToBatch ==
  ASSUME NEW p, NEW b, NEW w, NEW h, NEW s \in [Conns -> SUBSET Buffers],
         Divided(p, b, w, h, s), NEW c \in Conns, NEW x \in s[c]
  PROVE  /\ x \notin b
         /\ Divided(p, b \cup {x}, w, h, [s EXCEPT ![c] = @ \ {x}])
<1> DEFINE b2 == b \cup {x}
<1> DEFINE s2 == [s EXCEPT ![c] = @ \ {x}]
<1>1. /\ \A z : z \in b2 <=> z \in b \/ z = x
      /\ \A d \in Conns : \A z :
           z \in s2[d] <=> (z \in s[d] /\ ~(d = c /\ z = x))
  OBVIOUS
<1> HIDE DEF b2, s2
<1>2. x \notin b BY DEF Divided
<1>3. Divided(p, b2, w, h, s2) BY <1>1, SMTT(30) DEF Divided
<1>4. QED BY <1>2, <1>3 DEF b2, s2

\* PostMR of a full batch: its buffers are posted.
LEMMA BatchToPosted ==
  ASSUME NEW p, NEW b, NEW w, NEW h, NEW s, Divided(p, b, w, h, s)
  PROVE  Divided(p \cup b, {}, w, h, s)
BY SMTT(30) DEF Divided

-----------------------------------------------------------------------------
(* Completions come in the order of each connection's messages *)

\* A message arrives behind those of its connection that did before; it is
\* written to a buffer none of them has.
DeliveryInOrder(p, r, sg, bf, tk, dl, c, x) ==
  /\ p \in Seq(Completion) /\ sg \in BOOLEAN
  /\ bf \in [Buffers -> Conns \X Nat \cup {<<>>}]
  /\ tk \in [Conns -> Nat] /\ dl \in [Conns -> Nat]
  /\ InOrder(p, r, sg, bf, tk, dl)
  /\ c \in Conns /\ tk[c] <= dl[c] /\ x \in Buffers /\ x \notin Members(Ids(p))
  => LET bf2 == [bf EXCEPT ![x] = <<c, dl[c] + 1>>]
         dl2 == [dl EXCEPT ![c] = dl[c] + 1]
     IN  /\ r # (IF sg THEN Listener ELSE c) => InOrder(p, r, sg, bf2, tk, dl2)
         /\ r = (IF sg THEN Listener ELSE c) =>
              InOrder(Append(p, [id |-> x, conn |-> c]), r, sg, bf2, tk, dl2)

\* A message that arrives keeps the order.
LEMMA OrderAfterDelivery ==
  ASSUME NEW p, NEW r, NEW sg, NEW bf, NEW tk, NEW dl, NEW c, NEW x
  PROVE  DeliveryInOrder(p, r, sg, bf, tk, dl, c, x)
<1> SUFFICES ASSUME p \in Seq(Completion), sg \in BOOLEAN,
                    bf \in [Buffers -> Conns \X Nat \cup {<<>>}],
                    tk \in [Conns -> Nat], dl \in [Conns -> Nat],
                    InOrder(p, r, sg, bf, tk, dl),
                    c \in Conns, tk[c] <= dl[c], x \in Buffers,
                    x \notin Members(Ids(p))
             PROVE  LET bf2 == [bf EXCEPT ![x] = <<c, dl[c] + 1>>]
                        dl2 == [dl EXCEPT ![c] = dl[c] + 1]
                    IN  /\ r # (IF sg THEN Listener ELSE c) =>
                             InOrder(p, r, sg, bf2, tk, dl2)
                        /\ r = (IF sg THEN Listener ELSE c) =>
                             InOrder(Append(p, [id |-> x, conn |-> c]), r, sg,
                                     bf2, tk, dl2)
  BY DEF DeliveryInOrder
<1> DEFINE bf2 == [bf EXCEPT ![x] = <<c, dl[c] + 1>>]
<1> DEFINE dl2 == [dl EXCEPT ![c] = dl[c] + 1]
<1> DEFINE y == [id |-> x, conn |-> c]
<1> DEFINE q == Append(p, y)
<1>1. /\ y.id = x /\ y.conn = c /\ Len(p) \in Nat /\ DOMAIN p = 1 .. Len(p)
      /\ DOMAIN q = 1 .. Len(p) + 1 /\ q[Len(p) + 1] = y
      /\ \A i \in 1 .. Len(p) : q[i] = p[i]
      /\ \A i \in 1 .. Len(p) + 1 : i \in 1 .. Len(p) \/ i = Len(p) + 1
  OBVIOUS
<1>2. ASSUME NEW i \in DOMAIN p
      PROVE  p[i].id \in Buffers /\ p[i].conn \in Conns /\ p[i].id # x
  <2>1. p[i] \in Completion OBVIOUS
  <2>2. Ids(p)[i] = p[i].id /\ i \in DOMAIN Ids(p) BY IdsOfQueue, <1>1 DEF Ids
  <2>3. p[i].id \in Members(Ids(p)) BY <2>2 DEF Members
  <2>4. QED BY <2>1, <2>3 DEF Completion
<1>3. /\ bf2[x] = <<c, dl[c] + 1>> /\ \A z \in Buffers : z # x => bf2[z] = bf[z]
      /\ dl2[c] = dl[c] + 1 /\ \A d \in Conns : d # c => dl2[d] = dl[d]
      /\ \A d \in Conns : dl[d] <= dl2[d] /\ dl2[d] \in Nat /\ dl[d] \in Nat /\ tk[d] \in Nat
  OBVIOUS
<1> HIDE DEF bf2, dl2, y, q
<1>x. \A i \in DOMAIN p : bf2[p[i].id] = bf[p[i].id] BY <1>2, <1>3
<1>4. /\ \A i \in DOMAIN p :
           /\ r = IF sg THEN Listener ELSE p[i].conn
           /\ \E n \in tk[p[i].conn] + 1 .. dl[p[i].conn] :
                 bf2[p[i].id] = <<p[i].conn, n>>
      /\ \A i, j \in DOMAIN p :
           i < j /\ p[i].conn = p[j].conn => bf2[p[i].id][2] < bf2[p[j].id][2]
  <2>1. ASSUME NEW i \in DOMAIN p
        PROVE  /\ r = IF sg THEN Listener ELSE p[i].conn
               /\ \E n \in tk[p[i].conn] + 1 .. dl[p[i].conn] :
                    bf[p[i].id] = <<p[i].conn, n>>
    BY DEF InOrder
  <2>2. ASSUME NEW i \in DOMAIN p, NEW j \in DOMAIN p, i < j, p[i].conn = p[j].conn
        PROVE  bf[p[i].id][2] < bf[p[j].id][2]
    BY <2>2 DEF InOrder
  <2>3. QED BY <1>x, <2>1, <2>2
<1>5. ASSUME NEW d \in Conns, r = (IF sg THEN Listener ELSE d),
             NEW n \in tk[d] + 1 .. dl[d]
      PROVE  \E i \in DOMAIN p : p[i].conn = d /\ bf2[p[i].id] = <<d, n>>
  <2>1. \E i \in DOMAIN p : p[i].conn = d /\ bf[p[i].id] = <<d, n>>
    BY <1>5 DEF InOrder
  <2>2. QED BY <1>x, <2>1
<1>6. \A d \in Conns : tk[d] + 1 .. dl[d] \subseteq tk[d] + 1 .. dl2[d]
  BY <1>3
<1>7. ASSUME r # (IF sg THEN Listener ELSE c)
      PROVE  InOrder(p, r, sg, bf2, tk, dl2)
  <2>1. \A d \in Conns : r = (IF sg THEN Listener ELSE d) => dl2[d] = dl[d]
    BY <1>3, <1>7
  <2>2. \A i \in DOMAIN p : \E n \in tk[p[i].conn] + 1 .. dl2[p[i].conn] :
          bf2[p[i].id] = <<p[i].conn, n>>
    BY <1>2, <1>4, <1>6
  <2>3. \A d \in Conns : r = (IF sg THEN Listener ELSE d) =>
          \A n \in tk[d] + 1 .. dl2[d] :
            \E i \in DOMAIN p : p[i].conn = d /\ bf2[p[i].id] = <<d, n>>
    BY <1>5, <2>1
  <2>4. QED BY <1>4, <2>2, <2>3 DEF InOrder
<1>8. ASSUME r = (IF sg THEN Listener ELSE c)
      PROVE  InOrder(q, r, sg, bf2, tk, dl2)
  <2>1. \A i \in DOMAIN q : \/ i \in DOMAIN p /\ q[i] = p[i]
                            \/ i = Len(p) + 1 /\ q[i] = y
    BY <1>1
  <2>2. ASSUME NEW i \in DOMAIN q
        PROVE  /\ r = IF sg THEN Listener ELSE q[i].conn
               /\ \E n \in tk[q[i].conn] + 1 .. dl2[q[i].conn] :
                    bf2[q[i].id] = <<q[i].conn, n>>
    <3>1. CASE i \in DOMAIN p /\ q[i] = p[i] BY <1>2, <1>4, <1>6, <3>1
    <3>2. CASE q[i] = y
      <4>1. dl[c] + 1 \in tk[c] + 1 .. dl2[c] BY <1>3
      <4>2. QED BY <1>1, <1>3, <1>8, <3>2, <4>1
    <3>3. QED BY <2>1, <3>1, <3>2
  <2>3. ASSUME NEW i \in DOMAIN q, NEW j \in DOMAIN q, i < j, q[i].conn = q[j].conn
        PROVE  bf2[q[i].id][2] < bf2[q[j].id][2]
    <3>1. i \in DOMAIN p /\ q[i] = p[i] BY <1>1, <2>3
    <3>2. CASE j \in DOMAIN p /\ q[j] = p[j] BY <1>4, <2>3, <3>1, <3>2
    <3>3. CASE q[j] = y
      <4>1. p[i].conn = c BY <1>1, <2>3, <3>1, <3>3
      <4>2. PICK n \in tk[c] + 1 .. dl[c] : bf2[p[i].id] = <<c, n>>
        BY <1>4, <3>1, <4>1
      <4>3. bf2[p[i].id][2] = n /\ bf2[x][2] = dl[c] + 1 /\ n < dl[c] + 1
        BY <1>3, <4>2
      <4>4. QED BY <1>1, <3>1, <3>3, <4>3
    <3>4. QED BY <2>1, <3>2, <3>3
  <2>4. ASSUME NEW d \in Conns, r = (IF sg THEN Listener ELSE d),
               NEW n \in tk[d] + 1 .. dl2[d]
        PROVE  \E i \in DOMAIN q : q[i].conn = d /\ bf2[q[i].id] = <<d, n>>
    <3>1. CASE n <= dl[d]
      <4>1. n \in tk[d] + 1 .. dl[d] BY <1>3, <3>1
      <4>2. PICK i \in DOMAIN p : p[i].conn = d /\ bf2[p[i].id] = <<d, n>>
        BY <1>5, <2>4, <4>1
      <4>3. i \in DOMAIN q /\ q[i] = p[i] BY <1>1, <4>2
      <4>4. QED BY <4>2, <4>3
    <3>2. CASE ~(n <= dl[d])
      <4>1. d = c /\ n = dl[c] + 1 BY <1>3, <3>2
      <4>2. Len(p) + 1 \in DOMAIN q BY <1>1
      <4>3. QED BY <1>1, <1>3, <4>1, <4>2
    <3>3. QED BY <3>1, <3>2
  <2>5. QED BY <2>2, <2>3, <2>4 DEF InOrder
<1>9. QED BY <1>7, <1>8 DEF bf2, dl2, y, q

\* Nor does the order depend on how far connections of other receivers are.
LEMMA OtherOrder ==
  ASSUME NEW p, NEW r, NEW sg, NEW bf, NEW tk, NEW tk2, NEW dl,
         InOrder(p, r, sg, bf, tk, dl),
         \A c \in Conns : r = (IF sg THEN Listener ELSE c) => tk2[c] = tk[c],
         \A i \in DOMAIN p : tk2[p[i].conn] = tk[p[i].conn]
  PROVE  InOrder(p, r, sg, bf, tk2, dl)
BY DEF InOrder

\* The first completion is that of its connection's next message, and the others
\* stay in order when it is received.
ReceiveInOrder(p, r, sg, bf, tk, dl) ==
  /\ p \in Seq(Completion) /\ p # <<>>
  /\ tk \in [Conns -> Nat] /\ dl \in [Conns -> Nat]
  /\ InOrder(p, r, sg, bf, tk, dl)
  => LET x == Head(p)
         tk2 == [tk EXCEPT ![x.conn] = tk[x.conn] + 1]
     IN  /\ x \in Completion /\ x.conn \in Conns /\ x.id \in Buffers
         /\ r = (IF sg THEN Listener ELSE x.conn)
         /\ bf[x.id] = <<x.conn, tk[x.conn] + 1>> /\ tk2[x.conn] <= dl[x.conn]
         /\ InOrder(Tail(p), r, sg, bf, tk2, dl)

\* Receiving keeps the order.
LEMMA OrderAfterReceive ==
  ASSUME NEW p, NEW r, NEW sg, NEW bf, NEW tk, NEW dl
  PROVE  ReceiveInOrder(p, r, sg, bf, tk, dl)
<1> SUFFICES ASSUME p \in Seq(Completion), p # <<>>,
                    tk \in [Conns -> Nat], dl \in [Conns -> Nat],
                    InOrder(p, r, sg, bf, tk, dl)
             PROVE  LET x == Head(p)
                        tk2 == [tk EXCEPT ![x.conn] = tk[x.conn] + 1]
                    IN  /\ x \in Completion /\ x.conn \in Conns /\ x.id \in Buffers
                        /\ r = (IF sg THEN Listener ELSE x.conn)
                        /\ bf[x.id] = <<x.conn, tk[x.conn] + 1>> /\ tk2[x.conn] <= dl[x.conn]
                        /\ InOrder(Tail(p), r, sg, bf, tk2, dl)
  BY DEF ReceiveInOrder
<1> DEFINE x == Head(p)
<1> DEFINE c == x.conn
<1> DEFINE tk2 == [tk EXCEPT ![c] = tk[c] + 1]
<1> DEFINE q == Tail(p)
<1>1. /\ Len(p) \in Nat \ {0} /\ DOMAIN p = 1 .. Len(p) /\ x = p[1]
      /\ DOMAIN q = 1 .. Len(p) - 1 /\ \A i \in 1 .. Len(p) - 1 : q[i] = p[i + 1]
      /\ \A i \in DOMAIN p : p[i] \in Completion
  OBVIOUS
<1>2. \A i \in DOMAIN p : p[i].id \in Buffers /\ p[i].conn \in Conns
  <2>1. \A z \in Completion : z.id \in Buffers /\ z.conn \in Conns BY DEF Completion
  <2>2. QED BY <1>1, <2>1
<1>3. 1 \in DOMAIN p /\ c \in Conns /\ c = p[1].conn /\ x.id = p[1].id
      /\ r = (IF sg THEN Listener ELSE c) /\ x.id \in Buffers
  BY <1>1, <1>2 DEF InOrder
<1>4. PICK n \in tk[c] + 1 .. dl[c] : bf[x.id] = <<c, n>>
  <2>1. \E n \in tk[p[1].conn] + 1 .. dl[p[1].conn] : bf[p[1].id] = <<p[1].conn, n>>
    BY <1>3 DEF InOrder
  <2>2. QED BY <1>3, <2>1
<1>5. \A d \in Conns : /\ tk[d] \in Nat /\ dl[d] \in Nat
                       /\ tk2[d] = IF d = c THEN tk[d] + 1 ELSE tk[d]
  OBVIOUS
<1> HIDE DEF c, x, q, tk2
<1>6. n = tk[c] + 1
  <2>1. tk[c] + 1 \in tk[c] + 1 .. dl[c] BY <1>3, <1>4, <1>5
  <2>2. PICK i \in DOMAIN p : p[i].conn = c /\ bf[p[i].id] = <<c, tk[c] + 1>>
    BY <1>3, <2>1 DEF InOrder
  <2>3. CASE i = 1 BY <1>3, <1>4, <2>2, <2>3
  <2>4. CASE i # 1
    <3>1. 1 < i BY <1>1, <2>4
    <3>2. bf[p[1].id][2] < bf[p[i].id][2] BY <1>3, <2>2, <3>1 DEF InOrder
    <3>3. n < tk[c] + 1 BY <1>3, <1>4, <2>2, <3>2
    <3>4. QED BY <1>3, <1>5, <3>3
  <2>5. QED BY <2>3, <2>4
<1>7. ASSUME NEW i \in DOMAIN p, i # 1
      PROVE  \E m \in tk2[p[i].conn] + 1 .. dl[p[i].conn] :
               bf[p[i].id] = <<p[i].conn, m>>
  <2>1. PICK m \in tk[p[i].conn] + 1 .. dl[p[i].conn] : bf[p[i].id] = <<p[i].conn, m>>
    BY DEF InOrder
  <2>2. CASE p[i].conn = c
    <3>1. 1 < i BY <1>1, <1>7
    <3>2. bf[p[1].id][2] < bf[p[i].id][2] BY <1>3, <2>2, <3>1 DEF InOrder
    <3>3. tk[c] + 1 < m BY <1>3, <1>4, <1>6, <2>1, <3>2
    <3>4. m \in tk2[c] + 1 .. dl[c] BY <1>3, <1>5, <2>1, <2>2, <3>3
    <3>5. QED BY <2>1, <2>2, <3>4
  <2>3. CASE p[i].conn # c BY <1>2, <1>5, <2>1, <2>3
  <2>4. QED BY <2>2, <2>3
<1>8. InOrder(q, r, sg, bf, tk2, dl)
  <2>1. \A i \in DOMAIN q : i + 1 \in DOMAIN p /\ i + 1 # 1 /\ q[i] = p[i + 1]
    BY <1>1
  <2>2. ASSUME NEW i \in DOMAIN q
        PROVE  /\ r = IF sg THEN Listener ELSE q[i].conn
               /\ \E m \in tk2[q[i].conn] + 1 .. dl[q[i].conn] :
                    bf[q[i].id] = <<q[i].conn, m>>
    <3>1. i + 1 \in DOMAIN p /\ i + 1 # 1 /\ q[i] = p[i + 1] BY <2>1
    <3>2. r = IF sg THEN Listener ELSE p[i + 1].conn BY <3>1 DEF InOrder
    <3>3. \E m \in tk2[p[i + 1].conn] + 1 .. dl[p[i + 1].conn] :
            bf[p[i + 1].id] = <<p[i + 1].conn, m>>
      BY <1>7, <3>1
    <3>4. QED BY <3>1, <3>2, <3>3
  <2>3. ASSUME NEW i \in DOMAIN q, NEW j \in DOMAIN q, i < j, q[i].conn = q[j].conn
        PROVE  bf[q[i].id][2] < bf[q[j].id][2]
    <3>1. /\ i + 1 \in DOMAIN p /\ q[i] = p[i + 1] /\ j + 1 \in DOMAIN p
          /\ q[j] = p[j + 1] /\ i + 1 < j + 1
      BY <1>1, <2>1, <2>3
    <3>2. QED BY <2>3, <3>1 DEF InOrder
  <2>4. ASSUME NEW d \in Conns, r = (IF sg THEN Listener ELSE d),
               NEW m \in tk2[d] + 1 .. dl[d]
        PROVE  \E i \in DOMAIN q : q[i].conn = d /\ bf[q[i].id] = <<d, m>>
    <3>1. m \in tk[d] + 1 .. dl[d] BY <1>5, <2>4
    <3>2. PICK i \in DOMAIN p : p[i].conn = d /\ bf[p[i].id] = <<d, m>>
      BY <2>4, <3>1 DEF InOrder
    <3>3. i # 1
      <4>1. SUFFICES ASSUME i = 1 PROVE FALSE OBVIOUS
      <4>2. d = c /\ m = tk[c] + 1 BY <1>3, <1>4, <1>6, <3>2, <4>1
      <4>3. QED BY <1>3, <1>5, <4>2
    <3>4. i - 1 \in DOMAIN q /\ q[i - 1] = p[i]
      <4>1. i - 1 \in 1 .. Len(p) - 1 /\ i - 1 + 1 = i BY <1>1, <3>3
      <4>2. QED BY <1>1, <4>1
    <3>5. QED BY <3>2, <3>4
  <2>5. QED BY <2>2, <2>3, <2>4 DEF InOrder
<1>9. x \in Completion BY <1>1, <1>3
<1>10. tk2[c] <= dl[c] BY <1>3, <1>4, <1>5, <1>6
<1>11. QED BY <1>3, <1>4, <1>6, <1>8, <1>9, <1>10 DEF x, c, tk2, q

-----------------------------------------------------------------------------
(* The initial state *)

\* The types that the steps need of the state.
LEMMA StateFacts ==
  ASSUME TypeOK
  PROVE  /\ recvs \in Seq(Buffers) /\ batch \in Seq(Buffers)
         /\ stub \in [Conns -> Seq(Buffers)]
         /\ cq \in [Receivers -> Seq(Completion)]
         /\ cached \in [Receivers -> Seq(Completion)] /\ cached[Listener] = <<>>
         /\ \A r \in Receivers : /\ Pending(r) \in Seq(Completion)
                                 /\ cq[r] \in Seq(Completion)
                                 /\ cached[r] \in Seq(Completion)
         /\ Completed \in [Receivers -> SUBSET Buffers]
         /\ Stubbed \in [Conns -> SUBSET Buffers]
         /\ \A h \in held : h.buf \in Buffers /\ h.msg \in Conns \X Nat
<1>1. /\ recvs \in Seq(Buffers) /\ batch \in Seq(Buffers)
      /\ stub \in [Conns -> Seq(Buffers)]
      /\ cq \in [Receivers -> Seq(Completion)]
      /\ cached \in [Receivers -> Seq(Completion)] /\ cached[Listener] = <<>>
  BY DEF TypeOK, RQTypeOK
<1>2. ASSUME NEW r \in Receivers
      PROVE  /\ Pending(r) \in Seq(Completion) /\ cq[r] \in Seq(Completion)
             /\ cached[r] \in Seq(Completion)
  <2>1. cq[r] \in Seq(Completion) /\ cached[r] \in Seq(Completion) BY <1>1
  <2>2. QED BY <2>1 DEF Pending
<1>3. \A s \in Seq(Buffers) : Members(s) \in SUBSET Buffers BY DEF Members
<1>4. Completed \in [Receivers -> SUBSET Buffers]
  BY <1>2, <1>3, IdsOfQueue DEF Completed
<1>5. Stubbed \in [Conns -> SUBSET Buffers] BY <1>1, <1>3 DEF Stubbed
<1>6. \A h \in held : h.buf \in Buffers /\ h.msg \in Conns \X Nat BY DEF TypeOK
<1>7. QED BY <1>1, <1>2, <1>4, <1>5, <1>6

\* All buffers are posted, and nothing was sent.
LEMMA InitInv == Init => IInv
<1> SUFFICES ASSUME Init PROVE IInv OBVIOUS
<1>1. recvs \in Seq(Buffers) /\ NoDuplicates(recvs) /\ Members(recvs) = Buffers
  <2>1. recvs = [i \in 1 .. Inflight |-> i - 1] BY DEF Init, RQInit
  <2>2. recvs \in Seq(Buffers) BY <2>1, ConstantFacts DEF Buffers
  <2>3. DOMAIN recvs = 1 .. Inflight /\ \A i \in 1 .. Inflight : recvs[i] = i - 1
    BY <2>1
  <2>4. \A x \in Buffers : x + 1 \in 1 .. Inflight /\ recvs[x + 1] = x
    <3>1. \A x \in Buffers : x + 1 \in 1 .. Inflight /\ (x + 1) - 1 = x
      BY ConstantFacts DEF Buffers
    <3>2. QED BY <2>3, <3>1
  <2>5. \A i \in 1 .. Inflight : recvs[i] \in Buffers
    BY <2>3, ConstantFacts DEF Buffers
  <2>6. Members(recvs) = Buffers BY <2>3, <2>4, <2>5 DEF Members
  <2>7. NoDuplicates(recvs) BY <2>3, ConstantFacts DEF NoDuplicates
  <2>8. QED BY <2>2, <2>6, <2>7
<1>2. TypeOK
  <2>1. RQTypeOK BY <1>1, ConstantFacts DEF RQTypeOK, Init, RQInit
  <2>2. 1 \in Conns BY ConstantFacts DEF Conns
  <2>3. QED BY <2>1, <2>2, ConstantFacts DEF TypeOK, Init
<1>3. \A T : <<>> \in Seq(T) OBVIOUS
<1>4. /\ DOMAIN <<>> = {} /\ Members(<<>>) = {} /\ NoDuplicates(<<>>)
  BY DEF Members, NoDuplicates
<1>5. \A r \in Receivers : Pending(r) = <<>>
  BY DEF Pending, Init
<1>6. Ids(<<>>) = <<>> BY <1>4 DEF Ids
<1>7. PlacesInv
  <2>1. \A r \in Receivers : Completed[r] = {} BY <1>4, <1>5, <1>6 DEF Completed
  <2>2. \A c \in Conns : Stubbed[c] = {} /\ stub[c] = <<>>
    BY <1>4 DEF Stubbed, Init
  <2>3. Members(batch) = {} /\ batch = <<>> BY <1>4 DEF Init, RQInit
  <2>4. Held = {} /\ held = {} BY DEF Held, Init
  <2>5. Divided(Members(recvs), Members(batch), Completed, Held, Stubbed)
    BY <1>1, <2>1, <2>2, <2>3, <2>4 DEF Divided
  <2>6. QED BY <1>1, <1>4, <1>5, <1>6, <2>2, <2>3, <2>4, <2>5 DEF PlacesInv
<1>8. OrderInv
  <2>1. \A c \in Conns : taken[c] = 0 /\ delivered[c] = 0 BY DEF Init
  <2>2. \A c \in Conns : taken[c] + 1 .. delivered[c] = {} BY <2>1
  <2>3. \A r \in Receivers : DOMAIN Pending(r) = {} BY <1>4, <1>5
  <2>4. \A r \in Receivers : InOrder(Pending(r), r, single, buf, taken, delivered)
    BY <2>2, <2>3 DEF InOrder
  <2>5. QED BY <2>1, <2>4 DEF OrderInv
<1>9. HeldIntact BY DEF HeldIntact, Init
<1>10. SendInv BY <1>4 DEF SendInv, Init
<1>11. QED BY <1>2, <1>7, <1>8, <1>9, <1>10 DEF IInv

-----------------------------------------------------------------------------
(* Steps of the sender *)

\* What the receivers keep does not depend on the sender, nor on `broken`.
LEMMA ReceiversUnchanged ==
  ASSUME IInv, UNCHANGED <<single, delivered, rcvVars>>, TypeOK', SendInv'
  PROVE  IInv'
<1>1. /\ single' = single /\ delivered' = delivered /\ buf' = buf /\ cq' = cq
      /\ cached' = cached /\ taken' = taken /\ held' = held /\ stub' = stub
      /\ recvs' = recvs /\ batch' = batch
  BY DEF rcvVars, rqVars
<1>2. PlacesInv'
  BY <1>1 DEF IInv, PlacesInv, Pending, Completed, Held, Stubbed
<1>3. OrderInv' BY <1>1 DEF IInv, OrderInv, Pending
<1>4. HeldIntact' BY <1>1 DEF IInv, HeldIntact
<1>5. QED BY <1>2, <1>3, <1>4 DEF IInv

\* How many messages were sent is how far the last call goes.
LEMMA SentFacts ==
  ASSUME TypeOK, NEW c \in Conns
  PROVE  /\ ends[c] \in Seq(Nat) /\ Len(ends[c]) \in Nat /\ Sent(c) \in Nat
         /\ Len(ends[c]) > 0 => Sent(c) = ends[c][Len(ends[c])]
<1>1. ends[c] \in Seq(Nat) BY DEF TypeOK
<1>2. QED BY <1>1 DEF Sent

\* A send call moves how far its connection has promised to send.
LEMMA SendAsyncInv == ASSUME IInv, NEW c \in Conns, SendAsync(c) PROVE IInv'
<1> USE DEF IInv
<1>1. /\ single' = single /\ sendCq' = sendCq /\ ackd' = ackd /\ waiting' = waiting
      /\ delivered' = delivered /\ broken' = broken /\ UNCHANGED rcvVars
  BY DEF SendAsync, qpVars
<1>2. PICK k \in Calls : ends' = [ends EXCEPT ![c] = Append(@, Sent(c) + k)]
  BY DEF SendAsync
<1> DEFINE m == Sent(c) + k
<1>3. m \in Nat /\ m > Sent(c) BY SentFacts, ConstantFacts
<1>4. /\ ends \in [Conns -> Seq(Nat)] /\ ends' = [ends EXCEPT ![c] = Append(ends[c], m)]
      /\ ends[c] \in Seq(Nat)
  BY <1>2 DEF TypeOK
<1> HIDE DEF m
<1>5. ends' \in [Conns -> Seq(Nat)] BY <1>3, <1>4
<1>6. TypeOK' BY <1>1, <1>5 DEF TypeOK, rcvVars, rqVars, RQTypeOK
<1>7. ASSUME NEW d \in Conns
      PROVE  /\ Len(ends[d]) \in Nat /\ DOMAIN ends[d] = 1 .. Len(ends[d])
             /\ Len(ends[d]) <= Len(ends'[d])
             /\ DOMAIN ends[d] \subseteq DOMAIN ends'[d]
             /\ \A i \in DOMAIN ends[d] : ends'[d][i] = ends[d][i]
             /\ \A i, j \in DOMAIN ends'[d] : i < j => ends'[d][i] < ends'[d][j]
  <2>1. CASE d # c
    BY <1>4, <2>1 DEF SendInv
  <2>2. CASE d = c
    <3>1. ends'[c] = Append(ends[c], m) BY <1>4
    <3>2. /\ Len(ends[c]) \in Nat /\ DOMAIN ends[c] = 1 .. Len(ends[c])
          /\ DOMAIN ends'[c] = 1 .. Len(ends[c]) + 1
          /\ Len(ends'[c]) = Len(ends[c]) + 1
          /\ ends'[c][Len(ends[c]) + 1] = m
          /\ \A i \in 1 .. Len(ends[c]) : ends'[c][i] = ends[c][i] /\ ends[c][i] \in Nat
      BY <1>3, <1>4, <3>1
    <3>3. ASSUME NEW i \in 1 .. Len(ends[c]) PROVE ends[c][i] < m
      <4>1. Len(ends[c]) \in DOMAIN ends[c] /\ Sent(c) = ends[c][Len(ends[c])]
        BY <3>2, SentFacts
      <4>2. i < Len(ends[c]) => ends[c][i] < ends[c][Len(ends[c])]
        BY <3>2, <4>1 DEF SendInv
      <4>3. Sent(c) < m /\ Sent(c) \in Nat /\ m \in Nat BY <1>3, SentFacts
      <4>4. /\ i \in Nat /\ i <= Len(ends[c]) /\ Len(ends[c]) \in Nat
            /\ ends[c][i] \in Nat
        BY <3>2
      <4>5. QED BY ONLY <4>1, <4>2, <4>3, <4>4
    <3>4. ASSUME NEW i \in DOMAIN ends'[c], NEW j \in DOMAIN ends'[c], i < j
          PROVE  ends'[c][i] < ends'[c][j]
      <4>1. i \in 1 .. Len(ends[c]) BY <3>2, <3>4
      <4>2. CASE j = Len(ends[c]) + 1 BY <3>2, <3>3, <4>1, <4>2
      <4>3. CASE j \in 1 .. Len(ends[c])
        <5>1. ends[c][i] < ends[c][j] BY <3>2, <3>4, <4>1, <4>3 DEF SendInv
        <5>2. QED BY <3>2, <4>1, <4>3, <5>1
      <4>4. QED BY <3>2, <4>2, <4>3
    <3>5. QED BY <2>2, <3>2, <3>4
  <2>3. QED BY <2>1, <2>2
<1>8. SendInv'
  <2>1. SUFFICES ASSUME NEW d \in Conns
                 PROVE  /\ waiting[d] \in 0 .. Len(ends'[d])
                        /\ \A i, j \in DOMAIN ends'[d] :
                             i < j => ends'[d][i] < ends'[d][j]
                        /\ \A l \in DOMAIN sendCq[d] :
                             /\ sendCq[d][l] \in DOMAIN ends'[d]
                             /\ ends'[d][sendCq[d][l]] <= delivered[d]
    BY <1>1 DEF SendInv
  <2>2. waiting[d] \in 0 .. Len(ends'[d])
    <3>1. Len(ends'[d]) \in Nat BY <1>5
    <3>2. QED BY <1>7, <3>1 DEF SendInv
  <2>3. QED BY <1>7, <2>2 DEF SendInv
<1>9. QED BY <1>1, <1>6, <1>8, ReceiversUnchanged

\* Wait takes a send completion, which stands for a call delivered whole.
LEMMA WaitInv == ASSUME IInv, NEW c \in Conns, Wait(c) PROVE IInv'
<1> USE DEF IInv
<1>1. /\ single' = single /\ ends' = ends /\ sendCq' = sendCq /\ ackd' = ackd
      /\ delivered' = delivered /\ broken' = broken /\ UNCHANGED rcvVars
  BY DEF Wait, qpVars
<1>2. PICK id \in DOMAIN ends[c] : waiting' = [waiting EXCEPT ![c] = id]
  BY DEF Wait
<1>3. ends[c] \in Seq(Nat) /\ id \in 1 .. Len(ends[c]) /\ Len(ends[c]) \in Nat
  <2>1. ends[c] \in Seq(Nat) BY DEF TypeOK
  <2>2. QED BY <1>2, <2>1
<1>4. TypeOK'
  <2>1. waiting' \in [Conns -> Nat]
    <3>1. waiting \in [Conns -> Nat] BY DEF TypeOK
    <3>2. id \in Nat BY <1>3
    <3>3. QED BY ONLY <1>2, <3>1, <3>2
  <2>2. QED BY <1>1, <2>1 DEF TypeOK, rcvVars, rqVars, RQTypeOK
<1>5. \A d \in Conns : waiting'[d] = IF d = c THEN id ELSE waiting[d]
  BY <1>2 DEF TypeOK
<1>6. SendInv' BY <1>1, <1>3, <1>5 DEF SendInv
<1>7. QED BY <1>1, <1>4, <1>6, ReceiversUnchanged

\* A completion is polled; WaitSound of the step.
LEMMA WaitPollInv ==
  ASSUME IInv, NEW c \in Conns, WaitPoll(c)
  PROVE  /\ IInv'
         /\ \A d \in Conns : waiting[d] # 0 /\ waiting'[d] = 0 =>
              ends[d][waiting[d]] <= delivered[d]
<1> USE DEF IInv
<1>1. /\ single' = single /\ ends' = ends /\ delivered' = delivered
      /\ broken' = broken /\ UNCHANGED rcvVars
      /\ waiting[c] # 0 /\ sendCq[c] # <<>>
      /\ ackd' = [ackd EXCEPT ![c] = Head(sendCq[c])]
      /\ sendCq' = [sendCq EXCEPT ![c] = Tail(sendCq[c])]
      /\ waiting' = [waiting EXCEPT ![c] = IF Acked(ackd'[c], waiting[c])
                                             THEN 0 ELSE waiting[c]]
  BY DEF WaitPoll, qpVars
<1>2. /\ ends[c] \in Seq(Nat) /\ sendCq[c] \in Seq(Nat) /\ ackd \in [Conns -> Nat]
      /\ waiting \in [Conns -> Nat] /\ sendCq \in [Conns -> Seq(Nat)]
  BY DEF TypeOK
<1> DEFINE id == Head(sendCq[c])
<1>3. /\ id = sendCq[c][1] /\ 1 \in DOMAIN sendCq[c] /\ id \in Nat
      /\ Tail(sendCq[c]) \in Seq(Nat) /\ DOMAIN Tail(sendCq[c]) = 1 .. Len(sendCq[c]) - 1
      /\ \A l \in 1 .. Len(sendCq[c]) - 1 :
           l + 1 \in DOMAIN sendCq[c] /\ Tail(sendCq[c])[l] = sendCq[c][l + 1]
  BY <1>1, <1>2
<1>4. id \in DOMAIN ends[c] /\ ends[c][id] <= delivered[c] BY <1>3 DEF SendInv
<1> HIDE DEF id
<1>5. /\ \A d \in Conns : d # c => sendCq'[d] = sendCq[d] /\ waiting'[d] = waiting[d]
      /\ sendCq'[c] = Tail(sendCq[c]) /\ ackd'[c] = id
      /\ waiting'[c] = IF id >= waiting[c] THEN 0 ELSE waiting[c]
  BY <1>1, <1>2 DEF Acked, id
<1>6. TypeOK'
  <2>1. ackd' \in [Conns -> Nat] BY <1>1, <1>2, <1>3 DEF id
  <2>2. sendCq' \in [Conns -> Seq(Nat)] BY <1>1, <1>2, <1>3
  <2>3. waiting' \in [Conns -> Nat]
    <3>1. waiting[c] \in Nat BY <1>2
    <3>2. PICK v \in Nat : waiting' = [waiting EXCEPT ![c] = v]
      <4>1. CASE Acked(ackd'[c], waiting[c]) BY <1>1, <4>1
      <4>2. CASE ~Acked(ackd'[c], waiting[c]) BY <1>1, <3>1, <4>2
      <4>3. QED BY <4>1, <4>2
    <3>3. QED BY ONLY <1>2, <3>2
  <2>4. QED BY <1>1, <2>1, <2>2, <2>3 DEF TypeOK, rcvVars, rqVars, RQTypeOK
<1>7. SendInv'
  <2>1. SUFFICES ASSUME NEW d \in Conns
                 PROVE  /\ waiting'[d] \in 0 .. Len(ends[d])
                        /\ \A i, j \in DOMAIN ends[d] :
                             i < j => ends[d][i] < ends[d][j]
                        /\ \A l \in DOMAIN sendCq'[d] :
                             /\ sendCq'[d][l] \in DOMAIN ends[d]
                             /\ ends[d][sendCq'[d][l]] <= delivered[d]
    BY <1>1 DEF SendInv
  <2>2. CASE d # c BY <1>5, <2>2 DEF SendInv
  <2>3. CASE d = c
    <3>1. waiting'[c] \in 0 .. Len(ends[c]) BY <1>2, <1>5 DEF SendInv
    <3>2. \A l \in DOMAIN sendCq'[c] :
            l + 1 \in DOMAIN sendCq[c] /\ sendCq'[c][l] = sendCq[c][l + 1]
      BY <1>3, <1>5
    <3>3. QED BY <2>3, <3>1, <3>2 DEF SendInv
  <2>4. QED BY <2>2, <2>3
<1>8. ASSUME NEW d \in Conns, waiting[d] # 0, waiting'[d] = 0
      PROVE  ends[d][waiting[d]] <= delivered[d]
  <2>1. d = c BY <1>5, <1>8
  <2>2. waiting[c] <= id BY <1>2, <1>3, <1>5, <1>8, <2>1
  <2>3. waiting[c] \in DOMAIN ends[c] BY <1>2, <1>8, <2>1 DEF SendInv
  <2>4. CASE waiting[c] = id BY <1>4, <2>1, <2>4
  <2>5. CASE waiting[c] < id
    <3>1. ends[c][waiting[c]] < ends[c][id] BY <1>4, <2>3, <2>5 DEF SendInv
    <3>2. /\ ends[c][waiting[c]] \in Nat /\ ends[c][id] \in Nat
          /\ delivered[c] \in Nat
      <4>1. \A i \in DOMAIN ends[c] : ends[c][i] \in Nat BY <1>2
      <4>2. delivered[c] \in Nat BY DEF TypeOK
      <4>3. QED BY <1>4, <2>3, <4>1, <4>2
    <3>3. QED BY <1>4, <2>1, <3>1, <3>2
  <2>6. QED BY <1>2, <1>3, <2>2, <2>4, <2>5
<1>9. QED BY <1>1, <1>6, <1>7, <1>8, ReceiversUnchanged

\* A wait on a broken connection fails and leaves everything in its place.
LEMMA WaitFailInv == ASSUME IInv, NEW c \in Conns, WaitFail(c) PROVE IInv'
<1> USE DEF IInv
<1>1. /\ single' = single /\ ends' = ends /\ sendCq' = sendCq /\ ackd' = ackd
      /\ delivered' = delivered /\ broken' = broken /\ UNCHANGED rcvVars
      /\ waiting' = [waiting EXCEPT ![c] = 0]
  BY DEF WaitFail, qpVars
<1>2. TypeOK' BY <1>1 DEF TypeOK, rcvVars, rqVars, RQTypeOK
<1>3. \A d \in Conns : waiting'[d] = 0 \/ waiting'[d] = waiting[d]
  BY <1>1 DEF TypeOK
<1>4. \A d \in Conns : Len(ends[d]) \in Nat BY DEF TypeOK
<1>5. SendInv' BY <1>1, <1>3, <1>4 DEF SendInv
<1>6. QED BY <1>1, <1>2, <1>5, ReceiversUnchanged

\* A connection breaks without any buffer moving.
LEMMA BreakInv == ASSUME IInv, NEW c \in Conns, Break(c) PROVE IInv'
<1> USE DEF IInv
<1>1. /\ single' = single /\ ends' = ends /\ sendCq' = sendCq /\ ackd' = ackd
      /\ delivered' = delivered /\ waiting' = waiting /\ UNCHANGED rcvVars
      /\ broken' = [broken EXCEPT ![c] = TRUE]
  BY DEF Break, sndVars
<1>2. TypeOK' BY <1>1 DEF TypeOK, rcvVars, rqVars, RQTypeOK
<1>3. SendInv' BY <1>1 DEF SendInv
<1>4. QED BY <1>1, <1>2, <1>3, ReceiversUnchanged

-----------------------------------------------------------------------------
(* Steps of the network and of the receivers *)

\* A message arrives in the first posted buffer, behind what its receiver was
\* told of before.
LEMMA DeliverInv == ASSUME IInv, NEW c \in Conns, Deliver(c) PROVE IInv'
<1> USE DEF IInv
<1> DEFINE n == delivered[c] + 1
<1>x. PICK r, x, y : r = ReceiverOf(c) /\ x = Head(recvs) /\ y = [id |-> x, conn |-> c]
  OBVIOUS
<1>1. /\ single' = single /\ ends' = ends /\ ackd' = ackd /\ waiting' = waiting
      /\ broken' = broken /\ cached' = cached /\ taken' = taken /\ held' = held
      /\ stub' = stub /\ turn' = turn
      /\ recvs # <<>> /\ recvs' = Tail(recvs) /\ batch' = batch
      /\ buf' = [buf EXCEPT ![x] = <<c, n>>]
      /\ cq' = [cq EXCEPT ![r] = Append(cq[r], y)]
      /\ delivered' = [delivered EXCEPT ![c] = n]
  BY <1>x DEF Deliver, Consume
<1>2. sendCq' = IF Completes(c, n) = {} THEN sendCq
                ELSE [sendCq EXCEPT ![c] =
                        Append(sendCq[c], CHOOSE id \in Completes(c, n) : TRUE)]
  BY DEF Deliver
<1>3. /\ r \in Receivers /\ delivered \in [Conns -> Nat] /\ taken \in [Conns -> Nat]
      /\ taken[c] \in Nat /\ delivered[c] \in Nat /\ single \in BOOLEAN
      /\ buf \in [Buffers -> Conns \X Nat \cup {<<>>}]
      /\ r = IF single THEN Listener ELSE c
  BY <1>x, ConstantFacts DEF TypeOK, ReceiverOf
<1>4. /\ x \in Buffers /\ x \in Members(recvs) /\ recvs' \in Seq(Buffers)
      /\ Members(recvs') = Members(recvs) \ {x} /\ NoDuplicates(recvs')
  BY <1>x, <1>1, StateFacts, TailOfQueue DEF PlacesInv
<1>5. y \in Completion /\ y.id = x BY <1>x, <1>4 DEF Completion
<1>6. /\ Pending(r)' = Append(Pending(r), y)
      /\ \A q \in Receivers : q # r => Pending(q)' = Pending(q)
  <2>1. /\ cq'[r] = Append(cq[r], y) /\ cached'[r] = cached[r]
        /\ \A q \in Receivers : q # r => cq'[q] = cq[q] /\ cached'[q] = cached[q]
    BY <1>1, <1>3, StateFacts
  <2>2. cq[r] \in Seq(Completion) /\ cached[r] \in Seq(Completion)
    BY <1>3, StateFacts
  <2>3. cached[r] \o Append(cq[r], y) = Append(cached[r] \o cq[r], y)
    <3>1. \A s, t \in Seq(Completion) : \A z \in Completion :
            s \o Append(t, z) = Append(s \o t, z)
      BY AppendToConcat
    <3>2. QED BY ONLY <1>5, <2>2, <3>1
  <2>4. QED BY <2>1, <2>3 DEF Pending
<1>7. /\ x \notin Members(batch) /\ x \notin Held
      /\ \A q \in Receivers : x \notin Completed[q]
      /\ Divided(Members(recvs) \ {x}, Members(batch),
                 [Completed EXCEPT ![r] = @ \cup {x}], Held, Stubbed)
  <2>1. Divided(Members(recvs), Members(batch), Completed, Held, Stubbed)
    BY DEF PlacesInv
  <2>2. x \notin Members(batch) /\ x \notin Held
        /\ \A q \in Receivers : x \notin Completed[q]
    BY <1>4, <2>1 DEF Divided
  <2>3. Divided(Members(recvs) \ {x}, Members(batch),
                [Completed EXCEPT ![r] = @ \cup {x}], Held, Stubbed)
    <3>1. Completed \in [Receivers -> SUBSET Buffers] BY StateFacts
    <3>2. x \in Members(recvs) /\ r \in Receivers BY <1>3, <1>4
    <3>3. QED BY <2>1, <3>1, <3>2, PostedToCompleted, ZenonT(30)
  <2>4. QED BY <2>2, <2>3
<1>8. /\ Members(Ids(Pending(r)')) = Members(Ids(Pending(r))) \cup {x}
      /\ NoDuplicates(Ids(Pending(r)'))
  <2>1. Ids(Pending(r)') = Append(Ids(Pending(r)), x) /\ Ids(Pending(r)) \in Seq(Buffers)
    <3>1. Pending(r) \in Seq(Completion) BY <1>3, StateFacts
    <3>2. /\ Ids(Pending(r)) \in Seq(Buffers)
          /\ Ids(Append(Pending(r), y)) = Append(Ids(Pending(r)), y.id)
      BY ONLY <1>5, <3>1, IdsOfQueue
    <3>3. QED BY ONLY <1>5, <1>6, <3>2
  <2>2. x \notin Members(Ids(Pending(r))) /\ NoDuplicates(Ids(Pending(r)))
    BY <1>3, <1>7 DEF Completed, PlacesInv
  <2>3. QED BY <1>4, <2>1, <2>2, AppendToQueue
<1>9. PlacesInv'
  <2>1. Completed' = [Completed EXCEPT ![r] = @ \cup {x}]
    BY <1>3, <1>6, <1>8 DEF Completed
  <2>2. Held' = Held /\ Stubbed' = Stubbed BY <1>1 DEF Held, Stubbed
  <2>3. Divided(Members(recvs'), Members(batch'), Completed', Held', Stubbed')
    BY <1>1, <1>4, <1>7, <2>1, <2>2
  <2>4. \A q \in Receivers : NoDuplicates(Ids(Pending(q)'))
    BY <1>6, <1>8 DEF PlacesInv
  <2>5. QED BY <1>1, <1>4, <2>3, <2>4 DEF PlacesInv
<1>10. OrderInv'
  <2>1. ASSUME NEW q \in Receivers
        PROVE  InOrder(Pending(q)', q, single, buf', taken, delivered')
    <3>1. /\ Pending(q) \in Seq(Completion) /\ taken[c] <= delivered[c]
          /\ InOrder(Pending(q), q, single, buf, taken, delivered)
          /\ x \notin Members(Ids(Pending(q)))
      BY <1>7, StateFacts DEF OrderInv, Completed
    <3> DEFINE buf2 == [buf EXCEPT ![x] = <<c, delivered[c] + 1>>]
    <3> DEFINE dl2 == [delivered EXCEPT ![c] = delivered[c] + 1]
    <3>2. /\ q # (IF single THEN Listener ELSE c) =>
               InOrder(Pending(q), q, single, buf2, taken, dl2)
          /\ q = (IF single THEN Listener ELSE c) =>
               InOrder(Append(Pending(q), [id |-> x, conn |-> c]), q, single, buf2,
                       taken, dl2)
      <4>1. DeliveryInOrder(Pending(q), q, single, buf, taken, delivered, c, x)
        BY OrderAfterDelivery
      <4>2. QED BY ONLY <1>3, <1>4, <3>1, c \in Conns, <4>1 DEF DeliveryInOrder
    <3>3. buf' = buf2 /\ delivered' = dl2 BY <1>1
    <3> HIDE DEF buf2, dl2
    <3>4. QED BY <1>x, <1>3, <1>6, <3>2, <3>3
  <2>2. \A d \in Conns : taken[d] <= delivered'[d]
    BY <1>1, <1>3 DEF OrderInv
  <2>3. QED BY <1>1, <2>1, <2>2 DEF OrderInv
<1>11. HeldIntact'
  <2>1. SUFFICES ASSUME NEW h \in held PROVE buf'[h.buf] = h.msg
    BY <1>1 DEF HeldIntact
  <2>2. h.buf \in Buffers /\ h.buf # x BY <1>7, StateFacts DEF Held
  <2>3. QED BY <1>1, <1>3, <2>2 DEF HeldIntact
<1>12. /\ sendCq' \in [Conns -> Seq(Nat)]
       /\ \A d \in Conns : \A l \in DOMAIN sendCq'[d] :
            sendCq'[d][l] \in DOMAIN ends[d] /\ ends[d][sendCq'[d][l]] <= delivered'[d]
  <2>1. \A d \in Conns : delivered[d] <= delivered'[d] /\ delivered[d] \in Nat
                         /\ delivered'[d] \in Nat
    BY <1>1, <1>3
  <2>2. /\ sendCq \in [Conns -> Seq(Nat)]
        /\ \A d \in Conns : ends[d] \in Seq(Nat)
    BY DEF TypeOK
  <2>3. \A d \in Conns : \A l \in DOMAIN sendCq[d] :
          sendCq[d][l] \in DOMAIN ends[d] /\ ends[d][sendCq[d][l]] <= delivered'[d]
    <3>1. SUFFICES ASSUME NEW d \in Conns, NEW l \in DOMAIN sendCq[d]
                   PROVE  /\ sendCq[d][l] \in DOMAIN ends[d]
                          /\ ends[d][sendCq[d][l]] <= delivered'[d]
      OBVIOUS
    <3>2. sendCq[d][l] \in DOMAIN ends[d] /\ ends[d][sendCq[d][l]] <= delivered[d]
      BY DEF SendInv
    <3>3. ends[d][sendCq[d][l]] \in Nat BY <2>2, <3>2
    <3>4. QED BY <2>1, <3>2, <3>3
  <2>4. CASE Completes(c, n) = {} BY <1>2, <2>2, <2>3, <2>4
  <2>5. CASE Completes(c, n) # {}
    <3>1. PICK id \in Completes(c, n) :
            sendCq' = [sendCq EXCEPT ![c] = Append(sendCq[c], id)]
      BY <1>2, <2>5
    <3>2. id \in DOMAIN ends[c] /\ ends[c][id] = n /\ id \in Nat
      BY <2>2, <3>1 DEF Completes
    <3>3. n <= delivered'[c] BY <1>1, <1>3
    <3>4. /\ sendCq'[c] = Append(sendCq[c], id) /\ sendCq[c] \in Seq(Nat)
          /\ \A d \in Conns : d # c => sendCq'[d] = sendCq[d]
      BY <2>2, <3>1
    <3>5. \A l \in DOMAIN sendCq'[c] :
            \/ l \in DOMAIN sendCq[c] /\ sendCq'[c][l] = sendCq[c][l]
            \/ sendCq'[c][l] = id
      BY <3>2, <3>4
    <3>6. sendCq' \in [Conns -> Seq(Nat)] BY <2>2, <3>1, <3>2, <3>4
    <3>7. ASSUME NEW d \in Conns, NEW l \in DOMAIN sendCq'[d]
          PROVE  /\ sendCq'[d][l] \in DOMAIN ends[d]
                 /\ ends[d][sendCq'[d][l]] <= delivered'[d]
      <4>1. CASE d # c BY <2>3, <3>4, <3>7, <4>1
      <4>2. CASE d = c
        <5>1. CASE l \in DOMAIN sendCq[c] /\ sendCq'[c][l] = sendCq[c][l]
          BY <2>3, <4>2, <5>1
        <5>2. CASE sendCq'[c][l] = id BY <3>2, <3>3, <4>2, <5>2
        <5>3. QED BY <3>5, <3>7, <4>2, <5>1, <5>2
      <4>3. QED BY <4>1, <4>2
    <3>8. QED BY <3>6, <3>7
  <2>6. QED BY <2>4, <2>5
<1>13. TypeOK'
  <2>1. RQTypeOK' BY <1>1, <1>4 DEF TypeOK, RQTypeOK
  <2>2. buf' \in [Buffers -> Conns \X Nat \cup {<<>>}]
    <3>1. <<c, n>> \in Conns \X Nat BY <1>3
    <3> HIDE DEF n
    <3>2. QED BY <1>1, <1>3, <3>1
  <2>3. cq' \in [Receivers -> Seq(Completion)]
    <3>1. Append(cq[r], y) \in Seq(Completion) BY <1>3, <1>5, StateFacts
    <3>2. QED BY <1>1, <3>1, StateFacts
  <2>4. delivered' \in [Conns -> Nat] BY <1>1, <1>3
  <2>5. QED BY <1>1, <1>12, <2>1, <2>2, <2>3, <2>4 DEF TypeOK
<1>14. SendInv' BY <1>1, <1>12 DEF SendInv
<1>15. QED BY <1>9, <1>10, <1>11, <1>13, <1>14

\* The application receives the next message of the connection whose message is
\* first among the completions of the receiver.
LEMMA ReceiveInv == ASSUME IInv, NEW r \in Receivers, Receive(r) PROVE IInv'
<1> USE DEF IInv
<1> DEFINE p == Pending(r)
<1> DEFINE wc == NextWc(cached[r], cq[r])
<1> DEFINE g == [buf |-> wc.id, msg |-> <<wc.conn, taken[wc.conn] + 1>>]
<1>1. /\ single' = single /\ ends' = ends /\ sendCq' = sendCq /\ ackd' = ackd
      /\ waiting' = waiting /\ delivered' = delivered /\ broken' = broken
      /\ recvs' = recvs /\ batch' = batch /\ buf' = buf /\ stub' = stub
      /\ turn' = turn
      /\ CanPoll(cached[r], cq[r])
      /\ held' = held \cup {g}
      /\ taken' = [taken EXCEPT ![wc.conn] = @ + 1]
      /\ cached' = [cached EXCEPT ![r] = Polled(r).cached]
      /\ cq' = [cq EXCEPT ![r] = Polled(r).cq]
  BY DEF Receive, sndVars, qpVars, rqVars
<1>2. /\ cached[r] \in Seq(Completion) /\ cq[r] \in Seq(Completion)
      /\ p \in Seq(Completion) /\ taken \in [Conns -> Nat]
      /\ delivered \in [Conns -> Nat] /\ single \in BOOLEAN
  BY StateFacts DEF TypeOK
<1>3. /\ p # <<>> /\ wc = Head(p)
      /\ Polled(r).cached \in Seq(Completion) /\ Polled(r).cq \in Seq(Completion)
      /\ Polled(r).cached \o Polled(r).cq = Tail(p)
      /\ r = Listener => Polled(r).cached = <<>>
  <2>1. CASE r = Listener
    <3>1. cached[r] = <<>> BY <2>1, StateFacts
    <3>2. cq[r] # <<>> /\ wc = Head(cq[r]) BY <1>1, <3>1 DEF CanPoll, NextWc
    <3>3. p = cq[r] BY <1>2, <3>1 DEF Pending
    <3>4. Polled(r).cached = <<>> /\ Polled(r).cq = Tail(cq[r]) BY <2>1 DEF Polled
    <3>5. Tail(cq[r]) \in Seq(Completion) BY <1>2, <3>2
    <3>6. QED BY <3>2, <3>3, <3>4, <3>5
  <2>2. CASE r # Listener
    <3>1. Polled(r) = AfterPoll(cached[r], cq[r]) BY <2>2 DEF Polled
    <3>2. QED BY <1>1, <1>2, <2>2, <3>1, PollTakesFirst DEF Pending
  <2>3. QED BY <2>1, <2>2
<1>4. /\ Pending(r)' = Tail(p)
      /\ \A q \in Receivers : q # r => Pending(q)' = Pending(q)
  <2>1. /\ cq'[r] = Polled(r).cq /\ cached'[r] = Polled(r).cached
        /\ \A q \in Receivers : q # r => cq'[q] = cq[q] /\ cached'[q] = cached[q]
    BY <1>1, StateFacts
  <2>2. QED BY <1>3, <2>1 DEF Pending
<1>5. /\ wc \in Completion /\ wc.conn \in Conns /\ wc.id \in Buffers
      /\ r = (IF single THEN Listener ELSE wc.conn)
      /\ buf[wc.id] = <<wc.conn, taken[wc.conn] + 1>>
      /\ taken'[wc.conn] <= delivered[wc.conn]
      /\ InOrder(Tail(p), r, single, buf, taken', delivered)
  <2>1. InOrder(p, r, single, buf, taken, delivered) BY DEF OrderInv
  <2> DEFINE tk2 == [taken EXCEPT ![Head(p).conn] = taken[Head(p).conn] + 1]
  <2>2. taken' = tk2 /\ p # <<>> /\ wc = Head(p) BY <1>1, <1>3
  <2> HIDE DEF p, wc
  <2>3. /\ Head(p) \in Completion /\ Head(p).conn \in Conns
        /\ Head(p).id \in Buffers
        /\ r = (IF single THEN Listener ELSE Head(p).conn)
        /\ buf[Head(p).id] = <<Head(p).conn, taken[Head(p).conn] + 1>>
        /\ tk2[Head(p).conn] <= delivered[Head(p).conn]
        /\ InOrder(Tail(p), r, single, buf, tk2, delivered)
    <3>1. ReceiveInOrder(p, r, single, buf, taken, delivered) BY OrderAfterReceive
    <3>2. QED BY ONLY <1>2, <2>1, <2>2, <3>1 DEF ReceiveInOrder
  <2> HIDE DEF tk2
  <2>4. QED BY <2>2, <2>3
<1>6. /\ g.buf = wc.id /\ g.msg = <<wc.conn, taken[wc.conn] + 1>>
      /\ g \in [buf : Buffers, msg : Conns \X Nat]
  BY <1>2, <1>5
<1> HIDE DEF p, wc, g
<1>7. /\ Ids(p) \in Seq(Buffers) /\ Ids(p) # <<>> /\ Head(Ids(p)) = wc.id
      /\ Ids(Tail(p)) = Tail(Ids(p)) /\ NoDuplicates(Ids(p))
      /\ Members(Ids(p)) = Completed[r]
  BY <1>2, <1>3, IdsOfQueue DEF PlacesInv, Completed, p
<1>8. /\ wc.id \in Completed[r] /\ NoDuplicates(Ids(Tail(p)))
      /\ Members(Ids(Tail(p))) = Completed[r] \ {wc.id}
  <2>1. /\ Head(Ids(p)) \in Members(Ids(p)) /\ NoDuplicates(Tail(Ids(p)))
        /\ Members(Tail(Ids(p))) = Members(Ids(p)) \ {Head(Ids(p))}
    BY <1>7, TailOfQueue, ZenonT(30)
  <2>2. QED BY ONLY <1>7, <2>1
<1>9. /\ wc.id \notin Held
      /\ Divided(Members(recvs), Members(batch), [Completed EXCEPT ![r] = @ \ {wc.id}],
                 Held \cup {wc.id}, Stubbed)
  <2>1. Divided(Members(recvs), Members(batch), Completed, Held, Stubbed)
    BY DEF PlacesInv
  <2>2. Completed \in [Receivers -> SUBSET Buffers] BY StateFacts
  <2>3. QED BY <1>8, <2>1, <2>2, CompletedToHeld, ZenonT(30)
<1>10. PlacesInv'
  <2>1. Completed' = [Completed EXCEPT ![r] = @ \ {wc.id}]
    BY <1>4, <1>8 DEF Completed
  <2>2. Held' = Held \cup {wc.id} BY <1>1, <1>6 DEF Held
  <2>3. Stubbed' = Stubbed BY <1>1 DEF Stubbed
  <2>4. Divided(Members(recvs'), Members(batch'), Completed', Held', Stubbed')
    BY <1>1, <1>9, <2>1, <2>2, <2>3
  <2>5. \A q \in Receivers : NoDuplicates(Ids(Pending(q)'))
    BY <1>4, <1>8 DEF PlacesInv
  <2>6. ASSUME NEW h \in held', NEW k \in held', h.buf = k.buf PROVE h = k
    <3>1. \A m \in held : m.buf # wc.id BY <1>9 DEF Held
    <3>2. (h \in held \/ h = g) /\ (k \in held \/ k = g) BY <1>1
    <3>3. QED BY <1>6, <2>6, <3>1, <3>2 DEF PlacesInv
  <2>7. QED BY <1>1, <2>4, <2>5, <2>6 DEF PlacesInv
<1>11. OrderInv'
  <2>1. ASSUME NEW q \in Receivers, q # r
        PROVE  InOrder(Pending(q), q, single, buf, taken', delivered)
    <3>1. InOrder(Pending(q), q, single, buf, taken, delivered) BY DEF OrderInv
    <3>2. \A d \in Conns : q = (IF single THEN Listener ELSE d) => taken'[d] = taken[d]
      BY <1>1, <1>2, <1>5, <2>1
    <3>3. \A i \in DOMAIN Pending(q) :
            /\ Pending(q)[i].conn \in Conns
            /\ q = IF single THEN Listener ELSE Pending(q)[i].conn
      <4>1. Pending(q) \in Seq(Completion) BY StateFacts
      <4>2. \A z \in Completion : z.conn \in Conns BY DEF Completion
      <4>3. QED BY <3>1, <4>1, <4>2 DEF InOrder
    <3>4. \A i \in DOMAIN Pending(q) :
            taken'[Pending(q)[i].conn] = taken[Pending(q)[i].conn]
      BY <3>2, <3>3
    <3>5. QED BY <3>1, <3>2, <3>4, OtherOrder
  <2>2. \A q \in Receivers : InOrder(Pending(q)', q, single, buf, taken', delivered)
    BY <1>4, <1>5, <2>1
  <2>3. \A d \in Conns : taken'[d] <= delivered[d]
    BY <1>1, <1>2, <1>5 DEF OrderInv
  <2>4. QED BY <1>1, <2>2, <2>3 DEF OrderInv
<1>12. HeldIntact' BY <1>1, <1>5, <1>6 DEF HeldIntact
<1>13. TypeOK'
  <2>1. RQTypeOK' BY <1>1 DEF TypeOK, RQTypeOK
  <2>2. held' \subseteq [buf : Buffers, msg : Conns \X Nat]
    BY <1>1, <1>6 DEF TypeOK
  <2>3. taken' \in [Conns -> Nat]
    <3>1. taken[wc.conn] + 1 \in Nat BY <1>2, <1>5
    <3>2. QED BY <1>1, <1>2, <3>1
  <2>4. cq' \in [Receivers -> Seq(Completion)] BY <1>1, <1>3, StateFacts
  <2>5. cached' \in [Receivers -> Seq(Completion)] /\ cached'[Listener] = <<>>
    BY <1>1, <1>3, StateFacts, ConstantFacts
  <2>6. QED BY <1>1, <2>1, <2>2, <2>3, <2>4, <2>5 DEF TypeOK
<1>14. SendInv' BY <1>1 DEF SendInv
<1>15. QED BY <1>10, <1>11, <1>12, <1>13, <1>14

\* PostMR puts a buffer in the batch, and posts the batch when that fills it.
LEMMA PostMRStep ==
  ASSUME TypeOK, NoDuplicates(recvs), NoDuplicates(batch),
         NEW w, NEW h, NEW s, NEW x \in Buffers, x \notin Members(batch),
         Divided(Members(recvs), Members(batch) \cup {x}, w, h, s), PostMR(x)
  PROVE  /\ RQTypeOK' /\ NoDuplicates(recvs') /\ NoDuplicates(batch')
         /\ Divided(Members(recvs'), Members(batch'), w, h, s)
<1> DEFINE g == <<x>> \o batch
<1>1. recvs \in Seq(Buffers) /\ batch \in Seq(Buffers) /\ Len(batch) < Batch
  BY DEF TypeOK, RQTypeOK
<1>2. g \in Seq(Buffers) /\ Members(g) = Members(batch) \cup {x} /\ NoDuplicates(g)
  <2>1. PICK t : t = <<x>> OBVIOUS
  <2>2. t \in Seq(Buffers) /\ Members(t) = {x} /\ NoDuplicates(t)
    BY <2>1, SingleQueue
  <2>3. \A z \in Members(t) : z \notin Members(batch) BY <2>2
  <2>4. /\ t \o batch \in Seq(Buffers) /\ NoDuplicates(t \o batch)
        /\ Members(t \o batch) = Members(t) \cup Members(batch)
    BY ONLY <1>1, <2>2, <2>3, NoDuplicates(batch), ConcatOfQueues
  <2>5. QED BY <2>1, <2>2, <2>4
<1>3. Len(g) \in Nat /\ Len(g) <= Batch /\ Batch \in Nat \ {0}
  BY <1>1, ConstantFacts
<1>4. /\ Len(g) = Batch => recvs' = recvs \o g /\ batch' = <<>>
      /\ Len(g) # Batch => batch' = g /\ recvs' = recvs
  BY DEF PostMR
<1> HIDE DEF g
<1>5. CASE Len(g) # Batch
  <2>1. RQTypeOK' BY <1>1, <1>2, <1>3, <1>4, <1>5 DEF RQTypeOK
  <2>2. QED BY <1>2, <1>4, <1>5, <2>1
<1>6. CASE Len(g) = Batch
  <2>1. \A z \in Members(recvs) : z \notin Members(g) BY <1>2 DEF Divided
  <2>2. /\ recvs \o g \in Seq(Buffers) /\ NoDuplicates(recvs \o g)
        /\ Members(recvs \o g) = Members(recvs) \cup Members(g)
    BY ONLY <1>1, <1>2, <2>1, NoDuplicates(recvs), ConcatOfQueues
  <2>3. /\ <<>> \in Seq(Buffers) /\ Len(<<>>) = 0 /\ Members(<<>>) = {}
        /\ NoDuplicates(<<>>)
    BY DEF Members, NoDuplicates
  <2>4. RQTypeOK'
    <3>1. /\ recvs' \in Seq(Buffers) /\ batch' \in Seq(Buffers) /\ Len(batch') = 0
      BY <1>4, <1>6, <2>2, <2>3
    <3>2. QED BY <1>3, <3>1 DEF RQTypeOK
  <2>5. Divided(Members(recvs) \cup Members(g), {}, w, h, s)
    BY <1>2, BatchToPosted
  <2>6. QED BY <1>4, <1>6, <2>2, <2>3, <2>4, <2>5
<1>7. QED BY <1>5, <1>6

\* A buffer is freed: by the listener into the batch, by a connection into its
\* queue to Run.
LEMMA FreeInv == ASSUME IInv, Free PROVE IInv'
<1> USE DEF IInv
<1>1. PICK h \in held :
        /\ held' = held \ {h}
        /\ IF single
           THEN PostMR(h.buf) /\ UNCHANGED stub
           ELSE /\ stub' = [stub EXCEPT ![h.msg[1]] = Append(stub[h.msg[1]], h.buf)]
                /\ UNCHANGED rqVars
        /\ UNCHANGED <<single, sndVars, qpVars, buf, cq, cached, taken, turn>>
  BY DEF Free
<1>2. PICK x, c : x = h.buf /\ c = h.msg[1] OBVIOUS
<1>3. x \in Buffers /\ c \in Conns
  <2>1. h.msg \in Conns \X Nat /\ h.buf \in Buffers BY StateFacts
  <2>2. QED BY <1>2, <2>1
<1>4. /\ single' = single /\ ends' = ends /\ sendCq' = sendCq /\ ackd' = ackd
      /\ waiting' = waiting /\ delivered' = delivered /\ broken' = broken
      /\ buf' = buf /\ cq' = cq /\ cached' = cached /\ taken' = taken /\ turn' = turn
  BY <1>1 DEF sndVars, qpVars
<1>5. /\ x \in Held /\ Held' = Held \ {x}
      /\ \A k, l \in held' : k.buf = l.buf => k = l
  <2>1. \A k \in held : k.buf = x => k = h BY <1>2 DEF PlacesInv
  <2>2. QED BY <1>1, <1>2, <2>1 DEF Held, PlacesInv
<1>6. /\ \A r \in Receivers : Pending(r)' = Pending(r)
      /\ Completed' = Completed
  BY <1>4 DEF Pending, Completed
<1>7. Divided(Members(recvs), Members(batch), Completed, Held, Stubbed)
  BY DEF PlacesInv
<1>8. /\ RQTypeOK' /\ stub' \in [Conns -> Seq(Buffers)]
      /\ NoDuplicates(recvs') /\ NoDuplicates(batch')
      /\ \A d \in Conns : NoDuplicates(stub'[d])
      /\ Divided(Members(recvs'), Members(batch'), Completed, Held \ {x}, Stubbed')
  <2>1. CASE single
    <3>1. x \notin Members(batch)
          /\ Divided(Members(recvs), Members(batch) \cup {x}, Completed, Held \ {x},
                     Stubbed)
      BY ONLY <1>5, <1>7, HeldToBatch
    <3>2. PostMR(x) /\ stub' = stub BY <1>1, <1>2, <2>1
    <3>3. NoDuplicates(recvs) /\ NoDuplicates(batch) BY DEF PlacesInv
    <3>4. /\ RQTypeOK' /\ NoDuplicates(recvs') /\ NoDuplicates(batch')
          /\ Divided(Members(recvs'), Members(batch'), Completed, Held \ {x}, Stubbed)
      BY <1>3, <3>1, <3>2, <3>3, PostMRStep
    <3>5. Stubbed' = Stubbed BY <3>2 DEF Stubbed
    <3>6. QED BY <3>2, <3>4, <3>5, StateFacts DEF PlacesInv
  <2>2. CASE ~single
    <3>1. /\ stub' = [stub EXCEPT ![c] = Append(stub[c], x)]
          /\ recvs' = recvs /\ batch' = batch
      BY <1>1, <1>2, <2>2 DEF rqVars
    <3>2. Stubbed \in [Conns -> SUBSET Buffers] /\ stub \in [Conns -> Seq(Buffers)]
      BY StateFacts
    <3>3. x \notin Stubbed[c]
          /\ Divided(Members(recvs), Members(batch), Completed, Held \ {x},
                     [Stubbed EXCEPT ![c] = Stubbed[c] \cup {x}])
      BY ONLY <1>3, <1>5, <1>7, <3>2, HeldToStub
    <3>4. stub[c] \in Seq(Buffers) /\ NoDuplicates(stub[c]) /\ x \notin Members(stub[c])
      BY <1>3, <3>2, <3>3 DEF PlacesInv, Stubbed
    <3>5. /\ Append(stub[c], x) \in Seq(Buffers) /\ NoDuplicates(Append(stub[c], x))
          /\ Members(Append(stub[c], x)) = Members(stub[c]) \cup {x}
      BY ONLY <1>3, <3>4, AppendToQueue
    <3>6. /\ stub' \in [Conns -> Seq(Buffers)] /\ stub'[c] = Append(stub[c], x)
          /\ \A d \in Conns : d # c => stub'[d] = stub[d]
      BY <1>3, <3>1, <3>2, <3>5
    <3>7. Stubbed' = [Stubbed EXCEPT ![c] = Stubbed[c] \cup {x}]
      BY <1>3, <3>5, <3>6 DEF Stubbed
    <3>8. \A d \in Conns : NoDuplicates(stub'[d]) BY <3>5, <3>6 DEF PlacesInv
    <3>9. RQTypeOK' BY <3>1 DEF TypeOK, RQTypeOK
    <3>10. QED BY <3>1, <3>3, <3>6, <3>7, <3>8, <3>9 DEF PlacesInv
  <2>3. QED BY <2>1, <2>2
<1>9. PlacesInv' BY <1>5, <1>6, <1>8 DEF PlacesInv
<1>10. OrderInv' BY <1>4, <1>6 DEF OrderInv
<1>11. HeldIntact' BY <1>1, <1>4 DEF HeldIntact
<1>12. TypeOK' BY <1>1, <1>4, <1>8 DEF TypeOK
<1>13. SendInv' BY <1>4 DEF SendInv
<1>14. QED BY <1>9, <1>10, <1>11, <1>12, <1>13

\* Run puts the first buffer of the queue it looks at in the batch.
LEMMA RunInv == ASSUME IInv, Run PROVE IInv'
<1> USE DEF IInv
<1>1. /\ single' = single /\ ends' = ends /\ sendCq' = sendCq /\ ackd' = ackd
      /\ waiting' = waiting /\ delivered' = delivered /\ broken' = broken
      /\ buf' = buf /\ cq' = cq /\ cached' = cached /\ taken' = taken
      /\ held' = held /\ turn' = NextTurn
  BY DEF Run, sndVars, qpVars
<1>2. PICK c \in Conns : c = turn BY DEF TypeOK
<1>3. turn' \in Conns
  BY <1>1, <1>2, ConstantFacts DEF NextTurn, Conns
<1>4. /\ \A r \in Receivers : Pending(r)' = Pending(r)
      /\ Completed' = Completed /\ Held' = Held
  BY <1>1 DEF Pending, Completed, Held
<1>5. /\ Divided(Members(recvs), Members(batch), Completed, Held, Stubbed)
      /\ NoDuplicates(recvs) /\ NoDuplicates(batch) /\ NoDuplicates(stub[c])
  BY DEF PlacesInv
<1>6. /\ Stubbed \in [Conns -> SUBSET Buffers] /\ stub \in [Conns -> Seq(Buffers)]
      /\ stub[c] \in Seq(Buffers)
  BY StateFacts
<1>7. /\ RQTypeOK' /\ stub' \in [Conns -> Seq(Buffers)]
      /\ NoDuplicates(recvs') /\ NoDuplicates(batch')
      /\ \A d \in Conns : NoDuplicates(stub'[d])
      /\ Divided(Members(recvs'), Members(batch'), Completed, Held, Stubbed')
  <2>1. CASE stub[c] = <<>>
    <3>1. stub' = stub /\ recvs' = recvs /\ batch' = batch
      BY <1>2, <2>1 DEF Run, rqVars
    <3>2. Stubbed' = Stubbed BY <3>1 DEF Stubbed
    <3>3. RQTypeOK' BY <3>1 DEF TypeOK, RQTypeOK
    <3>4. QED BY <1>5, <1>6, <3>1, <3>2, <3>3 DEF PlacesInv
  <2>2. CASE stub[c] # <<>>
    <3>1. PICK x : x = Head(stub[c]) OBVIOUS
    <3>2. PostMR(x) /\ stub' = [stub EXCEPT ![c] = Tail(stub[c])]
      BY <1>2, <2>2, <3>1 DEF Run
    <3>3. /\ x \in Buffers /\ x \in Members(stub[c]) /\ Tail(stub[c]) \in Seq(Buffers)
          /\ Members(Tail(stub[c])) = Members(stub[c]) \ {x}
          /\ NoDuplicates(Tail(stub[c]))
      BY ONLY <1>5, <1>6, <2>2, <3>1, TailOfQueue
    <3>4. x \in Stubbed[c] BY <3>3 DEF Stubbed
    <3>5. x \notin Members(batch)
          /\ Divided(Members(recvs), Members(batch) \cup {x}, Completed, Held,
                     [Stubbed EXCEPT ![c] = Stubbed[c] \ {x}])
      BY ONLY <1>5, <1>6, <3>4, c \in Conns, StubToBatch
    <3>6. /\ stub' \in [Conns -> Seq(Buffers)] /\ stub'[c] = Tail(stub[c])
          /\ \A d \in Conns : d # c => stub'[d] = stub[d]
      BY <1>6, <3>2, <3>3
    <3>7. Stubbed' = [Stubbed EXCEPT ![c] = Stubbed[c] \ {x}]
      BY <3>3, <3>6 DEF Stubbed
    <3>8. \A d \in Conns : NoDuplicates(stub'[d]) BY <3>3, <3>6 DEF PlacesInv
    <3>9. /\ RQTypeOK' /\ NoDuplicates(recvs') /\ NoDuplicates(batch')
          /\ Divided(Members(recvs'), Members(batch'), Completed, Held,
                     [Stubbed EXCEPT ![c] = Stubbed[c] \ {x}])
      BY <1>5, <3>2, <3>3, <3>5, PostMRStep
    <3>10. QED BY <3>6, <3>7, <3>8, <3>9
  <2>3. QED BY <2>1, <2>2
<1>8. PlacesInv' BY <1>1, <1>4, <1>7 DEF PlacesInv
<1>9. OrderInv' BY <1>1, <1>4 DEF OrderInv
<1>10. HeldIntact' BY <1>1 DEF HeldIntact
<1>11. TypeOK' BY <1>1, <1>3, <1>7 DEF TypeOK
<1>12. SendInv' BY <1>1 DEF SendInv
<1>13. QED BY <1>8, <1>9, <1>10, <1>11, <1>12

-----------------------------------------------------------------------------
(* The theorems *)

\* A step that changes nothing keeps everything.
LEMMA StutterInv == ASSUME IInv, UNCHANGED vars PROVE IInv'
<1>1. UNCHANGED <<single, delivered, rcvVars, sndVars, qpVars>> BY DEF vars, qpVars
<1>2. TypeOK'
  BY <1>1 DEF IInv, TypeOK, RQTypeOK, rcvVars, rqVars, sndVars, qpVars
<1>3. SendInv' BY <1>1 DEF IInv, SendInv, sndVars
<1>4. QED BY <1>1, <1>2, <1>3, ReceiversUnchanged

\* Every step keeps the inductive invariant.
LEMMA NextInv == IInv /\ [Next]_vars => IInv'
<1> SUFFICES ASSUME IInv, [Next]_vars PROVE IInv' OBVIOUS
<1>1. ASSUME NEW c \in Conns, SendAsync(c) PROVE IInv' BY <1>1, SendAsyncInv
<1>2. ASSUME NEW c \in Conns, Wait(c) PROVE IInv' BY <1>2, WaitInv
<1>3. ASSUME NEW c \in Conns, WaitPoll(c) PROVE IInv' BY <1>3, WaitPollInv
<1>4. ASSUME NEW c \in Conns, WaitFail(c) PROVE IInv' BY <1>4, WaitFailInv
<1>5. ASSUME NEW c \in Conns, Deliver(c) PROVE IInv' BY <1>5, DeliverInv
<1>6. ASSUME NEW c \in Conns, Break(c) PROVE IInv' BY <1>6, BreakInv
<1>7. ASSUME NEW r \in Receivers, Receive(r) PROVE IInv' BY <1>7, ReceiveInv
<1>8. CASE Free BY <1>8, FreeInv
<1>9. CASE Run BY <1>9, RunInv
<1>10. CASE UNCHANGED vars BY <1>10, StutterInv
<1>11. QED
  BY <1>1, <1>2, <1>3, <1>4, <1>5, <1>6, <1>7, <1>8, <1>9, <1>10 DEF Next

\* Buffers, completions and calls are as described above in every state of every
\* run: in particular a completion is always of a message of its receiver's own
\* connections, in the order its connection sent them.
THEOREM Invariance == Spec => []IInv
<1>1. Init => IInv BY InitInv
<1>2. IInv /\ [Next]_vars => IInv' BY NextInv
<1>3. QED BY <1>1, <1>2, PTL DEF Spec

\* A queue without duplicates has one entry for each of its members.
LEMMA EntryOfQueue ==
  ASSUME NEW s, NEW place, NEW owner, NEW b, NoDuplicates(s)
  PROVE  LET E == Entries(s, place, owner)
         IN  /\ \A v \in E : v[1] \in Members(s)
             /\ b \in Members(s) =>
                  \E w \in E : w[1] = b /\ \A v \in E : v[1] = b => v = w
<1> DEFINE E == Entries(s, place, owner)
<1>1. \A v \in E : v[1] \in Members(s) BY DEF Entries, Members
<1>2. ASSUME b \in Members(s)
      PROVE  \E w \in E : w[1] = b /\ \A v \in E : v[1] = b => v = w
  <2>1. PICK i \in DOMAIN s : s[i] = b BY <1>2 DEF Members
  <2>2. PICK w \in E : w = <<s[i], place, owner, i>> BY DEF Entries
  <2>3. ASSUME NEW v \in E, v[1] = b PROVE v = w
    <3>1. PICK j \in DOMAIN s : v = <<s[j], place, owner, j>> BY DEF Entries
    <3>2. i = j BY <2>1, <2>3, <3>1 DEF NoDuplicates
    <3>3. QED BY <2>2, <3>1, <3>2
  <2>4. w[1] = b BY <2>1, <2>2
  <2>5. QED BY <2>3, <2>4
<1>3. QED BY <1>1, <1>2

\* A buffer that is in one of the sets has one entry in its queue, and none
\* anywhere else.
LEMMA PlacesConserve == ASSUME IInv PROVE BuffersConserved
<1> USE DEF IInv
<1>1. SUFFICES ASSUME NEW b \in Buffers
               PROVE  \E w \in Whereabouts : \A v \in Whereabouts : v[1] = b <=> v = w
  BY DEF BuffersConserved
<1> DEFINE Posted == Entries(recvs, "posted", 0)
<1> DEFINE Batched == Entries(batch, "batch", 0)
<1> DEFINE Kept == {<<h.buf, "held", h.msg[1], h.msg[2]>> : h \in held}
<1> DEFINE Done(r) == Entries(Ids(Pending(r)), "completed", r)
<1> DEFINE Returned(c) == Entries(stub[c], "stub", c)
<1>2. \A v : v \in Whereabouts <=> \/ v \in Posted \/ v \in Batched \/ v \in Kept
                                   \/ \E r \in Receivers : v \in Done(r)
                                   \/ \E c \in Conns : v \in Returned(c)
  <2> DEFINE AllDone == UNION {Done(r) : r \in Receivers}
  <2> DEFINE AllReturned == UNION {Returned(c) : c \in Conns}
  <2>1. \A v : v \in AllDone <=>
                \E r \in Receivers : v \in Done(r)
    <3> HIDE DEF Done
    <3> QED OBVIOUS
  <2>2. \A v : v \in AllReturned <=>
                \E c \in Conns : v \in Returned(c)
    <3> HIDE DEF Returned
    <3> QED OBVIOUS
  <2>3. Whereabouts = Posted \cup Batched \cup Kept \cup AllDone \cup AllReturned
    BY DEF Whereabouts
  <2> HIDE DEF Posted, Batched, Kept, AllDone, AllReturned
  <2>4. \A v : v \in Whereabouts <=> \/ v \in Posted \/ v \in Batched \/ v \in Kept
                                     \/ v \in AllDone \/ v \in AllReturned
    BY <2>3
  <2> HIDE DEF Done, Returned
  <2>5. QED BY <2>1, <2>2, <2>4
<1>3. /\ \A v \in Posted : v[1] \in Members(recvs)
      /\ b \in Members(recvs) =>
           \E w \in Posted : w[1] = b /\ \A v \in Posted : v[1] = b => v = w
  BY EntryOfQueue DEF PlacesInv
<1>4. /\ \A v \in Batched : v[1] \in Members(batch)
      /\ b \in Members(batch) =>
           \E w \in Batched : w[1] = b /\ \A v \in Batched : v[1] = b => v = w
  BY EntryOfQueue DEF PlacesInv
<1>5. ASSUME NEW r \in Receivers
      PROVE  /\ \A v \in Done(r) : v[1] \in Completed[r]
             /\ b \in Completed[r] =>
                  \E w \in Done(r) : w[1] = b /\ \A v \in Done(r) : v[1] = b => v = w
  <2>1. NoDuplicates(Ids(Pending(r))) /\ Completed[r] = Members(Ids(Pending(r)))
    BY DEF PlacesInv, Completed
  <2>2. QED BY <2>1, EntryOfQueue
<1>6. /\ \A v \in Kept : v[1] \in Held
      /\ b \in Held =>
           \E w \in Kept : w[1] = b /\ \A v \in Kept : v[1] = b => v = w
  <2>1. \A v \in Kept : v[1] \in Held BY DEF Held
  <2>2. ASSUME b \in Held
        PROVE  \E w \in Kept : w[1] = b /\ \A v \in Kept : v[1] = b => v = w
    <3>1. PICK h \in held : h.buf = b BY <2>2 DEF Held
    <3>2. \A k \in held : k.buf = b => k = h BY <3>1 DEF PlacesInv
    <3>3. PICK w \in Kept : w = <<h.buf, "held", h.msg[1], h.msg[2]>> OBVIOUS
    <3>4. ASSUME NEW v \in Kept, v[1] = b PROVE v = w
      <4>1. PICK k \in held : v = <<k.buf, "held", k.msg[1], k.msg[2]>> OBVIOUS
      <4>2. k = h BY <3>2, <3>4, <4>1
      <4>3. QED BY <3>3, <4>1, <4>2
    <3>5. w[1] = b BY <3>1, <3>3
    <3>6. QED BY <3>4, <3>5
  <2>3. QED BY <2>1, <2>2
<1>7. ASSUME NEW c \in Conns
      PROVE  /\ \A v \in Returned(c) : v[1] \in Stubbed[c]
             /\ b \in Stubbed[c] =>
                  \E w \in Returned(c) :
                    w[1] = b /\ \A v \in Returned(c) : v[1] = b => v = w
  <2>1. NoDuplicates(stub[c]) /\ Stubbed[c] = Members(stub[c])
    BY DEF PlacesInv, Stubbed
  <2>2. QED BY <2>1, EntryOfQueue
<1> HIDE DEF Posted, Batched, Done, Kept, Returned
<1>8. Divided(Members(recvs), Members(batch), Completed, Held, Stubbed)
  BY DEF PlacesInv
<1>9. CASE b \in Members(recvs)
  <2>1. PICK w \in Posted : w[1] = b /\ \A v \in Posted : v[1] = b => v = w
    BY <1>3, <1>9
  <2>2. /\ b \notin Members(batch) /\ b \notin Held
        /\ \A r \in Receivers : b \notin Completed[r]
        /\ \A c \in Conns : b \notin Stubbed[c]
    BY <1>8, <1>9 DEF Divided
  <2>3. QED BY <1>2, <1>4, <1>5, <1>6, <1>7, <2>1, <2>2
<1>10. CASE b \in Members(batch)
  <2>1. PICK w \in Batched : w[1] = b /\ \A v \in Batched : v[1] = b => v = w
    BY <1>4, <1>10
  <2>2. /\ b \notin Members(recvs) /\ b \notin Held
        /\ \A r \in Receivers : b \notin Completed[r]
        /\ \A c \in Conns : b \notin Stubbed[c]
    BY <1>8, <1>10 DEF Divided
  <2>3. QED BY <1>2, <1>3, <1>5, <1>6, <1>7, <2>1, <2>2
<1>11. CASE b \in Held
  <2>1. PICK w \in Kept : w[1] = b /\ \A v \in Kept : v[1] = b => v = w
    BY <1>6, <1>11
  <2>2. /\ b \notin Members(recvs) /\ b \notin Members(batch)
        /\ \A r \in Receivers : b \notin Completed[r]
        /\ \A c \in Conns : b \notin Stubbed[c]
    BY <1>8, <1>11 DEF Divided
  <2>3. QED BY <1>2, <1>3, <1>4, <1>5, <1>7, <2>1, <2>2
<1>12. ASSUME NEW r \in Receivers, b \in Completed[r]
       PROVE  \E w \in Whereabouts : \A v \in Whereabouts : v[1] = b <=> v = w
  <2>1. PICK w \in Done(r) : w[1] = b /\ \A v \in Done(r) : v[1] = b => v = w
    BY <1>5, <1>12
  <2>2. /\ b \notin Members(recvs) /\ b \notin Members(batch) /\ b \notin Held
        /\ \A q \in Receivers : b \in Completed[q] => q = r
        /\ \A c \in Conns : b \notin Stubbed[c]
    BY <1>8, <1>12 DEF Divided
  <2>3. QED BY <1>2, <1>3, <1>4, <1>5, <1>6, <1>7, <2>1, <2>2
<1>13. ASSUME NEW c \in Conns, b \in Stubbed[c]
       PROVE  \E w \in Whereabouts : \A v \in Whereabouts : v[1] = b <=> v = w
  <2>1. PICK w \in Returned(c) : w[1] = b /\ \A v \in Returned(c) : v[1] = b => v = w
    BY <1>7, <1>13
  <2>2. /\ b \notin Members(recvs) /\ b \notin Members(batch) /\ b \notin Held
        /\ \A r \in Receivers : b \notin Completed[r]
        /\ \A d \in Conns : b \in Stubbed[d] => d = c
    BY <1>8, <1>13 DEF Divided
  <2>3. QED BY <1>2, <1>3, <1>4, <1>5, <1>6, <1>7, <2>1, <2>2
<1>14. QED BY <1>8, <1>9, <1>10, <1>11, <1>12, <1>13 DEF Divided

\* Whatever the connections, their threads and the listener do, no buffer of the
\* shared receive queue is lost or in two places, and none is written while its
\* message is held (SharedReceiveQueue::Run and PostMR, Receive and Free).
THEOREM BuffersGoRound == Spec => []SendRecvInv
<1>1. IInv => SendRecvInv BY PlacesConserve DEF IInv, SendRecvInv
<1>2. QED BY <1>1, Invariance, PTL

\* Wait returns success only if the messages of its call, and of all calls
\* before, have arrived, whatever calls are waited for and in whatever order.
THEOREM WaitIsSound == Spec => WaitSound
<1> DEFINE Step == \A c \in Conns :
      (waiting[c] # 0 /\ waiting'[c] = 0 /\ ackd'[c] # ackd[c])
        => ends[c][waiting[c]] <= delivered[c]
<1>1. IInv /\ [Next]_vars => [Step]_vars
  <2>1. SUFFICES ASSUME IInv, Next PROVE Step BY DEF Next
  <2>2. ASSUME NEW c \in Conns, WaitPoll(c) PROVE Step BY <2>1, <2>2, WaitPollInv
  <2>3. CASE ackd' = ackd BY <2>3
  <2>4. (\E c \in Conns : WaitPoll(c)) \/ ackd' = ackd
    BY <2>1 DEF Next, SendAsync, Wait, WaitFail, Deliver, Break, Receive, Free, Run,
                sndVars
  <2>5. QED BY <2>2, <2>3, <2>4
<1>2. QED BY <1>1, Invariance, PTL DEF Spec, WaitSound
=============================================================================
