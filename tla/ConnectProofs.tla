---------------------------- MODULE ConnectProofs ----------------------------
(***************************************************************************)
(* Connections stand on both sides or are known to have failed, and each    *)
(* end has the data of the very other one: proofs for any number of clients *)
(* and calls of Accept, any options and any number of faults.               *)
(***************************************************************************)
EXTENDS Connect, FiniteSetTheorems, SequenceTheorems, TLAPS

\* The two ends of a connection.
LEMMA EndFacts ==
  /\ \A c \in Clients : /\ <<c, "dial">> \in Dials /\ <<c, "accept">> \in Conns
                        /\ Peer(<<c, "dial">>) = <<c, "accept">>
                        /\ Peer(<<c, "accept">>) = <<c, "dial">>
  /\ Ends = Dials \cup Conns
  /\ \A d \in Dials : /\ d[1] \in Clients /\ d = <<d[1], "dial">> /\ d \notin Conns
                      /\ Peer(d) \in Conns /\ Peer(Peer(d)) = d /\ Peer(d)[1] = d[1]
  /\ \A a \in Conns : /\ a[1] \in Clients /\ a = <<a[1], "accept">> /\ a \notin Dials
                      /\ Peer(a) \in Dials /\ Peer(Peer(a)) = a /\ Peer(a)[1] = a[1]
  /\ \A e \in Ends : Host(e) \in Hosts /\ e # <<>>
<1>1. \A c \in Clients : /\ <<c, "dial">> \in Dials /\ <<c, "accept">> \in Conns
                         /\ Peer(<<c, "dial">>) = <<c, "accept">>
                         /\ Peer(<<c, "accept">>) = <<c, "dial">>
  BY DEF Dials, Conns, Peer
<1>2. Ends = Dials \cup Conns BY DEF Ends
<1>3. ASSUME NEW d \in Dials
      PROVE  /\ d[1] \in Clients /\ d = <<d[1], "dial">> /\ d \notin Conns
             /\ Peer(d) \in Conns /\ Peer(Peer(d)) = d /\ Peer(d)[1] = d[1]
  BY DEF Dials, Conns, Peer
<1>4. ASSUME NEW a \in Conns
      PROVE  /\ a[1] \in Clients /\ a = <<a[1], "accept">> /\ a \notin Dials
             /\ Peer(a) \in Dials /\ Peer(Peer(a)) = a /\ Peer(a)[1] = a[1]
  BY DEF Dials, Conns, Peer
<1>5. ASSUME NEW e \in Ends PROVE Host(e) \in Hosts /\ e # <<>>
  BY <1>2, <1>3, <1>4 DEF Host, Hosts
<1>6. QED BY <1>1, <1>2, <1>3, <1>4, <1>5

\* The initial state satisfies the invariant.
LEMMA InitInv == Init => IInv
<1> SUFFICES ASSUME Init PROVE IInv OBVIOUS
<1> USE DEF Init
<1>1. PICK o \in DialOptions :
        opts = [e \in Ends |-> IF e \in Dials THEN o[e[1]] ELSE Unset]
  OBVIOUS
<1>2. Unset \in Options BY DEF Unset, Options
<1>3. opts \in [Ends -> Options]
  <2>1. o \in [Clients -> Options] BY ConnectAssumption
  <2>2. \A e \in Dials : o[e[1]] \in Options BY <2>1, EndFacts
  <2>3. QED BY <1>1, <1>2, <2>2
<1>4. /\ Range(backlog) = {} /\ Range(accepted) = {}
      /\ backlog \in Seq(Message) /\ accepted \in Seq(Clients)
      /\ DOMAIN backlog = {}
  BY DEF Range
<1>5. TypeOK
  BY <1>3, <1>4, ConnectAssumption DEF TypeOK, States
<1>6. \A e \in Ends : QpState(e) BY DEF QpState
<1>7. \A d \in Dials : DialState(d) BY EndFacts DEF DialState
<1>8. \A a \in Conns : AcceptState(a) BY EndFacts DEF AcceptState, Established
<1>9. OneRequest BY <1>4 DEF OneRequest
<1>10. EventState
  <2>1. {e \in Ends : events[e] # "none"} = {} OBVIOUS
  <2>2. IsFiniteSet({}) BY FS_EmptySet
  <2>3. QED BY <2>1, <2>2 DEF EventState
<1>11. QED BY <1>4, <1>5, <1>6, <1>7, <1>8, <1>9, <1>10 DEF IInv

\* Events are not affected by a step that destroys no queue pair.
LEMMA EventsKept ==
  ASSUME IInv, UNCHANGED eventVars,
         \A e \in Ends : qp'[e] = "NONE" => qp[e] = "NONE"
  PROVE  EventState'
BY DEF IInv, EventState, eventVars

-----------------------------------------------------------------------------
(* Steps of one end *)

\* The call of Accept that is under way
InAccept(a) == pc[a] \in {"requested", "qp", "modify", "accepting"}

\* An end answered, or its connection stands
Answered(e) == pc[e] \in {"accepting", "failed"} \/ Established(e)

\* A step of one end that never goes back: it is enough to look at this end
\* and at the messages it adds.
LEMMA LocalStep ==
  ASSUME IInv, NEW e \in Ends, UNCHANGED <<opts, serverVars>>,
         \A x \in Ends : x # e => /\ pc'[x] = pc[x] /\ qp'[x] = qp[x]
                                  /\ id_qp'[x] = id_qp[x] /\ qp_srq'[x] = qp_srq[x]
                                  /\ id_srq'[x] = id_srq[x]
                                  /\ private_data'[x] = private_data[x],
         mail \subseteq mail', TypeOK', EventState',
         pc[e] # "idle",
         e \in Dials /\ pc'[e] \in {"dialed", "created", "qp"}
           => pc[e] \in {"dialed", "created", "qp"},
         Established(e) => Established(e)', Answered(e) => Answered(e)',
         Answered(e) /\ pc'[e] \in {"accepting", "failed", "ok"}
           => qp'[e] = qp[e] /\ pc[e] \in {"accepting", "failed", "ok"},
         QpState(e)',
         e \in Dials => DialState(e)', e \in Conns => AcceptState(e)',
         \A m \in mail' : m \notin mail =>
           Truthful(m)' /\ (m.type = "REQ" => m.from = e /\ pc[e] = "qp")
  PROVE  IInv'
<1> USE DEF IInv, serverVars, eventVars
<1>1. \A x \in Ends : QpState(x)'
  <2>1. SUFFICES ASSUME NEW x \in Ends, x # e PROVE QpState(x)' OBVIOUS
  <2>2. QpState(x) OBVIOUS
  <2>3. Srq(x)' = Srq(x) BY DEF Srq
  <2>4. QED BY <2>1, <2>2, <2>3 DEF QpState
<1>2. \A d \in Dials : DialState(d)'
  <2>1. SUFFICES ASSUME NEW d \in Dials, d # e PROVE DialState(d)' OBVIOUS
  <2>2. DialState(d) /\ d \in Ends /\ Peer(d) \in Ends BY EndFacts
  <2>3. pc[Peer(d)] = "idle" => pc'[Peer(d)] = "idle" BY <2>2
  <2>4. QED BY <2>1, <2>2, <2>3 DEF DialState
<1>3. \A a \in Conns : AcceptState(a)'
  <2>1. SUFFICES ASSUME NEW a \in Conns, a # e PROVE AcceptState(a)' OBVIOUS
  <2>2. /\ AcceptState(a) /\ a \in Ends /\ Peer(a) \in Ends BY EndFacts
  <2>3. /\ pc'[a] = pc[a] /\ private_data'[a] = private_data[a]
        /\ id_srq'[a] = id_srq[a] /\ qp_srq'[a] = qp_srq[a]
    BY <2>1, <2>2
  <2>4. Established(Peer(a)) => Established(Peer(a))'
    BY <2>2 DEF Established
  <2>5. QED BY <2>2, <2>3, <2>4 DEF AcceptState, OfDial, Established
<1>4. \A m : Pending(m) => Pending(m)'
  <2>1. SUFFICES ASSUME NEW m, Pending(m) PROVE Pending(m)' OBVIOUS
  <2>2. m.from \in Dials /\ m.from \in Ends /\ Peer(m.from) \in Ends
    BY <2>1, EndFacts DEF Pending
  <2>3. pc'[Peer(m.from)] = "idle" BY <2>1, <2>2 DEF Pending
  <2>4. pc'[m.from] \notin {"dialed", "created", "qp"} BY <2>1, <2>2 DEF Pending
  <2>5. QED BY <2>1, <2>2, <2>3, <2>4 DEF Pending, OfDial
<1>5. \A m \in mail' : Truthful(m)'
  <2>1. SUFFICES ASSUME NEW m \in mail PROVE Truthful(m)' OBVIOUS
  <2>2. Truthful(m) OBVIOUS
  <2>3. m.type = "REQ" => Pending(m)' BY <1>4, <2>2 DEF Truthful
  <2>4. ASSUME m.type = "REP"
        PROVE  /\ m.from \in Conns /\ OfCall(m.from, m.data)' /\ Answered(m.from)'
               /\ pc'[m.from] \in {"accepting", "failed", "ok"} => qp'[m.from] = "RTS"
    <3>1. /\ m.from \in Conns /\ OfCall(m.from, m.data) /\ Answered(m.from)
          /\ pc[m.from] \in {"accepting", "failed", "ok"} => qp[m.from] = "RTS"
          /\ m.from \in Ends
      BY <2>2, <2>4, EndFacts DEF Truthful, Answered
    <3>2. OfCall(m.from, m.data)' BY <3>1 DEF OfCall
    <3>3. CASE m.from = e BY <3>1, <3>2, <3>3
    <3>4. CASE m.from # e BY <3>1, <3>2, <3>4 DEF Answered, Established
    <3>5. QED BY <3>3, <3>4
  <2>5. ASSUME m.type = "RTU" PROVE m.from \in Dials /\ Established(m.from)'
    <3>1. m.from \in Dials /\ m.from \in Ends /\ Established(m.from)
      BY <2>2, <2>5, EndFacts DEF Truthful
    <3>2. QED BY <3>1 DEF Established
  <2>6. QED BY <2>3, <2>4, <2>5 DEF Truthful, Answered
<1>6. OneRequest'
  <2>1. ASSUME NEW i \in DOMAIN backlog, NEW m \in mail', m.type = "REQ"
        PROVE  m.from # backlog[i].from
    <3>1. CASE m \in mail BY <2>1, <3>1 DEF OneRequest
    <3>2. CASE m \notin mail
      <4>1. m.from = e /\ pc[e] = "qp" BY <2>1, <3>2
      <4>2. Pending(backlog[i]) BY <2>1 DEF OneRequest
      <4>3. pc[backlog[i].from] # "qp" BY <4>2 DEF Pending
      <4>4. QED BY <4>1, <4>3
    <3>3. QED BY <3>1, <3>2
  <2>2. QED BY <1>4, <2>1 DEF OneRequest
<1>7. QED BY <1>1, <1>2, <1>3, <1>5, <1>6

\* CreateQp: where the identifier learns of the receive queue, and not.
LEMMA CreateQpInv ==
  ASSUME IInv, NEW e \in Ends, CreateQp(e)
  PROVE  IInv'
<1> USE DEF CreateQp, IInv, serverVars, eventVars
<1>1. /\ pc[e] \in {"created", "requested"} /\ e \in Dials <=> pc[e] = "created"
      /\ e \in Dials \/ e \in Conns
  BY EndFacts
<1>2. Srq(e) \in {"none", "given", "made"} /\ Srq(e)' = Srq(e)
  BY DEF Srq, TypeOK, Options
<1>3. TypeOK' BY <1>2 DEF TypeOK, States
<1>4. EventState' BY EventsKept DEF TypeOK
<1>5. QpState(e)' BY <1>1, <1>2 DEF QpState, TypeOK
<1>6. ASSUME e \in Dials PROVE DialState(e)'
  BY <1>1, <1>2, <1>6, EndFacts DEF DialState, TypeOK
<1>7. ASSUME e \in Conns PROVE AcceptState(e)'
  <2>1. AcceptState(e) /\ pc[e] = "requested" /\ e \notin Dials
    BY <1>1, <1>7, EndFacts
  <2>2. pc'[e] = IF opts[e].native THEN "modify" ELSE "qp"
    BY <1>7, <2>1 DEF TypeOK
  <2>3. QED BY <2>1, <2>2 DEF AcceptState, OfDial, Established
<1>8. QED
  BY <1>1, <1>3, <1>4, <1>5, <1>6, <1>7, LocalStep
  DEF Answered, Established, TypeOK

\* A native queue pair goes on to its next state.
LEMMA ModifyInv ==
  ASSUME IInv, NEW e \in Ends, Modify(e)
  PROVE  IInv'
<1> USE DEF Modify, IInv, serverVars, eventVars
<1>1. /\ qp[e] \in {"RESET", "INIT", "RTR"} /\ qp'[e] \in {"INIT", "RTR", "RTS"}
      /\ pc'[e] = "modify" /\ pc[e] = "modify"
      /\ e \in Dials \/ e \in Conns
  BY EndFacts DEF QpState, TypeOK
<1>2. TypeOK' BY <1>1 DEF TypeOK
<1>3. EventState' BY <1>1, EventsKept
<1>4. QpState(e)' BY <1>1 DEF QpState, Srq
<1>5. e \in Dials => DialState(e)' BY <1>1 DEF DialState
<1>6. e \in Conns => AcceptState(e)'
  BY <1>1 DEF AcceptState, OfDial, Established
<1>7. QED
  BY <1>1, <1>2, <1>3, <1>4, <1>5, <1>6, LocalStep
  DEF Answered, Established, TypeOK

\* A call that fails is counted, and there is a bound.
LEMMA FailureCounted ==
  ASSUME IInv, MayFail
  PROVE  failures + 1 \in 0 .. MaxFaults
<1> DEFINE S == {e \in Ends : events[e] # "none"}
<1>1. Cardinality(S) \in Nat
  BY FS_CardinalityType DEF IInv, EventState
<1>2. failures + Cardinality(S) < MaxFaults BY DEF MayFail
<1>3. failures \in Nat /\ MaxFaults \in Nat
  BY ConnectAssumption DEF IInv, TypeOK
<1> HIDE DEF S
<1>4. QED BY <1>1, <1>2, <1>3

\* A call returns an error: what exists stays.
LEMMA GivesUp ==
  ASSUME IInv, NEW e \in Ends,
         pc[e] \in {"dialed", "created", "requested", "qp", "modify",
                   "requesting", "accepting"},
         NEW o \in {"failed", "crashed"}, pc' = [pc EXCEPT ![e] = o],
         pc[e] = "accepting" => o = "failed",
         UNCHANGED <<opts, qp, id_qp, qp_srq, id_srq, private_data, serverVars,
                     mail, eventVars>>,
         failures' \in 0 .. MaxFaults
  PROVE  IInv'
<1> USE DEF IInv, serverVars, eventVars
<1>1. /\ pc'[e] = o /\ \A x \in Ends : x # e => pc'[x] = pc[x]
      /\ e \in Dials \/ e \in Conns
  BY EndFacts DEF TypeOK
<1>2. TypeOK' BY DEF TypeOK, States
<1>3. EventState' BY EventsKept
<1>4. QpState(e)' BY <1>1 DEF QpState
<1>5. e \in Dials => DialState(e)' BY <1>1 DEF DialState
<1>6. e \in Conns => AcceptState(e)'
  BY <1>1 DEF AcceptState, OfDial, Established
<1>7. /\ Established(e) => Established(e)'
      /\ Answered(e) => Answered(e)'
  BY <1>1 DEF Answered, Established
<1>8. QED
  BY <1>1, <1>2, <1>3, <1>4, <1>5, <1>6, <1>7, LocalStep
  DEF Answered, Established

\* Any call fails on the way.
LEMMA FailsInv ==
  ASSUME IInv, NEW e \in Ends, Fail(e) \/ Inline(e)
  PROVE  IInv'
<1>1. /\ Fails(e) /\ failures' \in 0 .. MaxFaults
  BY FailureCounted DEF Fail, Inline, IInv, TypeOK
<1>2. PICK o \in {"failed", "crashed"} : pc' = [pc EXCEPT ![e] = o]
  BY <1>1 DEF Fails, Outcomes
<1>3. QED BY <1>1, <1>2, GivesUp DEF Fails

\* rdma_connect returns an error.
LEMMA ConnectFailsInv ==
  ASSUME IInv, NEW c \in Clients, ConnectFails(c)
  PROVE  IInv'
<1>1. <<c, "dial">> \in Ends BY EndFacts
<1>2. failures' \in 0 .. MaxFaults
  BY FailureCounted DEF ConnectFails, IInv, TypeOK
<1>3. QED BY <1>1, <1>2, GivesUp DEF ConnectFails

\* rdma_accept returns an error; the answer is on its way nevertheless.
LEMMA AcceptFailsInv ==
  ASSUME IInv, NEW c \in Clients, AcceptFails(c)
  PROVE  IInv'
<1>1. <<c, "accept">> \in Ends BY EndFacts
<1>2. failures' \in 0 .. MaxFaults
  BY FailureCounted DEF AcceptFails, IInv, TypeOK
<1>3. QED BY <1>1, <1>2, GivesUp DEF AcceptFails

\* Create: the identifier exists.
LEMMA CreateInv ==
  ASSUME IInv, NEW c \in Clients, Create(c)
  PROVE  IInv'
<1> DEFINE e == <<c, "dial">>
<1> USE DEF Create, IInv, serverVars, eventVars
<1>1. /\ e \in Dials /\ e \in Ends /\ e \notin Conns
      /\ Peer(e) \in Ends /\ Peer(e) \in Conns
  BY EndFacts
<1> HIDE DEF e
<1>2. /\ pc[e] = "dialed" /\ pc' = [pc EXCEPT ![e] = "created"]
      /\ pc'[e] = "created"
  BY <1>1 DEF e, TypeOK
<1>3. UNCHANGED <<opts, qp, id_qp, qp_srq, id_srq, private_data, serverVars,
                  mail, failures, eventVars>>
  BY DEF e
<1>4. TypeOK'
  <2>1. pc' \in [Ends -> States] BY <1>1, <1>2 DEF TypeOK, States
  <2>2. QED BY <1>3, <2>1 DEF TypeOK
<1>5. EventState' BY <1>3, EventsKept
<1>6. QpState(e)' BY <1>2 DEF QpState
<1>7. DialState(e)'
  <2>1. pc[Peer(e)] = "idle" BY <1>1, <1>2 DEF DialState
  <2>2. pc'[Peer(e)] = "idle" BY <1>1, <1>2, <2>1 DEF TypeOK
  <2>3. QED BY <1>1, <1>2, <1>3, <2>2 DEF DialState
<1>8. QED
  BY <1>1, <1>2, <1>3, <1>4, <1>5, <1>6, <1>7, LocalStep
  DEF Answered, Established, TypeOK

\* rdma_connect: the one request of this client is under way.
LEMMA RdmaConnectInv ==
  ASSUME IInv, NEW c \in Clients, RdmaConnect(c)
  PROVE  IInv'
<1> DEFINE e == <<c, "dial">>
<1>0. PICK new : new = Mail("REQ", e, IF opts[e].data THEN c ELSE 0) OBVIOUS
<1> USE DEF IInv, serverVars, eventVars
<1>1. /\ e \in Dials /\ e \in Ends /\ e \notin Conns /\ Peer(e) \in Conns
      /\ Peer(e) \in Ends /\ Peer(Peer(e)) = e /\ e[1] = c /\ Peer(e)[1] = c
  BY EndFacts
<1>2. /\ pc[e] = "qp" /\ pc' = [pc EXCEPT ![e] = "requesting"]
      /\ mail' = mail \cup {new}
      /\ UNCHANGED <<opts, qp, id_qp, qp_srq, id_srq, private_data, serverVars,
                     failures, eventVars>>
  BY <1>0 DEF RdmaConnect
<1> HIDE DEF e
<1>3. pc'[e] = "requesting" BY <1>1, <1>2 DEF TypeOK
<1>4. /\ new \in Message /\ new.type = "REQ" /\ new.from = e
      /\ new.data = OfDial(e)
  BY <1>0, <1>1 DEF Mail, Message, OfDial
<1>5. TypeOK' BY <1>1, <1>2, <1>4 DEF TypeOK, States
<1>6. EventState' BY <1>2, EventsKept
<1>7. QpState(e)' BY <1>1, <1>2, <1>3 DEF QpState, Srq
<1>8. DialState(e)' BY <1>1, <1>2, <1>3 DEF DialState
<1>9. Truthful(new)'
  <2>1. pc[Peer(e)] = "idle" BY <1>1, <1>2 DEF DialState
  <2>2. pc'[Peer(e)] = "idle" BY <1>1, <1>2, <2>1 DEF TypeOK
  <2>3. Pending(new)'
    BY <1>1, <1>2, <1>3, <1>4, <2>2 DEF Pending, OfDial
  <2>4. QED BY <1>4, <2>3 DEF Truthful
<1>10. ASSUME NEW m \in mail', m \notin mail
       PROVE  Truthful(m)' /\ (m.type = "REQ" => m.from = e /\ pc[e] = "qp")
  <2>1. m = new BY <1>2, <1>10
  <2>2. QED BY <1>2, <1>4, <1>9, <2>1
<1>11. ~Answered(e) /\ ~Established(e) BY <1>2 DEF Answered, Established
<1>12. \A x \in Ends : x # e => pc'[x] = pc[x] BY <1>2 DEF TypeOK
<1>13. QED
  BY <1>1, <1>2, <1>3, <1>5, <1>6, <1>7, <1>8, <1>10, <1>11, <1>12, LocalStep

\* The answer comes: its data is that of the call of Accept.
LEMMA ConnectedInv ==
  ASSUME IInv, NEW c \in Clients, Connected(c)
  PROVE  IInv'
<1> DEFINE e == <<c, "dial">>
<1> USE DEF IInv, serverVars, eventVars
<1>0. PICK rtu : rtu = Mail("RTU", e, 0) OBVIOUS
<1>1. /\ e \in Dials /\ e \in Ends /\ e \notin Conns /\ Peer(e) \in Conns
      /\ Peer(e) \in Ends
  BY EndFacts
<1>2. PICK m \in mail :
        /\ m.type = "REP" /\ m.from = Peer(e)
        /\ private_data' = [private_data EXCEPT ![e] = m.data]
  BY DEF Connected
<1>3. /\ pc[e] = "requesting"
      /\ UNCHANGED <<opts, id_qp, qp_srq, id_srq, serverVars, failures, eventVars>>
      /\ \/ /\ opts[e].native /\ pc' = [pc EXCEPT ![e] = "modify"]
            /\ qp' = qp /\ mail' = mail
         \/ /\ ~opts[e].native /\ pc' = [pc EXCEPT ![e] = "ok"]
            /\ qp' = [qp EXCEPT ![e] = "RTS"] /\ mail' = mail \cup {rtu}
  BY <1>0 DEF Connected
<1> HIDE DEF e
<1>4. /\ rtu \in Message /\ rtu.type = "RTU" /\ rtu.from = e
  BY <1>0, <1>1 DEF Mail, Message
<1>5. /\ m \in Message /\ OfCall(Peer(e), m.data)
  BY <1>2 DEF TypeOK, Truthful
<1>6. m.data \in {0} \cup 1 .. Accepts
  <2>1. DOMAIN accepted = 1 .. Len(accepted) /\ Len(accepted) \in Nat
    BY LenProperties
  <2>2. Len(accepted) <= Accepts BY DEF TypeOK
  <2>3. QED BY <1>5, <2>1, <2>2, ConnectAssumption DEF OfCall
<1>7. m = Mail("REP", Peer(e), m.data)
  BY <1>2, <1>5 DEF Mail, Message
<1>8. /\ pc'[e] \in {"modify", "ok"} /\ private_data'[e] = m.data
      /\ pc'[e] = "modify" => opts[e].native /\ qp'[e] = qp[e]
      /\ pc'[e] = "ok" => ~opts[e].native /\ qp'[e] = "RTS"
      /\ mail \subseteq mail' /\ \A x \in mail' : x \in mail \/ x = rtu
      /\ rtu \in mail' => rtu \in mail \/ pc'[e] = "ok"
  BY <1>1, <1>2, <1>3 DEF TypeOK
<1>9. \A x \in Ends : x # e => /\ pc'[x] = pc[x] /\ qp'[x] = qp[x]
                               /\ private_data'[x] = private_data[x]
  BY <1>2, <1>3 DEF TypeOK
<1>10. TypeOK'
  <2>1. mail' \subseteq Message BY <1>4, <1>8 DEF TypeOK
  <2>2. private_data' \in [Ends -> {0} \cup Clients \cup 1 .. Accepts]
    BY <1>1, <1>2, <1>6 DEF TypeOK
  <2>3. \A x \in Ends : private_data'[x] \in
          {0} \cup (IF x \in Dials THEN 1 .. Accepts ELSE Clients)
    BY <1>1, <1>6, <1>8, <1>9 DEF TypeOK
  <2>4. /\ pc' \in [Ends -> States]
        /\ qp' \in [Ends -> {"NONE", "RESET", "INIT", "RTR", "RTS", "ERR"}]
    BY <1>1, <1>3 DEF TypeOK, States
  <2>5. QED BY <1>3, <2>1, <2>2, <2>3, <2>4 DEF TypeOK
<1>11. EventState'
  <2>1. qp[e] \in {"RESET", "INIT"} BY <1>1, <1>3 DEF QpState
  <2>2. \A x \in Ends : qp'[x] = "NONE" => qp[x] = "NONE" BY <1>8, <1>9, <2>1
  <2>3. QED BY <1>3, <2>2, EventsKept
<1>12. QpState(e)' BY <1>1, <1>3, <1>8 DEF QpState, Srq, DialState
<1>13. DialState(e)'
  <2>1. Mail("REP", Peer(e), private_data'[e]) \in mail' BY <1>7, <1>8
  <2>2. QED BY <1>1, <1>3, <1>8, <2>1 DEF DialState, Mail
<1>14. ASSUME NEW x \in mail', x \notin mail
       PROVE  Truthful(x)' /\ (x.type = "REQ" => x.from = e /\ pc[e] = "qp")
  BY <1>1, <1>4, <1>8, <1>14 DEF Truthful, Established
<1>15. ~Answered(e) /\ ~Established(e) BY <1>3 DEF Answered, Established
<1>16. QED
  BY <1>1, <1>3, <1>8, <1>9, <1>10, <1>11, <1>12, <1>13, <1>14, <1>15, LocalStep

\* rdma_establish: the native queue pair is ready, and the server is told.
LEMMA EstablishInv ==
  ASSUME IInv, NEW c \in Clients, Establish(c)
  PROVE  IInv'
<1> DEFINE e == <<c, "dial">>
<1> USE DEF IInv, serverVars, eventVars
<1>0. PICK rtu : rtu = Mail("RTU", e, 0) OBVIOUS
<1>1. /\ e \in Dials /\ e \in Ends /\ e \notin Conns
  BY EndFacts
<1>2. /\ pc[e] = "modify" /\ qp[e] = "RTS" /\ mail' = mail \cup {rtu}
      /\ id_qp' = [id_qp EXCEPT ![e] = TRUE] /\ pc' = [pc EXCEPT ![e] = "ok"]
      /\ UNCHANGED <<opts, qp, qp_srq, id_srq, private_data, serverVars, failures,
                     eventVars>>
  BY <1>0 DEF Establish
<1> HIDE DEF e
<1>3. /\ rtu \in Message /\ rtu.type = "RTU" /\ rtu.from = e
  BY <1>0, <1>1 DEF Mail, Message
<1>4. pc'[e] = "ok" /\ id_qp'[e] BY <1>1, <1>2 DEF TypeOK
<1>5. TypeOK' BY <1>1, <1>2, <1>3 DEF TypeOK, States
<1>6. EventState' BY <1>2, EventsKept
<1>7. QpState(e)' BY <1>1, <1>2, <1>4 DEF QpState, Srq
<1>8. DialState(e)' BY <1>1, <1>2, <1>4 DEF DialState
<1>9. ASSUME NEW x \in mail', x \notin mail
      PROVE  Truthful(x)' /\ (x.type = "REQ" => x.from = e /\ pc[e] = "qp")
  BY <1>1, <1>2, <1>3, <1>4, <1>9 DEF Truthful, Established
<1>10. ~Answered(e) /\ ~Established(e) BY <1>2 DEF Answered, Established
<1>11. \A x \in Ends : x # e => pc'[x] = pc[x] /\ id_qp'[x] = id_qp[x]
  BY <1>2 DEF TypeOK
<1>12. QED
  BY <1>1, <1>2, <1>4, <1>5, <1>6, <1>7, <1>8, <1>9, <1>10, <1>11, LocalStep

\* rdma_accept answers, with the data of this call, the last one.
LEMMA RdmaAcceptInv ==
  ASSUME IInv, NEW c \in Clients, RdmaAccept(c)
  PROVE  IInv'
<1> DEFINE e == <<c, "accept">>
<1> USE DEF IInv, serverVars, eventVars
<1>0. PICK rep :
        rep = Mail("REP", e, IF opts[e].data THEN Len(accepted) ELSE 0)
  OBVIOUS
<1>1. /\ e \in Conns /\ e \in Ends /\ e \notin Dials /\ e[1] = c
  BY EndFacts
<1>2. /\ CanAnswer(e) /\ mail' = mail \cup {rep}
      /\ qp' = [qp EXCEPT ![e] = IF opts[e].native THEN @ ELSE "RTS"]
      /\ pc' = [pc EXCEPT ![e] = "accepting"]
      /\ UNCHANGED <<opts, id_qp, qp_srq, id_srq, private_data, serverVars,
                     failures, eventVars>>
  BY <1>0 DEF RdmaAccept
<1> HIDE DEF e
<1>3. pc[e] \in {"qp", "modify"} /\ qp'[e] = "RTS" /\ pc'[e] = "accepting"
      /\ qp[e] # "NONE"
  BY <1>1, <1>2 DEF CanAnswer, AcceptState, QpState, TypeOK
<1>4. accepted # <<>> /\ accepted[Len(accepted)] = c
  BY <1>1, <1>3 DEF AcceptState
<1>5. /\ Len(accepted) \in Nat /\ Len(accepted) \in DOMAIN accepted
  BY <1>4, LenProperties, EmptySeq
<1>6. /\ rep \in Message /\ rep.type = "REP" /\ rep.from = e
      /\ rep.data = IF opts[e].data THEN Len(accepted) ELSE 0
  BY <1>0, <1>1, <1>5 DEF Mail, Message
<1>7. TypeOK'
  <2>1. pc' \in [Ends -> States] BY <1>2 DEF TypeOK, States
  <2>2. qp' \in [Ends -> {"NONE", "RESET", "INIT", "RTR", "RTS", "ERR"}]
    BY <1>2 DEF TypeOK
  <2>3. QED BY <1>2, <1>6, <2>1, <2>2 DEF TypeOK
<1>8. \A x \in Ends : x # e => pc'[x] = pc[x] /\ qp'[x] = qp[x]
  BY <1>2 DEF TypeOK
<1>9. EventState' BY <1>2, <1>3, <1>8, EventsKept
<1>10. QpState(e)' BY <1>1, <1>2, <1>3 DEF QpState, Srq
<1>11. AcceptState(e)'
  BY <1>1, <1>2, <1>3 DEF AcceptState, OfDial, Established
<1>12. ASSUME NEW x \in mail', x \notin mail
       PROVE  Truthful(x)' /\ (x.type = "REQ" => x.from = e /\ pc[e] = "qp")
  <2>1. x = rep BY <1>2, <1>12
  <2>2. OfCall(rep.from, rep.data)'
    BY <1>1, <1>2, <1>4, <1>5, <1>6 DEF OfCall
  <2>3. QED BY <1>1, <1>3, <1>6, <2>1, <2>2 DEF Truthful
<1>13. ~Answered(e) /\ ~Established(e) BY <1>3 DEF Answered, Established
<1>14. QED
  BY <1>1, <1>2, <1>3, <1>7, <1>8, <1>9, <1>10, <1>11, <1>12, <1>13, LocalStep

\* The client is ready: Accept returns.
LEMMA AcceptedInv ==
  ASSUME IInv, NEW c \in Clients, Accepted(c)
  PROVE  IInv'
<1> DEFINE e == <<c, "accept">>
<1> USE DEF IInv, serverVars, eventVars
<1>1. /\ e \in Conns /\ e \in Ends /\ e \notin Dials
      /\ Peer(e) \in Dials /\ Peer(e) \in Ends /\ Peer(e) # e
  BY EndFacts
<1>2. /\ pc[e] = "accepting" /\ Has("RTU", Peer(e))
      /\ id_srq' = [id_srq EXCEPT ![e] = Srq(e)]
      /\ id_qp' = [id_qp EXCEPT ![e] = TRUE] /\ pc' = [pc EXCEPT ![e] = "ok"]
      /\ UNCHANGED <<opts, qp, qp_srq, private_data, serverVars, mail, failures,
                     eventVars>>
  BY DEF Accepted
<1> HIDE DEF e
<1>3. /\ pc'[e] = "ok" /\ id_qp'[e] /\ id_srq'[e] = Srq(e)
      /\ \A x \in Ends : x # e => /\ pc'[x] = pc[x] /\ id_qp'[x] = id_qp[x]
                                  /\ id_srq'[x] = id_srq[x]
  BY <1>1, <1>2 DEF TypeOK
<1>4. Srq(e) \in {"none", "given", "made"} /\ Srq(e)' = Srq(e)
  BY <1>1, <1>2 DEF Srq, TypeOK, Options
<1>5. TypeOK' BY <1>1, <1>2, <1>4 DEF TypeOK, States
<1>6. EventState' BY <1>2, EventsKept
<1>7. QpState(e)' BY <1>1, <1>2, <1>3, <1>4 DEF QpState
<1>8. Established(Peer(e))'
  <2>1. Established(Peer(e)) BY <1>2 DEF Has, Truthful
  <2>2. QED BY <1>1, <1>3, <2>1 DEF Established
<1>9. AcceptState(e)'
  <2>1. qp_srq[e] = Srq(e) BY <1>1, <1>2 DEF QpState
  <2>2. QED BY <1>1, <1>2, <1>3, <1>8, <2>1 DEF AcceptState, OfDial
<1>10. Established(e)' /\ ~Established(e) /\ Answered(e)'
  BY <1>2, <1>3 DEF Established, Answered
<1>11. QED
  BY <1>1, <1>2, <1>3, <1>5, <1>6, <1>7, <1>9, <1>10, LocalStep

\* Close, the destructor, and the device that destroys the queue pair.
LEMMA CloseInv ==
  ASSUME IInv, NEW e \in Ends, Close(e)
  PROVE  IInv'
<1> USE DEF Close, IInv, serverVars, eventVars
<1>1. /\ pc'[e] = "closed" /\ qp'[e] = "ERR"
      /\ \A x \in Ends : x # e => pc'[x] = pc[x] /\ qp'[x] = qp[x]
      /\ e \in Dials \/ e \in Conns
  BY EndFacts DEF TypeOK
<1>2. TypeOK' BY DEF TypeOK, States
<1>3. EventState' BY <1>1, EventsKept
<1>4. QpState(e)' BY <1>1 DEF QpState
<1>5. e \in Dials => DialState(e)' BY <1>1 DEF DialState
<1>6. e \in Conns => AcceptState(e)'
  <2>1. SUFFICES ASSUME e \in Conns PROVE AcceptState(e)' OBVIOUS
  <2>2. Established(Peer(e)) /\ Peer(e) \in Ends /\ Peer(e) # e
    BY <2>1, EndFacts DEF AcceptState, Established
  <2>3. Established(Peer(e))' BY <1>1, <2>2 DEF Established
  <2>4. QED BY <1>1, <2>3 DEF AcceptState
<1>7. Established(e)' /\ Answered(e)' BY <1>1 DEF Answered, Established
<1>8. QED BY <1>1, <1>2, <1>3, <1>4, <1>5, <1>6, <1>7, LocalStep

\* An endpoint that is deleted leaves the other ends as they were.
LEMMA DeleteInv ==
  ASSUME IInv, NEW e \in Ends, Delete(e)
  PROVE  IInv'
<1> USE DEF Delete, IInv, serverVars, eventVars
<1>1. /\ pc'[e] = "destroying"
      /\ \A x \in Ends : x # e => /\ pc'[x] = pc[x]
                                  /\ private_data'[x] = private_data[x]
      /\ e \in Dials \/ e \in Conns
  BY EndFacts DEF TypeOK
<1>2. TypeOK' BY DEF TypeOK, States
<1>3. EventState' BY <1>1, EventsKept
<1>4. QpState(e)' BY <1>1 DEF QpState
<1>5. e \in Dials => DialState(e)' BY <1>1 DEF DialState
<1>6. e \in Conns => AcceptState(e)'
  <2>1. SUFFICES ASSUME e \in Conns PROVE AcceptState(e)' OBVIOUS
  <2>2. Established(Peer(e)) /\ Peer(e) \in Ends /\ Peer(e) # e
    BY <2>1, EndFacts DEF AcceptState, Established
  <2>3. Established(Peer(e))' BY <1>1, <2>2 DEF Established
  <2>4. QED BY <1>1, <2>3 DEF AcceptState
<1>7. Established(e)' /\ Answered(e)' BY <1>1 DEF Answered, Established
<1>8. QED BY <1>1, <1>2, <1>3, <1>4, <1>5, <1>6, <1>7, LocalStep

\* An endpoint's identifier is destroyed, with its queue pair and its events.
LEMMA DestroyedInv ==
  ASSUME IInv, NEW e \in Ends, Destroyed(e)
  PROVE  IInv'
<1> USE DEF Destroyed, IInv, serverVars
<1>1. /\ pc'[e] = "destroyed" /\ events'[e] = "done" /\ qp'[e] = "NONE"
      /\ \A x \in Ends : x # e => /\ pc'[x] = pc[x] /\ qp'[x] = qp[x]
                                  /\ id_qp'[x] = id_qp[x] /\ events'[x] = events[x]
      /\ e \in Dials \/ e \in Conns
  BY EndFacts DEF TypeOK
<1>2. TypeOK' BY DEF TypeOK, States
<1>3. EventState'
  <2>1. \A x \in Ends : events'[x] \in {"reported", "read"} => qp'[x] # "NONE"
    BY <1>1 DEF EventState
  <2>2. \A h \in Hosts : handled[h] # <<>> =>
          events'[handled[h]] = "read" /\ Host(handled[h]) = h
    BY <1>1 DEF EventState, TypeOK
  <2>3. IsFiniteSet({x \in Ends : events'[x] # "none"})
    <3> DEFINE S == {x \in Ends : events[x] # "none"}
    <3>1. IsFiniteSet(S \cup {e}) BY FS_AddElement DEF EventState
    <3>2. {x \in Ends : events'[x] # "none"} = S \cup {e} BY <1>1
    <3>3. QED BY <3>1, <3>2
  <2>4. QED BY <2>1, <2>2, <2>3 DEF EventState
<1>4. QpState(e)' BY <1>1 DEF QpState
<1>5. e \in Dials => DialState(e)' BY <1>1 DEF DialState
<1>6. e \in Conns => AcceptState(e)'
  <2>1. SUFFICES ASSUME e \in Conns PROVE AcceptState(e)' OBVIOUS
  <2>2. Established(Peer(e)) /\ Peer(e) \in Ends /\ Peer(e) # e
    BY <2>1, EndFacts DEF AcceptState, Established
  <2>3. Established(Peer(e))' BY <1>1, <2>2 DEF Established
  <2>4. QED BY <1>1, <2>3 DEF AcceptState
<1>7. Established(e)' /\ Answered(e)' BY <1>1 DEF Answered, Established
<1>8. QED BY <1>1, <1>2, <1>3, <1>4, <1>5, <1>6, <1>7, LocalStep

-----------------------------------------------------------------------------
(* Steps of the server, of the connection managers and of the event threads *)

\* A step that changes no end and no message.
LEMMA EndsKept ==
  ASSUME IInv, UNCHANGED <<endVars, backlog, accepted, mail>>, TypeOK', EventState'
  PROVE  IInv'
<1> USE DEF IInv, endVars
<1>1. \A e \in Ends : QpState(e)' BY DEF QpState, Srq
<1>2. \A d \in Dials : DialState(d)' BY DEF DialState
<1>3. \A a \in Conns : AcceptState(a)' BY DEF AcceptState, OfDial, Established
<1>4. \A m \in mail : Truthful(m)'
  BY DEF Truthful, Pending, OfDial, OfCall, Established
<1>5. OneRequest' BY DEF OneRequest, Pending, OfDial
<1>6. QED BY <1>1, <1>2, <1>3, <1>4, <1>5

\* A server that begins to listen disturbs no end.
LEMMA ListenInv ==
  ASSUME IInv, Listen
  PROVE  IInv'
<1> USE DEF Listen, IInv
<1>1. TypeOK' BY DEF TypeOK, endVars, eventVars
<1>2. EventState' BY EventsKept DEF endVars
<1>3. QED BY <1>1, <1>2, EndsKept

\* The device reports an event of a queue pair that exists.
LEMMA ReportInv ==
  ASSUME IInv, NEW e \in Ends, Report(e)
  PROVE  IInv'
<1> USE DEF Report, IInv, endVars, serverVars
<1>1. TypeOK' BY DEF TypeOK
<1>2. /\ events'[e] = "reported" /\ events[e] = "none"
      /\ \A x \in Ends : x # e => events'[x] = events[x]
  BY DEF TypeOK
<1>3. EventState'
  <2>1. \A x \in Ends : events'[x] \in {"reported", "read"} => qp[x] # "NONE"
    BY <1>2 DEF EventState
  <2>2. \A h \in Hosts : handled[h] # <<>> =>
          events'[handled[h]] = "read" /\ Host(handled[h]) = h
    BY <1>2 DEF EventState, TypeOK
  <2>3. IsFiniteSet({x \in Ends : events'[x] # "none"})
    <3> DEFINE S == {x \in Ends : events[x] # "none"}
    <3>1. IsFiniteSet(S \cup {e}) BY FS_AddElement DEF EventState
    <3>2. {x \in Ends : events'[x] # "none"} = S \cup {e} BY <1>2
    <3>3. QED BY <3>1, <3>2
  <2>4. QED BY <2>1, <2>2, <2>3 DEF EventState
<1>4. QED BY <1>1, <1>3, EndsKept

\* The thread of the end's host reads it, one at a time.
LEMMA GetAsyncEventInv ==
  ASSUME IInv, NEW e \in Ends, GetAsyncEvent(e)
  PROVE  IInv'
<1> USE DEF GetAsyncEvent, IInv, endVars, serverVars
<1>1. TypeOK' BY EndFacts DEF TypeOK
<1>2. /\ events'[e] = "read" /\ events[e] = "reported"
      /\ \A x \in Ends : x # e => events'[x] = events[x]
      /\ \A h \in Hosts : handled'[h] = IF h = Host(e) THEN e ELSE handled[h]
  BY DEF TypeOK
<1>3. EventState'
  <2>1. \A x \in Ends : events'[x] \in {"reported", "read"} => qp[x] # "NONE"
    BY <1>2 DEF EventState
  <2>2. \A h \in Hosts : handled'[h] # <<>> =>
          events'[handled'[h]] = "read" /\ Host(handled'[h]) = h
    BY <1>2 DEF EventState, TypeOK
  <2>3. {x \in Ends : events'[x] # "none"} = {x \in Ends : events[x] # "none"}
    BY <1>2
  <2>4. QED BY <2>1, <2>2, <2>3 DEF EventState
<1>4. QED BY <1>1, <1>3, EndsKept

\* The event is acknowledged; no other thread handles it.
LEMMA AckAsyncEventInv ==
  ASSUME IInv, NEW h \in Hosts, AckAsyncEvent(h)
  PROVE  IInv'
<1> USE DEF AckAsyncEvent, IInv, endVars, serverVars
<1> DEFINE e == handled[h]
<1>1. e \in Ends /\ events[e] = "read" /\ Host(e) = h
  BY DEF TypeOK, EventState
<1>2. TypeOK' BY <1>1 DEF TypeOK
<1>3. /\ events'[e] = "done"
      /\ \A x \in Ends : x # e => events'[x] = events[x]
      /\ \A g \in Hosts : handled'[g] = IF g = h THEN <<>> ELSE handled[g]
  BY <1>1 DEF TypeOK
<1>4. EventState'
  <2>1. \A x \in Ends : events'[x] \in {"reported", "read"} => qp[x] # "NONE"
    BY <1>3 DEF EventState
  <2>2. \A g \in Hosts : handled'[g] # <<>> =>
          events'[handled'[g]] = "read" /\ Host(handled'[g]) = g
    <3>1. SUFFICES ASSUME NEW g \in Hosts, handled'[g] # <<>>
          PROVE  events'[handled'[g]] = "read" /\ Host(handled'[g]) = g
      OBVIOUS
    <3>2. /\ g # h /\ handled'[g] = handled[g] /\ handled[g] \in Ends
          /\ events[handled[g]] = "read" /\ Host(handled[g]) = g
      BY <1>3, <3>1 DEF EventState, TypeOK
    <3>3. handled[g] # e BY <1>1, <3>2
    <3>4. QED BY <1>3, <3>2, <3>3
  <2>3. {x \in Ends : events'[x] # "none"} = {x \in Ends : events[x] # "none"}
    BY <1>1, <1>3
  <2>4. QED BY <2>1, <2>2, <2>3 DEF EventState
<1>5. QED BY <1>2, <1>4, EndsKept

\* A step that changes no end and loses no answer.
LEMMA MailKept ==
  ASSUME IInv, UNCHANGED <<endVars, accepted, eventVars>>, TypeOK',
         \A m \in mail' : m \in mail \/ m.type = "REJ",
         \A m \in mail : m.type = "REP" => m \in mail',
         backlog' \in Seq(Message), OneRequest'
  PROVE  IInv'
<1> USE DEF IInv, endVars
<1>1. \A e \in Ends : QpState(e)' BY DEF QpState, Srq
<1>2. \A d \in Dials : DialState(d)' BY DEF DialState, Mail
<1>3. \A a \in Conns : AcceptState(a)' BY DEF AcceptState, OfDial, Established
<1>4. \A m \in mail' : Truthful(m)'
  BY DEF Truthful, Pending, OfDial, OfCall, Established
<1>5. EventState' BY EventsKept
<1>6. QED BY <1>1, <1>2, <1>3, <1>4, <1>5

\* A request is queued or refused.
LEMMA ArriveInv ==
  ASSUME IInv, NEW m \in mail, Arrive(m)
  PROVE  IInv'
<1> USE DEF Arrive, IInv, endVars, eventVars
<1>1. /\ m \in Message /\ m.type = "REQ" /\ Pending(m) /\ m.from \in Ends
      /\ Peer(m.from) \in Ends /\ m.data = OfDial(m.from)
  BY EndFacts DEF TypeOK, Truthful, Pending
<1>2. \A x \in mail : x.type = "REQ" /\ x.from = m.from => x = m
  <2>1. SUFFICES ASSUME NEW x \in mail, x.type = "REQ", x.from = m.from
        PROVE  x = m
    OBVIOUS
  <2>2. x.data = m.data /\ x \in Message
    BY <1>1, <2>1 DEF Truthful, Pending, TypeOK
  <2>3. QED BY <1>1, <2>1, <2>2 DEF Message
<1>3. CASE listener = "listening" /\ Len(backlog) < Backlog
  <2>1. backlog' = Append(backlog, m) /\ mail' = mail \ {m} BY <1>3
  <2>2. /\ backlog' \in Seq(Message) /\ Len(backlog') = Len(backlog) + 1
        /\ Len(backlog) \in Nat /\ DOMAIN backlog = 1 .. Len(backlog)
        /\ DOMAIN backlog' = 1 .. Len(backlog) + 1
        /\ backlog'[Len(backlog) + 1] = m
        /\ \A i \in DOMAIN backlog : backlog'[i] = backlog[i]
    BY <1>1, <2>1, AppendProperties
  <2>3. TypeOK'
    <3>1. \A i \in DOMAIN backlog' : backlog'[i] \in Message
      BY <2>2, ElementOfSeq
    <3>2. Range(backlog') \subseteq Message BY <3>1 DEF Range
    <3>3. Len(backlog') <= Backlog BY <1>3, <2>2, ConnectAssumption
    <3>4. QED BY <2>1, <3>2, <3>3 DEF TypeOK
  <2>4. OneRequest'
    <3>1. \A i \in DOMAIN backlog' :
            /\ backlog'[i].type = "REQ" /\ Pending(backlog'[i])
            /\ \A x \in mail' : x.type = "REQ" => x.from # backlog'[i].from
      <4>1. ASSUME NEW i \in DOMAIN backlog
            PROVE  /\ backlog'[i].type = "REQ" /\ Pending(backlog'[i])
                   /\ \A x \in mail' : x.type = "REQ" => x.from # backlog'[i].from
        BY <2>1, <2>2 DEF OneRequest
      <4>2. \A x \in mail' : x.type = "REQ" => x.from # m.from
        BY <1>2, <2>1
      <4>3. \A i \in DOMAIN backlog' : i \in DOMAIN backlog \/ i = Len(backlog) + 1
        BY <2>2
      <4>4. QED BY <1>1, <2>2, <4>1, <4>2, <4>3
    <3>2. \A i, j \in DOMAIN backlog' :
            i # j => backlog'[i].from # backlog'[j].from
      <4>1. \A i \in DOMAIN backlog : backlog[i].from # m.from
        BY <1>1 DEF OneRequest
      <4>2. QED BY <2>2, <4>1 DEF OneRequest
    <3>3. QED BY <3>1, <3>2 DEF OneRequest, Pending, OfDial
  <2>5. QED BY <1>1, <2>1, <2>2, <2>3, <2>4, MailKept
<1>4. CASE ~(listener = "listening" /\ Len(backlog) < Backlog)
  <2>1. PICK rej : rej = Mail("REJ", Peer(m.from), 0) OBVIOUS
  <2>2. mail' = (mail \ {m}) \cup {rej} /\ backlog' = backlog BY <1>4, <2>1
  <2>3. rej \in Message /\ rej.type = "REJ" BY <1>1, <2>1 DEF Mail, Message
  <2>4. TypeOK' BY <2>2, <2>3 DEF TypeOK
  <2>5. OneRequest' BY <2>2, <2>3 DEF OneRequest, Pending, OfDial
  <2>6. QED BY <1>1, <2>2, <2>3, <2>4, <2>5, MailKept
<1>5. QED BY <1>3, <1>4

\* The listener is closed: those that wait are refused.
LEMMA CloseListenerInv ==
  ASSUME IInv, CloseListener
  PROVE  IInv'
<1> USE DEF CloseListener, IInv, endVars, eventVars
<1>1. \A x \in mail' : x \in mail \/ (x.type = "REJ" /\ x \in Message)
  <2>1. ASSUME NEW m \in Range(backlog)
        PROVE  Mail("REJ", Peer(m.from), 0) \in Message
    <3>1. m.from \in Dials BY DEF OneRequest, Pending, Range
    <3>2. Peer(m.from) \in Ends BY <3>1, EndFacts
    <3>3. QED BY <3>2 DEF Mail, Message
  <2>2. QED BY <2>1 DEF Mail
<1>2. /\ backlog' \in Seq(Message) /\ DOMAIN backlog' = {} /\ Len(backlog') = 0
      /\ Range(backlog') = {}
  BY DEF Range
<1>3. TypeOK' BY <1>1, <1>2, ConnectAssumption DEF TypeOK
<1>4. OneRequest' BY <1>2 DEF OneRequest
<1>5. QED BY <1>1, <1>2, <1>3, <1>4, MailKept

\* Accept takes the request that waits longest, and nobody else's.
LEMMA GetRequestInv ==
  ASSUME IInv, NEW o \in ServerOptions, GetRequest(o)
  PROVE  IInv'
<1> DEFINE q == backlog[1]
<1> DEFINE e == Peer(q.from)
<1> USE DEF IInv, eventVars
<1>1. /\ backlog # <<>> /\ Len(backlog) \in Nat \ {0}
      /\ DOMAIN backlog = 1 .. Len(backlog) /\ Head(backlog) = q
      /\ backlog' = Tail(backlog) /\ backlog' \in Seq(Message)
      /\ Len(backlog') = Len(backlog) - 1
      /\ DOMAIN backlog' = 1 .. Len(backlog) - 1
      /\ \A i \in DOMAIN backlog' : /\ backlog'[i] = backlog[i + 1]
                                   /\ i + 1 \in DOMAIN backlog /\ i + 1 # 1
  <2>1. backlog # <<>> /\ backlog' = Tail(backlog) BY DEF GetRequest
  <2>2. /\ Len(backlog) \in Nat \ {0} /\ DOMAIN backlog = 1 .. Len(backlog)
        /\ Head(backlog) = backlog[1]
    BY <2>1, LenProperties, EmptySeq
  <2>3. /\ backlog' \in Seq(Message) /\ Len(backlog') = Len(backlog) - 1
        /\ \A i \in 1 .. Len(backlog') : backlog'[i] = backlog[i + 1]
    BY <2>1, HeadTailProperties
  <2>4. DOMAIN backlog' = 1 .. Len(backlog) - 1 BY <2>3, LenProperties
  <2>5. QED BY <2>1, <2>2, <2>3, <2>4
<1>2. /\ Pending(q) /\ \A m \in mail : m.type = "REQ" => m.from # q.from
      /\ \A i \in DOMAIN backlog : i # 1 => backlog[i].from # q.from
  BY <1>1 DEF OneRequest
<1>3. /\ q.from \in Dials /\ q.data = OfDial(q.from) /\ pc[e] = "idle"
      /\ pc[q.from] \notin {"dialed", "created", "qp"}
      /\ e \in Conns /\ e \in Ends /\ e \notin Dials /\ Peer(e) = q.from
      /\ e[1] \in Clients /\ q.from[1] \in Clients
  BY <1>2, EndFacts DEF Pending
<1>4. /\ opts' = [opts EXCEPT ![e] = o] /\ pc' = [pc EXCEPT ![e] = "requested"]
      /\ private_data' = [private_data EXCEPT ![e] = q.data]
      /\ accepted' = Append(accepted, e[1])
      /\ UNCHANGED <<qp, id_qp, qp_srq, id_srq, listener, mail, failures, events,
                     handled>>
      /\ Len(accepted) < Accepts /\ ~Accepting
  BY <1>1 DEF GetRequest, Request
<1> HIDE DEF e, q
<1>5. /\ opts'[e] = o /\ pc'[e] = "requested" /\ private_data'[e] = q.data
      /\ \A x \in Ends : x # e => /\ opts'[x] = opts[x] /\ pc'[x] = pc[x]
                                  /\ private_data'[x] = private_data[x]
  BY <1>3, <1>4 DEF TypeOK
<1>6. /\ accepted' \in Seq(Clients) /\ Len(accepted') = Len(accepted) + 1
      /\ Len(accepted) \in Nat /\ DOMAIN accepted = 1 .. Len(accepted)
      /\ DOMAIN accepted' = 1 .. Len(accepted) + 1
      /\ accepted'[Len(accepted')] = e[1]
      /\ \A i \in DOMAIN accepted : accepted'[i] = accepted[i]
  BY <1>3, <1>4, AppendProperties
<1>7. TypeOK'
  <2>1. opts' \in [Ends -> Options]
    BY <1>4, ConnectAssumption DEF TypeOK
  <2>2. pc' \in [Ends -> States] BY <1>4 DEF TypeOK, States
  <2>3. q.data \in {0} \cup Clients BY <1>3 DEF OfDial
  <2>4. /\ private_data' \in [Ends -> {0} \cup Clients \cup 1 .. Accepts]
        /\ \A x \in Ends : private_data'[x] \in
              {0} \cup (IF x \in Dials THEN 1 .. Accepts ELSE Clients)
    BY <1>3, <1>4, <1>5, <2>3 DEF TypeOK
  <2>5. Range(backlog') \subseteq Message /\ Len(backlog') <= Backlog
    BY <1>1, ConnectAssumption DEF TypeOK, Range
  <2>6. Range(accepted') \subseteq Clients /\ Len(accepted') <= Accepts
    <3>1. \A i \in DOMAIN accepted' : accepted'[i] \in Clients
      BY <1>6, ElementOfSeq
    <3>2. QED BY <1>4, <1>6, <3>1, ConnectAssumption DEF Range
  <2>7. QED BY <1>4, <2>1, <2>2, <2>4, <2>5, <2>6 DEF TypeOK
<1>8. \A x \in Ends : QpState(x)'
  <2>1. SUFFICES ASSUME NEW x \in Ends PROVE QpState(x)' OBVIOUS
  <2>2. CASE x = e BY <1>5, <2>2 DEF QpState
  <2>3. CASE x # e
    <3>1. Srq(x)' = Srq(x) BY <1>5, <2>3 DEF Srq
    <3>2. QED BY <1>4, <1>5, <2>3, <3>1 DEF QpState
  <2>4. QED BY <2>2, <2>3
<1>9. \A d \in Dials : OfDial(d)' = OfDial(d)
  BY <1>3, <1>5, EndFacts DEF OfDial
<1>10. \A d \in Dials : DialState(d)'
  <2>1. SUFFICES ASSUME NEW d \in Dials PROVE DialState(d)' OBVIOUS
  <2>2. /\ d \in Ends /\ d # e /\ Peer(d) \in Ends /\ Peer(Peer(d)) = d
    BY <1>3, EndFacts
  <2>3. pc[d] \in {"dialed", "created", "qp"} => Peer(d) # e BY <1>3, <2>2
  <2>4. QED BY <1>4, <1>5, <2>2, <2>3 DEF DialState, Mail
<1>11. \A a \in Conns : AcceptState(a)'
  <2>1. SUFFICES ASSUME NEW a \in Conns PROVE AcceptState(a)' OBVIOUS
  <2>2. CASE a = e
    <3>1. accepted' # <<>> BY <1>6, EmptySeq
    <3>2. private_data'[a] = OfDial(Peer(a))' BY <1>3, <1>5, <1>9, <2>2
    <3>3. QED BY <1>5, <1>6, <2>2, <3>1, <3>2 DEF AcceptState, Established
  <2>3. CASE a # e
    <3>1. /\ a \in Ends /\ a = <<a[1], "accept">> /\ Peer(a) \in Ends
          /\ Peer(a) \in Dials /\ Peer(a) # e
      BY <1>3, EndFacts
    <3>2. pc[a] \notin {"requested", "qp", "modify", "accepting"}
      <4>1. SUFFICES ASSUME pc[a] \in {"requested", "qp", "modify", "accepting"}
            PROVE FALSE
        OBVIOUS
      <4>2. accepted # <<>> /\ Last(accepted) = a[1]
        BY <4>1 DEF AcceptState, Last
      <4>3. QED BY <1>4, <3>1, <4>1, <4>2 DEF Accepting, Returned
    <3>3. Established(Peer(a)) => Established(Peer(a))'
      BY <1>5, <3>1 DEF Established
    <3>4. QED
      BY <1>4, <1>5, <1>9, <2>3, <3>1, <3>2, <3>3 DEF AcceptState, Established
  <2>4. QED BY <2>2, <2>3
<1>12. \A m : Pending(m) /\ m.from # q.from => Pending(m)'
  <2>1. SUFFICES ASSUME NEW m, Pending(m), m.from # q.from PROVE Pending(m)'
    OBVIOUS
  <2>2. /\ m.from \in Dials /\ m.from \in Ends /\ m.from # e
        /\ Peer(m.from) \in Ends /\ Peer(m.from) # e
    BY <1>3, <2>1, EndFacts DEF Pending
  <2>3. QED BY <1>5, <1>9, <2>1, <2>2 DEF Pending
<1>13. \A m \in mail : Truthful(m)'
  <2>1. SUFFICES ASSUME NEW m \in mail PROVE Truthful(m)' OBVIOUS
  <2>2. Truthful(m) OBVIOUS
  <2>3. m.type = "REQ" => Pending(m)' BY <1>2, <1>12, <2>2 DEF Truthful
  <2>4. ASSUME m.type \in {"REP", "RTU"}
        PROVE  /\ m.from \in Ends /\ m.from # e /\ pc'[m.from] = pc[m.from]
               /\ opts'[m.from] = opts[m.from]
    BY <1>3, <1>5, <2>2, <2>4, EndFacts DEF Truthful, Established
  <2>5. m.type = "REP" => OfCall(m.from, m.data)'
    BY <1>6, <2>2, <2>4 DEF Truthful, OfCall
  <2>6. QED BY <1>4, <2>2, <2>3, <2>4, <2>5 DEF Truthful, Established
<1>14. OneRequest'
  <2>1. ASSUME NEW i \in DOMAIN backlog'
        PROVE  /\ backlog'[i].type = "REQ" /\ Pending(backlog[i])'
               /\ \A m \in mail' : m.type = "REQ" => m.from # backlog'[i].from
    <3>1. PICK x : x = backlog[i + 1] OBVIOUS
    <3>2. /\ backlog'[i] = x /\ i + 1 \in DOMAIN backlog /\ x.from # q.from
      BY <1>1, <1>2, <3>1
    <3>3. /\ x.type = "REQ" /\ Pending(x)
          /\ \A m \in mail : m.type = "REQ" => m.from # x.from
      BY <3>1, <3>2 DEF OneRequest
    <3>4. Pending(x)' BY <1>12, <3>2, <3>3
    <3>5. Pending(backlog[i])' BY <3>2, <3>4 DEF Pending, OfDial
    <3>6. QED BY <1>4, <3>2, <3>3, <3>5
  <2>2. ASSUME NEW i \in DOMAIN backlog', NEW j \in DOMAIN backlog', i # j
        PROVE  backlog'[i].from # backlog'[j].from
    <3>1. /\ backlog'[i] = backlog[i + 1] /\ i + 1 \in DOMAIN backlog
          /\ backlog'[j] = backlog[j + 1] /\ j + 1 \in DOMAIN backlog
          /\ i + 1 # j + 1
      BY <1>1, <2>2
    <3>2. QED BY <3>1 DEF OneRequest
  <2>3. QED BY <2>1, <2>2 DEF OneRequest
<1>15. EventState' BY <1>4, EventsKept
<1>16. QED
  BY <1>1, <1>4, <1>6, <1>7, <1>8, <1>10, <1>11, <1>13, <1>14, <1>15

-----------------------------------------------------------------------------
\* No step, of a program, a connection manager or a device, and no failure
\* breaks the invariant.
LEMMA StepInv == IInv /\ [Next]_vars => IInv'
<1> SUFFICES ASSUME IInv, [Next]_vars PROVE IInv' OBVIOUS
<1>1. ASSUME NEW c \in Clients, DialStep(c) PROVE IInv'
  BY <1>1, CreateInv, RdmaConnectInv, ConnectedInv, EstablishInv, ConnectFailsInv
     DEF DialStep
<1>2. ASSUME NEW c \in Clients, AcceptStep(c) PROVE IInv'
  BY <1>2, RdmaAcceptInv, AcceptedInv, AcceptFailsInv DEF AcceptStep
<1>3. ASSUME NEW e \in Ends, EndStep(e) PROVE IInv'
  BY <1>3, CreateQpInv, ModifyInv, FailsInv, CloseInv, DeleteInv, DestroyedInv,
     GetAsyncEventInv DEF EndStep
<1>4. CASE UNCHANGED vars
  <2>1. TypeOK'
    BY <1>4 DEF IInv, TypeOK, vars, endVars, serverVars, eventVars
  <2>2. EventState'
    BY <1>4 DEF IInv, EventState, vars, endVars, eventVars
  <2>3. QED BY <1>4, <2>1, <2>2, EndsKept DEF vars, serverVars
<1>5. QED
  BY <1>1, <1>2, <1>3, <1>4, ArriveInv, GetRequestInv, AckAsyncEventInv,
     ListenInv, CloseListenerInv, FailsInv, ReportInv DEF Next, Progress

\* Whatever clients and the server ask for, whatever fails and whenever: what an
\* end holds, what is under way and what waits at the listener fit together.
THEOREM Invariance == Spec => []IInv
BY InitInv, StepInv, PTL DEF Spec

\* Dial's client has the data of the call of Accept that took its request, and
\* that call has the data of this client (endpoint.cpp:384, 690), no matter in
\* which order requests arrive, wait and are refused.
THEOREM EndsPaired == Spec => []Pairing
<1>1. ASSUME IInv PROVE Pairing
  <2>1. ASSUME NEW c \in Clients, pc[<<c, "dial">>] = "ok"
        PROVE  LET d == <<c, "dial">>  a == <<c, "accept">>
               IN  IF opts[a].data
                     THEN private_data[d] # 0 /\ accepted[private_data[d]] = c
                     ELSE private_data[d] = 0
    <3>1. PICK d \in Dials : d = <<c, "dial">> BY EndFacts
    <3>2. PICK m \in mail : m = Mail("REP", Peer(d), private_data[d])
      BY <1>1, <2>1, <3>1 DEF IInv, DialState
    <3>3. m.type = "REP" /\ m.from = <<c, "accept">> /\ m.data = private_data[d]
      BY <3>1, <3>2, EndFacts DEF Mail
    <3>4. OfCall(m.from, m.data) BY <1>1, <3>2, <3>3 DEF IInv, Truthful
    <3>5. 0 \notin DOMAIN accepted
      <4>1. DOMAIN accepted = 1 .. Len(accepted) BY <1>1 DEF IInv
      <4>2. QED BY <4>1
    <3>6. QED BY <3>1, <3>3, <3>4, <3>5 DEF OfCall
  <2>2. ASSUME NEW c \in Clients, pc[<<c, "accept">>] = "ok"
        PROVE  private_data[<<c, "accept">>] =
                 IF opts[<<c, "dial">>].data THEN c ELSE 0
    <3>1. PICK a \in Conns : a = <<c, "accept">> /\ Peer(a) = <<c, "dial">>
      BY EndFacts
    <3>2. private_data[a] = OfDial(Peer(a))
      BY <1>1, <2>2, <3>1 DEF IInv, AcceptState
    <3>3. QED BY <3>1, <3>2 DEF OfDial
  <2>3. QED BY <2>1, <2>2 DEF Pairing
<1>2. QED BY <1>1, Invariance, PTL

\* Neither call returns an endpoint too early, and no event handler runs on a
\* queue pair that is gone.
LEMMA ReadyInv == IInv => TypeOK /\ Ready /\ HandledAlive
<1> SUFFICES ASSUME IInv PROVE TypeOK /\ Ready /\ HandledAlive OBVIOUS
<1>1. ASSUME NEW e \in Ends, pc[e] = "ok"
      PROVE  /\ qp[e] = "RTS" /\ id_qp[e]
             /\ \/ Established(Peer(e))
                \/ e \in Dials /\ pc[Peer(e)] \in {"accepting", "failed"}
             /\ pc[Peer(e)] \notin {"closed", "destroying", "destroyed"}
                  => qp[Peer(e)] \in {"RTR", "RTS"}
  <2>1. qp[e] = "RTS" /\ id_qp[e] BY <1>1 DEF IInv, QpState
  <2>2. CASE e \in Dials
    <3>1. PICK m \in mail : m = Mail("REP", Peer(e), private_data[e])
      BY <1>1, <2>2 DEF IInv, DialState
    <3>2. m.type = "REP" /\ m.from = Peer(e) BY <3>1 DEF Mail
    <3>3. QED BY <2>1, <2>2, <3>2 DEF IInv, Truthful, Established
  <2>3. CASE e \in Conns
    <3>1. Peer(e) \in Ends BY <2>3, EndFacts
    <3>2. Established(e) BY <1>1 DEF Established
    <3>3. Established(Peer(e)) BY <2>3, <3>2 DEF IInv, AcceptState
    <3>4. pc[Peer(e)] = "ok" => qp[Peer(e)] = "RTS" BY <3>1 DEF IInv, QpState
    <3>5. QED BY <2>1, <3>3, <3>4 DEF Established
  <2>4. QED BY <2>2, <2>3, EndFacts
<1>2. HandledAlive BY DEF IInv, EventState, TypeOK, HandledAlive
<1>3. QED BY <1>1, <1>2 DEF IInv, Ready

\* When Dial or Accept has returned, its endpoint can send, and finds a queue
\* pair that can receive; handlers of asynchronous events find theirs alive.
THEOREM EndpointsReady == Spec => [](TypeOK /\ Ready /\ HandledAlive)
BY Invariance, ReadyInv, PTL

\* What a client asked of Dial stays what it asked for.
LEMMA DialOptionsKept ==
  ASSUME IInv, [Next]_vars, NEW d \in Dials
  PROVE  opts'[d] = opts[d]
<1>1. CASE \E o \in ServerOptions : GetRequest(o)
  <2>1. PICK o \in ServerOptions : GetRequest(o) BY <1>1
  <2>2. backlog # <<>> /\ backlog \in Seq(Message) BY <2>1 DEF GetRequest, IInv
  <2>3. 1 \in DOMAIN backlog /\ Head(backlog) = backlog[1]
    BY <2>2, LenProperties, EmptySeq
  <2>4. Head(backlog).from \in Dials BY <2>3 DEF IInv, OneRequest, Pending
  <2>5. Peer(Head(backlog).from) # d BY <2>4, EndFacts
  <2>6. opts \in [Ends -> Options] /\ d \in Ends BY EndFacts DEF IInv, TypeOK
  <2>7. QED BY <2>1, <2>5, <2>6 DEF GetRequest
<1>2. CASE ~\E o \in ServerOptions : GetRequest(o)
  BY <1>2 DEF Next, Progress, vars, endVars, DialStep, AcceptStep, EndStep, Create,
     RdmaConnect, Connected, Establish, ConnectFails, RdmaAccept, Accepted,
     AcceptFails, CreateQp, Modify, Inline, Fails, Fail, Close, Delete, Destroyed,
     GetAsyncEvent, AckAsyncEvent, Arrive, Listen, CloseListener, Report
<1>3. QED BY <1>1, <1>2

\* No client of those that dial has a native queue pair and a receive queue.
GivenSeen == \A d \in Dials : ~(opts[d].native /\ opts[d].srq = "given")

\* All that Connect, Accept and Close keep: besides, PostRecv posts where the
\* queue pair takes its buffers from (endpoint.cpp:322), if no client gives a
\* native queue pair a receive queue.
THEOREM EndpointsSound ==
  ASSUME GivenSrqSeen
  PROVE  Spec => []ConnectInv
<1>1. Init => GivenSeen
  <2>1. SUFFICES ASSUME Init, NEW d \in Dials
        PROVE  ~(opts[d].native /\ opts[d].srq = "given")
    BY DEF GivenSeen
  <2>2. d \in Ends /\ d[1] \in Clients BY EndFacts
  <2>3. PICK o \in DialOptions : opts[d] = o[d[1]] BY <2>1, <2>2 DEF Init
  <2>4. QED BY <2>2, <2>3, GivenSrqSeen DEF GivenSrqSeen
<1>2. IInv /\ GivenSeen /\ [Next]_vars => GivenSeen'
  BY DialOptionsKept DEF GivenSeen
<1>3. ASSUME IInv, GivenSeen PROVE ReceivesPost
  <2>1. SUFFICES ASSUME NEW e \in Ends, pc[e] = "ok" PROVE id_srq[e] = qp_srq[e]
    BY DEF ReceivesPost
  <2>2. CASE e \in Dials
    <3>1. qp_srq[e] = opts[e].srq
      BY <1>3, <2>1, <2>2, EndFacts DEF IInv, QpState, Srq
    <3>2. id_srq[e] = IF opts[e].native THEN "none" ELSE qp_srq[e]
      BY <1>3, <2>1, <2>2 DEF IInv, DialState
    <3>3. opts[e].srq \in {"none", "given"} BY <1>3 DEF IInv, TypeOK, Options
    <3>4. QED BY <1>3, <2>2, <3>1, <3>2, <3>3 DEF GivenSeen
  <2>3. CASE e \in Conns BY <1>3, <2>1, <2>3 DEF IInv, AcceptState
  <2>4. QED BY <2>2, <2>3, EndFacts
<1>4. IInv /\ GivenSeen => ConnectInv BY <1>3, ReadyInv DEF ConnectInv
<1>5. QED BY <1>1, <1>2, <1>4, Invariance, PTL DEF Spec
=============================================================================
