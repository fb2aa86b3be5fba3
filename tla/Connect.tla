------------------------------- MODULE Connect -------------------------------
(***************************************************************************)
(* How endpoints come to be: Dial and Connect at a client, Listen and       *)
(* Accept at the server, the connection manager between them, Close and     *)
(* the destructor, and the thread that reads a device's asynchronous        *)
(* events.  A queue pair is made by the connection manager or, "native", by *)
(* the program itself, which must then take it through its states before    *)
(* the other end may rely on it.  A call may fail at every step, and what   *)
(* it leaves behind tells the other end nothing: that one finds out by time.*)
(***************************************************************************)
EXTENDS Integers, Sequences, SequencesExt, FiniteSets

CONSTANTS
  Clients,         \* each dials once
  DialOptions,     \* the options they may pass to Dial, by client
  ServerOptions,   \* the options the server may pass to a call of Accept
  Backlog,         \* requests that may wait at the listener: 20 in Listen
  Accepts,         \* calls of Accept before the server closes its listener
  MaxFaults        \* bound: calls that fail, timers that fire too soon, and
                   \* asynchronous events, one for an end

Options ==
  [native : BOOLEAN,             \* native_qp
   inline : BOOLEAN,             \* inline_recv is not 0
   use_srq : BOOLEAN, srq : {"none", "given"},   \* srq: that of qp_attr
   data : BOOLEAN]               \* is private data passed along

ASSUME ConnectAssumption ==
  /\ DialOptions \subseteq [Clients -> Options] /\ ServerOptions \subseteq Options
  /\ {Backlog, Accepts, MaxFaults} \subseteq Nat
  /\ \A c \in Clients : c # 0

Dials == Clients \X {"dial"}
Conns == Clients \X {"accept"}
Ends == Dials \cup Conns
Peer(e) == <<e[1], IF e[2] = "dial" THEN "accept" ELSE "dial">>
Hosts == Clients \cup {"server"}
Host(e) == IF e \in Dials THEN e[1] ELSE "server"

VARIABLES
  opts,        \* by end, the options of the call that makes it
  pc,          \* where that call is, then what became of the endpoint
  qp,          \* the state of its queue pair, "NONE" before it is created
  id_qp,       \* is id_->qp set to it?
  qp_srq,      \* the shared receive queue the queue pair was created with
  id_srq,      \* id_->srq, the queue PostRecv posts to unless it is null
  private_data,   \* what GetConnectionInfo returns, 0 for nothing
  listener,    \* "none", "listening" or "closed"
  backlog,     \* the requests that wait at it
  accepted,    \* the clients whose requests calls of Accept took, in order
  mail,        \* messages of the connection managers that have arrived
  failures,    \* how many calls failed
  events,      \* by end, what became of an asynchronous event of its queue pair
  handled      \* by host, the end whose event its thread handles, or <<>>

endVars == <<opts, pc, qp, id_qp, qp_srq, id_srq, private_data>>
serverVars == <<listener, backlog, accepted>>
eventVars == <<events, handled>>
vars == <<endVars, serverVars, mail, failures, eventVars>>

Unset == [native |-> FALSE, inline |-> FALSE, use_srq |-> FALSE,
          srq |-> "none", data |-> FALSE]
Message == [type : {"REQ", "REP", "REJ", "RTU"}, from : Ends,
            data : {0} \cup Clients \cup Nat]
Mail(type, e, d) == [type |-> type, from |-> e, data |-> d]
Has(type, e) == \E m \in mail : m.type = type /\ m.from = e

MayFail == failures + Cardinality({e \in Ends : events[e] # "none"}) < MaxFaults

Returned(e) == pc[e] \notin {"idle", "dialed", "created", "requested", "qp",
                             "modify", "requesting", "accepting"}
Accepting == accepted # <<>> /\ ~Returned(<<Last(accepted), "accept">>)

-----------------------------------------------------------------------------
(* What both calls do                                                       *)

\* The queue: the one given, or the one made; Connect makes one and drops it
Srq(e) ==
  IF e \in Conns /\ opts[e].use_srq /\ opts[e].srq = "none"
    THEN "made" ELSE opts[e].srq

\* rdma_create_qp, or ibv_create_qp with the identifier left without it for
\* rdma_connect.  The identifier learns of the receive queue only here, in
\* Connect, and once the connection stands, in Accept.
CreateQp(e) ==
  /\ pc[e] = (IF e \in Dials THEN "created" ELSE "requested")
  /\ ~(e \in Conns /\ opts[e].native /\ opts[e].inline)
  /\ qp' = [qp EXCEPT ![e] = IF opts[e].native THEN "RESET" ELSE "INIT"]
  /\ qp_srq' = [qp_srq EXCEPT ![e] = Srq(e)]
  /\ id_qp' = [id_qp EXCEPT ![e] = ~opts[e].native]
  /\ id_srq' = [id_srq EXCEPT ![e] =
                  IF e \in Dials /\ ~opts[e].native THEN Srq(e) ELSE @]
  /\ pc' = [pc EXCEPT ![e] =
              IF e \in Conns /\ opts[e].native THEN "modify" ELSE "qp"]
  /\ UNCHANGED <<opts, private_data, serverVars, mail, failures, eventVars>>

\* A native queue pair goes through its states one by one
Modify(e) ==
  /\ pc[e] = "modify" /\ qp[e] # "RTS"
  /\ qp' = [qp EXCEPT ![e] = CASE @ = "RESET" -> "INIT" [] @ = "INIT" -> "RTR"
                               [] @ = "RTR" -> "RTS"]
  /\ UNCHANGED <<opts, pc, id_qp, qp_srq, id_srq, private_data, serverVars,
                 mail, failures, eventVars>>

\* Some call returns an error, and so does Dial or Accept: what exists stays.
\* Connect does not look at what ibv_create_qp returned before it uses it.
Outcomes(e) ==
  IF e \in Dials /\ pc[e] = "created" /\ opts[e].native
    THEN {"crashed"} \cup {o \in {"failed"} : opts[e].use_srq /\ opts[e].srq = "none"}
    ELSE {"failed"}

Fails(e) ==
  /\ pc[e] \in {"dialed", "created", "requested", "qp", "modify"}
  /\ \E o \in Outcomes(e) : pc' = [pc EXCEPT ![e] = o]
  /\ UNCHANGED <<opts, qp, id_qp, qp_srq, id_srq, private_data, serverVars,
                 mail, eventVars>>

Fail(e) == MayFail /\ failures' = failures + 1 /\ Fails(e)

\* What cannot work: receiving inline, where no queue pair is created
Inline(e) ==
  /\ e \in Conns /\ pc[e] = "requested" /\ opts[e].native /\ opts[e].inline
  /\ Fails(e) /\ UNCHANGED failures

-----------------------------------------------------------------------------
(* Dial                                                                     *)

\* Create resolves the address and makes the identifier
Create(c) ==
  LET e == <<c, "dial">> IN
  /\ pc[e] = "dialed"
  /\ pc' = [pc EXCEPT ![e] = "created"]
  /\ UNCHANGED <<opts, qp, id_qp, qp_srq, id_srq, private_data, serverVars,
                 mail, failures, eventVars>>

\* rdma_connect sends the request and waits
RdmaConnect(c) ==
  LET e == <<c, "dial">> IN
  /\ pc[e] = "qp"
  /\ pc' = [pc EXCEPT ![e] = "requesting"]
  /\ mail' = mail \cup {Mail("REQ", e, IF opts[e].data THEN c ELSE 0)}
  /\ UNCHANGED <<opts, qp, id_qp, qp_srq, id_srq, private_data, serverVars,
                 failures, eventVars>>

\* The answer comes: rdma_connect makes its queue pair ready and says so, if
\* the identifier has one, and Connect copies the data of the answer
Connected(c) ==
  LET e == <<c, "dial">> IN
  /\ pc[e] = "requesting"
  /\ \E m \in mail :
       /\ m.type = "REP" /\ m.from = Peer(e)
       /\ private_data' = [private_data EXCEPT ![e] = m.data]
  /\ IF opts[e].native
       THEN pc' = [pc EXCEPT ![e] = "modify"] /\ UNCHANGED <<qp, mail>>
       ELSE /\ pc' = [pc EXCEPT ![e] = "ok"]
            /\ qp' = [qp EXCEPT ![e] = "RTS"]
            /\ mail' = mail \cup {Mail("RTU", e, 0)}
  /\ UNCHANGED <<opts, id_qp, qp_srq, id_srq, serverVars, failures, eventVars>>

\* Mutant of Establish: tell the server before the queue pair can receive
EstablishEarly(c) ==
  LET e == <<c, "dial">> IN
  /\ pc[e] = "modify" /\ qp[e] = "INIT"
  /\ mail' = mail \cup {Mail("RTU", e, 0)}
  /\ id_qp' = [id_qp EXCEPT ![e] = TRUE]
  /\ pc' = [pc EXCEPT ![e] = "ok"]
  /\ UNCHANGED <<opts, qp, qp_srq, id_srq, private_data, serverVars, failures,
                 eventVars>>

\* Mutant of Establish: no rdma_establish
EstablishNever(c) ==
  LET e == <<c, "dial">> IN
  /\ pc[e] = "modify" /\ qp[e] = "RTS"
  /\ id_qp' = [id_qp EXCEPT ![e] = TRUE]
  /\ pc' = [pc EXCEPT ![e] = "ok"]
  /\ UNCHANGED <<opts, qp, qp_srq, id_srq, private_data, serverVars, mail,
                 failures, eventVars>>

\* rdma_establish, once the native queue pair is ready
Establish(c) ==
  LET e == <<c, "dial">> IN
  /\ pc[e] = "modify" /\ qp[e] = "RTS"
  /\ mail' = mail \cup {Mail("RTU", e, 0)}
  /\ id_qp' = [id_qp EXCEPT ![e] = TRUE]
  /\ pc' = [pc EXCEPT ![e] = "ok"]
  /\ UNCHANGED <<opts, qp, qp_srq, id_srq, private_data, serverVars, failures,
                 eventVars>>

\* rdma_connect returns an error: refused, or no answer came in time
ConnectFails(c) ==
  LET e == <<c, "dial">> IN
  /\ pc[e] = "requesting" /\ ~Has("REP", Peer(e))
  /\ \/ Has("REJ", Peer(e)) /\ UNCHANGED failures
     \/ pc[Peer(e)] = "failed" /\ UNCHANGED failures
     \/ MayFail /\ failures' = failures + 1
  /\ pc' = [pc EXCEPT ![e] = "failed"]
  /\ UNCHANGED <<opts, qp, id_qp, qp_srq, id_srq, private_data, serverVars,
                 mail, eventVars>>

-----------------------------------------------------------------------------
(* The server                                                               *)

Listen ==
  /\ listener = "none"
  /\ listener' = "listening"
  /\ UNCHANGED <<endVars, backlog, accepted, mail, failures, eventVars>>

\* The connection manager queues a request, or refuses it when nobody listens
\* or too many wait
Arrive(m) ==
  /\ m \in mail /\ m.type = "REQ"
  /\ IF listener = "listening" /\ Len(backlog) < Backlog
       THEN /\ backlog' = Append(backlog, m)
            /\ mail' = mail \ {m}
       ELSE /\ mail' = (mail \ {m}) \cup {Mail("REJ", Peer(m.from), 0)}
            /\ UNCHANGED backlog
  /\ UNCHANGED <<endVars, listener, accepted, failures, eventVars>>

\* Mutant of Request: the event of the listener, that of the last request
RequestLast == Last(backlog)

\* The request Accept takes from the listener
Request == Head(backlog)

\* rdma_get_request; the data is copied from the event of the new identifier
GetRequest(o) ==
  /\ listener = "listening" /\ Len(accepted) < Accepts /\ ~Accepting
  /\ backlog # <<>>
  /\ LET e == Peer(Head(backlog).from) IN
     /\ opts' = [opts EXCEPT ![e] = o]
     /\ pc' = [pc EXCEPT ![e] = "requested"]
     /\ private_data' = [private_data EXCEPT ![e] = Request.data]
     /\ accepted' = Append(accepted, e[1])
  /\ backlog' = Tail(backlog)
  /\ UNCHANGED <<qp, id_qp, qp_srq, id_srq, listener, mail, failures, eventVars>>

\* When may Accept answer: with a queue pair that can receive
CanAnswer(e) == pc[e] = "qp" \/ (pc[e] = "modify" /\ qp[e] = "RTS")

\* rdma_accept answers and waits; it makes its own queue pair ready first.
\* The data of the answer is that of this call of Accept, here its number.
RdmaAccept(c) ==
  LET e == <<c, "accept">> IN
  /\ e \in Conns /\ CanAnswer(e)
  /\ qp' = [qp EXCEPT ![e] = IF opts[e].native THEN @ ELSE "RTS"]
  /\ mail' = mail \cup {Mail("REP", e, IF opts[e].data THEN Len(accepted) ELSE 0)}
  /\ pc' = [pc EXCEPT ![e] = "accepting"]
  /\ UNCHANGED <<opts, id_qp, qp_srq, id_srq, private_data, serverVars,
                 failures, eventVars>>

\* The client is ready: the identifier gets the queues, and Accept returns
Accepted(c) ==
  LET e == <<c, "accept">> IN
  /\ pc[e] = "accepting" /\ Has("RTU", Peer(e))
  /\ id_srq' = [id_srq EXCEPT ![e] = Srq(e)]
  /\ id_qp' = [id_qp EXCEPT ![e] = TRUE]
  /\ pc' = [pc EXCEPT ![e] = "ok"]
  /\ UNCHANGED <<opts, qp, qp_srq, private_data, serverVars, mail, failures,
                 eventVars>>

\* rdma_accept returns an error: the client does not become ready in time
AcceptFails(c) ==
  LET e == <<c, "accept">> IN
  /\ pc[e] = "accepting" /\ ~Has("RTU", Peer(e))
  /\ \/ pc[Peer(e)] \in {"failed", "crashed"} /\ UNCHANGED failures
     \/ MayFail /\ failures' = failures + 1
  /\ pc' = [pc EXCEPT ![e] = "failed"]
  /\ UNCHANGED <<opts, qp, id_qp, qp_srq, id_srq, private_data, serverVars,
                 mail, eventVars>>

\* Listener::Close; the connection manager refuses those that wait
CloseListener ==
  /\ listener = "listening" /\ Len(accepted) = Accepts /\ ~Accepting
  /\ listener' = "closed"
  /\ mail' = mail \cup {Mail("REJ", Peer(m.from), 0) : m \in Range(backlog)}
  /\ backlog' = <<>>
  /\ UNCHANGED <<endVars, accepted, failures, eventVars>>

-----------------------------------------------------------------------------
(* The end of an endpoint, and asynchronous events                          *)

\* rdma_disconnect, whether or not the other end takes part
Close(e) ==
  /\ pc[e] = "ok"
  /\ pc' = [pc EXCEPT ![e] = "closed"]
  /\ qp' = [qp EXCEPT ![e] = "ERR"]
  /\ UNCHANGED <<opts, id_qp, qp_srq, id_srq, private_data, serverVars, mail,
                 failures, eventVars>>

\* ~Endpoint frees the data and asks for the queue pair to be destroyed
Delete(e) ==
  /\ pc[e] = "closed"
  /\ pc' = [pc EXCEPT ![e] = "destroying"]
  /\ private_data' = [private_data EXCEPT ![e] = 0]
  /\ UNCHANGED <<opts, qp, id_qp, qp_srq, id_srq, serverVars, mail, failures,
                 eventVars>>

\* which the device does once its events that were read are acknowledged; it
\* forgets the others
Destroyed(e) ==
  /\ pc[e] = "destroying" /\ events[e] # "read"
  /\ pc' = [pc EXCEPT ![e] = "destroyed"]
  /\ qp' = [qp EXCEPT ![e] = "NONE"]
  /\ id_qp' = [id_qp EXCEPT ![e] = FALSE]
  /\ events' = [events EXCEPT ![e] = "done"]
  /\ UNCHANGED <<opts, qp_srq, id_srq, private_data, serverVars, mail,
                 failures, handled>>

\* The device reports something about a queue pair
Report(e) ==
  /\ qp[e] # "NONE" /\ events[e] = "none"
  /\ MayFail
  /\ events' = [events EXCEPT ![e] = "reported"]
  /\ UNCHANGED <<endVars, serverVars, mail, failures, handled>>

\* RunAsyncEventHandler, in a thread of TrailAsyncEvents: get the next event,
GetAsyncEvent(e) ==
  /\ handled[Host(e)] = <<>> /\ events[e] = "reported"
  /\ handled' = [handled EXCEPT ![Host(e)] = e]
  /\ events' = [events EXCEPT ![e] = "read"]
  /\ UNCHANGED <<endVars, serverVars, mail, failures>>

\* Mutant of AckAsyncEvent: no acknowledgement
AckAsyncEventNever(h) ==
  /\ handled[h] # <<>>
  /\ handled' = [handled EXCEPT ![h] = <<>>]
  /\ UNCHANGED <<endVars, serverVars, mail, failures, events>>

\* run the handler, LogAsyncEvent, which always succeeds, and acknowledge
AckAsyncEvent(h) ==
  /\ handled[h] # <<>>
  /\ events' = [events EXCEPT ![handled[h]] = "done"]
  /\ handled' = [handled EXCEPT ![h] = <<>>]
  /\ UNCHANGED <<endVars, serverVars, mail, failures>>

-----------------------------------------------------------------------------
Init ==
  /\ \E o \in DialOptions :
       opts = [e \in Ends |-> IF e \in Dials THEN o[e[1]] ELSE Unset]
  /\ pc = [e \in Ends |-> IF e \in Dials THEN "dialed" ELSE "idle"]
  /\ qp = [e \in Ends |-> "NONE"] /\ id_qp = [e \in Ends |-> FALSE]
  /\ qp_srq = [e \in Ends |-> "none"] /\ id_srq = [e \in Ends |-> "none"]
  /\ private_data = [e \in Ends |-> 0]
  /\ listener = "none" /\ backlog = <<>> /\ accepted = <<>>
  /\ mail = {} /\ failures = 0
  /\ events = [e \in Ends |-> "none"] /\ handled = [h \in Hosts |-> <<>>]

DialStep(c) ==
  Create(c) \/ RdmaConnect(c) \/ Connected(c) \/ Establish(c) \/ ConnectFails(c)
AcceptStep(c) == RdmaAccept(c) \/ Accepted(c) \/ AcceptFails(c)
EndStep(e) == CreateQp(e) \/ Modify(e) \/ Inline(e) \/ Close(e) \/ Delete(e)
                \/ Destroyed(e) \/ GetAsyncEvent(e)

\* What happens when nothing fails that need not, and nothing is reported
Progress ==
  \/ \E c \in Clients : DialStep(c) \/ AcceptStep(c)
  \/ \E e \in Ends : EndStep(e)
  \/ \E m \in mail : Arrive(m)
  \/ \E o \in ServerOptions : GetRequest(o)
  \/ \E h \in Hosts : AckAsyncEvent(h)
  \/ Listen \/ CloseListener

Next == Progress \/ \E e \in Ends : Fail(e) \/ Report(e)

Spec == Init /\ [][Next]_vars

\* Every thread runs on, and the connection managers deliver or give up.  No
\* behaviour is endless, so that this is the same as fairness of every step.
FairSpec == Spec /\ WF_vars(Progress)

-----------------------------------------------------------------------------
(* Properties                                                               *)

Established(e) == pc[e] \in {"ok", "closed", "destroying", "destroyed"}

\* Where a call or an endpoint may be
States == {"idle", "dialed", "created", "requested", "qp", "modify",
           "requesting", "accepting", "ok", "failed", "crashed", "closed",
           "destroying", "destroyed"}

\* The values every variable may have; the data a client got is that of a call
\* of Accept, and Accept got that of a client
TypeOK ==
  /\ opts \in [Ends -> Options]
  /\ pc \in [Ends -> States]
  /\ qp \in [Ends -> {"NONE", "RESET", "INIT", "RTR", "RTS", "ERR"}]
  /\ id_qp \in [Ends -> BOOLEAN]
  /\ {qp_srq, id_srq} \subseteq [Ends -> {"none", "given", "made"}]
  /\ private_data \in [Ends -> {0} \cup Clients \cup 1 .. Accepts]
  /\ \A e \in Ends : private_data[e] \in
       {0} \cup (IF e \in Dials THEN 1 .. Accepts ELSE Clients)
  /\ listener \in {"none", "listening", "closed"}
  /\ mail \subseteq Message /\ Range(backlog) \subseteq Message
  /\ Len(backlog) <= Backlog /\ Len(accepted) <= Accepts
  /\ Range(accepted) \subseteq Clients /\ failures \in 0 .. MaxFaults
  /\ events \in [Ends -> {"none", "reported", "read", "done"}]
  /\ handled \in [Hosts -> Ends \cup {<<>>}]

\* What GetConnectionInfo returns is what the very other end passed: the client
\* has the data of the call of Accept that took its request, and that call has
\* the data of this client (endpoint.cpp:384, 690)
Pairing ==
  \A c \in Clients :
    LET d == <<c, "dial">>  a == <<c, "accept">> IN
    /\ pc[d] = "ok" =>
         IF opts[a].data
           THEN private_data[d] # 0 /\ accepted[private_data[d]] = c
           ELSE private_data[d] = 0
    /\ pc[a] = "ok" => private_data[a] = IF opts[d].data THEN c ELSE 0

\* When Dial or Accept has returned, its endpoint can send, and what it sends
\* finds a queue pair that can receive: neither end is told too early.  What
\* Accept returns has a client whose Dial returned as well.
Ready ==
  \A e \in Ends : pc[e] = "ok" =>
    /\ qp[e] = "RTS" /\ id_qp[e]
    /\ \/ Established(Peer(e))
       \/ e \in Dials /\ pc[Peer(e)] \in {"accepting", "failed"}
    /\ pc[Peer(e)] \notin {"closed", "destroying", "destroyed"}
         => qp[Peer(e)] \in {"RTR", "RTS"}

\* PostRecv chooses by the identifier where to post (endpoint.cpp:322): to the
\* shared receive queue exactly if the queue pair takes its buffers from there
ReceivesPost == \A e \in Ends : pc[e] = "ok" => id_srq[e] = qp_srq[e]

\* No event handler runs on a queue pair that the destructor of its endpoint
\* has destroyed in another thread: it is acknowledged only after it was used
HandledAlive == \A h \in Hosts : handled[h] # <<>> => qp[handled[h]] # "NONE"

\* What Connect, Accept and Close keep of every endpoint: what it uses is there,
\* and is the right one.
ConnectInv == TypeOK /\ Ready /\ ReceivesPost /\ HandledAlive

(* The inductive invariant behind ConnectInv and Pairing *)

\* How far the queue pair of an end is, and where it takes its buffers from
QpState(e) ==
  /\ pc[e] \in {"qp", "requesting"}
       => qp[e] = IF opts[e].native THEN "RESET" ELSE "INIT"
  /\ pc[e] = "modify" => qp[e] \in {"RESET", "INIT", "RTR", "RTS"}
  /\ pc[e] = "accepting" => qp[e] = "RTS"
  /\ pc[e] = "ok" => qp[e] = "RTS" /\ id_qp[e]
  /\ pc[e] \in {"qp", "requesting", "modify", "accepting", "ok"}
       => qp_srq[e] = Srq(e)

\* The data of the answer is that of the call of Accept at this end
OfCall(a, data) ==
  IF opts[a].data THEN data \in DOMAIN accepted /\ accepted[data] = a[1]
                  ELSE data = 0

\* The data of a request is that of the call of Dial at this end
OfDial(d) == IF opts[d].data THEN d[1] ELSE 0

DialState(d) ==
  /\ pc[d] \notin {"idle", "requested", "accepting"}
  /\ pc[d] \in {"dialed", "created"} => id_srq[d] = "none"
  /\ pc[d] \in {"dialed", "created", "qp"} => pc[Peer(d)] = "idle"
  /\ pc[d] \in {"qp", "requesting", "modify", "ok"}
       => id_srq[d] = IF opts[d].native THEN "none" ELSE qp_srq[d]
  /\ pc[d] \in {"qp", "requesting"} => id_qp[d] = ~opts[d].native
  /\ pc[d] \in {"modify", "ok"}
       => Mail("REP", Peer(d), private_data[d]) \in mail

AcceptState(a) ==
  /\ pc[a] \notin {"dialed", "created", "requesting"}
  /\ pc[a] \in {"requested", "qp", "modify", "accepting"}
       => accepted # <<>> /\ accepted[Len(accepted)] = a[1]
  /\ pc[a] \in {"requested", "qp", "modify", "accepting", "ok"}
       => private_data[a] = OfDial(Peer(a))
  /\ pc[a] = "qp" => ~opts[a].native
  /\ pc[a] = "ok" => id_srq[a] = qp_srq[a]
  /\ Established(a) => Established(Peer(a))

\* A request that is under way or waits: nobody took it yet
Pending(m) ==
  /\ m.from \in Dials /\ m.data = OfDial(m.from)
  /\ pc[m.from] \notin {"dialed", "created", "qp"} /\ pc[Peer(m.from)] = "idle"

\* Who answered has a queue pair that can receive, and who is ready says so
Truthful(m) ==
  /\ m.type = "REQ" => Pending(m)
  /\ m.type = "REP" =>
       /\ m.from \in Conns /\ OfCall(m.from, m.data)
       /\ pc[m.from] \in {"accepting", "failed"} \/ Established(m.from)
       /\ pc[m.from] \in {"accepting", "failed", "ok"} => qp[m.from] = "RTS"
  /\ m.type = "RTU" => m.from \in Dials /\ Established(m.from)

\* A client has one request, wherever it is
OneRequest ==
  /\ \A i \in DOMAIN backlog :
       /\ backlog[i].type = "REQ" /\ Pending(backlog[i])
       /\ \A m \in mail : m.type = "REQ" => m.from # backlog[i].from
  /\ \A i, j \in DOMAIN backlog : i # j => backlog[i].from # backlog[j].from

\* An event is read by the thread of its host, and holds the queue pair
EventState ==
  /\ \A e \in Ends : events[e] \in {"reported", "read"} => qp[e] # "NONE"
  /\ \A h \in Hosts : handled[h] # <<>> =>
       /\ events[handled[h]] = "read" /\ Host(handled[h]) = h
  /\ IsFiniteSet({e \in Ends : events[e] # "none"})

IInv ==
  /\ TypeOK /\ backlog \in Seq(Message) /\ accepted \in Seq(Clients)
  /\ \A e \in Ends : QpState(e)
  /\ \A d \in Dials : DialState(d)
  /\ \A a \in Conns : AcceptState(a)
  /\ \A m \in mail : Truthful(m)
  /\ OneRequest /\ EventState

\* No client has a native queue pair and passes it a receive queue: Connect never
\* tells its identifier of that queue, and PostRecv would post past it
GivenSrqSeen ==
  \A o \in DialOptions : \A c \in Clients : ~(o[c].native /\ o[c].srq = "given")

\* If no call fails, a request that Accept takes ends with both calls
\* returning an endpoint, whichever way each makes its queue pair
Establishes ==
  \A c \in Clients :
    pc[<<c, "accept">>] \in {"qp", "modify"}
      ~> \/ Established(<<c, "dial">>) /\ Established(<<c, "accept">>)
         \/ failures > 0

\* Every destructor returns: the event thread always acknowledges
DestroyEnds ==
  \A e \in Ends : pc[e] = "destroying" ~> pc[e] = "destroyed"
=============================================================================
