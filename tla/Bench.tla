-------------------------------- MODULE Bench --------------------------------
(***************************************************************************)
(* The measuring programs of bench.cpp, as users of what conn.hpp promises: *)
(* a Sender whose SendAsync returns an id to Wait for, and a Receiver whose *)
(* messages are given back with Free.  Every test function is a program of  *)
(* loops, run by a thread at either end of each connection; one thread of   *)
(* the server may also serve all connections, in turn or as they come.      *)
(* A program works only if the numbers both ends compute from the command   *)
(* line agree: nothing tells the other end that a message is the last one.  *)
(***************************************************************************)
EXTENDS Integers, Sequences, FiniteSets, TLC

CONSTANTS
  Share,       \* the part of a test that is sent before it to warm up: 16, or 4
  Capacity,    \* messages a connection can hold that were not freed
  Setups,      \* the command lines
  MaxConns,    \* bound: connections of a command line
  MaxBreaks,   \* bound: connections that break
  MaxClock     \* bound: time, in units of the pause of test_bw_limit_send

Setup ==
  [test : {"bw", "limit", "batch", "lat", "pingpong"},
   recv : {"each", "vector", "single"},
   conns : Nat \ {0}, count : Nat, unack : Nat \ {0}, batch : Nat \ {0}]

ASSUME BenchAssumption ==
  /\ {Share, Capacity} \subseteq Nat \ {0} /\ {MaxConns, MaxBreaks, MaxClock} \subseteq Nat
  /\ Setups \subseteq {s \in Setup : s.conns <= MaxConns}

VARIABLES
  setup,       \* the command line, the same at both ends
  \* --- threads
  at,          \* where a thread is: loop of its program, i, step of the body
  status,      \* "run", or what the test function returned
  owned,       \* buffers from GetMemoryRegion that were not freed
  ids,         \* by buffer (or batch of them), the id of its last SendAsync
  val,         \* the number at the start of the buffer, where one is written
  got,         \* the connection of the message received and not freed, or 0
  \* --- connections, by direction
  posted,      \* messages given to SendAsync
  wire,        \* those not arrived: buffer, id of the call
  inbox,       \* those arrived and not received: what the buffer held
  unfreed,     \* how many are received and not freed
  broken,      \* by connection
  clock        \* time since the test began, in test_bw_limit_send

threadVars == <<at, status, owned, ids, val, got>>
linkVars == <<posted, wire, inbox, unfreed>>
vars == <<setup, threadVars, linkVars, broken, clock>>

Conns == 1 .. setup.conns
Clients == {"client"} \X Conns
Servers == {"server"} \X (IF setup.recv = "each" THEN Conns ELSE {0})
Threads == Clients \cup Servers
Links == Conns \X {"client", "server"}     \* direction: the end that sends

Other(side) == IF side = "client" THEN "server" ELSE "client"
Completed(l) == posted[l] - Len(wire[l])

-----------------------------------------------------------------------------
(* Programs.  A loop runs i from `from` up to, not including, `to`, and      *)
(* uses buffer i % slots; `clean` says that it frees all buffers on errors.  *)

Do(what, c) == [do |-> what, conn |-> c]
Loop(from, to, slots, clean, body) ==
  [from |-> from, to |-> to, slots |-> slots, clean |-> clean, body |-> body]
Once(body) == Loop(0, 1, 1, FALSE, body)

\* Send of conn.hpp is SendAsync and Wait
Send(c) == <<Do("async", c), Do("wait", c)>>
Take(c) == <<Do("receive", c), Do("free", c)>>

\* The pause between two messages is five seconds divided by their number
test_warmup_send(c, n) ==
  <<Once(<<[do |-> "divide", by |-> n]>>), Loop(0, n, 1, FALSE, Send(c))>>

\* For a batch sender: one message of the first batch after the other
test_warmup_send_batch(c, n) ==
  <<Loop(0, n, 1, FALSE, <<Do("asyncone", c), Do("wait", c)>>)>>

test_warmup_receive(c, n) == <<Loop(0, n, 1, FALSE, Take(c))>>

Alloc(n) == <<Once(<<[do |-> "alloc", slots |-> n]>>)>>
FreeBuffers(n) == <<Loop(0, n, n, FALSE, <<Do("release", 0)>>)>>

test_lat_send(c, s) ==
  Alloc(1) \o test_warmup_send(c, s.count \div Share)
  \o <<Loop(0, s.count, 1, TRUE, <<Do("write", c)>> \o Send(c))>>
  \o FreeBuffers(1)

test_lat_recv(c, s) ==
  test_warmup_receive(c, s.count \div Share)
  \o <<Loop(0, s.count, 1, FALSE, <<Do("check", c), Do("free", c)>>)>>

test_lat_ping(c, s) ==
  Alloc(1) \o test_warmup_send(c, s.count \div Share)
  \o test_warmup_receive(c, s.count \div Share)
  \o <<Loop(0, s.count, 1, TRUE, <<Do("write", c)>> \o Send(c) \o Take(c))>>
  \o FreeBuffers(1)

\* Mutant of test_lat_pong: it warms up in the same order as the other end
test_lat_pong_first(c, s) ==
  Alloc(1) \o test_warmup_send(c, s.count \div Share)
  \o test_warmup_receive(c, s.count \div Share)
  \o <<Loop(0, s.count, 1, TRUE, <<Do("write", c), Do("ping", c)>> \o Send(c)
                                 \o <<Do("free", c)>>)>>
  \o FreeBuffers(1)

\* The reply is sent before it is seen whether there was something to reply to
test_lat_pong(c, s) ==
  Alloc(1) \o test_warmup_receive(c, s.count \div Share)
  \o test_warmup_send(c, s.count \div Share)
  \o <<Loop(0, s.count, 1, TRUE, <<Do("write", c), Do("ping", c)>> \o Send(c)
                                 \o <<Do("free", c)>>)>>
  \o FreeBuffers(1)

\* The part of test_bw_send and test_bw_limit_send in which unack messages are
\* under way: first so many at once, then one for every one that is done
Window(c, s, paced) ==
  <<Loop(0, s.unack, s.unack, TRUE, <<Do("async", c)>>),
    Loop(s.unack, s.count, s.unack, TRUE,
         <<Do("wait", c)>> \o paced \o <<Do("async", c)>>)>>

\* What Wait returns is dropped: a buffer is freed and the test goes on whether
\* its message arrived or not
Drain(c, s) ==
  <<Loop(0, s.unack, s.unack, FALSE, <<Do("drain", c), Do("release", c)>>)>>

test_bw_send(c, s) ==
  Alloc(s.unack) \o test_warmup_send(c, s.count \div Share)
  \o Window(c, s, <<>>) \o Drain(c, s)

test_bw_limit_send(c, s) ==
  Alloc(s.unack) \o test_warmup_send(c, s.count \div Share)
  \o Window(c, s, <<Do("pace", c)>>) \o Drain(c, s)

\* The batches under way at the end are neither waited for nor freed
test_bw_batch_send(c, s) ==
  LET batches == s.unack \div s.batch IN
  IF s.batch > s.unack \/ s.unack > s.count
  THEN <<Once(<<Do("invalid", c)>>)>>
  ELSE Alloc(batches) \o test_warmup_send_batch(c, s.count \div Share)
       \o <<Loop(0, batches, batches, TRUE, <<Do("asyncbatch", c)>>),
            Loop(batches, s.count \div s.batch, batches, TRUE,
                 <<Do("wait", c), Do("asyncbatch", c)>>)>>

\* Measurements are taken every min(count, 5000) messages
test_bw_recv(c, n) ==
  <<Once(<<[do |-> "divide", by |-> n]>>)>>
  \o test_warmup_receive(c, n \div Share) \o <<Loop(0, n, 1, FALSE, Take(c))>>

\* The overload for a vector of receivers: one message of each in every round
test_bw_recv_vector(s) ==
  LET round == [k \in 1 .. 2 * s.conns |->
                  Take((k + 1) \div 2)[IF k % 2 = 1 THEN 1 ELSE 2]] IN
  <<Once(<<[do |-> "divide", by |-> s.count]>>),
    Loop(0, s.count \div Share, 1, FALSE, round), Loop(0, s.count, 1, FALSE, round)>>

ClientProgram(c, s) ==
  CASE s.test = "bw" -> test_bw_send(c, s)
    [] s.test = "limit" -> test_bw_limit_send(c, s)
    [] s.test = "batch" -> test_bw_batch_send(c, s)
    [] s.test = "lat" -> test_lat_send(c, s)
    [] s.test = "pingpong" -> test_lat_ping(c, s)

ServerProgram(c, s) ==
  CASE s.test = "lat" -> test_lat_recv(c, s)
    [] s.test = "pingpong" -> test_lat_pong(c, s)
    [] OTHER -> CASE s.recv = "each" -> test_bw_recv(c, s.count)
                  [] s.recv = "single" -> test_bw_recv(0, s.conns * s.count)
                  [] s.recv = "vector" -> test_bw_recv_vector(s)

\* What the main programs of the tests run at the two ends; `@@ <<>>` adds
\* nothing to a function and makes TLC compute it once
Programs ==
  [s \in Setups |->
    [t \in {"client", "server"} \X (0 .. MaxConns) |->
       IF t[1] = "client" THEN ClientProgram(t[2], s) ELSE ServerProgram(t[2], s)]
    @@ <<>>] @@ <<>>

Program(t) == Programs[setup][t]

Init ==
  /\ setup \in Setups
  /\ at = [t \in Threads |-> [loop |-> 1, i |-> 0, step |-> 1]]
  /\ status = [t \in Threads |-> "run"]
  /\ owned = [t \in Threads |-> {}] /\ ids = [t \in Threads |-> <<>>]
  /\ val = [t \in Threads |-> -1] /\ got = [t \in Threads |-> 0]
  /\ posted = [l \in Links |-> 0] /\ wire = [l \in Links |-> <<>>]
  /\ inbox = [l \in Links |-> <<>>] /\ unfreed = [l \in Links |-> 0]
  /\ broken = {} /\ clock = 0

-----------------------------------------------------------------------------
(* Threads *)

Here(t) == Program(t)[at[t].loop]
Slot(t) == at[t].i % Here(t).slots
Running(t) == status[t] = "run" /\ at[t].i < Here(t).to
Op(t) == Here(t).body[at[t].step]
Out(t) == <<Op(t).conn, t[1]>>
In(t, c) == <<c, Other(t[1])>>
Sources(t) == IF Op(t).conn = 0 THEN Conns ELSE {Op(t).conn}

Advance(t) ==
  at' = [at EXCEPT ![t] = IF @.step < Len(Here(t).body) THEN [@ EXCEPT !.step = @ + 1]
                          ELSE [@ EXCEPT !.i = @ + 1, !.step = 1]]

\* The condition of a loop fails, and the next one starts
EndLoop(t) ==
  /\ status[t] = "run" /\ at[t].i >= Here(t).to
  /\ IF at[t].loop = Len(Program(t))
     THEN status' = [status EXCEPT ![t] = "ok"] /\ UNCHANGED at
     ELSE /\ at' = [at EXCEPT ![t] = [loop |-> @.loop + 1, step |-> 1,
                                      i |-> Program(t)[@.loop + 1].from]]
          /\ UNCHANGED status
  /\ UNCHANGED <<setup, owned, ids, val, got, linkVars, broken, clock>>

Return(t, what) ==
  /\ status' = [status EXCEPT ![t] = what]
  /\ owned' = [owned EXCEPT ![t] = IF Here(t).clean THEN {} ELSE @]
  /\ UNCHANGED <<setup, at, ids, val, got, linkVars, broken, clock>>

\* Arguments are refused, or divided by although they are zero
Refuse(t) ==
  /\ Running(t)
  /\ \/ Op(t).do = "invalid" /\ Return(t, "error")
     \/ Op(t).do = "divide" /\ Op(t).by = 0 /\ Return(t, "crash")

\* Steps that concern nobody else
Local(t) ==
  /\ Running(t)
  /\ \/ Op(t).do = "divide" /\ Op(t).by # 0 /\ UNCHANGED <<owned, ids, val>>
     \/ /\ Op(t).do = "alloc"
        /\ owned' = [owned EXCEPT ![t] = 0 .. Op(t).slots - 1]
        /\ ids' = [ids EXCEPT ![t] = [b \in 0 .. Op(t).slots - 1 |-> 0]]
        /\ UNCHANGED val
     \/ /\ Op(t).do = "release"
        /\ owned' = [owned EXCEPT ![t] = @ \ {Slot(t)}]
        /\ UNCHANGED <<ids, val>>
     \/ /\ Op(t).do = "write"
        /\ val' = [val EXCEPT ![t] = at[t].i]
        /\ UNCHANGED <<owned, ids>>
     \/ /\ Op(t).do = "pace" /\ clock >= at[t].i
        /\ UNCHANGED <<owned, ids, val>>
  /\ Advance(t)
  /\ UNCHANGED <<setup, status, got, linkVars, broken, clock>>

Messages(t) == IF Op(t).do = "asyncbatch" THEN setup.batch ELSE 1

SendAsync(t) ==
  /\ Running(t) /\ Op(t).do \in {"async", "asyncone", "asyncbatch"}
  /\ LET l == Out(t)  id == posted[l] + Messages(t) IN
     /\ Op(t).conn \notin broken
     /\ posted' = [posted EXCEPT ![l] = id]
     /\ wire' = [wire EXCEPT ![l] =
                   @ \o [k \in 1 .. Messages(t) |-> [buf |-> Slot(t), id |-> id]]]
     /\ ids' = [ids EXCEPT ![t][Slot(t)] = id]
  /\ Advance(t)
  /\ UNCHANGED <<setup, status, owned, val, got, inbox, unfreed, broken, clock>>

\* Mutant of Awaited: the id of the buffer after this one
AwaitedNext(t) == ids[t][(at[t].i + 1) % Here(t).slots]

Awaited(t) == ids[t][Slot(t)]

Wait(t) ==
  /\ Running(t) /\ Op(t).do \in {"wait", "drain"}
  /\ \/ Awaited(t) <= Completed(Out(t))
     \/ Op(t).do = "drain" /\ Op(t).conn \in broken
  /\ Advance(t)
  /\ UNCHANGED <<setup, status, owned, ids, val, got, linkVars, broken, clock>>


\* A call on a connection that broke: Send fails at once, Wait for what is lost
SendFails(t) ==
  /\ Running(t)
  /\ \/ Op(t).do \in {"async", "asyncone", "asyncbatch"}
     \/ Op(t).do = "wait" /\ Awaited(t) > Completed(Out(t))
  /\ Op(t).conn \in broken
  /\ Return(t, "error")

\* Receive, and in test_lat_recv the comparison with i
Receive(t) ==
  /\ Running(t) /\ Op(t).do \in {"receive", "check", "ping"}
  /\ \E c \in Sources(t) :
       LET l == In(t, c) IN
       /\ inbox[l] # <<>>
       /\ inbox' = [inbox EXCEPT ![l] = Tail(@)]
       /\ unfreed' = [unfreed EXCEPT ![l] = @ + 1]
       /\ got' = [got EXCEPT ![t] = c]
       /\ IF Op(t).do = "check" /\ Head(inbox[l]) # at[t].i
          THEN status' = [status EXCEPT ![t] = "mismatch"] /\ UNCHANGED at
          ELSE Advance(t) /\ UNCHANGED status
  /\ UNCHANGED <<setup, owned, ids, val, posted, wire, broken, clock>>

\* After a ping that failed, the pong fails on the same connection
ReceiveFails(t) ==
  /\ Running(t) /\ Op(t).do \in {"receive", "check", "ping"}
  /\ \E c \in Sources(t) : c \in broken /\ inbox[In(t, c)] = <<>>
  /\ \/ Op(t).do # "ping" /\ Return(t, "error")
     \/ /\ Op(t).do = "ping" /\ Advance(t)
        /\ UNCHANGED <<setup, status, owned, ids, val, got, linkVars, broken, clock>>

Free(t) ==
  /\ Running(t) /\ Op(t).do = "free"
  /\ unfreed' = [unfreed EXCEPT ![In(t, got[t])] = @ - 1]
  /\ got' = [got EXCEPT ![t] = 0]
  /\ Advance(t)
  /\ UNCHANGED <<setup, status, owned, ids, val, posted, wire, inbox, broken, clock>>

-----------------------------------------------------------------------------
(* Connections *)

\* The oldest message arrives if there is room, with what its buffer holds now
Deliver(l) ==
  /\ l[1] \notin broken /\ wire[l] # <<>>
  /\ Len(inbox[l]) + unfreed[l] < Capacity
  /\ LET t == IF l[2] = "client" \/ setup.recv = "each" THEN <<l[2], l[1]>>
              ELSE <<l[2], 0>> IN
     inbox' = [inbox EXCEPT ![l] = Append(@, val[t])]
  /\ wire' = [wire EXCEPT ![l] = Tail(@)]
  /\ UNCHANGED <<setup, threadVars, posted, unfreed, broken, clock>>

Break(c) ==
  /\ c \notin broken /\ Cardinality(broken) < MaxBreaks
  /\ broken' = broken \cup {c}
  /\ UNCHANGED <<setup, threadVars, linkVars, clock>>

Tick ==
  /\ setup.test = "limit" /\ clock < MaxClock
  /\ \E t \in Clients : at[t].loop > 3 /\ status[t] = "run"
  /\ clock' = clock + 1
  /\ UNCHANGED <<setup, threadVars, linkVars, broken>>

-----------------------------------------------------------------------------
Step(t) ==
  \/ EndLoop(t) \/ Refuse(t) \/ Local(t) \/ SendAsync(t) \/ Wait(t)
  \/ SendFails(t) \/ Receive(t) \/ Free(t)

Progress ==
  \/ \E t \in Threads : Step(t)
  \/ \E l \in Links : Deliver(l)
  \/ Tick

Next ==
  \/ Progress
  \/ \E t \in Threads : ReceiveFails(t)
  \/ \E c \in Conns : Break(c)

Spec == Init /\ [][Next]_vars

\* Threads go on, messages arrive when there is room, and time passes.  Every
\* step counts something up, so that no thread can keep another from its turn
\* for ever, and one condition for all of them is enough.  A connection need
\* not break, and a receiver need not learn that it did
FairSpec == Spec /\ WF_vars(Progress)

-----------------------------------------------------------------------------
\* Every variable has its type.
TypeOK ==
  /\ setup \in Setups
  /\ at \in [Threads -> [loop : Nat, i : Nat, step : Nat]]
  /\ status \in [Threads -> {"run", "ok", "error", "crash", "mismatch"}]
  /\ \A t \in Threads : /\ owned[t] \subseteq Nat /\ \A b \in DOMAIN ids[t] : ids[t][b] \in Nat
                        /\ val[t] \in Int /\ got[t] \in Conns \cup {0}
  /\ posted \in [Links -> Nat] /\ unfreed \in [Links -> Nat]
  /\ inbox \in [Links -> Seq(Int)] /\ wire \in [Links -> Seq([buf : Nat, id : Nat])]
  /\ broken \subseteq Conns /\ clock \in 0 .. MaxClock

LinkOf(t) == <<t[2], t[1]>>
UnderWay(t) == {wire[LinkOf(t)][k] : k \in DOMAIN wire[LinkOf(t)]}
Senders == {t \in Threads : t[2] # 0}

\* bench.cpp:306 and :246: a buffer is sent again, written or freed only when
\* the call that sent it before is done, whatever the window and the batch.  On
\* a connection that broke nothing is done any more, and the last window is
\* freed all the same.
BuffersQuiet ==
  \A t \in Senders : \A e, f \in UnderWay(t) :
    /\ e.buf = f.buf => e.id = f.id
    /\ status[t] = "run" /\ t[2] \notin broken => e.buf \in owned[t]

\* bench.cpp:327: a sender that returns without an error has freed its buffers
\* and has nothing under way, unless its connection broke: Wait says so at 328,
\* and nobody looks.  test_bw_batch_send leaves both undone.
AtRest ==
  \A t \in Senders :
    (status[t] = "ok" /\ setup.test # "batch") =>
      owned[t] = {} /\ (t[2] \in broken \/ UnderWay(t) = {})

\* bench.cpp:186: test_lat_recv never sees a transmission error, though the
\* sender writes the number of every message into one and the same buffer.
LatExact == \A t \in Threads : status[t] # "mismatch"

\* bench.cpp:376: message i is not sent before its time, but for the unack
\* messages sent at once; a sender that fell behind may catch up.
RateKept ==
  setup.test = "limit" =>
    LET sent == posted[<<1, "client">>] - setup.count \div Share IN
    sent <= setup.unack \/ sent <= clock + 1

\* What the tests keep while they run: buffers are left alone and given back,
\* what is sent is what is checked, and the rate is not exceeded (test_bw_send,
\* test_lat_send, test_bw_limit_send).
BenchInv == TypeOK /\ BuffersQuiet /\ AtRest /\ LatExact /\ RateKept

\* What the two ends must agree on and nobody checks: a message at least to
\* warm up with (the pause divides by their number), a window that is not
\* larger than the test, whole batches, and warm-ups that add up to the one of
\* the thread that receives from everybody.
Fits ==
  LET s == setup IN
  /\ s.count \div Share > 0 /\ s.unack <= s.count
  /\ s.test = "batch" => s.batch <= s.unack /\ s.count % s.batch = 0
  /\ s.recv = "single" => (s.conns * s.count) \div Share = s.conns * (s.count \div Share)

\* Every test of a command line that fits ends well at both ends: nobody waits
\* for a message that is never sent, or for room nobody makes.  A connection
\* that breaks stops its own threads only, if every connection has a thread.
Finishes ==
  Fits ~> \/ setup.recv # "each" /\ broken # {}
          \/ \A t \in Threads : status[t] = "ok" \/ t[2] \in broken

\* The messages a client sends on its connection, warm-up included.
ToSend ==
  LET window == IF setup.test \in {"bw", "limit"} THEN setup.unack ELSE 0
      whole == IF setup.test = "batch" THEN (setup.count \div setup.batch) * setup.batch
               ELSE setup.count
  IN  setup.count \div Share + (IF window > whole THEN window ELSE whole)

=============================================================================
