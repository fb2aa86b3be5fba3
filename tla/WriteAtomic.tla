---------------------------- MODULE WriteAtomic ----------------------------
(***************************************************************************)
(* WriteAtomicInstance and its WriteAtomicConnections: several senders      *)
(* share one ring.  A sender reserves a region with an RDMA fetch-and-add   *)
(* on the tail, before it knows whether there is room; it then reads the    *)
(* head until there is, and writes with an immediate value, the region's    *)
(* offset in the ring.  The completions of all connections arrive at one    *)
(* queue.  Tail and head are global offsets that never wrap around.         *)
(*                                                                          *)
(* A cell of the ring holds the global offset of the byte written to it     *)
(* last.  A connection may break at any time (the receiver is not ready and *)
(* rnr_retry_count is 0, or the retries are used up); what it reserved and  *)
(* did not write is a hole that nobody fills.                               *)
(*                                                                          *)
(* Tail and head live in device memory, at address 0, or in host memory.    *)
(* In host memory the senders read the receiver's own head: DmStep is 0.    *)
(* The constructor of a connection keeps 32 bits of their address: if it    *)
(* has more, the first fetch-and-add is refused, which breaks the           *)
(* connection before anything is reserved.                                  *)
(***************************************************************************)
EXTENDS Integers, Sequences, FiniteSets

CONSTANTS
  Senders,     \* the connections
  Size,        \* buf_size_
  Lengths,     \* lengths of the messages sent
  MaxBytes,    \* bound: no call is made once this many bytes were reserved
  DmStep,      \* the senders do not see the head until it is beyond this:
               \* 10 KiB with device memory (use_dm_), 0 without
  Breakable    \* connections that may break

ASSUME WriteAtomicAssumption ==
  /\ Size \in Nat \ {0} /\ Lengths \subseteq 1 .. Size - 1
  /\ {MaxBytes, DmStep} \subseteq Nat
  /\ Breakable \subseteq Senders

VARIABLES
  \* --- by connection
  spc,         \* where SendAsync is: "idle", "fetch" or "check"
  head,        \* rbuf_meta_->head: the head read last
  want, tail,  \* region.length, and rbuf_meta_->tail as the call under way
               \* fetched it; 0 outside a call, where nothing uses them
  flight,      \* the writes posted and not executed
  broken,      \* whether the connection is broken
  \* --- the instance
  metaTail,    \* the tail the senders add to
  metaHead,    \* buf_meta_->head
  dmHead,      \* the head as the senders can read it
  mem,         \* the ring
  cq,          \* rcv_cq_: offset in the ring and length
  held,        \* regions received and not freed: [off, len]
  freed,       \* freed_regions_: the end of a region, by its start
  \* --- auxiliary
  holes        \* regions reserved by calls or writes that failed

sndVars == <<spc, head, want, tail, flight, broken, holes>>
rcvVars == <<metaHead, dmHead, held, freed>>
vars == <<sndVars, metaTail, mem, cq, rcvVars>>

Offsets == 0 .. Size - 1
Empty == [e \in {} |-> 0]
RegionOf(s) == [off |-> tail[s], len |-> want[s]]

Init ==
  /\ spc = [s \in Senders |-> "idle"] /\ want = [s \in Senders |-> 0]
  /\ head = [s \in Senders |-> 0] /\ tail = [s \in Senders |-> 0]
  /\ flight = [s \in Senders |-> {}] /\ broken = [s \in Senders |-> FALSE]
  /\ metaTail = 0 /\ metaHead = 0 /\ dmHead = 0
  /\ mem = [o \in Offsets |-> -1] /\ cq = <<>>
  /\ held = {} /\ freed = Empty /\ holes = {}

-----------------------------------------------------------------------------
(* WriteAtomicConnection::SendAsync *)

SendStart(s) ==
  /\ spc[s] = "idle" /\ ~broken[s] /\ metaTail < MaxBytes
  /\ \E n \in Lengths : want' = [want EXCEPT ![s] = n]
  /\ spc' = [spc EXCEPT ![s] = "fetch"]
  /\ UNCHANGED <<head, tail, flight, broken, holes, metaTail, mem, cq, rcvVars>>

\* The fetch-and-add is executed behind the connection's writes, and SendAsync
\* waits for it: the region is the sender's, whether there is room or not
FetchAndAdd(s) ==
  /\ spc[s] = "fetch" /\ ~broken[s] /\ flight[s] = {}
  /\ tail' = [tail EXCEPT ![s] = metaTail]
  /\ metaTail' = metaTail + want[s]
  /\ spc' = [spc EXCEPT ![s] = "check"]
  /\ UNCHANGED <<want, head, flight, broken, holes, mem, cq, rcvVars>>

HasRoom(s) == head[s] + Size > tail[s] + want[s]

\* No room, as far as the sender knows: read the head
ReadHead(s) ==
  /\ spc[s] = "check" /\ ~broken[s] /\ ~HasRoom(s)
  /\ head' = [head EXCEPT ![s] = dmHead]
  /\ UNCHANGED <<spc, want, tail, flight, broken, holes, metaTail, mem, cq,
                 rcvVars>>

Return(s) ==
  /\ spc' = [spc EXCEPT ![s] = "idle"]
  /\ want' = [want EXCEPT ![s] = 0] /\ tail' = [tail EXCEPT ![s] = 0]

\* PostWriteWithImmidate
PostWrite(s) ==
  /\ spc[s] = "check" /\ ~broken[s] /\ HasRoom(s)
  /\ flight' = [flight EXCEPT ![s] = @ \cup {RegionOf(s)}]
  /\ Return(s)
  /\ UNCHANGED <<head, broken, holes, metaTail, mem, cq, rcvVars>>

\* On a broken connection the call returns an error.  "FIXME: We should NEVER
\* fail in here": the region stays reserved.
SendFail(s) ==
  /\ spc[s] # "idle" /\ broken[s]
  /\ holes' = IF spc[s] = "check" THEN holes \cup {RegionOf(s)} ELSE holes
  /\ Return(s)
  /\ UNCHANGED <<head, flight, broken, metaTail, mem, cq, rcvVars>>

-----------------------------------------------------------------------------
(* The network *)

\* A write is executed and leaves its completion
Land(s) ==
  \E w \in flight[s] :
    /\ mem' = [o \in Offsets |->
                 LET i == (o - w.off) % Size IN
                 IF i < w.len THEN w.off + i ELSE mem[o]]
    /\ cq' = Append(cq, [off |-> w.off % Size, len |-> w.len])
    /\ flight' = [flight EXCEPT ![s] = @ \ {w}]
    /\ UNCHANGED <<spc, want, head, tail, broken, holes, metaTail, rcvVars>>

Break(s) ==
  /\ s \in Breakable /\ ~broken[s]
  /\ broken' = [broken EXCEPT ![s] = TRUE]
  /\ holes' = holes \cup flight[s]
  /\ flight' = [flight EXCEPT ![s] = {}]
  /\ UNCHANGED <<spc, want, head, tail, metaTail, mem, cq, rcvVars>>

-----------------------------------------------------------------------------
(* WriteAtomicInstance *)

\* Mutant of GlobalOffset: the region at the head is taken for a later one
GlobalOffsetAfter(off) ==
  IF metaHead % Size < off
  THEN (metaHead \div Size) * Size + off
  ELSE (metaHead \div Size + 1) * Size + off

\* Receive: the global offset of the region at an offset of the ring
GlobalOffset(off) ==
  IF metaHead % Size <= off
  THEN (metaHead \div Size) * Size + off
  ELSE (metaHead \div Size + 1) * Size + off

Receive ==
  /\ cq # <<>>
  /\ cq' = Tail(cq)
  /\ held' = held \cup {[off |-> GlobalOffset(Head(cq).off),
                         len |-> Head(cq).len]}
  /\ UNCHANGED <<sndVars, metaTail, mem, metaHead, dmHead, freed>>

\* Mutant of Leads: there is no loop
LeadsNowhere(start, erased, end) == erased = {} /\ end = start

\* The while loop of Free: from `start` on, freed_regions_ leads over the keys
\* `erased` to `end`, which is not a key
Leads(start, erased, end) ==
  /\ end \notin DOMAIN freed
  /\ {start} \cup {freed[k] : k \in erased} = erased \cup {end}
  /\ \A k \in erased \ {start} : \E j \in erased : freed[j] = k

\* What was merged into the region is erased; the head moves behind a region
\* that starts at it, any other one is remembered
Merge(r, end, erased) ==
  IF r.off = metaHead
  THEN /\ metaHead' = end
       /\ freed' = [k \in DOMAIN freed \ erased |-> freed[k]]
  ELSE /\ freed' = [k \in {r.off} \cup (DOMAIN freed \ erased) |->
                      IF k = r.off THEN end ELSE freed[k]]
       /\ UNCHANGED metaHead

\* Mutant of Publish: what was merged is not published
PublishRegion(r) ==
  dmHead' = IF metaHead' # metaHead /\ metaHead' > DmStep
            THEN r.off + r.len ELSE dmHead

\* The senders see the head only once it is beyond DmStep: acked_head_ remains 0
Publish(r) ==
  dmHead' = IF metaHead' # metaHead /\ metaHead' > DmStep
            THEN metaHead' ELSE dmHead

Free(r) ==
  /\ r \in held /\ held' = held \ {r}
  /\ \E erased \in SUBSET DOMAIN freed :
       \E end \in {r.off + r.len} \cup {freed[k] : k \in erased} :
         Leads(r.off + r.len, erased, end) /\ Merge(r, end, erased)
  /\ Publish(r)
  /\ UNCHANGED <<sndVars, metaTail, mem, cq>>

-----------------------------------------------------------------------------
Sender(s) == FetchAndAdd(s) \/ ReadHead(s) \/ PostWrite(s) \/ SendFail(s)
FreeAny == \E r \in held : Free(r)

Next ==
  \/ \E s \in Senders : SendStart(s) \/ Sender(s) \/ Land(s) \/ Break(s)
  \/ Receive \/ FreeAny

Spec == Init /\ [][Next]_vars

\* The threads and the network go on whenever they can, the application
\* receives and frees; nobody has to start a send, and nothing has to break
FairSpec ==
  /\ Spec
  /\ \A s \in Senders : WF_vars(Sender(s)) /\ WF_vars(Land(s))
  /\ WF_vars(Receive) /\ WF_vars(FreeAny)

-----------------------------------------------------------------------------
Region == [off : Nat, len : 1 .. Size - 1]

\* Every variable has its type.
TypeOK ==
  /\ spc \in [Senders -> {"idle", "fetch", "check"}]
  /\ want \in [Senders -> 0 .. Size - 1]
  /\ head \in [Senders -> Nat] /\ tail \in [Senders -> Nat]
  /\ flight \in [Senders -> SUBSET Region]
  /\ broken \in [Senders -> BOOLEAN]
  /\ metaTail \in Nat /\ metaHead \in Nat /\ dmHead \in Nat
  /\ mem \in [Offsets -> Nat \cup {-1}]
  /\ cq \in Seq([off : Offsets, len : 1 .. Size - 1])
  /\ held \subseteq Region /\ holes \subseteq Region
  /\ DOMAIN freed \subseteq Nat /\ freed \in [DOMAIN freed -> Nat]

\* A region the application holds has the global offset its sender reserved,
\* and no other sender's write changes its bytes before Free gave it back: the
\* offset in the ring is unambiguous although the head moves between the write
\* and Receive, and a region is written only once it is free.
HeldIntact ==
  \A r \in held : \A i \in 0 .. r.len - 1 : mem[(r.off + i) % Size] = r.off + i

\* The regions between head and tail, wherever they are: reserved by a call,
\* being written, in a completion, held, freed out of order, or lost.
Places(r) == r.off .. r.off + r.len - 1
Bytes(S) == UNION {Places(r) : r \in S}
Reserved == {RegionOf(s) : s \in {q \in Senders : spc[q] = "check"}}
Completed == {[off |-> GlobalOffset(cq[i].off), len |-> cq[i].len] :
                i \in DOMAIN cq}
FreedRegions == {[off |-> k, len |-> freed[k] - k] : k \in DOMAIN freed}
InFlight == UNION {flight[s] : s \in Senders}
Live == Reserved \cup InFlight \cup Completed \cup held \cup FreedRegions
        \cup holes

\* Every byte between the head and the tail belongs to exactly one region, and
\* there are no others: a region is reserved, written, received and freed once
\* each, and none is forgotten in freed_regions_ (SendAsync, Receive, Free).
Accounted ==
  /\ Bytes(Live) = metaHead .. metaTail - 1
  /\ \A r, q \in Live : r # q => Places(r) \cap Places(q) = {}
  /\ Cardinality(Completed) = Len(cq)

\* A call whose region begins no further than DmStep and ends a turn of the
\* ring after the first byte, or later: it needs a head that is not 0, and all
\* that can be freed before its region does not bring the head beyond DmStep.
Withheld(s) ==
  spc[s] = "check" /\ tail[s] <= DmStep /\ tail[s] + want[s] >= Size

\* write_atomic.cpp:327 and :409: such a call never finds room, however much is
\* freed, though its message is shorter than the ring, which is all that :383
\* asks for.
WithheldHasNoRoom == \A s \in Senders : Withheld(s) => ~HasRoom(s)

\* The ring all senders share is divided among them without gap or overlap,
\* what is held stays, and who waits for a head that is not published waits on
\* (SendAsync, Receive, Free).
AtomicInv == TypeOK /\ HeldIntact /\ Accounted /\ WithheldHasNoRoom

(* The inductive invariant behind AtomicInv *)

\* The regions of S divide the bytes from lo to hi.
Tiles(S, lo, hi) ==
  /\ \A r \in S : r.off \in Nat /\ r.len \in Nat \ {0}
  /\ Bytes(S) = lo .. hi - 1
  /\ \A r, q \in S : r # q => Places(r) \cap Places(q) = {}

\* A region is in one place of its life at a time, once.
Separate(reserved, inFlight, completed, kept, back, lost) ==
  /\ reserved \cap (inFlight \cup completed \cup kept \cup back \cup lost) = {}
  /\ inFlight \cap (completed \cup kept \cup back \cup lost) = {}
  /\ completed \cap (kept \cup back \cup lost) = {}
  /\ kept \cap (back \cup lost) = {}
  /\ back \cap lost = {}

OneOwner ==
  /\ Separate(Reserved, InFlight, Completed, held, FreedRegions, holes)
  /\ \A s, q \in Senders :
        s # q => /\ flight[s] \cap flight[q] = {}
                 /\ spc[s] = "check" /\ spc[q] = "check" => tail[s] # tail[q]
  /\ \A i, j \in DOMAIN cq :
        i # j => GlobalOffset(cq[i].off) # GlobalOffset(cq[j].off)

\* What is written lies within one turn of the ring from the head on.
InRing ==
  \A r \in InFlight \cup Completed \cup held : r.off + r.len < metaHead + Size

\* HeldIntact, from the moment a write is executed.
Intact ==
  \A r \in held \cup Completed : \A i \in 0 .. r.len - 1 :
    mem[(r.off + i) % Size] = r.off + i

HeadsBehind ==
  /\ metaHead <= metaTail /\ dmHead <= metaHead
  /\ \A s \in Senders : head[s] <= metaHead

\* What a sender knows of the head was published.
HeadsPublished ==
  /\ dmHead = 0 \/ dmHead > DmStep
  /\ \A s \in Senders : head[s] = 0 \/ head[s] > DmStep

IInv ==
  /\ TypeOK /\ \A s \in Senders : spc[s] # "idle" => want[s] # 0
  /\ HeadsBehind /\ HeadsPublished /\ Tiles(Live, metaHead, metaTail) /\ OneOwner
  /\ InRing /\ Intact

\* SendAsync returns, whatever the threshold of the head in device memory and
\* however the senders' heads lag (write_atomic.cpp:409), unless somebody's
\* failure left a hole in the ring, or it or a call that reserved before it is
\* withheld for good.
SendReturns ==
  \A s \in Senders :
    (spc[s] # "idle")
      ~> \/ spc[s] = "idle" \/ holes # {}
         \/ \E q \in Senders :
              Withheld(q) /\ (spc[s] = "check" => tail[q] <= tail[s])

\* In the end everything sent is received and freed and the ring is empty
\* again, whatever the order in which regions were written and freed, up to a
\* hole or to the region of a call that is withheld (Free, freed_regions_).
Drains ==
  <>[](\/ metaHead = metaTail \/ holes # {}
       \/ \E s \in Senders : Withheld(s) /\ tail[s] = metaHead)
=============================================================================
