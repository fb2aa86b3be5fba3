------------------------- MODULE WritePollingProofs -------------------------
(***************************************************************************)
(* The two connections whose receiver polls its memory: proofs for every    *)
(* ring length, both acknowledgers and runs of any length.  What they share *)
(* with the other buffered writes is proved in BufferedWriteProofs.         *)
(*                                                                          *)
(* WriteOffset, whose names begin with Offset where both have one, never    *)
(* overruns the ring, for every set of calls with regions shorter than the  *)
(* ring: here are the words that announce data.                             *)
(*                                                                          *)
(* WriteCrc hands out whole messages and its receiver never takes what a    *)
(* freed region left behind for the length of a message, for every word and *)
(* set of calls whose regions are whole words long, and any order in which  *)
(* the bytes behind a header arrive.                                        *)
(*                                                                          *)
(* A theorem is about the specification it names, and says nothing of the   *)
(* variables of the other one.                                              *)
(***************************************************************************)
EXTENDS WriteOffset, WriteCrc, BufferedWriteProofs

-----------------------------------------------------------------------------
(* The tail offset *)

\* The initial state satisfies the invariant.
LEMMA OffsetInitInv == OffsetInit => OffsetInv
<1> SUFFICES ASSUME OffsetInit PROVE OffsetInv OBVIOUS
<1>1. BaseInv /\ LiveBytes BY BaseInitInv DEF OffsetInit
<1>2. /\ announced = 0 /\ tail = 0 /\ DOMAIN tails = {}
      /\ read = 0 /\ landed = 0 /\ posted = 0 /\ written = 0
  BY DEF OffsetInit, BaseInit
<1>3. 0 \in Offsets /\ 0 % Length = 0
  <2>1. 0 \in Offsets BY LengthAssumption DEF Offsets
  <2>2. Length * 0 + 0 = 0 BY LengthAssumption
  <2>3. QED BY <2>1, <2>2, Remainder
<1>4. OffsetTypeOK
  <2>1. tails \in [DOMAIN tails -> Offsets] BY <1>2 DEF OffsetInit
  <2>2. QED BY <1>1, <1>2, <1>3, <2>1 DEF OffsetTypeOK, BaseInv
<1>5. TailsMatch BY <1>2, <1>3 DEF TailsMatch, Boundaries
<1>6. TailsAhead BY <1>2 DEF TailsAhead, Boundaries
<1>7. QED BY <1>1, <1>4, <1>5, <1>6 DEF OffsetInv

\* Steps that neither write, post nor read anything keep the tail words right.
LEMMA WordsKept ==
  ASSUME OffsetInv, BaseInv', LiveBytes', Boundaries \subseteq Boundaries',
         UNCHANGED wordVars, UNCHANGED <<landed, posted, read>>
  PROVE  OffsetInv'
<1> USE DEF wordVars
<1>1. OffsetTypeOK' BY DEF OffsetInv, OffsetTypeOK, BaseInv
<1>2. TailsMatch' BY DEF OffsetInv, TailsMatch
<1>3. TailsAhead' BY DEF OffsetInv, TailsAhead
<1>4. QED BY <1>1, <1>2, <1>3 DEF OffsetInv

\* Steps of the sender that only move its control or its cached head.
LEMMA OffsetQuietStep ==
  ASSUME OffsetInv, BaseInv', UNCHANGED <<wireVars, rcvVars, mem, written>>,
         UNCHANGED wordVars
  PROVE  OffsetInv'
<1> USE DEF wireVars, rcvVars
<1>1. freed' \in Nat /\ freed <= freed' BY PlaceFacts DEF OffsetInv
<1>2. LiveBytes' BY <1>1, LiveBytesKept DEF OffsetInv
<1>3. Boundaries \subseteq Boundaries' BY DEF Boundaries
<1>4. QED BY <1>2, <1>3, WordsKept

\* A call starts: only the sender's list of regions changes.
LEMMA OffsetSendStartInv ==
  ASSUME ShortCalls, OffsetInv, OffsetSendStart
  PROVE  OffsetInv'
<1>1. PICK c \in Calls : SendAsync(c) BY DEF OffsetSendStart
<1>2. BaseInv' BY <1>1, SendAsyncInv DEF OffsetInv
<1>3. QED BY <1>1, <1>2, OffsetQuietStep DEF OffsetSendStart, SendAsync

\* GetWriteAddr asks for the head: only the sender's control moves.
LEMMA OffsetSendGetInv ==
  ASSUME OffsetInv, OffsetSendGet
  PROVE  OffsetInv'
<1>1. BaseInv' BY NeedHeadInv DEF OffsetInv, OffsetSendGet
<1>2. QED BY <1>1, OffsetQuietStep DEF OffsetSendGet, NeedHead

\* UpdateHead: the cached head catches up with the one that was fetched.
LEMMA OffsetSendUpdateInv ==
  ASSUME OffsetInv, OffsetSendUpdate
  PROVE  OffsetInv'
<1>1. BaseInv' BY UpdateHeadInv DEF OffsetInv, OffsetSendUpdate
<1>2. QED BY <1>1, OffsetQuietStep DEF OffsetSendUpdate, UpdateHead

\* SendAckReceiver::Get: the one head update under way is taken.
LEMMA OffsetSendPollInv ==
  ASSUME OffsetInv, OffsetSendPoll
  PROVE  OffsetInv'
<1>1. BaseInv' BY AckPollInv DEF OffsetInv, OffsetSendPoll
<1>2. QED BY <1>1, OffsetQuietStep DEF OffsetSendPoll, AckPoll

\* ReadAckReceiver::Get: the head the receiver published is fetched.
LEMMA ReadHeadInv ==
  ASSUME OffsetInv, ReadHead
  PROVE  OffsetInv'
<1>1. BaseInv' BY AckReadInv DEF OffsetInv, ReadHead
<1>2. QED BY <1>1, OffsetQuietStep DEF ReadHead, AckRead

\* Reserve: the tiling grows, nothing in memory or under way changes.
LEMMA OffsetSendRegionInv ==
  ASSUME OffsetInv, OffsetSendRegion
  PROVE  OffsetInv'
<1>1. Reserve /\ UNCHANGED wordVars BY DEF OffsetSendRegion
<1>2. BaseInv' BY <1>1, ReserveInv DEF OffsetInv
<1>3. UNCHANGED <<mem, landed, posted, read, freed>>
  BY <1>1 DEF Reserve, rcvVars
<1>4. LiveBytes'
  <2>1. freed' \in Nat /\ freed <= freed' BY <1>3, PlaceFacts DEF OffsetInv
  <2>2. QED BY <1>3, <2>1, LiveBytesKept DEF OffsetInv
<1>5. Boundaries \subseteq Boundaries'
  <2>1. DOMAIN msg' = DOMAIN msg \cup {written} BY <1>1 DEF Reserve
  <2>2. QED BY <2>1 DEF Boundaries
<1>6. QED BY <1>1, <1>2, <1>3, <1>4, <1>5, WordsKept

\* SendAsync posts the data of a call and, behind it, the tail that announces
\* it; the call reserved something, so the tail differs from those before.
LEMMA OffsetPostInv ==
  ASSUME OffsetInv, OffsetPost
  PROVE  OffsetInv'
<1>1. /\ PostCall /\ UNCHANGED <<tail, announced>>
      /\ UNCHANGED <<msg, written, landed, read, freed, mem>>
      /\ posted' = written
  BY DEF OffsetPost, PostCall, rcvVars
<1>2. BaseInv' BY <1>1, PostCallInv DEF OffsetInv
<1>3. LiveBytes'
  <2>1. freed' \in Nat /\ freed <= freed' BY <1>1, PlaceFacts DEF OffsetInv
  <2>2. QED BY <1>1, <2>1, LiveBytesKept DEF OffsetInv
<1>4. written \in Nat /\ sndTail = written % Length /\ sndTail \in Offsets
  BY PlaceOffset DEF OffsetInv, BaseInv, BaseTypeOK, OffsetsMatch
<1>5. /\ DOMAIN tails' = DOMAIN tails \cup {written}
      /\ \A p \in DOMAIN tails : tails[p] \in Offsets /\ tails[p] = p % Length
      /\ \A p \in DOMAIN tails' :
           tails'[p] = IF p = written THEN sndTail ELSE tails[p]
      /\ tails' = [p \in DOMAIN tails' |-> tails'[p]]
      /\ DOMAIN tails \subseteq Nat
  BY DEF OffsetInv, OffsetTypeOK, TailsMatch, OffsetPost
<1>6. OffsetTypeOK'
  <2>1. tails' \in [DOMAIN tails' -> Offsets] BY <1>4, <1>5
  <2>2. DOMAIN tails' \subseteq Nat BY <1>4, <1>5
  <2>3. QED BY <1>1, <1>2, <2>1, <2>2 DEF OffsetInv, OffsetTypeOK, BaseInv
<1>7. TailsMatch'
  <2>1. \A p \in DOMAIN tails' : tails'[p] = p % Length BY <1>4, <1>5
  <2>2. QED BY <1>1, <2>1 DEF OffsetInv, TailsMatch, Boundaries
<1>8. TailsAhead'
  <2>1. DOMAIN tails' \subseteq Boundaries'
    BY <1>1, <1>5 DEF OffsetInv, TailsAhead, Boundaries
  <2>2. /\ announced \in Nat /\ announced <= landed
        /\ landed <= posted /\ posted < written
        /\ landed \in Nat /\ posted \in Nat
    BY PlaceFacts DEF OffsetInv, OffsetTypeOK, TailsMatch, BaseInv, CallUnderWay,
                      OffsetPost, PostCall
  <2>3. \A p \in DOMAIN tails : landed <= p /\ p <= posted /\ announced < p
    BY DEF OffsetInv, TailsAhead
  <2>4. \A p \in DOMAIN tails' : landed' <= p /\ p <= posted' /\ announced' < p
    BY <1>1, <1>4, <1>5, <2>2, <2>3
  <2>5. posted' \in DOMAIN tails' BY <1>1, <1>5
  <2>6. QED BY <2>1, <2>4, <2>5 DEF TailsAhead
<1>9. QED BY <1>2, <1>3, <1>6, <1>7, <1>8 DEF OffsetInv

\* The write at the front is executed.  No tail stands in front of it, so those
\* under way announce at least what it brings.
LEMMA LandDataInv ==
  ASSUME OffsetInv, LandData
  PROVE  OffsetInv'
<1>1. /\ LandWrite /\ UNCHANGED wordVars /\ landed \notin DOMAIN tails
      /\ landed < posted
      /\ UNCHANGED <<msg, written, posted, read>>
  BY DEF LandData, LandWrite, sndVars, rcvVars
<1>2. BaseInv' /\ LiveBytes' /\ landed' = landed + msg[landed].len
  BY <1>1, LandWriteInv DEF OffsetInv
<1>3. landed \in DOMAIN msg /\ landed \in Nat /\ msg[landed].len \in Nat
  BY <1>1, LandsWithin, PlaceFacts DEF OffsetInv
<1>4. landed <= landed' /\ landed' \in Nat BY <1>2, <1>3
<1>5. OffsetTypeOK' BY <1>1, <1>2 DEF OffsetInv, OffsetTypeOK, BaseInv, wordVars
<1>6. TailsMatch'
  <2>1. announced' <= landed'
    BY <1>1, <1>3, <1>4 DEF OffsetInv, OffsetTypeOK, TailsMatch, wordVars
  <2>2. QED BY <1>1, <2>1 DEF OffsetInv, TailsMatch, Boundaries, wordVars
<1>7. TailsAhead'
  <2>1. ASSUME NEW p \in DOMAIN tails PROVE landed' <= p
    <3>1. p \in Boundaries /\ landed <= p /\ p # landed /\ p \in Nat
      BY <1>1, <2>1 DEF OffsetInv, TailsAhead, OffsetTypeOK
    <3>2. landed < p BY <1>3, <3>1
    <3>3. QED BY <1>2, <1>3, <3>1, <3>2, RegionFacts DEF OffsetInv
  <2>2. QED BY <1>1, <2>1 DEF OffsetInv, TailsAhead, Boundaries, wordVars
<1>8. QED BY <1>2, <1>5, <1>6, <1>7 DEF OffsetInv

\* The tail write that follows the data executed last is executed.
LEMMA LandTailInv ==
  ASSUME OffsetInv, LandTail
  PROVE  OffsetInv'
<1>1. /\ landed \in DOMAIN tails /\ UNCHANGED baseVars
      /\ tail' = tails[landed] /\ announced' = landed
      /\ DOMAIN tails' = DOMAIN tails \ {landed}
      /\ tails' = [p \in DOMAIN tails' |-> tails'[p]]
      /\ \A p \in DOMAIN tails' : tails'[p] = tails[p]
  BY DEF LandTail
<1>2. /\ UNCHANGED <<sndVars, wireVars, rcvVars, ackQ, mem>>
      /\ UNCHANGED <<msg, written, landed, posted, read, freed>>
  BY <1>1 DEF baseVars, sndVars, wireVars, rcvVars
<1>3. BaseInv'
  <2>1. mem' \in [Offsets -> Nat \cup {-1}]
    BY <1>2 DEF OffsetInv, BaseInv, BaseTypeOK
  <2>2. QED BY <1>2, <2>1, BaseKept DEF OffsetInv
<1>4. LiveBytes'
  <2>1. freed' \in Nat /\ freed <= freed' BY <1>2, PlaceFacts DEF OffsetInv
  <2>2. QED BY <1>2, <2>1, LiveBytesKept DEF OffsetInv
<1>5. /\ landed \in Nat /\ read <= landed /\ landed <= posted /\ posted \in Nat
      /\ landed \in Boundaries
  BY PlaceFacts, NextIsRegion DEF OffsetInv
<1>6. \A p \in DOMAIN tails : tails[p] = p % Length /\ p \in Nat
                               /\ tails[p] \in Offsets
  BY DEF OffsetInv, TailsMatch, OffsetTypeOK
<1>7. OffsetTypeOK'
  <2>1. tails' \in [DOMAIN tails' -> Offsets] BY <1>1, <1>6
  <2>2. tail' \in Offsets /\ announced' \in Nat BY <1>1, <1>5, <1>6
  <2>3. DOMAIN tails' \subseteq Nat BY <1>1, <1>6
  <2>4. QED BY <1>3, <2>1, <2>2, <2>3 DEF OffsetTypeOK, BaseInv
<1>8. TailsMatch'
  <2>1. tail' = announced' % Length BY <1>1, <1>6
  <2>2. \A p \in DOMAIN tails' : tails'[p] = p % Length BY <1>1, <1>6
  <2>3. read' <= announced' /\ announced' <= landed' /\ announced' \in Boundaries'
    BY <1>1, <1>2, <1>5 DEF Boundaries
  <2>4. QED BY <2>1, <2>2, <2>3 DEF TailsMatch
<1>9. TailsAhead'
  <2>1. ASSUME NEW p \in DOMAIN tails'
        PROVE  landed' <= p /\ p <= posted' /\ announced' < p
    BY <1>1, <1>2, <1>5, <1>6 DEF OffsetInv, TailsAhead
  <2>2. posted' = announced' \/ posted' \in DOMAIN tails'
    <3>1. announced < landed /\ landed <= posted /\ announced \in Nat
      BY <1>1, <1>5 DEF OffsetInv, TailsAhead, OffsetTypeOK
    <3>2. posted \in DOMAIN tails BY <1>5, <3>1 DEF OffsetInv, TailsAhead
    <3>3. QED BY <1>1, <1>2, <3>2
  <2>3. DOMAIN tails' \subseteq Boundaries'
    BY <1>1, <1>2 DEF OffsetInv, TailsAhead, Boundaries
  <2>4. QED BY <2>1, <2>2, <2>3 DEF TailsAhead
<1>10. QED BY <1>3, <1>4, <1>7, <1>8, <1>9 DEF OffsetInv

\* When the tail word differs from the read pointer, the cell at the read
\* pointer holds the first byte of the next region, and the region is whole.
LEMMA NextRegion ==
  ASSUME OffsetInv, tail # readPtr
  PROVE  /\ read \in DOMAIN msg /\ read < announced
         /\ mem[readPtr] = read
         /\ read + msg[read].len <= announced
         /\ read + msg[read].len <= landed
<1>1. /\ read \in Nat /\ announced \in Nat /\ landed \in Nat /\ freed \in Nat
      /\ freed <= read /\ read <= announced /\ announced <= landed
      /\ announced \in Boundaries
  BY PlaceFacts DEF OffsetInv, OffsetTypeOK, TailsMatch
<1>2. tail = announced % Length /\ readPtr = read % Length
  BY DEF OffsetInv, TailsMatch, BaseInv, OffsetsMatch
<1>3. read < announced /\ read < landed BY <1>1, <1>2
<1>4. read \in DOMAIN msg BY <1>3, NextIsRegion DEF OffsetInv
<1>5. read + msg[read].len <= announced /\ msg[read].len \in Nat
  BY <1>1, <1>3, <1>4, RegionFacts DEF OffsetInv
<1>6. mem[readPtr] = read
  <2>1. read \in freed .. landed - 1 BY <1>1, <1>3
  <2>2. QED BY <1>2, <2>1 DEF OffsetInv, LiveBytes
<1>7. read + msg[read].len <= landed BY <1>1, <1>5
<1>8. QED BY <1>3, <1>4, <1>5, <1>6, <1>7

\* Receive takes the region at the read pointer, which has landed.
LEMMA OffsetReceivesNext ==
  ASSUME OffsetInv, OffsetReceive
  PROVE  /\ read \in DOMAIN msg /\ read + msg[read].len <= landed
         /\ ReadRegion(msg[read].len)
<1>1. /\ read \in DOMAIN msg /\ mem[readPtr] = read
      /\ read + msg[read].len <= landed
  BY NextRegion DEF OffsetReceive
<1>2. QED BY <1>1 DEF OffsetReceive, HeaderLengths

\* Receive hands out exactly the next region.
LEMMA OffsetReceiveInv ==
  ASSUME OffsetInv, OffsetReceive
  PROVE  OffsetInv'
<1> DEFINE len == msg[read].len
<1>1. /\ read \in DOMAIN msg
      /\ read + len <= announced /\ read + len <= landed
  BY NextRegion DEF OffsetReceive
<1>2. ReadRegion(len) /\ UNCHANGED wordVars BY OffsetReceivesNext DEF OffsetReceive
<1>3. BaseInv' /\ read' = read + len BY <1>1, <1>2, ReadRegionInv DEF OffsetInv
<1>4. UNCHANGED <<mem, landed, freed, posted, msg, written>>
  BY <1>2 DEF ReadRegion, sndVars, wireVars
<1>5. LiveBytes'
  <2>1. freed' \in Nat /\ freed <= freed' BY <1>4, PlaceFacts DEF OffsetInv
  <2>2. QED BY <1>4, <2>1, LiveBytesKept DEF OffsetInv
<1>6. OffsetTypeOK' BY <1>2, <1>3 DEF OffsetInv, OffsetTypeOK, BaseInv, wordVars
<1>7. TailsMatch'
  BY <1>1, <1>2, <1>3, <1>4 DEF OffsetInv, TailsMatch, Boundaries, wordVars
<1>8. TailsAhead' BY <1>2, <1>4 DEF OffsetInv, TailsAhead, Boundaries, wordVars
<1>9. QED BY <1>3, <1>5, <1>6, <1>7, <1>8 DEF OffsetInv

\* Free moves the head forward to the oldest region still held.
LEMMA OffsetFreeStartInv ==
  ASSUME OffsetInv, OffsetFreeStart
  PROVE  OffsetInv'
<1>1. PICK k \in DOMAIN outstanding : FreeRegion(k) BY DEF OffsetFreeStart
<1>2. UNCHANGED <<mem, landed, posted, read, msg, written>>
  BY <1>1 DEF FreeRegion, sndVars, wireVars
<1>3. BaseInv' /\ freed <= freed' BY <1>1, FreeRegionInv DEF OffsetInv
<1>4. LiveBytes'
  <2>1. freed' \in Nat BY <1>3 DEF BaseInv, BaseTypeOK
  <2>2. QED BY <1>2, <1>3, <2>1, LiveBytesKept DEF OffsetInv
<1>5. Boundaries \subseteq Boundaries' BY <1>2 DEF Boundaries
<1>6. QED BY <1>2, <1>3, <1>4, <1>5, WordsKept DEF OffsetFreeStart

\* Ack publishes the head; Flush, if due, sends it.
LEMMA OffsetFreeAckInv ==
  ASSUME OffsetInv, OffsetFreeAck
  PROVE  OffsetInv'
<1>1. /\ Acknowledge /\ UNCHANGED wordVars
      /\ UNCHANGED <<mem, landed, posted, read, freed, msg, written>>
  BY DEF OffsetFreeAck, Acknowledge, sndVars, wireVars
<1>2. BaseInv' BY <1>1, AcknowledgeInv DEF OffsetInv
<1>3. LiveBytes'
  <2>1. freed' \in Nat /\ freed <= freed' BY <1>1, PlaceFacts DEF OffsetInv
  <2>2. QED BY <1>1, <2>1, LiveBytesKept DEF OffsetInv
<1>4. Boundaries \subseteq Boundaries' BY <1>1 DEF Boundaries
<1>5. QED BY <1>1, <1>2, <1>3, <1>4, WordsKept

-----------------------------------------------------------------------------
\* A stuttering step changes nothing the invariant speaks of.
LEMMA OffsetStutterInv ==
  ASSUME OffsetInv, UNCHANGED offsetVars
  PROVE  OffsetInv'
<1>1. UNCHANGED wordVars /\ UNCHANGED <<sndVars, wireVars, rcvVars, ackQ, mem>>
  BY DEF offsetVars, baseVars, wordVars
<1>2. mem' \in [Offsets -> Nat \cup {-1}]
  BY <1>1 DEF OffsetInv, BaseInv, BaseTypeOK
<1>3. BaseInv' BY <1>1, <1>2, BaseKept DEF OffsetInv
<1>4. QED BY <1>1, <1>3, OffsetQuietStep DEF sndVars

\* Every step of the sender, the network and the receiver preserves IInv.
LEMMA OffsetStepInv ==
  ASSUME ShortCalls, OffsetInv, [OffsetNext]_offsetVars
  PROVE  OffsetInv'
<1>1. CASE OffsetSendStart BY <1>1, OffsetSendStartInv
<1>2. CASE OffsetSendRegion BY <1>2, OffsetSendRegionInv
<1>3. CASE OffsetSendGet BY <1>3, OffsetSendGetInv
<1>4. CASE OffsetSendPoll BY <1>4, OffsetSendPollInv
<1>5. CASE OffsetSendUpdate BY <1>5, OffsetSendUpdateInv
<1>6. CASE OffsetPost BY <1>6, OffsetPostInv
<1>7. CASE LandData BY <1>7, LandDataInv
<1>8. CASE LandTail BY <1>8, LandTailInv
<1>9. CASE ReadHead BY <1>9, ReadHeadInv
<1>10. CASE OffsetReceive BY <1>10, OffsetReceiveInv
<1>11. CASE OffsetFreeStart BY <1>11, OffsetFreeStartInv
<1>12. CASE OffsetFreeAck BY <1>12, OffsetFreeAckInv
<1>13. CASE UNCHANGED offsetVars BY <1>13, OffsetStutterInv
<1>14. QED
  BY <1>1, <1>2, <1>3, <1>4, <1>5, <1>6, <1>7, <1>8, <1>9, <1>10, <1>11,
     <1>12, <1>13 DEF OffsetNext, OffsetSender, OffsetNetwork, OffsetReceiver

\* IInv is an invariant when every region is shorter than the ring: sender
\* cache, receiver ring, acknowledger and writes under way always agree.
THEOREM OffsetInvariance == ASSUME ShortCalls PROVE OffsetSpec => []OffsetInv
<1>1. OffsetInit => OffsetInv BY OffsetInitInv
<1>2. OffsetInv /\ [OffsetNext]_offsetVars => OffsetInv' BY OffsetStepInv
<1>3. QED BY <1>1, <1>2, PTL DEF OffsetSpec

\* Every variable keeps its type.
THEOREM OffsetTypeCorrect == ASSUME ShortCalls PROVE OffsetSpec => []OffsetTypeOK
<1>1. OffsetInv => OffsetTypeOK BY DEF OffsetInv
<1>2. QED BY <1>1, OffsetInvariance, PTL

\* The sender's cached head never passes the receiver's, and what it reserved
\* since always leaves a byte of the ring free: GetWriteAddr's bookkeeping
\* never lets a write overrun the ring.
THEOREM NeverOverruns == ASSUME ShortCalls PROVE OffsetSpec => []NoOverrun
<1>1. OffsetInv => NoOverrun BY PlaceFacts DEF OffsetInv, NoOverrun
<1>2. QED BY <1>1, OffsetInvariance, PTL

\* No write lands in a region the application holds.
THEOREM HeldStayIntact == ASSUME ShortCalls PROVE OffsetSpec => []HeldIntact
<1>1. OffsetInv => HeldIntact BY HeldIsIntact DEF OffsetInv, HeldIntact
<1>2. QED BY <1>1, OffsetInvariance, PTL

\* Receive always takes the message sent next, complete.
THEOREM NextStaysWhole == ASSUME ShortCalls PROVE OffsetSpec => []NextIsWhole
<1>1. OffsetInv => NextIsWhole
  <2>1. SUFFICES ASSUME OffsetInv, tail # readPtr
        PROVE  /\ read \in DOMAIN msg
               /\ \A i \in 0 .. msg[read].len - 1 :
                    mem[(readPtr + i) % Length] = read + i
    BY DEF NextIsWhole
  <2>2. read \in DOMAIN msg /\ read + msg[read].len <= landed
    BY <2>1, NextRegion
  <2>3. freed <= read BY <2>1, PlaceFacts DEF OffsetInv
  <2>4. readPtr = read % Length BY <2>1 DEF OffsetInv, BaseInv, OffsetsMatch
  <2>5. QED BY <2>1, <2>2, <2>3, <2>4, RegionIntact DEF OffsetInv
<1>2. QED BY <1>1, OffsetInvariance, PTL

\* In send acknowledging a second head update is never sent before the first
\* was taken, so the drain loop of SendAckReceiver::Get loses none.
THEOREM AcksNeverPileUp == ASSUME ShortCalls PROVE OffsetSpec => []OneAckPending
<1>1. OffsetInv => OneAckPending
  <2>1. SUFFICES ASSUME OffsetInv PROVE Len(ackQ) <= 1 BY DEF OneAckPending
  <2>2. ackQ = <<>> \/ Len(ackQ) = 1
    BY <2>1, AckKindAssumption DEF OffsetInv, BaseInv, AcksApart
  <2>3. Len(<<>>) = 0 OBVIOUS
  <2>4. ackQ = <<>> => Len(ackQ) = 0 BY <2>3, Zenon
  <2>5. Len(ackQ) = 0 \/ Len(ackQ) = 1 BY <2>2, <2>4, Zenon
  <2>6. \A n : n = 0 \/ n = 1 => n <= 1 OBVIOUS
  <2>7. QED BY <2>5, <2>6, Zenon
<1>2. QED BY <1>1, OffsetInvariance, PTL

-----------------------------------------------------------------------------
\* What each step is to the users of the channel: posting is Send, Receive is
\* Receive, Free is Free, and everything else is invisible.
LEMMA OffsetStepIsFifo ==
  OffsetInv /\ OffsetInv' /\ HeldIntact /\ HeldIntact' /\ [OffsetNext]_offsetVars
    => [Fifo!Next]_(Fifo!vars)
<1> SUFFICES ASSUME OffsetInv, OffsetInv', HeldIntact, HeldIntact',
                    [OffsetNext]_offsetVars
             PROVE  [Fifo!Next]_(Fifo!vars)
  OBVIOUS
<1>0. BaseInv /\ BaseInv' BY DEF OffsetInv
<1>1. CASE OffsetPost
  <2>1. Fifo!Send BY <1>0, <1>1, FifoSend DEF OffsetPost
  <2>2. QED BY <2>1 DEF Fifo!Next
<1>2. CASE OffsetReceive
  <2>1. Fifo!Receive BY <1>0, <1>2, OffsetReceivesNext, FifoReceive
  <2>2. QED BY <2>1 DEF Fifo!Next
<1>3. CASE OffsetFreeStart
  <2>1. PICK k \in DOMAIN outstanding : FreeRegion(k) BY <1>3 DEF OffsetFreeStart
  <2>2. Fifo!Free BY <1>0, <2>1, FifoFree
  <2>3. QED BY <2>2 DEF Fifo!Next
<1>4. CASE OffsetSendRegion
  <2>1. UNCHANGED <<read, posted, outstanding>> /\ Reserve
    BY <1>4 DEF OffsetSendRegion, Reserve, rcvVars
  <2>2. QED BY <1>0, <2>1, FifoQuiet
<1>5. CASE \/ OffsetSendStart \/ OffsetSendGet \/ OffsetSendUpdate
           \/ OffsetSendPoll \/ LandData \/ LandTail \/ ReadHead
           \/ OffsetFreeAck \/ UNCHANGED offsetVars
  <2>1. UNCHANGED <<read, posted, outstanding, msg>>
    BY <1>5
    DEF OffsetSendStart, OffsetSendGet, OffsetSendUpdate, OffsetFreeAck,
        offsetVars, baseVars, SendAsync, NeedHead, UpdateHead, AckRead, AckPoll, Acknowledge,
        OffsetSendPoll, LandData, LandTail, LandWrite, ReadHead, rcvVars, wireVars
  <2>2. QED BY <1>0, <2>1, FifoQuiet
<1>6. QED
  BY <1>1, <1>2, <1>3, <1>4, <1>5
     DEF OffsetNext, OffsetSender, OffsetNetwork, OffsetReceiver

\* The connection is a FIFO channel as far as safety goes: messages come
\* in the order they were posted, whole, and stay until they are freed
\* (WriteOffsetSender, WriteOffsetReceiver).
THEOREM OffsetIsFifo == ASSUME ShortCalls PROVE OffsetSpec => Fifo!Safe
<1>1. OffsetInit => Fifo!Init BY FifoInit DEF OffsetInit
<1>2. OffsetSpec => []OffsetInv BY OffsetInvariance
<1>3. OffsetInv => HeldIntact BY HeldIsIntact DEF OffsetInv, HeldIntact
<1>4. OffsetInv /\ OffsetInv' /\ HeldIntact /\ HeldIntact'
        /\ [OffsetNext]_offsetVars => [Fifo!Next]_(Fifo!vars)
  BY OffsetStepIsFifo
<1>5. QED BY <1>1, <1>2, <1>3, <1>4, PTL DEF OffsetSpec, Fifo!Safe

-----------------------------------------------------------------------------
(* The CRC: words *)

\* Between two multiples of the word lies at least one word.
LEMMA NextWord ==
  ASSUME NEW x \in Nat, NEW y \in Nat, x % Word = 0, y % Word = 0, x < y
  PROVE  x + Word <= y
<1>1. SUFFICES ASSUME y - x < Word PROVE FALSE BY WordAssumption
<1>2. /\ x % Word = y % Word /\ x - y < Word /\ Word \in Nat \ {0}
      /\ x \in Int /\ y \in Int
  BY WordAssumption
<1>3. x = y BY ONLY <1>1, <1>2, SameRemainder
<1>4. QED BY <1>3

\* The sum of two multiples of the word is one.
LEMMA SumOfWords ==
  ASSUME NEW x \in Nat, NEW y \in Nat, x % Word = 0, y % Word = 0
  PROVE  (x + y) % Word = 0
<1> DEFINE q == x \div Word
<1> DEFINE r == y \div Word
<1>1. q \in Int /\ x = Word * q + 0
  BY WordAssumption, Quotient
<1>2. r \in Int /\ y = Word * r + 0
  BY WordAssumption, Quotient
<1> HIDE DEF q, r
<1>3. x + y = Word * (q + r) + 0 BY <1>1, <1>2, WordAssumption
<1>4. (Word * (q + r) + 0) % Word = 0
  <2>1. q + r \in Int /\ 0 \in 0 .. Word - 1
    BY <1>1, <1>2, WordAssumption
  <2>2. QED BY <2>1, WordAssumption, RemainderIs
<1>5. QED BY <1>3, <1>4

\* A region holds a header, and is shorter than the ring.
LEMMA LengthFacts ==
  ASSUME NEW n \in RegionLengths
  PROVE  n \in 1 .. Length - 1 /\ n \in Nat \ {0} /\ 2 * Word <= n /\ n % Word = 0
BY WordAssumption, LengthAssumption DEF RegionLengths

\* The calls are such as every connection supposes.
LEMMA CallsAreShort == WordCalls => ShortCalls
<1>1. SUFFICES ASSUME WordCalls, NEW c \in Calls PROVE c \in Seq(1 .. Length - 1)
  BY DEF ShortCalls
<1>2. c \in Seq(RegionLengths) BY <1>1 DEF WordCalls
<1>3. \A n \in RegionLengths : n \in 1 .. Length - 1 BY LengthFacts
<1>4. QED
  <2>1. /\ Len(c) \in Nat /\ c = [i \in 1 .. Len(c) |-> c[i]]
        /\ \A i \in 1 .. Len(c) : c[i] \in RegionLengths
    BY <1>2
  <2>2. c \in [1 .. Len(c) -> 1 .. Length - 1] BY <1>3, <2>1
  <2>3. QED BY <2>1, <2>2, SeqDef

-----------------------------------------------------------------------------
(* The ring from the published head once around *)

\* Where the receiver stands in it.
LEMMA WindowFacts ==
  ASSUME IInv, WordCalls
  PROVE  /\ {ackPos, freed, read, landed, posted, written} \subseteq Nat
         /\ ackPos <= freed /\ freed <= read /\ read <= landed
         /\ landed <= posted /\ posted <= written
         /\ landed < ackPos + Length
         /\ read % Word = 0 /\ landed % Word = 0
         /\ read + Word <= ackPos + Length
<1>1. BaseInv BY DEF IInv
<1>2. /\ {known, ackPos, freed, read, landed, posted, written} \subseteq Nat
      /\ known <= ackPos /\ ackPos <= freed /\ freed <= read /\ read <= landed
      /\ landed <= posted /\ posted <= written /\ written - known < Length
  BY <1>1, PlaceFacts
<1>3. landed < ackPos + Length BY ONLY <1>2, LengthAssumption
<1>4. read % Word = 0 /\ landed % Word = 0 /\ ackPos % Word = 0
  BY <1>1, NextIsRegion DEF IInv, WordsAligned
<1>5. read + Word <= ackPos + Length
  <2>1. ackPos + Length \in Nat /\ read < ackPos + Length
    BY <1>2, <1>3, LengthAssumption
  <2>2. (ackPos + Length) % Word = 0
    BY <1>2, <1>4, LengthAssumption, SumOfWords DEF WordCalls
  <2>3. QED BY <1>2, <1>4, <2>1, <2>2, NextWord
<1>6. QED BY <1>2, <1>3, <1>4, <1>5

\* The cell some bytes behind an offset.
LEMMA CellOf ==
  ASSUME NEW p \in Nat, NEW i \in 0 .. Length
  PROVE  Cell(p % Length, i) = mem[(p + i) % Length]
BY AddMod DEF Cell

\* The write that is executed.
LEMMA LandingFacts ==
  ASSUME IInv, landed < posted
  PROVE  /\ landed \in DOMAIN msg /\ msg[landed].len \in RegionLengths
         /\ msg[landed].off = landed % Length
         /\ landed + msg[landed].len \in Boundaries
         /\ landed + msg[landed].len <= posted
         /\ landed + msg[landed].len < ackPos + Length
<1>1. /\ landed \in DOMAIN msg
      /\ msg[landed].off = landed % Length
      /\ landed + msg[landed].len \in Boundaries
      /\ landed + msg[landed].len <= posted
      /\ landed + msg[landed].len < known + Length
  BY LandsWithin DEF IInv
<1>2. msg[landed].len \in RegionLengths BY <1>1 DEF IInv, WordsAligned
<1>3. known <= ackPos /\ known \in Nat /\ ackPos \in Nat /\ landed \in Nat
  BY PlaceFacts DEF IInv
<1>4. landed + msg[landed].len < ackPos + Length
  BY <1>1, <1>2, <1>3, LengthFacts, LengthAssumption
<1>5. QED BY <1>1, <1>2, <1>4

\* What is not cleared yet was read and is not held.
LEMMA UnwipedIs ==
  ASSUME IInv, WordCalls,
         NEW b \in ackPos .. ackPos + Length - 1, Unwiped(b)
  PROVE  \E w \in DOMAIN msg \ DOMAIN outstanding :
           w <= b /\ b < w + msg[w].len /\ w + msg[w].len <= read
<1>1. PICK o \in DOMAIN wiping : Distance(o, b % Length) < wiping[o]
  BY DEF Unwiped
<1>2. PICK w \in DOMAIN msg \ DOMAIN outstanding :
        /\ o = w % Length /\ wiping[o] = msg[w].len
        /\ ackPos <= w /\ w + msg[w].len <= read
  BY <1>1 DEF IInv, WipesFreed
<1>3. /\ w \in Nat /\ msg[w].len \in Nat /\ ackPos \in Nat /\ b \in Nat
      /\ w + msg[w].len <= ackPos + Length
      /\ ackPos <= b /\ b < ackPos + Length
  <2>1. w \in Nat /\ msg[w].len \in Nat BY RegionFacts DEF IInv
  <2>2. ackPos \in Nat /\ read \in Nat /\ read <= landed /\ landed \in Nat
        /\ landed < ackPos + Length
    BY WindowFacts
  <2>3. QED BY <1>2, <2>1, <2>2, LengthAssumption
<1>4. Distance(w % Length, b % Length) < msg[w].len
        <=> w <= b /\ b < w + msg[w].len
  BY <1>2, <1>3, RegionCells
<1>5. QED BY <1>1, <1>2, <1>4

\* Nothing behind the read pointer is held or waits to be cleared.
LEMMA NothingBeyondRead ==
  ASSUME IInv, WordCalls,
         NEW b \in ackPos .. ackPos + Length - 1, read <= b
  PROVE  ~Held(b) /\ ~Unwiped(b)
<1>0. b \in Nat /\ read \in Nat
  <2>1. ackPos \in Nat /\ read \in Nat BY WindowFacts
  <2>2. QED BY <2>1, LengthAssumption
<1>1. ~Held(b)
  <2>1. SUFFICES ASSUME NEW k \in DOMAIN outstanding, b < k + msg[k].len
                 PROVE  FALSE
    BY DEF Held
  <2>2. k \in DOMAIN msg /\ k + msg[k].len <= read BY HeldWithin DEF IInv
  <2>3. k \in Nat /\ msg[k].len \in Nat BY <2>2, RegionFacts DEF IInv
  <2>4. QED BY ONLY <1>0, <2>1, <2>2, <2>3, read <= b
<1>2. ~Unwiped(b)
  <2>1. SUFFICES ASSUME Unwiped(b) PROVE FALSE OBVIOUS
  <2>2. PICK w \in DOMAIN msg \ DOMAIN outstanding :
          w <= b /\ b < w + msg[w].len /\ w + msg[w].len <= read
    BY <2>1, UnwipedIs
  <2>3. w \in Nat /\ msg[w].len \in Nat BY RegionFacts DEF IInv
  <2>4. QED BY ONLY <1>0, <2>2, <2>3, read <= b
<1>3. QED BY <1>1, <1>2

\* Until the next region arrives the word at the read pointer is zero; from
\* then on all of the region's header stands there.
LEMMA HeadWord ==
  ASSUME IInv, WordCalls
  PROVE  /\ Arrived(read) =>
              /\ read \in DOMAIN msg
              /\ \A i \in 0 .. 2 * Word - 1 : Cell(readPtr, i) = read + i
         /\ ~Arrived(read) => IsZero(readPtr)
<1>0. readPtr = read % Length BY DEF IInv, BaseInv, OffsetsMatch
<1>1. /\ {ackPos, freed, read, landed, posted, written} \subseteq Nat
      /\ ackPos <= read /\ read <= landed /\ landed < ackPos + Length
      /\ read + Word <= ackPos + Length
  BY WindowFacts
<1>2. Word \in Nat \ {0} /\ Length \in Nat \ {0}
  BY WordAssumption, LengthAssumption
<1>3. ASSUME read < landed
      PROVE  /\ read \in DOMAIN msg
             /\ \A i \in 0 .. 2 * Word - 1 : Cell(readPtr, i) = read + i
  <2>1. read \in DOMAIN msg /\ landed \in Boundaries
    BY <1>3, NextIsRegion DEF IInv
  <2>2. msg[read].len \in RegionLengths BY <2>1 DEF IInv, WordsAligned
  <2>3. read + msg[read].len <= landed BY <1>3, <2>1, RegionFacts DEF IInv
  <2>4. ASSUME NEW i \in 0 .. 2 * Word - 1 PROVE Cell(readPtr, i) = read + i
    <3>1. msg[read].len \in 1 .. Length - 1 /\ 2 * Word <= msg[read].len
      BY <2>2, LengthFacts
    <3>2. /\ i \in 0 .. Length /\ read + i \in ackPos .. ackPos + Length - 1
          /\ read <= read + i /\ read + i < landed
      BY ONLY <1>1, <1>2, <2>3, <3>1, i \in 0 .. 2 * Word - 1
    <3>3. Filled(read + i) BY <3>2 DEF Filled, Arrived
    <3>4. mem[(read + i) % Length] = read + i
      BY <3>2, <3>3 DEF IInv, RingExact
    <3>5. QED BY <1>0, <1>1, <3>2, <3>4, CellOf
  <2>5. QED BY <2>1, <2>4
<1>4. ASSUME read = landed, Arrived(read)
      PROVE  /\ read \in DOMAIN msg
             /\ \A i \in 0 .. 2 * Word - 1 : Cell(readPtr, i) = read + i
  <2>1. 0 \in arrived BY <1>1, <1>4 DEF Arrived
  <2>2. landed < posted BY <2>1 DEF IInv, InPart
  <2>3. /\ landed \in DOMAIN msg /\ msg[landed].len \in RegionLengths
        /\ landed + msg[landed].len < ackPos + Length
    BY <2>2, LandingFacts
  <2>4. ASSUME NEW i \in 0 .. 2 * Word - 1 PROVE Cell(readPtr, i) = read + i
    <3>1. msg[landed].len \in 1 .. Length - 1 /\ 2 * Word <= msg[landed].len
      BY <2>3, LengthFacts
    <3>2. /\ i \in 0 .. Length /\ read + i \in ackPos .. ackPos + Length - 1
          /\ read <= read + i /\ (read + i) - landed = i
      BY ONLY <1>1, <1>2, <1>4, <2>3, <3>1, i \in 0 .. 2 * Word - 1
    <3>3. i \in arrived BY <2>1 DEF IInv, InPart
    <3>4. Filled(read + i) BY <3>2, <3>3 DEF Filled, Arrived
    <3>5. mem[(read + i) % Length] = read + i
      BY <3>2, <3>4 DEF IInv, RingExact
    <3>6. QED BY <1>0, <1>1, <3>2, <3>5, CellOf
  <2>5. QED BY <1>4, <2>3, <2>4
<1>5. ASSUME ~Arrived(read) PROVE IsZero(readPtr)
  <2>1. read = landed /\ 0 \notin arrived BY <1>1, <1>5 DEF Arrived
  <2>2. ASSUME NEW i \in 0 .. Word - 1 PROVE Cell(readPtr, i) = -1
    <3> DEFINE b == read + i
    <3>1. /\ b \in ackPos .. ackPos + Length - 1 /\ i \in 0 .. Length
          /\ read <= b /\ b - landed = i /\ ~(b < landed)
          /\ i \in 0 .. 2 * Word - 1 /\ b \in Nat
      BY ONLY <1>1, <1>2, <2>1, i \in 0 .. Word - 1
    <3> HIDE DEF b
    <3>2. i \notin arrived BY <2>1, <3>1 DEF IInv, InPart
    <3>3. ~Arrived(b) BY <3>1, <3>2 DEF Arrived
    <3>4. ~Held(b) /\ ~Unwiped(b) BY <3>1, NothingBeyondRead
    <3>5. mem[b % Length] = -1
      BY <3>1, <3>3, <3>4 DEF IInv, RingExact, Filled
    <3>6. QED BY <1>0, <1>1, <3>1, <3>5, CellOf DEF b
  <2>3. QED BY <2>2 DEF IsZero
<1>6. QED BY <1>1, <1>3, <1>4, <1>5

-----------------------------------------------------------------------------
\* The initial state: nothing was written and every cell is clear.
LEMMA InitInv == Init => IInv
<1> SUFFICES ASSUME Init PROVE IInv OBVIOUS
<1> USE DEF Init
<1>1. BaseInv BY BaseInitInv
<1>2. TypeOK
  <2>1. arrived \subseteq 0 .. Length - 1 /\ seen \in 0 .. Length - 1
    BY LengthAssumption
  <2>2. DOMAIN lengths = {} /\ DOMAIN wiping = {} OBVIOUS
  <2>3. /\ lengths \in [DOMAIN lengths -> 1 .. Length - 1]
        /\ wiping \in [DOMAIN wiping -> 1 .. Length - 1]
    OBVIOUS
  <2>4. BaseTypeOK /\ checked \in BOOLEAN BY <1>1 DEF BaseInv
  <2>5. QED BY <2>1, <2>2, <2>3, <2>4 DEF TypeOK
<1>3. WordsAligned
  <2>1. 0 % Word = 0
    <3>1. Word * 0 + 0 = 0 /\ 0 \in 0 .. Word - 1 /\ Word \in Nat \ {0}
      BY WordAssumption
    <3>2. QED BY <3>1, RemainderIs
  <2>2. todo \in Seq(RegionLengths) BY DEF BaseInit
  <2>3. QED BY <2>1, <2>2 DEF WordsAligned, Boundaries, BaseInit
<1>4. InPart BY DEF InPart, BaseInit
<1>5. RingExact
  <2>1. SUFFICES ASSUME NEW b \in ackPos .. ackPos + Length - 1
                 PROVE  mem[b % Length] = IF Filled(b) THEN b ELSE -1
    BY DEF RingExact
  <2>2. b \in Nat /\ b % Length \in Offsets
    <3>1. b \in Nat BY LengthAssumption DEF BaseInit
    <3>2. QED BY <3>1, PlaceOffset
  <2>3. ~Filled(b)
    BY <2>2 DEF Filled, Arrived, Held, Unwiped, BaseInit
  <2>4. mem[b % Length] = -1 BY <2>2 DEF BaseInit
  <2>5. QED BY <2>3, <2>4
<1>6. LengthsKept BY DEF LengthsKept, BaseInit
<1>7. WipesFreed BY DEF WipesFreed
<1>8. SeenNext BY DEF SeenNext
<1>9. QED BY <1>1, <1>2, <1>3, <1>4, <1>5, <1>6, <1>7, <1>8 DEF IInv

\* Steps of the sender and of GetHead touch nothing the receiver looks at.
LEMMA CrcKept ==
  ASSUME IInv, BaseInv', WordsAligned', InPart',
         UNCHANGED <<crcVars, mem, landed, read, ackPos, outstanding, rpc>>,
         \A p \in DOMAIN msg : p \in DOMAIN msg' /\ msg'[p] = msg[p]
  PROVE  IInv'
<1> USE DEF crcVars
<1>1. TypeOK' BY DEF IInv, TypeOK, BaseInv
<1>2. \A k \in DOMAIN outstanding : k \in DOMAIN msg
  BY DEF IInv, BaseInv, HeldAhead
<1>3. RingExact'
  <2>1. SUFFICES ASSUME NEW b \in ackPos .. ackPos + Length - 1
                 PROVE  mem[b % Length] = IF Filled(b)' THEN b ELSE -1
    BY DEF RingExact
  <2>2. Held(b)' <=> Held(b) BY <1>2 DEF Held
  <2>3. Unwiped(b)' <=> Unwiped(b) BY DEF Unwiped
  <2>4. Arrived(b)' <=> Arrived(b) BY DEF Arrived
  <2>5. Filled(b)' <=> Filled(b) BY <2>2, <2>3, <2>4 DEF Filled
  <2>6. QED BY <2>1, <2>5 DEF IInv, RingExact
<1>4. LengthsKept' BY <1>2 DEF IInv, LengthsKept
<1>5. WipesFreed' BY DEF IInv, WipesFreed
<1>6. SeenNext' BY DEF IInv, SeenNext, Arrived
<1>7. QED BY <1>1, <1>3, <1>4, <1>5, <1>6 DEF IInv

\* A call starts with regions of whole words.
LEMMA SendStartInv == WordCalls /\ IInv /\ SendStart => IInv'
<1> SUFFICES ASSUME WordCalls, IInv, SendStart PROVE IInv' OBVIOUS
<1>1. PICK c \in Calls : SendAsync(c) BY DEF SendStart
<1>2. BaseInv' BY <1>1, CallsAreShort, SendAsyncInv DEF IInv
<1>3. /\ UNCHANGED <<crcVars, wireVars, rcvVars, mem, ackQ, written>>
      /\ todo' = c
  BY <1>1 DEF SendStart, SendAsync
<1>4. WordsAligned'
  <2>1. todo' \in Seq(RegionLengths) BY <1>3 DEF WordCalls
  <2>2. QED BY <1>3, <2>1 DEF IInv, WordsAligned, Boundaries, wireVars, rcvVars
<1>5. InPart' BY <1>3 DEF IInv, InPart, wireVars, crcVars
<1>6. QED BY <1>2, <1>3, <1>4, <1>5, CrcKept DEF wireVars, rcvVars

\* The sender asks for the head, gets it, and takes it over.
LEMMA HeadSteps ==
  WordCalls /\ IInv /\ (SendGet \/ GetHead \/ SendUpdate) => IInv'
<1> SUFFICES ASSUME WordCalls, IInv, SendGet \/ GetHead \/ SendUpdate
             PROVE  IInv'
  OBVIOUS
<1>1. BaseInv'
  BY NeedHeadInv, AckReadInv, AckPollInv, UpdateHeadInv
  DEF IInv, SendGet, GetHead, SendUpdate
<1>2. UNCHANGED <<crcVars, wireVars, rcvVars, mem, written, todo>>
  BY DEF SendGet, GetHead, SendUpdate, NeedHead, AckRead, AckPoll, UpdateHead
<1>3. WordsAligned'
  BY <1>2 DEF IInv, WordsAligned, Boundaries, wireVars, rcvVars
<1>4. InPart' BY <1>2 DEF IInv, InPart, wireVars, crcVars
<1>5. QED BY <1>1, <1>2, <1>3, <1>4, CrcKept DEF wireVars, rcvVars

\* Another region of whole words is reserved.
LEMMA SendRegionInv == WordCalls /\ IInv /\ SendRegion => IInv'
<1> SUFFICES ASSUME WordCalls, IInv, SendRegion PROVE IInv' OBVIOUS
<1>0. Reserve /\ UNCHANGED crcVars BY DEF SendRegion
<1>1. BaseInv' BY <1>0, ReserveInv DEF IInv
<1> DEFINE len == Head(todo)
<1>2. len \in RegionLengths /\ Tail(todo) \in Seq(RegionLengths)
  BY <1>0, HeadTailProperties DEF IInv, WordsAligned, Reserve
<1>3. /\ DOMAIN msg' = DOMAIN msg \cup {written}
      /\ msg'[written].len = len
      /\ \A p \in DOMAIN msg : p # written => msg'[p] = msg[p]
      /\ written' = written + len /\ todo' = Tail(todo)
      /\ UNCHANGED <<mem, posted, landed, rcvVars>>
  BY <1>0 DEF Reserve
<1> HIDE DEF len
<1>4. \A p \in DOMAIN msg : p # written /\ p \in Nat
  <2>1. SUFFICES ASSUME NEW p \in DOMAIN msg PROVE p # written /\ p \in Nat
    OBVIOUS
  <2>2. p \in Nat /\ p + msg[p].len <= written /\ msg[p].len \in Nat \ {0}
    BY RegionFacts DEF IInv
  <2>3. QED BY <2>2
<1>5. WordsAligned'
  <2>1. todo' \in Seq(RegionLengths) BY <1>2, <1>3
  <2>2. \A p \in DOMAIN msg' : msg'[p].len \in RegionLengths
    BY <1>2, <1>3, <1>4 DEF IInv, WordsAligned
  <2>3. (written + len) % Word = 0
    <3>1. written \in Nat /\ written % Word = 0
      BY PlaceFacts DEF IInv, WordsAligned, Boundaries
    <3>2. len \in Nat /\ len % Word = 0 BY <1>2, LengthFacts
    <3>3. QED BY <3>1, <3>2, SumOfWords
  <2>4. \A p \in (Boundaries \cup {freed, ackPos})' : p % Word = 0
    BY <1>3, <2>3 DEF IInv, WordsAligned, Boundaries, rcvVars
  <2>5. QED BY <2>1, <2>2, <2>4 DEF WordsAligned
<1>6. InPart'
  <2>1. landed < posted => landed \in DOMAIN msg BY NextIsRegion DEF IInv
  <2>2. landed < posted => msg'[landed] = msg[landed] BY <1>3, <1>4, <2>1
  <2>3. QED BY <1>0, <1>3, <2>2 DEF IInv, InPart, crcVars
<1>7. \A p \in DOMAIN msg : p \in DOMAIN msg' /\ msg'[p] = msg[p]
  BY <1>3, <1>4
<1>8. QED BY <1>0, <1>1, <1>3, <1>5, <1>6, <1>7, CrcKept DEF rcvVars

\* The writes of a call are posted; none of their bytes is there yet unless
\* they joined writes under way.
LEMMA PostInv == WordCalls /\ IInv /\ Post => IInv'
<1> SUFFICES ASSUME WordCalls, IInv, Post PROVE IInv' OBVIOUS
<1>1. BaseInv' BY PostCallInv DEF IInv, Post
<1>2. /\ UNCHANGED <<crcVars, rcvVars, mem, msg, landed, written, todo>>
      /\ posted' = written
  BY DEF Post, PostCall
<1>3. WordsAligned'
  BY <1>2 DEF IInv, WordsAligned, Boundaries, rcvVars
<1>4. InPart'
  <2>1. landed < posted => landed < posted'
    BY <1>2, PlaceFacts DEF IInv
  <2>2. ASSUME ~(landed < posted), landed' < posted'
        PROVE  arrived = {} /\ 0 \in 0 .. msg'[landed].len - 1
    <3>1. arrived = {} BY <2>2 DEF IInv, InPart
    <3>2. landed \in DOMAIN msg
      <4>1. landed \in Boundaries BY NextIsRegion DEF IInv
      <4>2. QED BY <1>2, <2>2, <4>1, PlaceFacts DEF IInv, Boundaries
    <3>3. msg[landed].len \in Nat \ {0} BY <3>2, RegionFacts DEF IInv
    <3>4. QED BY <1>2, <3>1, <3>3
  <2>3. QED BY <1>2, <2>1, <2>2 DEF IInv, InPart, crcVars
<1>5. QED BY <1>1, <1>2, <1>3, <1>4, CrcKept DEF rcvVars

-----------------------------------------------------------------------------
(* Receive *)

\* What Receive keeps while it looks at the next region.
LEMMA LookKept ==
  ASSUME IInv, UNCHANGED <<baseVars, arrived, lengths, wiping>>,
         seen' \in 0 .. Length - 1, checked' \in BOOLEAN, SeenNext'
  PROVE  IInv'
<1> USE DEF baseVars, sndVars, wireVars, rcvVars
<1>1. BaseInv'
  <2>1. BaseInv /\ mem' \in [Offsets -> Nat \cup {-1}]
    BY DEF IInv, BaseInv, BaseTypeOK
  <2>2. QED BY <2>1, BaseKept
<1>2. TypeOK' BY <1>1 DEF IInv, TypeOK, BaseInv
<1>3. WordsAligned' BY DEF IInv, WordsAligned, Boundaries
<1>4. InPart' BY DEF IInv, InPart
<1>5. RingExact' BY DEF IInv, RingExact, Filled, Arrived, Held, Unwiped
<1>6. LengthsKept' BY DEF IInv, LengthsKept
<1>7. WipesFreed' BY DEF IInv, WipesFreed
<1>8. QED BY <1>1, <1>2, <1>3, <1>4, <1>5, <1>6, <1>7 DEF IInv

\* What Receive takes for a length is the length of the region sent next.
LEMMA NoticeInv == WordCalls /\ IInv /\ Notice => IInv'
<1> SUFFICES ASSUME WordCalls, IInv, Notice PROVE IInv' OBVIOUS
<1>1. PICK len \in LengthsAt(readPtr) : seen' = len BY DEF Notice
<1>2. ~IsZero(readPtr) BY <1>1 DEF LengthsAt
<1>3. /\ Arrived(read) /\ read \in DOMAIN msg
      /\ \A i \in 0 .. 2 * Word - 1 : Cell(readPtr, i) = read + i
  BY <1>2, HeadWord
<1>4. IsLengthOf(read, readPtr) /\ Cell(readPtr, 0) = read
  <2>1. read \in Nat BY WindowFacts
  <2>2. \A i \in 0 .. Word - 1 : i \in 0 .. 2 * Word - 1 BY WordAssumption
  <2>3. 0 \in 0 .. 2 * Word - 1 BY WordAssumption
  <2>4. Cell(readPtr, 0) = read BY <1>3, <2>1, <2>3
  <2>5. QED BY <1>3, <2>2, <2>4 DEF IsLengthOf
<1>5. seen' = msg[read].len BY <1>1, <1>2, <1>3, <1>4 DEF LengthsAt
<1>6. msg[read].len \in 0 .. Length - 1
  BY <1>3, LengthFacts, LengthAssumption DEF IInv, WordsAligned
<1>7. UNCHANGED <<baseVars, arrived, lengths, wiping>> /\ checked' = FALSE
  BY DEF Notice
<1>8. SeenNext'
  BY <1>3, <1>5, <1>7
  DEF SeenNext, Arrived, baseVars, wireVars, rcvVars
<1>9. QED BY <1>5, <1>6, <1>7, <1>8, LookKept

\* The CRC is computed.
LEMMA ComputeInv == IInv /\ Compute => IInv'
<1> SUFFICES ASSUME IInv, Compute PROVE IInv' OBVIOUS
<1>1. UNCHANGED <<baseVars, arrived, seen, lengths, wiping>> /\ checked' = TRUE
  BY DEF Compute
<1>2. SeenNext'
  BY <1>1 DEF IInv, SeenNext, Arrived, baseVars, wireVars, rcvVars
<1>3. seen' \in 0 .. Length - 1 BY <1>1 DEF IInv, TypeOK
<1>4. QED BY <1>1, <1>2, <1>3, LookKept

\* The comparison fails until all bytes of the region are in memory: a checksum
\* word that arrived is not zero, and a byte that did not arrive is.
LEMMA PassesWhole ==
  ASSUME IInv, WordCalls, seen # 0, Passes(readPtr, seen)
  PROVE  /\ read \in DOMAIN msg /\ seen = msg[read].len
         /\ read + msg[read].len <= landed
<1>0. readPtr = read % Length BY DEF IInv, BaseInv, OffsetsMatch
<1>1. /\ read \in DOMAIN msg /\ seen = msg[read].len /\ Arrived(read)
      /\ \A i \in 0 .. 2 * Word - 1 : Cell(readPtr, i) = read + i
  BY HeadWord DEF IInv, SeenNext
<1>2. /\ {ackPos, freed, read, landed, posted, written} \subseteq Nat
      /\ ackPos <= read /\ read <= landed /\ landed < ackPos + Length
  BY WindowFacts
<1>3. Word \in Nat \ {0} /\ Length \in Nat \ {0}
  BY WordAssumption, LengthAssumption
<1>4. checked
  <2>1. SUFFICES ASSUME IsZero((readPtr + Word) % Length) PROVE FALSE
    BY DEF Passes
  <2>2. Cell((readPtr + Word) % Length, 0) = -1
    BY <1>3, <2>1 DEF IsZero
  <2>3. /\ readPtr + Word \in Nat /\ 0 \in 0 .. Length
        /\ Word \in 0 .. 2 * Word - 1
    <3>1. readPtr \in 0 .. Length - 1
      BY <1>0, <1>2, PlaceOffset DEF Offsets
    <3>2. QED BY ONLY <1>3, <3>1
  <2>4. Cell((readPtr + Word) % Length, 0) = Cell(readPtr, Word)
    <3>1. Cell((readPtr + Word) % Length, 0) = mem[((readPtr + Word) + 0) % Length]
      BY <2>3, CellOf
    <3>2. (readPtr + Word) + 0 = readPtr + Word BY <2>3
    <3>3. QED BY <3>1, <3>2 DEF Cell
  <2>5. QED BY <1>1, <1>2, <1>3, <2>2, <2>3, <2>4
<1>5. \A i \in 0 .. seen - 1 : Cell(readPtr, i) = read + i
  <2>1. PICK p \in DOMAIN msg :
          /\ IsLengthOf(p, readPtr)
          /\ \A i \in 0 .. seen - 1 : Cell(readPtr, i) = p + i
    BY <1>4 DEF Passes, Verified
  <2>2. p + 0 = read + 0
    <3>1. 0 \in 0 .. Word - 1 /\ 0 \in 0 .. 2 * Word - 1 BY <1>3
    <3>2. QED BY <1>1, <2>1, <3>1 DEF IsLengthOf
  <2>3. p \in Nat BY RegionFacts DEF IInv
  <2>4. p = read BY <1>2, <2>2, <2>3
  <2>5. QED BY <2>1, <2>4
<1>6. CASE read < landed
  <2>1. landed \in Boundaries BY NextIsRegion DEF IInv
  <2>2. read + msg[read].len <= landed
    BY <1>1, <1>6, <2>1, RegionFacts DEF IInv
  <2>3. QED BY <1>1, <2>2
<1>7. CASE read = landed
  <2>1. landed < posted
    <3>1. 0 \in arrived BY <1>1, <1>2, <1>7 DEF Arrived
    <3>2. QED BY <3>1 DEF IInv, InPart
  <2>2. /\ landed + msg[landed].len < ackPos + Length
        /\ msg[landed].len \in 1 .. Length - 1
    BY <2>1, LandingFacts, LengthFacts
  <2>3. ASSUME NEW i \in 0 .. msg[landed].len - 1 PROVE i \in arrived
    <3> DEFINE b == read + i
    <3>1. /\ b \in ackPos .. ackPos + Length - 1 /\ read <= b
          /\ b - landed = i /\ ~(b < landed) /\ i \in 0 .. Length /\ b # -1
          /\ i \in 0 .. msg[landed].len - 1 /\ b \in Nat
      BY ONLY <1>2, <1>3, <1>7, <2>2, i \in 0 .. msg[landed].len - 1
    <3>2. Cell(readPtr, i) = b BY <1>1, <1>5, <1>7, <3>1
    <3>3. mem[b % Length] = b BY <1>0, <1>2, <3>1, <3>2, CellOf
    <3> HIDE DEF b
    <3>4. Filled(b) BY <3>1, <3>3 DEF IInv, RingExact
    <3>5. ~Held(b) /\ ~Unwiped(b) BY <3>1, NothingBeyondRead
    <3>6. Arrived(b) BY <3>4, <3>5 DEF Filled
    <3>7. QED BY <3>1, <3>6 DEF Arrived
  <2>4. arrived = 0 .. msg[landed].len - 1
    BY <2>1, <2>3 DEF IInv, InPart
  <2>5. QED BY <2>1, <2>4 DEF IInv, InPart
<1>8. QED BY <1>2, <1>6, <1>7

\* Receive takes the region at the read pointer, which has landed.
LEMMA ReceivesNext ==
  ASSUME IInv, WordCalls, Receive
  PROVE  /\ read \in DOMAIN msg /\ read + msg[read].len <= landed
         /\ seen = msg[read].len /\ ReadRegion(msg[read].len)
BY PassesWhole DEF Receive

\* The comparison succeeds, and the region is handed out.
LEMMA ReceiveInv == WordCalls /\ IInv /\ Receive => IInv'
<1> SUFFICES ASSUME WordCalls, IInv, Receive PROVE IInv' OBVIOUS
<1> DEFINE len == msg[read].len
<1>1. /\ seen # 0 /\ ReadRegion(seen) /\ seen' = 0 /\ checked' = FALSE
      /\ lengths' = [k \in DOMAIN lengths \cup {read} |->
                       IF k = read THEN seen ELSE lengths[k]]
      /\ UNCHANGED <<sndVars, wireVars, mem, ackQ, rpc, freed, ackPos,
                     arrived, wiping>>
  BY DEF Receive, ReadRegion
<1>2. /\ read \in DOMAIN msg /\ seen = len
      /\ read + len <= landed
  BY ReceivesNext
<1>3. /\ BaseInv' /\ read' = read + len
      /\ DOMAIN outstanding' = DOMAIN outstanding \cup {read}
  BY <1>1, <1>2, ReadRegionInv DEF IInv
<1>4. /\ read \in Nat /\ landed \in Nat /\ len \in 1 .. Length - 1
      /\ len \in RegionLengths
  <2>1. len \in RegionLengths BY <1>2 DEF IInv, WordsAligned
  <2>2. QED BY <2>1, WindowFacts, LengthFacts
<1> HIDE DEF len
<1>5. TypeOK'
  <2>1. BaseTypeOK' BY <1>3 DEF BaseInv
  <2>2. DOMAIN lengths' = DOMAIN lengths \cup {read} BY <1>1
  <2>3. lengths' \in [DOMAIN lengths' -> 1 .. Length - 1]
    BY <1>1, <1>2, <1>4, <2>2 DEF IInv, TypeOK
  <2>4. DOMAIN lengths' \subseteq Nat BY <1>4, <2>2 DEF IInv, TypeOK
  <2>5. seen' \in 0 .. Length - 1 BY <1>1, LengthAssumption
  <2>6. QED BY <1>1, <2>1, <2>3, <2>4, <2>5 DEF IInv, TypeOK
<1>6. WordsAligned'
  BY <1>1 DEF IInv, WordsAligned, Boundaries, sndVars, wireVars
<1>7. InPart' BY <1>1 DEF IInv, InPart, wireVars
<1>8. RingExact'
  <2>1. SUFFICES ASSUME NEW b \in ackPos .. ackPos + Length - 1
                 PROVE  mem[b % Length] = IF Filled(b)' THEN b ELSE -1
    BY <1>1 DEF RingExact
  <2>2. b \in Nat
    <3>1. ackPos \in Nat BY WindowFacts
    <3>2. QED BY <3>1, LengthAssumption
  <2>3. Arrived(b)' <=> Arrived(b) BY <1>1 DEF Arrived, wireVars
  <2>4. Unwiped(b)' <=> Unwiped(b) BY <1>1 DEF Unwiped
  <2>5. Held(b)' <=> Held(b) \/ (read <= b /\ b < read + len)
    BY <1>1, <1>3 DEF Held, wireVars, len
  <2>6. read <= b /\ b < read + len => Arrived(b)
    BY <1>2, <1>4, <2>2 DEF Arrived
  <2>7. read + len <= b => read <= b BY <1>4, <2>2
  <2>8. read <= b /\ ~(read + len <= b) => b < read + len BY <1>4, <2>2
  <2>9. Filled(b)' <=> Filled(b)
    BY <1>3, <2>3, <2>4, <2>5, <2>6, <2>7, <2>8 DEF Filled
  <2>10. QED BY <2>1, <2>9 DEF IInv, RingExact
<1>9. LengthsKept'
  BY <1>1, <1>2, <1>3 DEF IInv, LengthsKept, wireVars, len
<1>10. WipesFreed'
  <2>1. SUFFICES ASSUME NEW o \in DOMAIN wiping
                 PROVE  (/\ rpc = "ack"
                         /\ \E w \in DOMAIN msg \ DOMAIN outstanding :
                              /\ o = w % Length /\ wiping[o] = msg[w].len
                              /\ ackPos <= w /\ w + msg[w].len <= read)'
    BY <1>1 DEF WipesFreed
  <2>2. PICK w \in DOMAIN msg \ DOMAIN outstanding :
          /\ o = w % Length /\ wiping[o] = msg[w].len
          /\ ackPos <= w /\ w + msg[w].len <= read
    BY DEF IInv, WipesFreed
  <2>3. w \in Nat /\ msg[w].len \in Nat \ {0} BY RegionFacts DEF IInv
  <2>4. w # read /\ w + msg[w].len <= read + len
    BY ONLY <1>4, <2>2, <2>3, LengthAssumption
  <2>5. w \in DOMAIN msg \ DOMAIN outstanding' BY <1>3, <2>4
  <2>6. rpc = "ack" BY DEF IInv, WipesFreed
  <2>7. QED BY <1>1, <1>3, <2>2, <2>4, <2>5, <2>6 DEF wireVars
<1>11. SeenNext' BY <1>1 DEF SeenNext
<1>12. QED
  BY <1>3, <1>5, <1>6, <1>7, <1>8, <1>9, <1>10, <1>11 DEF IInv

-----------------------------------------------------------------------------
(* Free *)

\* Free starts: the bytes of the region are not held any more, but they wait to
\* be cleared.
LEMMA FreeStartInv == WordCalls /\ IInv /\ FreeStart => IInv'
<1> SUFFICES ASSUME WordCalls, IInv, FreeStart PROVE IInv' OBVIOUS
<1>1. PICK k \in DOMAIN outstanding :
        /\ FreeRegion(k)
        /\ wiping' = [o \in {outstanding[k]} |-> lengths[k]]
        /\ lengths' = [j \in DOMAIN lengths \ {k} |-> lengths[j]]
  BY DEF FreeStart
<1>2. /\ seen = 0 /\ seen' = 0 /\ rpc = "idle" /\ rpc' = "ack"
      /\ UNCHANGED <<sndVars, wireVars, mem, ackQ, read, ackPos,
                     arrived, checked>>
  BY <1>1 DEF FreeStart, FreeRegion
<1>3. /\ BaseInv' /\ freed' \in {freed, read} \cup DOMAIN outstanding
      /\ DOMAIN outstanding' = DOMAIN outstanding \ {k}
      /\ \A j \in DOMAIN outstanding' : outstanding'[j] = outstanding[j]
  <2>1. freed' \in {freed, read} \cup DOMAIN outstanding
    BY <1>1 DEF FreeRegion, HeadAfterFree
  <2>2. QED BY <1>1, <2>1, FreeRegionInv DEF IInv
<1> DEFINE len == msg[k].len
<1>4. /\ k \in DOMAIN msg /\ outstanding[k] = k % Length /\ lengths[k] = len
      /\ k \in Nat /\ len \in RegionLengths /\ len \in 1 .. Length - 1
      /\ ackPos <= k /\ k + len <= read
      /\ k + len <= ackPos + Length /\ ackPos \in Nat
  <2>1. k \in DOMAIN msg /\ outstanding[k] = k % Length /\ freed <= k
        /\ k + len <= read
    BY HeldWithin DEF IInv
  <2>2. k \in Nat /\ len \in RegionLengths
    BY <2>1, RegionFacts DEF IInv, WordsAligned
  <2>3. len \in 1 .. Length - 1 BY <2>2, LengthFacts
  <2>4. lengths[k] = len BY DEF IInv, LengthsKept
  <2>5. /\ ackPos \in Nat /\ freed \in Nat /\ read \in Nat /\ landed \in Nat
        /\ ackPos <= freed /\ read <= landed /\ landed < ackPos + Length
    BY WindowFacts
  <2> HIDE DEF len
  <2>6. ackPos <= k /\ k + len <= ackPos + Length
    BY ONLY <2>1, <2>2, <2>3, <2>5, LengthAssumption
  <2>7. QED BY <2>1, <2>2, <2>3, <2>4, <2>5, <2>6
<1>5. DOMAIN wiping = {} BY <1>2 DEF IInv, WipesFreed
<1>6. DOMAIN wiping' = {k % Length} /\ wiping'[k % Length] = len
  BY <1>1, <1>4
<1> HIDE DEF len
<1>7. TypeOK'
  <2>1. BaseTypeOK' BY <1>3 DEF BaseInv
  <2>2. DOMAIN lengths' = DOMAIN lengths \ {k} BY <1>1
  <2>3. lengths' \in [DOMAIN lengths' -> 1 .. Length - 1]
    BY <1>1, <2>2 DEF IInv, TypeOK
  <2>4. DOMAIN lengths' \subseteq Nat BY <2>2 DEF IInv, TypeOK
  <2>5. wiping' \in [DOMAIN wiping' -> 1 .. Length - 1]
    BY <1>1, <1>4
  <2>6. DOMAIN wiping' \subseteq Offsets BY <1>4, <1>6, PlaceOffset
  <2>7. QED BY <1>2, <2>1, <2>3, <2>4, <2>5, <2>6 DEF IInv, TypeOK
<1>8. WordsAligned'
  <2>1. DOMAIN outstanding \subseteq DOMAIN msg BY HeldWithin DEF IInv
  <2>2. read \in Boundaries BY NextIsRegion DEF IInv
  <2>3. freed' % Word = 0
    BY <1>3, <2>1, <2>2 DEF IInv, WordsAligned, Boundaries
  <2>4. QED
    BY <1>2, <2>3 DEF IInv, WordsAligned, Boundaries, sndVars, wireVars
<1>9. InPart' BY <1>2 DEF IInv, InPart, wireVars
<1>10. RingExact'
  <2>1. SUFFICES ASSUME NEW b \in ackPos .. ackPos + Length - 1
                 PROVE  mem[b % Length] = IF Filled(b)' THEN b ELSE -1
    BY <1>2 DEF RingExact
  <2>2. b \in Nat /\ ackPos <= b /\ b < ackPos + Length
    BY <1>4, LengthAssumption
  <2>3. Arrived(b)' <=> Arrived(b) BY <1>2 DEF Arrived, wireVars
  <2>4. Held(b) <=> Held(b)' \/ (k <= b /\ b < k + len)
    BY <1>2, <1>3 DEF Held, wireVars, len
  <2>5. Unwiped(b)' <=> k <= b /\ b < k + len
    <3>1. Distance(k % Length, b % Length) < len <=> k <= b /\ b < k + len
      BY <1>4, <2>2, RegionCells
    <3>2. QED BY <1>6, <3>1 DEF Unwiped
  <2>6. ~Unwiped(b) BY <1>5 DEF Unwiped
  <2>7. Filled(b)' <=> Filled(b)
    BY <1>2, <2>3, <2>4, <2>5, <2>6 DEF Filled
  <2>8. QED BY <2>1, <2>7 DEF IInv, RingExact
<1>11. LengthsKept' BY <1>1, <1>2, <1>3 DEF IInv, LengthsKept, wireVars
<1>12. WipesFreed'
  BY <1>2, <1>3, <1>4, <1>6 DEF WipesFreed, wireVars, len
<1>13. SeenNext' BY <1>2 DEF SeenNext
<1>14. QED
  BY <1>3, <1>7, <1>8, <1>9, <1>10, <1>11, <1>12, <1>13 DEF IInv

\* The region is cleared, and no byte of another one.
LEMMA ClearInv == WordCalls /\ IInv /\ Clear => IInv'
<1> SUFFICES ASSUME WordCalls, IInv, Clear PROVE IInv' OBVIOUS
<1>1. /\ wiping' = [o \in {} |-> 0]
      /\ mem' = [c \in Offsets |->
                   IF \E o \in DOMAIN wiping : Distance(o, c) < wiping[o]
                   THEN -1 ELSE mem[c]]
      /\ UNCHANGED <<sndVars, wireVars, rcvVars, ackQ,
                     arrived, seen, checked, lengths>>
  BY DEF Clear
<1>2. DOMAIN wiping' = {} BY <1>1
<1>3. BaseInv'
  <2>1. mem' \in [Offsets -> Nat \cup {-1}]
    BY <1>1 DEF IInv, BaseInv, BaseTypeOK
  <2>2. QED BY <1>1, <2>1, BaseKept DEF IInv
<1>4. TypeOK'
  <2>1. wiping' \in [DOMAIN wiping' -> 1 .. Length - 1] BY <1>1
  <2>2. QED BY <1>1, <1>2, <1>3, <2>1 DEF IInv, TypeOK, BaseInv
<1>5. WordsAligned'
  BY <1>1 DEF IInv, WordsAligned, Boundaries, sndVars, wireVars, rcvVars
<1>6. InPart' BY <1>1 DEF IInv, InPart, wireVars
<1>7. RingExact'
  <2>1. SUFFICES ASSUME NEW b \in ackPos .. ackPos + Length - 1
                 PROVE  mem'[b % Length] = IF Filled(b)' THEN b ELSE -1
    BY <1>1 DEF RingExact, rcvVars
  <2>2. b \in Nat /\ b % Length \in Offsets
    <3>1. ackPos \in Nat BY WindowFacts
    <3>2. b \in Nat BY <3>1, LengthAssumption
    <3>3. QED BY <3>2, PlaceOffset
  <2>3. mem'[b % Length] = IF Unwiped(b) THEN -1 ELSE mem[b % Length]
    BY <1>1, <2>2 DEF Unwiped
  <2>4. Filled(b)' <=> (read <= b /\ Arrived(b)) \/ Held(b)
    <3>1. ~Unwiped(b)' BY <1>2 DEF Unwiped
    <3>2. Held(b)' <=> Held(b) BY <1>1 DEF Held, rcvVars, wireVars
    <3>3. Arrived(b)' <=> Arrived(b) BY <1>1 DEF Arrived, wireVars
    <3>4. QED BY <1>1, <3>1, <3>2, <3>3 DEF Filled, rcvVars
  <2>5. CASE Unwiped(b)
    <3>1. PICK w \in DOMAIN msg \ DOMAIN outstanding :
            w <= b /\ b < w + msg[w].len /\ w + msg[w].len <= read
      BY <2>5, UnwipedIs
    <3>2. /\ w \in Nat /\ msg[w].len \in Nat
          /\ \A q \in Boundaries : w < q => w + msg[w].len <= q
      BY RegionFacts DEF IInv
    <3>3. ~(read <= b)
      <4>1. read \in Nat BY WindowFacts
      <4>2. QED BY <2>2, <3>1, <3>2, <4>1
    <3>4. ~Held(b)
      <4>1. SUFFICES ASSUME NEW k \in DOMAIN outstanding,
                            k <= b, b < k + msg[k].len
                     PROVE  FALSE
        BY DEF Held
      <4>2. k \in DOMAIN msg /\ k # w BY <3>1, HeldWithin DEF IInv
      <4>3. /\ k \in Nat /\ msg[k].len \in Nat
            /\ \A q \in Boundaries : k < q => k + msg[k].len <= q
        BY <4>2, RegionFacts DEF IInv
      <4>4. (w < k => w + msg[w].len <= k) /\ (k < w => k + msg[k].len <= w)
        BY <3>2, <4>2, <4>3 DEF Boundaries
      <4>5. QED BY <2>2, <3>1, <3>2, <4>1, <4>2, <4>3, <4>4
    <3>5. QED BY <2>3, <2>4, <2>5, <3>3, <3>4
  <2>6. CASE ~Unwiped(b)
    <3>1. Filled(b)' <=> Filled(b) BY <2>4, <2>6 DEF Filled
    <3>2. QED BY <2>1, <2>3, <2>6, <3>1 DEF IInv, RingExact
  <2>7. QED BY <2>5, <2>6
<1>8. LengthsKept' BY <1>1 DEF IInv, LengthsKept, wireVars, rcvVars
<1>9. WipesFreed' BY <1>2 DEF WipesFreed
<1>10. SeenNext' BY <1>1 DEF IInv, SeenNext, Arrived, wireVars, rcvVars
<1>11. QED
  BY <1>3, <1>4, <1>5, <1>6, <1>7, <1>8, <1>9, <1>10 DEF IInv

\* The head is published.  What the sender may fill from now on is clear.
LEMMA FreeAckInv == WordCalls /\ IInv /\ FreeAck => IInv'
<1> SUFFICES ASSUME WordCalls, IInv, FreeAck PROVE IInv' OBVIOUS
<1>1. /\ wiping = [o \in {} |-> 0] /\ ackPos' = freed
      /\ UNCHANGED <<sndVars, wireVars, mem, outstanding, freed, read, crcVars>>
  BY DEF FreeAck, Acknowledge
<1>2. DOMAIN wiping = {} /\ DOMAIN wiping' = {}
  BY <1>1 DEF crcVars
<1>3. BaseInv' BY AcknowledgeInv DEF IInv, FreeAck
<1>4. TypeOK' BY <1>1, <1>3 DEF IInv, TypeOK, BaseInv, crcVars
<1>5. WordsAligned'
  BY <1>1 DEF IInv, WordsAligned, Boundaries, sndVars, wireVars
<1>6. InPart' BY <1>1 DEF IInv, InPart, wireVars, crcVars
<1>7. RingExact'
  <2>1. SUFFICES ASSUME NEW b \in freed .. freed + Length - 1
                 PROVE  mem[b % Length] = IF Filled(b)' THEN b ELSE -1
    BY <1>1 DEF RingExact
  <2>2. /\ {ackPos, freed, read, landed} \subseteq Nat
        /\ ackPos <= freed /\ freed <= read /\ read <= landed
        /\ landed < ackPos + Length
    BY WindowFacts
  <2>3. b \in Nat /\ ackPos <= b /\ freed <= b /\ b < freed + Length
    BY <2>1, <2>2, LengthAssumption
  <2>4. Filled(b)' <=> Filled(b)
    <3>1. ~Unwiped(b) /\ ~Unwiped(b)' BY <1>2 DEF Unwiped
    <3>2. Held(b)' <=> Held(b) BY <1>1 DEF Held, wireVars
    <3>3. Arrived(b)' <=> Arrived(b)
      BY <1>1 DEF Arrived, wireVars, crcVars
    <3>4. QED BY <1>1, <3>1, <3>2, <3>3 DEF Filled
  <2>5. CASE b < ackPos + Length
    <3>1. b \in ackPos .. ackPos + Length - 1
      BY <2>2, <2>3, <2>5, LengthAssumption
    <3>2. QED BY <2>4, <3>1 DEF IInv, RingExact
  <2>6. CASE ~(b < ackPos + Length)
    <3> DEFINE c == b - Length
    <3>1. /\ c \in ackPos .. ackPos + Length - 1 /\ c \in Nat /\ c < freed
          /\ c < read /\ c < landed /\ ~(read <= c) /\ c + Length = b
          /\ Length \in 0 .. Length
      BY <2>2, <2>3, <2>6, LengthAssumption
    <3> HIDE DEF c
    <3>2. b % Length = c % Length
      <4>1. c % Length \in Offsets /\ Length \in Nat \ {0}
        BY <3>1, PlaceOffset, LengthAssumption
      <4>2. (c + Length) % Length = IF (c % Length) + Length < Length
                                      THEN (c % Length) + Length
                                      ELSE (c % Length) + Length - Length
        BY <3>1, AddMod
      <4> DEFINE r == c % Length
      <4>3. r \in Nat BY <4>1 DEF Offsets
      <4> HIDE DEF r
      <4>4. (IF r + Length < Length THEN r + Length ELSE r + Length - Length) = r
        BY <4>1, <4>3
      <4>5. QED BY <3>1, <4>2, <4>4 DEF r
    <3>3. ~Held(c)
      <4>1. SUFFICES ASSUME NEW k \in DOMAIN outstanding, k <= c PROVE FALSE
        BY DEF Held
      <4>2. k \in DOMAIN msg /\ freed <= k BY HeldWithin DEF IInv
      <4>3. k \in Nat BY <4>2, RegionFacts DEF IInv
      <4>4. QED BY ONLY <2>2, <3>1, <4>1, <4>2, <4>3
    <3>4. ~Unwiped(c) BY <1>2 DEF Unwiped
    <3>5. mem[c % Length] = -1
      BY <3>1, <3>3, <3>4 DEF IInv, RingExact, Filled
    <3>6. ~Arrived(b)
      <4>1. landed < b BY <2>2, <2>3, <2>6, LengthAssumption
      <4>2. ASSUME b - landed \in arrived PROVE FALSE
        <5>1. landed < posted BY <4>2 DEF IInv, InPart
        <5>2. b - landed \in 0 .. msg[landed].len - 1
          BY <4>2, <5>1 DEF IInv, InPart
        <5>3. /\ landed + msg[landed].len < ackPos + Length
              /\ msg[landed].len \in Nat
          BY <5>1, LandingFacts, LengthFacts
        <5>4. QED BY ONLY <2>2, <2>3, <2>6, <5>2, <5>3, LengthAssumption
      <4>3. QED BY <2>2, <2>3, <4>1, <4>2 DEF Arrived
    <3>7. ~Held(b)
      <4>1. SUFFICES ASSUME NEW k \in DOMAIN outstanding, b < k + msg[k].len
                     PROVE  FALSE
        BY DEF Held
      <4>2. k \in DOMAIN msg /\ k + msg[k].len <= landed
        BY HeldWithin DEF IInv
      <4>3. k \in Nat /\ msg[k].len \in Nat BY <4>2, RegionFacts DEF IInv
      <4>4. QED BY ONLY <2>2, <2>3, <2>6, <4>1, <4>2, <4>3, LengthAssumption
    <3>8. ~Unwiped(b) BY <1>2 DEF Unwiped
    <3>9. QED BY <2>4, <3>2, <3>5, <3>6, <3>7, <3>8 DEF Filled
  <2>7. QED BY <2>5, <2>6
<1>8. LengthsKept' BY <1>1 DEF IInv, LengthsKept, wireVars, crcVars
<1>9. WipesFreed' BY <1>2 DEF WipesFreed
<1>10. SeenNext' BY <1>1 DEF IInv, SeenNext, Arrived, wireVars, crcVars
<1>11. QED
  BY <1>3, <1>4, <1>5, <1>6, <1>7, <1>8, <1>9, <1>10 DEF IInv

-----------------------------------------------------------------------------
(* The network *)

\* A piece of the write that is executed arrives, be it the last or not.
LEMMA LandInv == ~TornHeaders /\ WordCalls /\ IInv /\ Land => IInv'
<1> SUFFICES ASSUME ~TornHeaders, WordCalls, IInv, Land PROVE IInv' OBVIOUS
<1> DEFINE len == msg[landed].len
<1> DEFINE here(o) == Distance(msg[landed].off, o)
<1>1. PICK piece \in Pieces(len) :
        LET now   == arrived \cup piece
            whole == now = 0 .. len - 1
        IN  /\ mem' = [o \in Offsets |->
                         IF here(o) \in piece THEN landed + here(o) ELSE mem[o]]
            /\ arrived' = IF whole THEN {} ELSE now
            /\ landed' = IF whole THEN landed + len ELSE landed
  BY DEF Land
<1>2. /\ landed < posted
      /\ UNCHANGED <<sndVars, msg, posted, rcvVars, ackQ,
                     seen, checked, lengths, wiping>>
  BY DEF Land
<1> DEFINE now == arrived \cup piece
<1> DEFINE whole == now = 0 .. len - 1
<1>3. /\ landed \in DOMAIN msg /\ msg[landed].off = landed % Length
      /\ len \in RegionLengths /\ len \in 1 .. Length - 1 /\ 2 * Word <= len
      /\ landed + len \in Boundaries /\ landed + len <= posted
      /\ landed + len < ackPos + Length
  BY <1>2, LandingFacts, LengthFacts
<1>4. /\ {ackPos, read, landed, posted, written} \subseteq Nat
      /\ ackPos <= read /\ read <= landed /\ posted <= written
      /\ landed < ackPos + Length
      /\ Word \in Nat \ {0} /\ Length \in Nat \ {0}
  BY WindowFacts, WordAssumption, LengthAssumption
<1>5. /\ mem' = [o \in Offsets |->
                   IF here(o) \in piece THEN landed + here(o) ELSE mem[o]]
      /\ whole => arrived' = {} /\ landed' = landed + len
      /\ ~whole => arrived' = now /\ landed' = landed
  BY <1>1
<1> HIDE DEF len
<1>6. /\ piece \subseteq 0 .. len - 1
      /\ \A i \in 0 .. 2 * Word - 1 : i \in piece <=> 0 \in piece
  <2>1. CASE piece = 0 .. 2 * Word - 1
    <3>1. 0 .. 2 * Word - 1 \subseteq 0 .. len - 1
      BY ONLY <1>3, <1>4
    <3>2. 0 \in 0 .. 2 * Word - 1 BY <1>4
    <3>3. QED BY <2>1, <3>1, <3>2
  <2>2. CASE \E i \in 2 * Word .. len - 1 : piece = {i}
    <3>1. PICK j \in 2 * Word .. len - 1 : piece = {j} BY <2>2
    <3>2. j \in 0 .. len - 1 /\ j # 0 /\ \A i \in 0 .. 2 * Word - 1 : i # j
      BY ONLY <1>3, <1>4, <3>1
    <3>3. QED BY <3>1, <3>2
  <2>3. QED BY <1>1, <2>1, <2>2 DEF Pieces
<1>7. now \subseteq 0 .. len - 1
  BY <1>2, <1>6 DEF IInv, InPart, len
<1>8. BaseInv'
  <2>1. mem' \in [Offsets -> Nat \cup {-1}]
    <3>1. ASSUME NEW o \in Offsets, here(o) \in piece
          PROVE  landed + here(o) \in Nat
      <4>1. here(o) \in 0 .. len - 1 BY <1>6, <3>1
      <4> HIDE DEF here
      <4>2. QED BY ONLY <1>3, <1>4, <4>1
    <3>2. \A o \in Offsets : mem[o] \in Nat \cup {-1}
      BY DEF IInv, BaseInv, BaseTypeOK
    <3> HIDE DEF here
    <3>3. QED BY <1>5, <3>1, <3>2
  <2>2. CASE whole BY <1>2, <1>5, <2>1, <2>2, LandedInv DEF IInv, len
  <2>3. CASE ~whole
    BY <1>2, <1>5, <2>1, <2>3, BaseKept DEF IInv, wireVars
  <2>4. QED BY <2>2, <2>3
<1>9. TypeOK'
  <2>1. arrived' \subseteq 0 .. Length - 1
    <3>1. 0 .. len - 1 \subseteq 0 .. Length - 1 BY ONLY <1>3, <1>4
    <3>2. QED BY <1>5, <1>7, <3>1
  <2>2. QED BY <1>2, <1>8, <2>1 DEF IInv, TypeOK, BaseInv
<1>10. WordsAligned'
  BY <1>2 DEF IInv, WordsAligned, Boundaries, sndVars, rcvVars
<1>11. InPart'
  <2>1. CASE whole
    <3>1. ASSUME landed' < posted
          PROVE  0 \in 0 .. msg[landed'].len - 1
      <4>1. landed' \in DOMAIN msg
        BY <1>3, <1>4, <1>5, <2>1, <3>1 DEF Boundaries
      <4>2. msg[landed'].len \in RegionLengths
        BY <4>1 DEF IInv, WordsAligned
      <4>3. QED BY <4>2, LengthFacts
    <3>2. QED BY <1>2, <1>5, <2>1, <3>1 DEF InPart
  <2>2. CASE ~whole
    <3>1. \A i \in 0 .. 2 * Word - 1 : i \in now <=> 0 \in now
      BY <1>6 DEF IInv, InPart
    <3>2. QED BY <1>2, <1>5, <1>7, <2>2, <3>1 DEF InPart, len
  <2>3. QED BY <2>1, <2>2
<1>12. ASSUME NEW b \in Nat
       PROVE  Arrived(b)' <=> Arrived(b) \/ b - landed \in piece
  <2>1. CASE whole
    <3>1. Arrived(b)' <=> b < landed + len BY <1>5, <2>1 DEF Arrived
    <3>2. b - landed \in 0 .. len - 1 <=> landed <= b /\ b < landed + len
      BY ONLY <1>3, <1>4, b \in Nat
    <3>3. b < landed + len <=> b < landed \/ b - landed \in 0 .. len - 1
      BY ONLY <1>3, <1>4, b \in Nat
    <3>4. QED BY <2>1, <3>1, <3>3 DEF Arrived
  <2>2. CASE ~whole BY <1>5, <2>2 DEF Arrived
  <2>3. QED BY <2>1, <2>2
<1>13. RingExact'
  <2>1. SUFFICES ASSUME NEW b \in ackPos .. ackPos + Length - 1
                 PROVE  mem'[b % Length] = IF Filled(b)' THEN b ELSE -1
    BY <1>2 DEF RingExact, rcvVars
  <2>2. /\ b \in Nat /\ b % Length \in Offsets
        /\ ackPos <= b /\ b < ackPos + Length
    <3>1. b \in Nat /\ ackPos <= b /\ b < ackPos + Length BY <1>4
    <3>2. QED BY <3>1, PlaceOffset
  <2> DEFINE d == Distance(landed % Length, b % Length)
  <2>3. /\ d < len <=> (landed <= b /\ b < landed + len)
        /\ d < len => landed + d = b
        /\ d \in Offsets
    <3>1. len \in Nat /\ landed + len <= ackPos + Length /\ ackPos <= landed
      BY <1>3, <1>4
    <3>2. QED BY <1>4, <2>2, <3>1, RegionCells
  <2>4. mem'[b % Length] = IF d \in piece THEN landed + d ELSE mem[b % Length]
    BY <1>3, <1>5, <2>2
  <2> HIDE DEF d
  <2>5. d \in piece <=> b - landed \in piece
    <3>1. d \in piece => d < len BY <1>3, <1>6
    <3>2. d < len => b - landed = d
      BY ONLY <1>4, <2>2, <2>3 DEF Offsets
    <3>3. b - landed \in 0 .. len - 1 => d < len
      BY ONLY <1>3, <1>4, <2>2, <2>3
    <3>4. QED BY <1>6, <3>1, <3>2, <3>3
  <2>6. Held(b)' <=> Held(b) BY <1>2 DEF Held, rcvVars
  <2>7. Unwiped(b)' <=> Unwiped(b) BY <1>2 DEF Unwiped
  <2>8. Filled(b)' <=> (read <= b /\ Arrived(b)') \/ Held(b) \/ Unwiped(b)
    BY <1>2, <2>6, <2>7 DEF Filled, rcvVars
  <2>9. CASE b - landed \in piece
    <3>1. d \in piece /\ d < len
      <4>1. d \in piece BY <2>5, <2>9
      <4>2. d \in 0 .. len - 1 BY <1>6, <4>1
      <4>3. QED BY <1>3, <4>1, <4>2
    <3>2. landed <= b /\ landed + d = b BY <2>3, <3>1
    <3>3. read <= b BY <1>4, <2>2, <3>2
    <3>4. Arrived(b)' BY <1>12, <2>2, <2>9
    <3>5. QED BY <2>4, <2>8, <3>1, <3>2, <3>3, <3>4
  <2>10. CASE b - landed \notin piece
    <3>1. mem'[b % Length] = mem[b % Length] BY <2>4, <2>5, <2>10
    <3>2. Arrived(b)' <=> Arrived(b) BY <1>12, <2>2, <2>10
    <3>3. QED BY <2>1, <2>8, <3>1, <3>2 DEF IInv, RingExact, Filled
  <2>11. QED BY <2>9, <2>10
<1>14. LengthsKept' BY <1>2 DEF IInv, LengthsKept, rcvVars
<1>15. WipesFreed' BY <1>2 DEF IInv, WipesFreed, rcvVars
<1>16. SeenNext'
  <2>1. Arrived(read) => Arrived(read)' BY <1>2, <1>4, <1>12 DEF rcvVars
  <2>2. QED BY <1>2, <2>1 DEF IInv, SeenNext, rcvVars
<1>17. QED
  BY <1>8, <1>9, <1>10, <1>11, <1>13, <1>14, <1>15, <1>16 DEF IInv

-----------------------------------------------------------------------------
\* The invariant is about everything the steps read and write.
LEMMA Stutter == IInv /\ UNCHANGED vars => IInv'
<1> SUFFICES ASSUME IInv, UNCHANGED vars PROVE IInv' OBVIOUS
<1> USE DEF vars, baseVars, sndVars, wireVars, rcvVars, crcVars
<1>1. BaseInv'
  <2>1. BaseInv /\ mem' \in [Offsets -> Nat \cup {-1}]
    BY DEF IInv, BaseInv, BaseTypeOK
  <2>2. QED BY <2>1, BaseKept
<1>2. WordsAligned' BY DEF IInv, WordsAligned, Boundaries
<1>3. InPart' BY DEF IInv, InPart
<1>4. QED BY <1>1, <1>2, <1>3, CrcKept

\* Every step preserves the invariant.
LEMMA StepInv == ~TornHeaders /\ WordCalls /\ IInv /\ [Next]_vars => IInv'
<1> SUFFICES ASSUME ~TornHeaders, WordCalls, IInv, [Next]_vars PROVE IInv'
  OBVIOUS
<1>1. CASE SendStart BY <1>1, SendStartInv
<1>2. CASE SendRegion BY <1>2, SendRegionInv
<1>3. CASE SendGet \/ GetHead \/ SendUpdate BY <1>3, HeadSteps
<1>4. CASE Post BY <1>4, PostInv
<1>5. CASE Land BY <1>5, LandInv
<1>6. CASE Notice BY <1>6, NoticeInv
<1>7. CASE Compute BY <1>7, ComputeInv
<1>8. CASE Receive BY <1>8, ReceiveInv
<1>9. CASE FreeStart BY <1>9, FreeStartInv
<1>10. CASE Clear BY <1>10, ClearInv
<1>11. CASE FreeAck BY <1>11, FreeAckInv
<1>12. CASE UNCHANGED vars BY <1>12, Stutter
<1>13. QED
  BY <1>1, <1>2, <1>3, <1>4, <1>5, <1>6, <1>7, <1>8, <1>9, <1>10, <1>11, <1>12
  DEF Next, Sender, Network, Receiver

\* What is held is whole, and what the receiver spins on is blank: both can be
\* read off the invariant.
LEMMA WhatTheReceiverSees == WordCalls /\ IInv => CrcInv
<1> SUFFICES ASSUME WordCalls, IInv PROVE CrcInv OBVIOUS
<1>1. TypeOK BY DEF IInv
<1>2. HeldWhole
  <2>1. SUFFICES ASSUME NEW k \in DOMAIN outstanding
                 PROVE  /\ k \in DOMAIN msg /\ lengths[k] = msg[k].len
                        /\ \A i \in 0 .. msg[k].len - 1 :
                             mem[(outstanding[k] + i) % Length] = k + i
    BY DEF HeldWhole, HeldIntact
  <2>2. /\ k \in DOMAIN msg /\ outstanding[k] = k % Length /\ freed <= k
        /\ k + msg[k].len <= read
    BY HeldWithin DEF IInv
  <2>3. lengths[k] = msg[k].len BY DEF IInv, LengthsKept
  <2>4. /\ k \in Nat /\ msg[k].len \in 1 .. Length - 1
        /\ {ackPos, freed, read, landed} \subseteq Nat
        /\ ackPos <= freed /\ read <= landed /\ landed < ackPos + Length
    BY <2>2, RegionFacts, LengthFacts, WindowFacts DEF IInv, WordsAligned
  <2>5. ASSUME NEW i \in 0 .. msg[k].len - 1
        PROVE  mem[(outstanding[k] + i) % Length] = k + i
    <3>1. /\ k + i \in ackPos .. ackPos + Length - 1 /\ i \in 0 .. Length
          /\ k <= k + i /\ k + i < k + msg[k].len
      BY ONLY <2>2, <2>4, i \in 0 .. msg[k].len - 1, LengthAssumption
    <3>2. Filled(k + i) BY <3>1 DEF Filled, Held
    <3>3. mem[(k + i) % Length] = k + i
      BY <3>1, <3>2 DEF IInv, RingExact
    <3>4. QED BY <2>2, <2>4, <3>1, <3>3, AddMod
  <2>6. QED BY <2>2, <2>3, <2>5
<1>3. NoPhantom
  <2>1. ASSUME read = landed, arrived = {} PROVE IsZero(readPtr)
    <3>1. ~Arrived(read)
      <4>1. read \in Nat BY WindowFacts
      <4>2. QED BY <2>1, <4>1 DEF Arrived
    <3>2. QED BY <3>1, HeadWord
  <2>2. seen # 0 => read \in DOMAIN msg /\ seen = msg[read].len
    BY DEF IInv, SeenNext
  <2>3. QED BY <2>1, <2>2 DEF NoPhantom
<1>4. QED BY <1>1, <1>2, <1>3 DEF CrcInv

-----------------------------------------------------------------------------
\* Every reachable state of WriteSender and WriteReceiver (tests/write/write.cpp)
\* with headers that arrive at once, in a ring and with regions of whole words,
\* satisfies the inductive invariant.
THEOREM Invariance ==
  ASSUME ~TornHeaders, WordCalls PROVE Spec => []IInv
<1>1. Init => IInv BY InitInv
<1>2. IInv /\ [Next]_vars => IInv' BY StepInv
<1>3. QED BY <1>1, <1>2, PTL DEF Spec

\* Receive returns whole messages with the length they were sent with, Free's
\* memset spares what is held, and the word Receive spins on is zero until the
\* next message arrives, however often the ring was used before.
THEOREM WholeAndBlank ==
  ASSUME ~TornHeaders, WordCalls PROVE Spec => []CrcInv
<1>1. Spec => []IInv BY Invariance
<1>2. IInv => CrcInv BY WhatTheReceiverSees
<1>3. QED BY <1>1, <1>2, PTL

-----------------------------------------------------------------------------
\* What each step is to the users of the channel: posting is Send, Receive is
\* Receive, Free is Free, and everything else is invisible.
LEMMA StepIsFifo ==
  WordCalls /\ IInv /\ IInv' /\ HeldIntact /\ HeldIntact' /\ [Next]_vars
    => [Fifo!Next]_(Fifo!vars)
<1> SUFFICES ASSUME WordCalls, IInv, IInv', HeldIntact, HeldIntact', [Next]_vars
             PROVE  [Fifo!Next]_(Fifo!vars)
  OBVIOUS
<1>0. BaseInv /\ BaseInv' BY DEF IInv
<1>1. CASE Post
  <2>1. Fifo!Send BY <1>0, <1>1, FifoSend DEF Post
  <2>2. QED BY <2>1 DEF Fifo!Next
<1>2. CASE Receive
  <2>1. Fifo!Receive BY <1>0, <1>2, ReceivesNext, FifoReceive
  <2>2. QED BY <2>1 DEF Fifo!Next
<1>3. CASE FreeStart
  <2>1. PICK k \in DOMAIN outstanding : FreeRegion(k) BY <1>3 DEF FreeStart
  <2>2. Fifo!Free BY <1>0, <2>1, FifoFree
  <2>3. QED BY <2>2 DEF Fifo!Next
<1>4. CASE SendRegion
  <2>1. UNCHANGED <<read, posted, outstanding>> /\ Reserve
    BY <1>4 DEF SendRegion, Reserve, rcvVars
  <2>2. QED BY <1>0, <2>1, FifoQuiet
<1>5. CASE \/ SendStart \/ SendGet \/ SendUpdate
           \/ Land \/ GetHead \/ Notice \/ Compute \/ Clear
           \/ FreeAck \/ UNCHANGED vars
  <2>1. UNCHANGED <<read, posted, outstanding, msg>>
    BY <1>5
    DEF SendStart, SendGet, SendUpdate, FreeAck, vars, baseVars,
        SendAsync, NeedHead, UpdateHead, AckRead, AckPoll, Acknowledge,
        Land, GetHead, Notice, Compute, Clear, rcvVars, wireVars
  <2>2. QED BY <1>0, <2>1, FifoQuiet
<1>6. QED
  BY <1>1, <1>2, <1>3, <1>4, <1>5 DEF Next, Sender, Network, Receiver

\* The connection is a FIFO channel as far as safety goes: messages come
\* in the order they were posted, whole, and stay until they are freed
\* (WriteSender, WriteReceiver).
THEOREM IsFifo == ASSUME ~TornHeaders, WordCalls PROVE Spec => Fifo!Safe
<1>1. Init => Fifo!Init BY FifoInit DEF Init
<1>2. Spec => []IInv BY Invariance
<1>3. IInv => HeldIntact BY WhatTheReceiverSees DEF CrcInv, HeldWhole
<1>4. IInv /\ IInv' /\ HeldIntact /\ HeldIntact' /\ [Next]_vars
        => [Fifo!Next]_(Fifo!vars)
  BY StepIsFifo
<1>5. QED BY <1>1, <1>2, <1>3, <1>4, PTL DEF Spec, Fifo!Safe
=============================================================================
