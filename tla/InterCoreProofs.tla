--------------------------- MODULE InterCoreProofs ---------------------------
(***************************************************************************)
(* Proofs about InterCore for every heap size, every pair of thresholds,   *)
(* every count ceiling, every set of messages and any number of calls.     *)
(***************************************************************************)
EXTENDS InterCore, SequenceTheorems, FiniteSetTheorems, WellFoundedInduction, TLAPS

\* Fields of a message and of an entry have the types the declarations give them.
LEMMA MessageFields ==
  ASSUME NEW m \in Messages
  PROVE  /\ m.kind \in Kinds
         /\ m.retention_priority \in RETENTION_PRIORITY_CRITICAL..RETENTION_PRIORITY_HEALTH
         /\ m.size \in Nat \ {0}
         /\ m.verdict \in Verdicts
         /\ m # NoEntry => m \in MessageType
  BY OutboundAssumption DEF MessageType

\* Removing one position of a sequence: length, elements and their order.
LEMMA RemoveAtProperties ==
  ASSUME NEW S, NEW s \in Seq(S), NEW i \in 1..Len(s)
  PROVE  /\ RemoveAt(s, i) \in Seq(S)
         /\ Len(RemoveAt(s, i)) = Len(s) - 1
         /\ \A k \in 1..(Len(s) - 1) :
              RemoveAt(s, i)[k] = IF k < i THEN s[k] ELSE s[k + 1]
  <1> DEFINE a == SubSeq(s, 1, i - 1)
             b == SubSeq(s, i + 1, Len(s))
  <1>1. a \in Seq(S) /\ Len(a) = i - 1 /\ \A k \in 1..(i - 1) : a[k] = s[k]
    OBVIOUS
  <1>2. b \in Seq(S) /\ Len(b) = Len(s) - i /\ \A k \in 1..(Len(s) - i) : b[k] = s[i + k]
    OBVIOUS
  <1> HIDE DEF a, b
  <1>3. a \o b \in Seq(S) /\ Len(a \o b) = Len(s) - 1
    <2>1. a \o b \in Seq(S) /\ Len(a \o b) = Len(a) + Len(b)
      BY <1>1, <1>2, ConcatProperties
    <2>2. Len(s) \in Nat /\ i \in Int
      OBVIOUS
    <2> QED BY <1>1, <1>2, <2>1, <2>2
  <1>4. ASSUME NEW k \in 1..(Len(s) - 1)
        PROVE  (a \o b)[k] = IF k < i THEN s[k] ELSE s[k + 1]
    <2>1. CASE k < i
      BY <1>1, <1>2, <2>1
    <2>2. CASE ~ (k < i)
      <3>1. (a \o b)[k] = b[k - (i - 1)]
        BY <1>1, <1>2, <2>2
      <3>2. k - (i - 1) \in 1..(Len(s) - i) /\ i + (k - (i - 1)) = k + 1
        BY <2>2
      <3> QED BY <1>2, <2>2, <3>1, <3>2
    <2> QED BY <2>1, <2>2
  <1> QED BY <1>3, <1>4 DEF RemoveAt, a, b

-----------------------------------------------------------------------------
(* Type correctness.  Inside a call Core 1 holds a message, the call has a   *)
(* number, and the payload it holds is part of the ambient heap.             *)

CallOK ==
    /\ pc1 # "idle" => call.msg \in Messages /\ puts > 0
    /\ PayloadInHand <= ambient

EvCallOK == pcEv # "idle" => evPuts > 0

TypeInv == TypeOK /\ CallOK /\ EvCallOK

\* Changing one counter of a record of counters.
LEMMA StatsUpdate ==
  ASSUME NEW s \in StatsType, NEW f \in StatFields, NEW v \in Int,
         f # "queued_bytes" => v >= 0
  PROVE  [s EXCEPT ![f] = v] \in StatsType
  BY DEF StatsType

\* Counting up by one, or not.
LEMMA StatsBump ==
  ASSUME NEW s \in StatsType, NEW f \in StatFields \ {"queued_bytes"}, NEW n \in Nat
  PROVE  [s EXCEPT ![f] = @ + n] \in StatsType
  <1>1. s[f] \in Int /\ s[f] >= 0
    BY DEF StatsType
  <1>2. s[f] + n \in Int /\ s[f] + n >= 0
    BY <1>1
  <1> QED BY <1>2, StatsUpdate

\* What displacement does, with the victim named.
LEMMA EvictFacts ==
  ASSUME OutTypeOK, EvictAndCollect
  PROVE  \E i \in 1..Len(queue) :
            /\ Victim(i)
            /\ queue[i] \in EntryType
            /\ queue' = RemoveAt(queue, i)
            /\ stats' = [stats EXCEPT
                  !.queued_bytes = @ - queue[i].size,
                  !.messages_evicted = @ + 1,
                  !.telemetry_evicted = @ + (IF queue[i].kind = "telemetry" THEN 1 ELSE 0)]
            /\ evicted' = evicted \cup {queue[i]}
            /\ call' = [call EXCEPT !.victims = @ \cup {queue[i]}]
            /\ free' = free + garbage + (queue[i].size + EntryOverhead)
            /\ garbage' = 0
            /\ UNCHANGED <<inFlight, ambient, admitted, finished>>
  <1>1. queue \in Seq(EntryType)
    BY DEF OutTypeOK
  <1>2. \A i \in DOMAIN queue : i \in 1..Len(queue) /\ queue[i] \in EntryType
    BY <1>1
  <1> QED BY <1>2 DEF EvictAndCollect, CollectWith

\* Everything displacement assigns stays in its domain.
LEMMA EvictTypes ==
  ASSUME HeapTypeOK, OutTypeOK, EvictAndCollect
  PROVE  /\ queue' \in Seq(EntryType)
         /\ stats' \in StatsType
         /\ evicted' \subseteq EntryType
         /\ call' \in CallType
         /\ call'.msg = call.msg
         /\ free' \in Nat /\ garbage' \in Nat
         /\ UNCHANGED <<inFlight, ambient, admitted, finished>>
  <1>1. PICK i \in 1..Len(queue) :
            /\ queue[i] \in EntryType
            /\ queue' = RemoveAt(queue, i)
            /\ stats' = [stats EXCEPT
                  !.queued_bytes = @ - queue[i].size,
                  !.messages_evicted = @ + 1,
                  !.telemetry_evicted = @ + (IF queue[i].kind = "telemetry" THEN 1 ELSE 0)]
            /\ evicted' = evicted \cup {queue[i]}
            /\ call' = [call EXCEPT !.victims = @ \cup {queue[i]}]
            /\ free' = free + garbage + (queue[i].size + EntryOverhead)
            /\ garbage' = 0
            /\ UNCHANGED <<inFlight, ambient, admitted, finished>>
    BY EvictFacts
  <1>2. queue[i].size \in Nat
    BY <1>1 DEF EntryType
  <1>3. queue' \in Seq(EntryType)
    <2>1. queue \in Seq(EntryType) /\ queue' = RemoveAt(queue, i)
      BY <1>1 DEF OutTypeOK
    <2> QED BY <2>1, RemoveAtProperties
  <1>4. stats' \in StatsType
    <2> DEFINE a == [stats EXCEPT !.queued_bytes = @ - queue[i].size]
               b == [a EXCEPT !.messages_evicted = @ + 1]
               n == IF queue[i].kind = "telemetry" THEN 1 ELSE 0
    <2>1. stats \in StatsType
      BY DEF OutTypeOK
    <2>2. a \in StatsType
      <3>1. "queued_bytes" \in StatFields
        BY DEF StatFields
      <3>2. stats.queued_bytes \in Int
        BY <2>1, <3>1 DEF StatsType
      <3>3. stats.queued_bytes - queue[i].size \in Int
        BY <3>2, <1>2
      <3> QED BY <2>1, <3>1, <3>3, StatsUpdate
    <2>3. b \in StatsType
      <3> HIDE DEF a
      <3>1. a.messages_evicted \in Int /\ a.messages_evicted >= 0
        BY <2>2 DEF StatsType, StatFields
      <3>2. a.messages_evicted + 1 \in Int /\ a.messages_evicted + 1 >= 0
        BY <3>1
      <3>3. "messages_evicted" \in StatFields
        BY DEF StatFields
      <3> QED BY <2>2, <3>2, <3>3, StatsUpdate
    <2>4. [b EXCEPT !.telemetry_evicted = @ + n] \in StatsType
      <3> HIDE DEF b
      <3>1. b.telemetry_evicted \in Int /\ b.telemetry_evicted >= 0
        BY <2>3 DEF StatsType, StatFields
      <3>2. n \in Nat
        OBVIOUS
      <3> HIDE DEF n
      <3>3. b.telemetry_evicted + n \in Int /\ b.telemetry_evicted + n >= 0
        BY <3>1, <3>2
      <3> QED BY <2>3, <3>3, StatsUpdate DEF StatFields
    <2>5. stats' = [b EXCEPT !.telemetry_evicted = @ + n]
      BY <1>1
    <2> QED BY <2>4, <2>5
  <1>5. free' \in Nat /\ garbage' \in Nat
    <2>1. free \in Nat /\ garbage \in Nat
      BY DEF HeapTypeOK
    <2>2. EntryOverhead \in Nat
      BY OutboundAssumption
    <2>3. free' = free + garbage + (queue[i].size + EntryOverhead) /\ garbage' = 0
      BY <1>1
    <2> HIDE <1>1
    <2> QED BY <1>2, <2>1, <2>2, <2>3
  <1>6. call' \in CallType /\ call'.msg = call.msg
    <2>1. call \in CallType /\ queue[i] \in EntryType
      BY <1>1 DEF OutTypeOK
    <2>2. call' = [call EXCEPT !.victims = @ \cup {queue[i]}]
      BY <1>1
    <2> QED BY <2>1, <2>2 DEF CallType
  <1>7. evicted' \subseteq EntryType
    BY <1>1 DEF OutTypeOK
  <1> QED BY <1>1, <1>3, <1>4, <1>5, <1>6, <1>7

\* The empty lanes and the free heap are in their domains.
LEMMA TypeInitially == Init => TypeInv
  <1> SUFFICES ASSUME Init PROVE TypeInv
    OBVIOUS
  <1>1. HeapTypeOK
    BY HeapAssumption DEF Init, HeapInit, HeapTypeOK
  <1>2. OutTypeOK
    BY OutboundAssumption
    DEF Init, OutInit, OutTypeOK, StatsType, StatFields, CallType, NoCall, PutSteps
  <1>3. EvTypeOK
    BY EventAssumption DEF Init, EvInit, EvTypeOK, EvSteps
  <1>4. CallOK
    BY <1>1 DEF Init, OutInit, CallOK, PayloadInHand, AdmissionSteps, HeapTypeOK
  <1>5. EvCallOK
    BY DEF Init, EvInit, EvCallOK
  <1> QED BY <1>1, <1>2, <1>3, <1>4, <1>5 DEF TypeInv, TypeOK

\* The message of a call has its size, and the empty call is a call.
LEMMA CallFacts ==
  ASSUME TypeInv
  PROVE  /\ HeapTypeOK /\ OutTypeOK /\ EvTypeOK /\ CallOK /\ EvCallOK
         /\ NoCall \in CallType
         /\ pc1 # "idle" => call.msg \in Messages /\ call.msg.size \in Nat \ {0}
         /\ \A m \in Messages : [NoCall EXCEPT !.msg = m] \in CallType
         /\ \A b \in BOOLEAN : [call EXCEPT !.gc = b] \in CallType
         /\ \A b \in BOOLEAN : [call EXCEPT !.floor = b] \in CallType
         /\ [call EXCEPT !.gc = FALSE, !.victims = {}] \in CallType
  <1>1. HeapTypeOK /\ OutTypeOK /\ EvTypeOK /\ CallOK /\ EvCallOK
    BY DEF TypeInv, TypeOK
  <1>2. NoCall \in CallType /\ \A m \in Messages : [NoCall EXCEPT !.msg = m] \in CallType
    BY DEF NoCall, CallType
  <1>3. pc1 # "idle" => call.msg \in Messages /\ call.msg.size \in Nat \ {0}
    BY <1>1, MessageFields DEF CallOK
  <1>4. call \in CallType
    BY <1>1 DEF OutTypeOK
  <1>5. /\ \A b \in BOOLEAN : [call EXCEPT !.gc = b] \in CallType
        /\ \A b \in BOOLEAN : [call EXCEPT !.floor = b] \in CallType
        /\ [call EXCEPT !.gc = FALSE, !.victims = {}] \in CallType
    BY <1>4 DEF CallType
  <1> QED BY <1>1, <1>2, <1>3, <1>5

\* gc.collect() keeps the heap quantities natural numbers.
LEMMA CollectTypes ==
  ASSUME HeapTypeOK, Collect, UNCHANGED <<ambient, heapLock>>
  PROVE  HeapTypeOK'
  BY DEF HeapTypeOK, Collect, CollectWith

\* A step of the outbound lane that displaces keeps the types.
LEMMA TypeEvictSteps ==
  ASSUME TypeInv, SerializeEvict \/ SoftEvict \/ CountRelief \/ Displace
  PROVE  HeapTypeOK' /\ OutTypeOK' /\ CallOK'
  <1>1. EvictAndCollect /\ UNCHANGED <<taken, puts, heapLock>> /\ pc1 # "idle" /\ pc1' # "idle"
    BY DEF SerializeEvict, SoftEvict, CountRelief, Displace
  <1>2. pc1' \in PutSteps /\ (pc1' \in AdmissionSteps \cup {"admit"}
                                => pc1 \in AdmissionSteps \cup {"admit"})
    BY CallFacts
    DEF SerializeEvict, SoftEvict, CountRelief, Displace, PutSteps, AdmissionSteps, OutTypeOK
  <1>3. HeapTypeOK' /\ OutTypeOK' /\ call'.msg = call.msg /\ ambient' = ambient
    BY <1>1, <1>2, EvictTypes, CallFacts DEF HeapTypeOK, OutTypeOK
  <1>4. CallOK'
    BY <1>1, <1>2, <1>3, CallFacts DEF CallOK, PayloadInHand, HeapTypeOK
  <1> QED BY <1>3, <1>4

\* The append that is kept: entry, counters and heap.
LEMMA TypeAppendKept ==
  ASSUME TypeInv, AppendKept
  PROVE  HeapTypeOK' /\ OutTypeOK' /\ CallOK'
  <1> DEFINE m == call.msg
             entry == [id |-> puts, kind |-> m.kind, retention_priority |-> m.retention_priority,
                       size |-> m.size]
             depth == DepthOf(queue) + 1
             bytes == stats.queued_bytes + m.size
  <1>1. /\ pc1 \in AppendSteps
        /\ free >= EntryOverhead
        /\ queue' = Append(queue, entry)
        /\ stats' = [stats EXCEPT
                        !.queued_bytes = bytes,
                        !.high_watermark = IF depth > @ THEN depth ELSE @,
                        !.high_watermark_bytes = IF bytes > @ THEN bytes ELSE @]
        /\ free' = free - EntryOverhead
        /\ ambient' = ambient - m.size
        /\ admitted' = admitted \cup {entry}
        /\ heapLock' = NoOwner
        /\ pc1' = "idle" /\ call' = NoCall
        /\ UNCHANGED <<inFlight, taken, puts, evicted, finished, garbage>>
    BY DEF AppendKept, Return
  <1>2. pc1 # "idle" /\ pc1 \in AdmissionSteps
    BY <1>1 DEF AppendSteps, AdmissionSteps
  <1>3. m \in Messages /\ m.size \in Nat \ {0} /\ m.size <= ambient /\ puts \in Nat \ {0}
    BY <1>2, CallFacts, OutboundAssumption DEF CallOK, PayloadInHand, OutTypeOK
  <1>4. entry \in EntryType
    BY <1>3, MessageFields DEF EntryType
  <1>5. HeapTypeOK'
    <2>1. free \in Nat /\ ambient \in Nat /\ garbage \in Nat /\ EntryOverhead \in Nat
      BY CallFacts, OutboundAssumption DEF HeapTypeOK
    <2>2. free - EntryOverhead \in Nat /\ ambient - m.size \in Nat
      BY <1>1, <1>3, <2>1
    <2> QED BY <1>1, <2>1, <2>2 DEF HeapTypeOK
  <1>6. stats' \in StatsType
    <2>1. stats \in StatsType /\ depth \in Nat
      BY CallFacts DEF OutTypeOK, DepthOf
    <2>2. /\ stats.queued_bytes \in Int
          /\ stats.high_watermark \in Nat
          /\ stats.high_watermark_bytes \in Nat
      BY <2>1 DEF StatsType, StatFields
    <2> DEFINE hw == IF depth > stats.high_watermark THEN depth ELSE stats.high_watermark
               hb == IF bytes > stats.high_watermark_bytes THEN bytes
                     ELSE stats.high_watermark_bytes
               a == [stats EXCEPT !.queued_bytes = bytes]
               b == [a EXCEPT !.high_watermark = hw]
    <2>3. bytes \in Int
      BY <1>3, <2>2
    <2>4. hw \in Int /\ hw >= 0 /\ hb \in Int /\ hb >= 0
      BY <2>1, <2>2, <2>3
    <2>5. stats' = [b EXCEPT !.high_watermark_bytes = hb]
      BY <1>1, <2>1 DEF StatsType, StatFields
    <2> HIDE DEF bytes, hw, hb
    <2>6. a \in StatsType
      BY <2>1, <2>3, StatsUpdate DEF StatFields
    <2> HIDE DEF a
    <2>7. b \in StatsType
      BY <2>4, <2>6, StatsUpdate DEF StatFields
    <2> HIDE DEF b
    <2> QED BY <2>4, <2>5, <2>7, StatsUpdate DEF StatFields
  <1>7. OutTypeOK'
    <2> HIDE DEF entry, depth, bytes
    <2>1. queue' \in Seq(EntryType) /\ admitted' \subseteq EntryType
      BY <1>1, <1>4, CallFacts DEF OutTypeOK
    <2> QED BY <1>1, <1>6, <2>1, CallFacts DEF OutTypeOK, PutSteps
  <1>8. CallOK'
    BY <1>1, <1>5 DEF CallOK, PayloadInHand, AdmissionSteps, HeapTypeOK
  <1> QED BY <1>5, <1>7, <1>8

\* So do all the other steps of a put() in progress.
LEMMA TypePutSteps ==
  ASSUME TypeInv, PutStep
  PROVE  HeapTypeOK' /\ OutTypeOK' /\ CallOK'
  <1> USE CallFacts DEF history, heapVars
  <1>1. CASE SerializeOk
    <2>1. HeapTypeOK' /\ ambient' >= call.msg.size
      BY <1>1 DEF SerializeOk, HeapTypeOK
    <2> QED BY <1>1, <2>1 DEF SerializeOk, OutTypeOK, CallOK, PayloadInHand, PutSteps
  <1>2. CASE SerializeRefused
    <2>1. stats' \in StatsType
      <3> DEFINE n == IF call.msg.verdict = "too_large" THEN 1 ELSE 0
                 k == IF call.msg.verdict = "unserializable" THEN 1 ELSE 0
                 a == [stats EXCEPT !.oversized_rejected = @ + n]
      <3>1. stats \in StatsType /\ stats' = [a EXCEPT !.serialization_rejected = @ + k]
        BY <1>2 DEF SerializeRefused, OutTypeOK
      <3>2. n \in Nat /\ k \in Nat
        OBVIOUS
      <3>3. {"oversized_rejected", "serialization_rejected"} \subseteq StatFields \ {"queued_bytes"}
        BY DEF StatFields
      <3> HIDE DEF n, k
      <3>4. a \in StatsType
        BY <3>1, <3>2, <3>3, StatsBump
      <3> HIDE DEF a
      <3> QED BY <3>1, <3>2, <3>3, <3>4, StatsBump
    <2> QED BY <1>2, <2>1 DEF SerializeRefused, Return, HeapTypeOK, OutTypeOK, CallOK,
                              PayloadInHand, PutSteps, AdmissionSteps
  <1>3. CASE SerializeCollect
    <2>1. HeapTypeOK'
      BY <1>3, CollectTypes DEF SerializeCollect
    <2>2. call'.msg = call.msg
      BY <1>3 DEF SerializeCollect, OutTypeOK, CallType
    <2> QED BY <1>3, <2>1, <2>2 DEF SerializeCollect, OutTypeOK, CallOK, PayloadInHand
  <1>4. CASE SerializeMemoryError
    BY <1>4 DEF SerializeMemoryError, Return, HeapTypeOK, OutTypeOK, CallOK, PayloadInHand,
                PutSteps, AdmissionSteps
  <1>5. CASE AcquireHeapLock
    <2>1. call'.msg = call.msg
      BY <1>5 DEF AcquireHeapLock, OutTypeOK, CallType
    <2> QED BY <1>5, <2>1 DEF AcquireHeapLock, HeapTypeOK, OutTypeOK, CallOK, PayloadInHand,
                              PutSteps, AdmissionSteps, Cores
  <1>6. CASE MeasurePreferred
    <2>1. HeapTypeOK'
      BY <1>6, CollectTypes DEF MeasurePreferred, HeapTypeOK
    <2>2. call' \in CallType /\ call'.msg = call.msg
      BY <1>6 DEF MeasurePreferred, OutTypeOK
    <2> QED BY <1>6, <2>1, <2>2 DEF MeasurePreferred, OutTypeOK, CallOK, PayloadInHand,
                                    PutSteps, AdmissionSteps
  <1>7. CASE SelectBand \/ MeasureFloor
    <2>1. call' \in CallType /\ call'.msg = call.msg
      <3>1. call \in CallType /\ (call.floor \/ ~ ReserveRestored) \in BOOLEAN
        BY DEF OutTypeOK, CallType, ReserveRestored
      <3>2. \E b \in BOOLEAN : call' = [call EXCEPT !.floor = b]
        BY <1>7, <3>1 DEF SelectBand, MeasureFloor
      <3> QED BY <3>1, <3>2 DEF CallType
    <2> QED BY <1>7, <2>1 DEF SelectBand, MeasureFloor, HeapTypeOK, OutTypeOK, CallOK,
                              PayloadInHand, PutSteps, AdmissionSteps
  <1>8. CASE SoftNothingEligible \/ CountFull
    BY <1>8 DEF SoftNothingEligible, CountFull, AfterFailure, HeapTypeOK, OutTypeOK, CallOK,
                PayloadInHand, PutSteps, AdmissionSteps
  <1>9. CASE AppendRolledBack
    <2>1. HeapTypeOK'
      BY <1>9, CollectTypes DEF AppendRolledBack
    <2>2. call' \in CallType /\ call'.msg = call.msg
      BY <1>9 DEF AppendRolledBack, OutTypeOK, CallType
    <2> QED BY <1>9, <2>1, <2>2 DEF AppendRolledBack, AfterFailure, AppendSteps, OutTypeOK,
                                    CallOK, PayloadInHand, PutSteps, AdmissionSteps
  <1>10. CASE AppendMemoryError
    BY <1>10 DEF AppendMemoryError, AppendSteps, Return, HeapTypeOK, OutTypeOK, CallOK,
                 PayloadInHand, PutSteps, AdmissionSteps
  <1>11. CASE Reject
    <2>1. stats' \in StatsType
      <3>1. stats \in StatsType /\ stats' = [stats EXCEPT !.messages_rejected = @ + 1]
        BY <1>11 DEF Reject, OutTypeOK
      <3>2. "messages_rejected" \in StatFields \ {"queued_bytes"}
        BY DEF StatFields
      <3> QED BY <3>1, <3>2, StatsBump
    <2> QED BY <1>11, <2>1 DEF Reject, Return, HeapTypeOK, OutTypeOK, CallOK, PayloadInHand,
                               PutSteps, AdmissionSteps
  <1> QED
    BY <1>1, <1>2, <1>3, <1>4, <1>5, <1>6, <1>7, <1>8, <1>9, <1>10, <1>11,
       TypeEvictSteps, TypeAppendKept DEF PutStep

\* The calls that begin a put().
LEMMA TypePutBegins ==
  ASSUME TypeInv, NEW m \in Messages, Put(m) \/ PutWithKind(m) \/ PutWithKindTooLarge(m)
  PROVE  HeapTypeOK' /\ OutTypeOK' /\ CallOK'
  <1> USE CallFacts DEF history, heapVars
  <1>1. m.size \in Nat \ {0} /\ MaxPuts \in Nat
    BY MessageFields, OutboundAssumption
  <1>2. puts < MaxPuts /\ puts' = puts + 1 /\ pc1 = "idle"
    BY DEF Put, PutWithKind, PutWithKindTooLarge
  <1>3. puts \in Nat /\ puts' \in 0..MaxPuts /\ puts' > 0
    BY <1>1, <1>2 DEF OutTypeOK
  <1>4. [NoCall EXCEPT !.msg = m].msg = m
    BY DEF NoCall
  <1>5. CASE Put(m)
    <2>1. call' \in CallType /\ call'.msg = m
      BY <1>4, <1>5 DEF Put
    <2> QED BY <1>3, <1>5, <2>1
        DEF Put, HeapTypeOK, OutTypeOK, CallOK, PayloadInHand, PutSteps, AdmissionSteps
  <1>6. CASE PutWithKind(m)
    <2>1. call' \in CallType /\ call'.msg = m
      BY <1>4, <1>6 DEF PutWithKind
    <2>2. HeapTypeOK' /\ ambient' >= m.size
      BY <1>1, <1>6 DEF PutWithKind, HeapTypeOK
    <2> QED BY <1>3, <1>6, <2>1, <2>2
        DEF PutWithKind, OutTypeOK, CallOK, PayloadInHand, PutSteps, AdmissionSteps
  <1>7. CASE PutWithKindTooLarge(m)
    <2>1. stats' \in StatsType
      <3>1. stats \in StatsType /\ stats' = [stats EXCEPT !.oversized_rejected = @ + 1]
        BY <1>7 DEF PutWithKindTooLarge, OutTypeOK
      <3>2. "oversized_rejected" \in StatFields \ {"queued_bytes"}
        BY DEF StatFields
      <3> QED BY <3>1, <3>2, StatsBump
    <2> QED BY <1>3, <1>7, <2>1
        DEF PutWithKindTooLarge, HeapTypeOK, OutTypeOK, CallOK, PayloadInHand
  <1> QED BY <1>5, <1>6, <1>7

\* Core 0's run loop.
LEMMA TypeLoopSteps ==
  ASSUME TypeInv, Take \/ PublishDone \/ PublishDiscarded \/ PublishFailed
  PROVE  HeapTypeOK' /\ OutTypeOK' /\ CallOK'
  <1> USE CallFacts DEF history, heapVars
  <1>1. CASE Take
    <2>1. queue \in Seq(EntryType) /\ inFlight \in EntryType \cup {NoEntry}
      BY DEF OutTypeOK
    <2>2. queue # <<>> => Head(queue) \in EntryType /\ Tail(queue) \in Seq(EntryType)
      BY <2>1
    <2>3. /\ queue' \in Seq(EntryType)
          /\ inFlight' \in EntryType \cup {NoEntry}
          /\ taken' \in EntryType \cup {NoEntry}
      BY <1>1, <2>1, <2>2 DEF Take
    <2> QED BY <1>1, <2>3 DEF Take, HeapTypeOK, OutTypeOK, CallOK, PayloadInHand
  <1>2. ASSUME NEW d \in BOOLEAN, CompleteInFlight(d)
        PROVE  HeapTypeOK' /\ OutTypeOK' /\ CallOK'
    <2>1. taken \in EntryType /\ taken.size \in Nat
      BY <1>2 DEF CompleteInFlight, OutTypeOK, EntryType
    <2>2. HeapTypeOK'
      BY <1>2, <2>1, OutboundAssumption DEF CompleteInFlight, HeapTypeOK
    <2>3. stats' \in StatsType
      <3> DEFINE n == IF d THEN 1 ELSE 0
                 a == [stats EXCEPT !.queued_bytes = @ - taken.size]
      <3>1. stats \in StatsType /\ stats' = [a EXCEPT !.oversized_discarded = @ + n]
        BY <1>2 DEF CompleteInFlight, OutTypeOK
      <3>2. n \in Nat
        OBVIOUS
      <3>3. stats.queued_bytes - taken.size \in Int
        BY <2>1, <3>1 DEF StatsType, StatFields
      <3>4. "queued_bytes" \in StatFields /\ "oversized_discarded" \in StatFields \ {"queued_bytes"}
        BY DEF StatFields
      <3>5. a \in StatsType
        BY <3>1, <3>3, <3>4, StatsUpdate
      <3> HIDE DEF n, a
      <3> QED BY <3>1, <3>2, <3>4, <3>5, StatsBump
    <2>4. finished' \in Seq(EntryType)
      BY <1>2, <2>1 DEF CompleteInFlight, OutTypeOK
    <2> QED BY <1>2, <2>2, <2>3, <2>4 DEF CompleteInFlight, OutTypeOK, CallOK, PayloadInHand
  <1>3. CASE PublishFailed
    BY <1>3 DEF PublishFailed, HeapTypeOK, OutTypeOK, CallOK, PayloadInHand
  <1> QED BY <1>1, <1>2, <1>3 DEF PublishDone, PublishDiscarded

\* The event lane.
LEMMA TypeEventSteps ==
  ASSUME TypeInv, EvPut \/ EvPutStep \/ EvTake, UNCHANGED outVars
  PROVE  HeapTypeOK' /\ EvTypeOK' /\ CallOK' /\ EvCallOK'
  <1> USE CallFacts DEF heapVars, outVars
  <1>1. ambient \in Nat /\ PayloadInHand <= ambient /\ PayloadInHand' = PayloadInHand
    BY DEF HeapTypeOK, CallOK, PayloadInHand
  <1>2. PayloadInHand \in Nat
    BY DEF PayloadInHand, CallOK, AdmissionSteps
  <1>3. MaxEvents \in Nat /\ evPuts \in 0..MaxEvents
    BY EventAssumption DEF EvTypeOK
  <1>4. CASE EvPut
    <2>1. evPuts' \in 0..MaxEvents /\ evPuts' > 0
      BY <1>3, <1>4 DEF EvPut
    <2> QED BY <1>1, <1>4, <2>1 DEF EvPut, HeapTypeOK, EvTypeOK, EvSteps, CallOK, EvCallOK
  <1>5. CASE EvAcquireHeapLock
    BY <1>1, <1>5 DEF EvAcquireHeapLock, HeapTypeOK, EvTypeOK, EvSteps, CallOK, EvCallOK, Cores
  <1>6. CASE EvMeasure
    <2>1. HeapTypeOK'
      BY <1>6, CollectTypes DEF EvMeasure, HeapTypeOK
    <2> QED BY <1>1, <1>6, <2>1 DEF EvMeasure, EvTypeOK, EvSteps, CallOK, EvCallOK
  <1>7. CASE EvAppendKept
    <2>0. EventOverhead \in Nat /\ MinimumFreeHeap \in Nat
      BY EventAssumption, HeapAssumption
    <2>1. HeapTypeOK' /\ PayloadInHand <= ambient'
      BY <1>1, <1>2, <1>7, <2>0 DEF EvAppendKept, HeapTypeOK
    <2>2. evPuts \in 1..MaxEvents
      BY <1>3, <1>7 DEF EvCallOK, EvAppendKept
    <2>3. /\ evQueue' \in Seq(1..MaxEvents) /\ evAdmitted' \in Seq(1..MaxEvents)
          /\ evHighWatermark' \in Nat
      BY <1>7, <2>2 DEF EvAppendKept, EvTypeOK
    <2> QED BY <1>1, <1>7, <2>1, <2>3 DEF EvAppendKept, EvTypeOK, EvSteps, CallOK, EvCallOK
  <1>8. CASE EvAppendRolledBack
    <2>1. HeapTypeOK'
      BY <1>8, CollectTypes DEF EvAppendRolledBack
    <2> QED BY <1>1, <1>8, <2>1 DEF EvAppendRolledBack, EvTypeOK, EvSteps, CallOK, EvCallOK
  <1>9. CASE EvBelowFloor
    BY <1>1, <1>9 DEF EvBelowFloor, HeapTypeOK, EvTypeOK, EvSteps, CallOK, EvCallOK
  <1>10. CASE EvReject
    BY <1>1, <1>10 DEF EvReject, HeapTypeOK, EvTypeOK, EvSteps, CallOK, EvCallOK
  <1>11. CASE EvTake
    <2>1. /\ evQueue \in Seq(1..MaxEvents) /\ evQueue # <<>> /\ evTaken \in Seq(1..MaxEvents)
      BY <1>11 DEF EvTake, EvTypeOK
    <2>2. Head(evQueue) \in 1..MaxEvents /\ Tail(evQueue) \in Seq(1..MaxEvents)
      BY <2>1, HeadTailProperties
    <2>3. evQueue' \in Seq(1..MaxEvents) /\ evTaken' \in Seq(1..MaxEvents)
      BY <1>11, <2>1, <2>2 DEF EvTake
    <2> QED BY <1>1, <1>11, <2>3 DEF EvTake, HeapTypeOK, EvTypeOK, CallOK, EvCallOK
  <1> QED
    BY <1>4, <1>5, <1>6, <1>7, <1>8, <1>9, <1>10, <1>11 DEF EvPutStep

\* The rest of the program.
LEMMA TypeEnvironment ==
  ASSUME TypeInv, Environment
  PROVE  HeapTypeOK' /\ CallOK'
  <1> USE CallFacts DEF outVars, evVars
  <1>1. PayloadInHand' = PayloadInHand /\ UNCHANGED <<outVars, evVars>>
    BY DEF Environment, PayloadInHand
  <1>2. PayloadInHand \in Nat /\ PayloadInHand <= ambient
    BY DEF PayloadInHand, CallOK, AdmissionSteps
  <1>3. CASE HeapAlloc
    BY <1>1, <1>2, <1>3 DEF HeapAlloc, HeapTypeOK, CallOK
  <1>4. CASE HeapDrop(PayloadInHand)
    BY <1>1, <1>2, <1>4 DEF HeapDrop, HeapTypeOK, CallOK
  <1>5. CASE HeapAutoCollect
    <2>1. HeapTypeOK'
      BY <1>5, CollectTypes DEF HeapAutoCollect
    <2> QED BY <1>1, <1>2, <1>5, <2>1 DEF HeapAutoCollect, CallOK
  <1> QED BY <1>3, <1>4, <1>5 DEF Environment

\* Every step keeps the type invariant: the lemmas above, put together.
LEMMA TypeStep == TypeInv /\ [Next]_vars => TypeInv'
  <1> SUFFICES ASSUME TypeInv, [Next]_vars PROVE TypeInv'
    OBVIOUS
  <1> USE DEF TypeInv, TypeOK
  <1>1. CASE Core1Put
    BY <1>1, TypePutBegins DEF Core1Put, evVars, EvTypeOK, EvCallOK
  <1>2. CASE Core1Step
    BY <1>2, TypePutSteps DEF Core1Step, evVars, EvTypeOK, EvCallOK
  <1>3. CASE Core1TakeEvent \/ Core0PutEvent \/ Core0EventStep
    BY <1>3, TypeEventSteps
    DEF Core1TakeEvent, Core0PutEvent, Core0EventStep, outVars, OutTypeOK
  <1>4. CASE Core0Loop
    BY <1>4, TypeLoopSteps DEF Core0Loop, evVars, EvTypeOK, EvCallOK
  <1>5. CASE Environment
    BY <1>5, TypeEnvironment
    DEF Environment, outVars, evVars, OutTypeOK, EvTypeOK, EvCallOK
  <1>6. CASE UNCHANGED vars
    BY <1>6 DEF vars, heapVars, outVars, evVars, HeapTypeOK, OutTypeOK, EvTypeOK, CallOK,
                EvCallOK, PayloadInHand
  <1> QED BY <1>1, <1>2, <1>3, <1>4, <1>5, <1>6 DEF Next

\* The strengthened type invariant is an invariant.
THEOREM TypeInvariant == Spec => []TypeInv
  <1> QED BY TypeInitially, TypeStep, PTL DEF Spec

\* Every variable of both lanes and of the shared heap stays in its domain.
THEOREM TypeCorrect == Spec => []TypeOK
  <1>1. TypeInv => TypeOK
    BY DEF TypeInv
  <1> QED BY <1>1, TypeInvariant, PTL

-----------------------------------------------------------------------------
(* The two lanes admit one at a time. *)

\* The lock is taken only when it is free, and given back by its owner.
LEMMA ExclusiveStep == TypeInv /\ AdmissionExclusive /\ [Next]_vars => AdmissionExclusive'
  <1> SUFFICES ASSUME TypeInv, AdmissionExclusive, [Next]_vars PROVE AdmissionExclusive'
    OBVIOUS
  <1> USE NoOwnerAssumption DEF AdmissionExclusive, AdmissionSteps, heapVars, Cores
  <1>1. CASE Core1Put
    BY <1>1 DEF Core1Put, Put, PutWithKind, PutWithKindTooLarge, evVars
  <1>2. CASE Core1Step
    <2>1. CASE SerializeOk \/ SerializeRefused \/ SerializeCollect \/ SerializeEvict
               \/ SerializeMemoryError \/ AcquireHeapLock
      BY <1>2, <2>1 DEF Core1Step, SerializeOk, SerializeRefused, SerializeCollect,
         SerializeEvict, SerializeMemoryError, AcquireHeapLock, Return, evVars
    <2>2. CASE MeasurePreferred \/ SelectBand \/ SoftEvict \/ SoftNothingEligible
               \/ MeasureFloor \/ Displace \/ CountRelief \/ CountFull \/ AppendRolledBack
      BY <1>2, <2>2 DEF Core1Step, MeasurePreferred, SelectBand, SoftEvict, SoftNothingEligible,
         MeasureFloor, Displace, CountRelief, CountFull, AppendRolledBack, AfterFailure,
         AppendSteps, evVars
    <2>3. CASE AppendKept \/ AppendMemoryError \/ Reject
      BY <1>2, <2>3 DEF Core1Step, AppendKept, AppendMemoryError, Reject, Return, AppendSteps,
         evVars
    <2> QED BY <1>2, <2>1, <2>2, <2>3 DEF Core1Step, PutStep
  <1>3. CASE Core1TakeEvent \/ Core0PutEvent
    BY <1>3 DEF Core1TakeEvent, Core0PutEvent, EvTake, EvPut, outVars
  <1>4. CASE Core0EventStep
    BY <1>4 DEF Core0EventStep, EvPutStep, EvAcquireHeapLock, EvMeasure, EvAppendKept,
       EvAppendRolledBack, EvBelowFloor, EvReject, outVars
  <1>5. CASE Core0Loop
    BY <1>5 DEF Core0Loop, Take, PublishDone, PublishDiscarded, CompleteInFlight, PublishFailed,
       evVars
  <1>6. CASE Environment
    BY <1>6 DEF Environment, HeapAlloc, HeapDrop, HeapAutoCollect, outVars, evVars
  <1>7. CASE UNCHANGED vars
    BY <1>7 DEF vars, outVars, evVars
  <1> QED BY <1>1, <1>2, <1>3, <1>4, <1>5, <1>6, <1>7 DEF Next

\* The heap-admission lock serializes the outbound and the event admission.
THEOREM AdmissionIsExclusive == Spec => []AdmissionExclusive
  <1>1. Init => AdmissionExclusive
    BY NoOwnerAssumption
    DEF Init, HeapInit, OutInit, EvInit, AdmissionExclusive, AdmissionSteps, Cores
  <1> QED BY <1>1, ExclusiveStep, TypeInvariant, PTL DEF Spec

-----------------------------------------------------------------------------
(* What a step does to the entries: it displaces one, keeps an append,       *)
(* promotes one, completes one, or leaves them all alone.                    *)

Evicting == SerializeEvict \/ SoftEvict \/ CountRelief \/ Displace

Relieved == {"normal_relieved", "hard_relieved"}

SameRetention ==
    /\ stats'.queued_bytes = stats.queued_bytes
    /\ stats'.high_watermark = stats.high_watermark
    /\ stats'.high_watermark_bytes = stats.high_watermark_bytes
    /\ stats'.messages_evicted = stats.messages_evicted

Quiet ==
    /\ UNCHANGED <<queue, inFlight, admitted, evicted, finished>>
    /\ SameRetention
    /\ pc1' \in Relieved => pc1 \in Relieved
    /\ taken' \in {taken, NoEntry}
    /\ \/ puts' = puts /\ (pc1' # "idle" => pc1 # "idle")
       \/ puts' = puts + 1 /\ pc1 = "idle"

\* A step evicts an entry, keeps an append, takes, completes, or leaves the lane as it is.
LEMMA StepKinds ==
  ASSUME TypeInv, [Next]_vars
  PROVE  Evicting \/ AppendKept \/ Take \/ CompleteInFlight(TRUE) \/ CompleteInFlight(FALSE)
         \/ Quiet
  <1> USE CallFacts DEF heapVars, history, Relieved
  <1>b. stats' = stats => SameRetention
    BY DEF SameRetention
  <1>a. stats \in StatsType
    BY DEF OutTypeOK
  <1>1. CASE Core1Put
    <2>1. SameRetention
      BY <1>1, <1>a DEF SameRetention, Core1Put, Put, PutWithKind, PutWithKindTooLarge, StatsType, StatFields
    <2> QED BY <1>1, <2>1 DEF Core1Put, Put, PutWithKind, PutWithKindTooLarge, Quiet
  <1>2. CASE Core1Step
    <2>1. CASE SerializeOk \/ SerializeCollect \/ SerializeMemoryError \/ AcquireHeapLock
               \/ MeasurePreferred \/ SelectBand \/ SoftNothingEligible \/ MeasureFloor
      BY <1>b, <2>1 DEF SerializeOk, SerializeCollect, SerializeMemoryError, AcquireHeapLock,
         MeasurePreferred, SelectBand, SoftNothingEligible, MeasureFloor, Return, Quiet
    <2>2. CASE CountFull \/ AppendRolledBack \/ AppendMemoryError
      BY <1>b, <2>2 DEF CountFull, AppendRolledBack, AppendMemoryError, AfterFailure, AppendSteps,
         Return, Quiet
    <2>3. CASE SerializeRefused \/ Reject
      <3>1. SameRetention
        BY <2>3, <1>a DEF SameRetention, SerializeRefused, Reject, StatsType, StatFields
      <3> QED BY <2>3, <3>1 DEF SerializeRefused, Reject, Return, Quiet
    <2> QED BY <1>2, <2>1, <2>2, <2>3 DEF Core1Step, PutStep, Evicting
  <1>3. CASE Core1TakeEvent \/ Core0PutEvent \/ Core0EventStep \/ Environment
    BY <1>b, <1>3 DEF Core1TakeEvent, Core0PutEvent, Core0EventStep, Environment, outVars, Quiet
  <1>4. CASE Core0Loop
    BY <1>b, <1>4 DEF Core0Loop, PublishDone, PublishDiscarded, PublishFailed, Quiet
  <1>5. CASE UNCHANGED vars
    BY <1>b, <1>5 DEF vars, outVars, Quiet
  <1> QED BY <1>1, <1>2, <1>3, <1>4, <1>5 DEF Next

-----------------------------------------------------------------------------
(* CRITICAL entries are never displaced. *)

\* An eligible victim is not CRITICAL: the worst class queued is at least that of the
\* entry that made the message eligible.
LEMMA VictimNotCritical ==
  ASSUME OutTypeOK, NEW p, Eligible(p), NEW i \in 1..Len(queue), Victim(i)
  PROVE  queue[i].retention_priority # RETENTION_PRIORITY_CRITICAL
  <1>1. queue \in Seq(EntryType)
    BY DEF OutTypeOK
  <1>2. \A j \in DOMAIN queue :
           queue[j].retention_priority \in RETENTION_PRIORITY_CRITICAL..RETENTION_PRIORITY_HEALTH
    <2>1. \A j \in DOMAIN queue : queue[j] \in EntryType
      BY <1>1
    <2> QED BY <2>1 DEF EntryType
  <1>3. PICK j \in DOMAIN queue : queue[j].retention_priority # RETENTION_PRIORITY_CRITICAL
    BY DEF Eligible
  <1>4. queue[j].retention_priority <= queue[i].retention_priority /\ i \in DOMAIN queue
    BY <1>1 DEF Victim
  <1>5. queue[i].retention_priority \in 10..70 /\ queue[j].retention_priority \in 10..70
    BY <1>2, <1>4 DEF RETENTION_PRIORITY_CRITICAL, RETENTION_PRIORITY_HEALTH
  <1>6. queue[j].retention_priority # 10
    BY <1>3 DEF RETENTION_PRIORITY_CRITICAL
  <1>7. \A a, b \in 10..70 : b # 10 /\ b <= a => a # 10
    OBVIOUS
  <1>8. queue[i].retention_priority # 10
    BY <1>4, <1>5, <1>6, <1>7, Zenon
  <1> QED BY <1>8 DEF RETENTION_PRIORITY_CRITICAL

\* No step makes a CRITICAL entry a victim.
LEMMA CriticalStep == TypeInv /\ CriticalKept /\ [Next]_vars => CriticalKept'
  <1> SUFFICES ASSUME TypeInv, CriticalKept, [Next]_vars PROVE CriticalKept'
    OBVIOUS
  <1>1. CASE Evicting
    <2>1. EvictAndCollect /\ Eligible(call.msg.retention_priority) /\ OutTypeOK
      BY <1>1, CallFacts DEF Evicting, SerializeEvict, SoftEvict, CountRelief, Displace
    <2>2. PICK i \in 1..Len(queue) : Victim(i) /\ evicted' = evicted \cup {queue[i]}
      BY <2>1, EvictFacts
    <2>3. queue[i].retention_priority # RETENTION_PRIORITY_CRITICAL
      BY <2>1, <2>2, VictimNotCritical
    <2> QED BY <2>2, <2>3 DEF CriticalKept
  <1>2. CASE AppendKept \/ Take \/ CompleteInFlight(TRUE) \/ CompleteInFlight(FALSE) \/ Quiet
    BY <1>2 DEF AppendKept, Take, CompleteInFlight, Quiet, history, CriticalKept
  <1> QED BY <1>1, <1>2, StepKinds

\* No path of admission or serializer recovery ever displaces a CRITICAL entry.
THEOREM CriticalNeverEvicted == Spec => []CriticalKept
  <1>1. Init => CriticalKept
    BY DEF Init, OutInit, CriticalKept
  <1> QED BY <1>1, CriticalStep, TypeInvariant, PTL DEF Spec

-----------------------------------------------------------------------------
(* The count ceiling.  It is inductive with one more fact: after count      *)
(* relief there is room, and only Core 0 can touch the depth until the      *)
(* append, which never raises it.                                           *)

CountInv ==
    /\ CountCeiling
    /\ pc1 \in Relieved => DepthOf(queue) < MaxMessages

\* No step passes the ceiling, or takes the slot that relief made.
LEMMA CountStep == TypeInv /\ CountInv /\ [Next]_vars => CountInv'
  <1> SUFFICES ASSUME TypeInv, CountInv, [Next]_vars PROVE CountInv'
    OBVIOUS
  <1> DEFINE hw == stats.high_watermark
  <1>1. /\ OutTypeOK /\ queue \in Seq(EntryType) /\ stats \in StatsType /\ hw \in Nat
        /\ MaxMessages \in Nat
    BY CallFacts, OutboundAssumption DEF OutTypeOK, StatsType, StatFields
  <1>2. DepthOf(queue) \in Nat /\ DepthOf(queue) <= hw /\ hw <= MaxMessages
    BY <1>1 DEF CountInv, CountCeiling, DepthOf
  <1>3. CASE Evicting
    <2>1. EvictAndCollect
      BY <1>3 DEF Evicting, SerializeEvict, SoftEvict, CountRelief, Displace
    <2>2. PICK i \in 1..Len(queue) :
             /\ queue' = RemoveAt(queue, i)
             /\ stats' = [stats EXCEPT
                   !.queued_bytes = @ - queue[i].size,
                   !.messages_evicted = @ + 1,
                   !.telemetry_evicted = @ + (IF queue[i].kind = "telemetry" THEN 1 ELSE 0)]
             /\ inFlight' = inFlight
      BY <1>1, <2>1, EvictFacts
    <2>3. Len(queue') = Len(queue) - 1
      BY <1>1, <2>2, RemoveAtProperties
    <2>4. stats'.high_watermark = hw
      BY <1>1, <2>2 DEF StatsType, StatFields
    <2>5. DepthOf(queue)' = DepthOf(queue) - 1
      BY <1>1, <2>2, <2>3 DEF DepthOf
    <2> QED BY <1>1, <1>2, <2>4, <2>5 DEF CountInv, CountCeiling
  <1>4. CASE AppendKept
    <2> DEFINE depth == DepthOf(queue) + 1
    <2>1. DepthOf(queue) < MaxMessages
      BY <1>4 DEF AppendKept, MayAppend, BelowCountLimit, CountInv, Relieved
    <2>2. Len(queue') = Len(queue) + 1 /\ inFlight' = inFlight /\ pc1' = "idle"
      BY <1>1, <1>4 DEF AppendKept, Return
    <2>3. DepthOf(queue)' = depth
      BY <1>1, <2>2 DEF DepthOf
    <2>4. stats'.high_watermark = IF depth > hw THEN depth ELSE hw
      BY <1>1, <1>4 DEF AppendKept, StatsType, StatFields
    <2> QED BY <1>1, <1>2, <2>1, <2>2, <2>3, <2>4 DEF CountInv, CountCeiling, Relieved
  <1>5. CASE Take
    <2>1. stats' = stats /\ pc1' = pc1
      BY <1>5 DEF Take
    <2>2. DepthOf(queue)' = DepthOf(queue)
      <3>1. CASE inFlight # NoEntry
        BY <1>5, <3>1 DEF Take, DepthOf
      <3>2. CASE inFlight = NoEntry
        <4>1. queue # <<>> /\ inFlight' = Head(queue) /\ queue' = Tail(queue)
          BY <1>5, <3>2 DEF Take
        <4>2. Head(queue) \in EntryType /\ Len(queue') = Len(queue) - 1
          BY <1>1, <4>1
        <4>3. inFlight' # NoEntry
          BY <4>1, <4>2, NoEntryAssumption
        <4> QED BY <1>1, <3>2, <4>2, <4>3 DEF DepthOf
      <3> QED BY <3>1, <3>2
    <2> QED BY <2>1, <2>2 DEF CountInv, CountCeiling
  <1>6. CASE CompleteInFlight(TRUE) \/ CompleteInFlight(FALSE)
    <2>1. stats'.high_watermark = hw
      BY <1>1, <1>6 DEF CompleteInFlight, StatsType, StatFields
    <2>2. DepthOf(queue)' <= DepthOf(queue) /\ DepthOf(queue)' \in Nat /\ pc1' = pc1
      BY <1>1, <1>6 DEF CompleteInFlight, DepthOf
    <2> QED BY <1>1, <1>2, <2>1, <2>2 DEF CountInv, CountCeiling
  <1>7. CASE Quiet
    BY <1>7 DEF Quiet, SameRetention, CountInv, CountCeiling, DepthOf
  <1> QED BY <1>3, <1>4, <1>5, <1>6, <1>7, StepKinds

\* The retained depth never passes the configured ceiling, and the reported peak is
\* never below it.
THEOREM DepthWithinCeiling == Spec => []CountCeiling
  <1>1. Init => CountInv
    <2> SUFFICES ASSUME Init PROVE CountInv
      OBVIOUS
    <2>1. /\ queue = <<>> /\ inFlight = NoEntry /\ pc1 = "idle"
          /\ stats = [f \in StatFields |-> 0]
      BY DEF Init, OutInit
    <2>2. stats.high_watermark = 0 /\ DepthOf(queue) = 0
      BY <2>1 DEF StatFields, DepthOf
    <2> QED BY <2>1, <2>2, OutboundAssumption DEF CountInv, CountCeiling, Relieved
  <1>2. CountInv => CountCeiling
    BY DEF CountInv
  <1> QED BY <1>1, <1>2, CountStep, TypeInvariant, PTL DEF Spec

-----------------------------------------------------------------------------
(* The event lane delivers exactly what it admitted. *)

\* Appending to the second of two sequences appends to both.
LEMMA AppendAfterConcat ==
  ASSUME NEW S, NEW s \in Seq(S), NEW t \in Seq(S), NEW e \in S
  PROVE  s \o Append(t, e) = Append(s \o t, e)
  <1>1. Append(t, e) = t \o <<e>> /\ Append(s \o t, e) = (s \o t) \o <<e>> /\ <<e>> \in Seq(S)
    BY AppendIsConcat, ConcatProperties
  <1> QED BY <1>1, ConcatAssociative

\* Moving the head of a sequence to the end of the one before it changes nothing.
LEMMA MoveHead ==
  ASSUME NEW S, NEW s \in Seq(S), NEW t \in Seq(S), t # <<>>
  PROVE  Append(s, Head(t)) \o Tail(t) = s \o t
  <1>1. Head(t) \in S /\ Tail(t) \in Seq(S) /\ <<Head(t)>> \in Seq(S)
    BY HeadTailProperties
  <1>2. Append(s, Head(t)) = s \o <<Head(t)>>
    BY <1>1, AppendIsConcat
  <1>3. t = <<Head(t)>> \o Tail(t)
    BY <1>1, HeadTailProperties, ConcatSimplifications
  <1> QED BY <1>1, <1>2, <1>3, ConcatAssociative

\* Puts, rollbacks and takes keep the order of events.
LEMMA EventsStep == TypeInv /\ EventsInOrder /\ [Next]_vars => EventsInOrder'
  <1> SUFFICES ASSUME TypeInv, EventsInOrder, [Next]_vars PROVE EventsInOrder'
    OBVIOUS
  <1>1. /\ evQueue \in Seq(1..MaxEvents) /\ evTaken \in Seq(1..MaxEvents)
        /\ evAdmitted \in Seq(1..MaxEvents) /\ MaxEvents \in Nat /\ evPuts \in 0..MaxEvents
    BY CallFacts, EventAssumption DEF EvTypeOK
  <1>2. CASE EvAppendKept
    <2>1. evPuts \in 1..MaxEvents
      BY <1>1, <1>2, CallFacts DEF EvCallOK, EvAppendKept
    <2>2. /\ evQueue' = Append(evQueue, evPuts) /\ evAdmitted' = Append(evAdmitted, evPuts)
          /\ evTaken' = evTaken
      BY <1>2 DEF EvAppendKept
    <2>3. evTaken \o Append(evQueue, evPuts) = Append(evTaken \o evQueue, evPuts)
      BY <1>1, <2>1, AppendAfterConcat
    <2>4. evTaken \o evQueue = evAdmitted
      BY DEF EventsInOrder
    <2> QED BY <2>2, <2>3, <2>4 DEF EventsInOrder
  <1>3. CASE EvTake
    BY <1>1, <1>3, MoveHead DEF EvTake, EventsInOrder
  <1>4. CASE UNCHANGED <<evQueue, evTaken, evAdmitted>>
    BY <1>4 DEF EventsInOrder
  <1>5. EvAppendKept \/ EvTake \/ UNCHANGED <<evQueue, evTaken, evAdmitted>>
    BY DEF Next, Core1Put, Core1Step, Core1TakeEvent, Core0Loop, Core0PutEvent, Core0EventStep,
       Environment, EvPut, EvPutStep, EvAcquireHeapLock, EvMeasure, EvAppendRolledBack,
       EvBelowFloor, EvReject, vars, evVars
  <1> QED BY <1>2, <1>3, <1>4, <1>5

\* Core 1 takes the admitted events, each once and in order.
THEOREM EventsDeliveredInOrder == Spec => []EventsInOrder
  <1>1. Init => EventsInOrder
    BY DEF Init, EvInit, EventsInOrder
  <1> QED BY <1>1, EventsStep, TypeInvariant, PTL DEF Spec

-----------------------------------------------------------------------------
(* Entries leave in the order they were put.  The order is inductive with    *)
(* one more fact: the call in hand is later than every entry still known, so *)
(* that its own append goes after them all.                                  *)

\* Put by an earlier call; the last call's entry is known only once it has returned.
Earlier(e) ==
    /\ e.id <= puts
    /\ pc1 # "idle" => e.id < puts

EarlierCalls ==
    /\ \A i \in DOMAIN finished : Earlier(finished[i])
    /\ \A i \in DOMAIN queue : Earlier(queue[i])
    /\ inFlight # NoEntry => Earlier(inFlight)

FifoInv == FifoDelivery /\ EarlierCalls

\* What is left after a removal was there before, in the same order.
LEMMA IncreasingRemoveAt ==
  ASSUME NEW s \in Seq(EntryType), NEW i \in 1..Len(s), Increasing(s)
  PROVE  /\ Increasing(RemoveAt(s, i))
         /\ \A k \in DOMAIN RemoveAt(s, i) : \E j \in DOMAIN s : RemoveAt(s, i)[k] = s[j]
  <1> DEFINE t == RemoveAt(s, i)
             from(k) == IF k < i THEN k ELSE k + 1
  <1>1. t \in Seq(EntryType) /\ Len(t) = Len(s) - 1
    BY RemoveAtProperties
  <1>2. DOMAIN t = 1..(Len(s) - 1) /\ DOMAIN s = 1..Len(s) /\ Len(s) \in Nat /\ i \in Int
    <2> HIDE DEF t
    <2> QED BY <1>1
  <1>3. \A k \in 1..(Len(s) - 1) : t[k] = s[from(k)] /\ from(k) \in 1..Len(s)
    <2>1. \A k \in 1..(Len(s) - 1) : t[k] = IF k < i THEN s[k] ELSE s[k + 1]
      BY RemoveAtProperties
    <2> HIDE DEF t
    <2> QED BY <1>2, <2>1
  <1> HIDE DEF t
  <1>4. \A k, l \in 1..(Len(s) - 1) : k < l => from(k) < from(l)
    BY <1>2
  <1> HIDE DEF from
  <1>5. Increasing(t)
    <2> SUFFICES ASSUME NEW k \in DOMAIN t, NEW l \in DOMAIN t, k < l
                 PROVE  t[k].id < t[l].id
      BY DEF Increasing
    <2>1. /\ from(k) \in DOMAIN s /\ from(l) \in DOMAIN s /\ from(k) < from(l)
          /\ t[k] = s[from(k)] /\ t[l] = s[from(l)]
      BY <1>2, <1>3, <1>4
    <2> QED BY <2>1 DEF Increasing
  <1>6. \A k \in DOMAIN t : \E j \in DOMAIN s : t[k] = s[j]
    BY <1>2, <1>3
  <1> QED BY <1>5, <1>6 DEF t

\* Appending something later than everything keeps the order.
LEMMA IncreasingAppend ==
  ASSUME NEW s \in Seq(EntryType), NEW e \in EntryType, Increasing(s),
         \A i \in DOMAIN s : s[i].id < e.id
  PROVE  /\ Increasing(Append(s, e))
         /\ \A i \in DOMAIN Append(s, e) :
              Append(s, e)[i] # e => i \in DOMAIN s /\ Append(s, e)[i] = s[i]
  <1>1. /\ DOMAIN s = 1..Len(s) /\ Len(s) \in Nat
        /\ DOMAIN Append(s, e) = 1..(Len(s) + 1)
        /\ \A i \in 1..Len(s) : Append(s, e)[i] = s[i]
        /\ Append(s, e)[Len(s) + 1] = e
    OBVIOUS
  <1> DEFINE t == Append(s, e)
  <1>2. /\ DOMAIN t = 1..(Len(s) + 1)
        /\ \A i \in 1..Len(s) : t[i] = s[i]
        /\ t[Len(s) + 1] = e
    BY <1>1
  <1> HIDE DEF t
  <1>3. Increasing(t)
    <2> SUFFICES ASSUME NEW i \in DOMAIN t, NEW j \in DOMAIN t, i < j
                 PROVE  t[i].id < t[j].id
      BY DEF Increasing
    <2>1. i \in 1..Len(s) /\ t[i] = s[i]
      BY <1>1, <1>2
    <2>2. CASE j = Len(s) + 1
      BY <1>1, <1>2, <2>1, <2>2
    <2>3. CASE j # Len(s) + 1
      <3>1. j \in 1..Len(s) /\ t[j] = s[j]
        BY <1>1, <1>2, <2>3
      <3> QED BY <1>1, <2>1, <3>1 DEF Increasing
    <2> QED BY <2>2, <2>3
  <1>4. ASSUME NEW i \in DOMAIN t, t[i] # e
        PROVE  i \in DOMAIN s /\ t[i] = s[i]
    <2>1. i \in 1..(Len(s) + 1) /\ i # Len(s) + 1
      BY <1>2, <1>4
    <2> QED BY <1>1, <1>2, <2>1
  <1> QED BY <1>3, <1>4 DEF t

\* The head of an ordered sequence comes before its tail, which is ordered.
LEMMA IncreasingTail ==
  ASSUME NEW s \in Seq(EntryType), s # <<>>, Increasing(s)
  PROVE  /\ 1 \in DOMAIN s /\ Head(s) = s[1] /\ Head(s) \in EntryType
         /\ Increasing(Tail(s))
         /\ \A i \in DOMAIN Tail(s) :
              i + 1 \in DOMAIN s /\ Tail(s)[i] = s[i + 1] /\ Head(s).id < Tail(s)[i].id
  <1>1. /\ DOMAIN s = 1..Len(s) /\ Len(s) \in Nat \ {0} /\ Head(s) = s[1]
        /\ DOMAIN Tail(s) = 1..(Len(s) - 1)
        /\ \A i \in 1..(Len(s) - 1) : Tail(s)[i] = s[i + 1]
    OBVIOUS
  <1> DEFINE t == Tail(s)
  <1>2. DOMAIN t = 1..(Len(s) - 1) /\ \A i \in 1..(Len(s) - 1) : t[i] = s[i + 1]
    BY <1>1
  <1> HIDE DEF t
  <1>3. 1 \in DOMAIN s /\ s[1] \in EntryType
    BY <1>1
  <1>4. ASSUME NEW i \in DOMAIN t
        PROVE  i + 1 \in DOMAIN s /\ i \in Int /\ 1 < i + 1 /\ t[i] = s[i + 1]
    BY <1>1, <1>2
  <1>5. Increasing(t)
    <2> SUFFICES ASSUME NEW i \in DOMAIN t, NEW j \in DOMAIN t, i < j
                 PROVE  t[i].id < t[j].id
      BY DEF Increasing
    <2>1. i + 1 < j + 1
      BY <1>4
    <2> QED BY <1>4, <2>1 DEF Increasing
  <1>6. \A i \in DOMAIN t : i + 1 \in DOMAIN s /\ t[i] = s[i + 1] /\ s[1].id < t[i].id
    BY <1>3, <1>4 DEF Increasing
  <1> QED BY <1>1, <1>3, <1>5, <1>6 DEF t

\* No step puts an entry before one that was put earlier.
LEMMA FifoStep == TypeInv /\ FifoInv /\ [Next]_vars => FifoInv'
  <1> SUFFICES ASSUME TypeInv, FifoInv, [Next]_vars PROVE FifoInv'
    OBVIOUS
  <1>1. /\ OutTypeOK /\ queue \in Seq(EntryType) /\ finished \in Seq(EntryType)
        /\ inFlight \in EntryType \cup {NoEntry} /\ puts \in Nat
    BY CallFacts, OutboundAssumption DEF OutTypeOK
  <1>2. \A e \in EntryType : e.id \in Nat
    BY DEF EntryType
  <1>3. CASE Evicting
    <2>1. EvictAndCollect /\ puts' = puts /\ pc1 # "idle" /\ finished' = finished
      BY <1>3 DEF Evicting, SerializeEvict, SoftEvict, CountRelief, Displace, EvictAndCollect
    <2>2. PICK i \in 1..Len(queue) : queue' = RemoveAt(queue, i) /\ inFlight' = inFlight
      BY <1>1, <2>1, EvictFacts
    <2>3. Increasing(queue')
      BY <1>1, <2>2, IncreasingRemoveAt DEF FifoInv, FifoDelivery
    <2>4. \A k \in DOMAIN queue' : \E j \in DOMAIN queue : queue'[k] = queue[j]
      BY <1>1, <2>2, IncreasingRemoveAt DEF FifoInv, FifoDelivery
    <2>5. FifoDelivery'
      <3>1. ASSUME NEW f \in DOMAIN finished, NEW k \in DOMAIN queue'
            PROVE  finished[f].id < queue'[k].id
        BY <2>4 DEF FifoInv, FifoDelivery
      <3>2. ASSUME NEW k \in DOMAIN queue', inFlight # NoEntry
            PROVE  inFlight.id < queue'[k].id
        BY <2>4, <3>2 DEF FifoInv, FifoDelivery
      <3> QED BY <2>1, <2>2, <2>3, <3>1, <3>2 DEF FifoInv, FifoDelivery
    <2>6. EarlierCalls'
      <3>1. \A k \in DOMAIN queue' : queue'[k].id <= puts /\ queue'[k].id < puts
        BY <2>1, <2>4 DEF FifoInv, EarlierCalls, Earlier
      <3> QED BY <2>1, <2>2, <3>1 DEF FifoInv, EarlierCalls, Earlier
    <2> QED BY <2>5, <2>6 DEF FifoInv
  <1>4. CASE AppendKept
    <2> DEFINE e == [id |-> puts, kind |-> call.msg.kind,
                     retention_priority |-> call.msg.retention_priority,
                     size |-> call.msg.size]
    <2>1. /\ pc1 # "idle" /\ pc1' = "idle" /\ puts' = puts
          /\ queue' = Append(queue, e) /\ UNCHANGED <<inFlight, finished>>
      BY <1>4 DEF AppendKept, AppendSteps, Return
    <2>2. e \in EntryType /\ e.id = puts
      <3>1. call.msg \in Messages /\ puts \in Nat \ {0}
        BY <1>1, <2>1 DEF TypeInv, CallOK
      <3> QED BY <3>1, MessageFields DEF EntryType
    <2> HIDE DEF e
    <2>3. /\ \A i \in DOMAIN queue : queue[i].id < e.id
          /\ \A i \in DOMAIN finished : finished[i].id < e.id
          /\ inFlight # NoEntry => inFlight.id < e.id
      BY <2>1, <2>2 DEF FifoInv, EarlierCalls, Earlier
    <2>4. /\ Increasing(queue')
          /\ \A i \in DOMAIN queue' : queue'[i] # e => i \in DOMAIN queue /\ queue'[i] = queue[i]
      BY <1>1, <2>1, <2>2, <2>3, IncreasingAppend DEF FifoInv, FifoDelivery
    <2>5. FifoDelivery'
      BY <2>1, <2>3, <2>4 DEF FifoInv, FifoDelivery
    <2>6. EarlierCalls'
      BY <1>1, <2>1, <2>2, <2>4 DEF FifoInv, EarlierCalls, Earlier
    <2> QED BY <2>5, <2>6 DEF FifoInv
  <1>5. CASE Take
    <2>1. UNCHANGED <<puts, pc1, finished>>
      BY <1>5 DEF Take, history
    <2>2. CASE UNCHANGED <<queue, inFlight>>
      BY <2>1, <2>2 DEF FifoInv, FifoDelivery, EarlierCalls, Earlier
    <2>3. CASE queue # <<>> /\ inFlight' = Head(queue) /\ queue' = Tail(queue)
      <3>1. /\ 1 \in DOMAIN queue /\ inFlight' = queue[1]
            /\ Increasing(queue')
            /\ \A i \in DOMAIN queue' :
                 i + 1 \in DOMAIN queue /\ queue'[i] = queue[i + 1] /\ inFlight'.id < queue'[i].id
        BY <1>1, <2>3, IncreasingTail DEF FifoInv, FifoDelivery
      <3>2. FifoDelivery'
        BY <2>1, <3>1 DEF FifoInv, FifoDelivery
      <3>3. EarlierCalls'
        BY <2>1, <3>1 DEF FifoInv, EarlierCalls, Earlier
      <3> QED BY <3>2, <3>3 DEF FifoInv
    <2> QED BY <1>5, <2>2, <2>3 DEF Take
  <1>6. CASE CompleteInFlight(TRUE) \/ CompleteInFlight(FALSE)
    <2>1. /\ inFlight # NoEntry /\ inFlight' = NoEntry /\ finished' = Append(finished, inFlight)
          /\ UNCHANGED <<puts, pc1, queue>>
      BY <1>6 DEF CompleteInFlight
    <2>2. inFlight \in EntryType /\ \A i \in DOMAIN finished : finished[i].id < inFlight.id
      BY <1>1, <2>1 DEF FifoInv, FifoDelivery
    <2>3. /\ Increasing(finished')
          /\ \A i \in DOMAIN finished' :
               finished'[i] # inFlight => i \in DOMAIN finished /\ finished'[i] = finished[i]
      BY <1>1, <2>1, <2>2, IncreasingAppend DEF FifoInv, FifoDelivery
    <2>4. FifoDelivery'
      BY <2>1, <2>3 DEF FifoInv, FifoDelivery
    <2>5. EarlierCalls'
      BY <2>1, <2>3 DEF FifoInv, EarlierCalls, Earlier
    <2> QED BY <2>4, <2>5 DEF FifoInv
  <1>7. CASE Quiet
    <2>1. FifoDelivery'
      BY <1>7 DEF Quiet, FifoInv, FifoDelivery
    <2>2. ASSUME NEW e, e.id \in Nat, Earlier(e) PROVE Earlier(e)'
      BY <1>1, <1>7, <2>2 DEF Quiet, Earlier
    <2>3. /\ \A i \in DOMAIN queue : queue[i].id \in Nat
          /\ \A i \in DOMAIN finished : finished[i].id \in Nat
          /\ inFlight # NoEntry => inFlight.id \in Nat
      BY <1>1, <1>2
    <2>4. EarlierCalls'
      <3>1. UNCHANGED <<queue, finished, inFlight>> /\ EarlierCalls
        BY <1>7 DEF Quiet, FifoInv
      <3>2. (\A i \in DOMAIN queue : Earlier(queue[i]))'
        BY <2>2, <2>3, <3>1 DEF EarlierCalls
      <3>3. (\A i \in DOMAIN finished : Earlier(finished[i]))'
        BY <2>2, <2>3, <3>1 DEF EarlierCalls
      <3>4. (inFlight # NoEntry => Earlier(inFlight))'
        BY <2>2, <2>3, <3>1 DEF EarlierCalls
      <3> QED BY <3>2, <3>3, <3>4 DEF EarlierCalls
    <2> QED BY <2>1, <2>4 DEF FifoInv
  <1> QED BY <1>3, <1>4, <1>5, <1>6, <1>7, StepKinds

\* Core 0 publishes in the order of the calls that put, over any number of failed
\* publishes, and eviction never reaches the entry in flight.
THEOREM DeliveredInOrder == Spec => []FifoDelivery
  <1>1. Init => FifoInv
    BY DEF Init, OutInit, FifoInv, FifoDelivery, EarlierCalls, Increasing
  <1>2. FifoInv => FifoDelivery
    BY DEF FifoInv
  <1> QED BY <1>1, <1>2, FifoStep, TypeInvariant, PTL DEF Spec

-----------------------------------------------------------------------------
(* One victim above the hard floor.  Until the floor is met, a displacement  *)
(* leaves the queue below the ceiling, and what is below stays below: so the *)
(* count gate of the same call cannot ask for a second one.                  *)

AtMostOne(S) == S = {} \/ \E e : S = {e}

VictimsInv ==
    /\ pc1 \in {"measure", "band", "soft"} => call.victims = {}
    /\ pc1 = "displace" /\ ~ call.floor => call.victims = {}
    /\ pc1 \in {"normal", "hard", "hard_append"} /\ ~ call.floor =>
         \/ call.victims = {}
         \/ BelowCountLimit /\ \E e : call.victims = {e}
    /\ pc1 \in Relieved /\ ~ call.floor => AtMostOne(call.victims)

\* A displacement adds its victim to the call's and leaves the queue below the ceiling.
LEMMA EvictCounts ==
  ASSUME TypeInv, CountCeiling, EvictAndCollect
  PROVE  /\ \E e : call'.victims = call.victims \cup {e}
         /\ call'.floor = call.floor
         /\ BelowCountLimit'
  <1>1. /\ OutTypeOK /\ queue \in Seq(EntryType) /\ stats \in StatsType /\ call \in CallType
        /\ MaxMessages \in Nat
    BY CallFacts, OutboundAssumption DEF OutTypeOK
  <1>2. PICK i \in 1..Len(queue) :
           /\ queue' = RemoveAt(queue, i)
           /\ call' = [call EXCEPT !.victims = @ \cup {queue[i]}]
           /\ inFlight' = inFlight
    BY <1>1, EvictFacts
  <1>3. call'.victims = call.victims \cup {queue[i]} /\ call'.floor = call.floor
    BY <1>1, <1>2 DEF CallType
  <1>4. Len(queue') = Len(queue) - 1 /\ Len(queue) \in Nat
    BY <1>1, <1>2, RemoveAtProperties
  <1>5. DepthOf(queue)' = DepthOf(queue) - 1 /\ DepthOf(queue) \in Nat
    BY <1>2, <1>4 DEF DepthOf
  <1>6. stats.high_watermark \in Int
    BY <1>1 DEF StatsType, StatFields
  <1>7. BelowCountLimit'
    BY <1>1, <1>5, <1>6 DEF CountCeiling, BelowCountLimit
  <1> QED BY <1>3, <1>7

\* What Core 0 and the rest of the program do never raises the depth.
LEMMA OthersKeepRoom ==
  ASSUME TypeInv, Core1TakeEvent \/ Core0Loop \/ Core0PutEvent \/ Core0EventStep \/ Environment
                  \/ UNCHANGED vars
  PROVE  UNCHANGED <<pc1, call>> /\ (BelowCountLimit => BelowCountLimit')
  <1>1. OutTypeOK /\ queue \in Seq(EntryType) /\ MaxMessages \in Nat
    BY CallFacts, OutboundAssumption DEF OutTypeOK
  <1>2. UNCHANGED <<pc1, call>>
    BY DEF Core1TakeEvent, Core0Loop, Take, PublishDone, PublishDiscarded, CompleteInFlight,
       PublishFailed, Core0PutEvent, Core0EventStep, Environment, outVars, vars
  <1>3. CASE UNCHANGED <<queue, inFlight>>
    BY <1>2, <1>3 DEF BelowCountLimit, DepthOf
  <1>4. CASE inFlight' = NoEntry /\ queue' = queue
    <2>1. DepthOf(queue)' <= DepthOf(queue) /\ DepthOf(queue)' \in Nat /\ DepthOf(queue) \in Nat
      BY <1>1, <1>4 DEF DepthOf
    <2> QED BY <1>1, <1>2, <2>1 DEF BelowCountLimit
  <1>5. CASE inFlight = NoEntry /\ queue # <<>> /\ queue' = Tail(queue)
    <2>1. Len(queue') = Len(queue) - 1 /\ Len(queue) \in Nat
      BY <1>1, <1>5
    <2>2. DepthOf(queue)' <= DepthOf(queue) /\ DepthOf(queue)' \in Int /\ DepthOf(queue) \in Int
      BY <1>5, <2>1 DEF DepthOf
    <2> QED BY <1>1, <1>2, <2>2 DEF BelowCountLimit
  <1> QED BY <1>2, <1>3, <1>4, <1>5
      DEF Core1TakeEvent, Core0Loop, Take, PublishDone, PublishDiscarded, CompleteInFlight,
       PublishFailed, Core0PutEvent, Core0EventStep, Environment, outVars, vars

\* No step of a call above the floor adds a second victim.
LEMMA VictimsStep == TypeInv /\ CountCeiling /\ VictimsInv /\ [Next]_vars => VictimsInv'
  <1> SUFFICES ASSUME TypeInv, CountCeiling, VictimsInv, [Next]_vars PROVE VictimsInv'
    OBVIOUS
  <1>1. call \in CallType /\ free \in Nat /\ HeapTypeOK
    BY CallFacts DEF OutTypeOK, HeapTypeOK
  <1>2. CASE Core1Put
    <2>1. pc1 = "idle" /\ pc1' \in {"idle", "serialize", "admit"}
      BY <1>2 DEF Core1Put, Put, PutWithKind, PutWithKindTooLarge
    <2> QED BY <2>1 DEF VictimsInv, Relieved
  <1>3. CASE Core1Step
    <2>1. CASE SerializeOk \/ SerializeRefused \/ SerializeCollect \/ SerializeEvict
               \/ SerializeMemoryError \/ AppendKept \/ AppendMemoryError \/ Reject
      <3>1. pc1' \in {"idle", "serialize", "admit"}
        BY <2>1 DEF SerializeOk, SerializeRefused, SerializeCollect, SerializeEvict,
           SerializeMemoryError, AppendKept, AppendMemoryError, Reject, Return
      <3> QED BY <3>1 DEF VictimsInv, Relieved
    <2>2. CASE AcquireHeapLock \/ MeasurePreferred
      <3>1. pc1' \in {"measure", "band"} /\ call'.victims = {}
        BY <1>1, <2>2 DEF AcquireHeapLock, MeasurePreferred, VictimsInv, CallType
      <3> QED BY <3>1 DEF VictimsInv, Relieved
    <2>3. CASE SelectBand
      <3>1. call'.victims = {} /\ pc1' \in {"normal", "soft", "hard"}
        BY <1>1, <2>3 DEF SelectBand, VictimsInv, CallType
      <3> QED BY <3>1 DEF VictimsInv, Relieved
    <2>4. CASE SoftNothingEligible
      <3>1. call'.victims = {} /\ pc1' = "normal"
        BY <2>4 DEF SoftNothingEligible, VictimsInv
      <3> QED BY <3>1 DEF VictimsInv, Relieved
    <2>5. CASE SoftEvict \/ Displace
      <3>1. /\ EvictAndCollect /\ pc1' \in {"normal", "hard"}
            /\ ~ call.floor => call.victims = {}
        BY <2>5 DEF SoftEvict, Displace, VictimsInv
      <3>2. BelowCountLimit' /\ call'.floor = call.floor
        BY <3>1, EvictCounts
      <3>3. ~ call'.floor => \E e : call'.victims = {e}
        BY <3>1, EvictCounts
      <3> QED BY <3>1, <3>2, <3>3 DEF VictimsInv, Relieved
    <2>6. CASE CountRelief
      <3>1. EvictAndCollect /\ pc1' \in Relieved /\ (~ call.floor => call.victims = {})
        BY <2>6 DEF CountRelief, VictimsInv, Relieved
      <3>2. ~ call'.floor => AtMostOne(call'.victims)
        BY <3>1, EvictCounts DEF AtMostOne
      <3> QED BY <3>1, <3>2 DEF VictimsInv, Relieved
    <2>7. CASE CountFull
      <3>1. pc1' \in {"hard", "displace"} /\ call' = call /\ (~ call.floor => call.victims = {})
        BY <2>7 DEF CountFull, AfterFailure, VictimsInv
      <3> QED BY <3>1 DEF VictimsInv, Relieved
    <2>8. CASE AppendRolledBack
      <3>1. pc1' \in {"hard", "displace"} /\ call'.floor = TRUE
        BY <1>1, <2>8 DEF AppendRolledBack, AfterFailure, CallType
      <3> QED BY <3>1 DEF VictimsInv, Relieved
    <2>9. CASE MeasureFloor
      <3>1. /\ call'.victims = call.victims /\ call'.floor = (call.floor \/ ~ ReserveRestored)
            /\ UNCHANGED <<queue, inFlight>>
        BY <1>1, <2>9 DEF MeasureFloor, CallType
      <3>2. CASE ReserveRestored
        <4>1. pc1 = "hard" /\ pc1' = "hard_append" /\ call'.floor = call.floor
          BY <1>1, <2>9, <3>1, <3>2 DEF MeasureFloor, CallType
        <4>2. BelowCountLimit' <=> BelowCountLimit
          BY <3>1 DEF BelowCountLimit, DepthOf
        <4> QED BY <3>1, <4>1, <4>2 DEF VictimsInv, Relieved
      <3>3. CASE ~ ReserveRestored
        <4>1. pc1' = "displace" /\ call'.floor
          BY <2>9, <3>1, <3>3 DEF MeasureFloor
        <4> QED BY <4>1 DEF VictimsInv, Relieved
      <3> QED BY <3>2, <3>3
    <2> QED BY <1>3, <2>1, <2>2, <2>3, <2>4, <2>5, <2>6, <2>7, <2>8, <2>9
        DEF Core1Step, PutStep
  <1>4. CASE Core1TakeEvent \/ Core0Loop \/ Core0PutEvent \/ Core0EventStep \/ Environment
             \/ UNCHANGED vars
    <2>1. UNCHANGED <<pc1, call>> /\ (BelowCountLimit => BelowCountLimit')
      BY <1>4, OthersKeepRoom
    <2> QED BY <2>1 DEF VictimsInv, Relieved, AtMostOne
  <1> QED BY <1>2, <1>3, <1>4 DEF Next

\* An admission that never meets the hard floor costs at most one retained entry, even
\* when soft pressure and the count ceiling meet in it.
THEOREM OneVictimPerAdmission == Spec => []OneVictimAboveFloor
  <1>1. Init => VictimsInv
    BY DEF Init, OutInit, VictimsInv, Relieved
  <1>2. VictimsInv => OneVictimAboveFloor
    <2> SUFFICES ASSUME VictimsInv, pc1 \in AdmissionSteps, ~ call.floor
                 PROVE  Cardinality(call.victims) <= 1
      BY DEF OneVictimAboveFloor
    <2>1. call.victims = {} \/ \E e : call.victims = {e}
      BY DEF VictimsInv, AdmissionSteps, AtMostOne, Relieved
    <2>2. CASE call.victims = {}
      BY <2>2, FS_EmptySet
    <2>3. ASSUME NEW e, call.victims = {e} PROVE Cardinality(call.victims) <= 1
      <3>1. Cardinality({e}) = 1
        BY FS_Singleton
      <3> QED BY <2>3, <3>1
    <2> QED BY <2>1, <2>2, <2>3
  <1> QED BY <1>1, <1>2, VictimsStep, DepthWithinCeiling, TypeInvariant, PTL DEF Spec

-----------------------------------------------------------------------------
(* Sums.  FoldFunction picks the positions of a sequence in an order of its  *)
(* own.  A function that gives every set of positions its sum, in whatever   *)
(* order it is taken, exists by induction on the length, and is what the     *)
(* fold computes by induction on the number of positions.                    *)

\* A non-empty set of naturals has a least element: the form in which induction is used.
LEMMA LeastNatural ==
  ASSUME NEW T \in SUBSET Nat, T # {}
  PROVE  \E n \in T : \A m \in T : n <= m
  <1> DEFINE R == {ss \in Nat \X Nat : ss[1] < ss[2]}
  <1>1. IsWellFoundedOn(R, Nat)
    BY NatLessThanWellFounded DEF OpToRel
  <1>2. \A m, n \in Nat : m < n => <<m, n>> \in R
    OBVIOUS
  <1> HIDE DEF R
  <1>3. PICK n \in T : \A m \in T : ~ (<<m, n>> \in R)
    BY <1>1, WFMin
  <1>4. \A m \in T : ~ (m < n) /\ m \in Nat /\ n \in Nat
    BY <1>2, <1>3
  <1> QED BY <1>4

\* A set of naturals that holds 0 and every successor of its members holds them all.
LEMMA NaturalsReached ==
  ASSUME NEW T \in SUBSET Nat, 0 \in T, \A n \in T : n + 1 \in T
  PROVE  T = Nat
  <1> SUFFICES ASSUME Nat \ T # {} PROVE FALSE
    OBVIOUS
  <1>1. PICK n \in Nat \ T : \A m \in Nat \ T : n <= m
    BY LeastNatural
  <1>2. n # 0 /\ n - 1 \in Nat /\ ~ (n <= n - 1) /\ (n - 1) + 1 = n
    BY <1>1
  <1>3. n - 1 \in T
    BY <1>1, <1>2
  <1> QED BY <1>1, <1>2, <1>3

\* S gives every set of the positions 1..n the sum of its weights, plus base.
IsSum(S, w, n, base) ==
    /\ S \in [SUBSET (1..n) -> Int]
    /\ S[{}] = base
    /\ \A s \in SUBSET (1..n) : \A x \in s : S[s] = w[x] + S[s \ {x}]

\* One more position: the sets that hold it add its weight.
LEMMA SumExtends ==
  ASSUME NEW w, NEW base \in Int, NEW n \in Nat, w[n + 1] \in Int,
         \A i \in 1..n : w[i] \in Int, NEW S, IsSum(S, w, n, base)
  PROVE  \E U : IsSum(U, w, n + 1, base)
  <1> DEFINE p == n + 1
             U == [s \in SUBSET (1..p) |-> IF p \in s THEN w[p] + S[s \ {p}] ELSE S[s]]
  <1>1. /\ S \in [SUBSET (1..n) -> Int] /\ S[{}] = base
        /\ \A s \in SUBSET (1..n) : \A x \in s : S[s] = w[x] + S[s \ {x}]
    BY DEF IsSum
  <1>2. /\ \A x : x \in 1..p <=> (x \in 1..n \/ x = p)
        /\ p \notin 1..n /\ p \in 1..p
    OBVIOUS
  <1>3. w[p] \in Int
    OBVIOUS
  <1> HIDE DEF p
  <1>4. \A s \in SUBSET (1..p) : s \ {p} \in SUBSET (1..n) /\ (p \notin s => s \in SUBSET (1..n))
    BY <1>2
  <1>5. U \in [SUBSET (1..p) -> Int]
    BY <1>1, <1>3, <1>4
  <1>6. U[{}] = base
    <2>1. {} \in SUBSET (1..p) /\ p \notin {}
      OBVIOUS
    <2> QED BY <1>1, <2>1
  <1>7. ASSUME NEW s \in SUBSET (1..p), NEW x \in s
        PROVE  U[s] = w[x] + U[s \ {x}]
    <2>1. s \ {x} \in SUBSET (1..p)
      OBVIOUS
    <2>2. CASE x = p
      <3>1. U[s] = w[p] + S[s \ {p}] /\ U[s \ {x}] = S[s \ {p}]
        BY <2>1, <2>2
      <3> QED BY <2>2, <3>1
    <2>3. CASE x # p /\ p \in s
      <3>1. U[s] = w[p] + S[s \ {p}] /\ U[s \ {x}] = w[p] + S[(s \ {x}) \ {p}]
        BY <2>1, <2>3
      <3>2. (s \ {x}) \ {p} = (s \ {p}) \ {x} /\ x \in s \ {p} /\ x \in 1..n
        BY <1>2, <2>3
      <3>3. S[s \ {p}] = w[x] + S[(s \ {p}) \ {x}]
        BY <1>1, <1>4, <3>2
      <3>4. w[x] \in Int /\ S[(s \ {p}) \ {x}] \in Int
        <4>1. (s \ {p}) \ {x} \in SUBSET (1..n)
          BY <1>4
        <4> QED BY <1>1, <3>2, <4>1
      <3> DEFINE a == S[(s \ {p}) \ {x}]
      <3>5. U[s] = w[p] + (w[x] + a) /\ U[s \ {x}] = w[p] + a
        BY <3>1, <3>2, <3>3
      <3> HIDE DEF a, U
      <3>6. a \in Int
        BY <3>4 DEF a
      <3> QED BY <1>3, <3>4, <3>5, <3>6
    <2>4. CASE p \notin s
      <3>1. U[s] = S[s] /\ U[s \ {x}] = S[s \ {x}]
        BY <2>1, <2>4
      <3> QED BY <1>1, <1>4, <2>4, <3>1
    <2> QED BY <2>2, <2>3, <2>4
  <1> HIDE DEF U
  <1>8. IsSum(U, w, p, base)
    BY <1>5, <1>6, <1>7 DEF IsSum
  <1> QED BY <1>8 DEF p

\* Every finite list of weights has its sums.
LEMMA SumExists ==
  ASSUME NEW w, NEW base \in Int, NEW L \in Nat, \A i \in 1..L : w[i] \in Int
  PROVE  \E S : IsSum(S, w, L, base)
  <1> DEFINE T == {n \in Nat : n <= L => \E S : IsSum(S, w, n, base)}
  <1>1. 0 \in T
    <2> DEFINE S == [s \in SUBSET (1..0) |-> base]
    <2>1. IsSum(S, w, 0, base)
      <3>1. 1..0 = {}
        OBVIOUS
      <3>2. S \in [SUBSET (1..0) -> Int] /\ S[{}] = base
        OBVIOUS
      <3> HIDE DEF S
      <3> QED BY <3>1, <3>2 DEF IsSum
    <2> QED BY <2>1
  <1>2. ASSUME NEW n \in T PROVE n + 1 \in T
    <2> SUFFICES ASSUME n + 1 <= L PROVE \E S : IsSum(S, w, n + 1, base)
      BY <1>2
    <2>1. n \in Nat /\ n <= L /\ n + 1 \in 1..L /\ \A i \in 1..n : i \in 1..L
      BY <1>2
    <2>2. PICK S : IsSum(S, w, n, base)
      BY <1>2, <2>1
    <2> QED BY <2>1, <2>2, SumExtends
  <1> HIDE DEF T
  <1>3. T \in SUBSET Nat
    BY DEF T
  <1>4. T = Nat
    BY <1>1, <1>2, <1>3, NaturalsReached
  <1> QED BY <1>4 DEF T

\* The bytes of a queue on top of base, as RetainedBytesExact counts them.
BytesOf(q, base) == FoldFunction(LAMBDA e, n : e.size + n, base, q)

\* The recursive function that computes it, on every set of positions.
Folding(q, base) ==
    CHOOSE g : g = [s \in SUBSET DOMAIN q |->
                      IF s = {} THEN base
                      ELSE q[CHOOSE x \in s : TRUE].size + g[s \ {CHOOSE x \in s : TRUE}]]

\* What the definition of that fold unfolds to.
LEMMA FoldUnfolds ==
  ASSUME NEW q, NEW base
  PROVE  BytesOf(q, base) = Folding(q, base)[DOMAIN q]
  BY DEF BytesOf, Folding, FoldFunction, FoldFunctionOnSet, MapThenFoldSet

\* The fold over a queue is its sum, taken in any order.
LEMMA FoldIsSum ==
  ASSUME NEW q \in Seq(EntryType), NEW base \in Int, NEW w, NEW S,
         \A i \in 1..Len(q) : w[i] = q[i].size, IsSum(S, w, Len(q), base)
  PROVE  BytesOf(q, base) = S[1..Len(q)]
  <1> DEFINE D == DOMAIN q
             pick(s) == CHOOSE x \in s : TRUE
             Eq(g) == g = [s \in SUBSET D |->
                             IF s = {} THEN base ELSE q[pick(s)].size + g[s \ {pick(s)}]]
             I == Folding(q, base)
  <1>1. D = 1..Len(q) /\ Len(q) \in Nat
    OBVIOUS
  <1>2. /\ S \in [SUBSET D -> Int] /\ S[{}] = base
        /\ \A s \in SUBSET D : \A x \in s : S[s] = w[x] + S[s \ {x}]
        /\ \A i \in D : w[i] = q[i].size
    <2> HIDE DEF D
    <2> QED BY <1>1 DEF IsSum
  <1>3. BytesOf(q, base) = I[D]
    BY FoldUnfolds
  <1>4. \A s \in SUBSET D : s # {} => pick(s) \in s /\ pick(s) \in D
    OBVIOUS
  <1>5. IsFiniteSet(D)
    BY <1>1, FS_Interval
  <1> HIDE DEF D, pick
  <1>6. Eq(S)
    <2>1. \A s \in SUBSET D :
             S[s] = IF s = {} THEN base ELSE q[pick(s)].size + S[s \ {pick(s)}]
      BY <1>2, <1>4
    <2> QED BY <1>2, <2>1
  <1>7. Eq(I)
    <2>1. \E g : Eq(g)
      BY <1>6
    <2>2. I = CHOOSE g : Eq(g)
      BY DEF Folding, pick, D
    <2> HIDE DEF Eq, I
    <2> QED BY <2>1, <2>2
  <1> HIDE DEF I
  <1>8. \A s \in SUBSET D : I[s] = IF s = {} THEN base ELSE q[pick(s)].size + I[s \ {pick(s)}]
    BY <1>7
  <1> HIDE DEF Eq
  <1> DEFINE T == {n \in Nat : \A s \in SUBSET D : Cardinality(s) = n => I[s] = S[s]}
  <1>9. \A s \in SUBSET D : IsFiniteSet(s) /\ Cardinality(s) \in Nat
    BY <1>5, FS_Subset, FS_CardinalityType
  <1>10. 0 \in T
    <2>1. ASSUME NEW s \in SUBSET D, Cardinality(s) = 0 PROVE I[s] = S[s]
      <3>1. s = {}
        BY <1>9, <2>1, FS_EmptySet
      <3> QED BY <1>2, <1>8, <3>1
    <2> QED BY <2>1
  <1>11. ASSUME NEW n \in T PROVE n + 1 \in T
    <2>1. n \in Nat /\ \A s \in SUBSET D : Cardinality(s) = n => I[s] = S[s]
      BY <1>11
    <2>2. ASSUME NEW s \in SUBSET D, Cardinality(s) = n + 1 PROVE I[s] = S[s]
      <3>1. s # {}
        <4>1. s = {} => Cardinality(s) = 0
          BY FS_EmptySet
        <4>2. n + 1 # 0
          BY <2>1
        <4> QED BY <2>2, <4>1, <4>2
      <3>2. pick(s) \in s /\ pick(s) \in D /\ s \ {pick(s)} \in SUBSET D
        BY <1>4, <3>1
      <3>3. Cardinality(s \ {pick(s)}) = Cardinality(s) - 1
        BY <1>9, <3>2, FS_RemoveElement
      <3>4. Cardinality(s \ {pick(s)}) = n
        BY <2>1, <2>2, <3>3
      <3>5. I[s \ {pick(s)}] = S[s \ {pick(s)}]
        BY <2>1, <3>2, <3>4
      <3>6. S[s] = w[pick(s)] + S[s \ {pick(s)}] /\ w[pick(s)] = q[pick(s)].size
        BY <1>2, <3>2
      <3> QED BY <1>8, <3>1, <3>5, <3>6
    <2> QED BY <2>1, <2>2
  <1> HIDE DEF T
  <1>12. T = Nat
    <2>1. T \in SUBSET Nat
      BY DEF T
    <2> QED BY <1>10, <1>11, <2>1, NaturalsReached
  <1>13. I[D] = S[D]
    BY <1>9, <1>12 DEF T
  <1> QED BY <1>1, <1>3, <1>13

\* Running totals: f[i] is the base and the first i entries.
IsTotal(f, q, base) ==
    /\ f \in [0..Len(q) -> Int]
    /\ f[0] = base
    /\ \A i \in 1..Len(q) : f[i] = f[i - 1] + q[i].size

\* Every queue has running totals, and they end at its bytes.
LEMMA TotalExists ==
  ASSUME NEW q \in Seq(EntryType), NEW base \in Int
  PROVE  \E f : IsTotal(f, q, base) /\ f[Len(q)] = BytesOf(q, base)
  <1> DEFINE w == [i \in 1..Len(q) |-> q[i].size]
  <1>1. Len(q) \in Nat /\ \A i \in 1..Len(q) : q[i] \in EntryType
    OBVIOUS
  <1>2. \A i \in 1..Len(q) : w[i] = q[i].size /\ w[i] \in Int
    BY <1>1 DEF EntryType
  <1> HIDE DEF w
  <1>3. PICK S : IsSum(S, w, Len(q), base)
    BY <1>1, <1>2, SumExists
  <1> DEFINE f == [i \in 0..Len(q) |-> S[1..i]]
  <1>4. /\ S \in [SUBSET (1..Len(q)) -> Int] /\ S[{}] = base
        /\ \A s \in SUBSET (1..Len(q)) : \A x \in s : S[s] = w[x] + S[s \ {x}]
    BY <1>3 DEF IsSum
  <1>5. \A i \in 0..Len(q) : 1..i \in SUBSET (1..Len(q))
    BY <1>1
  <1>6. f \in [0..Len(q) -> Int]
    BY <1>4, <1>5
  <1>7. f[0] = base
    <2>1. 1..0 = {} /\ 0 \in 0..Len(q)
      BY <1>1
    <2> QED BY <1>4, <2>1
  <1>8. ASSUME NEW i \in 1..Len(q) PROVE f[i] = f[i - 1] + q[i].size
    <2>1. i \in 0..Len(q) /\ i - 1 \in 0..Len(q) /\ i \in 1..i /\ (1..i) \ {i} = 1..(i - 1)
      BY <1>1
    <2>2. f[i] = S[1..i] /\ f[i - 1] = S[1..(i - 1)]
      BY <2>1
    <2>3. S[1..i] = w[i] + S[(1..i) \ {i}]
      BY <1>4, <1>5, <2>1
    <2>4. f[i] = w[i] + f[i - 1] /\ f[i - 1] \in Int
      BY <1>6, <2>1, <2>2, <2>3
    <2> HIDE DEF f
    <2> QED BY <1>2, <2>4
  <1>9. f[Len(q)] = BytesOf(q, base)
    <2>1. BytesOf(q, base) = S[1..Len(q)]
      BY <1>2, <1>3, FoldIsSum
    <2> QED BY <1>1, <2>1
  <1> HIDE DEF f
  <1>10. IsTotal(f, q, base)
    BY <1>6, <1>7, <1>8 DEF IsTotal
  <1> QED BY <1>9, <1>10

\* Whatever running totals are found, they end at the bytes of the queue.
LEMMA TotalIsBytes ==
  ASSUME NEW q \in Seq(EntryType), NEW base \in Int, NEW f, IsTotal(f, q, base)
  PROVE  f[Len(q)] = BytesOf(q, base) /\ BytesOf(q, base) \in Int
  <1>1. PICK g : IsTotal(g, q, base) /\ g[Len(q)] = BytesOf(q, base)
    BY TotalExists
  <1>2. Len(q) \in Nat
    OBVIOUS
  <1> DEFINE T == {n \in Nat : n <= Len(q) => f[n] = g[n]}
  <1>3. 0 \in T
    BY <1>1 DEF IsTotal
  <1>4. ASSUME NEW n \in T PROVE n + 1 \in T
    <2> SUFFICES ASSUME n + 1 <= Len(q) PROVE f[n + 1] = g[n + 1]
      BY <1>4
    <2>1. n \in Nat /\ f[n] = g[n] /\ n + 1 \in 1..Len(q) /\ (n + 1) - 1 = n
      BY <1>2, <1>4
    <2> QED BY <1>1, <2>1 DEF IsTotal
  <1> HIDE DEF T
  <1>5. T = Nat
    <2>1. T \in SUBSET Nat
      BY DEF T
    <2> QED BY <1>3, <1>4, <2>1, NaturalsReached
  <1>6. f[Len(q)] = g[Len(q)]
    BY <1>2, <1>5 DEF T
  <1>7. f[Len(q)] \in Int
    BY <1>2 DEF IsTotal
  <1> QED BY <1>1, <1>6, <1>7

\* Appending an entry adds its size.
LEMMA BytesAppend ==
  ASSUME NEW q \in Seq(EntryType), NEW base \in Int, NEW e \in EntryType
  PROVE  BytesOf(Append(q, e), base) = BytesOf(q, base) + e.size
  <1>1. PICK f : IsTotal(f, q, base) /\ f[Len(q)] = BytesOf(q, base)
    BY TotalExists
  <1> DEFINE t == Append(q, e)
             L == Len(q)
             g == [i \in 0..(L + 1) |-> IF i = L + 1 THEN f[L] + e.size ELSE f[i]]
  <1>2. /\ t \in Seq(EntryType) /\ Len(t) = L + 1 /\ L \in Nat /\ t[L + 1] = e
        /\ \A i \in 1..L : t[i] = q[i]
    OBVIOUS
  <1>3. e.size \in Int
    BY DEF EntryType
  <1>4. f \in [0..L -> Int] /\ f[0] = base /\ \A i \in 1..L : f[i] = f[i - 1] + q[i].size
    BY <1>1 DEF IsTotal
  <1> HIDE DEF t, L
  <1>5. g \in [0..(L + 1) -> Int] /\ g[0] = base
    BY <1>2, <1>3, <1>4
  <1>6. ASSUME NEW i \in 1..(L + 1) PROVE g[i] = g[i - 1] + t[i].size
    <2>1. CASE i = L + 1
      <3>1. L \in 0..(L + 1) /\ L # L + 1 /\ i - 1 = L /\ L + 1 \in 0..(L + 1)
        BY <1>2, <2>1
      <3> QED BY <1>2, <2>1, <3>1
    <2>2. CASE i # L + 1
      <3>1. i \in 1..L /\ i \in 0..(L + 1) /\ i - 1 \in 0..(L + 1) /\ i - 1 # L + 1
        BY <1>2, <2>2
      <3>2. g[i] = f[i] /\ g[i - 1] = f[i - 1]
        BY <2>2, <3>1
      <3> HIDE DEF g
      <3> QED BY <1>2, <1>4, <3>1, <3>2
    <2> QED BY <2>1, <2>2
  <1>7. g[L + 1] = f[L] + e.size
    BY <1>2
  <1> HIDE DEF g
  <1>8. IsTotal(g, t, base)
    BY <1>2, <1>5, <1>6 DEF IsTotal
  <1>9. g[L + 1] = BytesOf(t, base)
    BY <1>2, <1>8, TotalIsBytes
  <1> QED BY <1>1, <1>7, <1>9 DEF t, L

\* Removing an entry subtracts its size.
LEMMA BytesRemoveAt ==
  ASSUME NEW q \in Seq(EntryType), NEW base \in Int, NEW p \in 1..Len(q)
  PROVE  BytesOf(RemoveAt(q, p), base) = BytesOf(q, base) - q[p].size
  <1>1. PICK f : IsTotal(f, q, base) /\ f[Len(q)] = BytesOf(q, base)
    BY TotalExists
  <1> DEFINE t == RemoveAt(q, p)
             L == Len(q)
             z == q[p].size
             g == [i \in 0..(L - 1) |-> IF i < p THEN f[i] ELSE f[i + 1] - z]
  <1>2. /\ t \in Seq(EntryType) /\ Len(t) = L - 1
        /\ \A i \in 1..(L - 1) : t[i] = IF i < p THEN q[i] ELSE q[i + 1]
    BY RemoveAtProperties
  <1>3. L \in Nat /\ p \in 1..L /\ z \in Int /\ \A i \in 1..L : q[i].size \in Int
    <2>1. \A i \in 1..Len(q) : q[i] \in EntryType
      OBVIOUS
    <2> QED BY <2>1 DEF EntryType
  <1>4. f \in [0..L -> Int] /\ f[0] = base /\ \A i \in 1..L : f[i] = f[i - 1] + q[i].size
    BY <1>1 DEF IsTotal
  <1>4a. f[p] = f[p - 1] + z /\ f[p - 1] \in Int
    BY <1>3, <1>4
  <1> HIDE DEF t, L, z
  <1>5. g \in [0..(L - 1) -> Int] /\ g[0] = base
    <2>1. \A i \in 0..(L - 1) : i \in 0..L /\ i + 1 \in 0..L
      BY <1>3
    <2>2. \A i \in 0..(L - 1) : f[i] \in Int /\ f[i + 1] - z \in Int
      <3>1. \A i \in 0..(L - 1) : f[i] \in Int /\ f[i + 1] \in Int
        BY <1>4, <2>1
      <3> QED BY <1>3, <3>1
    <2>3. 0 \in 0..(L - 1) /\ 0 < p
      BY <1>3
    <2> QED BY <1>4, <2>2, <2>3
  <1>6. ASSUME NEW i \in 1..(L - 1) PROVE g[i] = g[i - 1] + t[i].size
    <2>0. i \in 0..(L - 1) /\ i - 1 \in 0..(L - 1) /\ i \in 1..L /\ i + 1 \in 1..L /\ (i + 1) - 1 = i
          /\ i \in Int /\ p \in Int
      BY <1>3
    <2>1. CASE i < p
      <3>1. g[i] = f[i] /\ g[i - 1] = f[i - 1] /\ t[i] = q[i]
        BY <1>2, <1>3, <2>0, <2>1
      <3> HIDE DEF g
      <3> QED BY <1>4, <2>0, <3>1
    <2>2. CASE i = p
      <3>1. g[i] = f[i + 1] - z /\ g[i - 1] = f[i - 1] /\ t[i] = q[i + 1]
        BY <1>2, <1>3, <2>0, <2>2
      <3>2. f[i + 1] = f[i] + q[i + 1].size /\ f[i] = f[i - 1] + z /\ f[i - 1] \in Int
        BY <1>4, <1>4a, <2>0, <2>2
      <3> HIDE DEF g
      <3> QED BY <1>3, <2>0, <3>1, <3>2
    <2>3. CASE i > p
      <3>1. g[i] = f[i + 1] - z /\ g[i - 1] = f[i] - z /\ t[i] = q[i + 1]
        BY <1>2, <1>3, <2>0, <2>3
      <3>2. f[i + 1] = f[i] + q[i + 1].size /\ f[i] \in Int
        <4>1. i \in 0..L
          BY <1>3, <2>0
        <4>2. f[i + 1] = f[(i + 1) - 1] + q[i + 1].size
          BY <1>4, <2>0
        <4> QED BY <1>4, <2>0, <4>1, <4>2
      <3> HIDE DEF g
      <3> QED BY <1>3, <2>0, <3>1, <3>2
    <2> QED BY <2>0, <2>1, <2>2, <2>3
  <1>7. g[L - 1] = f[L] - z
    <2>1. CASE p = L
      <3>1. g[L - 1] = f[L - 1]
        BY <1>3, <2>1
      <3> HIDE DEF g
      <3> QED BY <1>4a, <2>1, <3>1, <1>3
    <2>2. CASE p # L
      BY <1>3, <2>2
    <2> QED BY <2>1, <2>2
  <1> HIDE DEF g
  <1>8. IsTotal(g, t, base)
    BY <1>2, <1>5, <1>6 DEF IsTotal
  <1>9. g[L - 1] = BytesOf(t, base)
    BY <1>2, <1>8, TotalIsBytes
  <1> QED BY <1>1, <1>7, <1>9 DEF t, L, z

\* The base is part of the sum, whatever the order.
LEMMA BytesBase ==
  ASSUME NEW q \in Seq(EntryType), NEW base \in Int, NEW d \in Int
  PROVE  BytesOf(q, base + d) = BytesOf(q, base) + d
  <1>1. PICK f : IsTotal(f, q, base) /\ f[Len(q)] = BytesOf(q, base)
    BY TotalExists
  <1> DEFINE g == [i \in 0..Len(q) |-> f[i] + d]
  <1>2. Len(q) \in Nat /\ base + d \in Int /\ \A i \in 1..Len(q) : q[i].size \in Int
    <2>1. \A i \in 1..Len(q) : q[i] \in EntryType
      OBVIOUS
    <2> QED BY <2>1 DEF EntryType
  <1>3. f \in [0..Len(q) -> Int] /\ f[0] = base
        /\ \A i \in 1..Len(q) : f[i] = f[i - 1] + q[i].size
    BY <1>1 DEF IsTotal
  <1>4. g \in [0..Len(q) -> Int] /\ g[0] = base + d
    BY <1>2, <1>3
  <1>5. ASSUME NEW i \in 1..Len(q) PROVE g[i] = g[i - 1] + q[i].size
    <2>1. i \in 0..Len(q) /\ i - 1 \in 0..Len(q)
      BY <1>2
    <2>2. g[i] = f[i] + d /\ g[i - 1] = f[i - 1] + d /\ f[i - 1] \in Int
      BY <1>3, <2>1
    <2> HIDE DEF g
    <2> QED BY <1>2, <1>3, <2>2
  <1>6. g[Len(q)] = f[Len(q)] + d
    BY <1>2
  <1> HIDE DEF g
  <1>7. IsTotal(g, q, base + d)
    BY <1>4, <1>5 DEF IsTotal
  <1>8. g[Len(q)] = BytesOf(q, base + d)
    BY <1>2, <1>7, TotalIsBytes
  <1> QED BY <1>1, <1>6, <1>8

\* The head moves from the queue to the base when it goes in flight.
LEMMA BytesTail ==
  ASSUME NEW q \in Seq(EntryType), q # <<>>, NEW base \in Int
  PROVE  BytesOf(Tail(q), base + Head(q).size) = BytesOf(q, base)
  <1>1. PICK f : IsTotal(f, q, base) /\ f[Len(q)] = BytesOf(q, base)
    BY TotalExists
  <1> DEFINE t == Tail(q)
             L == Len(q)
             b == base + Head(q).size
             g == [i \in 0..(L - 1) |-> f[i + 1]]
  <1>2. /\ t \in Seq(EntryType) /\ Len(t) = L - 1 /\ L \in Nat \ {0}
        /\ \A i \in 1..(L - 1) : t[i] = q[i + 1]
        /\ Head(q) = q[1] /\ q[1] \in EntryType
    OBVIOUS
  <1>3. b \in Int /\ b = base + q[1].size
    BY <1>2 DEF EntryType
  <1>4. f \in [0..L -> Int] /\ f[0] = base /\ \A i \in 1..L : f[i] = f[i - 1] + q[i].size
    BY <1>1 DEF IsTotal
  <1>5. f[1] = b
    BY <1>2, <1>3, <1>4
  <1> HIDE DEF t, L, b
  <1>6. g \in [0..(L - 1) -> Int] /\ g[0] = b
    BY <1>2, <1>4, <1>5
  <1>7. ASSUME NEW i \in 1..(L - 1) PROVE g[i] = g[i - 1] + t[i].size
    <2>1. i \in 0..(L - 1) /\ i - 1 \in 0..(L - 1) /\ i + 1 \in 1..L /\ (i - 1) + 1 = i
          /\ (i + 1) - 1 = i
      BY <1>2
    <2>2. g[i] = f[i + 1] /\ g[i - 1] = f[i] /\ t[i] = q[i + 1]
      BY <1>2, <2>1
    <2> HIDE DEF g
    <2> QED BY <1>4, <2>1, <2>2
  <1>8. g[L - 1] = f[L]
    BY <1>2
  <1> HIDE DEF g
  <1>9. IsTotal(g, t, b)
    BY <1>2, <1>6, <1>7 DEF IsTotal
  <1>10. g[L - 1] = BytesOf(t, b)
    BY <1>2, <1>3, <1>9, TotalIsBytes
  <1> QED BY <1>1, <1>8, <1>10 DEF t, L, b

-----------------------------------------------------------------------------
(* The ledger.  queued_bytes follows the sum of what is retained; and an     *)
(* entry is counted once because its number is: the next one is later than   *)
(* all admitted, and what is queued or in flight was not displaced.          *)

InFlightSize == IF inFlight = NoEntry THEN 0 ELSE inFlight.size

BytesInv ==
    /\ stats.queued_bytes = BytesOf(queue, InFlightSize)
    /\ stats.queued_bytes <= stats.high_watermark_bytes

LedgerInv ==
    /\ NothingLost
    /\ IsFiniteSet(admitted) /\ IsFiniteSet(evicted)
    /\ Live \cap evicted = {}
    /\ \A e \in admitted : Earlier(e)

\* Every step moves queued_bytes by what it moves in or out of the lane.
LEMMA BytesStep == TypeInv /\ BytesInv /\ [Next]_vars => BytesInv'
  <1> SUFFICES ASSUME TypeInv, BytesInv, [Next]_vars PROVE BytesInv'
    OBVIOUS
  <1> DEFINE hw == stats.high_watermark_bytes
             qb == stats.queued_bytes
             b == InFlightSize
  <1>1. /\ OutTypeOK /\ queue \in Seq(EntryType) /\ stats \in StatsType
        /\ inFlight \in EntryType \cup {NoEntry} /\ qb \in Int /\ hw \in Int
    BY CallFacts DEF OutTypeOK, StatsType, StatFields
  <1>2. \A e \in EntryType : e.size \in Nat
    BY DEF EntryType
  <1>3. b \in Int
    BY <1>1, <1>2 DEF InFlightSize
  <1>4. qb = BytesOf(queue, b) /\ qb <= hw
    BY DEF BytesInv
  <1>5. CASE Evicting
    <2>1. EvictAndCollect
      BY <1>5 DEF Evicting, SerializeEvict, SoftEvict, CountRelief, Displace
    <2>2. PICK i \in 1..Len(queue) :
             /\ queue[i] \in EntryType
             /\ queue' = RemoveAt(queue, i)
             /\ stats' = [stats EXCEPT
                   !.queued_bytes = @ - queue[i].size,
                   !.messages_evicted = @ + 1,
                   !.telemetry_evicted = @ + (IF queue[i].kind = "telemetry" THEN 1 ELSE 0)]
             /\ inFlight' = inFlight
      BY <1>1, <2>1, EvictFacts
    <2>3. stats'.queued_bytes = qb - queue[i].size /\ stats'.high_watermark_bytes = hw
      BY <1>1, <2>2 DEF StatsType, StatFields
    <2>4. BytesOf(queue', b) = BytesOf(queue, b) - queue[i].size /\ InFlightSize' = b
      BY <1>1, <1>3, <2>2, BytesRemoveAt DEF InFlightSize
    <2>5. queue[i].size \in Nat
      BY <1>2, <2>2
    <2> QED BY <1>1, <1>4, <2>3, <2>4, <2>5 DEF BytesInv
  <1>6. CASE AppendKept
    <2> DEFINE m == call.msg
               e == [id |-> puts, kind |-> m.kind, retention_priority |-> m.retention_priority,
                     size |-> m.size]
    <2>1. /\ pc1 # "idle" /\ queue' = Append(queue, e) /\ inFlight' = inFlight
          /\ stats'.queued_bytes = qb + m.size
          /\ stats'.high_watermark_bytes = IF qb + m.size > hw THEN qb + m.size ELSE hw
      BY <1>1, <1>6 DEF AppendKept, AppendSteps, StatsType, StatFields
    <2>2. e \in EntryType /\ e.size = m.size /\ m.size \in Int
      <3>1. m \in Messages /\ puts \in Nat \ {0}
        BY <1>1, <2>1, OutboundAssumption DEF TypeInv, CallOK, OutTypeOK
      <3> QED BY <3>1, MessageFields DEF EntryType
    <2> HIDE DEF e, m
    <2>3. BytesOf(queue', b) = BytesOf(queue, b) + m.size
      BY <1>1, <1>3, <2>1, <2>2, BytesAppend
    <2>4. InFlightSize' = b
      BY <2>1 DEF InFlightSize
    <2> QED BY <1>1, <1>4, <2>1, <2>2, <2>3, <2>4 DEF BytesInv
  <1>7. CASE Take
    <2>1. stats' = stats
      BY <1>7 DEF Take
    <2>2. CASE UNCHANGED <<queue, inFlight>>
      BY <2>1, <2>2 DEF BytesInv, InFlightSize
    <2>3. CASE inFlight = NoEntry /\ queue # <<>> /\ inFlight' = Head(queue) /\ queue' = Tail(queue)
      <3>1. Head(queue) \in EntryType
        BY <1>1, <2>3
      <3>2. b = 0 /\ InFlightSize' = Head(queue).size /\ Head(queue).size \in Nat
        BY <1>2, <2>3, <3>1, NoEntryAssumption DEF InFlightSize
      <3>3. BytesOf(Tail(queue), b + Head(queue).size) = BytesOf(queue, b)
        BY <1>1, <1>3, <2>3, BytesTail
      <3>4. b + Head(queue).size = InFlightSize'
        BY <3>2
      <3>5. BytesOf(queue', InFlightSize') = BytesOf(queue, b)
        BY <2>3, <3>3, <3>4
      <3> QED BY <1>4, <2>1, <3>5 DEF BytesInv
    <2> QED BY <1>7, <2>2, <2>3 DEF Take
  <1>8. CASE CompleteInFlight(TRUE) \/ CompleteInFlight(FALSE)
    <2>1. /\ inFlight # NoEntry /\ inFlight' = NoEntry /\ queue' = queue
          /\ stats'.queued_bytes = qb - inFlight.size /\ stats'.high_watermark_bytes = hw
      BY <1>1, <1>8 DEF CompleteInFlight, StatsType, StatFields
    <2>2. b = inFlight.size /\ b \in Nat /\ InFlightSize' = 0
      BY <1>1, <1>2, <2>1 DEF InFlightSize
    <2>3. BytesOf(queue, 0 + b) = BytesOf(queue, 0) + b /\ 0 + b = b
      BY <1>1, <1>3, BytesBase
    <2>4. BytesOf(queue, 0) \in Int
      <3>1. \E f : IsTotal(f, queue, 0)
        BY <1>1, TotalExists
      <3> QED BY <1>1, <3>1, TotalIsBytes
    <2>5. stats'.queued_bytes = BytesOf(queue', InFlightSize')
      BY <1>1, <1>4, <2>1, <2>2, <2>3, <2>4
    <2>6. stats'.queued_bytes <= stats'.high_watermark_bytes
      BY <1>1, <1>4, <2>1, <2>2
    <2> QED BY <2>5, <2>6 DEF BytesInv
  <1>9. CASE Quiet
    BY <1>9 DEF Quiet, SameRetention, BytesInv, InFlightSize
  <1> QED BY <1>5, <1>6, <1>7, <1>8, <1>9, StepKinds

\* What the sequence operators do to the set of entries.
LEMMA EntriesOf ==
  ASSUME NEW s \in Seq(EntryType)
  PROVE  /\ \A e \in EntryType : ToSet(Append(s, e)) = ToSet(s) \cup {e}
         /\ s # <<>> => ToSet(s) = {Head(s)} \cup ToSet(Tail(s))
         /\ Increasing(s) => \A i \in 1..Len(s) : /\ s[i] \in ToSet(s)
                                                  /\ ToSet(RemoveAt(s, i)) = ToSet(s) \ {s[i]}
  <1>1. DOMAIN s = 1..Len(s) /\ Len(s) \in Nat
    OBVIOUS
  <1>2. ASSUME NEW e \in EntryType PROVE ToSet(Append(s, e)) = ToSet(s) \cup {e}
    <2> DEFINE t == Append(s, e)
    <2>1. /\ DOMAIN t = 1..(Len(s) + 1) /\ t[Len(s) + 1] = e
          /\ \A k \in 1..Len(s) : t[k] = s[k]
      OBVIOUS
    <2>2. \A k : k \in 1..(Len(s) + 1) <=> k \in 1..Len(s) \/ k = Len(s) + 1
      BY <1>1
    <2> HIDE DEF t
    <2>3. ToSet(t) = ToSet(s) \cup {e}
      BY <1>1, <2>1, <2>2 DEF ToSet
    <2> QED BY <2>3 DEF t
  <1>3. ASSUME s # <<>> PROVE ToSet(s) = {Head(s)} \cup ToSet(Tail(s))
    <2> DEFINE t == Tail(s)
    <2>1. /\ DOMAIN t = 1..(Len(s) - 1) /\ Head(s) = s[1]
          /\ \A k \in 1..(Len(s) - 1) : t[k] = s[k + 1]
      BY <1>3
    <2>2. Len(s) >= 1
      BY <1>1, <1>3
    <2>3. /\ \A k \in 1..(Len(s) - 1) : k + 1 \in 1..Len(s)
          /\ \A k \in 1..Len(s) : k = 1 \/ (k - 1 \in 1..(Len(s) - 1) /\ (k - 1) + 1 = k)
          /\ 1 \in 1..Len(s)
      BY <1>1, <2>2
    <2> HIDE DEF t
    <2>4. \A x \in ToSet(t) : x \in ToSet(s)
      BY <1>1, <2>1, <2>3 DEF ToSet
    <2>5. ASSUME NEW x \in ToSet(s), x # s[1] PROVE x \in ToSet(t)
      <3>1. PICK k \in 1..Len(s) : x = s[k]
        BY <1>1 DEF ToSet
      <3>2. k - 1 \in 1..(Len(s) - 1) /\ t[k - 1] = s[k]
        BY <2>1, <2>3, <2>5, <3>1
      <3> QED BY <2>1, <3>1, <3>2 DEF ToSet
    <2>6. s[1] \in ToSet(s)
      BY <1>1, <2>3 DEF ToSet
    <2>7. ToSet(s) = {Head(s)} \cup ToSet(t)
      BY <2>1, <2>4, <2>5, <2>6
    <2> QED BY <2>7 DEF t
  <1>4. ASSUME Increasing(s), NEW i \in 1..Len(s)
        PROVE  s[i] \in ToSet(s) /\ ToSet(RemoveAt(s, i)) = ToSet(s) \ {s[i]}
    <2> DEFINE t == RemoveAt(s, i)
    <2>1. /\ t \in Seq(EntryType) /\ Len(t) = Len(s) - 1
          /\ \A k \in 1..(Len(s) - 1) : t[k] = IF k < i THEN s[k] ELSE s[k + 1]
      BY RemoveAtProperties
    <2> HIDE DEF t
    <2>2. DOMAIN t = 1..(Len(s) - 1) /\ i \in Int
      BY <2>1
    <2>3. \A k \in 1..Len(s) : k # i => s[k] # s[i]
      <3> SUFFICES ASSUME NEW k \in 1..Len(s), k # i, s[k] = s[i] PROVE FALSE
        OBVIOUS
      <3>1. k < i \/ i < k
        BY <1>1
      <3>2. s[k].id < s[i].id \/ s[i].id < s[k].id
        BY <1>1, <1>4, <3>1 DEF Increasing
      <3>3. s[i].id \in Nat
        <4>1. s[i] \in EntryType
          OBVIOUS
        <4> QED BY <4>1 DEF EntryType
      <3> QED BY <3>2, <3>3
    <2>4. \A k \in 1..(Len(s) - 1) : \E j \in 1..Len(s) : j # i /\ t[k] = s[j]
      <3> SUFFICES ASSUME NEW k \in 1..(Len(s) - 1)
                   PROVE  \E j \in 1..Len(s) : j # i /\ t[k] = s[j]
        OBVIOUS
      <3>1. CASE k < i
        <4>1. k \in 1..Len(s) /\ k # i /\ t[k] = s[k]
          BY <1>1, <2>1, <2>2, <3>1
        <4> QED BY <4>1
      <3>2. CASE ~ (k < i)
        <4>1. k + 1 \in 1..Len(s) /\ k + 1 # i /\ t[k] = s[k + 1]
          BY <1>1, <2>1, <2>2, <3>2
        <4> QED BY <4>1
      <3> QED BY <3>1, <3>2
    <2>5. \A j \in 1..Len(s) : j # i => \E k \in 1..(Len(s) - 1) : t[k] = s[j]
      <3> SUFFICES ASSUME NEW j \in 1..Len(s), j # i PROVE \E k \in 1..(Len(s) - 1) : t[k] = s[j]
        OBVIOUS
      <3>1. CASE j < i
        <4>1. j \in 1..(Len(s) - 1) /\ t[j] = s[j]
          BY <1>1, <2>1, <2>2, <3>1
        <4> QED BY <4>1
      <3>2. CASE i < j
        <4>1. j - 1 \in 1..(Len(s) - 1) /\ ~ (j - 1 < i) /\ (j - 1) + 1 = j
          BY <1>1, <2>2, <3>2
        <4>2. t[j - 1] = s[j]
          BY <2>1, <4>1
        <4> QED BY <4>1, <4>2
      <3> QED BY <1>1, <2>2, <3>1, <3>2
    <2>6. \A x \in ToSet(t) : x \in ToSet(s) /\ x # s[i]
      BY <1>1, <2>2, <2>3, <2>4 DEF ToSet
    <2>7. \A x \in ToSet(s) : x # s[i] => x \in ToSet(t)
      BY <1>1, <2>2, <2>5 DEF ToSet
    <2>8. s[i] \in ToSet(s)
      BY <1>1 DEF ToSet
    <2>9. ToSet(t) = ToSet(s) \ {s[i]}
      BY <2>6, <2>7
    <2> QED BY <2>8, <2>9 DEF t
  <1> QED BY <1>2, <1>3, <1>4

\* Every step keeps an admitted entry in exactly one place.
LEMMA LedgerStep == TypeInv /\ FifoInv /\ LedgerInv /\ [Next]_vars => LedgerInv'
  <1> SUFFICES ASSUME TypeInv, FifoInv, LedgerInv, [Next]_vars PROVE LedgerInv'
    OBVIOUS
  <1>1. /\ OutTypeOK /\ queue \in Seq(EntryType) /\ finished \in Seq(EntryType)
        /\ stats \in StatsType /\ inFlight \in EntryType \cup {NoEntry}
        /\ evicted \subseteq EntryType /\ admitted \subseteq EntryType
        /\ puts \in Nat /\ stats.messages_evicted \in Int
        /\ Len(queue) \in Nat /\ Len(finished) \in Nat
    BY CallFacts, OutboundAssumption DEF OutTypeOK, StatsType, StatFields
  <1>2. /\ admitted = Live \cup evicted \cup ToSet(finished)
        /\ Cardinality(admitted) = DepthOf(queue) + Cardinality(evicted) + Len(finished)
        /\ stats.messages_evicted = Cardinality(evicted)
        /\ IsFiniteSet(admitted) /\ IsFiniteSet(evicted)
        /\ Live \cap evicted = {}
        /\ \A e \in admitted : Earlier(e)
    BY DEF LedgerInv, NothingLost
  <1>3. Cardinality(admitted) \in Nat /\ Cardinality(evicted) \in Nat /\ DepthOf(queue) \in Nat
    BY <1>1, <1>2, FS_CardinalityType DEF DepthOf
  <1>4. CASE Evicting
    <2>1. EvictAndCollect /\ puts' = puts /\ pc1 # "idle"
      BY <1>4 DEF Evicting, SerializeEvict, SoftEvict, CountRelief, Displace
    <2>2. PICK i \in 1..Len(queue) :
             /\ queue[i] \in EntryType
             /\ queue' = RemoveAt(queue, i)
             /\ stats' = [stats EXCEPT
                   !.queued_bytes = @ - queue[i].size,
                   !.messages_evicted = @ + 1,
                   !.telemetry_evicted = @ + (IF queue[i].kind = "telemetry" THEN 1 ELSE 0)]
             /\ evicted' = evicted \cup {queue[i]}
             /\ UNCHANGED <<inFlight, admitted, finished>>
      BY <1>1, <2>1, EvictFacts
    <2> DEFINE v == queue[i]
    <2>3. ToSet(queue') = ToSet(queue) \ {v} /\ v \in ToSet(queue)
      BY <1>1, <2>2, EntriesOf DEF FifoInv, FifoDelivery
    <2>4. inFlight # v
      <3>1. inFlight # NoEntry => inFlight.id < v.id
        BY <1>1 DEF FifoInv, FifoDelivery
      <3>2. v.id \in Nat /\ v # NoEntry
        BY <2>2, NoEntryAssumption DEF EntryType
      <3> QED BY <3>1, <3>2
    <2> HIDE DEF v
    <2>5. v \in Live /\ Live' = Live \ {v} /\ evicted' = evicted \cup {v}
      BY <2>2, <2>3, <2>4 DEF Live, v
    <2>6. v \notin evicted
      BY <1>2, <2>5
    <2>7. Cardinality(evicted') = Cardinality(evicted) + 1 /\ IsFiniteSet(evicted')
      BY <1>2, <2>5, <2>6, FS_AddElement
    <2>8. stats'.messages_evicted = stats.messages_evicted + 1
      BY <1>1, <2>2 DEF StatsType, StatFields
    <2>9. DepthOf(queue)' = DepthOf(queue) - 1
      <3>1. Len(queue') = Len(queue) - 1
        BY <1>1, <2>2, RemoveAtProperties
      <3> QED BY <1>1, <2>2, <3>1 DEF DepthOf
    <2>10. admitted' = (Live \cup evicted \cup ToSet(finished))' /\ (Live \cap evicted)' = {}
      BY <1>2, <2>2, <2>5
    <2>11. /\ Cardinality(admitted') = DepthOf(queue)' + Cardinality(evicted') + Len(finished')
           /\ stats'.messages_evicted = Cardinality(evicted')
      BY <1>1, <1>2, <1>3, <2>2, <2>7, <2>8, <2>9
    <2>12. \A e \in admitted' : Earlier(e)'
      BY <1>2, <2>1, <2>2 DEF Earlier
    <2> QED BY <1>2, <2>2, <2>7, <2>10, <2>11, <2>12 DEF LedgerInv, NothingLost
  <1>5. CASE AppendKept
    <2> DEFINE e == [id |-> puts, kind |-> call.msg.kind,
                     retention_priority |-> call.msg.retention_priority,
                     size |-> call.msg.size]
    <2>1. /\ pc1 # "idle" /\ pc1' = "idle" /\ puts' = puts
          /\ queue' = Append(queue, e) /\ admitted' = admitted \cup {e}
          /\ UNCHANGED <<inFlight, evicted, finished>>
          /\ stats'.messages_evicted = stats.messages_evicted
      BY <1>1, <1>5 DEF AppendKept, AppendSteps, Return, StatsType, StatFields
    <2>2. e \in EntryType /\ e.id = puts
      <3>1. call.msg \in Messages /\ puts \in Nat \ {0}
        BY <1>1, <2>1 DEF TypeInv, CallOK
      <3> QED BY <3>1, MessageFields DEF EntryType
    <2> HIDE DEF e
    <2>3. e \notin admitted
      <3>1. ~ (e.id < puts)
        BY <1>1, <2>2
      <3> QED BY <1>2, <2>1, <3>1 DEF Earlier
    <2>4. Live' = Live \cup {e}
      BY <1>1, <2>1, <2>2, EntriesOf DEF Live
    <2>5. e \notin evicted
      BY <1>2, <2>3
    <2>6. Cardinality(admitted') = Cardinality(admitted) + 1 /\ IsFiniteSet(admitted')
      BY <1>2, <2>1, <2>3, FS_AddElement
    <2>7. DepthOf(queue)' = DepthOf(queue) + 1
      BY <1>1, <2>1, <2>2 DEF DepthOf
    <2>8. admitted' = (Live \cup evicted \cup ToSet(finished))' /\ (Live \cap evicted)' = {}
      BY <1>2, <2>1, <2>4, <2>5
    <2>9. /\ Cardinality(admitted') = DepthOf(queue)' + Cardinality(evicted') + Len(finished')
          /\ stats'.messages_evicted = Cardinality(evicted')
      BY <1>1, <1>2, <1>3, <2>1, <2>6, <2>7
    <2>10. \A x \in admitted' : Earlier(x)'
      <3>1. \A x \in admitted : Earlier(x)'
        BY <1>2, <2>1 DEF Earlier
      <3>2. ASSUME NEW x, x = e PROVE Earlier(x)'
        BY <1>1, <2>1, <2>2, <3>2 DEF Earlier
      <3> QED BY <2>1, <3>1, <3>2
    <2> QED BY <1>2, <2>1, <2>6, <2>8, <2>9, <2>10 DEF LedgerInv, NothingLost
  <1>6. CASE Take
    <2>1. UNCHANGED <<puts, pc1, finished, admitted, evicted, stats>>
      BY <1>6 DEF Take, history
    <2>2. Live' = Live /\ DepthOf(queue)' = DepthOf(queue)
      <3>1. CASE UNCHANGED <<queue, inFlight>>
        BY <3>1 DEF Live, DepthOf
      <3>2. CASE inFlight = NoEntry /\ queue # <<>> /\ inFlight' = Head(queue) /\ queue' = Tail(queue)
        <4>1. Head(queue) \in EntryType /\ Len(queue') = Len(queue) - 1
          BY <1>1, <3>2
        <4>2. inFlight' # NoEntry
          BY <3>2, <4>1, NoEntryAssumption
        <4>3. ToSet(queue) = {Head(queue)} \cup ToSet(Tail(queue))
          BY <1>1, <3>2, EntriesOf
        <4>4. Live' = Live
          BY <3>2, <4>2, <4>3 DEF Live
        <4> QED BY <1>1, <3>2, <4>1, <4>2, <4>4 DEF DepthOf
      <3> QED BY <1>6, <3>1, <3>2 DEF Take
    <2> QED BY <1>2, <2>1, <2>2 DEF LedgerInv, NothingLost, Earlier
  <1>7. CASE CompleteInFlight(TRUE) \/ CompleteInFlight(FALSE)
    <2>1. /\ inFlight # NoEntry /\ inFlight' = NoEntry /\ finished' = Append(finished, inFlight)
          /\ UNCHANGED <<puts, pc1, queue, admitted, evicted>>
          /\ stats'.messages_evicted = stats.messages_evicted
      BY <1>1, <1>7 DEF CompleteInFlight, StatsType, StatFields
    <2>2. ToSet(finished') = ToSet(finished) \cup {inFlight} /\ Len(finished') = Len(finished) + 1
      BY <1>1, <2>1, EntriesOf
    <2>3. Live' \cup {inFlight} = Live /\ DepthOf(queue)' = DepthOf(queue) - 1
      BY <1>1, <2>1 DEF Live, DepthOf
    <2>4. admitted' = (Live \cup evicted \cup ToSet(finished))' /\ (Live \cap evicted)' = {}
      BY <1>2, <2>1, <2>2, <2>3
    <2>5. /\ Cardinality(admitted') = DepthOf(queue)' + Cardinality(evicted') + Len(finished')
          /\ stats'.messages_evicted = Cardinality(evicted')
      BY <1>1, <1>2, <1>3, <2>1, <2>2, <2>3
    <2> QED BY <1>2, <2>1, <2>4, <2>5 DEF LedgerInv, NothingLost, Earlier
  <1>8. CASE Quiet
    <2>1. /\ UNCHANGED <<queue, inFlight, admitted, evicted, finished>>
          /\ stats'.messages_evicted = stats.messages_evicted
      BY <1>8 DEF Quiet, SameRetention
    <2>2. ASSUME NEW e \in admitted PROVE Earlier(e)'
      <3>1. Earlier(e) /\ e.id \in Nat
        BY <1>1, <1>2 DEF EntryType
      <3> QED BY <1>1, <1>8, <3>1 DEF Quiet, Earlier
    <2> QED BY <1>2, <2>1, <2>2 DEF LedgerInv, NothingLost, Live, DepthOf
  <1> QED BY <1>4, <1>5, <1>6, <1>7, <1>8, StepKinds

\* The ledger of the lane is exact on every path: each admitted entry is in one place,
\* and depth, messages_evicted and queued_bytes count what is there.
THEOREM LedgerIsExact == Spec => []LedgerExact
  <1>1. Init => BytesInv /\ FifoInv /\ LedgerInv
    <2> SUFFICES ASSUME Init PROVE BytesInv /\ FifoInv /\ LedgerInv
      OBVIOUS
    <2>1. /\ queue = <<>> /\ inFlight = NoEntry /\ finished = <<>> /\ admitted = {}
          /\ evicted = {} /\ stats = [f \in StatFields |-> 0]
      BY DEF Init, OutInit
    <2>2. /\ stats.queued_bytes = 0 /\ stats.high_watermark_bytes = 0
          /\ stats.messages_evicted = 0
      BY <2>1 DEF StatFields
    <2>3. BytesInv
      <3> DEFINE f == [i \in 0..0 |-> 0]
      <3>1. queue \in Seq(EntryType) /\ Len(queue) = 0 /\ InFlightSize = 0
        BY <2>1 DEF InFlightSize
      <3>2. IsTotal(f, queue, 0) /\ f[0] = 0
        <4>1. f \in [0..0 -> Int] /\ f[0] = 0
          OBVIOUS
        <4> HIDE DEF f
        <4> QED BY <3>1, <4>1 DEF IsTotal
      <3> HIDE DEF f
      <3>3. f[Len(queue)] = BytesOf(queue, 0)
        <4>1. 0 \in Int /\ IsTotal(f, queue, 0) /\ queue \in Seq(EntryType)
          BY <3>1, <3>2
        <4> QED BY <4>1, TotalIsBytes, Zenon
      <3> QED BY <2>2, <3>1, <3>2, <3>3 DEF BytesInv
    <2>4. FifoInv
      BY <2>1 DEF FifoInv, FifoDelivery, EarlierCalls, Increasing
    <2>5. LedgerInv
      <3>1. Live = {} /\ ToSet(finished) = {} /\ DepthOf(queue) = 0 /\ Len(finished) = 0
        BY <2>1 DEF Live, ToSet, DepthOf
      <3>2. Cardinality({}) = 0 /\ IsFiniteSet({})
        BY FS_EmptySet
      <3> QED BY <2>1, <2>2, <3>1, <3>2 DEF LedgerInv, NothingLost
    <2> QED BY <2>3, <2>4, <2>5
  <1>2. BytesInv /\ LedgerInv => LedgerExact
    <2>1. BytesInv => RetainedBytesExact
      BY DEF BytesInv, BytesOf, InFlightSize, RetainedBytesExact
    <2> QED BY <2>1 DEF LedgerInv, LedgerExact
  <1> QED BY <1>1, <1>2, BytesStep, FifoStep, LedgerStep, TypeInvariant, PTL DEF Spec
=============================================================================
