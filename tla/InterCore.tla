------------------------------ MODULE InterCore ------------------------------
(***************************************************************************)
(* The two heap-governed lanes of intercore.py together: Core 1 produces   *)
(* outbound messages and takes events, Core 0 publishes outbound messages  *)
(* and puts events, and both admissions share one heap and one             *)
(* heap-admission lock.                                                    *)
(*                                                                         *)
(* Each core is one thread.  Core 1 is in at most one put() and takes      *)
(* events only between puts.  Core 0 puts an event from the MQTT message   *)
(* handler, which runs inside the PUBACK wait of a publish as well as      *)
(* outside it, so the call nests in the run loop: until it returns, the    *)
(* run loop does not move.                                                 *)
(***************************************************************************)
EXTENDS OutboundQueue, EventQueue, FiniteSets

vars == <<heapVars, outVars, evVars>>

Init == HeapInit /\ OutInit /\ EvInit

\* Core 1 as producer.
Core1Put ==
    /\ \E m \in Messages : Put(m) \/ PutWithKind(m) \/ PutWithKindTooLarge(m)
    /\ UNCHANGED evVars

Core1Step == PutStep /\ UNCHANGED evVars

Core1TakeEvent ==
    /\ pc1 = "idle"
    /\ EvTake
    /\ UNCHANGED outVars

\* Core 0: the run loop, and the event put that may interrupt it.
Core0Loop ==
    /\ pcEv = "idle"
    /\ Take \/ PublishDone \/ PublishDiscarded \/ PublishFailed
    /\ UNCHANGED evVars

Core0PutEvent == EvPut /\ UNCHANGED outVars

Core0EventStep == EvPutStep /\ UNCHANGED outVars

\* Everything else both cores do with the heap.
Environment ==
    /\ HeapAlloc \/ HeapDrop(PayloadInHand) \/ HeapAutoCollect
    /\ UNCHANGED <<outVars, evVars>>

Next ==
    \/ Core1Put \/ Core1Step \/ Core1TakeEvent
    \/ Core0Loop \/ Core0PutEvent \/ Core0EventStep
    \/ Environment

Spec == Init /\ [][Next]_vars

\* A call that has begun keeps running: its core executes it to the end.  Nothing
\* is assumed of when calls begin, of the broker or of the rest of the program.
FairSpec ==
    /\ Spec
    /\ WF_vars(Core1Step)
    /\ WF_vars(Core0EventStep)

-----------------------------------------------------------------------------
(* Properties. *)

\* Entries that were admitted and have not left the queue.
Live == ToSet(queue) \cup ({inFlight} \ {NoEntry})

\* In the order of the calls that put them.
Increasing(s) == \A i, j \in DOMAIN s : i < j => s[i].id < s[j].id

\* Every variable stays in its domain; no heap quantity and no counter goes negative
\* (RetainedBytesExact says it of queued_bytes).
TypeOK == HeapTypeOK /\ OutTypeOK /\ EvTypeOK

\* The retained depth, in-flight entry included, never passes the configured ceiling,
\* although count relief releases the queue lock before it appends without checking
\* again (_try_append_with_count_gate); and the reported peak is never below the depth.
CountCeiling ==
    /\ DepthOf(queue) <= stats.high_watermark
    /\ stats.high_watermark <= MaxMessages

\* status()'s queued_bytes is what the queue and the in-flight entry really retain,
\* across append, eviction, promotion to in-flight and completion, and its peak bounds it.
RetainedBytesExact ==
    /\ stats.queued_bytes = FoldFunction(LAMBDA e, n : e.size + n,
                                         IF inFlight = NoEntry THEN 0 ELSE inFlight.size, queue)
    /\ stats.queued_bytes <= stats.high_watermark_bytes

\* An admitted entry is in exactly one place: queued, in flight, published or
\* discarded, or displaced; and messages_evicted counts the displaced ones.
NothingLost ==
    /\ admitted = Live \cup evicted \cup ToSet(finished)
    /\ Cardinality(admitted) = DepthOf(queue) + Cardinality(evicted) + Len(finished)
    /\ stats.messages_evicted = Cardinality(evicted)

\* The ledger of the lane is exact: an entry is in one place, and status() counts what
\* is there, on every path that appends, displaces, publishes or discards.
LedgerExact == NothingLost /\ RetainedBytesExact

\* CRITICAL is the non-evictable retention floor: whatever the pressure and whichever
\* path displaces (serializer recovery, soft, count relief, hard), no CRITICAL entry goes.
CriticalKept == \A e \in evicted : e.retention_priority # RETENTION_PRIORITY_CRITICAL

\* Entries leave Core 0 in the order Core 1 put them, over any number of failed
\* publishes, and the entry being published is never one that eviction can reach.
FifoDelivery ==
    /\ Increasing(finished)
    /\ Increasing(queue)
    /\ \A i \in DOMAIN finished, j \in DOMAIN queue : finished[i].id < queue[j].id
    /\ inFlight # NoEntry =>
         /\ \A i \in DOMAIN finished : finished[i].id < inFlight.id
         /\ \A j \in DOMAIN queue : inFlight.id < queue[j].id

\* An admission that never meets the hard floor displaces at most one entry, even when
\* soft pressure and the count ceiling meet in one call.
OneVictimAboveFloor ==
    pc1 \in AdmissionSteps /\ ~ call.floor => Cardinality(call.victims) <= 1

\* Core 1 takes exactly the admitted events, each once and in order: none is displaced,
\* and a rolled-back append leaves no trace.
EventsInOrder == evTaken \o evQueue = evAdmitted

\* The two admissions never run at the same time: one heap-admission lock serves both.
AdmissionExclusive ==
    /\ (pc1 \in AdmissionSteps) <=> (heapLock = "core1")
    /\ (pcEv \in {"measure", "append", "count"}) <=> (heapLock = "core0")

\* Every put() and put_with_kind(), and every event put, returns: the recovery and
\* displacement loops run out of victims, and the shared lock is always given back.
CallsReturn == []<>(pc1 = "idle" /\ pcEv = "idle")
=============================================================================
