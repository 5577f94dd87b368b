---------------------------- MODULE OutboundQueue ----------------------------
(***************************************************************************)
(* OutboundQueue of intercore.py: the Core 1 -> Core 0 lane of MQTT-bound  *)
(* messages.  Core 1 is the only producer (put, put_with_kind), Core 0's   *)
(* run loop the only consumer (take, complete_in_flight).                  *)
(*                                                                         *)
(* Granularity.  Every section under the queue's own lock is one step: the *)
(* section takes no other lock and all accesses to the state are under it. *)
(* A gc.collect() that follows the release of the queue lock is part of    *)
(* the step that dropped the entry.  Everything else interleaves: the      *)
(* serializer, the wait for the heap-admission lock and each measurement   *)
(* of the heap are steps of their own, so Core 0 and the rest of the       *)
(* program run between any two of them.                                    *)
(***************************************************************************)
EXTENDS Heap, SequencesExt

CONSTANTS
    Messages,       \* what the producers put: [kind, retention_priority, size, verdict]
    MaxMessages,    \* max_messages, the count ceiling
    EntryOverhead,  \* units the entry and its list slot take on top of the payload
    MaxPuts,        \* bound: put / put_with_kind calls in a behaviour
    NoEntry         \* None

RETENTION_PRIORITY_CRITICAL == 10
RETENTION_PRIORITY_TELEMETRY == 40
RETENTION_PRIORITY_INFO == 50
RETENTION_PRIORITY_HEALTH == 70

\* What serialize_and_validate_message makes of a message: bytes, or one of the
\* permanent errors (unsupported value, key or float; too large; not serializable).
Verdicts == {"ok", "invalid", "too_large", "unserializable"}

Kinds == {"telemetry", "command_response", "health", "log"}

MessageType ==
    [kind : Kinds,
     retention_priority : RETENTION_PRIORITY_CRITICAL..RETENTION_PRIORITY_HEALTH,
     size : Nat \ {0},
     verdict : Verdicts]

ASSUME OutboundAssumption ==
    /\ Messages \subseteq MessageType
    /\ MaxMessages \in Nat \ {0}
    /\ EntryOverhead \in Nat \ {0}
    /\ MaxPuts \in Nat

\* Core 1 hands these kinds over as bytes it serialized itself (put_with_kind);
\* the others go through put().
PreSerializedKinds == {"log", "health"}

EntryType ==
    [id : Nat \ {0}, kind : Kinds,
     retention_priority : RETENTION_PRIORITY_CRITICAL..RETENTION_PRIORITY_HEALTH,
     size : Nat \ {0}]

ASSUME NoEntryAssumption == NoEntry \notin EntryType

VARIABLES
    queue,      \* _queue
    inFlight,   \* _in_flight
    stats,      \* the observability counters, one record
    pc1,        \* where Core 1 is in put() / put_with_kind()
    call,       \* Core 1's locals in that call, and what the call did so far
    taken,      \* the entry Core 0's run loop is publishing
    puts,       \* calls so far; the call's number identifies its entry
    admitted,   \* history: entries put() returned True for
    evicted,    \* history: entries displaced
    finished    \* history: entries completed or discarded, in order

outVars == <<queue, inFlight, stats, pc1, call, taken, puts, admitted, evicted, finished>>

\* history of entries, not program state
history == <<admitted, evicted, finished>>

\* msg: the message; gc: its serializer has collected (gc_attempted); floor: the call has
\* met the hard floor; victims: what its current phase (serialization, admission) displaced.
NoCall == [msg |-> NoEntry, gc |-> FALSE, floor |-> FALSE, victims |-> {}]

PutSteps == {"idle", "serialize", "admit", "measure", "band", "soft", "normal",
             "normal_relieved", "hard", "hard_append", "hard_relieved", "displace"}

\* The steps taken while the heap-admission lock is held.
AdmissionSteps == {"measure", "band", "soft", "normal", "normal_relieved",
                   "hard", "hard_append", "hard_relieved", "displace"}

StatFields == {"queued_bytes", "high_watermark", "high_watermark_bytes", "messages_evicted",
               "telemetry_evicted", "messages_rejected", "serialization_rejected",
               "oversized_rejected", "oversized_discarded"}

StatsType ==
    {s \in [StatFields -> Int] : \A f \in StatFields \ {"queued_bytes"} : s[f] >= 0}

CallType ==
    [msg : Messages \cup {NoEntry}, gc : BOOLEAN, floor : BOOLEAN, victims : SUBSET EntryType]

OutTypeOK ==
    /\ queue \in Seq(EntryType)
    /\ inFlight \in EntryType \cup {NoEntry}
    /\ taken \in EntryType \cup {NoEntry}
    /\ stats \in StatsType
    /\ pc1 \in PutSteps
    /\ call \in CallType
    /\ puts \in 0..MaxPuts
    /\ admitted \subseteq EntryType
    /\ evicted \subseteq EntryType
    /\ finished \in Seq(EntryType)

OutInit ==
    /\ queue = <<>>
    /\ inFlight = NoEntry
    /\ stats = [f \in StatFields |-> 0]
    /\ pc1 = "idle"
    /\ call = NoCall
    /\ taken = NoEntry
    /\ puts = 0
    /\ admitted = {}
    /\ evicted = {}
    /\ finished = <<>>

-----------------------------------------------------------------------------
(* The queue under its lock. *)

\* depth of status() and get_depth(): queued plus in flight.
DepthOf(q) == Len(q) + (IF inFlight = NoEntry THEN 0 ELSE 1)

\* mutant: the ceiling forgets the in-flight entry
BelowCountLimit_queuedOnly == Len(queue) < MaxMessages

BelowCountLimit == DepthOf(queue) < MaxMessages

\* mutant: CRITICAL displaces CRITICAL
Eligible_criticalToo(priority) ==
    \E i \in DOMAIN queue : queue[i].retention_priority >= priority

\* Whether a message of this priority may displace something: the worst class queued is
\* no more important than the message, and is not CRITICAL.
Eligible(priority) ==
    \E i \in DOMAIN queue :
        /\ queue[i].retention_priority >= priority
        /\ queue[i].retention_priority # RETENTION_PRIORITY_CRITICAL

\* The victim is the oldest entry of the worst class.
Victim(i) ==
    /\ \A j \in DOMAIN queue : queue[j].retention_priority <= queue[i].retention_priority
    /\ \A j \in 1..(i - 1) : queue[j].retention_priority # queue[i].retention_priority

\* _evict_one_eligible_locked returning True, then gc.collect().
EvictAndCollect ==
    \E i \in DOMAIN queue :
        LET victim == queue[i]
        IN  /\ Victim(i)
            /\ queue' = RemoveAt(queue, i)
            /\ stats' = [stats EXCEPT
                    !.queued_bytes = @ - victim.size,
                    !.messages_evicted = @ + 1,
                    !.telemetry_evicted = @ + (IF victim.kind = "telemetry" THEN 1 ELSE 0)]
            /\ evicted' = evicted \cup {victim}
            /\ call' = [call EXCEPT !.victims = @ \cup {victim}]
            /\ CollectWith(victim.size + EntryOverhead)
            /\ UNCHANGED <<inFlight, ambient, admitted, finished>>

\* Nothing the call holds or did survives its return.
Return ==
    /\ pc1' = "idle"
    /\ call' = NoCall

-----------------------------------------------------------------------------
(* Core 1: put() and put_with_kind(). *)

\* put(): metadata validated, on to the serializer.
Put(m) ==
    /\ pc1 = "idle"
    /\ puts < MaxPuts
    /\ m.kind \notin PreSerializedKinds
    /\ puts' = puts + 1
    /\ call' = [NoCall EXCEPT !.msg = m]
    /\ pc1' = "serialize"
    /\ UNCHANGED <<queue, inFlight, stats, taken, history, heapVars>>

\* put_with_kind(): the caller has just made the bytes, only their length is checked.
PutWithKind(m) ==
    /\ pc1 = "idle"
    /\ puts < MaxPuts
    /\ m.kind \in PreSerializedKinds
    /\ m.verdict = "ok"
    /\ free >= m.size
    /\ free' = free - m.size
    /\ ambient' = ambient + m.size
    /\ puts' = puts + 1
    /\ call' = [NoCall EXCEPT !.msg = m]
    /\ pc1' = "admit"
    /\ UNCHANGED <<queue, inFlight, stats, taken, history, garbage, heapLock>>

PutWithKindTooLarge(m) ==
    /\ pc1 = "idle"
    /\ puts < MaxPuts
    /\ m.kind \in PreSerializedKinds
    /\ m.verdict = "too_large"
    /\ puts' = puts + 1
    /\ stats' = [stats EXCEPT !.oversized_rejected = @ + 1]
    /\ UNCHANGED <<queue, inFlight, pc1, call, taken, history, heapVars>>

\* The serializer returns the payload, allocated from the heap.
SerializeOk ==
    /\ pc1 = "serialize"
    /\ call.msg.verdict = "ok"
    /\ free >= call.msg.size
    /\ free' = free - call.msg.size
    /\ ambient' = ambient + call.msg.size
    /\ pc1' = "admit"
    /\ UNCHANGED <<queue, inFlight, stats, call, taken, puts, history, garbage, heapLock>>

\* A permanent failure of the message: ValueError, counted by its cause.
SerializeRefused ==
    /\ pc1 = "serialize"
    /\ call.msg.verdict # "ok"
    /\ stats' = [stats EXCEPT
                    !.oversized_rejected = @ + (IF call.msg.verdict = "too_large" THEN 1 ELSE 0),
                    !.serialization_rejected =
                        @ + (IF call.msg.verdict = "unserializable" THEN 1 ELSE 0)]
    /\ Return
    /\ UNCHANGED <<queue, inFlight, taken, puts, history, heapVars>>

\* A MemoryError (no contiguous run, whatever is free in total): collect and retry once...
SerializeCollect ==
    /\ pc1 = "serialize"
    /\ ~ call.gc
    /\ Collect
    /\ call' = [call EXCEPT !.gc = TRUE]
    /\ UNCHANGED <<queue, inFlight, stats, pc1, taken, puts, history, ambient, heapLock>>

\* ... then displace one eligible entry for every further MemoryError ...
SerializeEvict ==
    /\ pc1 = "serialize"
    /\ call.gc
    /\ Eligible(call.msg.retention_priority)
    /\ EvictAndCollect
    /\ UNCHANGED <<pc1, taken, puts, heapLock>>

\* ... and let it propagate to the caller when nothing is eligible.
SerializeMemoryError ==
    /\ pc1 = "serialize"
    /\ call.gc
    /\ ~ Eligible(call.msg.retention_priority)
    /\ Return
    /\ UNCHANGED <<queue, inFlight, stats, taken, puts, history, heapVars>>

\* _admit_heap_governed: with self._heap_admission_lock.
AcquireHeapLock ==
    /\ pc1 = "admit"
    /\ heapLock = NoOwner
    /\ heapLock' = "core1"
    /\ pc1' = "measure"
    /\ call' = [call EXCEPT !.gc = FALSE, !.victims = {}]
    /\ UNCHANGED <<queue, inFlight, stats, taken, puts, history, free, garbage, ambient>>

\* Below the preferred reserve, GC has the first chance.
MeasurePreferred ==
    /\ pc1 = "measure"
    /\ pc1' = "band"
    /\ IF PreferredRestored
       THEN UNCHANGED <<free, garbage>>
       ELSE Collect
    /\ UNCHANGED <<queue, inFlight, stats, call, taken, puts, history, ambient, heapLock>>

\* NORMAL, MEMORY PRESSURE (soft) or HARD PRESSURE, measured again.
SelectBand ==
    /\ pc1 = "band"
    /\ pc1' = IF PreferredRestored THEN "normal" ELSE IF ReserveRestored THEN "soft" ELSE "hard"
    /\ call' = [call EXCEPT !.floor = ~ ReserveRestored]
    /\ UNCHANGED <<queue, inFlight, stats, taken, puts, history, heapVars>>

\* mutant: soft pressure keeps displacing until the preferred reserve is back
SoftEvict_untilPreferred ==
    /\ pc1 = "soft"
    /\ Eligible(call.msg.retention_priority)
    /\ EvictAndCollect
    /\ pc1' = IF free' >= PreferredFreeHeap THEN "normal" ELSE "soft"
    /\ UNCHANGED <<taken, puts, heapLock>>

\* Soft pressure reclaims one eligible entry, if any, then admits.
SoftEvict ==
    /\ pc1 = "soft"
    /\ Eligible(call.msg.retention_priority)
    /\ EvictAndCollect
    /\ pc1' = "normal"
    /\ UNCHANGED <<taken, puts, heapLock>>

SoftNothingEligible ==
    /\ pc1 = "soft"
    /\ ~ Eligible(call.msg.retention_priority)
    /\ pc1' = "normal"
    /\ UNCHANGED <<queue, inFlight, stats, call, taken, puts, history, heapVars>>

\* The steps at which an append is tried, and where each goes when it fails.
AppendSteps == {"normal", "normal_relieved", "hard_append", "hard_relieved"}

AfterFailure == IF pc1 \in {"normal", "normal_relieved"} THEN "hard" ELSE "displace"

\* _try_append_with_count_gate lets the append go ahead: below the ceiling, or
\* (the ceiling is not checked again) after count relief.
MayAppend == pc1 \in {"normal_relieved", "hard_relieved"} \/ BelowCountLimit

\* The floor, measured with the append's own allocations made.
FloorHolds == free - EntryOverhead >= MinimumFreeHeap

\* _append_locked keeps the entry; put() returns True and the lock is released.
AppendKept ==
    LET m == call.msg
        entry == [id |-> puts, kind |-> m.kind, retention_priority |-> m.retention_priority,
                  size |-> m.size]
        depth == DepthOf(queue) + 1
        bytes == stats.queued_bytes + m.size
    IN  /\ pc1 \in AppendSteps
        /\ MayAppend
        /\ free >= EntryOverhead
        /\ FloorHolds
        /\ queue' = Append(queue, entry)
        /\ stats' = [stats EXCEPT
                        !.queued_bytes = bytes,
                        !.high_watermark = IF depth > @ THEN depth ELSE @,
                        !.high_watermark_bytes = IF bytes > @ THEN bytes ELSE @]
        /\ free' = free - EntryOverhead
        /\ ambient' = ambient - m.size
        /\ admitted' = admitted \cup {entry}
        /\ heapLock' = NoOwner
        /\ Return
        /\ UNCHANGED <<inFlight, taken, puts, evicted, finished, garbage>>

\* The append crossed the hard floor: undone under the queue lock, then collected.
AppendRolledBack ==
    /\ pc1 \in AppendSteps
    /\ MayAppend
    /\ free >= EntryOverhead
    /\ ~ FloorHolds
    /\ Collect
    /\ call' = [call EXCEPT !.floor = TRUE]
    /\ pc1' = AfterFailure
    /\ UNCHANGED <<queue, inFlight, stats, taken, puts, history, ambient, heapLock>>

\* The entry itself cannot be allocated: MemoryError leaves put() and releases the lock.
AppendMemoryError ==
    /\ pc1 \in AppendSteps
    /\ MayAppend
    /\ free < EntryOverhead
    /\ heapLock' = NoOwner
    /\ Return
    /\ UNCHANGED <<queue, inFlight, stats, taken, puts, history, free, garbage, ambient>>

\* At the count ceiling: displace one entry, collect, and append after that.
CountRelief ==
    /\ pc1 \in {"normal", "hard_append"}
    /\ ~ BelowCountLimit
    /\ Eligible(call.msg.retention_priority)
    /\ EvictAndCollect
    /\ pc1' = IF pc1 = "normal" THEN "normal_relieved" ELSE "hard_relieved"
    /\ UNCHANGED <<taken, puts, heapLock>>

CountFull ==
    /\ pc1 \in {"normal", "hard_append"}
    /\ ~ BelowCountLimit
    /\ ~ Eligible(call.msg.retention_priority)
    /\ pc1' = AfterFailure
    /\ UNCHANGED <<queue, inFlight, stats, call, taken, puts, history, heapVars>>

\* HARD PRESSURE: measure before displacing anything.
MeasureFloor ==
    /\ pc1 = "hard"
    /\ pc1' = IF ReserveRestored THEN "hard_append" ELSE "displace"
    /\ call' = [call EXCEPT !.floor = @ \/ ~ ReserveRestored]
    /\ UNCHANGED <<queue, inFlight, stats, taken, puts, history, heapVars>>

Displace ==
    /\ pc1 = "displace"
    /\ Eligible(call.msg.retention_priority)
    /\ EvictAndCollect
    /\ pc1' = "hard"
    /\ UNCHANGED <<taken, puts, heapLock>>

\* mutant: the rejecting return leaves the heap-admission lock held
Reject_lockKept ==
    /\ pc1 = "displace"
    /\ ~ Eligible(call.msg.retention_priority)
    /\ stats' = [stats EXCEPT !.messages_rejected = @ + 1]
    /\ Return
    /\ UNCHANGED <<queue, inFlight, taken, puts, history, heapVars>>

\* Nothing eligible can be displaced: put() returns False.
Reject ==
    /\ pc1 = "displace"
    /\ ~ Eligible(call.msg.retention_priority)
    /\ stats' = [stats EXCEPT !.messages_rejected = @ + 1]
    /\ heapLock' = NoOwner
    /\ Return
    /\ UNCHANGED <<queue, inFlight, taken, puts, history, free, garbage, ambient>>

PutStep ==
    \/ SerializeOk \/ SerializeRefused \/ SerializeCollect \/ SerializeEvict
    \/ SerializeMemoryError \/ AcquireHeapLock \/ MeasurePreferred \/ SelectBand
    \/ SoftEvict \/ SoftNothingEligible \/ AppendKept \/ AppendRolledBack
    \/ AppendMemoryError \/ CountRelief \/ CountFull \/ MeasureFloor \/ Displace \/ Reject

-----------------------------------------------------------------------------
(* Core 0: the run loop's take() / complete_in_flight(). *)

\* mutant: take() promotes over an entry already in flight
Take_overwrites ==
    /\ taken = NoEntry
    /\ queue # <<>>
    /\ inFlight' = Head(queue)
    /\ taken' = Head(queue)
    /\ queue' = Tail(queue)
    /\ UNCHANGED <<stats, pc1, call, puts, history, heapVars>>

\* take(): the entry already in flight, or the oldest queued one.
Take ==
    /\ taken = NoEntry
    /\ \/ /\ inFlight # NoEntry
          /\ taken' = inFlight
          /\ UNCHANGED <<queue, inFlight>>
       \/ /\ inFlight = NoEntry
          /\ queue # <<>>
          /\ inFlight' = Head(queue)
          /\ taken' = Head(queue)
          /\ queue' = Tail(queue)
    /\ UNCHANGED <<stats, pc1, call, puts, history, heapVars>>

\* complete_in_flight(entry, discarded): released only if it is still the one in flight.
CompleteInFlight(discarded) ==
    /\ taken # NoEntry
    /\ inFlight = taken
    /\ inFlight' = NoEntry
    /\ taken' = NoEntry
    /\ stats' = [stats EXCEPT !.queued_bytes = @ - taken.size,
                              !.oversized_discarded = @ + (IF discarded THEN 1 ELSE 0)]
    /\ finished' = Append(finished, taken)
    /\ garbage' = garbage + taken.size + EntryOverhead
    /\ UNCHANGED <<queue, pc1, call, puts, admitted, evicted, free, ambient, heapLock>>

\* The PUBACK arrived, or the spliced frame is too large for ever.
PublishDone == CompleteInFlight(FALSE)
PublishDiscarded == CompleteInFlight(TRUE)

\* mutant: a failed publish goes back to the end of the queue
PublishFailed_requeued ==
    /\ taken # NoEntry
    /\ taken' = NoEntry
    /\ inFlight' = NoEntry
    /\ queue' = Append(queue, taken)
    /\ UNCHANGED <<stats, pc1, call, puts, history, heapVars>>

\* An ambiguous transport failure keeps the entry in flight for the next take().
PublishFailed ==
    /\ taken # NoEntry
    /\ taken' = NoEntry
    /\ UNCHANGED <<queue, inFlight, stats, pc1, call, puts, history, heapVars>>

\* The payload Core 1 holds while put() decides: live, so never dropped meanwhile.
PayloadInHand == IF pc1 \in AdmissionSteps \cup {"admit"} THEN call.msg.size ELSE 0
=============================================================================
