----------------------------- MODULE EventQueue -----------------------------
(***************************************************************************)
(* InterCoreEventQueue of intercore.py: the Core 0 -> Core 1 lane of       *)
(* discrete events.  Core 0 puts from the MQTT command handler, Core 1     *)
(* takes one event per loop pass.  An admitted event is never displaced;   *)
(* under pressure the new one is rejected.                                 *)
(***************************************************************************)
EXTENDS Heap, Sequences

CONSTANTS
    EventOverhead,  \* units an append allocates
    MaxEvents       \* bound: event puts in a behaviour

ASSUME EventAssumption == EventOverhead \in Nat /\ MaxEvents \in Nat

VARIABLES
    evQueue,          \* _queue
    evHighWatermark,  \* _high_watermark
    evRejected,       \* _rejected
    pcEv,             \* where Core 0 is in put()
    evPuts,           \* calls so far; the call's number identifies its event
    evAdmitted,       \* history: events put() returned True for, in order
    evTaken           \* history: events Core 1 took, in order

evVars == <<evQueue, evHighWatermark, evRejected, pcEv, evPuts, evAdmitted, evTaken>>

EvSteps == {"idle", "admit", "measure", "append", "count"}

EvTypeOK ==
    /\ evQueue \in Seq(1..MaxEvents)
    /\ evHighWatermark \in Nat
    /\ evRejected \in Nat
    /\ pcEv \in EvSteps
    /\ evPuts \in 0..MaxEvents
    /\ evAdmitted \in Seq(1..MaxEvents)
    /\ evTaken \in Seq(1..MaxEvents)

EvInit ==
    /\ evQueue = <<>>
    /\ evHighWatermark = 0
    /\ evRejected = 0
    /\ pcEv = "idle"
    /\ evPuts = 0
    /\ evAdmitted = <<>>
    /\ evTaken = <<>>

EvPut ==
    /\ pcEv = "idle"
    /\ evPuts < MaxEvents
    /\ evPuts' = evPuts + 1
    /\ pcEv' = "admit"
    /\ UNCHANGED <<evQueue, evHighWatermark, evRejected, evAdmitted, evTaken, heapVars>>

\* mutant: the event lane does not take the shared lock's turn
EvAcquireHeapLock_notHeld ==
    /\ pcEv = "admit"
    /\ heapLock' = "core0"
    /\ pcEv' = "measure"
    /\ UNCHANGED <<evQueue, evHighWatermark, evRejected, evPuts, evAdmitted, evTaken,
                   free, garbage, ambient>>

EvAcquireHeapLock ==
    /\ pcEv = "admit"
    /\ heapLock = NoOwner
    /\ heapLock' = "core0"
    /\ pcEv' = "measure"
    /\ UNCHANGED <<evQueue, evHighWatermark, evRejected, evPuts, evAdmitted, evTaken,
                   free, garbage, ambient>>

EvMeasure ==
    /\ pcEv = "measure"
    /\ pcEv' = "append"
    /\ IF ReserveRestored THEN UNCHANGED <<free, garbage>> ELSE Collect
    /\ UNCHANGED <<evQueue, evHighWatermark, evRejected, evPuts, evAdmitted, evTaken,
                   ambient, heapLock>>

\* The event is appended and the floor still holds: put() returns True.
EvAppendKept ==
    /\ pcEv = "append"
    /\ ReserveRestored
    /\ free - EventOverhead >= MinimumFreeHeap
    /\ free' = free - EventOverhead
    /\ ambient' = ambient + EventOverhead
    /\ evQueue' = Append(evQueue, evPuts)
    /\ evHighWatermark' =
            IF Len(evQueue) + 1 > evHighWatermark THEN Len(evQueue) + 1 ELSE evHighWatermark
    /\ evAdmitted' = Append(evAdmitted, evPuts)
    /\ heapLock' = NoOwner
    /\ pcEv' = "idle"
    /\ UNCHANGED <<evRejected, evPuts, evTaken, garbage>>

\* The append crossed the floor: undone, collected, then counted as a rejection.
EvAppendRolledBack ==
    /\ pcEv = "append"
    /\ ReserveRestored
    /\ free - EventOverhead < MinimumFreeHeap
    /\ Collect
    /\ pcEv' = "count"
    /\ UNCHANGED <<evQueue, evHighWatermark, evRejected, evPuts, evAdmitted, evTaken,
                   ambient, heapLock>>

EvBelowFloor ==
    /\ pcEv = "append"
    /\ ~ ReserveRestored
    /\ pcEv' = "count"
    /\ UNCHANGED <<evQueue, evHighWatermark, evRejected, evPuts, evAdmitted, evTaken, heapVars>>

\* _count_rejection under the queue lock; put() returns False.
EvReject ==
    /\ pcEv = "count"
    /\ evRejected' = evRejected + 1
    /\ heapLock' = NoOwner
    /\ pcEv' = "idle"
    /\ UNCHANGED <<evQueue, evHighWatermark, evPuts, evAdmitted, evTaken, free, garbage, ambient>>

EvPutStep ==
    \/ EvAcquireHeapLock \/ EvMeasure \/ EvAppendKept \/ EvAppendRolledBack
    \/ EvBelowFloor \/ EvReject

\* mutant: the newest event is popped
EvTake_last ==
    /\ evQueue # <<>>
    /\ evTaken' = Append(evTaken, evQueue[Len(evQueue)])
    /\ evQueue' = SubSeq(evQueue, 1, Len(evQueue) - 1)
    /\ UNCHANGED <<evHighWatermark, evRejected, pcEv, evPuts, evAdmitted, heapVars>>

\* Core 1's take(); the event stays live in its hands.
EvTake ==
    /\ evQueue # <<>>
    /\ evTaken' = Append(evTaken, Head(evQueue))
    /\ evQueue' = Tail(evQueue)
    /\ UNCHANGED <<evHighWatermark, evRejected, pcEv, evPuts, evAdmitted, heapVars>>
=============================================================================
