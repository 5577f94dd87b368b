-------------------------------- MODULE Heap --------------------------------
(***************************************************************************)
(* The MicroPython heap that both cores share, as far as the two admission *)
(* lanes of intercore.py see it: what gc.mem_free() answers, what          *)
(* gc.collect() gives back, and the one lock (InterCore's                  *)
(* _heap_admission_lock) that serializes admission decisions.              *)
(*                                                                         *)
(* Bytes are counted in abstract units.  Every unit is free, garbage       *)
(* (unreachable but not collected), ambient (live data outside the lanes,  *)
(* a producer's payload in hand included) or retained by a lane.  Only     *)
(* admission is under the lock: the rest of the program allocates and      *)
(* drops objects at any moment, on either core (HeapAlloc, HeapDrop).      *)
(***************************************************************************)
EXTENDS Integers

CONSTANTS
    HeapSize,           \* units in the whole heap
    PreferredFreeHeap,  \* preferred_free_heap_bytes: pressure starts below it
    MinimumFreeHeap,    \* minimum_free_heap_bytes: the hard survival floor
    NoOwner             \* nobody holds the heap-admission lock

\* InterCore.__init__ and OutboundQueue.__init__ raise ValueError otherwise.
ASSUME HeapAssumption ==
    /\ HeapSize \in Nat
    /\ MinimumFreeHeap \in Nat \ {0}
    /\ PreferredFreeHeap \in Nat
    /\ PreferredFreeHeap >= MinimumFreeHeap

Cores == {"core0", "core1"}

ASSUME NoOwnerAssumption == NoOwner \notin Cores

VARIABLES
    free,       \* gc.mem_free()
    garbage,    \* what gc.collect() would reclaim
    ambient,    \* live data that no lane retains
    heapLock    \* holder of _heap_admission_lock, or NoOwner

heapVars == <<free, garbage, ambient, heapLock>>

HeapTypeOK ==
    /\ free \in Nat
    /\ garbage \in Nat
    /\ ambient \in Nat
    /\ heapLock \in Cores \cup {NoOwner}

\* The heap when the lanes are created: everything not free is ambient.
HeapInit ==
    /\ free \in 0..HeapSize
    /\ garbage = 0
    /\ ambient = HeapSize - free
    /\ heapLock = NoOwner

PreferredRestored == free >= PreferredFreeHeap

ReserveRestored == free >= MinimumFreeHeap

\* gc.collect() after `dropped` units have just become unreachable.
CollectWith(dropped) ==
    /\ free' = free + garbage + dropped
    /\ garbage' = 0

Collect == CollectWith(0)

\* Some other code of either core allocates one unit, or drops one.
HeapAlloc ==
    /\ free > 0
    /\ free' = free - 1
    /\ ambient' = ambient + 1
    /\ UNCHANGED <<garbage, heapLock>>

HeapDrop(inHand) ==
    /\ ambient > inHand
    /\ ambient' = ambient - 1
    /\ garbage' = garbage + 1
    /\ UNCHANGED <<free, heapLock>>

\* The allocator collects on its own when an allocation finds nothing.
HeapAutoCollect ==
    /\ free = 0
    /\ garbage > 0
    /\ Collect
    /\ UNCHANGED <<ambient, heapLock>>
=============================================================================
