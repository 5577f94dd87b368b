CONSTANTS
    HeapSize = 7
    PreferredFreeHeap = 4
    MinimumFreeHeap = 1
    NoOwner = NoOwner
    NoEntry = NoEntry
    Messages <- MCMessages
    MaxMessages = 2
    EntryOverhead = 1
    MaxPuts = 3
    EventOverhead = 1
    MaxEvents = 2
SPECIFICATION FairSpec
INVARIANTS
    CountCeiling
    LedgerExact
    CriticalKept
    FifoDelivery
    OneVictimAboveFloor
    EventsInOrder
    AdmissionExclusive
PROPERTIES
    CallsReturn
