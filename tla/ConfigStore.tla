----------------------------- MODULE ConfigStore -----------------------------
(***************************************************************************)
(* What ConfigManager promises: one configuration that survives power      *)
(* loss, and writes that are all or nothing.  `outcomes` is the set of     *)
(* configurations the next boot may come up with if power fails now.       *)
(***************************************************************************)
CONSTANTS Configs, NoConfig

VARIABLES
    accepted,   \* the configuration of the last boot or committed write
    candidate,  \* the configuration being written, or NoConfig
    outcomes    \* what a power loss now may leave

Init ==
    /\ accepted \in Configs
    /\ candidate = NoConfig
    /\ outcomes = {accepted}

Start(c) ==
    /\ candidate = NoConfig
    /\ candidate' = c
    /\ UNCHANGED <<accepted, outcomes>>

\* While a write runs, power loss may leave the old configuration or the new one.
Doubt ==
    /\ candidate # NoConfig
    /\ outcomes' \in SUBSET {accepted, candidate}
    /\ outcomes' # {}
    /\ UNCHANGED <<accepted, candidate>>

\* A committed write is durable at once; a refused one leaves no trace.
Commit ==
    /\ candidate # NoConfig
    /\ accepted' = candidate
    /\ outcomes' = {candidate}
    /\ candidate' = NoConfig

Refuse ==
    /\ candidate # NoConfig
    /\ outcomes' = {accepted}
    /\ candidate' = NoConfig
    /\ UNCHANGED accepted

PowerLoss ==
    /\ accepted' \in outcomes
    /\ outcomes' = {accepted'}
    /\ candidate' = NoConfig

Next == (\E c \in Configs : Start(c)) \/ Doubt \/ Commit \/ Refuse \/ PowerLoss

Spec == Init /\ [][Next]_<<accepted, candidate, outcomes>>
=============================================================================
