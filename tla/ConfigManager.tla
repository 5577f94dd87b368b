---------------------------- MODULE ConfigManager ----------------------------
(***************************************************************************)
(* ConfigManager of config_manager.py: the write transaction over          *)
(* config.json and its .tmp / .old / .cleanup artifacts, the restoration   *)
(* after a failed write, and boot recovery.                                *)
(*                                                                         *)
(* Every call into the file system is one step, power may fail between any *)
(* two, and a power loss may undo every call made since the last           *)
(* successful os.sync().  A call may raise OSError at the steps in         *)
(* FaultSteps; what it then leaves behind is stated at each step.          *)
(***************************************************************************)
EXTENDS Naturals, Sequences, FiniteSets

CONSTANTS
    Configs,     \* valid configurations
    Absent,      \* no such file
    Corrupt,     \* a file that does not load or validate
    NoConfig,    \* None
    FaultSteps,  \* where the storage may fail
    MaxUnsynced  \* bound: writes start only with at most this many undoable contents

Files == {"config", "tmp", "old", "cleanup"}

\* The step names; "load" is the reading of an artifact during recovery.
WriteSteps == {"write_tmp", "read_back", "to_old", "to_config", "sync_promoted",
               "to_cleanup", "sync_commit"}
CleanupSteps == {"remove_cleanup", "sync_cleanup"}
SettleSteps == {"remove_config", "rename_backup", "tidy", "settle_sync"}
Steps == WriteSteps \cup CleanupSteps \cup SettleSteps \cup {"boot", "idle", "down"}

\* The reads of recover(); config.json is read beside a .cleanup, and again without one.
Reads == Files \cup {"committed"}

\* A settling step belongs to boot recovery or to the restoration of a failed write.
Modes == {"recover", "restore"}

ASSUME ConfigAssumption ==
    /\ Configs # {}
    /\ Absent \notin Configs /\ Corrupt \notin Configs /\ NoConfig \notin Configs
    /\ NoConfig \notin Files
    /\ Absent # Corrupt
    /\ MaxUnsynced \in Nat
    /\ FaultSteps \subseteq WriteSteps \cup CleanupSteps \cup {"load", "recover", "restore"}

Image == [Files -> Configs \cup {Absent, Corrupt}]

VARIABLES
    fs,              \* what the file system calls see
    unsynced,        \* earlier contents that a power loss may still bring back
    pc,              \* the next file system call
    mode,            \* whom a settling step works for
    backup,          \* artifact to be renamed to config.json, or NoConfig
    tidy,            \* artifacts still to be removed while settling
    candidate,       \* begin_write's argument
    rebootRequired,  \* _reboot_required
    booted,          \* the configuration the running firmware was started with
    accepted         \* history: the configuration of the last boot or commit

vars == <<fs, unsynced, pc, mode, backup, tidy, candidate, rebootRequired, booted, accepted>>

locals == <<mode, backup, tidy, candidate>>
memory == <<rebootRequired, booted, accepted>>

Exists(x, f) == x[f] # Absent
Valid(x, f) == x[f] \in Configs

\* The decision of recover(): where the configuration comes from, whether config.json
\* is removed first, which artifacts are then released, in the code's order.
Plan(from, remove, then) == [from |-> from, remove |-> remove, then |-> then]

\* `failed` holds the reads that do not succeed: such a file passes for an invalid one.
RecoveryPlan(x, failed) ==
    LET Loads(read, f) == Valid(x, f) /\ read \notin failed
    IN  IF Exists(x, "cleanup") /\ Loads("committed", "config")
            THEN Plan("config", FALSE, <<"cleanup", "old", "tmp">>)
        ELSE IF Loads("cleanup", "cleanup")
            THEN Plan("cleanup", Exists(x, "config"), <<"old", "tmp">>)
        ELSE IF Loads("old", "old")
            THEN Plan("old", Exists(x, "config"), <<"tmp">>)
        ELSE IF Loads("config", "config")
            THEN Plan("config", FALSE, <<"old", "tmp">>)
        ELSE IF Loads("tmp", "tmp")
            THEN Plan("tmp", FALSE, <<"old", "cleanup">>)
        ELSE Plan(NoConfig, FALSE, <<>>)

\* The configuration a boot on x comes up with, or NoConfig if it stays down.
Recovered(x) ==
    LET from == RecoveryPlan(x, {}).from
    IN  IF from = NoConfig THEN NoConfig ELSE x[from]

Images == unsynced \cup {fs}

Init ==
    /\ accepted \in Configs
    /\ fs = [f \in Files |-> IF f = "config" THEN accepted ELSE Absent]
    /\ unsynced = {}
    /\ pc = "idle"
    /\ mode = "recover"
    /\ backup = NoConfig
    /\ tidy = <<>>
    /\ candidate = NoConfig
    /\ rebootRequired = FALSE
    /\ booted = accepted

-----------------------------------------------------------------------------
(* File system calls.  Each takes effect in fs and stays undoable until a sync. *)

Change(x) ==
    /\ fs' = x
    /\ unsynced' = unsynced \cup {fs}

Renamed(x, f, g) == [x EXCEPT ![g] = x[f], ![f] = Absent]
Removed(x, f) == [x EXCEPT ![f] = Absent]

\* os.rename(f, g) at step `at`, then on to step `next`.
RenameAt(at, f, g, next) ==
    /\ pc = at
    /\ Exists(fs, f)
    /\ Change(Renamed(fs, f, g))
    /\ pc' = next
    /\ UNCHANGED <<locals, memory>>

\* os.sync() at step `at`: nothing done so far can be undone any more.
SyncAt(at, next) ==
    /\ pc = at
    /\ unsynced' = {}
    /\ pc' = next
    /\ UNCHANGED fs

-----------------------------------------------------------------------------
(* begin_write *)

\* validate_config and load_config passed, and the candidate differs.
BeginWrite(c) ==
    /\ pc = "idle"
    /\ Cardinality(unsynced) <= MaxUnsynced
    /\ Valid(fs, "config")
    /\ c # fs["config"]
    /\ candidate' = c
    /\ pc' = "write_tmp"
    /\ UNCHANGED <<fs, unsynced, mode, backup, tidy, memory>>

\* _write_candidate_tmp; power loss may leave a partial file, and the flash may have
\* stored something else than was written.
WriteTmp ==
    /\ pc = "write_tmp"
    /\ fs' \in {[fs EXCEPT !["tmp"] = candidate]}
               \cup (IF "write_tmp" \in FaultSteps THEN {[fs EXCEPT !["tmp"] = Corrupt]} ELSE {})
    /\ unsynced' = unsynced \cup {fs, [fs EXCEPT !["tmp"] = Corrupt]}
    /\ pc' = "read_back"
    /\ UNCHANGED <<locals, memory>>

\* A plausible bug: the candidate is not read back before its promotion.
ReadBack_unchecked ==
    /\ pc = "read_back"
    /\ pc' = "to_old"
    /\ UNCHANGED <<fs, unsynced, locals, memory>>

ReadBack ==
    /\ pc = "read_back"
    /\ Valid(fs, "tmp")
    /\ pc' = "to_old"
    /\ UNCHANGED <<fs, unsynced, locals, memory>>

MoveToOld == RenameAt("to_old", "config", "old", "to_config")
Promote == RenameAt("to_config", "tmp", "config", "sync_promoted")
SyncPromoted == SyncAt("sync_promoted", "to_cleanup") /\ UNCHANGED <<locals, memory>>
MarkCommitted == RenameAt("to_cleanup", "old", "cleanup", "sync_commit")

\* A plausible bug: the flag is set only once the cleanup is through, and never here.
SyncCommit_unflagged ==
    /\ SyncAt("sync_commit", "remove_cleanup")
    /\ accepted' = candidate
    /\ candidate' = NoConfig
    /\ UNCHANGED <<mode, backup, tidy, rebootRequired, booted>>

\* A plausible bug: the commit rename is not synced.
SyncCommit_notSynced ==
    /\ pc = "sync_commit"
    /\ pc' = "remove_cleanup"
    /\ accepted' = candidate
    /\ candidate' = NoConfig
    /\ rebootRequired' = TRUE
    /\ UNCHANGED <<fs, unsynced, mode, backup, tidy, booted>>

\* The commit point: the .old -> .cleanup rename is synced, the change is pending a reboot.
SyncCommit ==
    /\ SyncAt("sync_commit", "remove_cleanup")
    /\ accepted' = candidate
    /\ candidate' = NoConfig
    /\ rebootRequired' = TRUE
    /\ UNCHANGED <<mode, backup, tidy, booted>>

RemoveCleanup ==
    /\ pc = "remove_cleanup"
    /\ Change(Removed(fs, "cleanup"))
    /\ pc' = "sync_cleanup"
    /\ UNCHANGED <<locals, memory>>

SyncCleanup == SyncAt("sync_cleanup", "idle") /\ UNCHANGED <<locals, memory>>

\* A post-commit failure is only a warning: begin_write returns success.
CleanupFault ==
    /\ pc \in CleanupSteps \cap FaultSteps
    /\ pc' = "idle"
    /\ UNCHANGED <<fs, unsynced, locals, memory>>

\* _restore_committed's choice of what to put back.
RestoreBackup ==
    IF Exists(fs', "old") THEN "old" ELSE IF Exists(fs', "cleanup") THEN "cleanup" ELSE NoConfig

EnterRestore ==
    /\ mode' = "restore"
    /\ backup' = RestoreBackup
    /\ tidy' = <<"tmp">>
    /\ pc' = IF backup' = NoConfig THEN "tidy" ELSE "remove_config"
    /\ UNCHANGED <<candidate, memory>>

\* A pre-commit OSError.  A failed call changes nothing, except that the candidate
\* write may stop half way.
WriteFault ==
    /\ pc \in WriteSteps \cap FaultSteps
    /\ \/ UNCHANGED <<fs, unsynced>>
       \/ pc = "write_tmp" /\ Change([fs EXCEPT !["tmp"] = Corrupt])
    /\ EnterRestore

\* The read-back does not load or validate: ConfigError, restored the same way.
ReadBackRefused ==
    /\ pc = "read_back"
    /\ ~ Valid(fs, "tmp")
    /\ UNCHANGED <<fs, unsynced>>
    /\ EnterRestore

-----------------------------------------------------------------------------
(* Settling: the calls _restore_committed and recover() have in common. *)

RemoveConfig ==
    /\ pc = "remove_config"
    /\ IF Exists(fs, "config") THEN Change(Removed(fs, "config")) ELSE UNCHANGED <<fs, unsynced>>
    /\ pc' = "rename_backup"
    /\ UNCHANGED <<locals, memory>>

RenameBackup ==
    /\ pc = "rename_backup"
    /\ Change(Renamed(fs, backup, "config"))
    /\ pc' = "tidy"
    /\ UNCHANGED <<locals, memory>>

\* _remove_if_exists for each artifact in turn.
Tidy ==
    /\ pc = "tidy"
    /\ tidy # <<>>
    /\ IF Exists(fs, Head(tidy)) THEN Change(Removed(fs, Head(tidy)))
                                 ELSE UNCHANGED <<fs, unsynced>>
    /\ tidy' = Tail(tidy)
    /\ UNCHANGED <<pc, mode, backup, candidate, memory>>

TidyDone ==
    /\ pc = "tidy"
    /\ tidy = <<>>
    /\ pc' = "settle_sync"
    /\ UNCHANGED <<fs, unsynced, locals, memory>>

\* The final sync: recover() returns the configuration, begin_write its ConfigError.
SettleSync ==
    /\ SyncAt("settle_sync", "idle")
    /\ candidate' = NoConfig
    /\ backup' = NoConfig
    /\ booted' = IF mode = "recover" THEN fs["config"] ELSE booted
    /\ UNCHANGED <<mode, tidy, rebootRequired, accepted>>

\* A failed restoration is given up; the artifacts stay for the next boot.
RestoreFault ==
    /\ pc \in SettleSteps
    /\ mode = "restore"
    /\ "restore" \in FaultSteps
    /\ pc' = "idle"
    /\ candidate' = NoConfig
    /\ backup' = NoConfig
    /\ tidy' = <<>>
    /\ UNCHANGED <<fs, unsynced, mode, memory>>

-----------------------------------------------------------------------------
(* Power loss and boot. *)

\* Everything in RAM is gone; the flash holds one of the images.
PowerLoss ==
    /\ fs' \in Images
    /\ unsynced' = {}
    /\ pc' = "boot"
    /\ mode' = "recover"
    /\ backup' = NoConfig
    /\ tidy' = <<>>
    /\ candidate' = NoConfig
    /\ rebootRequired' = FALSE
    /\ booted' = NoConfig
    /\ accepted' = Recovered(fs')

\* The sets of recover()'s reads that may fail, each by itself.
Unreadable == IF "load" \in FaultSteps THEN SUBSET Reads ELSE {{}}

\* recover() decides before it touches anything.
Decide ==
    /\ pc = "boot"
    /\ \E failed \in Unreadable :
         LET plan == RecoveryPlan(fs, failed)
         IN  /\ plan.from # NoConfig
             /\ backup' = IF plan.from = "config" THEN NoConfig ELSE plan.from
             /\ tidy' = plan.then
             /\ pc' = IF plan.from = "config" THEN "tidy"
                      ELSE IF plan.remove THEN "remove_config" ELSE "rename_backup"
    /\ UNCHANGED <<fs, unsynced, mode, candidate, memory>>

\* No artifact loads, or a call raised: main() ends and the board stays down.
StayDown ==
    /\ \/ pc = "boot" /\ \E failed \in Unreadable : RecoveryPlan(fs, failed).from = NoConfig
       \/ pc \in SettleSteps \cup {"boot"} /\ mode = "recover" /\ "recover" \in FaultSteps
    /\ pc' = "down"
    /\ UNCHANGED <<fs, unsynced, locals, memory>>

Next ==
    \/ \E c \in Configs : BeginWrite(c)
    \/ WriteTmp \/ ReadBack \/ ReadBackRefused \/ MoveToOld \/ Promote \/ SyncPromoted
    \/ MarkCommitted \/ SyncCommit \/ RemoveCleanup \/ SyncCleanup
    \/ WriteFault \/ CleanupFault \/ RestoreFault
    \/ RemoveConfig \/ RenameBackup \/ Tidy \/ TidyDone \/ SettleSync
    \/ PowerLoss \/ Decide \/ StayDown

Spec == Init /\ [][Next]_vars

-----------------------------------------------------------------------------
(* Properties. *)

\* Every variable stays in its domain.
TypeOK ==
    /\ fs \in Image
    /\ unsynced \subseteq Image
    /\ pc \in Steps
    /\ mode \in Modes
    /\ backup \in Files \cup {NoConfig}
    /\ tidy \in Seq(Files)
    /\ candidate \in Configs \cup {NoConfig}
    /\ rebootRequired \in BOOLEAN
    /\ booted \in Configs \cup {NoConfig}
    /\ accepted \in Configs

Store == INSTANCE ConfigStore WITH outcomes <- {Recovered(x) : x \in Images}

\* begin_write and recover() implement one durable configuration with all-or-nothing
\* writes: power may fail between any two calls, during restoration and during
\* recovery itself, and a committed configuration is never lost, a refused one never
\* booted, and the board never left without a configuration.
ImplementsStore == Store!Spec

\* Between commands exactly config.json exists, durably, and holds the last committed
\* configuration: the artifacts of every write, failed write and recovery are gone.
SteadyState ==
    pc = "idle" =>
        /\ fs = [f \in Files |-> IF f = "config" THEN accepted ELSE Absent]
        /\ unsynced = {}

\* reboot_required is never FALSE while the running configuration differs from the
\* one the next boot will load.
RebootFlagHonest ==
    pc = "idle" /\ ~ rebootRequired => booted = fs["config"]

\* Between commands the files, the running configuration and the flag agree.
ConfigSettled == SteadyState /\ RebootFlagHonest

\* However the storage fails (a write, a restoration, a read or the recovery itself),
\* no power loss leaves the board without a configuration to boot.
AlwaysBootable == \A x \in Images : Recovered(x) # NoConfig

\* What the architecture document says of config.json: between commands it is always
\* what the next reboot will load, the last committed configuration, and a leftover
\* .cleanup or an unreadable artifact does not change that.
CommittedConfigKept == pc = "idle" => \A x \in Images : Recovered(x) = accepted
=============================================================================
