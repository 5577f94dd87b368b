------------------------- MODULE ConfigManagerProofs -------------------------
(***************************************************************************)
(* Proofs about ConfigManager for every set of configurations and every    *)
(* bound: the board stays bootable wherever the storage fails, and, where  *)
(* it fails before the commit point or during recovery, the transaction    *)
(* implements one durable all-or-nothing configuration.  The reboot flag   *)
(* is honest even if the cleanup of a commit fails.                        *)
(***************************************************************************)
EXTENDS ConfigManager, TLAPS

-----------------------------------------------------------------------------
(* Files and images. *)

\* What the configuration is kept in; config.json.tmp only ever holds a candidate.
Kept == {"config", "old", "cleanup"}

\* An image from which recovery can boot, and where only the candidate may be damaged.
Bootable(x) ==
    /\ x \in Image
    /\ \A f \in Kept : x[f] # Corrupt
    /\ \E f \in Files : Valid(x, f)

\* A rename moves one file over another and leaves the rest.
LEMMA RenamedFiles ==
  ASSUME NEW x \in Image, NEW f \in Files, NEW g \in Files, f # g
  PROVE  /\ Renamed(x, f, g) \in Image
         /\ Renamed(x, f, g)[g] = x[f]
         /\ Renamed(x, f, g)[f] = Absent
         /\ \A h \in Files \ {f, g} : Renamed(x, f, g)[h] = x[h]
  BY DEF Renamed, Image

\* A removal leaves the rest.
LEMMA RemovedFiles ==
  ASSUME NEW x \in Image, NEW f \in Files
  PROVE  /\ Removed(x, f) \in Image
         /\ Removed(x, f)[f] = Absent
         /\ \A h \in Files \ {f} : Removed(x, f)[h] = x[h]
  BY DEF Removed, Image

\* So does a write, whether the flash stores what was written or something damaged.
LEMMA WrittenFiles ==
  ASSUME NEW x \in Image, NEW f \in Files, NEW v \in Configs \cup {Absent, Corrupt}
  PROVE  /\ [x EXCEPT ![f] = v] \in Image
         /\ [x EXCEPT ![f] = v][f] = v
         /\ \A h \in Files \ {f} : [x EXCEPT ![f] = v][h] = x[h]
  BY DEF Image

\* Whichever reads fail, what recover() takes is valid and is config.json itself or an
\* artifact; if none fails, it finds a configuration exactly when some file holds one.
LEMMA PlanTakesValid ==
  ASSUME NEW x \in Image, NEW failed
  PROVE  LET plan == RecoveryPlan(x, failed)
         IN  /\ plan.from # NoConfig => plan.from \in Files /\ Valid(x, plan.from)
             /\ plan.then \in Seq({"tmp", "old", "cleanup"})
             /\ failed = {} => (plan.from = NoConfig <=> \A f \in Files : ~ Valid(x, f))
  <1> USE ConfigAssumption
  <1> DEFINE p == RecoveryPlan(x, failed)
             Loads(read, f) == Valid(x, f) /\ read \notin failed
  <1>1. CASE Exists(x, "cleanup") /\ Loads("committed", "config")
    <2>1. p = Plan("config", FALSE, <<"cleanup", "old", "tmp">>)
      BY <1>1 DEF RecoveryPlan
    <2> QED BY <1>1, <2>1 DEF Plan, Files
  <1>2. CASE ~ (Exists(x, "cleanup") /\ Loads("committed", "config"))
             /\ Loads("cleanup", "cleanup")
    <2>1. p = Plan("cleanup", Exists(x, "config"), <<"old", "tmp">>)
      BY <1>2 DEF RecoveryPlan
    <2> QED BY <1>2, <2>1 DEF Plan, Files
  <1>3. CASE ~ (Exists(x, "cleanup") /\ Loads("committed", "config"))
             /\ ~ Loads("cleanup", "cleanup") /\ Loads("old", "old")
    <2>1. p = Plan("old", Exists(x, "config"), <<"tmp">>)
      BY <1>3 DEF RecoveryPlan
    <2> QED BY <1>3, <2>1 DEF Plan, Files
  <1>4. CASE ~ (Exists(x, "cleanup") /\ Loads("committed", "config"))
             /\ ~ Loads("cleanup", "cleanup") /\ ~ Loads("old", "old")
             /\ Loads("config", "config")
    <2>1. p = Plan("config", FALSE, <<"old", "tmp">>)
      BY <1>4 DEF RecoveryPlan
    <2> QED BY <1>4, <2>1 DEF Plan, Files
  <1>5. CASE ~ (Exists(x, "cleanup") /\ Loads("committed", "config"))
             /\ ~ Loads("cleanup", "cleanup") /\ ~ Loads("old", "old")
             /\ ~ Loads("config", "config") /\ Loads("tmp", "tmp")
    <2>1. p = Plan("tmp", FALSE, <<"old", "cleanup">>)
      BY <1>5 DEF RecoveryPlan
    <2> QED BY <1>5, <2>1 DEF Plan, Files
  <1>6. CASE ~ (Exists(x, "cleanup") /\ Loads("committed", "config"))
             /\ \A f \in Files : ~ Loads(f, f)
    <2>1. p = Plan(NoConfig, FALSE, <<>>)
      BY <1>6 DEF RecoveryPlan, Files
    <2> QED BY <1>6, <2>1 DEF Plan, Files
  <1> QED BY <1>1, <1>2, <1>3, <1>4, <1>5, <1>6 DEF Files

\* A bootable image comes up with a configuration.
LEMMA BootableRecovers ==
  ASSUME NEW x \in Image, \E f \in Files : Valid(x, f)
  PROVE  Recovered(x) \in Configs
  BY PlanTakesValid DEF Recovered, Valid

-----------------------------------------------------------------------------
(* The board stays bootable. *)

Artifacts == {"tmp", "old", "cleanup"}

\* The steps during which config.json itself holds a configuration.
ConfigInPlace == {"write_tmp", "read_back", "to_old", "sync_promoted", "to_cleanup",
                  "sync_commit", "remove_cleanup", "sync_cleanup", "tidy", "settle_sync"}

\* What the code relies on at each step to leave a valid file behind.
StepSafe ==
    /\ pc \in WriteSteps => candidate \in Configs
    /\ pc \in ConfigInPlace => Valid(fs, "config")
    /\ pc \in {"to_old", "to_config"} => Valid(fs, "tmp")
    /\ pc = "to_config" => Valid(fs, "old")
    /\ pc \in {"remove_config", "rename_backup"} => backup \in Artifacts /\ Valid(fs, backup)

ImagesBootable == \A x \in Images : Bootable(x)

BootInv == ImagesBootable /\ StepSafe /\ tidy \in Seq(Artifacts)

\* The first boot has its configuration.
LEMMA BootInvInit == Init => BootInv
  BY ConfigAssumption
     DEF Init, BootInv, ImagesBootable, StepSafe, Images, Bootable, Kept, Image, Files, Valid,
         WriteSteps, ConfigInPlace

\* A restoration goes back to an artifact that holds a configuration, or leaves
\* config.json alone.
LEMMA RestoreSafe ==
  ASSUME BootInv, pc \in WriteSteps, EnterRestore,
         fs' \in Image, \A f \in Kept : fs'[f] = fs[f],
         ImagesBootable'
  PROVE  BootInv'
  <1> USE ConfigAssumption
  <1>1. fs \in Image /\ \A f \in Kept : fs[f] # Corrupt
    BY DEF BootInv, ImagesBootable, Images, Bootable
  <1>2. \A f \in Kept : Exists(fs', f) => Valid(fs', f)
    BY <1>1 DEF Exists, Valid, Image, Files, Kept
  <1>3. tidy' \in Seq(Artifacts)
    BY DEF EnterRestore, Artifacts
  <1>4. CASE backup' = NoConfig
    <2>1. pc' = "tidy"
      BY <1>4 DEF EnterRestore
    <2>2. ~ Exists(fs', "old")
      BY <1>4 DEF EnterRestore, RestoreBackup, Files
    <2>3. pc # "to_config"
      BY <2>2, <1>2 DEF BootInv, StepSafe, Kept, Exists, Valid
    <2>4. Valid(fs', "config")
      BY <2>3 DEF BootInv, StepSafe, ConfigInPlace, WriteSteps, Kept, Valid
    <2> QED BY <2>1, <2>4, <1>3 DEF BootInv, StepSafe, WriteSteps
  <1>5. CASE backup' # NoConfig
    <2>1. pc' = "remove_config"
      BY <1>5 DEF EnterRestore
    <2>2. backup' \in {"old", "cleanup"} /\ Exists(fs', backup')
      BY <1>5 DEF EnterRestore, RestoreBackup
    <2>3. backup' \in Artifacts /\ Valid(fs', backup')
      BY <2>2, <1>2 DEF Kept, Artifacts
    <2> QED BY <2>1, <2>3, <1>3 DEF BootInv, StepSafe, WriteSteps, ConfigInPlace
  <1> QED BY <1>4, <1>5

\* A change leaves every image bootable if the new one is.
LEMMA ChangeBootable ==
  ASSUME ImagesBootable, Bootable(fs'), unsynced' \subseteq unsynced \cup {fs}
  PROVE  ImagesBootable'
  BY DEF ImagesBootable, Images

\* Each step of a write, of its cleanup, of a restoration, of recovery and a power loss
\* leave the images bootable.
LEMMA BootInvNext == BootInv /\ [Next]_vars => BootInv'
  <1> SUFFICES ASSUME BootInv, [Next]_vars
               PROVE  BootInv'
    OBVIOUS
  <1> USE ConfigAssumption
  <1>fs. fs \in Image /\ \A f \in Kept : fs[f] # Corrupt
    BY DEF BootInv, ImagesBootable, Images, Bootable
  <1>1. CASE \E c \in Configs : BeginWrite(c)
    <2>1. fs' = fs /\ unsynced' = unsynced /\ tidy' = tidy /\ pc' = "write_tmp"
          /\ candidate' \in Configs /\ Valid(fs, "config")
      BY <1>1 DEF BeginWrite
    <2> QED BY <2>1 DEF BootInv, ImagesBootable, Images, StepSafe, WriteSteps, ConfigInPlace
  <1>2. CASE WriteTmp
    <2>1. pc = "write_tmp" /\ pc' = "read_back" /\ tidy' = tidy /\ candidate' = candidate
          /\ backup' = backup
      BY <1>2 DEF WriteTmp, locals
    <2>2. candidate \in Configs /\ Valid(fs, "config")
      BY <2>1 DEF BootInv, StepSafe, WriteSteps, ConfigInPlace
    <2>3. \A v \in Configs \cup {Corrupt} : Bootable([fs EXCEPT !["tmp"] = v])
                                            /\ Valid([fs EXCEPT !["tmp"] = v], "config")
      BY <2>2, <1>fs DEF Bootable, Image, Files, Kept, Valid
    <2>4. \A x \in Images' : Bootable(x)
      BY <1>2, <2>2, <2>3 DEF WriteTmp, BootInv, ImagesBootable, Images
    <2>5. Valid(fs', "config")
      BY <1>2, <2>2, <2>3 DEF WriteTmp
    <2> QED BY <2>1, <2>2, <2>4, <2>5
            DEF BootInv, ImagesBootable, StepSafe, WriteSteps, ConfigInPlace
  <1>3. CASE ReadBack
    BY <1>3 DEF ReadBack, locals, BootInv, ImagesBootable, Images, StepSafe, WriteSteps,
                ConfigInPlace
  <1>4. CASE MoveToOld
    <2>1. pc = "to_old" /\ fs' = Renamed(fs, "config", "old") /\ pc' = "to_config"
          /\ unsynced' = unsynced \cup {fs} /\ UNCHANGED locals
      BY <1>4 DEF MoveToOld, RenameAt, Change
    <2>2. Valid(fs, "config") /\ Valid(fs, "tmp") /\ candidate \in Configs
      BY <2>1 DEF BootInv, StepSafe, WriteSteps, ConfigInPlace
    <2>3. fs' \in Image /\ fs'["old"] = fs["config"] /\ fs'["config"] = Absent
          /\ fs'["tmp"] = fs["tmp"] /\ fs'["cleanup"] = fs["cleanup"]
      BY <2>1, <1>fs, RenamedFiles DEF Files
    <2>4. Valid(fs', "old") /\ Valid(fs', "tmp")
      BY <2>2, <2>3 DEF Valid
    <2>5. Bootable(fs')
      BY <2>3, <2>4, <1>fs DEF Bootable, Kept, Valid, Files
    <2> QED BY <2>1, <2>2, <2>4, <2>5, ChangeBootable
            DEF BootInv, StepSafe, WriteSteps, ConfigInPlace, locals
  <1>5. CASE Promote
    <2>1. pc = "to_config" /\ fs' = Renamed(fs, "tmp", "config") /\ pc' = "sync_promoted"
          /\ unsynced' = unsynced \cup {fs} /\ UNCHANGED locals
      BY <1>5 DEF Promote, RenameAt, Change
    <2>2. Valid(fs, "tmp") /\ candidate \in Configs
      BY <2>1 DEF BootInv, StepSafe, WriteSteps
    <2>3. fs' \in Image /\ fs'["config"] = fs["tmp"] /\ fs'["old"] = fs["old"]
          /\ fs'["cleanup"] = fs["cleanup"]
      BY <2>1, <1>fs, RenamedFiles DEF Files
    <2>4. Valid(fs', "config")
      BY <2>2, <2>3 DEF Valid
    <2>5. Bootable(fs')
      BY <2>3, <2>4, <1>fs DEF Bootable, Kept, Valid, Files
    <2> QED BY <2>1, <2>2, <2>4, <2>5, ChangeBootable
            DEF BootInv, StepSafe, WriteSteps, ConfigInPlace, locals
  <1>6. CASE SyncPromoted
    BY <1>6 DEF SyncPromoted, SyncAt, locals, BootInv, ImagesBootable, Images, StepSafe,
                WriteSteps, ConfigInPlace
  <1>7. CASE MarkCommitted
    <2>1. pc = "to_cleanup" /\ fs' = Renamed(fs, "old", "cleanup") /\ pc' = "sync_commit"
          /\ unsynced' = unsynced \cup {fs} /\ UNCHANGED locals
      BY <1>7 DEF MarkCommitted, RenameAt, Change
    <2>2. Valid(fs, "config") /\ candidate \in Configs
      BY <2>1 DEF BootInv, StepSafe, WriteSteps, ConfigInPlace
    <2>3. fs' \in Image /\ fs'["config"] = fs["config"] /\ fs'["old"] = Absent
          /\ fs'["cleanup"] = fs["old"]
      BY <2>1, <1>fs, RenamedFiles DEF Files
    <2>4. Bootable(fs') /\ Valid(fs', "config")
      BY <2>2, <2>3, <1>fs DEF Bootable, Kept, Valid, Files
    <2> QED BY <2>1, <2>2, <2>4, ChangeBootable
            DEF BootInv, StepSafe, WriteSteps, ConfigInPlace, locals
  <1>8. CASE SyncCommit
    BY <1>8 DEF SyncCommit, SyncAt, BootInv, ImagesBootable, Images, StepSafe,
                WriteSteps, ConfigInPlace
  <1>9. CASE RemoveCleanup
    <2>1. pc = "remove_cleanup" /\ fs' = Removed(fs, "cleanup") /\ pc' = "sync_cleanup"
          /\ unsynced' = unsynced \cup {fs} /\ UNCHANGED locals
      BY <1>9 DEF RemoveCleanup, Change
    <2>2. Valid(fs, "config")
      BY <2>1 DEF BootInv, StepSafe, ConfigInPlace
    <2>3. fs' \in Image /\ fs'["config"] = fs["config"] /\ fs'["old"] = fs["old"]
          /\ fs'["cleanup"] = Absent
      BY <2>1, <1>fs, RemovedFiles DEF Files
    <2>4. Bootable(fs') /\ Valid(fs', "config")
      BY <2>2, <2>3, <1>fs DEF Bootable, Kept, Valid, Files
    <2> QED BY <2>1, <2>4, ChangeBootable
            DEF BootInv, StepSafe, WriteSteps, ConfigInPlace, locals
  <1>10. CASE SyncCleanup
    BY <1>10 DEF SyncCleanup, SyncAt, locals, BootInv, ImagesBootable, Images, StepSafe,
                 WriteSteps, ConfigInPlace
  <1>11. CASE WriteFault
    <2>1. pc \in WriteSteps /\ EnterRestore
      BY <1>11 DEF WriteFault
    <2>2. CASE UNCHANGED <<fs, unsynced>>
      BY <2>1, <2>2, <1>fs, RestoreSafe DEF BootInv, ImagesBootable, Images
    <2>3. CASE pc = "write_tmp" /\ Change([fs EXCEPT !["tmp"] = Corrupt])
      <3>1. Valid(fs, "config")
        BY <2>3 DEF BootInv, StepSafe, ConfigInPlace
      <3>2. Bootable(fs') /\ \A f \in Kept : fs'[f] = fs[f]
        BY <2>3, <3>1, <1>fs DEF Change, Bootable, Image, Files, Kept, Valid
      <3> QED BY <2>1, <2>3, <3>2, RestoreSafe, ChangeBootable DEF Change, BootInv, Bootable
    <2> QED BY <1>11, <2>2, <2>3 DEF WriteFault
  <1>12. CASE ReadBackRefused
    BY <1>12, <1>fs, RestoreSafe
       DEF ReadBackRefused, WriteSteps, BootInv, ImagesBootable, Images
  <1>13. CASE CleanupFault
    BY <1>13 DEF CleanupFault, locals, BootInv, ImagesBootable, Images, StepSafe, WriteSteps,
                 ConfigInPlace
  <1>23. CASE RestoreFault
    BY <1>23 DEF RestoreFault, BootInv, ImagesBootable, Images, StepSafe, WriteSteps,
                 ConfigInPlace
  <1>14. CASE RemoveConfig
    <2>1. pc = "remove_config" /\ pc' = "rename_backup" /\ UNCHANGED locals
      BY <1>14 DEF RemoveConfig
    <2>2. backup \in Artifacts /\ Valid(fs, backup)
      BY <2>1 DEF BootInv, StepSafe
    <2>3. CASE Exists(fs, "config")
      <3>1. fs' = Removed(fs, "config") /\ unsynced' = unsynced \cup {fs}
        BY <1>14, <2>3 DEF RemoveConfig, Change
      <3>2. fs' \in Image /\ fs'["config"] = Absent /\ fs'[backup] = fs[backup]
            /\ \A f \in Kept : fs'[f] # Corrupt
        BY <3>1, <2>2, <1>fs, RemovedFiles DEF Files, Artifacts, Kept
      <3>3. Bootable(fs') /\ Valid(fs', backup)
        BY <3>2, <2>2 DEF Bootable, Valid, Artifacts, Files
      <3> QED BY <3>1, <3>3, <2>1, <2>2, ChangeBootable
              DEF BootInv, StepSafe, WriteSteps, ConfigInPlace, locals
    <2>4. CASE ~ Exists(fs, "config")
      BY <1>14, <2>1, <2>2, <2>4
         DEF RemoveConfig, BootInv, ImagesBootable, Images, StepSafe, WriteSteps,
             ConfigInPlace, locals
    <2> QED BY <2>3, <2>4
  <1>15. CASE RenameBackup
    <2>1. pc = "rename_backup" /\ fs' = Renamed(fs, backup, "config") /\ pc' = "tidy"
          /\ unsynced' = unsynced \cup {fs} /\ UNCHANGED locals
      BY <1>15 DEF RenameBackup, Change
    <2>2. backup \in Artifacts /\ Valid(fs, backup)
      BY <2>1 DEF BootInv, StepSafe
    <2>3. fs' \in Image /\ fs'["config"] = fs[backup] /\ fs'[backup] = Absent
          /\ \A h \in Files \ {backup, "config"} : fs'[h] = fs[h]
      BY <2>1, <2>2, <1>fs, RenamedFiles DEF Files, Artifacts
    <2>4. Bootable(fs') /\ Valid(fs', "config")
      BY <2>2, <2>3, <1>fs DEF Bootable, Kept, Valid, Files, Artifacts
    <2> QED BY <2>1, <2>4, ChangeBootable
            DEF BootInv, StepSafe, WriteSteps, ConfigInPlace, locals
  <1>16. CASE Tidy
    <2>1. pc = "tidy" /\ pc' = pc /\ tidy # <<>> /\ tidy' = Tail(tidy)
          /\ backup' = backup /\ candidate' = candidate
      BY <1>16 DEF Tidy
    <2>2. Head(tidy) \in Artifacts /\ tidy' \in Seq(Artifacts) /\ Valid(fs, "config")
      BY <2>1 DEF BootInv, StepSafe, ConfigInPlace
    <2>3. CASE Exists(fs, Head(tidy))
      <3>1. fs' = Removed(fs, Head(tidy)) /\ unsynced' = unsynced \cup {fs}
        BY <1>16, <2>3 DEF Tidy, Change
      <3>2. fs' \in Image /\ fs'[Head(tidy)] = Absent
            /\ \A h \in Files \ {Head(tidy)} : fs'[h] = fs[h]
        BY <3>1, <2>2, <1>fs, RemovedFiles DEF Files, Artifacts
      <3>3. Bootable(fs') /\ Valid(fs', "config")
        BY <3>2, <2>2, <1>fs DEF Bootable, Kept, Valid, Files, Artifacts
      <3> QED BY <3>1, <3>3, <2>1, <2>2, ChangeBootable
              DEF BootInv, StepSafe, WriteSteps, ConfigInPlace
    <2>4. CASE ~ Exists(fs, Head(tidy))
      <3>1. fs' = fs /\ unsynced' = unsynced
        BY <1>16, <2>4 DEF Tidy
      <3> QED BY <3>1, <2>1, <2>2
              DEF BootInv, ImagesBootable, Images, StepSafe, WriteSteps, ConfigInPlace
    <2> QED BY <2>3, <2>4
  <1>17. CASE TidyDone
    BY <1>17 DEF TidyDone, locals, BootInv, ImagesBootable, Images, StepSafe,
                 WriteSteps, ConfigInPlace
  <1>18. CASE SettleSync
    BY <1>18 DEF SettleSync, SyncAt, BootInv, ImagesBootable, Images, StepSafe,
                 WriteSteps, ConfigInPlace
  <1>19. CASE PowerLoss
    BY <1>19 DEF PowerLoss, BootInv, ImagesBootable, Images, StepSafe, WriteSteps,
                 ConfigInPlace, Artifacts
  <1>20. CASE Decide
    <2>1. PICK failed \in Unreadable :
             LET plan == RecoveryPlan(fs, failed)
             IN  /\ plan.from # NoConfig
                 /\ backup' = IF plan.from = "config" THEN NoConfig ELSE plan.from
                 /\ tidy' = plan.then
                 /\ pc' = IF plan.from = "config" THEN "tidy"
                          ELSE IF plan.remove THEN "remove_config" ELSE "rename_backup"
      BY <1>20 DEF Decide
    <2>2. fs' = fs /\ unsynced' = unsynced
      BY <1>20 DEF Decide
    <2> DEFINE plan == RecoveryPlan(fs, failed)
    <2>4. plan.from \in Files /\ Valid(fs, plan.from)
      BY <2>1, <1>fs, PlanTakesValid
    <2>5. tidy' \in Seq(Artifacts)
      BY <2>1, <1>fs, PlanTakesValid DEF Artifacts
    <2>6. CASE plan.from = "config"
      BY <2>1, <2>2, <2>4, <2>5, <2>6
         DEF BootInv, ImagesBootable, Images, StepSafe, WriteSteps
    <2>7. CASE plan.from # "config"
      <3>1. backup' \in Artifacts /\ Valid(fs', backup')
            /\ pc' \in {"remove_config", "rename_backup"}
        BY <2>1, <2>2, <2>4, <2>7 DEF Files, Artifacts
      <3> QED BY <3>1, <2>2, <2>5
              DEF BootInv, ImagesBootable, Images, StepSafe, WriteSteps, ConfigInPlace
    <2> QED BY <2>6, <2>7
  <1>21. CASE StayDown
    BY <1>21 DEF StayDown, locals, BootInv, ImagesBootable, Images, StepSafe, WriteSteps,
                 ConfigInPlace
  <1>22. CASE UNCHANGED vars
    BY <1>22 DEF vars, BootInv, ImagesBootable, Images, StepSafe
  <1> QED BY <1>1, <1>2, <1>3, <1>4, <1>5, <1>6, <1>7, <1>8, <1>9, <1>10, <1>11, <1>12,
             <1>13, <1>14, <1>15, <1>16, <1>17, <1>18, <1>19, <1>20, <1>21, <1>22,
             <1>23
          DEF Next

\* However the storage fails - a write, a restoration, a read or recovery itself - and
\* wherever power is lost, some file holds a configuration recover() boots from.
THEOREM BoardIsBootable == Spec => []AlwaysBootable
  <1>1. BootInv => AlwaysBootable
    BY BootableRecovers, ConfigAssumption
       DEF BootInv, ImagesBootable, AlwaysBootable, Bootable
  <1> QED BY <1>1, BootInvInit, BootInvNext, PTL DEF Spec

-----------------------------------------------------------------------------
(* The transaction is durable and all or nothing. *)

\* The storage fails before the commit point or during boot recovery, if at all.
FaultsStopShort == FaultSteps \subseteq WriteSteps \cup {"recover"}

\* Exactly config.json.
Only(c) == [f \in Files |-> IF f = "config" THEN c ELSE Absent]

\* What config.json, .old and .cleanup hold.
Holds(x, c, o, k) == x["config"] = c /\ x["old"] = o /\ x["cleanup"] = k

\* The images a transaction, a restoration or recovery leaves at any moment: never both
\* markers, never nothing.
Shaped(x) ==
    /\ x \in Image
    /\ \A f \in Kept : x[f] # Corrupt
    /\ ~ (Exists(x, "old") /\ Exists(x, "cleanup"))
    /\ \E f \in Kept : Exists(x, f)

\* .old stands for a write not yet committed, .cleanup for a committed one.
Current(x) ==
    IF Exists(x, "old") THEN x["old"]
    ELSE IF Exists(x, "config") THEN x["config"]
    ELSE x["cleanup"]

ImagesKept ==
    \A x \in Images : Shaped(x) /\ Current(x) \in {accepted, candidate}

\* Where a candidate is being written or taken back, and where there is none.
InWrite == pc \in WriteSteps \/ (pc \in SettleSteps /\ mode = "restore")

CandidateOK ==
    /\ accepted \in Configs
    /\ pc \in Steps
    /\ mode \in Modes
    /\ InWrite => candidate \in Configs
    /\ ~ InWrite => candidate = NoConfig
    /\ pc = "boot" => mode = "recover"
    /\ ~ rebootRequired /\ (InWrite \/ pc \in {"idle"} \cup CleanupSteps) => booted = accepted

\* Leftovers that settling has not removed are still on its list.
ToTidy == {tidy[k] : k \in 1..Len(tidy)}

WriteFiles ==
    /\ pc \in {"idle", "write_tmp", "to_cleanup", "remove_cleanup"} => unsynced = {}
    /\ pc \in {"idle", "write_tmp", "settle_sync", "sync_cleanup"} => fs = Only(accepted)
    /\ pc \in {"read_back", "to_old"} => Holds(fs, accepted, Absent, Absent)
    /\ pc = "read_back" => fs["tmp"] \in {candidate, Corrupt}
    /\ pc \in {"to_old", "to_config"} => fs["tmp"] = candidate
    /\ pc = "to_config" => Holds(fs, Absent, accepted, Absent)
    /\ pc \in {"sync_promoted", "to_cleanup"} => Holds(fs, candidate, accepted, Absent)
    /\ pc = "sync_commit" => Holds(fs, candidate, Absent, accepted)
    /\ pc \in {"sync_promoted", "to_cleanup", "sync_commit", "remove_cleanup"}
         => fs["tmp"] = Absent
    /\ pc = "remove_cleanup" => fs["config"] = accepted /\ fs["old"] = Absent

SettleFiles ==
    /\ tidy \in Seq(Artifacts)
    /\ pc \in {"remove_config", "rename_backup"} =>
         /\ \/ backup = "old" /\ fs["cleanup"] = Absent
            \/ backup = "cleanup" /\ fs["old"] = Absent
         /\ fs[backup] = accepted
         /\ Exists(fs, "tmp") => "tmp" \in ToTidy
    /\ pc = "rename_backup" => fs["config"] = Absent
    /\ pc = "tidy" =>
         /\ fs["config"] = accepted
         /\ fs["old"] = Absent
         /\ \A f \in {"tmp", "cleanup"} : Exists(fs, f) => f \in ToTidy

WriteInv == ImagesKept /\ CandidateOK /\ WriteFiles /\ SettleFiles

\* On such an image recovery takes .old, else config.json, else .cleanup.
LEMMA ShapedRecovers ==
  ASSUME NEW x \in Image, Shaped(x)
  PROVE  Recovered(x) = Current(x) /\ Current(x) \in Configs
  <1> USE ConfigAssumption
  <1>1. \A f \in Kept : Exists(x, f) <=> Valid(x, f)
    BY DEF Shaped, Exists, Valid, Image, Files, Kept
  <1>2. RecoveryPlan(x, {}).from = IF Exists(x, "old") THEN "old"
                               ELSE IF Exists(x, "config") THEN "config" ELSE "cleanup"
    BY <1>1 DEF RecoveryPlan, Plan, Shaped, Kept
  <1> QED BY <1>1, <1>2 DEF Recovered, Current, Shaped, Kept, Files, Valid

\* The candidate file does not matter to any of this.
LEMMA OnlyTmpDiffers ==
  ASSUME NEW x \in Image, NEW y \in Image, \A f \in Kept : y[f] = x[f], Shaped(x)
  PROVE  Shaped(y) /\ Current(y) = Current(x)
  BY DEF Shaped, Current, Exists, Kept

\* A change keeps the images if the new one is one of them.
LEMMA ChangeKept ==
  ASSUME ImagesKept, UNCHANGED <<accepted, candidate>>,
         Shaped(fs'), Current(fs') \in {accepted, candidate},
         unsynced' \subseteq unsynced \cup {fs}
  PROVE  ImagesKept'
  BY DEF ImagesKept, Images

\* Nothing happens to the images.
LEMMA StillKept ==
  ASSUME ImagesKept, UNCHANGED <<accepted, candidate, fs>>, unsynced' \subseteq unsynced
  PROVE  ImagesKept'
  BY DEF ImagesKept, Images

\* Exactly config.json, file by file.
LEMMA OnlyConfig ==
  ASSUME NEW x \in Image, NEW c \in Configs,
         Holds(x, c, Absent, Absent), x["tmp"] = Absent
  PROVE  x = Only(c)
  BY DEF Image, Only, Holds, Files

\* The first boot.
LEMMA WriteInvInit == Init => WriteInv
  <1> SUFFICES ASSUME Init
               PROVE  WriteInv
    OBVIOUS
  <1> USE ConfigAssumption DEF Init
  <1>1. fs = Only(accepted) /\ unsynced = {} /\ fs \in Image
    BY DEF Only, Image, Files
  <1>2. Shaped(fs) /\ Current(fs) = accepted
    BY <1>1 DEF Shaped, Current, Only, Files, Kept, Exists
  <1>3. ImagesKept
    BY <1>1, <1>2 DEF ImagesKept, Images
  <1>4. CandidateOK
    BY DEF CandidateOK, InWrite, WriteSteps, SettleSteps, CleanupSteps, Modes, Steps
  <1>5. WriteFiles
    BY <1>1 DEF WriteFiles
  <1>6. SettleFiles
    BY DEF SettleFiles
  <1> QED BY <1>3, <1>4, <1>5, <1>6 DEF WriteInv

\* What is removed next is on the list, the rest stays on it.
LEMMA TidyList ==
  ASSUME tidy \in Seq(Artifacts), tidy # <<>>, tidy' = Tail(tidy)
  PROVE  Head(tidy) \in Artifacts /\ tidy' \in Seq(Artifacts)
         /\ ToTidy \subseteq ToTidy' \cup {Head(tidy)}
  <1>1. Head(tidy) \in Artifacts /\ tidy' \in Seq(Artifacts)
    OBVIOUS
  <1>2. ASSUME NEW k \in 1..Len(tidy), tidy[k] # Head(tidy)
        PROVE  tidy[k] \in ToTidy'
    <2>1. k - 1 \in 1..Len(tidy') /\ tidy'[k - 1] = tidy[k]
      BY <1>2
    <2> QED BY <2>1 DEF ToTidy
  <1> QED BY <1>1, <1>2 DEF ToTidy

\* A failed write goes back to the committed configuration, wherever it is by then.
LEMMA RestoreKept ==
  ASSUME WriteInv, pc \in WriteSteps, EnterRestore,
         fs' \in Image, \A f \in Kept : fs'[f] = fs[f],
         unsynced' \subseteq unsynced \cup {fs}
  PROVE  WriteInv'
  <1> USE ConfigAssumption
  <1>1. fs \in Image /\ Shaped(fs) /\ Current(fs) \in {accepted, candidate}
    BY DEF WriteInv, ImagesKept, Images, Shaped
  <1>2. ImagesKept'
    <2>1. UNCHANGED <<accepted, candidate>>
      BY DEF EnterRestore, memory
    <2> QED BY <2>1, <1>1, OnlyTmpDiffers, ChangeKept DEF WriteInv
  <1>3. tidy' = <<"tmp">> /\ mode' = "restore" /\ UNCHANGED <<candidate, memory>>
        /\ pc' \in {"tidy", "remove_config"}
    BY DEF EnterRestore
  <1>4. CandidateOK'
    BY <1>3 DEF WriteInv, CandidateOK, InWrite, WriteSteps, SettleSteps, CleanupSteps, Steps,
                Modes, memory
  <1>5. tidy' \in Seq(Artifacts) /\ "tmp" \in ToTidy'
    BY <1>3 DEF ToTidy, Artifacts
  <1>6. accepted \in Configs /\ accepted' = accepted
    BY <1>3 DEF WriteInv, CandidateOK, memory
  <1>7. CASE pc \in {"write_tmp", "read_back", "to_old"}
    <2>1. Holds(fs, accepted, Absent, Absent)
      BY <1>7 DEF WriteInv, WriteFiles, Only, Files, Holds
    <2>2. Holds(fs', accepted, Absent, Absent)
      BY <2>1 DEF Holds, Kept
    <2>3. pc' = "tidy"
      BY <2>2 DEF EnterRestore, RestoreBackup, Holds, Exists
    <2> QED BY <1>2, <1>4, <1>5, <1>6, <2>2, <2>3
            DEF WriteInv, WriteFiles, SettleFiles, Holds, Exists
  <1>8. CASE pc \in {"to_config", "sync_promoted", "to_cleanup"}
    <2>1. fs'["old"] = accepted /\ fs'["cleanup"] = Absent
      BY <1>8 DEF WriteInv, WriteFiles, Holds, Kept
    <2>2. pc' = "remove_config" /\ backup' = "old"
      BY <2>1, <1>6 DEF EnterRestore, RestoreBackup, Exists, Files
    <2> QED BY <1>2, <1>4, <1>5, <1>6, <2>1, <2>2
            DEF WriteInv, WriteFiles, SettleFiles
  <1>9. CASE pc = "sync_commit"
    <2>1. fs'["old"] = Absent /\ fs'["cleanup"] = accepted
      BY <1>9 DEF WriteInv, WriteFiles, Holds, Kept
    <2>2. pc' = "remove_config" /\ backup' = "cleanup"
      BY <2>1, <1>6 DEF EnterRestore, RestoreBackup, Exists, Files
    <2> QED BY <1>2, <1>4, <1>5, <1>6, <2>1, <2>2
            DEF WriteInv, WriteFiles, SettleFiles
  <1> QED BY <1>7, <1>8, <1>9 DEF WriteSteps

\* Every step of a write, of its cleanup, of a restoration and of recovery keeps the files
\* where the next step, and a recovery at that moment, expects them.
LEMMA WriteInvNext == ASSUME FaultsStopShort PROVE WriteInv /\ [Next]_vars => WriteInv'
  <1> SUFFICES ASSUME WriteInv, [Next]_vars
               PROVE  WriteInv'
    OBVIOUS
  <1> USE ConfigAssumption
  <1>a. fs \in Image /\ Shaped(fs) /\ Current(fs) \in {accepted, candidate}
    BY DEF WriteInv, ImagesKept, Images, Shaped
  <1>b. accepted \in Configs /\ ImagesKept /\ CandidateOK /\ WriteFiles /\ SettleFiles
    BY DEF WriteInv, CandidateOK
  <1>c. pc \in WriteSteps => candidate \in Configs
    BY <1>b DEF CandidateOK, InWrite
  <1>1. CASE \E c \in Configs : BeginWrite(c)
    <2>1. pc = "idle" /\ pc' = "write_tmp" /\ candidate' \in Configs
          /\ UNCHANGED <<fs, unsynced, mode, backup, tidy, memory>>
      BY <1>1 DEF BeginWrite
    <2>2. candidate = NoConfig
      BY <2>1, <1>b DEF CandidateOK, InWrite, WriteSteps, SettleSteps
    <2>3. ImagesKept'
      <3>1. \A x \in Images : Current(x) = accepted
        BY <2>2, <1>b, ShapedRecovers DEF ImagesKept, Shaped
      <3> QED BY <2>1, <3>1, <1>b DEF ImagesKept, Images, memory
    <2>4. CandidateOK'
      BY <2>1, <1>b DEF CandidateOK, InWrite, WriteSteps, SettleSteps, CleanupSteps, Steps,
                        Modes, memory
    <2>5. WriteFiles'
      BY <2>1, <1>b DEF WriteFiles, memory
    <2>6. SettleFiles'
      BY <2>1, <1>b DEF SettleFiles
    <2> QED BY <2>3, <2>4, <2>5, <2>6 DEF WriteInv
  <1>2. CASE WriteTmp
    <2>1. pc = "write_tmp" /\ pc' = "read_back" /\ UNCHANGED <<locals, memory>>
      BY <1>2 DEF WriteTmp
    <2>2. candidate \in Configs /\ fs = Only(accepted)
      BY <2>1, <1>b, <1>c DEF WriteFiles, WriteSteps
    <2>3. ASSUME NEW v \in Configs \cup {Corrupt}
          PROVE  /\ [fs EXCEPT !["tmp"] = v] \in Image
                 /\ [fs EXCEPT !["tmp"] = v]["tmp"] = v
                 /\ \A f \in Kept : [fs EXCEPT !["tmp"] = v][f] = fs[f]
      BY <1>a DEF Image, Files, Kept
    <2>4. \E v \in {candidate, Corrupt} : fs' = [fs EXCEPT !["tmp"] = v]
      BY <1>2 DEF WriteTmp
    <2>5. ImagesKept'
      <3>1. \A x \in {fs, fs', [fs EXCEPT !["tmp"] = Corrupt]} :
              Shaped(x) /\ Current(x) = Current(fs)
        <4>1. ASSUME NEW v \in {candidate, Corrupt}
              PROVE  /\ Shaped([fs EXCEPT !["tmp"] = v])
                     /\ Current([fs EXCEPT !["tmp"] = v]) = Current(fs)
          <5> DEFINE y == [fs EXCEPT !["tmp"] = v]
          <5>1. y \in Image /\ \A f \in Kept : y[f] = fs[f]
            BY <2>2, <2>3
          <5> HIDE DEF y
          <5>2. Shaped(y) /\ Current(y) = Current(fs)
            BY <1>a, <5>1, OnlyTmpDiffers
          <5> QED BY <5>2 DEF y
        <4> QED BY <1>a, <4>1, <2>4
      <3>2. Images' \subseteq Images \cup {fs', [fs EXCEPT !["tmp"] = Corrupt]}
        BY <1>2 DEF WriteTmp, Images
      <3> QED BY <3>1, <3>2, <1>a, <1>b, <2>1 DEF ImagesKept, locals, memory
    <2>6. CandidateOK'
      BY <2>1, <1>b DEF CandidateOK, InWrite, WriteSteps, SettleSteps, CleanupSteps, Steps,
                        Modes, memory, locals
    <2>7. Holds(fs', accepted, Absent, Absent) /\ fs'["tmp"] \in {candidate, Corrupt}
      BY <2>2, <2>3, <2>4 DEF Holds, Only, Files, Kept
    <2>8. WriteFiles'
      BY <2>1, <2>7 DEF WriteFiles, memory, locals
    <2>9. SettleFiles'
      BY <2>1, <1>b DEF SettleFiles, locals
    <2> QED BY <2>5, <2>6, <2>8, <2>9 DEF WriteInv
  <1>3. CASE ReadBack
    <2>1. pc = "read_back" /\ pc' = "to_old" /\ UNCHANGED <<fs, unsynced, locals, memory>>
          /\ Valid(fs, "tmp")
      BY <1>3 DEF ReadBack
    <2>2. ImagesKept'
      BY <2>1, <1>b, StillKept DEF locals, memory
    <2>3. CandidateOK'
      BY <2>1, <1>b DEF CandidateOK, InWrite, WriteSteps, SettleSteps, CleanupSteps, Steps,
                        Modes, memory, locals
    <2>4. WriteFiles'
      BY <2>1, <1>b DEF WriteFiles, memory, locals, Holds, Valid
    <2>5. SettleFiles'
      BY <2>1, <1>b DEF SettleFiles, locals
    <2> QED BY <2>2, <2>3, <2>4, <2>5 DEF WriteInv
  <1>4. CASE MoveToOld
    <2>1. pc = "to_old" /\ fs' = Renamed(fs, "config", "old") /\ pc' = "to_config"
          /\ unsynced' = unsynced \cup {fs} /\ UNCHANGED <<locals, memory>>
      BY <1>4 DEF MoveToOld, RenameAt, Change
    <2>2. Holds(fs, accepted, Absent, Absent) /\ fs["tmp"] = candidate
      BY <2>1, <1>b DEF WriteFiles
    <2>3. Holds(fs', Absent, accepted, Absent) /\ fs'["tmp"] = candidate /\ fs' \in Image
      BY <2>1, <2>2, <1>a, RenamedFiles DEF Holds, Files
    <2>4. ImagesKept'
      <3>1. Shaped(fs') /\ Current(fs') = accepted
        BY <2>3, <1>b DEF Shaped, Current, Holds, Exists, Kept
      <3> QED BY <3>1, <2>1, <1>b, ChangeKept DEF locals, memory
    <2>5. CandidateOK'
      BY <2>1, <1>b DEF CandidateOK, InWrite, WriteSteps, SettleSteps, CleanupSteps, Steps,
                        Modes, memory, locals
    <2>6. WriteFiles'
      BY <2>1, <2>3 DEF WriteFiles, memory, locals
    <2>7. SettleFiles'
      BY <2>1, <1>b DEF SettleFiles, locals
    <2> QED BY <2>4, <2>5, <2>6, <2>7 DEF WriteInv
  <1>5. CASE Promote
    <2>1. pc = "to_config" /\ fs' = Renamed(fs, "tmp", "config") /\ pc' = "sync_promoted"
          /\ unsynced' = unsynced \cup {fs} /\ UNCHANGED <<locals, memory>>
      BY <1>5 DEF Promote, RenameAt, Change
    <2>2. Holds(fs, Absent, accepted, Absent) /\ fs["tmp"] = candidate
          /\ candidate \in Configs
      BY <2>1, <1>b, <1>c DEF WriteFiles, WriteSteps
    <2>3. Holds(fs', candidate, accepted, Absent) /\ fs'["tmp"] = Absent /\ fs' \in Image
      BY <2>1, <2>2, <1>a, RenamedFiles DEF Holds, Files
    <2>4. ImagesKept'
      <3>1. Shaped(fs') /\ Current(fs') = accepted
        BY <2>2, <2>3, <1>b DEF Shaped, Current, Holds, Exists, Kept
      <3> QED BY <3>1, <2>1, <1>b, ChangeKept DEF locals, memory
    <2>5. CandidateOK'
      BY <2>1, <1>b DEF CandidateOK, InWrite, WriteSteps, SettleSteps, CleanupSteps, Steps,
                        Modes, memory, locals
    <2>6. WriteFiles'
      BY <2>1, <2>3 DEF WriteFiles, memory, locals
    <2>7. SettleFiles'
      BY <2>1, <1>b DEF SettleFiles, locals
    <2> QED BY <2>4, <2>5, <2>6, <2>7 DEF WriteInv
  <1>6. CASE SyncPromoted
    <2>1. pc = "sync_promoted" /\ pc' = "to_cleanup" /\ unsynced' = {}
          /\ UNCHANGED <<fs, locals, memory>>
      BY <1>6 DEF SyncPromoted, SyncAt
    <2>2. ImagesKept'
      BY <2>1, <1>b, StillKept DEF locals, memory
    <2>3. CandidateOK'
      BY <2>1, <1>b DEF CandidateOK, InWrite, WriteSteps, SettleSteps, CleanupSteps, Steps,
                        Modes, memory, locals
    <2>4. WriteFiles'
      BY <2>1, <1>b DEF WriteFiles, memory, locals
    <2>5. SettleFiles'
      BY <2>1, <1>b DEF SettleFiles, locals
    <2> QED BY <2>2, <2>3, <2>4, <2>5 DEF WriteInv
  <1>7. CASE MarkCommitted
    <2>1. pc = "to_cleanup" /\ fs' = Renamed(fs, "old", "cleanup") /\ pc' = "sync_commit"
          /\ unsynced' = unsynced \cup {fs} /\ UNCHANGED <<locals, memory>>
      BY <1>7 DEF MarkCommitted, RenameAt, Change
    <2>2. Holds(fs, candidate, accepted, Absent) /\ fs["tmp"] = Absent
          /\ candidate \in Configs
      BY <2>1, <1>b, <1>c DEF WriteFiles, WriteSteps
    <2>3. Holds(fs', candidate, Absent, accepted) /\ fs'["tmp"] = Absent /\ fs' \in Image
      BY <2>1, <2>2, <1>a, RenamedFiles DEF Holds, Files
    <2>4. ImagesKept'
      <3>1. Shaped(fs') /\ Current(fs') = candidate
        BY <2>2, <2>3, <1>b DEF Shaped, Current, Holds, Exists, Kept
      <3> QED BY <3>1, <2>1, <1>b, ChangeKept DEF locals, memory
    <2>5. CandidateOK'
      BY <2>1, <1>b DEF CandidateOK, InWrite, WriteSteps, SettleSteps, CleanupSteps, Steps,
                        Modes, memory, locals
    <2>6. WriteFiles'
      BY <2>1, <2>3 DEF WriteFiles, memory, locals
    <2>7. SettleFiles'
      BY <2>1, <1>b DEF SettleFiles, locals
    <2> QED BY <2>4, <2>5, <2>6, <2>7 DEF WriteInv
  <1>8. CASE SyncCommit
    <2>1. pc = "sync_commit" /\ pc' = "remove_cleanup" /\ unsynced' = {} /\ fs' = fs
          /\ accepted' = candidate /\ candidate' = NoConfig /\ rebootRequired' = TRUE
          /\ UNCHANGED <<mode, backup, tidy, booted>>
      BY <1>8 DEF SyncCommit, SyncAt
    <2>2. Holds(fs, candidate, Absent, accepted) /\ fs["tmp"] = Absent
          /\ candidate \in Configs
      BY <2>1, <1>b, <1>c DEF WriteFiles, WriteSteps
    <2>3. ImagesKept'
      <3>1. Current(fs') = accepted' /\ Shaped(fs')
        BY <2>1, <2>2, <1>a DEF Current, Holds, Exists
      <3> QED BY <3>1, <2>1 DEF ImagesKept, Images
    <2>4. CandidateOK'
      BY <2>1, <2>2, <1>b DEF CandidateOK, InWrite, WriteSteps, SettleSteps, CleanupSteps,
                              Steps, Modes
    <2>5. WriteFiles'
      BY <2>1, <2>2 DEF WriteFiles, Holds
    <2>6. SettleFiles'
      BY <2>1, <1>b DEF SettleFiles
    <2> QED BY <2>3, <2>4, <2>5, <2>6 DEF WriteInv
  <1>9. CASE RemoveCleanup
    <2>1. pc = "remove_cleanup" /\ fs' = Removed(fs, "cleanup") /\ pc' = "sync_cleanup"
          /\ unsynced' = unsynced \cup {fs} /\ UNCHANGED <<locals, memory>>
      BY <1>9 DEF RemoveCleanup, Change
    <2>2. fs["config"] = accepted /\ fs["old"] = Absent /\ fs["tmp"] = Absent
      BY <2>1, <1>b DEF WriteFiles
    <2>3. Holds(fs', accepted, Absent, Absent) /\ fs'["tmp"] = Absent /\ fs' \in Image
      BY <2>1, <2>2, <1>a, RemovedFiles DEF Holds, Files
    <2>4. ImagesKept'
      <3>1. Shaped(fs') /\ Current(fs') = accepted
        BY <2>3, <1>b DEF Shaped, Current, Holds, Exists, Kept
      <3> QED BY <3>1, <2>1, <1>b, ChangeKept DEF locals, memory
    <2>5. CandidateOK'
      BY <2>1, <1>b DEF CandidateOK, InWrite, WriteSteps, SettleSteps, CleanupSteps, Steps,
                        Modes, memory, locals
    <2>6. WriteFiles'
      BY <2>1, <2>3, <1>b, OnlyConfig DEF WriteFiles, memory, locals
    <2>7. SettleFiles'
      BY <2>1, <1>b DEF SettleFiles, locals
    <2> QED BY <2>4, <2>5, <2>6, <2>7 DEF WriteInv
  <1>10. CASE SyncCleanup
    <2>1. pc = "sync_cleanup" /\ pc' = "idle" /\ unsynced' = {}
          /\ UNCHANGED <<fs, locals, memory>>
      BY <1>10 DEF SyncCleanup, SyncAt
    <2>2. ImagesKept'
      BY <2>1, <1>b, StillKept DEF locals, memory
    <2>3. CandidateOK'
      BY <2>1, <1>b DEF CandidateOK, InWrite, WriteSteps, SettleSteps, CleanupSteps, Steps,
                        Modes, memory, locals
    <2>4. WriteFiles'
      BY <2>1, <1>b DEF WriteFiles, memory, locals
    <2>5. SettleFiles'
      BY <2>1, <1>b DEF SettleFiles, locals
    <2> QED BY <2>2, <2>3, <2>4, <2>5 DEF WriteInv
  <1>11. CASE WriteFault
    <2>1. pc \in WriteSteps /\ EnterRestore
      BY <1>11 DEF WriteFault
    <2>2. CASE UNCHANGED <<fs, unsynced>>
      BY <2>1, <2>2, <1>a, RestoreKept
    <2>3. CASE pc = "write_tmp" /\ Change([fs EXCEPT !["tmp"] = Corrupt])
      <3>1. fs' \in Image /\ \A f \in Kept : fs'[f] = fs[f]
        BY <2>3, <1>a DEF Change, Image, Files, Kept
      <3> QED BY <2>1, <2>3, <3>1, RestoreKept DEF Change
    <2> QED BY <1>11, <2>2, <2>3 DEF WriteFault
  <1>12. CASE ReadBackRefused
    BY <1>12, <1>a, RestoreKept DEF ReadBackRefused, WriteSteps
  <1>13. CASE CleanupFault \/ RestoreFault
    BY <1>13 DEF CleanupFault, RestoreFault, FaultsStopShort, WriteSteps, CleanupSteps
  <1>14. CASE RemoveConfig
    <2>1. pc = "remove_config" /\ pc' = "rename_backup" /\ UNCHANGED <<locals, memory>>
      BY <1>14 DEF RemoveConfig
    <2>2. /\ \/ backup = "old" /\ fs["cleanup"] = Absent
             \/ backup = "cleanup" /\ fs["old"] = Absent
          /\ fs[backup] = accepted
          /\ Exists(fs, "tmp") => "tmp" \in ToTidy
      BY <2>1, <1>b DEF SettleFiles
    <2>3. /\ fs' \in Image /\ fs'["config"] = Absent
          /\ \A f \in Files \ {"config"} : fs'[f] = fs[f]
          /\ unsynced' \subseteq unsynced \cup {fs}
      BY <1>14, <1>a, RemovedFiles DEF RemoveConfig, Change, Exists, Files
    <2>4. fs'[backup] = accepted /\ fs'["tmp"] = fs["tmp"]
          /\ fs'["old"] = fs["old"] /\ fs'["cleanup"] = fs["cleanup"]
      BY <2>2, <2>3 DEF Files
    <2>5. ImagesKept'
      <3>1. Shaped(fs') /\ Current(fs') = accepted
        BY <2>2, <2>3, <2>4, <1>b DEF Shaped, Current, Exists, Kept
      <3> QED BY <3>1, <2>1, <2>3, <1>b, ChangeKept DEF locals, memory
    <2>6. CandidateOK'
      BY <2>1, <1>b DEF CandidateOK, InWrite, WriteSteps, SettleSteps, CleanupSteps, Steps,
                        Modes, memory, locals
    <2>7. WriteFiles'
      BY <2>1 DEF WriteFiles
    <2>8. ToTidy' = ToTidy
      BY <2>1 DEF ToTidy, locals
    <2>9. SettleFiles'
      BY <2>1, <2>2, <2>3, <2>4, <2>8, <1>b DEF SettleFiles, locals, memory, Exists
    <2> QED BY <2>5, <2>6, <2>7, <2>9 DEF WriteInv
  <1>15. CASE RenameBackup
    <2>1. pc = "rename_backup" /\ fs' = Renamed(fs, backup, "config") /\ pc' = "tidy"
          /\ unsynced' = unsynced \cup {fs} /\ UNCHANGED <<locals, memory>>
      BY <1>15 DEF RenameBackup, Change
    <2>2. /\ \/ backup = "old" /\ fs["cleanup"] = Absent
             \/ backup = "cleanup" /\ fs["old"] = Absent
          /\ fs[backup] = accepted
          /\ Exists(fs, "tmp") => "tmp" \in ToTidy
      BY <2>1, <1>b DEF SettleFiles
    <2>3. Holds(fs', accepted, Absent, Absent) /\ fs'["tmp"] = fs["tmp"] /\ fs' \in Image
      <3>1. backup \in Files /\ "config" \in Files /\ backup # "config"
        BY <2>2 DEF Files
      <3>2. /\ fs' \in Image /\ fs'["config"] = accepted /\ fs'[backup] = Absent
            /\ \A h \in Files \ {backup, "config"} : fs'[h] = fs[h]
        <4>1. fs \in Image
          BY <1>a
        <4> DEFINE R == Renamed(fs, backup, "config")
        <4>2. /\ R \in Image /\ R["config"] = fs[backup] /\ R[backup] = Absent
              /\ \A h \in Files \ {backup, "config"} : R[h] = fs[h]
          BY <3>1, <4>1, RenamedFiles
        <4>3. fs' = R
          BY <2>1
        <4> HIDE DEF R
        <4> QED BY <2>2, <4>2, <4>3
      <3> QED BY <2>2, <3>2 DEF Files, Holds
    <2>4. ImagesKept'
      <3>1. Shaped(fs') /\ Current(fs') = accepted
        BY <2>3, <1>b DEF Shaped, Current, Holds, Exists, Kept
      <3> QED BY <3>1, <2>1, <1>b, ChangeKept DEF locals, memory
    <2>5. CandidateOK'
      BY <2>1, <1>b DEF CandidateOK, InWrite, WriteSteps, SettleSteps, CleanupSteps, Steps,
                        Modes, memory, locals
    <2>6. WriteFiles'
      BY <2>1 DEF WriteFiles
    <2>7. ToTidy' = ToTidy
      BY <2>1 DEF ToTidy, locals
    <2>8. SettleFiles'
      BY <2>1, <2>2, <2>3, <2>7, <1>b DEF SettleFiles, locals, memory, Exists, Holds
    <2> QED BY <2>4, <2>5, <2>6, <2>8 DEF WriteInv
  <1>16. CASE Tidy
    <2>1. pc = "tidy" /\ pc' = "tidy" /\ tidy # <<>> /\ tidy' = Tail(tidy)
          /\ UNCHANGED <<mode, backup, candidate, memory>>
      BY <1>16 DEF Tidy
    <2>2. /\ fs["config"] = accepted /\ fs["old"] = Absent
          /\ \A f \in {"tmp", "cleanup"} : Exists(fs, f) => f \in ToTidy
      BY <2>1, <1>b DEF SettleFiles
    <2>3. Head(tidy) \in Artifacts /\ tidy' \in Seq(Artifacts)
          /\ ToTidy \subseteq ToTidy' \cup {Head(tidy)}
      BY <2>1, <1>b, TidyList DEF SettleFiles
    <2>4. /\ fs' \in Image /\ fs'[Head(tidy)] = Absent
          /\ \A f \in Files \ {Head(tidy)} : fs'[f] = fs[f]
          /\ unsynced' \subseteq unsynced \cup {fs}
      <3>1. Head(tidy) \in Files
        BY <2>3 DEF Artifacts, Files
      <3> QED BY <1>16, <3>1, <1>a, RemovedFiles DEF Tidy, Change, Exists
    <2>5. /\ fs'["config"] = accepted /\ fs'["old"] = Absent
          /\ \A f \in {"tmp", "cleanup"} : Exists(fs', f) => f \in ToTidy'
      BY <2>2, <2>3, <2>4 DEF Files, Artifacts, Exists
    <2>6. ImagesKept'
      <3>1. Shaped(fs') /\ Current(fs') = accepted
        <4>1. fs'["cleanup"] \in {fs["cleanup"], Absent}
          BY <2>3, <2>4 DEF Files, Artifacts
        <4> QED BY <4>1, <2>4, <2>5, <1>a, <1>b DEF Shaped, Current, Exists, Kept
      <3> QED BY <3>1, <2>1, <2>4, <1>b, ChangeKept DEF memory
    <2>7. CandidateOK'
      BY <2>1, <1>b DEF CandidateOK, InWrite, WriteSteps, SettleSteps, CleanupSteps, Steps,
                        Modes, memory
    <2>8. WriteFiles'
      BY <2>1 DEF WriteFiles
    <2>9. SettleFiles'
      BY <2>1, <2>3, <2>5 DEF SettleFiles, memory
    <2> QED BY <2>6, <2>7, <2>8, <2>9 DEF WriteInv
  <1>17. CASE TidyDone
    <2>1. pc = "tidy" /\ pc' = "settle_sync" /\ tidy = <<>>
          /\ UNCHANGED <<fs, unsynced, locals, memory>>
      BY <1>17 DEF TidyDone
    <2>2. ImagesKept'
      BY <2>1, <1>b, StillKept DEF locals, memory
    <2>3. CandidateOK'
      BY <2>1, <1>b DEF CandidateOK, InWrite, WriteSteps, SettleSteps, CleanupSteps, Steps,
                        Modes, memory, locals
    <2>4. fs = Only(accepted)
      <3>1. ToTidy = {}
        BY <2>1 DEF ToTidy
      <3>2. Holds(fs, accepted, Absent, Absent) /\ fs["tmp"] = Absent
        BY <2>1, <3>1, <1>b DEF SettleFiles, Holds, Exists
      <3> QED BY <3>2, <1>a, <1>b, OnlyConfig
    <2>5. WriteFiles'
      BY <2>1, <2>4 DEF WriteFiles, memory, locals
    <2>6. SettleFiles'
      BY <2>1, <1>b DEF SettleFiles, locals
    <2> QED BY <2>2, <2>3, <2>5, <2>6 DEF WriteInv
  <1>18. CASE SettleSync
    <2>1. pc = "settle_sync" /\ pc' = "idle" /\ unsynced' = {} /\ candidate' = NoConfig
          /\ booted' = (IF mode = "recover" THEN fs["config"] ELSE booted)
          /\ UNCHANGED <<fs, mode, tidy, rebootRequired, accepted>>
      BY <1>18 DEF SettleSync, SyncAt
    <2>2. fs = Only(accepted)
      BY <2>1, <1>b DEF WriteFiles
    <2>3. ImagesKept'
      <3>1. Current(fs) = accepted
        BY <2>2, <1>b DEF Current, Only, Files, Exists
      <3> QED BY <3>1, <2>1, <1>a DEF ImagesKept, Images
    <2>4. fs["config"] = accepted
      BY <2>2 DEF Only, Files
    <2>5. CandidateOK'
      BY <2>1, <2>4, <1>b DEF CandidateOK, InWrite, WriteSteps, SettleSteps, CleanupSteps,
                              Steps, Modes
    <2>6. WriteFiles'
      BY <2>1, <2>2 DEF WriteFiles
    <2>7. SettleFiles'
      BY <2>1, <1>b DEF SettleFiles
    <2> QED BY <2>3, <2>5, <2>6, <2>7 DEF WriteInv
  <1>19. CASE PowerLoss
    <2>1. fs' \in Images /\ unsynced' = {} /\ pc' = "boot" /\ mode' = "recover"
          /\ tidy' = <<>> /\ candidate' = NoConfig /\ accepted' = Recovered(fs')
      BY <1>19 DEF PowerLoss
    <2>2. Shaped(fs') /\ accepted' = Current(fs') /\ accepted' \in Configs
      BY <2>1, <1>b, ShapedRecovers DEF ImagesKept, Shaped
    <2>3. ImagesKept'
      BY <2>1, <2>2 DEF ImagesKept, Images
    <2>4. CandidateOK'
      BY <2>1, <2>2 DEF CandidateOK, InWrite, WriteSteps, SettleSteps, CleanupSteps, Steps,
                        Modes
    <2>5. WriteFiles'
      BY <2>1 DEF WriteFiles
    <2>6. SettleFiles'
      BY <2>1 DEF SettleFiles
    <2> QED BY <2>3, <2>4, <2>5, <2>6 DEF WriteInv
  <1>20. CASE Decide
    <2> DEFINE plan == RecoveryPlan(fs, {})
    <2>1. Unreadable = {{}}
      BY DEF Unreadable, FaultsStopShort, WriteSteps
    <2>2. /\ pc = "boot"
          /\ backup' = IF plan.from = "config" THEN NoConfig ELSE plan.from
          /\ tidy' = plan.then
          /\ pc' = IF plan.from = "config" THEN "tidy"
                   ELSE IF plan.remove THEN "remove_config" ELSE "rename_backup"
          /\ UNCHANGED <<fs, unsynced, mode, candidate, memory>>
      BY <1>20, <2>1 DEF Decide
    <2>3. mode = "recover" /\ candidate = NoConfig /\ Current(fs) = accepted
      BY <2>2, <1>a, <1>b, ShapedRecovers
         DEF CandidateOK, InWrite, WriteSteps, SettleSteps, Shaped
    <2>4. ImagesKept'
      BY <2>2, <1>b, StillKept DEF memory
    <2>5. pc' \in {"tidy", "remove_config", "rename_backup"}
      BY <2>2
    <2>6. CandidateOK'
      BY <2>2, <2>3, <2>5, <1>b
         DEF CandidateOK, InWrite, WriteSteps, SettleSteps, CleanupSteps, Steps, Modes, memory
    <2>7. WriteFiles'
      BY <2>5 DEF WriteFiles
    <2>8. \A f \in Kept : Exists(fs, f) <=> Valid(fs, f)
      BY <1>a DEF Shaped, Exists, Valid, Image, Files, Kept
    <2>9. SettleFiles'
      <3>1. CASE Exists(fs, "old")
        <4>1. plan = Plan("old", Exists(fs, "config"), <<"tmp">>)
          BY <2>8, <3>1, <1>a DEF RecoveryPlan, Shaped, Kept
        <4>2. backup' = "old" /\ tidy' = <<"tmp">>
              /\ pc' = IF Exists(fs, "config") THEN "remove_config" ELSE "rename_backup"
          BY <4>1, <2>2 DEF Plan
        <4>3. "tmp" \in ToTidy' /\ tidy' \in Seq(Artifacts)
          BY <4>2 DEF ToTidy, Artifacts
        <4>4. fs["old"] = accepted /\ fs["cleanup"] = Absent
          BY <2>3, <3>1, <1>a DEF Current, Shaped, Exists
        <4> QED BY <4>2, <4>3, <4>4, <2>2 DEF SettleFiles, Exists, memory
      <3>2. CASE ~ Exists(fs, "old") /\ Exists(fs, "config") /\ Exists(fs, "cleanup")
        <4>1. plan = Plan("config", FALSE, <<"cleanup", "old", "tmp">>)
          BY <2>8, <3>2 DEF RecoveryPlan, Kept
        <4>2. pc' = "tidy" /\ tidy' = <<"cleanup", "old", "tmp">>
          BY <4>1, <2>2 DEF Plan
        <4>3. tidy' \in Seq(Artifacts) /\ Len(tidy') = 3
              /\ tidy'[1] = "cleanup" /\ tidy'[3] = "tmp"
          BY <4>2 DEF Artifacts
        <4>4. "tmp" \in ToTidy' /\ "cleanup" \in ToTidy'
          BY <4>3 DEF ToTidy
        <4>5. fs["config"] = accepted /\ fs["old"] = Absent
          BY <2>3, <3>2 DEF Current, Exists
        <4> QED BY <4>2, <4>3, <4>4, <4>5, <2>2 DEF SettleFiles, memory
      <3>3. CASE ~ Exists(fs, "old") /\ Exists(fs, "config") /\ ~ Exists(fs, "cleanup")
        <4>1. plan = Plan("config", FALSE, <<"old", "tmp">>)
          BY <2>8, <3>3 DEF RecoveryPlan, Kept
        <4>2. pc' = "tidy" /\ tidy' = <<"old", "tmp">>
          BY <4>1, <2>2 DEF Plan
        <4>3. tidy' \in Seq(Artifacts) /\ Len(tidy') = 2 /\ tidy'[2] = "tmp"
          BY <4>2 DEF Artifacts
        <4>4. "tmp" \in ToTidy'
          BY <4>3 DEF ToTidy
        <4>5. fs["config"] = accepted /\ fs["old"] = Absent
          BY <2>3, <3>3 DEF Current, Exists
        <4> QED BY <4>2, <4>3, <4>4, <4>5, <3>3, <2>2 DEF SettleFiles, memory, Exists
      <3>4. CASE ~ Exists(fs, "old") /\ ~ Exists(fs, "config")
        <4>1. plan = Plan("cleanup", Exists(fs, "config"), <<"old", "tmp">>)
          BY <2>8, <3>4, <1>a DEF RecoveryPlan, Shaped, Kept
        <4>2. backup' = "cleanup" /\ tidy' = <<"old", "tmp">> /\ pc' = "rename_backup"
          BY <4>1, <3>4, <2>2 DEF Plan
        <4>3. tidy' \in Seq(Artifacts) /\ Len(tidy') = 2 /\ tidy'[2] = "tmp"
          BY <4>2 DEF Artifacts
        <4>4. "tmp" \in ToTidy'
          BY <4>3 DEF ToTidy
        <4>5. fs["cleanup"] = accepted /\ fs["old"] = Absent /\ fs["config"] = Absent
          BY <2>3, <3>4 DEF Current, Exists
        <4> QED BY <4>2, <4>3, <4>4, <4>5, <2>2 DEF SettleFiles, memory
      <3> QED BY <3>1, <3>2, <3>3, <3>4
    <2> QED BY <2>4, <2>6, <2>7, <2>9 DEF WriteInv
  <1>21. CASE StayDown
    <2>1. pc' = "down" /\ pc \in SettleSteps \cup {"boot"} /\ (pc # "boot" => mode = "recover")
          /\ UNCHANGED <<fs, unsynced, locals, memory>>
      BY <1>21 DEF StayDown
    <2>2. ImagesKept'
      BY <2>1, <1>b, StillKept DEF locals, memory
    <2>3. CandidateOK'
      BY <2>1, <1>b DEF CandidateOK, InWrite, WriteSteps, SettleSteps, CleanupSteps, Steps,
                        Modes, memory, locals
    <2>4. WriteFiles' /\ SettleFiles'
      BY <2>1, <1>b DEF WriteFiles, SettleFiles, locals
    <2> QED BY <2>2, <2>3, <2>4 DEF WriteInv
  <1>22. CASE UNCHANGED vars
    <2>1. ImagesKept'
      BY <1>22, <1>b, StillKept DEF vars
    <2>2. CandidateOK' /\ WriteFiles' /\ SettleFiles'
      BY <1>22, <1>b DEF vars, CandidateOK, InWrite, WriteFiles, SettleFiles, ToTidy
    <2> QED BY <2>1, <2>2 DEF WriteInv
  <1> QED BY <1>1, <1>2, <1>3, <1>4, <1>5, <1>6, <1>7, <1>8, <1>9, <1>10, <1>11, <1>12,
             <1>13, <1>14, <1>15, <1>16, <1>17, <1>18, <1>19, <1>20, <1>21, <1>22
          DEF Next

\* Between commands exactly config.json exists, durably, and holds the committed
\* configuration, and the reboot flag is honest, wherever a write or recovery failed.
THEOREM SettlesClean == ASSUME FaultsStopShort PROVE Spec => []ConfigSettled
  <1>1. WriteInv => ConfigSettled
    <2> SUFFICES ASSUME WriteInv, pc = "idle"
                 PROVE  SteadyState /\ RebootFlagHonest
      BY DEF ConfigSettled, SteadyState, RebootFlagHonest
    <2>1. fs = Only(accepted) /\ unsynced = {}
      BY DEF WriteInv, WriteFiles
    <2>2. fs["config"] = accepted
      BY <2>1 DEF Only, Files
    <2> QED BY <2>1, <2>2 DEF SteadyState, RebootFlagHonest, Only, WriteInv, CandidateOK
  <1> QED BY <1>1, WriteInvInit, WriteInvNext, PTL DEF Spec

-----------------------------------------------------------------------------
(* The reboot flag is honest even where the cleanup of a commit fails.  A stale .cleanup
   then stays beside config.json, but only while the flag is set. *)

\* Reads at boot and restorations do not fail; everything else may, the cleanup included.
ReadsAndRestoresWork == {"load", "restore"} \cap FaultSteps = {}

\* Steps that find config.json as the firmware was started with it and no other marker.
Untouched ==
    \/ pc \in {"idle", "write_tmp", "read_back", "to_old"}
    \/ pc \in {"tidy", "settle_sync"} /\ mode = "restore"

\* Without a pending reboot, what is put back or kept is what the firmware runs on.
FlagWrites ==
    /\ pc \notin CleanupSteps
    /\ InWrite \/ pc = "idle" => booted \in Configs
    /\ Untouched => Holds(fs, booted, Absent, Absent)
    /\ pc \in {"to_config", "sync_promoted", "to_cleanup"} =>
         fs["old"] = booted /\ fs["cleanup"] = Absent
    /\ pc = "sync_commit" => fs["old"] = Absent /\ fs["cleanup"] = booted
    /\ pc \in {"remove_config", "rename_backup"} /\ mode = "restore" =>
         \/ backup = "old" /\ fs["old"] = booted /\ fs["cleanup"] = Absent
         \/ backup = "cleanup" /\ fs["cleanup"] = booted /\ fs["old"] = Absent

\* Boot recovery has every marker on its list, or is about to rename it.
FlagRecovery ==
    mode = "recover" =>
      /\ pc \in {"remove_config", "rename_backup"} =>
           \A f \in {"old", "cleanup"} : fs[f] = Absent \/ f \in ToTidy \/ f = backup
      /\ pc = "tidy" => \A f \in {"old", "cleanup"} : fs[f] = Absent \/ f \in ToTidy
      /\ pc = "settle_sync" => fs["old"] = Absent /\ fs["cleanup"] = Absent

FlagInv == ~ rebootRequired => FlagWrites /\ FlagRecovery

\* A boot is in recovery.
ModeInv == mode \in Modes /\ (pc = "boot" => mode = "recover")

\* Recovery takes a marker, lists it, or finds it absent, if all it can be is valid or absent.
LEMMA PlanLists ==
  ASSUME NEW x \in Image, \A f \in Kept : x[f] # Corrupt, RecoveryPlan(x, {}).from # NoConfig,
         NEW f \in {"old", "cleanup"}
  PROVE  LET plan == RecoveryPlan(x, {})
         IN  x[f] = Absent \/ f = plan.from \/ f \in {plan.then[k] : k \in 1..Len(plan.then)}
  <1> USE ConfigAssumption
  <1>1. \A g \in Kept : x[g] = Absent \/ Valid(x, g)
    BY DEF Image, Kept, Files, Valid
  <1>2. CASE Exists(x, "cleanup") /\ Valid(x, "config")
    <2>1. RecoveryPlan(x, {}) = Plan("config", FALSE, <<"cleanup", "old", "tmp">>)
      BY <1>2 DEF RecoveryPlan
    <2>2. /\ Len(<<"cleanup", "old", "tmp">>) = 3
          /\ <<"cleanup", "old", "tmp">>[1] = "cleanup"
          /\ <<"cleanup", "old", "tmp">>[2] = "old"
      OBVIOUS
    <2> QED BY <2>1, <2>2 DEF Plan
  <1>3. CASE ~ Valid(x, "config") /\ Valid(x, "cleanup")
    <2>1. RecoveryPlan(x, {}) = Plan("cleanup", Exists(x, "config"), <<"old", "tmp">>)
      BY <1>3 DEF RecoveryPlan
    <2>2. Len(<<"old", "tmp">>) = 2 /\ <<"old", "tmp">>[1] = "old"
      OBVIOUS
    <2> QED BY <2>1, <2>2 DEF Plan
  <1>4. CASE x["cleanup"] = Absent
    <2>1. f = "cleanup" => x[f] = Absent
      BY <1>4
    <2>2. CASE Valid(x, "old")
      <3>1. RecoveryPlan(x, {}).from = "old"
        BY <1>4, <2>2 DEF RecoveryPlan, Plan, Exists, Valid
      <3> QED BY <3>1, <2>1
    <2>3. CASE ~ Valid(x, "old")
      BY <1>1, <2>1, <2>3 DEF Kept
    <2> QED BY <2>2, <2>3
  <1> QED BY <1>1, <1>2, <1>3, <1>4 DEF Kept, Exists

\* The first boot has one file and nothing pending.
LEMMA FlagInvInit == Init => FlagInv
  BY DEF Init, FlagInv, FlagWrites, FlagRecovery, Untouched, InWrite, CleanupSteps, WriteSteps,
         SettleSteps, Holds, Files

\* A restoration goes back to the marker that keeps what the firmware runs on, or, with no
\* marker left, to config.json as it is.
LEMMA RestoreHonest ==
  ASSUME BootInv, FlagInv, pc \in WriteSteps, EnterRestore,
         \A f \in Kept : fs'[f] = fs[f]
  PROVE  FlagInv'
  <1> SUFFICES ASSUME ~ rebootRequired
               PROVE  FlagWrites'
    BY DEF EnterRestore, memory, FlagInv, FlagRecovery
  <1> USE ConfigAssumption
  <1>1. fs'["config"] = fs["config"] /\ fs'["old"] = fs["old"] /\ fs'["cleanup"] = fs["cleanup"]
    BY DEF Kept
  <1>2. mode' = "restore" /\ booted' = booted /\ backup' = RestoreBackup
        /\ pc' = IF backup' = NoConfig THEN "tidy" ELSE "remove_config"
    BY DEF EnterRestore, memory
  <1>3. FlagWrites
    BY DEF FlagInv
  <1>4. CASE pc \in {"write_tmp", "read_back", "to_old"}
    <2>1. Holds(fs', booted, Absent, Absent)
      BY <1>1, <1>3, <1>4 DEF FlagWrites, Untouched, Holds
    <2>2. backup' = NoConfig
      BY <1>2, <2>1 DEF RestoreBackup, Exists, Holds
    <2>3. booted' \in Configs
      BY <1>2, <1>3 DEF FlagWrites, InWrite
    <2> QED BY <1>2, <2>1, <2>2, <2>3 DEF FlagWrites, CleanupSteps, Holds
  <1>5. CASE pc \in {"to_config", "sync_promoted", "to_cleanup", "sync_commit"}
    <2>1. \/ fs'["old"] = booted /\ fs'["cleanup"] = Absent
          \/ fs'["cleanup"] = booted /\ fs'["old"] = Absent
      BY <1>1, <1>3, <1>5 DEF FlagWrites
    <2>2. booted # Absent
      BY <1>3 DEF FlagWrites, InWrite
    <2>3. \/ backup' = "old" /\ fs'["old"] = booted /\ fs'["cleanup"] = Absent
          \/ backup' = "cleanup" /\ fs'["cleanup"] = booted /\ fs'["old"] = Absent
      BY <1>2, <2>1, <2>2 DEF RestoreBackup, Exists
    <2>4. pc' = "remove_config"
      BY <1>2, <2>3 DEF Files
    <2>5. booted' \in Configs
      BY <1>2, <1>3 DEF FlagWrites, InWrite
    <2> QED BY <1>2, <2>3, <2>4, <2>5 DEF FlagWrites, Untouched, CleanupSteps
  <1> QED BY <1>4, <1>5 DEF WriteSteps

LEMMA ModeInvInit == Init => ModeInv
  BY DEF Init, ModeInv, Modes

LEMMA ModeInvNext == ModeInv /\ [Next]_vars => ModeInv'
  BY DEF ModeInv, Modes, Next, vars, locals, BeginWrite, WriteTmp, ReadBack, ReadBackRefused,
         MoveToOld, Promote, SyncPromoted, MarkCommitted, SyncCommit, RemoveCleanup, SyncCleanup,
         RenameAt, SyncAt, EnterRestore, WriteFault, CleanupFault, RestoreFault, RemoveConfig,
         RenameBackup, Tidy, TidyDone, SettleSync, PowerLoss, Decide, StayDown

\* With nothing pending, every step leaves the markers as FlagInv says; the durable commit
\* and a power loss hand over to the flag and to recovery.
LEMMA FlagInvNext ==
  ASSUME ReadsAndRestoresWork
  PROVE  BootInv /\ ModeInv /\ FlagInv /\ [Next]_vars => FlagInv'
  <1> SUFFICES ASSUME BootInv, ModeInv, FlagInv, [Next]_vars
               PROVE  FlagInv'
    OBVIOUS
  <1> USE ConfigAssumption
  <1>fs. fs \in Image /\ \A f \in Kept : fs[f] # Corrupt
    BY DEF BootInv, ImagesBootable, Images, Bootable
  <1>w. ~ rebootRequired => FlagWrites /\ FlagRecovery
    BY DEF FlagInv
  <1>1. CASE \E c \in Configs : BeginWrite(c)
    <2>1. pc = "idle" /\ pc' = "write_tmp" /\ UNCHANGED <<fs, booted, rebootRequired>>
      BY <1>1 DEF BeginWrite, memory
    <2> QED BY <2>1, <1>w
            DEF FlagInv, FlagWrites, FlagRecovery, Untouched, InWrite, CleanupSteps
  <1>2. CASE WriteTmp
    <2>1. pc = "write_tmp" /\ pc' = "read_back" /\ UNCHANGED <<booted, rebootRequired>>
      BY <1>2 DEF WriteTmp, memory
    <2>2. \A v : Holds(fs, booted, Absent, Absent) =>
                   Holds([fs EXCEPT !["tmp"] = v], booted, Absent, Absent)
      BY DEF Holds
    <2>3. Holds(fs, booted, Absent, Absent) => Holds(fs', booted, Absent, Absent)
      BY <1>2, <2>2 DEF WriteTmp
    <2> QED BY <2>1, <2>3, <1>w
            DEF FlagInv, FlagWrites, FlagRecovery, Untouched, InWrite, CleanupSteps, WriteSteps
  <1>3. CASE ReadBack
    <2>1. pc = "read_back" /\ pc' = "to_old" /\ UNCHANGED <<fs, booted, rebootRequired>>
      BY <1>3 DEF ReadBack, memory
    <2> QED BY <2>1, <1>w
            DEF FlagInv, FlagWrites, FlagRecovery, Untouched, InWrite, CleanupSteps, WriteSteps
  <1>4. CASE MoveToOld
    <2>1. pc = "to_old" /\ pc' = "to_config" /\ fs' = Renamed(fs, "config", "old")
          /\ UNCHANGED <<booted, rebootRequired>>
      BY <1>4 DEF MoveToOld, RenameAt, Change, memory
    <2>2. fs'["old"] = fs["config"] /\ fs'["cleanup"] = fs["cleanup"]
      BY <2>1, <1>fs, RenamedFiles DEF Files
    <2>3. ~ rebootRequired => Holds(fs, booted, Absent, Absent) /\ booted \in Configs
      BY <2>1, <1>w DEF FlagWrites, Untouched, InWrite, WriteSteps
    <2> QED BY <2>1, <2>2, <2>3
            DEF FlagInv, FlagWrites, FlagRecovery, Untouched, CleanupSteps, Holds
  <1>5. CASE Promote
    <2>1. pc = "to_config" /\ pc' = "sync_promoted" /\ fs' = Renamed(fs, "tmp", "config")
          /\ UNCHANGED <<booted, rebootRequired>>
      BY <1>5 DEF Promote, RenameAt, Change, memory
    <2>2. fs'["old"] = fs["old"] /\ fs'["cleanup"] = fs["cleanup"]
      BY <2>1, <1>fs, RenamedFiles DEF Files
    <2>3. ~ rebootRequired =>
             fs["old"] = booted /\ fs["cleanup"] = Absent /\ booted \in Configs
      BY <2>1, <1>w DEF FlagWrites, InWrite, WriteSteps
    <2> QED BY <2>1, <2>2, <2>3 DEF FlagInv, FlagWrites, FlagRecovery, Untouched, CleanupSteps
  <1>6. CASE SyncPromoted
    <2>1. pc = "sync_promoted" /\ pc' = "to_cleanup" /\ UNCHANGED <<fs, booted, rebootRequired>>
      BY <1>6 DEF SyncPromoted, SyncAt, memory
    <2>2. ~ rebootRequired =>
             fs["old"] = booted /\ fs["cleanup"] = Absent /\ booted \in Configs
      BY <2>1, <1>w DEF FlagWrites, InWrite, WriteSteps
    <2> QED BY <2>1, <2>2 DEF FlagInv, FlagWrites, FlagRecovery, Untouched, CleanupSteps
  <1>7. CASE MarkCommitted
    <2>1. pc = "to_cleanup" /\ pc' = "sync_commit" /\ fs' = Renamed(fs, "old", "cleanup")
          /\ UNCHANGED <<booted, rebootRequired>>
      BY <1>7 DEF MarkCommitted, RenameAt, Change, memory
    <2>2. fs'["old"] = Absent /\ fs'["cleanup"] = fs["old"]
      BY <2>1, <1>fs, RenamedFiles DEF Files
    <2>3. ~ rebootRequired => fs["old"] = booted /\ booted \in Configs
      BY <2>1, <1>w DEF FlagWrites, InWrite, WriteSteps
    <2> QED BY <2>1, <2>2, <2>3 DEF FlagInv, FlagWrites, FlagRecovery, Untouched, CleanupSteps
  <1>8. CASE SyncCommit
    BY <1>8 DEF SyncCommit, SyncAt, FlagInv
  <1>9. CASE RemoveCleanup
    <2>1. rebootRequired
      BY <1>9, <1>w DEF RemoveCleanup, FlagWrites, CleanupSteps
    <2> QED BY <1>9, <2>1 DEF RemoveCleanup, memory, FlagInv
  <1>10. CASE SyncCleanup
    <2>1. rebootRequired
      BY <1>10, <1>w DEF SyncCleanup, SyncAt, FlagWrites, CleanupSteps
    <2> QED BY <1>10, <2>1 DEF SyncCleanup, SyncAt, memory, FlagInv
  <1>11. CASE WriteFault
    <2>1. pc \in WriteSteps /\ EnterRestore
      BY <1>11 DEF WriteFault
    <2>2. \A f \in Kept : fs'[f] = fs[f]
      BY <1>11, <1>fs DEF WriteFault, Change, Image, Kept, Files
    <2> QED BY <2>1, <2>2, RestoreHonest
  <1>12. CASE ReadBackRefused
    BY <1>12, RestoreHonest DEF ReadBackRefused, WriteSteps
  <1>13. CASE CleanupFault
    <2>1. rebootRequired
      BY <1>13, <1>w DEF CleanupFault, FlagWrites
    <2> QED BY <1>13, <2>1 DEF CleanupFault, memory, FlagInv
  <1>14. CASE RestoreFault
    BY <1>14 DEF RestoreFault, ReadsAndRestoresWork
  <1>15. CASE RemoveConfig
    <2>1. pc = "remove_config" /\ pc' = "rename_backup"
          /\ UNCHANGED <<mode, backup, tidy, booted, rebootRequired>>
      BY <1>15 DEF RemoveConfig, locals, memory
    <2>2. fs'["old"] = fs["old"] /\ fs'["cleanup"] = fs["cleanup"]
      BY <1>15, <1>fs, RemovedFiles DEF RemoveConfig, Change, Files
    <2>3. ToTidy' = ToTidy
      BY <2>1 DEF ToTidy
    <2>4. ~ rebootRequired => FlagWrites'
      BY <2>1, <2>2, <1>w
         DEF FlagWrites, Untouched, InWrite, CleanupSteps, WriteSteps, SettleSteps
    <2>5. ~ rebootRequired => FlagRecovery'
      BY <2>1, <2>2, <2>3, <1>w DEF FlagRecovery
    <2> QED BY <2>1, <2>4, <2>5 DEF FlagInv
  <1>16. CASE RenameBackup
    <2>1. pc = "rename_backup" /\ pc' = "tidy" /\ fs' = Renamed(fs, backup, "config")
          /\ UNCHANGED <<mode, tidy, booted, rebootRequired>>
      BY <1>16 DEF RenameBackup, Change, locals, memory
    <2>2. backup \in Artifacts
      BY <2>1 DEF BootInv, StepSafe
    <2>3. fs'["config"] = fs[backup] /\ fs'[backup] = Absent
          /\ \A h \in Files \ {backup, "config"} : fs'[h] = fs[h]
      BY <2>1, <2>2, <1>fs, RenamedFiles DEF Files, Artifacts
    <2>4. ToTidy' = ToTidy
      BY <2>1 DEF ToTidy
    <2>5. CASE ~ rebootRequired /\ mode = "restore"
      <3>1. Holds(fs', booted, Absent, Absent) /\ booted \in Configs
        BY <2>1, <2>3, <2>5, <1>w DEF FlagWrites, InWrite, SettleSteps, Holds, Files
      <3> QED BY <3>1, <2>1, <2>5
              DEF FlagInv, FlagWrites, FlagRecovery, CleanupSteps
    <2>6. CASE ~ rebootRequired /\ mode # "restore"
      <3>1. mode = "recover" => \A f \in {"old", "cleanup"} : fs'[f] = Absent \/ f \in ToTidy'
        BY <2>1, <2>3, <2>4, <2>6, <1>w DEF FlagRecovery, Files
      <3> QED BY <3>1, <2>1, <2>6
              DEF FlagInv, FlagWrites, FlagRecovery, Untouched, InWrite, CleanupSteps, WriteSteps
    <2> QED BY <2>1, <2>5, <2>6 DEF FlagInv
  <1>17. CASE Tidy
    <2>1. pc = "tidy" /\ pc' = "tidy" /\ tidy # <<>> /\ tidy' = Tail(tidy)
          /\ UNCHANGED <<mode, booted, rebootRequired>>
      BY <1>17 DEF Tidy, memory
    <2>2. Head(tidy) \in Artifacts /\ ToTidy \subseteq {Head(tidy)} \cup ToTidy'
      BY <2>1, TidyList DEF BootInv
    <2>3. fs'["config"] = fs["config"]
          /\ \A f \in {"old", "cleanup"} : fs'[f] = IF f = Head(tidy) THEN Absent ELSE fs[f]
      BY <1>17, <2>2, <1>fs, RemovedFiles DEF Tidy, Change, Exists, Files, Artifacts
    <2>4. ~ rebootRequired => FlagWrites'
      <3>1. Holds(fs, booted, Absent, Absent) => Holds(fs', booted, Absent, Absent)
        BY <2>3 DEF Holds
      <3> QED BY <3>1, <2>1, <1>w
              DEF FlagWrites, Untouched, InWrite, CleanupSteps, WriteSteps, SettleSteps
    <2>5. ~ rebootRequired => FlagRecovery'
      BY <2>1, <2>2, <2>3, <1>w DEF FlagRecovery
    <2> QED BY <2>1, <2>4, <2>5 DEF FlagInv
  <1>18. CASE TidyDone
    <2>1. pc = "tidy" /\ pc' = "settle_sync" /\ tidy = <<>>
          /\ UNCHANGED <<fs, mode, booted, rebootRequired>>
      BY <1>18 DEF TidyDone, locals, memory
    <2>2. ToTidy = {}
      BY <2>1 DEF ToTidy
    <2>3. ~ rebootRequired => FlagWrites'
      BY <2>1, <1>w
         DEF FlagWrites, Untouched, InWrite, CleanupSteps, WriteSteps, SettleSteps
    <2>4. ~ rebootRequired => FlagRecovery'
      BY <2>1, <2>2, <1>w DEF FlagRecovery
    <2> QED BY <2>1, <2>3, <2>4 DEF FlagInv
  <1>19. CASE SettleSync
    <2>1. pc = "settle_sync" /\ pc' = "idle" /\ UNCHANGED <<fs, mode, rebootRequired>>
          /\ booted' = IF mode = "recover" THEN fs["config"] ELSE booted
      BY <1>19 DEF SettleSync, SyncAt
    <2>2. fs["config"] \in Configs
      BY <2>1 DEF BootInv, StepSafe, ConfigInPlace, Valid
    <2>3. CASE ~ rebootRequired /\ mode = "recover"
      <3>1. Holds(fs', booted', Absent, Absent) /\ booted' \in Configs
        BY <2>1, <2>2, <2>3, <1>w DEF FlagRecovery, Holds
      <3> QED BY <3>1, <2>1
              DEF FlagInv, FlagWrites, FlagRecovery, Untouched, CleanupSteps
    <2>4. CASE ~ rebootRequired /\ mode # "recover"
      <3>1. booted' = booted
        BY <2>1, <2>4
      <3>2. mode = "restore"
        BY <2>4 DEF ModeInv, Modes
      <3>3. Holds(fs', booted', Absent, Absent) /\ booted' \in Configs
        BY <2>1, <2>4, <3>1, <3>2, <1>w DEF FlagWrites, Untouched, InWrite, SettleSteps
      <3> QED BY <3>2, <3>3, <2>1
              DEF FlagInv, FlagWrites, FlagRecovery, Untouched, CleanupSteps
    <2> QED BY <2>1, <2>3, <2>4 DEF FlagInv
  <1>20. CASE PowerLoss
    BY <1>20
       DEF PowerLoss, FlagInv, FlagWrites, FlagRecovery, Untouched, InWrite, CleanupSteps,
           WriteSteps, SettleSteps
  <1>21. CASE Decide
    <2> DEFINE plan == RecoveryPlan(fs, {})
    <2>1. Unreadable = {{}}
      BY DEF Unreadable, ReadsAndRestoresWork
    <2>2. /\ plan.from # NoConfig
          /\ backup' = IF plan.from = "config" THEN NoConfig ELSE plan.from
          /\ tidy' = plan.then
          /\ pc' = IF plan.from = "config" THEN "tidy"
                   ELSE IF plan.remove THEN "remove_config" ELSE "rename_backup"
          /\ pc = "boot" /\ UNCHANGED <<fs, mode, rebootRequired>>
      BY <1>21, <2>1 DEF Decide, memory
    <2>3. \A f \in {"old", "cleanup"} :
            fs[f] = Absent \/ f = plan.from \/ f \in {plan.then[k] : k \in 1..Len(plan.then)}
      BY <1>fs, <2>2, PlanLists
    <2>4. mode' = "recover" /\ pc' \in {"tidy", "remove_config", "rename_backup"}
      BY <2>2 DEF ModeInv
    <2>5. FlagWrites'
      BY <2>4 DEF FlagWrites, Untouched, InWrite, CleanupSteps, WriteSteps
    <2>6. ToTidy' = {plan.then[k] : k \in 1..Len(plan.then)}
      BY <2>2 DEF ToTidy
    <2>7. CASE plan.from = "config"
      BY <2>2, <2>3, <2>5, <2>6, <2>7 DEF FlagInv, FlagRecovery
    <2>8. CASE plan.from # "config"
      BY <2>2, <2>3, <2>5, <2>6, <2>8 DEF FlagInv, FlagRecovery
    <2> QED BY <2>7, <2>8
  <1>22. CASE StayDown
    <2>1. pc' = "down" /\ rebootRequired' = rebootRequired
      BY <1>22 DEF StayDown, memory
    <2> QED BY <2>1
            DEF FlagInv, FlagWrites, FlagRecovery, Untouched, InWrite, CleanupSteps,
                WriteSteps, SettleSteps
  <1>23. CASE UNCHANGED vars
    <2>1. ToTidy' = ToTidy
      BY <1>23 DEF vars, ToTidy
    <2> QED BY <1>23, <2>1
            DEF vars, FlagInv, FlagWrites, FlagRecovery, Untouched, InWrite
  <1> QED BY <1>1, <1>2, <1>3, <1>4, <1>5, <1>6, <1>7, <1>8, <1>9, <1>10, <1>11, <1>12,
             <1>13, <1>14, <1>15, <1>16, <1>17, <1>18, <1>19, <1>20, <1>21, <1>22, <1>23
          DEF Next

\* Wherever a write, its cleanup or recovery fails, reboot_required is never FALSE while
\* config.json differs from the configuration the firmware runs on.
THEOREM FlagStaysHonest == ASSUME ReadsAndRestoresWork PROVE Spec => []RebootFlagHonest
  <1>1. FlagInv => RebootFlagHonest
    BY DEF FlagInv, FlagWrites, RebootFlagHonest, Untouched, Holds
  <1> QED BY <1>1, BootInvInit, BootInvNext, ModeInvInit, ModeInvNext, FlagInvInit, FlagInvNext, PTL
          DEF Spec

-----------------------------------------------------------------------------
(* The transaction implements ConfigStore. *)

RecoveredFrom(X) == {Recovered(x) : x \in X}

Outcomes == RecoveredFrom(Images)

\* A power loss leaves the committed configuration or the candidate, and without a
\* candidate nothing but the committed one.
LEMMA OutcomesKept ==
  ASSUME NEW X, X # {}, NEW a \in Configs, NEW c \in Configs \cup {NoConfig},
         \A x \in X : Shaped(x) /\ Current(x) \in {a, c}
  PROVE  /\ RecoveredFrom(X) # {}
         /\ RecoveredFrom(X) \subseteq {a, c}
         /\ c = NoConfig => RecoveredFrom(X) = {a}
  <1>1. \A x \in X : Recovered(x) \in Configs /\ Recovered(x) \in {a, c}
    BY ShapedRecovers DEF Shaped
  <1> QED BY <1>1, ConfigAssumption DEF RecoveredFrom

\* Each step starts, leaves in doubt, commits, refuses or survives a write as the store
\* does, or changes nothing of it.
LEMMA StoreStep ==
  ASSUME WriteInv, WriteInv', [Next]_vars
  PROVE  [Store!Next]_<<accepted, candidate, Outcomes>>
  <1> USE ConfigAssumption
  <1>1. /\ candidate \in Configs \cup {NoConfig} /\ accepted \in Configs
        /\ candidate' \in Configs \cup {NoConfig} /\ accepted' \in Configs
    BY DEF WriteInv, CandidateOK
  <1>2. /\ Outcomes # {} /\ Outcomes \subseteq {accepted, candidate}
        /\ candidate = NoConfig => Outcomes = {accepted}
    <2>1. Images # {} /\ \A x \in Images : Shaped(x) /\ Current(x) \in {accepted, candidate}
      BY DEF WriteInv, ImagesKept, Images
    <2> QED BY <1>1, <2>1, OutcomesKept DEF Outcomes
  <1>3. /\ Outcomes' # {} /\ Outcomes' \subseteq {accepted', candidate'}
        /\ candidate' = NoConfig => Outcomes' = {accepted'}
    <2>1. Images' # {} /\ \A x \in Images' : Shaped(x) /\ Current(x) \in {accepted', candidate'}
      BY DEF WriteInv, ImagesKept, Images
    <2> QED BY <1>1, <2>1, OutcomesKept DEF Outcomes
  <1> USE DEF Store!Next, Store!Start, Store!Doubt, Store!Commit, Store!Refuse,
              Store!PowerLoss, RecoveredFrom
  <1>4. ASSUME UNCHANGED <<accepted, candidate>>
        PROVE  [Store!Next]_<<accepted, candidate, Outcomes>>
    <2>1. CASE candidate = NoConfig
      BY <1>2, <1>3, <1>4, <2>1
    <2>2. CASE candidate # NoConfig
      <3>1. Store!Doubt
        BY <1>3, <1>4, <2>2 DEF Outcomes
      <3> QED BY <3>1
    <2> QED BY <2>1, <2>2
  <1>5. CASE \E c \in Configs : BeginWrite(c)
    <2>1. PICK c \in Configs : BeginWrite(c)
      BY <1>5
    <2>2. pc = "idle" /\ candidate' = c /\ accepted' = accepted /\ Outcomes' = Outcomes
      BY <2>1 DEF BeginWrite, memory, Outcomes, Images
    <2>3. candidate = NoConfig
      BY <2>2 DEF WriteInv, CandidateOK, InWrite, WriteSteps, SettleSteps
    <2>4. Store!Start(c)
      BY <2>2, <2>3 DEF Outcomes
    <2> QED BY <2>4
  <1>6. CASE SyncCommit
    <2>1. pc = "sync_commit" /\ accepted' = candidate /\ candidate' = NoConfig
      BY <1>6 DEF SyncCommit, SyncAt
    <2>2. candidate # NoConfig
      BY <2>1, <1>1 DEF WriteInv, CandidateOK, InWrite, WriteSteps
    <2>3. Store!Commit
      BY <2>1, <2>2, <1>3 DEF Outcomes
    <2> QED BY <2>3
  <1>7. CASE SettleSync
    <2>1. accepted' = accepted /\ candidate' = NoConfig
      BY <1>7 DEF SettleSync
    <2>2. CASE candidate = NoConfig
      BY <2>1, <2>2, <1>4
    <2>3. CASE candidate # NoConfig
      <3>1. Store!Refuse
        BY <2>1, <2>3, <1>3 DEF Outcomes
      <3> QED BY <3>1
    <2> QED BY <2>2, <2>3
  <1>8. CASE PowerLoss
    <2>1. candidate' = NoConfig /\ accepted' \in Outcomes
      BY <1>8 DEF PowerLoss, Outcomes, RecoveredFrom
    <2>2. Store!PowerLoss
      BY <2>1, <1>3 DEF Outcomes
    <2> QED BY <2>2
  <1>9. CASE WriteFault \/ ReadBackRefused
    BY <1>9, <1>4 DEF WriteFault, ReadBackRefused, EnterRestore, memory
  <1>10. CASE CleanupFault \/ RestoreFault
    <2>1. accepted' = accepted
      BY <1>10 DEF CleanupFault, RestoreFault, locals, memory
    <2>2. CASE candidate = NoConfig
      <3>1. candidate' = NoConfig
        BY <1>10, <2>2 DEF CleanupFault, RestoreFault, locals
      <3> QED BY <2>1, <2>2, <3>1, <1>4
    <2>3. CASE candidate # NoConfig /\ candidate' = NoConfig
      <3>1. Store!Refuse
        BY <2>1, <2>3, <1>3 DEF Outcomes
      <3> QED BY <3>1
    <2>4. CASE candidate # NoConfig /\ candidate' # NoConfig
      BY <1>10, <2>4, <1>4 DEF CleanupFault, RestoreFault, locals, memory
    <2> QED BY <2>2, <2>3, <2>4
  <1>11. CASE WriteTmp \/ ReadBack \/ MoveToOld \/ Promote \/ SyncPromoted \/ MarkCommitted
              \/ RemoveCleanup \/ SyncCleanup
    BY <1>11, <1>4
       DEF WriteTmp, ReadBack, MoveToOld, Promote, SyncPromoted, MarkCommitted, RemoveCleanup,
           SyncCleanup, RenameAt, SyncAt, Change, locals, memory
  <1>12. CASE RemoveConfig \/ RenameBackup \/ Tidy \/ TidyDone \/ Decide \/ StayDown
    BY <1>12, <1>4
       DEF RemoveConfig, RenameBackup, Tidy, TidyDone, Decide, StayDown, locals, memory
  <1>13. CASE UNCHANGED vars
    BY <1>13, <1>4 DEF vars
  <1> QED BY <1>5, <1>6, <1>7, <1>8, <1>9, <1>10, <1>11, <1>12, <1>13 DEF Next

\* begin_write and recover() implement one durable configuration with all-or-nothing
\* writes, whichever calls before the commit point or during recovery fail and wherever
\* power is lost.
THEOREM TransactionIsAtomic == ASSUME FaultsStopShort PROVE Spec => ImplementsStore
  <1>1. Init => Store!Init
    <2> SUFFICES ASSUME Init
                 PROVE  Store!Init
      OBVIOUS
    <2>1. WriteInv /\ candidate = NoConfig
      BY WriteInvInit DEF Init
    <2>2. accepted \in Configs /\ Outcomes = {accepted}
      <3>1. Images # {} /\ \A x \in Images : Shaped(x) /\ Current(x) \in {accepted, candidate}
        BY <2>1 DEF WriteInv, ImagesKept, Images
      <3> QED BY <2>1, <3>1, OutcomesKept, ConfigAssumption DEF Outcomes, WriteInv, CandidateOK
    <2> QED BY <2>1, <2>2 DEF Store!Init, Outcomes, RecoveredFrom
  <1>2. WriteInv /\ WriteInv' /\ [Next]_vars => [Store!Next]_<<accepted, candidate, Outcomes>>
    BY StoreStep
  <1> QED BY <1>1, <1>2, WriteInvInit, WriteInvNext, PTL
          DEF Spec, ImplementsStore, Store!Spec, Outcomes, RecoveredFrom

=============================================================================
