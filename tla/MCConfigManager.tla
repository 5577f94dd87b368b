--------------------------- MODULE MCConfigManager ---------------------------
(* Instances of ConfigManager for TLC: where the storage may raise OSError. *)
EXTENDS ConfigManager, TLC

\* No configuration is distinguished.
ConfigSymmetry == Permutations(Configs)

\* Before the commit point, and during boot recovery.
PreCommitFaults == WriteSteps \cup {"recover"}

\* Also while the leftover .cleanup is removed.
CleanupFaults == PreCommitFaults \cup CleanupSteps

\* Everywhere, restorations and readings included.
AllFaults == CleanupFaults \cup {"load", "restore"}
=============================================================================
