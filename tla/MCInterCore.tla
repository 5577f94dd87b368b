----------------------------- MODULE MCInterCore -----------------------------
(* A small instance of InterCore for TLC. *)
EXTENDS InterCore

\* A message on each side of the retention floor, and one of each way a message is
\* refused.
MCMessages == {
    [kind |-> "command_response", retention_priority |-> RETENTION_PRIORITY_CRITICAL,
     size |-> 2, verdict |-> "ok"],
    [kind |-> "health", retention_priority |-> RETENTION_PRIORITY_HEALTH,
     size |-> 1, verdict |-> "ok"],
    [kind |-> "health", retention_priority |-> RETENTION_PRIORITY_HEALTH,
     size |-> 2, verdict |-> "too_large"],
    [kind |-> "telemetry", retention_priority |-> RETENTION_PRIORITY_TELEMETRY,
     size |-> 1, verdict |-> "unserializable"]}
=============================================================================
