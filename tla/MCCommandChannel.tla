-------------------------- MODULE MCCommandChannel --------------------------
(* A small instance of CommandChannel for TLC. *)
EXTENDS CommandChannel

Command(id, kind, fate) == [id |-> id, kind |-> kind, broadcast |-> FALSE, fate |-> fate]

\* One of each kind, answers that cannot be published among them.
MCCommands == {
    Command(1, "reboot", "ok"),
    Command(2, "reboot", "too_large"),
    Command(3, "get-details", "invalid"),
    Command(4, "malformed", "spliced"),
    [Command(5, "write-config", "ok") EXCEPT !.broadcast = TRUE],
    Command(6, "read-config", "ok"),
    Command(7, "ignored", "ok")}

\* For the full response queue (README, "Observed"): a get-details answer that fits the
\* lane, but not with its envelope.
SplicedCommands == {
    Command(3, "get-details", "spliced"),
    Command(4, "malformed", "too_large")}
=============================================================================
