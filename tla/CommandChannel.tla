--------------------------- MODULE CommandChannel ---------------------------
(***************************************************************************)
(* The life of a command in core0.py and core1.py: ingress and debounce,   *)
(* execution on Core 0 or Core 1, and the answer's way back to the broker  *)
(* over a link that may fail at any publish, up to a commanded reset.      *)
(*                                                                         *)
(* Core 0 is one thread, and its run loop is a cycle of steps (pc).  A     *)
(* publish is a step that waits for its PUBACK (wire), and inbound         *)
(* messages are handled inside that wait too (MQTTClient.wait_msg calls    *)
(* _on_mqtt_message), as well as in the poll and in the SUBACK waits of a  *)
(* reconnect.  The outbound lane is reduced to what InterCore proves of    *)
(* it: a FIFO that loses no CRITICAL entry.                                *)
(***************************************************************************)
EXTENDS Naturals, Sequences, FiniteSets, SequencesExt

CONSTANTS
    Commands,        \* what senders may send: [id, kind, broadcast, fate]
    MaxPending,      \* _MAX_PENDING_CORE0_RESPONSES
    RecentCapacity,  \* _RECENT_COMMAND_ID_CAPACITY
    Paced,           \* mqtt_outbound_publish_delay_ms > 0
    MaxDeliveries,   \* bound: command copies delivered
    MaxFails,        \* bound: failures of the link
    MaxTelemetry,    \* bound: other outbound entries
    None             \* None

\* "ignored" stands for the silent drops: not JSON, wrong schema version, topic, type or
\* target, no bounded command_id.  "malformed" stands for the answered envelope and
\* registry errors and for a payload the command refuses.
CommandKinds == {"ignored", "malformed", "reboot", "get-details", "read-config", "write-config"}

\* What becomes of an answer that carries the command's data: it is published; it is
\* refused by the serializer as too large or invalid; or it fits, but not with the
\* envelope that publishing splices in.
Fates == {"ok", "too_large", "invalid", "spliced"}

Outcomes == {"success", "error", "substitute", "telemetry"}

\* An answer in whatever container holds it.  claim: which claim it answers (0 for
\* telemetry); seq: _wire_sequence; stamp: when its bytes were frozen, told by the
\* failures so far; clears: _clears_pending_reboot.
Answer(claim, outcome, fate) ==
    [claim |-> claim, outcome |-> outcome, fate |-> fate, seq |-> None, stamp |-> None,
     clears |-> FALSE]

AnswerType ==
    [claim : 0..MaxDeliveries, outcome : Outcomes, fate : Fates, seq : Nat \cup {None},
     stamp : Nat \cup {None}, clears : BOOLEAN]

ASSUME CommandAssumption ==
    /\ \A c \in Commands : c.kind \in CommandKinds /\ c.fate \in Fates /\ c.broadcast \in BOOLEAN
    /\ MaxPending \in Nat \ {0}
    /\ RecentCapacity \in Nat \ {0}
    /\ Paced \in BOOLEAN
    /\ None \notin Nat /\ None \notin {"response", "reboot", "entry"} /\ None \notin AnswerType
    /\ MaxDeliveries \in Nat /\ MaxFails \in Nat /\ MaxTelemetry \in Nat

LoopSteps == {"top", "reboot1", "recover", "poll", "reboot2", "service", "publish",
              "grace", "reset"}

VARIABLES
    pc,             \* where the run loop is
    up,             \* Mqtt.is_connected()
    gate,           \* _mqtt_publish_ready()
    wire,           \* the document whose PUBACK is awaited, or None
    pending,        \* _pending_core0_responses
    pendingReboot,  \* _pending_reboot, or None
    answerQueued,   \* its _permanent_failure_answer_queued
    recent,         \* _recent_command_ids
    nextSeq,        \* _next_sequence
    events,         \* get-details events on their way to Core 1
    core1,          \* "running" or "stopped"
    core1Pending,   \* Core 1's pending_command_response, or None
    outbound,       \* the outbound lane's queue
    inFlight,       \* its in-flight entry, or None
    claims,         \* history: the commands whose ID was claimed, in order
    received,       \* history: the documents the broker has received
    acked,          \* history: the claims with a PUBACKed answer
    deliveries, fails, telemetry

loop == <<pc, up, gate, wire>>
answers == <<pending, pendingReboot, answerQueued, nextSeq>>
ingress == <<recent, events, claims, deliveries>>
core1Vars == <<core1, core1Pending, telemetry>>
lane == <<outbound, inFlight>>
broker == <<received, acked>>
vars == <<loop, answers, ingress, core1Vars, lane, broker, fails>>

Init ==
    /\ pc = "top"
    /\ up = TRUE
    /\ gate = TRUE
    /\ wire = None
    /\ pending = <<>>
    /\ pendingReboot = None
    /\ answerQueued = FALSE
    /\ recent = <<>>
    /\ nextSeq = 0
    /\ events = <<>>
    /\ core1 = "running"
    /\ core1Pending = None
    /\ outbound = <<>>
    /\ inFlight = None
    /\ claims = <<>>
    /\ received = {}
    /\ acked = {}
    /\ deliveries = 0
    /\ fails = 0
    /\ telemetry = 0

-----------------------------------------------------------------------------
(* Inbound commands. *)

\* _queue_core0_response: refused, with a warning, when the queue is full.
QueueCore0Response(r) ==
    pending' = IF Len(pending) >= MaxPending THEN pending ELSE Append(pending, r)

\* Mutant: >= for >, so the cache holds one ID less.
RememberCommandId_early(id) ==
    recent' = IF Len(recent) + 1 >= RecentCapacity THEN Tail(Append(recent, id))
                                                   ELSE Append(recent, id)

RememberCommandId(id) ==
    recent' = IF Len(recent) + 1 > RecentCapacity THEN Append(Tail(recent), id)
                                                  ELSE Append(recent, id)

\* Mutant: a command is claimed without a response slot.
Dropped_noSlot(c) == c.kind = "ignored" \/ c.id \in ToSet(recent)

\* Dropped without a trace: not for this device, debounced, or no response slot is free.
Dropped(c) ==
    \/ c.kind = "ignored"
    \/ c.id \in ToSet(recent)
    \/ Len(pending) >= MaxPending

\* The dispatch of a claimed command.  Reading and writing the configuration (see
\* ConfigManager) succeed or raise ConfigError; the event lane may reject the event.
Dispatch(c, claim) ==
    LET answer(outcome) == Answer(claim, outcome, c.fate)
        brief(outcome) == Answer(claim, outcome, "ok")
    IN  \/ /\ c.kind = "malformed"
           /\ QueueCore0Response(answer("error"))
           /\ UNCHANGED <<pendingReboot, answerQueued, events>>
        \/ /\ c.kind = "write-config" /\ c.broadcast
           /\ UNCHANGED <<pending, pendingReboot, answerQueued, events>>
        \/ /\ c.kind = "read-config" \/ (c.kind = "write-config" /\ ~ c.broadcast)
           /\ \E outcome \in {"success", "error"} : QueueCore0Response(answer(outcome))
           /\ UNCHANGED <<pendingReboot, answerQueued, events>>
        \/ /\ c.kind = "reboot" /\ pendingReboot # None
           /\ QueueCore0Response(brief("error"))
           /\ UNCHANGED <<pendingReboot, answerQueued, events>>
        \/ /\ c.kind = "reboot" /\ pendingReboot = None
           /\ pendingReboot' = answer("success")
           /\ answerQueued' = FALSE
           /\ UNCHANGED <<pending, events>>
        \/ /\ c.kind = "get-details"
           /\ events' = Append(events, answer("success"))
           /\ UNCHANGED <<pending, pendingReboot, answerQueued>>
        \/ /\ c.kind = "get-details"
           /\ QueueCore0Response(brief("error"))
           /\ UNCHANGED <<pendingReboot, answerQueued, events>>

\* _on_mqtt_message.
OnMqttMessage(c) ==
    /\ deliveries < MaxDeliveries
    /\ deliveries' = deliveries + 1
    /\ IF Dropped(c)
       THEN UNCHANGED <<pending, pendingReboot, answerQueued, recent, events, claims>>
       ELSE /\ RememberCommandId(c.id)
            /\ claims' = Append(claims, c)
            /\ Dispatch(c, Len(claims) + 1)
    /\ UNCHANGED <<nextSeq, core1Vars, lane, broker>>

\* Inside a publish's PUBACK wait, or a reconnect's SUBACK wait.
MessageInWait ==
    /\ wire # None \/ (pc = "recover" /\ ~ up)
    /\ \E c \in Commands : OnMqttMessage(c)
    /\ UNCHANGED <<loop, fails>>

LinkFails ==
    /\ fails < MaxFails
    /\ fails' = fails + 1
    /\ up' = FALSE

\* check_msg handles at most one message; the PUBACK it owes may fail to go out.
PollMessage ==
    /\ pc = "poll" /\ up
    /\ \E c \in Commands : OnMqttMessage(c)
    /\ pc' = "reboot2"
    /\ LinkFails \/ UNCHANGED <<up, fails>>
    /\ UNCHANGED <<gate, wire>>

\* Nothing there, no poll due, no session, or the poll fails.
PollNothing ==
    /\ pc = "poll"
    /\ pc' = "reboot2"
    /\ (up /\ LinkFails) \/ UNCHANGED <<up, fails>>
    /\ UNCHANGED <<gate, wire, answers, ingress, core1Vars, lane, broker>>

-----------------------------------------------------------------------------
(* Publishing.  The sequence is claimed and the bytes are frozen on the container *)
(* before the first attempt, so a retry sends the same document.                  *)

\* Mutant: the bytes are built again for every attempt.
Stamped_rebuilt(r) == [r EXCEPT !.seq = IF @ = None THEN nextSeq ELSE @, !.stamp = fails]

Stamped(r) == [r EXCEPT !.seq = IF @ = None THEN nextSeq ELSE @,
                        !.stamp = IF @ = None THEN fails ELSE @]

SeqAfter(r) == IF r.seq = None THEN nextSeq + 1 ELSE nextSeq

Document(r) == [claim |-> r.claim, outcome |-> r.outcome, seq |-> r.seq, stamp |-> r.stamp]

\* The bounded error that stands in for an answer that can never be published.
Substitute(r) == Answer(r.claim, "substitute", "ok")

\* The PUBACK: the pacing interval begins.
Puback(r) ==
    /\ wire # None
    /\ wire' = None
    /\ received' = received \cup {Document(r)}
    /\ acked' = acked \cup {r.claim}
    /\ gate' = IF Paced THEN FALSE ELSE TRUE
    /\ UNCHANGED up

\* The attempt fails, and the broker has received the document or has not.
PublishFails(r) ==
    /\ wire # None
    /\ wire' = None
    /\ LinkFails
    /\ received' \in {received, received \cup {Document(r)}}
    /\ UNCHANGED <<gate, acked>>

\* --- _service_pending_core0_response

ServiceDue == up /\ pending # <<>> /\ inFlight = None /\ gate

ServiceNothing ==
    /\ pc = "service" /\ wire = None
    /\ ~ ServiceDue
    /\ pc' = "publish"
    /\ UNCHANGED <<up, gate, wire, answers, ingress, core1Vars, lane, broker, fails>>

ServicePublish ==
    LET r == Head(pending)
    IN  /\ pc = "service" /\ wire = None
        /\ ServiceDue
        /\ r.fate = "ok"
        /\ pending' = [pending EXCEPT ![1] = Stamped(r)]
        /\ nextSeq' = SeqAfter(r)
        /\ wire' = "response"
        /\ UNCHANGED <<pc, up, gate, pendingReboot, answerQueued, ingress, core1Vars, lane,
                       broker, fails>>

\* Mutant: a permanent failure is held for another pass like a transport failure.
ServiceSubstitute_held ==
    /\ pc = "service" /\ wire = None
    /\ ServiceDue
    /\ Head(pending).fate # "ok"
    /\ nextSeq' = SeqAfter(Head(pending))
    /\ pending' = [pending EXCEPT ![1] = [@ EXCEPT !.seq = IF @ = None THEN nextSeq ELSE @]]
    /\ pc' = "publish"
    /\ UNCHANGED <<up, gate, wire, pendingReboot, answerQueued, ingress, core1Vars, lane,
                   broker, fails>>

\* The head can never be published: the bounded substitute takes its place.
ServiceSubstitute ==
    LET r == Head(pending)
    IN  /\ pc = "service" /\ wire = None
        /\ ServiceDue
        /\ r.fate # "ok"
        /\ pending' = [pending EXCEPT ![1] = Substitute(r)]
        /\ nextSeq' = SeqAfter(r)
        /\ pc' = "publish"
        /\ UNCHANGED <<up, gate, wire, pendingReboot, answerQueued, ingress, core1Vars, lane,
                       broker, fails>>

ServiceDone ==
    LET r == Head(pending)
    IN  /\ wire = "response"
        /\ Puback(r)
        /\ pending' = Tail(pending)
        /\ pendingReboot' = IF r.clears THEN None ELSE pendingReboot
        /\ answerQueued' = IF r.clears THEN FALSE ELSE answerQueued
        /\ pc' = "publish"
        /\ UNCHANGED <<nextSeq, ingress, core1Vars, lane, fails>>

ServiceFailed ==
    /\ wire = "response"
    /\ PublishFails(Head(pending))
    /\ pc' = "publish"
    /\ UNCHANGED <<answers, ingress, core1Vars, lane>>

\* --- _perform_reboot, before and after the poll

AfterReboot == IF pc = "reboot1" THEN "recover" ELSE "service"

\* Mutant: the in-flight entry is not waited for.
RebootDue_notWaiting == pendingReboot # None /\ up /\ gate /\ ~ answerQueued

\* Whether an attempt is made in this pass.
RebootDue ==
    /\ pendingReboot # None /\ up /\ gate
    /\ inFlight = None
    /\ ~ answerQueued

RebootNothing ==
    /\ pc \in {"reboot1", "reboot2"} /\ wire = None
    /\ ~ RebootDue
    /\ pc' = AfterReboot
    /\ UNCHANGED <<up, gate, wire, answers, ingress, core1Vars, lane, broker, fails>>

RebootPublish ==
    /\ pc \in {"reboot1", "reboot2"} /\ wire = None
    /\ RebootDue
    /\ pendingReboot.fate = "ok"
    /\ pendingReboot' = Stamped(pendingReboot)
    /\ nextSeq' = SeqAfter(pendingReboot)
    /\ wire' = "reboot"
    /\ UNCHANGED <<pc, up, gate, pending, answerQueued, ingress, core1Vars, lane, broker, fails>>

\* Mutant: the substitute is taken as queued although the queue is full.
RebootSubstitute_assumed ==
    /\ pc \in {"reboot1", "reboot2"} /\ wire = None
    /\ RebootDue
    /\ pendingReboot.fate # "ok"
    /\ pendingReboot' = [pendingReboot EXCEPT !.seq = IF @ = None THEN nextSeq ELSE @]
    /\ nextSeq' = SeqAfter(pendingReboot)
    /\ QueueCore0Response([Substitute(pendingReboot) EXCEPT !.clears = TRUE])
    /\ answerQueued' = TRUE
    /\ pc' = AfterReboot
    /\ UNCHANGED <<up, gate, wire, ingress, core1Vars, lane, broker, fails>>

\* The acknowledgement can never be published: the reboot is held, and released by the
\* publication of the substitute, if that finds a slot in the queue.
RebootSubstitute ==
    /\ pc \in {"reboot1", "reboot2"} /\ wire = None
    /\ RebootDue
    /\ pendingReboot.fate # "ok"
    /\ pendingReboot' = [pendingReboot EXCEPT !.seq = IF @ = None THEN nextSeq ELSE @]
    /\ nextSeq' = SeqAfter(pendingReboot)
    /\ QueueCore0Response([Substitute(pendingReboot) EXCEPT !.clears = TRUE])
    /\ answerQueued' = (Len(pending) < MaxPending)
    /\ pc' = AfterReboot
    /\ UNCHANGED <<up, gate, wire, ingress, core1Vars, lane, broker, fails>>

\* Acknowledged: five seconds of grace, then machine.reset().
RebootAcknowledged ==
    /\ wire = "reboot"
    /\ Puback(pendingReboot)
    /\ pendingReboot' = None
    /\ pc' = "grace"
    /\ UNCHANGED <<pending, answerQueued, nextSeq, ingress, core1Vars, lane, fails>>

RebootFailed ==
    /\ wire = "reboot"
    /\ PublishFails(pendingReboot)
    /\ pc' = AfterReboot
    /\ UNCHANGED <<answers, ingress, core1Vars, lane>>

MachineReset ==
    /\ pc = "grace"
    /\ pc' = "reset"
    /\ UNCHANGED <<up, gate, wire, answers, ingress, core1Vars, lane, broker, fails>>

\* --- the outbound lane

PublishDue == up /\ gate /\ (inFlight # None \/ outbound # <<>>)

\* The entry take() returns, and what it leaves queued.
Taken == IF inFlight # None THEN inFlight ELSE Head(outbound)
Untaken == IF inFlight # None THEN outbound ELSE Tail(outbound)

\* No session, no slot or nothing to send; then the PINGREQ that may be due can fail.
PublishNothing ==
    /\ pc = "publish" /\ wire = None
    /\ ~ PublishDue
    /\ pc' = "top"
    /\ (up /\ LinkFails) \/ UNCHANGED <<up, fails>>
    /\ UNCHANGED <<gate, wire, answers, ingress, core1Vars, lane, broker>>

PublishEntry ==
    /\ pc = "publish" /\ wire = None
    /\ PublishDue
    /\ Taken.fate = "ok"
    /\ inFlight' = [Stamped(Taken) EXCEPT !.stamp = Taken.stamp]
    /\ outbound' = Untaken
    /\ nextSeq' = SeqAfter(Taken)
    /\ wire' = "entry"
    /\ UNCHANGED <<pc, up, gate, pending, pendingReboot, answerQueued, ingress, core1Vars,
                   broker, fails>>

\* Too large with the envelope: discarded, and a command is answered with the substitute.
DiscardEntry ==
    /\ pc = "publish" /\ wire = None
    /\ PublishDue
    /\ Taken.fate # "ok"
    /\ inFlight' = None
    /\ outbound' = Untaken
    /\ nextSeq' = SeqAfter(Taken)
    /\ IF Taken.outcome = "telemetry" THEN UNCHANGED pending
                                      ELSE QueueCore0Response(Substitute(Taken))
    /\ pc' = "top"
    /\ UNCHANGED <<up, gate, wire, pendingReboot, answerQueued, ingress, core1Vars, broker, fails>>

EntryDone ==
    /\ wire = "entry"
    /\ Puback(inFlight)
    /\ inFlight' = None
    /\ pc' = "top"
    /\ UNCHANGED <<answers, ingress, core1Vars, outbound, fails>>

EntryFailed ==
    /\ wire = "entry"
    /\ PublishFails(inFlight)
    /\ pc' = "top"
    /\ UNCHANGED <<answers, ingress, core1Vars, lane>>

-----------------------------------------------------------------------------
(* The rest of the loop, time, and Core 1. *)

Top ==
    /\ pc = "top"
    /\ pc' = "reboot1"
    /\ UNCHANGED <<up, gate, wire, answers, ingress, core1Vars, lane, broker, fails>>

\* _recover_network_if_needed: establish_network() loops until the session is back.
Recover ==
    /\ pc = "recover"
    /\ up' = TRUE
    /\ pc' = "poll"
    /\ UNCHANGED <<gate, wire, answers, ingress, core1Vars, lane, broker, fails>>

\* _watch_core_1_heartbeat, at the top and in every wait.
HeartbeatReset ==
    /\ core1 = "stopped"
    /\ pc # "reset"
    /\ pc' = "reset"
    /\ wire' = None
    /\ UNCHANGED <<up, gate, answers, ingress, core1Vars, lane, broker, fails>>

\* The pacing delay passes.
GateOpens ==
    /\ ~ gate
    /\ pc # "reset"
    /\ gate' = TRUE
    /\ UNCHANGED <<pc, up, wire, answers, ingress, core1Vars, lane, broker, fails>>

Running == core1 = "running" /\ pc # "reset"

\* _process_intercore_event, when no earlier response is pending.
Core1TakeEvent ==
    /\ Running
    /\ core1Pending = None
    /\ events # <<>>
    /\ core1Pending' = Head(events)
    /\ events' = Tail(events)
    /\ UNCHANGED <<loop, answers, recent, claims, deliveries, core1, telemetry, lane, broker, fails>>

\* _admit_or_substitute_command_response.  A transient rejection leaves it pending.
Core1Admit ==
    /\ Running
    /\ core1Pending # None
    /\ core1Pending.fate \in {"ok", "spliced"}
    /\ outbound' = Append(outbound, core1Pending)
    /\ core1Pending' = None
    /\ UNCHANGED <<loop, answers, ingress, core1, telemetry, inFlight, broker, fails>>

\* The serializer's MemoryError is answered without one or all of the large sections.
Core1Shrink ==
    /\ Running
    /\ core1Pending # None
    /\ core1Pending.outcome = "success"
    /\ core1Pending' = [core1Pending EXCEPT !.fate = "ok"]
    /\ UNCHANGED <<loop, answers, ingress, core1, telemetry, lane, broker, fails>>

\* A permanent rejection of the response: the small error stands in for it ...
Core1Refused ==
    /\ Running
    /\ core1Pending # None
    /\ core1Pending.fate \in {"too_large", "invalid"}
    /\ core1Pending' = Substitute(core1Pending)
    /\ UNCHANGED <<loop, answers, ingress, core1, telemetry, lane, broker, fails>>

\* ... as for a MemoryError of its smallest form.
Core1MemoryError ==
    /\ Running
    /\ core1Pending # None
    /\ core1Pending.outcome = "success"
    /\ core1Pending' = Substitute(core1Pending)
    /\ UNCHANGED <<loop, answers, ingress, core1, telemetry, lane, broker, fails>>

\* A MemoryError on the substitute itself, as any other exception, ends core1_main.
Core1Stops ==
    /\ Running
    /\ core1' = "stopped"
    /\ core1Pending' = None
    /\ UNCHANGED <<loop, answers, ingress, telemetry, lane, broker, fails>>

\* Telemetry, health and logs share the lane; one may outgrow it with its envelope.
Core1Telemetry ==
    /\ Running
    /\ telemetry < MaxTelemetry
    /\ telemetry' = telemetry + 1
    /\ \E fate \in {"ok", "spliced"} :
          outbound' = Append(outbound, Answer(0, "telemetry", fate))
    /\ UNCHANGED <<loop, answers, ingress, core1, core1Pending, inFlight, broker, fails>>

Core0Step ==
    \/ Top \/ Recover \/ PollMessage \/ PollNothing \/ MessageInWait
    \/ ServiceNothing \/ ServicePublish \/ ServiceSubstitute \/ ServiceDone \/ ServiceFailed
    \/ RebootNothing \/ RebootPublish \/ RebootSubstitute \/ RebootAcknowledged \/ RebootFailed
    \/ MachineReset \/ HeartbeatReset
    \/ PublishNothing \/ PublishEntry \/ DiscardEntry \/ EntryDone \/ EntryFailed

Core1Step ==
    \/ Core1TakeEvent \/ Core1Admit \/ Core1Shrink \/ Core1Refused \/ Core1MemoryError
    \/ Core1Stops \/ Core1Telemetry

\* After machine.reset() everything in RAM is gone: a new runtime, out of this scope.
Next == Core0Step \/ Core1Step \/ GateOpens

Spec == Init /\ [][Next]_vars

\* Core 0's thread keeps running, time passes (the pacing delay ends, the heartbeat of a
\* stopped Core 1 goes stale and is looked at in every pass), and Core 1 takes its events and gets its
\* small CRITICAL responses admitted in the end.  Failures of the link are bounded by
\* MaxFails: the link comes back for good.
FairSpec ==
    /\ Spec
    /\ WF_vars(Core0Step)
    /\ WF_vars(GateOpens) /\ WF_vars(HeartbeatReset)
    /\ WF_vars(Core1TakeEvent) /\ WF_vars(Core1Refused) /\ WF_vars(Core1Admit)

-----------------------------------------------------------------------------
(* Properties. *)

\* Every variable stays in its domain; the response queue and the debounce cache keep
\* their capacities.
TypeOK ==
    /\ pc \in LoopSteps
    /\ up \in BOOLEAN /\ gate \in BOOLEAN /\ answerQueued \in BOOLEAN
    /\ wire \in {None, "response", "reboot", "entry"}
    /\ pending \in Seq(AnswerType) /\ Len(pending) <= MaxPending
    /\ pendingReboot \in AnswerType \cup {None}
    /\ recent \in Seq({c.id : c \in Commands}) /\ Len(recent) <= RecentCapacity
    /\ nextSeq \in Nat
    /\ events \in Seq(AnswerType)
    /\ core1 \in {"running", "stopped"}
    /\ core1Pending \in AnswerType \cup {None}
    /\ outbound \in Seq(AnswerType)
    /\ inFlight \in AnswerType \cup {None}
    /\ claims \in Seq(Commands)
    /\ acked \subseteq 0..MaxDeliveries

\* A fleet-wide write-config is claimed and never answered.
Silent(k) == claims[k].kind = "write-config" /\ claims[k].broadcast

\* Everything that still holds an answer.
Held ==
    ToSet(pending) \cup ToSet(events) \cup ToSet(outbound)
        \cup ({pendingReboot, core1Pending, inFlight} \ {None})

Owed(k) == \E r \in Held : r.claim = k

\* Until a reset, no claimed command loses its answer: it is held somewhere or the
\* broker has acknowledged it, over failed publishes, permanent failures, a full
\* response queue and a held reboot.  The debounce cache makes a loss final.
AnswerOwed ==
    pc # "reset" /\ core1 = "running" =>
        \A k \in DOMAIN claims : Silent(k) \/ k \in acked \/ Owed(k)

\* (runtime_id, sequence) identifies one document: whatever number of times it is sent,
\* the broker never receives two different documents under one sequence.
SequenceIdentity == \A d, e \in received : d.seq = e.seq => d = e

\* A claimed command gets one answer: after an ambiguous failure the broker may receive
\* it twice, but never another one beside it.
OneAnswer == \A d, e \in received : d.claim = e.claim /\ d.claim # 0 => d = e

\* Sequences, documents and commands correspond one to one at the broker, whatever was
\* published again, substituted or rebuilt on the way.
AnswerIdentity == SequenceIdentity /\ OneAnswer

\* A commanded reset follows the acknowledged success of a reboot command, and never
\* interrupts the QoS 1 exchange of an outbound entry.
ResetAcknowledged ==
    pc = "grace" \/ (pc = "reset" /\ core1 = "running") =>
        /\ inFlight = None
        /\ \E d \in received : /\ d.claim \in acked
                               /\ d.outcome = "success"
                               /\ claims[d.claim].kind = "reboot"

\* A reboot that is held because its acknowledgement cannot be published always has the
\* queued answer whose publication releases it, and only then.
HeldRebootReleasable ==
    (pendingReboot # None /\ answerQueued)
        <=> \E r \in ToSet(pending) : r.clears /\ r.outcome = "substitute"
                                     /\ pendingReboot # None /\ r.claim = pendingReboot.claim

\* An ID is processed again only after RecentCapacity other IDs were claimed since.
DebounceWindow ==
    \A i, j \in DOMAIN claims :
        i < j /\ claims[i].id = claims[j].id => j - i > RecentCapacity

\* Every claimed command is answered in the end, or the board resets. (Claims are bounded
\* and an acknowledgement is final, so "infinitely often" is "for good".)
AnsweredEventually ==
    []<>(\A k \in DOMAIN claims : Silent(k) \/ k \in acked \/ pc = "reset")
=============================================================================
