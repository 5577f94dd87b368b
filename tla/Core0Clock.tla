----------------------------- MODULE Core0Clock -----------------------------
(***************************************************************************)
(* Time on Core 0: the accumulated uptime (uptime.py), the gates of the    *)
(* run loop that compare tick stamps (publish pacing, command poll, UTC    *)
(* retry), and UTC synchronization with its time server.                   *)
(*                                                                         *)
(* The program reads time only as time.ticks_ms(), a counter that wraps at *)
(* Period (2^30 ms on the RP2).  What really elapsed is history (since).   *)
(* Unbounded quantities are kept relative: the uptime and the snapshot's   *)
(* sync_uptime_ms as their difference, the UTC clock as its lag behind the *)
(* server's, and a request id as whether it is the latest one.  The steps  *)
(* of a pass of the run loop follow each other (pc); time passes between   *)
(* passes, in the PUBACK wait of a UTC request and in an outage, while     *)
(* establish_network() loops and none of this code runs.                   *)
(***************************************************************************)
EXTENDS Integers, FiniteSets

CONSTANTS
    Period,        \* of the tick counter
    PublishDelay,  \* mqtt_outbound_publish_delay_ms
    PollInterval,  \* mqtt_command_poll_ms
    SyncInterval,  \* datetime_sync_interval_min
    RetryDelay,    \* _UTC_RETRY_INTERVAL_MS
    PromptDelay,   \* _UTC_PROMPT_RETRY_DELAY_MS
    Timeout,       \* mqtt_broker_response_timeout_sec
    MaxPass,       \* longest pass, an outage excepted
    MaxWait,       \* longest PUBACK wait
    MinQuiet,      \* shortest time between two outbound entries
    MaxQuiet,      \* longest time without one to publish
    MaxOutage,     \* longest outage
    MaxFails,      \* bound: failures of the link
    MaxAge,        \* bound: the age of the snapshot and of an answer count up to it
    None           \* None

ASSUME ClockAssumption ==
    /\ Period \in Nat \ {0} /\ Period % 2 = 0
    /\ PublishDelay \in Nat /\ PollInterval \in Nat /\ SyncInterval \in Nat
    /\ RetryDelay \in Nat /\ PromptDelay \in 0..RetryDelay /\ Timeout \in Nat
    /\ MaxPass \in Nat \ {0} /\ MaxWait \in Nat
    /\ MinQuiet \in Nat /\ MaxQuiet \in Nat
    /\ MaxOutage \in Nat /\ MaxFails \in Nat
    /\ MaxAge \in Nat /\ MaxAge > SyncInterval /\ MaxAge > MaxWait + Timeout + MaxPass
    /\ None \notin Nat /\ None \notin [latest : BOOLEAN, valid : BOOLEAN, age : Nat]

VARIABLES
    ticks,        \* time.ticks_ms()
    pc,           \* where the run loop is
    up,           \* the session is up
    lastSample,   \* _uptime_state's last_ticks_ms
    syncAge,      \* accumulated uptime minus the snapshot's sync_uptime_ms
    clockLag,     \* how far the snapshot's clock is behind the server's
    lastPublish,  \* _last_mqtt_publish_completed_ms
    lastPoll,     \* _last_command_poll_ms
    pending,      \* _pending_utc_request_id is set
    deadline,     \* _utc_request_deadline_ms
    lastAttempt,  \* _utc_last_attempt_ms
    answer,       \* an answer on its way: [latest, valid, age], or None
    since,        \* history: time elapsed since these stamps were taken
    skew,         \* history: accumulated uptime minus time elapsed
    waited,       \* history: how long the PUBACK wait has lasted
    fails

stamps == <<lastPublish, lastPoll, lastAttempt>>
uptime == <<lastSample, syncAge, skew>>
request == <<pending, deadline>>
vars == <<ticks, pc, up, uptime, clockLag, stamps, request, answer, since, waited, fails>>

LoopSteps == {"recover", "poll", "publish", "utc", "puback", "sleep"}

Stamps == {"sample", "entry", "publish", "poll", "attempt"}

Init ==
    /\ ticks \in 0..(Period - 1)
    /\ pc = "recover"
    /\ up = TRUE
    /\ lastSample = ticks
    /\ syncAge = 0
    /\ clockLag = 0
    /\ lastPublish = ticks
    /\ lastPoll = ticks
    /\ lastAttempt = ticks
    /\ pending = FALSE
    /\ deadline = None
    /\ answer = None
    /\ since = [s \in Stamps |-> 0]
    /\ skew = 0
    /\ waited = 0
    /\ fails = 0

-----------------------------------------------------------------------------
(* Ticks and uptime. *)

ticks_add(t, d) == (t + d) % Period

\* The signed distance, right only within half a period.
ticks_diff(a, b) == ((a - b + Period \div 2) % Period) - Period \div 2

Elapsed(stamp) == ticks_diff(ticks, stamp)

\* d units of time pass.
Passes(d) ==
    /\ ticks' = ticks_add(ticks, d)
    /\ since' = [s \in Stamps |-> since[s] + d]

Taken(names) == [s \in Stamps |-> IF s \in names THEN 0 ELSE since[s]]

Capped(age) == IF age > MaxAge THEN MaxAge ELSE age

\* What current_uptime_ms adds to the accumulated uptime.
Delta == Elapsed(lastSample)

\* current_uptime_ms, together with the stamps taken in the same step.
Sample(names) ==
    /\ lastSample' = ticks
    /\ skew' = skew + (Delta - since["sample"])
    /\ since' = Taken(names \cup {"sample"})

LinkFails ==
    /\ up
    /\ fails < MaxFails
    /\ fails' = fails + 1
    /\ up' = FALSE

LinkHolds == UNCHANGED <<up, fails>>

-----------------------------------------------------------------------------
(* The gates. *)

MqttPublishReady == PublishDelay = 0 \/ Elapsed(lastPublish) >= PublishDelay

PollDue == Elapsed(lastPoll) >= PollInterval

Throttled == Elapsed(lastAttempt) < RetryDelay

\* _utc_sync_due, which samples the uptime.
SyncDue == syncAge + Delta >= SyncInterval

-----------------------------------------------------------------------------
(* The time server's answers. *)

\* The server answers the latest request or, late or because it was delivered twice, an
\* earlier one.
ServerAnswers ==
    /\ up
    /\ answer = None
    /\ answer' \in [latest : BOOLEAN, valid : BOOLEAN, age : {0}]
    /\ UNCHANGED <<ticks, pc, up, uptime, clockLag, stamps, request, since, fails, waited>>

\* The answer ages while it is on its way.
Aged(d) == answer' = IF answer = None THEN None ELSE [answer EXCEPT !.age = Capped(@ + d)]

\* Mutant: any answer is taken while a request is pending.
Expected_any == pending

Expected == pending /\ answer.latest

\* _handle_info_response: ignored, refused with a prompt retry, or the new snapshot.
\* `names` are the stamps the caller takes in the same step.
HandleInfoResponse(names) ==
    /\ answer # None
    /\ answer' = None
    /\ \/ /\ ~ Expected
          /\ since' = Taken(names)
          /\ UNCHANGED <<request, lastAttempt, uptime, clockLag>>
       \/ /\ Expected /\ ~ answer.valid
          /\ pending' = FALSE /\ deadline' = None
          /\ lastAttempt' = ticks_add(ticks, PromptDelay - RetryDelay)
          /\ since' = [Taken(names) EXCEPT !["attempt"] = RetryDelay - PromptDelay]
          /\ UNCHANGED <<uptime, clockLag>>
       \/ /\ Expected /\ answer.valid
          /\ pending' = FALSE /\ deadline' = None
          /\ Sample(names)
          /\ syncAge' = 0
          /\ clockLag' = answer.age
          /\ UNCHANGED lastAttempt

-----------------------------------------------------------------------------
(* A pass of the run loop. *)

\* _recover_network_if_needed: an outage of any length.  The session is clean, so what
\* was on its way to the old one is gone.
Recover ==
    /\ pc = "recover"
    /\ pc' = "poll"
    /\ up' = TRUE
    /\ \/ up /\ UNCHANGED <<ticks, since, answer>>
       \/ ~ up /\ answer' = None /\ \E d \in 0..MaxOutage : Passes(d)
    /\ UNCHANGED <<uptime, clockLag, stamps, request, fails, waited>>

\* check_msg, when due: one answer, nothing, or a failure of the link.
PollAnswer ==
    /\ pc = "poll" /\ PollDue
    /\ HandleInfoResponse({"poll"})
    /\ lastPoll' = ticks
    /\ pc' = "publish"
    /\ LinkFails \/ LinkHolds
    /\ UNCHANGED <<ticks, lastPublish, waited>>

PollNothing ==
    /\ pc = "poll"
    /\ IF PollDue THEN /\ lastPoll' = ticks
                       /\ since' = Taken({"poll"})
                       /\ LinkFails \/ LinkHolds
                  ELSE UNCHANGED <<lastPoll, since, up, fails>>
    /\ pc' = "publish"
    /\ UNCHANGED <<ticks, uptime, clockLag, lastPublish, lastAttempt, request, answer, waited>>

\* The outbound publishes of the pass, as far as the gate sees them.
Publish ==
    /\ pc = "publish"
    /\ up /\ MqttPublishReady
    /\ since["entry"] >= MinQuiet
    /\ lastPublish' = ticks
    /\ since' = Taken({"entry", "publish"})
    /\ pc' = "utc"
    /\ UNCHANGED <<ticks, up, uptime, clockLag, lastPoll, lastAttempt, request, answer, fails, waited>>

\* Nothing to publish, a closed gate, or a publish that fails.
PublishNothing ==
    /\ pc = "publish"
    /\ \/ LinkFails
       \/ LinkHolds /\ (up /\ MqttPublishReady => since["entry"] < MaxQuiet)
    /\ pc' = "utc"
    /\ UNCHANGED <<ticks, uptime, clockLag, stamps, request, answer, since, waited>>

\* _utc_request_expired.
Expired == pending /\ Elapsed(deadline) >= 0

\* Whether this pass looks at the sync age, and so samples the uptime.
Looks == up /\ (pending => Expired)

Sends == Looks /\ SyncDue /\ ~ Throttled /\ MqttPublishReady

UtcIdle ==
    /\ pc = "utc"
    /\ ~ Sends
    /\ IF Expired THEN pending' = FALSE /\ deadline' = None ELSE UNCHANGED request
    /\ IF Looks THEN Sample({}) /\ syncAge' = Capped(syncAge + Delta) ELSE UNCHANGED <<uptime, since>>
    /\ pc' = "sleep"
    /\ UNCHANGED <<ticks, up, clockLag, stamps, answer, fails, waited>>

\* _utc_send_request: armed before the publish.
UtcSend ==
    /\ pc = "utc"
    /\ Sends
    /\ pending' = TRUE
    /\ deadline' = IF Expired THEN None ELSE deadline
    /\ Sample({}) /\ syncAge' = Capped(syncAge + Delta)
    /\ answer' = IF answer = None THEN None ELSE [answer EXCEPT !.latest = FALSE]
    /\ waited' = 0
    /\ pc' = "puback"
    /\ UNCHANGED <<ticks, up, clockLag, stamps, fails>>

WaitPasses ==
    /\ pc = "puback"
    /\ waited < MaxWait
    /\ waited' = waited + 1
    /\ Passes(1) /\ Aged(1)
    /\ UNCHANGED <<pc, up, uptime, clockLag, stamps, request, fails>>

\* A fast answer arrives inside the wait.
AnswerInWait ==
    /\ pc = "puback"
    /\ HandleInfoResponse({})
    /\ UNCHANGED <<ticks, pc, up, lastPublish, lastPoll, fails, waited>>

PubackDone ==
    /\ pc = "puback"
    /\ lastPublish' = ticks
    /\ lastAttempt' = ticks
    /\ deadline' = ticks_add(ticks, Timeout)
    /\ since' = Taken({"publish", "attempt"})
    /\ pc' = "sleep"
    /\ UNCHANGED <<ticks, up, uptime, clockLag, lastPoll, pending, answer, fails, waited>>

\* Mutant: the armed request is not rolled back.
PubackFails_armed ==
    /\ pc = "puback"
    /\ LinkFails
    /\ pc' = "sleep"
    /\ UNCHANGED <<ticks, uptime, clockLag, stamps, request, answer, since, waited>>

PubackFails ==
    /\ pc = "puback"
    /\ pending' = FALSE
    /\ LinkFails
    /\ pc' = "sleep"
    /\ UNCHANGED <<ticks, uptime, clockLag, stamps, deadline, answer, since, waited>>

\* The pass ends; its time is counted here.
Sleep ==
    /\ pc = "sleep"
    /\ \E d \in 1..MaxPass : Passes(d) /\ Aged(d)
    /\ pc' = "recover"
    /\ UNCHANGED <<up, uptime, clockLag, stamps, request, fails, waited>>

Next ==
    \/ ServerAnswers \/ Recover \/ PollAnswer \/ PollNothing \/ Publish \/ PublishNothing
    \/ UtcIdle \/ UtcSend \/ WaitPasses \/ AnswerInWait \/ PubackDone \/ PubackFails \/ Sleep

Spec == Init /\ [][Next]_vars

-----------------------------------------------------------------------------
(* Properties. *)

\* Every variable stays in its domain.
TypeOK ==
    /\ ticks \in 0..(Period - 1)
    /\ pc \in LoopSteps
    /\ up \in BOOLEAN
    /\ lastSample \in 0..(Period - 1)
    /\ syncAge \in Int /\ clockLag \in Nat /\ skew \in Int
    /\ lastPublish \in 0..(Period - 1)
    /\ lastPoll \in 0..(Period - 1)
    /\ lastAttempt \in 0..(Period - 1)
    /\ pending \in BOOLEAN
    /\ deadline \in 0..(Period - 1) \cup {None}
    /\ answer \in [latest : BOOLEAN, valid : BOOLEAN, age : Nat] \cup {None}
    /\ since \in [Stamps -> Nat]
    /\ waited \in 0..MaxWait
    /\ fails \in 0..MaxFails

\* The accumulated uptime is the time since boot, over any number of wraps.
UptimeExact == skew = 0

\* The clock derived from a snapshot is behind the server's by no more than a request
\* may stay pending: a late answer to an earlier request never sets it.
ClockAccurate == clockLag <= MaxWait + Timeout + MaxPass

\* What Core 0 says of time, in a timestamp or an uptime, is the time.
TimeExact == UptimeExact /\ ClockAccurate

\* A request that the run loop sees pending has a deadline: ticks_diff is never called
\* with None, and no request stays pending for ever.
DeadlineArmed == pc # "puback" /\ pending => deadline # None

\* The publish gate is open when the delay has passed, and only then, although the
\* stamps wrap.
PublishGateTracksTime == MqttPublishReady <=> since["publish"] >= PublishDelay

\* Like the publish gate, the gates of the poll and of the UTC retry follow real time:
\* after the outages assumed here nothing holds up a publish, a command or the refresh
\* that repairs the clock.
TimersTrackTime ==
    /\ PublishGateTracksTime
    /\ PollDue <=> since["poll"] >= PollInterval
    /\ Throttled <=> since["attempt"] < RetryDelay

\* No gate is stuck and no request is stranded: deadlines are set and stamps are current.
TimersSound == DeadlineArmed /\ TimersTrackTime
=============================================================================
