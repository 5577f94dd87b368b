-------------------------------- MODULE Core1 --------------------------------
(***************************************************************************)
(* core1_main of core1.py: startup, then a loop that answers events, reads *)
(* the devices, retries those that failed at boot and reports health, each *)
(* at the boundaries of its own scheduler, and stamps the liveness         *)
(* heartbeat that Core 0 resets the board by.                              *)
(*                                                                         *)
(* Deadlines and stamps are kept relative to time.ticks_ms(): ticks_diff   *)
(* is exact at these distances, which config.py bounds                     *)
(* (_require_ticks_safe_interval).  A driver call, with the admission of   *)
(* what it read, takes up to MaxCall; everything else between two stamps   *)
(* takes up to MaxWork.                                                    *)
(***************************************************************************)
EXTENDS Integers, DeviceManager

CONSTANTS
    ReadInterval,      \* read_loop_sec
    HealthInterval,    \* health_interval_sec
    RetryInterval,     \* failed_reinit_interval_ms
    ActivityInterval,  \* activity_interval_ms
    StaleTimeout,      \* _CORE_1_HEARTBEAT_STALE_TIMEOUT_MS
    RetryDelay,        \* device_initialization_retry_delay_ms
    MaxCall,
    MaxWork

ASSUME Core1Assumption ==
    /\ ReadInterval \in Nat \ {0} /\ HealthInterval \in Nat \ {0}
    /\ RetryInterval \in Nat \ {0} /\ ActivityInterval \in Nat \ {0}
    /\ RetryDelay \in Nat /\ MaxCall \in Nat /\ MaxWork \in Nat \ {0}
    /\ StaleTimeout \in Nat

\* The stale timeout (30 s) is far above one driver call with the startup log's
\* admissions behind it, and above the heartbeat's interval (5 s) with a pass behind it.
ASSUME TimingAssumption ==
    /\ StaleTimeout > MaxCall + 4 * MaxWork
    /\ StaleTimeout > ActivityInterval + 2 * MaxWork

VARIABLES
    pc,            \* where core1_main is
    idx,           \* the device a pass is at
    attempt,       \* attempt of an initialization, or of the startup log's admission
    initial,       \* the first pass, at the anchor
    next,          \* next_read_ms, next_health_ms, next_failed_reinit_ms, from now
    nextActivity,  \* next_activity_ms, from now
    nowAge,        \* how old the pass's now_ms is
    stampAge,      \* how old core_1_activity_ms is
    phase,         \* history: time since the last boundary of each grid
    passed,        \* history: a boundary has passed that no pass or report has served
    healthy        \* no fault happens any more

timers == <<next, nextActivity, nowAge, phase, passed>>
place == <<pc, idx, attempt, initial>>
vars == <<deviceVars, place, timers, stampAge, healthy>>

Schedulers == {"read", "health", "retry"}

Interval == [read |-> ReadInterval, health |-> HealthInterval, retry |-> RetryInterval]

BootSteps == {"create", "init", "log", "log_bounded", "anchor"}
LoopSteps == {"top", "check_read", "read", "check_retry", "retry", "activity", "health"}

Init ==
    /\ DeviceInit
    /\ pc = "create"
    /\ idx = 1
    /\ attempt = 1
    /\ initial = TRUE
    /\ next = [s \in Schedulers |-> 0]
    /\ nextActivity = 0
    /\ nowAge = 0
    /\ stampAge = 0
    /\ phase = [s \in Schedulers |-> 0]
    /\ passed = [s \in Schedulers |-> FALSE]
    /\ healthy = FALSE

-----------------------------------------------------------------------------
(* Time. *)

\* Before the anchor only the heartbeat's age matters.
Ages(d) == stampAge' = stampAge + d /\ UNCHANGED timers

\* set_core_1_activity_ms(time.ticks_ms()), then d units of time.
StampsThen(d) == stampAge' = d

\* d units pass in the loop.  The retry deadline is not read once no device is failed.
Deadline(s, value) == IF s = "retry" /\ FailedDevices' = {} THEN 0 ELSE value

Crosses(s, d) == phase[s] + d >= Interval[s]

Grids(d) == phase' = [s \in Schedulers |-> (phase[s] + d) % Interval[s]]

Elapse(d) ==
    /\ next' = [s \in Schedulers |-> Deadline(s, next[s] - d)]
    /\ nextActivity' = nextActivity - d
    /\ Grids(d)
    /\ passed' = [s \in Schedulers |-> passed[s] \/ Crosses(s, d)]

Runs(d) == Elapse(d) /\ nowAge' = nowAge + d

\* The comparison with now_ms, which may be old by now.
Due(s) == next[s] + nowAge <= 0

\* The first deadline after the time that was `lag` ago, in steps of the interval.
Advanced(s, deadline, lag) ==
    IF deadline + lag > 0
    THEN deadline
    ELSE deadline + Interval[s] * ((- (deadline + lag)) \div Interval[s] + 1)

\* mutant: the new deadline counts from the end of the pass
Skip_drifts(s) ==
    /\ next' = [next EXCEPT ![s] = Interval[s]]
    /\ passed' = [passed EXCEPT ![s] = FALSE]
    /\ UNCHANGED <<nextActivity, nowAge, phase>>

\* The skip loop with the clock read again after the pass.
Skip(s) ==
    /\ next' = [next EXCEPT ![s] = Deadline(s, Advanced(s, @, 0))]
    /\ passed' = [passed EXCEPT ![s] = FALSE]
    /\ UNCHANGED <<nextActivity, nowAge, phase>>

Fault == ~ healthy /\ UNCHANGED healthy

-----------------------------------------------------------------------------
(* Startup. *)

Device == DevicesConfig[idx]

NextDevice == idx' = idx + 1 /\ attempt' = 1 /\ pc' = "create"

CreateDriver ==
    /\ pc = "create"
    /\ idx <= Len(DevicesConfig)
    /\ \E w \in 0..MaxCall : StampsThen(w)
    /\ \/ pc' = "init" /\ UNCHANGED <<idx, attempt, deviceVars, healthy>>
       \/ RecordFailure(Device) /\ NextDevice /\ Fault
    /\ UNCHANGED <<initial, timers>>

\* One attempt of _initialize_driver_with_retries; the delay is slept in steps with a
\* stamp after each.
InitDriver ==
    /\ pc = "init"
    /\ \E w \in 0..MaxCall :
         \/ RecordSuccess(Device) /\ NextDevice /\ StampsThen(w) /\ UNCHANGED healthy
         \/ /\ attempt = Attempts
            /\ RecordFailure(Device) /\ NextDevice /\ StampsThen(w) /\ Fault
         \/ /\ attempt < Attempts
            /\ attempt' = attempt + 1
            /\ StampsThen(IF RetryDelay > 0 THEN 0 ELSE w)
            /\ UNCHANGED <<pc, idx, deviceVars>> /\ Fault
    /\ UNCHANGED <<initial, timers>>

DevicesDone ==
    /\ pc = "create"
    /\ idx > Len(DevicesConfig)
    /\ \E w \in 0..MaxWork : Ages(w)
    /\ pc' = "log"
    /\ UNCHANGED <<idx, attempt, initial, deviceVars, healthy>>

LogAdmitted ==
    /\ pc \in {"log", "log_bounded"}
    /\ \E w \in 0..MaxWork : Ages(w)
    /\ pc' = "anchor"
    /\ UNCHANGED <<idx, attempt, initial, deviceVars, healthy>>

\* A transient rejection is retried once.
LogRetried ==
    /\ pc \in {"log", "log_bounded"}
    /\ attempt = 1
    /\ attempt' = 2
    /\ Fault
    /\ \E w \in 0..MaxWork : Ages(w)
    /\ UNCHANGED <<pc, idx, initial, deviceVars>>

\* Too large, or a MemoryError: the bounded summary instead, with a retry of its own.
LogBounded ==
    /\ pc = "log"
    /\ pc' = "log_bounded"
    /\ attempt' = 1
    /\ Fault
    /\ UNCHANGED <<idx, initial, deviceVars, timers, stampAge>>

\* The hardware is stored, the heartbeat stamped, and the schedulers anchored at the
\* time the log was admitted (_regrid_next_boundary skips boundaries already passed).
Anchor ==
    /\ pc = "anchor"
    /\ UNCHANGED <<initial, deviceVars, healthy>>
    /\ \E w \in 0..MaxWork :
         /\ phase' = [s \in Schedulers |-> w % Interval[s]]
         /\ next' = [s \in Schedulers |-> Deadline(s, Interval[s] - (w % Interval[s]))]
    /\ StampsThen(0)
    /\ nextActivity' = ActivityInterval
    /\ nowAge' = 0
    /\ passed' = [s \in Schedulers |-> FALSE]
    /\ pc' = "read"
    /\ idx' = 1
    /\ attempt' = 1

-----------------------------------------------------------------------------
(* The loop. *)

\* The sleep that ended the previous pass, then an event or a pending response, then
\* now_ms is taken.
Top ==
    /\ pc = "top"
    /\ UNCHANGED <<idx, attempt, deviceVars, healthy>>
    /\ \E w \in (IF initial THEN 0 ELSE 1)..(MaxWork + 1) :
         stampAge' = stampAge + w /\ Elapse(w)
    /\ nowAge' = 0
    /\ initial' = FALSE
    /\ pc' = "check_read"

CheckRead ==
    /\ pc = "check_read"
    /\ pc' = IF Due("read") THEN "read" ELSE "check_retry"
    /\ idx' = 1
    /\ attempt' = 1
    /\ UNCHANGED <<initial, deviceVars, timers, stampAge, healthy>>

Managed == active[idx]

InReadPass == pc = "read" /\ idx <= Len(active)

NextManaged == idx' = idx + 1 /\ attempt' = 1

\* mutant: process_device does not stamp
ReadDevice_unstamped ==
    /\ InReadPass
    /\ ~ managed[Managed].pending
    /\ \/ ReadSucceeds(Managed) /\ UNCHANGED healthy
       \/ ReadFails(Managed) /\ Fault
    /\ \E w \in 0..MaxCall : stampAge' = stampAge + w /\ Runs(w)
    /\ NextManaged
    /\ UNCHANGED <<pc, initial>>

\* process_device: _process_normal_read
ReadDevice ==
    /\ InReadPass
    /\ ~ managed[Managed].pending
    /\ \/ ReadSucceeds(Managed) /\ UNCHANGED healthy
       \/ ReadFails(Managed) /\ Fault
    /\ \E w \in 0..MaxCall : StampsThen(w) /\ Runs(w)
    /\ NextManaged
    /\ UNCHANGED <<pc, initial>>

\* process_device: one attempt of _process_reinitialization
ReinitDevice ==
    /\ InReadPass
    /\ managed[Managed].pending
    /\ \E w \in 0..MaxCall :
         \/ /\ ReinitSucceeds(Managed) /\ NextManaged
            /\ StampsThen(w) /\ Runs(w) /\ UNCHANGED healthy
         \/ /\ attempt = Attempts
            /\ ReinitExhausted(Managed) /\ NextManaged
            /\ StampsThen(w) /\ Runs(w) /\ Fault
         \/ /\ attempt < Attempts
            /\ attempt' = attempt + 1
            /\ UNCHANGED <<idx, deviceVars>> /\ Fault
            /\ StampsThen(IF RetryDelay > 0 THEN 0 ELSE w) /\ Runs(w + RetryDelay)
    /\ UNCHANGED <<pc, initial>>

ReadPassEnds ==
    /\ pc = "read"
    /\ idx > Len(active)
    /\ UNCHANGED <<idx, attempt, initial, deviceVars, stampAge, healthy>>
    /\ IF initial
       THEN pc' = "health" /\ UNCHANGED timers
       ELSE pc' = "check_retry" /\ Skip("read")

\* mutant: probed in every pass of the loop
CheckRetry_always ==
    /\ pc = "check_retry"
    /\ pc' = IF FailedDevices # {} THEN "retry" ELSE "activity"
    /\ idx' = 1
    /\ UNCHANGED <<attempt, initial, deviceVars, timers, stampAge, healthy>>

CheckRetry ==
    /\ pc = "check_retry"
    /\ pc' = IF FailedDevices # {} /\ Due("retry") THEN "retry" ELSE "activity"
    /\ idx' = 1
    /\ UNCHANGED <<attempt, initial, deviceVars, timers, stampAge, healthy>>

\* retry_failed_devices: one fresh driver and one initialize() for each failed device.
RetryDevice ==
    /\ pc = "retry"
    /\ idx <= Len(DevicesConfig)
    /\ Device \in FailedDevices
    /\ \/ RetrySucceeds(Device) /\ UNCHANGED healthy
       \/ RetryFails(Device) /\ Fault
    /\ \E w \in 0..MaxCall : StampsThen(w) /\ Runs(w)
    /\ idx' = idx + 1
    /\ UNCHANGED <<pc, attempt, initial>>

RetrySkipped ==
    /\ pc = "retry"
    /\ idx <= Len(DevicesConfig)
    /\ Device \notin FailedDevices
    /\ idx' = idx + 1
    /\ UNCHANGED <<pc, attempt, initial, deviceVars, timers, stampAge, healthy>>

RetryPassEnds ==
    /\ pc = "retry"
    /\ idx > Len(DevicesConfig)
    /\ UNCHANGED <<idx, attempt, initial, deviceVars, stampAge, healthy>>
    /\ Skip("retry")
    /\ pc' = "activity"

\* The heartbeat of the loop, with a fresh clock.
Activity ==
    /\ pc = "activity"
    /\ IF nextActivity <= 0
       THEN StampsThen(0) /\ nextActivity' = ActivityInterval
       ELSE UNCHANGED <<stampAge, nextActivity>>
    /\ pc' = "health"
    /\ UNCHANGED <<idx, attempt, initial, deviceVars, next, nowAge, phase, passed, healthy>>

\* A report is built and queued, refused, or (network down) skipped.
ReportTakes == 0..MaxWork

\* The report at the anchor, and none between boundaries.
HealthReports ==
    /\ pc = "health"
    /\ initial \/ Due("health")
    /\ UNCHANGED <<idx, attempt, initial, deviceVars, healthy>>
    /\ \E w \in ReportTakes :
         /\ stampAge' = stampAge + w
         /\ next' = [s \in Schedulers |->
                       IF s = "health" /\ ~ initial
                       THEN Advanced(s, next[s] - w, nowAge + w)
                       ELSE Deadline(s, next[s] - w)]
         /\ nextActivity' = nextActivity - w
         /\ Grids(w)
         /\ passed' = [s \in Schedulers |->
                         Crosses(s, w) \/ (passed[s] /\ (s # "health" \/ initial))]
    /\ nowAge' = 0
    /\ pc' = "top"

HealthNotDue ==
    /\ pc = "health"
    /\ ~ initial /\ ~ Due("health")
    /\ nowAge' = 0
    /\ pc' = "top"
    /\ UNCHANGED <<idx, attempt, initial, deviceVars, next, nextActivity, phase, passed,
                   stampAge, healthy>>

-----------------------------------------------------------------------------
(* The end of Core 1, and the heartbeat's reader. *)

\* A MemoryError, a defect of a driver, or a startup log that is not admitted.
Core1Stops ==
    /\ pc # "stopped"
    /\ Fault
    /\ pc' = "stopped"
    /\ UNCHANGED <<idx, attempt, initial, deviceVars, timers, stampAge>>

Silence ==
    /\ pc = "stopped"
    /\ stampAge < StaleTimeout
    /\ stampAge' = stampAge + 1
    /\ UNCHANGED <<deviceVars, place, timers, healthy>>

\* _watch_core_1_heartbeat: the board resets and both cores start again.
HeartbeatReset ==
    /\ stampAge >= StaleTimeout
    /\ DeviceReset
    /\ pc' = "create"
    /\ idx' = 1
    /\ attempt' = 1
    /\ initial' = TRUE
    /\ next' = [s \in Schedulers |-> 0]
    /\ nextActivity' = 0
    /\ nowAge' = 0
    /\ stampAge' = 0
    /\ phase' = [s \in Schedulers |-> 0]
    /\ passed' = [s \in Schedulers |-> FALSE]
    /\ UNCHANGED healthy

\* Faults end for good (never assumed, only distinguished).
Repaired ==
    /\ ~ healthy
    /\ healthy' = TRUE
    /\ UNCHANGED <<deviceVars, place, timers, stampAge>>

Step ==
    \/ CreateDriver \/ InitDriver \/ DevicesDone \/ LogAdmitted \/ LogRetried \/ LogBounded
    \/ Anchor
    \/ Top \/ CheckRead \/ ReadDevice \/ ReinitDevice \/ ReadPassEnds
    \/ CheckRetry \/ RetryDevice \/ RetrySkipped \/ RetryPassEnds
    \/ Activity \/ HealthReports \/ HealthNotDue
    \/ Silence \/ HeartbeatReset

Next == Step \/ Core1Stops \/ Repaired

Spec == Init /\ [][Next]_vars

\* Core 1's thread runs on, its calls return, and Core 0 looks at the heartbeat.
FairSpec == Spec /\ WF_vars(Step)

-----------------------------------------------------------------------------
(* Properties. *)

\* Every variable stays in its domain.
TypeOK ==
    /\ DeviceTypeOK
    /\ pc \in BootSteps \cup LoopSteps \cup {"stopped"}
    /\ idx \in 1..(Len(DevicesConfig) + 1)
    /\ attempt \in 1..(IF Attempts > 2 THEN Attempts ELSE 2)
    /\ initial \in BOOLEAN /\ healthy \in BOOLEAN
    /\ next \in [Schedulers -> Int] /\ nextActivity \in Int
    /\ nowAge \in Nat /\ stampAge \in Nat
    /\ \A s \in Schedulers : phase[s] \in 0..(Interval[s] - 1)
    /\ passed \in [Schedulers -> BOOLEAN]

\* The heartbeat goes stale only when Core 1 has stopped: no number of slow but
\* returning driver calls, initialization attempts, retries and reports resets the board.
HeartbeatFresh == stampAge >= StaleTimeout => pc = "stopped"

\* Once startup is over every configured device is active, exactly once, or recorded as
\* failed, never both and never neither: get_device_counts adds up, and no device drops
\* out of both the read pass and the retry pass.
EveryDeviceKept ==
    /\ IsInjective(active)
    /\ ToSet(active) = DOMAIN managed
    /\ ToSet(active) \cap FailedDevices = {}
    /\ pc \in LoopSteps \cup {"log", "log_bounded", "anchor"} =>
         ToSet(active) \cup FailedDevices = Devices

\* A device waits for reinitialization exactly when its last reads reached the threshold.
PendingAtThreshold ==
    \A d \in DOMAIN managed : managed[d].pending <=> managed[d].failures >= Threshold

\* Between two successes a device is warned about at most once, however many
\* reinitializations or late retries fail.
WarnedOnce == \A d \in Devices : warned[d] <= 1

\* The device record that the read pass, the retry pass, the warnings and the health
\* report share is consistent at every step of startup and loop.
DeviceRecordSound == EveryDeviceKept /\ PendingAtThreshold /\ WarnedOnce

\* The deadlines stay on the grid of the anchor, whatever the passes take: no drift.
\* The next one is never more than an interval ahead.
OnGrid ==
    pc \in LoopSteps =>
        \A s \in {"read", "health"} \cup (IF FailedDevices = {} THEN {} ELSE {"retry"}) :
            /\ (next[s] + phase[s]) % Interval[s] = 0
            /\ next[s] <= Interval[s]

\* Missed boundaries are skipped, never replayed: a read or retry pass begins only if a
\* boundary has passed since the end of the previous one.
NotReplayed ==
    [][/\ pc = "check_read" /\ pc' = "read" => passed["read"]
       /\ pc = "check_retry" /\ pc' = "retry" => passed["retry"]]_vars

\* The same of health reports, since the beginning of the previous one.
HealthNotReplayed ==
    pc = "health" /\ ~ initial /\ Due("health") => passed["health"]

\* When faults end, every device is read again, for good: through reinitialization,
\* through the late retry, or through the reset that follows a stale heartbeat.
DevicesRecover == healthy ~> [](\A d \in Devices : Ready(d))
=============================================================================
