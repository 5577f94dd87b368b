------------------------------ MODULE Network ------------------------------
(***************************************************************************)
(* Core 0's network life: establishing Wi-Fi and MQTT, the startup         *)
(* contract (two probes and UTC) that gates the Core 1 worker, the network *)
(* snapshot both cores share, recovery in the run loop, and the two        *)
(* watchdogs -- Core 1's heartbeat, which Core 0 watches in every serviced *)
(* wait, and the hardware watchdog, which it feeds there.                  *)
(*                                                                         *)
(* Core 0 is one thread; pc is the point it has reached.  Time is counted  *)
(* only where it matters: unfed is the time since the hardware watchdog    *)
(* was last fed, stampAge the age of the last heartbeat of a dead worker   *)
(* (a live one stamps every second, which counts as age 0).                *)
(***************************************************************************)
EXTENDS Integers, Sequences

CONSTANTS
    WifiDelays,     \* wifi_reconnect_delays_sec
    MqttDelays,     \* mqtt_reconnect_delays_sec
    Window,         \* slices of one WLAN observation window (200 in the code)
    MaxOps,         \* bound: socket operations of one MQTT exchange
    OpTime,         \* longest single socket operation, its timeout
    Work,           \* longest computation between two service points
    PublishDelay,   \* mqtt_publish_delay, waited for without service at startup
    SettleTime,     \* the pause between the two startup probes
    UtcWait,        \* how long startup waits for one UTC answer
    UtcPause,       \* the pause after a failed UTC attempt
    UtcAttempts,    \* _UTC_STARTUP_MAX_ATTEMPTS
    PingPasses,     \* idle passes after which a PINGREQ is due
    StaleTimeout,   \* _CORE_1_HEARTBEAT_STALE_TIMEOUT_MS
    WdtTimeout,     \* WDT_TIMEOUT_MS
    AutoRejoin,     \* whether the WLAN chip re-associates without connect()
    None

(* The last delay of a list also paces the retry of an exhausted sequence. *)
(* A list that ends in 0 is a legal configuration that this model leaves   *)
(* out: WLAN calls that fail at once would then be retried with no slice.  *)
ASSUME DelaysAssumption ==
    /\ WifiDelays \in Seq(Nat) /\ MqttDelays \in Seq(Nat)
    /\ WifiDelays # <<>> /\ WifiDelays[Len(WifiDelays)] > 0
    /\ MqttDelays # <<>> /\ MqttDelays[Len(MqttDelays)] > 0

(* "every single blocking wait must fail on its own timeout before the     *)
(* watchdog can fire": 5 s of operation within a budget of 8.388 s.        *)
ASSUME BudgetAssumption ==
    /\ {Window, MaxOps, OpTime, Work, UtcAttempts, PingPasses} \subseteq Nat \ {0}
    /\ {PublishDelay, SettleTime, UtcWait, UtcPause} \subseteq Nat
    /\ StaleTimeout \in Nat \ {0}
    /\ WdtTimeout \in Nat /\ OpTime + Work < WdtTimeout
    /\ AutoRejoin \in BOOLEAN

(* A WLAN call that raises ends its attempt without an observation, and a  *)
(* delay of 0 sleeps no slice: the attempts of one list (at most 32) may   *)
(* follow each other with no service point in between.                     *)
ASSUME AttemptsAssumption == 1 + Len(WifiDelays) * Work < WdtTimeout

VARIABLES
    pc,             \* where Core 0 is
    then,           \* where it goes on after a sliced sleep
    phase,          \* "startup" (start()) or "run" (run())
    attempt,        \* index in a delay list, or the UTC attempt
    left,           \* slices left of a sliced sleep or observation window
    io,             \* socket operations done in the current exchange
    assoc,          \* what WLAN.isconnected() would answer
    tcp,            \* the TCP session to the broker is alive
    up,             \* Mqtt._connected
    quiet,          \* passes since the last outbound packet, up to PingPasses
    wasConnected,   \* Wifi._was_connected
    wifiBalance,    \* Wifi._connect_count - _disconnect_count
    mqttBalance,    \* Mqtt._connect_count - _disconnect_count
    ready,          \* Core0._network_stack_ready
    box,            \* StateMailboxes._network_snapshot
    utc,            \* Core0._utc_snapshot is not None
    utcBox,         \* StateMailboxes._utc_snapshot is not None
    armed,          \* the hardware watchdog runs
    unfed,          \* time since it was fed, 0 before it is armed
    worker,         \* the Core 1 thread: "waiting", "running" or "dead"
    stampAge,       \* age of a dead worker's last heartbeat
    evidence,       \* history: what the current startup pass has verified
    healthy         \* environment: from now on nothing fails any more

control == <<pc, then, phase, attempt, left, io>>
link    == <<assoc, tcp>>
session == <<up, mqttBalance, quiet>>
wlan    == <<wasConnected, wifiBalance>>
shared  == <<ready, box, utc, utcBox>>
dogs    == <<armed, unfed, stampAge>>
vars    == <<pc, then, phase, attempt, left, io, assoc, tcp, up, mqttBalance,
             quiet, wasConnected, wifiBalance, ready, box, utc, utcBox, armed,
             unfed, stampAge, worker, evidence, healthy>>

Exchanges == {"connect", "probe1", "probe2", "utc", "poll", "publish",
              "ping", "run_utc"}
AllEvidence == {"probe1", "probe2", "utc"}

Init ==
    /\ pc = "wifi" /\ then = "wifi" /\ phase = "startup"
    /\ attempt = 1 /\ left = 0 /\ io = 0
    /\ assoc = FALSE /\ tcp = FALSE
    /\ up = FALSE /\ mqttBalance = 0 /\ quiet = 0
    /\ wasConnected = FALSE /\ wifiBalance = 0
    /\ ready = FALSE /\ box = None /\ utc = FALSE /\ utcBox = FALSE
    /\ armed = FALSE /\ unfed = 0 /\ stampAge = 0
    /\ worker = "waiting" /\ evidence = {} /\ healthy = FALSE

(***************************************************************************)
(* Time, servicing and resets                                              *)
(***************************************************************************)

(* Time d passes with no service point in it.                              *)
Age(d) ==
    /\ unfed' = IF armed THEN unfed + d ELSE 0
    /\ stampAge' = IF worker = "dead" THEN stampAge + d ELSE 0
    /\ UNCHANGED armed

(* Mutant of ServiceThen: the hook feeds and never looks at Core 1.        *)
ServiceThenFeedOnly(d) ==
    /\ unfed' = IF armed THEN d ELSE 0
    /\ stampAge' = IF worker = "dead" THEN stampAge + d ELSE 0
    /\ UNCHANGED armed

(* _service_wait(): the heartbeat is not stale, the watchdog is fed, and   *)
(* time d passes after it.                                                 *)
ServiceThen(d) ==
    /\ stampAge < StaleTimeout
    /\ unfed' = IF armed THEN d ELSE 0
    /\ stampAge' = IF worker = "dead" THEN stampAge + d ELSE 0
    /\ UNCHANGED armed

(* machine.reset(): a new boot, in which nothing of the RAM is left and    *)
(* the radio starts unassociated.                                          *)
Reboot ==
    /\ pc' = "wifi" /\ then' = "wifi" /\ phase' = "startup"
    /\ attempt' = 1 /\ left' = 0 /\ io' = 0
    /\ assoc' = FALSE /\ tcp' = FALSE
    /\ up' = FALSE /\ mqttBalance' = 0 /\ quiet' = 0
    /\ wasConnected' = FALSE /\ wifiBalance' = 0
    /\ ready' = FALSE /\ box' = None /\ utc' = FALSE /\ utcBox' = FALSE
    /\ armed' = FALSE /\ unfed' = 0 /\ stampAge' = 0
    /\ worker' = "waiting" /\ evidence' = {}
    /\ UNCHANGED healthy

(* The points at which _watch_core_1_heartbeat() runs.                     *)
AtServicePoint ==
    \/ pc = "sleep" /\ left > 0
    \/ pc = "window" /\ ~assoc /\ left > 0
    \/ pc \in Exchanges /\ io < MaxOps /\ up = (pc # "connect")
    \/ pc = "top"

HeartbeatReset ==
    /\ AtServicePoint
    /\ stampAge >= StaleTimeout
    /\ Reboot

(* A MemoryError or a programming failure escapes to main()'s boundary.    *)
Fault == ~healthy /\ Reboot

Goto(p) == pc' = p /\ UNCHANGED <<then, phase, attempt, left, io>>

(* sleep_sliced(d, _service_wait), going on at p.  A delay of 0 sleeps no  *)
(* slice and services nothing.                                             *)
SleepThen(d, p) ==
    /\ pc' = "sleep" /\ then' = p /\ left' = d

SleepSlice ==
    /\ pc = "sleep" /\ left > 0
    /\ ServiceThen(1)
    /\ left' = left - 1
    /\ UNCHANGED <<pc, then, phase, attempt, io, link, session, wlan, shared,
                   worker, evidence, healthy>>

SleepEnd ==
    /\ pc = "sleep" /\ left = 0
    /\ pc' = then
    /\ UNCHANGED <<then, phase, attempt, left, io, link, session, wlan, shared,
                   dogs, worker, evidence, healthy>>

(***************************************************************************)
(* Wi-Fi                                                                   *)
(***************************************************************************)

(* Wifi.is_connected(): an OSError of the driver reads as "not connected". *)
IsConnected == {assoc} \cup (IF healthy THEN {} ELSE {FALSE})

WifiHead ==
    /\ pc = "wifi"
    /\ \E c \in IsConnected :
          IF c
            THEN Goto("mqtt")
            ELSE /\ pc' = "wifi_try" /\ attempt' = 1
                 /\ UNCHANGED <<then, phase, left, io>>
    /\ UNCHANGED <<link, session, wlan, shared, dogs, worker, evidence, healthy>>

(* WLAN(...).active(True), config, connect(): the observation begins.      *)
WifiTry ==
    /\ pc = "wifi_try"
    /\ pc' = "window" /\ left' = Window
    /\ Age(0)
    /\ UNCHANGED <<then, phase, attempt, io, link, session, wlan, shared,
                   worker, evidence, healthy>>

(* One slice of the window; a terminal association state ends it early.    *)
WifiObserve ==
    /\ pc = "window" /\ ~assoc /\ left > 0
    /\ ServiceThen(1)
    /\ left' \in {left - 1} \cup (IF healthy THEN {} ELSE {0})
    /\ UNCHANGED <<pc, then, phase, attempt, io, link, session, wlan, shared,
                   worker, evidence, healthy>>

WifiUp ==
    /\ pc = "window" /\ assoc
    /\ wifiBalance' = wifiBalance + (IF wasConnected THEN 0 ELSE 1)
    /\ wasConnected' = TRUE
    /\ Goto("mqtt")
    /\ UNCHANGED <<link, session, shared, dogs, worker, evidence, healthy>>

(* The attempt fails: the window ran out, or a WLAN call raised OSError.   *)
(* The sequence backs off, or is exhausted and retried after its last      *)
(* delay.  With a healthy access point every window ends associated.       *)
WifiAttemptFails ==
    /\ ~healthy
    /\ \/ pc = "wifi_try" /\ Age(Work)
       \/ pc = "window" /\ Age(0)
    /\ wifiBalance' = wifiBalance - (IF wasConnected THEN 1 ELSE 0)
    /\ wasConnected' = FALSE
    /\ IF attempt < Len(WifiDelays)
         THEN /\ SleepThen(WifiDelays[attempt], "wifi_try")
              /\ attempt' = attempt + 1
         ELSE /\ SleepThen(WifiDelays[attempt], "wifi")
              /\ UNCHANGED attempt
    /\ UNCHANGED <<phase, io, link, session, shared, worker, evidence, healthy>>

(***************************************************************************)
(* MQTT exchanges.  Each is a chain of socket operations, every one served *)
(* before it blocks and bounded by its timeout; a failed one marks the     *)
(* session down.                                                           *)
(***************************************************************************)

(* establish_network(): the session is there, or connect() is called.      *)
MqttHead ==
    /\ pc = "mqtt"
    /\ IF up
         THEN Goto(IF phase = "startup" THEN "begin" ELSE "restored")
         ELSE /\ pc' = "connect" /\ attempt' = 1 /\ io' = 0
              /\ UNCHANGED <<then, phase, left>>
    /\ UNCHANGED <<link, session, wlan, shared, dogs, worker, evidence, healthy>>

(* Mutant of SocketOp: the client blocks without calling the hook.         *)
SocketOpUnserviced ==
    /\ pc \in Exchanges /\ io < MaxOps
    /\ up = (pc # "connect")
    /\ \E d \in 1 .. OpTime : Age(d)
    /\ io' = io + 1
    /\ tcp' = IF pc = "connect" THEN assoc ELSE tcp
    /\ UNCHANGED <<pc, then, phase, attempt, left, assoc, session, wlan,
                   shared, worker, evidence, healthy>>

SocketOp ==
    /\ pc \in Exchanges /\ io < MaxOps
    /\ up = (pc # "connect")
    /\ \E d \in 1 .. OpTime : ServiceThen(d)
    /\ io' = io + 1
    /\ tcp' = IF pc = "connect" THEN assoc ELSE tcp
    /\ UNCHANGED <<pc, then, phase, attempt, left, assoc, session, wlan,
                   shared, worker, evidence, healthy>>

(* What an exchange that went through leaves: outbound activity.           *)
ExchangeDone == pc \in Exchanges /\ io > 0 /\ tcp

(* An exchange fails by itself or because its session is gone; publish and *)
(* ping raise at once when Mqtt is not connected.                          *)
ExchangeFailed ==
    /\ pc \in Exchanges
    /\ \/ io > 0 /\ (~healthy \/ ~tcp)
       \/ pc # "connect" /\ ~up

(* Mutant of MarkDisconnected: a session that is down is counted again.    *)
MarkDisconnectedAgain ==
    /\ mqttBalance' = mqttBalance - 1
    /\ up' = FALSE
    /\ UNCHANGED quiet

(* Mqtt.mark_disconnected()                                                *)
MarkDisconnected ==
    /\ mqttBalance' = mqttBalance - (IF up THEN 1 ELSE 0)
    /\ up' = FALSE
    /\ UNCHANGED quiet

Connected ==
    /\ pc = "connect" /\ ExchangeDone
    /\ up' = TRUE /\ mqttBalance' = mqttBalance + 1 /\ quiet' = 0
    /\ Goto(IF phase = "startup" THEN "begin" ELSE "restored")
    /\ UNCHANGED <<link, wlan, shared, dogs, worker, evidence, healthy>>

ConnectFails ==
    /\ pc = "connect" /\ ExchangeFailed
    /\ io' = 0
    /\ tcp' = FALSE
    /\ IF attempt < Len(MqttDelays)
         THEN /\ SleepThen(MqttDelays[attempt], "connect")
              /\ attempt' = attempt + 1
         ELSE /\ SleepThen(MqttDelays[attempt], "mqtt")
              /\ UNCHANGED attempt
    /\ UNCHANGED <<phase, assoc, session, wlan, shared, dogs, worker, evidence,
                   healthy>>

(***************************************************************************)
(* start(): the startup contract                                           *)
(***************************************************************************)

(* Pacing is waited for in unserviced 10 ms sleeps before a publish.       *)
Paced(p) ==
    /\ \E d \in {0, PublishDelay} : Age(d)
    /\ pc' = p /\ io' = 0
    /\ UNCHANGED <<then, phase, left>>

BeginPass ==
    /\ pc = "begin"
    /\ evidence' = {}
    /\ Paced("probe1") /\ UNCHANGED attempt
    /\ UNCHANGED <<link, session, wlan, shared, worker, healthy>>

(* The second probe follows 5 s later, in one unserviced sleep.            *)
FirstProbeDone ==
    /\ pc = "probe1" /\ ExchangeDone
    /\ quiet' = 0 /\ UNCHANGED <<up, mqttBalance>>
    /\ evidence' = evidence \cup {"probe1"}
    /\ Age(SettleTime)
    /\ Goto("settled")
    /\ UNCHANGED <<link, wlan, shared, worker, healthy>>

SecondProbe ==
    /\ pc = "settled"
    /\ Paced("probe2") /\ UNCHANGED attempt
    /\ UNCHANGED <<link, session, wlan, shared, worker, evidence, healthy>>

SecondProbeDone ==
    /\ pc = "probe2" /\ ExchangeDone
    /\ quiet' = 0 /\ UNCHANGED <<up, mqttBalance>>
    /\ evidence' = evidence \cup {"probe2"}
    /\ pc' = "utc_begin" /\ attempt' = 1
    /\ UNCHANGED <<then, phase, left, io, link, wlan, shared, dogs, worker,
                   healthy>>

ProbeFails ==
    /\ pc \in {"probe1", "probe2"} /\ ExchangeFailed
    /\ MarkDisconnected
    /\ Goto("failed")
    /\ UNCHANGED <<link, wlan, shared, dogs, worker, evidence, healthy>>

UtcBegin ==
    /\ pc = "utc_begin"
    /\ Paced("utc") /\ UNCHANGED attempt
    /\ UNCHANGED <<link, session, wlan, shared, worker, evidence, healthy>>

(* The request ID is armed before the publish, so the answer may arrive    *)
(* inside its PUBACK wait -- even of one that then fails.                  *)
UtcSent ==
    /\ pc = "utc" /\ ExchangeDone
    /\ quiet' = 0 /\ UNCHANGED <<up, mqttBalance>>
    /\ utc' \in {utc, TRUE}
    /\ Goto(IF utc' THEN "utc_check" ELSE "utc_wait")
    /\ UNCHANGED <<link, wlan, ready, box, utcBox, dogs, worker, evidence, healthy>>

UtcSendFails ==
    /\ pc = "utc" /\ ExchangeFailed
    /\ MarkDisconnected
    /\ utc' \in {utc} \cup (IF io > 0 THEN {TRUE} ELSE {})
    /\ Goto("utc_check")
    /\ UNCHANGED <<link, wlan, ready, box, utcBox, dogs, worker, evidence, healthy>>

(* _utc_wait_response(): the answer, the deadline, or a transport failure. *)
UtcWaited ==
    /\ pc = "utc_wait"
    /\ \E d \in {0, UtcWait} : Age(d)
    /\ \/ tcp /\ utc' = TRUE /\ UNCHANGED session
       \/ ~healthy /\ utc' = utc /\ UNCHANGED session
       \/ (~healthy \/ ~tcp) /\ utc' = utc /\ MarkDisconnected
    /\ Goto("utc_check")
    /\ UNCHANGED <<link, wlan, ready, box, utcBox, worker, evidence, healthy>>

(* Mutant of UtcCheck: a startup without UTC goes on after its attempts.   *)
UtcCheckLenient ==
    /\ pc = "utc_check"
    /\ IF utc \/ attempt = UtcAttempts
         THEN Goto("publish_utc") /\ UNCHANGED dogs
         ELSE /\ Age(UtcPause)
              /\ pc' = "utc_begin" /\ attempt' = attempt + 1
              /\ UNCHANGED <<then, phase, left, io>>
    /\ evidence' = evidence \cup (IF utc THEN {"utc"} ELSE {})
    /\ UNCHANGED <<link, session, wlan, shared, worker, healthy>>

UtcCheck ==
    /\ pc = "utc_check"
    /\ IF utc
         THEN /\ Goto("publish_utc") /\ UNCHANGED dogs
              /\ evidence' = evidence \cup {"utc"}
         ELSE /\ Age(UtcPause)
              /\ IF attempt < UtcAttempts
                   THEN pc' = "utc_begin" /\ attempt' = attempt + 1
                   ELSE pc' = "failed" /\ UNCHANGED attempt
              /\ UNCHANGED <<then, phase, left, io, evidence>>
    /\ UNCHANGED <<link, session, wlan, shared, worker, healthy>>

(* A failed pass waits, drops the session and re-establishes.              *)
PassFailed ==
    /\ pc = "failed"
    /\ SleepThen(MqttDelays[Len(MqttDelays)], "drop")
    /\ UNCHANGED <<phase, attempt, io, link, session, wlan, shared, dogs,
                   worker, evidence, healthy>>

DropSession ==
    /\ pc = "drop"
    /\ MarkDisconnected
    /\ Goto("wifi")
    /\ UNCHANGED <<link, wlan, shared, dogs, worker, evidence, healthy>>

PublishUtc ==
    /\ pc = "publish_utc"
    /\ utcBox' = utc
    /\ Goto("set_ready")
    /\ UNCHANGED <<link, session, wlan, ready, box, utc, dogs, worker, evidence,
                   healthy>>

(***************************************************************************)
(* The snapshot: Wifi.snapshot() reconciles its counters with what it      *)
(* reads, and the whole goes to the mailbox.                               *)
(***************************************************************************)
Snapshot ==
    \E c \in IsConnected :
       /\ wasConnected' = c
       /\ wifiBalance' = wifiBalance + (IF c /\ ~wasConnected THEN 1 ELSE 0)
                                     - (IF ~c /\ wasConnected THEN 1 ELSE 0)
       /\ box' = [ready |-> ready, wifi |-> c, mqtt |-> up,
                  wifiBalance |-> wifiBalance', mqttBalance |-> mqttBalance]

SetReady ==
    /\ pc \in {"set_ready", "restored"}
    /\ ready' = TRUE
    /\ Goto(IF pc = "set_ready" THEN "announce" ELSE "announce_again")
    /\ UNCHANGED <<link, session, wlan, box, utc, utcBox, dogs, worker,
                   evidence, healthy>>

Announce ==
    /\ pc \in {"announce", "announce_again"}
    /\ Snapshot
    /\ Goto(IF pc = "announce" THEN "arm" ELSE "begin_poll")
    /\ UNCHANGED <<link, session, ready, utc, utcBox, dogs, worker, evidence,
                   healthy>>

(* _enable_watchdog(), and run() begins.                                   *)
Arm ==
    /\ pc = "arm"
    /\ armed' = TRUE /\ unfed' = 0 /\ UNCHANGED stampAge
    /\ phase' = "run" /\ pc' = "top"
    /\ UNCHANGED <<then, attempt, left, io, link, session, wlan, shared,
                   worker, evidence, healthy>>

(***************************************************************************)
(* run()                                                                   *)
(***************************************************************************)
TopOfPass ==
    /\ pc = "top"
    /\ ServiceThen(0)
    /\ Goto("recover")
    /\ UNCHANGED <<link, session, wlan, shared, worker, evidence, healthy>>

Recover ==
    /\ pc = "recover"
    /\ \E c \in IsConnected :
          IF c /\ up
            THEN Goto("begin_poll") /\ UNCHANGED ready
            ELSE Goto("outage") /\ ready' = FALSE
    /\ UNCHANGED <<link, session, wlan, box, utc, utcBox, dogs, worker,
                   evidence, healthy>>

(* Mutant of Outage: recovery starts before the outage is reported.        *)
OutageUnreported ==
    /\ pc = "outage"
    /\ \E c \in IsConnected :
          IF c THEN UNCHANGED session ELSE MarkDisconnected
    /\ Goto("wifi")
    /\ UNCHANGED <<link, wlan, shared, dogs, worker, evidence, healthy>>

(* Wi-Fi loss implies MQTT loss; the association is read a second time.    *)
Outage ==
    /\ pc = "outage"
    /\ \E c \in IsConnected :
          IF c THEN UNCHANGED session ELSE MarkDisconnected
    /\ Goto("report")
    /\ UNCHANGED <<link, wlan, shared, dogs, worker, evidence, healthy>>

Report ==
    /\ pc = "report"
    /\ Snapshot
    /\ Goto("wifi")
    /\ UNCHANGED <<link, session, ready, utc, utcBox, dogs, worker, evidence,
                   healthy>>

(* Each stage of the pass may have nothing to do; when it has, Core 0 works*)
(* a little before the first service point of the exchange.                *)
BeginExchange(at, name, skip) ==
    /\ pc = at
    /\ \/ /\ up
          /\ Age(Work)
          /\ pc' = name /\ io' = 0
       \/ /\ pc' = skip
          /\ UNCHANGED <<io, dogs>>
    /\ UNCHANGED <<then, phase, attempt, left, link, session, wlan, shared,
                   worker, evidence, healthy>>

BeginPoll    == BeginExchange("begin_poll", "poll", "begin_publish")
BeginPublish == BeginExchange("begin_publish", "publish", "idle")
BeginUtc     == BeginExchange("begin_utc", "run_utc", "end")

(* Mutant of Idle: no keepalive is sent.                                   *)
IdleWithoutPing ==
    /\ pc = "idle"
    /\ pc' = "periodic"
    /\ UNCHANGED <<then, phase, attempt, left, io, link, session, wlan, shared,
                   dogs, worker, evidence, healthy>>

(* No entry was taken: ping_due() decides.                                 *)
Idle ==
    /\ pc = "idle"
    /\ IF up /\ quiet >= PingPasses
         THEN pc' = "ping" /\ io' = 0
         ELSE pc' = "periodic" /\ UNCHANGED io
    /\ UNCHANGED <<then, phase, attempt, left, link, session, wlan, shared,
                   dogs, worker, evidence, healthy>>

After(e) ==
    CASE e = "poll" -> "begin_publish"
      [] e \in {"publish", "ping"} -> "periodic"
      [] e = "run_utc" -> "end"

(* check_msg sends nothing, so it does not touch the keepalive.            *)
RunExchangeDone ==
    /\ phase = "run" /\ pc # "connect" /\ ExchangeDone
    /\ quiet' = IF pc = "poll" THEN quiet ELSE 0
    /\ UNCHANGED <<up, mqttBalance>>
    /\ Goto(After(pc))
    /\ UNCHANGED <<link, wlan, shared, dogs, worker, evidence, healthy>>

RunExchangeFails ==
    /\ phase = "run" /\ pc # "connect" /\ ExchangeFailed
    /\ MarkDisconnected
    /\ Goto(After(pc))
    /\ UNCHANGED <<link, wlan, shared, dogs, worker, evidence, healthy>>

(* _publish_network_snapshot() when its interval has passed.               *)
Periodic ==
    /\ pc = "periodic"
    /\ \/ Snapshot
       \/ UNCHANGED <<wlan, box>>
    /\ Goto("begin_utc")
    /\ UNCHANGED <<link, session, ready, utc, utcBox, dogs, worker, evidence,
                   healthy>>

EndOfPass ==
    /\ pc = "end"
    /\ Age(Work)
    /\ quiet' = IF quiet < PingPasses THEN quiet + 1 ELSE quiet
    /\ Goto("top")
    /\ UNCHANGED <<link, up, mqttBalance, wlan, shared, worker, evidence, healthy>>

(***************************************************************************)
(* The Core 1 worker and the environment                                   *)
(***************************************************************************)

(* _core1_thread_entry: the gate opens on the mailbox, not on Core 0.      *)
WorkerStarts ==
    /\ worker = "waiting"
    /\ box # None /\ box.ready
    /\ worker' = "running"
    /\ UNCHANGED <<control, link, session, wlan, shared, dogs, evidence, healthy>>

WorkerDies ==
    /\ ~healthy
    /\ worker # "dead"
    /\ worker' = "dead"
    /\ UNCHANGED <<control, link, session, wlan, shared, dogs, evidence, healthy>>

(* The WLAN associates after connect(); on its own only with AutoRejoin.   *)
Associate ==
    /\ ~assoc
    /\ pc = "window" \/ AutoRejoin \/ (pc = "sleep" /\ then \in {"wifi", "wifi_try"})
    /\ assoc' = TRUE
    /\ UNCHANGED <<control, tcp, session, wlan, shared, dogs, worker, evidence,
                   healthy>>

LoseWifi ==
    /\ ~healthy /\ assoc
    /\ assoc' = FALSE /\ tcp' = FALSE
    /\ UNCHANGED <<control, session, wlan, shared, dogs, worker, evidence, healthy>>

LoseBroker ==
    /\ ~healthy /\ tcp
    /\ tcp' = FALSE
    /\ UNCHANGED <<control, assoc, session, wlan, shared, dogs, worker, evidence,
                   healthy>>

Heal ==
    /\ ~healthy
    /\ healthy' = TRUE
    /\ UNCHANGED <<control, link, session, wlan, shared, dogs, worker, evidence>>

Establish == \/ SleepSlice \/ SleepEnd \/ WifiHead \/ WifiTry \/ WifiObserve
             \/ WifiUp \/ WifiAttemptFails \/ MqttHead \/ SocketOp
             \/ Connected \/ ConnectFails

Startup == \/ BeginPass \/ FirstProbeDone \/ SecondProbe \/ SecondProbeDone
           \/ ProbeFails \/ UtcBegin \/ UtcSent \/ UtcSendFails \/ UtcWaited
           \/ UtcCheck \/ PassFailed \/ DropSession \/ PublishUtc
           \/ SetReady \/ Announce \/ Arm

Run == \/ TopOfPass \/ Recover \/ Outage \/ Report \/ BeginPoll
       \/ BeginPublish \/ BeginUtc \/ Idle \/ RunExchangeDone
       \/ RunExchangeFails \/ Periodic \/ EndOfPass

Core0Step == Establish \/ Startup \/ Run \/ HeartbeatReset

Environment == Fault \/ WorkerDies \/ Associate \/ LoseWifi \/ LoseBroker \/ Heal

Next == Core0Step \/ WorkerStarts \/ Environment

Spec == Init /\ [][Next]_vars

(* Core 0's thread keeps running, the worker polls its gate, and an access *)
(* point that can be joined is joined.  Nothing is assumed of failures.    *)
FairSpec ==
    /\ Spec
    /\ WF_vars(Core0Step)
    /\ WF_vars(WorkerStarts)
    /\ WF_vars(healthy /\ Associate)

(***************************************************************************)
(* Properties                                                              *)
(***************************************************************************)

(* What the variables may hold (type invariant).                           *)
TypeOK ==
    /\ phase \in {"startup", "run"}
    /\ attempt \in Nat \ {0} /\ left \in Nat /\ io \in 0 .. MaxOps
    /\ assoc \in BOOLEAN /\ tcp \in BOOLEAN /\ up \in BOOLEAN
    /\ wasConnected \in BOOLEAN /\ ready \in BOOLEAN /\ utc \in BOOLEAN
    /\ utcBox \in BOOLEAN /\ armed \in BOOLEAN /\ healthy \in BOOLEAN
    /\ quiet \in 0 .. PingPasses
    /\ worker \in {"waiting", "running", "dead"}
    /\ unfed \in Nat /\ stampAge \in Nat
    /\ evidence \subseteq AllEvidence

(* While Core 0 lives, its hardware watchdog never fires, however slow the *)
(* broker, whatever fails: no chain of waits goes unfed to the timeout     *)
(* (MQTTClient's hook before every socket operation, sleep_sliced's before *)
(* every slice, run()'s at the top of every pass).                         *)
NoSpuriousReset == armed => unfed < WdtTimeout

(* The longest stretches without a service point: in the run loop a socket *)
(* operation and what is computed after it, or Wi-Fi attempts that fail at *)
(* once with delays of 0; during startup the settling pause, or a UTC pass *)
(* whose session is gone, comes on top of an operation unserviced.         *)
Stretches ==
    {OpTime + Work, 1 + Len(WifiDelays) * Work}
      \cup IF phase = "run" /\ pc # "top" THEN {}
           ELSE {OpTime + SettleTime + PublishDelay,
                 OpTime + UtcWait + UtcAttempts * (UtcPause + PublishDelay)}

(* A dead Core 1 is noticed within the heartbeat timeout and one unserviced*)
(* stretch, in whichever wait Core 0 is: startup's endless loops, backoffs,*)
(* exchanges with a slow broker, or the run loop.                          *)
DeadWorkerNoticed == \E stretch \in Stretches : stampAge < StaleTimeout + stretch

(* Core 1 runs only behind a startup contract verified in one pass on one  *)
(* session: both probes and UTC, whose snapshot is already in the mailbox. *)
ReadyVerified ==
    (box # None /\ box.ready) \/ worker = "running"
        => utcBox /\ evidence = AllEvidence

(* The counters a snapshot reports account for the state it reports, over  *)
(* every loss seen by a snapshot, a failed attempt or an exchange.         *)
SnapshotBalanced ==
    box # None => /\ box.wifiBalance = IF box.wifi THEN 1 ELSE 0
                  /\ box.mqttBalance = IF box.mqtt THEN 1 ELSE 0

(* Core 1 is told before Core 0 goes into an outage of unknown length: the *)
(* mailbox never says ready while the network is being established.        *)
OutageReported ==
    pc \in {"wifi", "wifi_try", "window", "sleep", "mqtt", "connect"}
        => box = None \/ ~box.ready

(* What Core 0 tells Core 1 of the network is neither out of balance nor   *)
(* an outage it kept silent about.                                         *)
SnapshotsHonest == SnapshotBalanced /\ OutageReported

(* Once nothing fails any more, the node gets back to a live session, an   *)
(* announced network and a running worker, and stays there -- also from a  *)
(* session the broker dropped without a word, which only a publish or a    *)
(* PINGREQ finds out.                                                      *)
Recovers ==
    healthy ~> [](assoc /\ tcp /\ up /\ box # None /\ box.ready /\ worker = "running")

=============================================================================
