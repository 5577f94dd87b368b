# Verification of pico-dualcore-4

TLA+ modules, TLC configurations and TLAPS proofs for the firmware in `src/`: a
MicroPython program for the RP2 (Pico W) that reads sensors on Core 1 and talks to an MQTT
broker on Core 0. Paths below are relative to `src/`.

## 1. The system

| part | source | state | operations |
|---|---|---|---|
| Outbound queue | `intercore.py` | FIFO of entries, in-flight entry, counters | `put`, `put_with_kind`, `take`, `complete_in_flight` |
| Event queue | `intercore.py` | FIFO of events | `put` with rollback, `take` |
| State mailboxes | `intercore.py` | latest snapshot per topic | `set`, `get` |
| Configuration transaction | `config_manager.py` | `config.json`, `.tmp`, `.old`, `.cleanup`, reboot-required flag | `begin_write`, `_restore_committed`, `recover` |
| Configuration validation | `config.py`, `devices/*/validation.py` | none | checks of one document, of each device and of the whole list |
| Command ingress and execution | `core0.py`, `command_protocol.py` | debounce cache, response queue, pending reboot | `_on_mqtt_message` and the four command handlers |
| Publishing and reboot | `core0.py` | sequence counter, frozen documents | `_service_pending_core0_response`, `_perform_reboot`, `_publish_entry` |
| Time and UTC | `core0.py`, `uptime.py` | tick stamps, accumulated uptime, UTC snapshot, pending request | `current_uptime_ms`, `_mqtt_publish_ready`, `_utc_send_request`, `_handle_info_response` |
| Startup, watchdog, recovery | `core0.py`, `main.py` | place in startup, ready flag, snapshots, age of the last feed | `establish_network`, `start` (two probes and UTC), `run`'s recovery, `_service_wait` |
| Wi-Fi | `wifi.py`, `network_wait.py` | association last seen, counters, place in a delay list | `connect` with its observation window, `snapshot`, `sleep_sliced` |
| MQTT session and client | `mqtt.py`, `mqtt_client.py` | socket and its mode, packet identifier, session flag | connect and subscribe, publish, ping, poll, `wait_msg` |
| Core 1 | `core1.py` | pending command response, four schedulers, liveness stamp | startup log, event processing, read pass, late retry, health |
| Device manager | `device_manager.py`, `device_factory.py` | active and failed devices, failure counts, reinitialization flags | `initialize_devices`, `process_device`, `retry_failed_devices` |
| Drivers and buses | `devices/` | bus cache, one driver object per device, the chips themselves | `create_device`, `initialize`, `read` of five drivers |
| LED, system information, tooling | `led_manager.py`, `system_information.py`, `hardware.py`, scripts | | |

How the parts interact. The two cores share RAM and one heap and meet only in
`InterCore`: Core 1 puts outbound messages, Core 0 takes and publishes them; Core 0 puts
events (get-details requests), Core 1 takes them; mailboxes carry snapshots both ways. Both
lanes decide on free heap and so share one admission lock. Core 0 is one thread whose run
loop is a fixed cycle (reboot, recovery, poll, reboot, responses, outbound entry, UTC,
sleep), but a QoS 1 publish waits for its PUBACK and handles inbound messages in that
wait, so command handling nests inside publishing. Core 1 is one thread as well: devices
are initialized, the startup log is admitted, and a loop answers events, reads devices,
retries those that failed at boot and reports health; it stamps a mailbox at every
progress boundary, and Core 0 resets the board when the stamp is older than 30 s. Configuration writes are made by Core 0
and read back at the next boot.

What is hard here: the interleaving of two threads at every lock, and of heap measurements
with allocations that no lock covers; message handling inside a PUBACK wait; publishes that
fail after the broker has received them; full bounded queues; power loss and storage faults
in a multi-file transaction; a tick counter that wraps; answers that come too late;
passes that outlast the intervals they are scheduled by; losses of Wi-Fi or broker at any
point of a recovery that is itself recovering; frames that arrive late in a stream shared
by nested exchanges; driver calls that fail half-way and leave a chip in any mode.
`PROJECT.json` lists each of these under `hazards`, at its line.

What makes each part correct:

* outbound queue: nothing admitted is lost or reordered, CRITICAL entries are never
  displaced, the count ceiling holds, every call returns;
* event queue: admitted events arrive once, in order;
* configuration: one durable configuration, all-or-nothing writes, always bootable;
* commands: every claimed command has exactly one answer, under one sequence, and a
  commanded reset comes after its acknowledgement;
* time: uptime and gates follow real time over wraps, a stale answer never sets the clock;
* devices: a device is active or recorded as failed, never both or neither, is
  reinitialized exactly when its failures reach the threshold, and is read again once the
  fault ends;
* Core 1's loop: schedulers keep their grid, skip what they missed, and slow work never
  looks like a dead core;
* network: Core 1 starts only behind a verified startup, the watchdog never fires on a
  living Core 0, a dead Core 1 is noticed in whichever wait, the node comes back;
* MQTT client: the stream stays in step, no wait is unbounded, commands reach the callback
  in order and before they are acknowledged;
* drivers: what validation accepts never ends Core 1, devices share no line, and what is
  published is intact, of a chip set up as configured, and measured then (with one exception
  for the LTR390, section 4).

## 2. Modules

| module | models | uses |
|---|---|---|
| `Heap` | `gc.mem_free`, `gc.collect`, the admission lock, allocations by everything else | |
| `OutboundQueue` | `OutboundQueue` of `intercore.py` | `Heap` |
| `EventQueue` | `InterCoreEventQueue` | `Heap` |
| `InterCore` | both lanes and both cores; the properties | `OutboundQueue`, `EventQueue` |
| `InterCoreProofs` | the theorems about `InterCore` | `InterCore` |
| `ConfigStore` | abstract specification: one durable configuration | |
| `ConfigManager` | `config_manager.py` over a file system that can lose power | `ConfigStore` (refined) |
| `ConfigManagerProofs` | the theorems about `ConfigManager` | `ConfigManager` |
| `CommandChannel` | commands and answers in `core0.py` and `core1.py` | |
| `CommandChannelProofs` | the theorems about `CommandChannel` | `CommandChannel` |
| `Core0Clock` | ticks, uptime, pacing, poll, UTC synchronization | |
| `Core0ClockProofs` | the theorems about `Core0Clock` | `Core0Clock` |
| `DeviceManager` | the outcomes of driver calls in `device_manager.py` | |
| `Core1` | `core1_main`: startup, loop, schedulers, heartbeat | `DeviceManager` |
| `Core1Proofs` | the theorems about `Core1` | `Core1` |
| `Network` | Wi-Fi, MQTT session, startup, recovery, both watchdogs | |
| `NetworkProofs` | the theorems about `Network` | `Network` |
| `MqttLink` | abstract specification: the ordered at-least-once link | |
| `MqttClient` | `mqtt_client.py` and its owner `mqtt.py`, frame by frame | `MqttLink` (refined) |
| `MqttClientProofs` | the theorems about `MqttClient` | `MqttClient` |
| `DeviceConfig` | which `devices` lists are accepted, and what they drive | |
| `Sensors` | factories, the five drivers and their chips, under the device manager | `DeviceConfig`, `DeviceManager` |
| `SensorsProofs` | the theorems about `Sensors` | `Sensors` |
| `MC*` | constants for TLC | |

### InterCore

`pc1` is the position of Core 1 in `put`/`put_with_kind` and `pcEv` that of Core 0 in the
event queue's `put`; each lock acquisition, heap measurement, eviction and append is a
step of its own. A section under the queue lock is one step (nobody else can see inside
it), and a `gc.collect` that directly follows an eviction is merged with it. Core 0's loop
contributes `Take`, `PublishDone`, `PublishDiscarded` and `PublishFailed`, and does not
move while its event put runs. `HeapAlloc`, `HeapDrop` and `HeapAutoCollect` let the rest
of the program allocate and drop at any moment. Messages are records of kind, retention
priority, size and the serializer's verdict; sizes are abstract units.
`max_messages=None` behaves as a ceiling that is at least the number of puts.
`call`, `admitted`, `evicted`, `finished` and `evTaken` are partly history, used to state
the properties. A `MemoryError` on Core 0 ends in `machine.reset()`, which ends the
behaviour and is not a step.

### ConfigManager and ConfigStore

Every call into the file system is a step. `unsynced` holds the earlier contents a power
loss may bring back, emptied by a successful `os.sync()`. `FaultSteps` says where calls may
raise `OSError`; a faulting write of `.tmp` may leave the file absent, corrupt or complete.
Each of the up to five `_try_load` calls of one recovery may fail by itself, the two of
`config.json` included (`Reads`, `Unreadable`).
Power loss is possible at every step, recovery included. A configuration is a model value
and validation its membership in `Configs`. `ConfigStore` is what a user relies on:
`outcomes` (what a power loss now may leave) is mapped to what `recover()` would choose
from each possible image.

### CommandChannel

`pc` is the step of Core 0's run loop, `wire` the document whose PUBACK is awaited.
`PollMessage`, `MessageInWait` and `Recover` receive commands, so ingress happens inside
every wait. An answer carries which claim it answers, its outcome, its sequence and when
its bytes were frozen, and moves between `pending`, `pendingReboot`, `events`,
`core1Pending`, `outbound` and `inFlight`. `fate` abstracts size and validity of its
document. The outbound lane is reduced to what InterCore establishes (a FIFO that loses no
CRITICAL entry). UTC requests are left to `Core0Clock`. A failed publish is ambiguous: the
broker may have received it. After `machine.reset()` everything in RAM is gone; the
behaviour ends there, which is why deadlock is not checked in these runs.

### Core0Clock

`ticks` wraps at `Period`. Quantities that grow for ever are kept as differences
(`syncAge`, `clockLag`, `skew`), and `since` records the real time since each stamp.
An outage is time in which `establish_network()` loops and none of this code runs.

### DeviceManager and Core1

`DeviceManager` has one operator per outcome of a driver call (`ReadSucceeds`, `ReadFails`,
`ReinitExhausted`, `RetrySucceeds`, ...), with all the bookkeeping the code does on it.
`Core1` calls them from its steps: `pc` is the place in `core1_main`, `idx` the device a
pass is at, `attempt` the attempt of an initialization. One attempt is one step, because
the liveness stamp is renewed between attempts.

Time is kept relative to the present: `next` and `nextActivity` say how far ahead each
deadline is, `stampAge` how old the heartbeat stamp is, and `nowAge` how old the `now_ms` is
that the pass still compares with. The wrap of the counter is the subject of `Core0Clock`;
`config.py` bounds the intervals so that `ticks_diff` is exact here. A driver call with the
admission of what it read takes up to `MaxCall`, the other work between two stamps up to
`MaxWork`; `TimingAssumption` says that these are well below the stale timeout, which is
what the watchdog is designed for. A call that never returns is `Core1Stops`. A deadline
nobody reads any more (the late retry, once no device is failed) is kept at zero. `phase`,
`passed` and `warned` are history. Faults happen while `healthy` is false; that they end
is never assumed, only distinguished, by `DevicesRecover`.

### Network

`pc` is the place of Core 0 in `establish_network`, `start` or `run`; a sliced sleep or an
observation window counts its slices in `left` and returns to `then`. An MQTT exchange is
`SocketOp` repeated up to `MaxOps` times, each at most `OpTime` long, and then its outcome.
Time is counted only where it matters: `unfed` since the hardware watchdog was fed,
`stampAge` since a dead worker's last heartbeat. `ServiceThen` is `_service_wait` followed
by some time. `assoc` and `tcp` are the truth about the link; `wasConnected`, `up`, `quiet`
and the counters are what Core 0 knows of it. `box` and `utcBox` are the mailboxes as Core 1
reads them. `WLAN.connect`, the broker and the access point are the environment, which may
lose or refuse anything until `Heal`. `AutoRejoin` says whether the WLAN chip associates
again without a call. `evidence` is history. What is sent and received belongs to
`CommandChannel` and `MqttClient`.

### MqttClient and MqttLink

`c2b` and `b2c` are the two directions of one TCP stream. A PUBACK or SUBACK towards the
client is two pieces, because `wait_msg` reads only its first byte and leaves the rest to
its caller. `timeout` is the mode of the socket. The broker (external) answers every frame
in order and may send commands, of QoS 0 or 1, at any time from the first SUBSCRIBE on, also
ahead of its SUBACK; an exchange may fail, and the session with it, at any step. `owed` is
history: the QoS 1 commands the callback has had, which are those to acknowledge. A connection that ends takes the frames under way with it.
`MqttLink` is what `CommandChannel` and `Network` rely on: a publish that returned was
received, the broker receives messages in order and at least once, commands are given to
the callback in order. Retransmission of unacknowledged commands is the broker's choice at
the next session (`BrokerSends` starts over).

### DeviceConfig and Sensors

`DeviceConfig!Accepted` is `_validate_devices` with each type's rules and the rules that
relate two devices (identifiers, pins, bus settings, addresses); `Lines` and `Chips` say
what an accepted list makes the board drive. `Sensors` validates a list, builds the
drivers on the cached bus factories and then follows one device through boot, reads,
reinitializations and late retries, each driver call a sequence of transfers
(`InitSteps`, `ReadSteps`). `TransferFails` may or may not have reached the chip,
`TransferDamaged` is a response that arrives altered, which a checksum may catch,
`BoardReset` leaves the chips as they are. `chip` is what a driver can meet: mode, latched
data-ready, what was configured, the probe's power line. Data-ready is per channel, as the
driver describes it: set by a conversion, cleared by reading the channel's data register and
by nothing else, a change of mode included. `left` and `spoiled` are history: this reading
left a conversion unread, and the one before it did, or failed. Sensor brown-outs (a chip reset on
its own between two calls) are left out, and so are damaged transfers of the BME280 and the
LTR390, whose protocols have no checksum that could reveal them.

## 3. Runs

| run | result | shows |
|---|---|---|
| `intercore` | pass | order and completeness of both lanes, priorities, count ceiling and counters of the outbound one, the shared lock; every put returns (`CallsReturn`) |
| `config` | pass | `ConfigManager` implements `ConfigStore`; only `config.json` remains between commands, and the reboot flag is honest |
| `config_all_faults` | pass | with faults everywhere there is always a configuration to boot |
| `config_cleanup_fault` | violation | a leftover `.cleanup` lets a later failed write undo a commit |
| `command` | pass | no claimed command loses its answer or gets two; sequences identify documents; resets are acknowledged; held reboots can be released; debounce window; every claimed command is answered in the end, or the board resets |
| `clock` | pass | uptime, gates, pacing, clock accuracy and request deadlines |
| `core1` | pass | devices are kept, reinitialized at the threshold, warned about once and recover; schedulers stay on their grid and replay nothing; the heartbeat of a working Core 1 is never stale |
| `network` | pass | the watchdog never fires on a living Core 0, a dead worker is noticed, the worker's gate is verified, snapshots are honest, the node comes back |
| `network_stuck` | violation | Wi-Fi lost inside the MQTT loop, with a chip that does not associate by itself |
| `mqtt` | pass | the stream stays in step, waits are bounded, commands are acknowledged after the callback; `MqttClient` implements `MqttLink` |
| `sensors` | pass | accepted lists never end Core 1 or share a line; samples are sound (one stale case excepted, section 4); the probe is off between calls; a driver works from any state of its chip |
| `sensors_null` | violation | `"offsets": null` is accepted and ends Core 1 |

Bounds and why they are enough.

* `intercore`: seven heap units with a preferred reserve of 4 and a floor of 1, ceiling 2,
  three puts, two events, a message on each side of the retention floor and one of each way
  to be refused (3.4 million states, the largest of the runs). Three small
  entries fit above the floor, so it is the ceiling that stops the third; reclaiming one
  entry does not always restore the reserve, so a second displacement would be possible;
  and the larger messages meet the hard floor. An entry may be in flight all the while;
  two events can be queued at once, or one rolled back behind the other.
* `config`: three configurations, so that a booted, a committed and a rejected one differ
  (two under symmetry in `config_all_faults`). The number of writes is not bounded.
  `MaxUnsynced` limits only when a new write may start while failed syncs pile up undoable
  images, and eight is more than one write makes. The storage runs that pass exclude named
  faults: `config` leaves out failures of the post-commit removal (a finding), of reads at
  boot (section 4) and of a restoration (a second fault on top of the one that called it);
  `config_all_faults` allows them all and claims less. Under the first alone
  `SteadyState` is lost but the flag stays honest (`FlagStaysHonest`, section 5).
* `command`: three deliveries (what `DebounceWindow` needs at least) of seven commands, one
  of each kind with answers that can never be published among them, one link failure, one
  telemetry entry that may be unpublishable too, a response queue of one slot (it is full
  at once) and a debounce cache of two. `Paced` is a positive publish delay. Among the
  commands there is no get-details whose answer fits the lane but not its envelope: with
  it the property fails (section 4).
* `clock`: a period of 66, the smallest for which the bounds of the proofs
  (`SampledInTime`, `StampsInTime`) are below half of it, and outages of at most 3, the
  analogue of outages and quiet times well short of half the real period (6.2 days).
  `MaxAge` saturates ages beyond which nothing in the code or the properties distinguishes
  them.
* `core1`: two devices, so that one fails while the other works and passes have an order;
  two attempts and a threshold of two, so that a first failure and the last one differ.
  The intervals are 3, 4 and 2 with a driver call of up to 1, so a pass over two devices
  with their retries outlasts every interval; the stale timeout of 6 is the least that
  `TimingAssumption` allows. Faults are unbounded, and so is time.
* `network`: delay lists with an immediate and a delayed attempt, a window of two slices,
  exchanges of one or two operations that take up to 2 of the watchdog's 4, two UTC
  attempts, two passes to a ping. Losses, failed passes and outages are unbounded until
  `healthy`. The watchdog and the heartbeat timeout are the least that the assumptions
  allow (`OpTime + Work < WdtTimeout`, `1 + Len(WifiDelays) * Work < WdtTimeout`), so that
  one unserviced operation more would show.
* `mqtt`: three messages, three commands and two pings per session, three sessions; the
  packet identifier wraps after 3, so that it is reused within the run and, being reset
  with each connection, equal between sessions.
* `sensors`: 33 definitions at, beside and past their defaults, alone and in every
  ordered pair, two devices being what a rule between devices relates. The followed device
  meets unbounded failures and resets.

Fairness. `intercore` assumes only that a call in progress keeps executing (each core
is a thread of its own); nothing of the broker or of the rest of the heap. `command`
assumes that Core 0's loop keeps running, that time passes (the pacing delay ends, and the
heartbeat of a stopped Core 1 goes stale and is seen), and that Core 1 takes its events and
has its small CRITICAL answers admitted in the end. The link fails at most `MaxFails`
times, so it is up for good in the end, and telemetry is bounded, so it cannot keep an
answer back for ever in the FIFO. `core1` assumes that Core 1's thread goes on and Core 0
looks at the heartbeat (`WF_vars(Step)`, which holds everything but faults, their end and
the death of Core 1). `network` assumes that Core 0's thread goes on, that the worker polls
its gate, and, once `healthy`, that an access point that can be joined is joined. That
faults end is never assumed: `Recovers` begins with `healthy ~>`.

## 4. Findings

1. `config_manager.py:331`: a leftover `.cleanup` taken for the backup of another write.
   The warning at `config_manager.py:306-312` is all that remains of the failed removal.
2. `core0.py:1115`: `establish_network` does not look at Wi-Fi again once it is in its MQTT
   loop. If the association is lost there and the chip does not associate by itself, the
   node retries MQTT for ever, feeding the watchdog. With `AutoRejoin` the `network` run
   recovers.
3. `devices/bme280/bme280_device.py:397` and its siblings: an explicit `null` for `offsets`
   or `i2c_address_candidates` is accepted as if left out, and then read with
   `config.get(key, default)`. The exception is not an `OSError`, ends Core 1, and does so
   on every boot from that configuration.

Observed while modelling, without a run of their own. Some of them TLC shows with the
constants given here.

* `core0.py:752`: the result of queueing a substitute is ignored; when the response queue is
  full the answer is lost. (`AnswerOwed`, with `Commands <- SplicedCommands`,
  `Paced = FALSE`, `MaxDeliveries = 2`.)
* `core0.py:681`: after an outage of more than half the tick period a gate stays closed.
  (`PublishGateTracksTime`, with a `MaxOutage` of more than half of `Period`.)
* `core1.py:1008`: the health deadline is advanced by the `now_ms` of before the passes, so
  boundaries that elapsed during them are reported, against `ARCHITECTURE.md:623`.
  (`HealthNotReplayed`.)
* `devices/ltr390/ltr390_device.py:200`: "the data-ready bit is already clear (the last data
  read cleared it)" does not hold in a reading that follows one that failed after a
  conversion was due, nor in one before which the sensor converted once more between the
  data read and the switch to the next mode: the bit is latched (lines 170-174), only
  initialization clears it, and the reading publishes the older conversion.
  `SampleSound` excepts exactly the freshness of such a reading (`sample.suspect`); without
  that exception TLC finds it violated. The first reading after an initialization is
  fresh, and so is one after a complete reading that left no conversion unread.
* `intercore.py:316`: a transient rejection may come after entries have been displaced,
  against `ARCHITECTURE.md:214` ("Queue state is untouched in both cases"). That a rejection
  finds nothing eligible, and that an append is kept only with the floor free, are decided
  in the very step that rejects or keeps, so no property states them.
* `config.py:214`: a read fault becomes `ConfigError`, which `_try_load`
  (`config_manager.py:123`) takes for an invalid file, against the comment at
  `config_manager.py:111`; recovery may then settle on a superseded configuration.
* The GC-first promise of `intercore.py:263-275` holds only if nothing allocates between
  the collection and the next measurement (`277-291`).
* A commanded reset (`core0.py:851-929`) drops whatever is still queued, which
  `ARCHITECTURE.md:322` does not mention.
* A prompt UTC retry asked for inside the PUBACK wait is overwritten when the wait returns
  (`core0.py:995`). The throttle still holds; the clock is refreshed later.
* A UTC answer that arrives in a PUBACK wait which then fails is accepted; `start` goes on
  and announces the network although the session is already down. `run` repairs it on its
  first pass, and Core 1 sees an outage after a start.
* A Wi-Fi delay of 0 sleeps no slice, so WLAN calls that fail at once follow each other
  unserviced. `AttemptsAssumption` and `DelaysAssumption` say for which lists the watchdog
  is still fed in time; `config.py` does not check them.
* Two `ds18b20` definitions with one ROM code on different pins are accepted; the device
  is on one of them, and the other definition never initializes.
* `ARCHITECTURE.md:707` describes an `os.sync` after `.tmp` is written that the code does
  not make; one recovery branch leaves an invalid `.cleanup` in place.
* `device_manager.py:303-306` says the active devices are in configuration order and fixed
  after `initialize_devices()`; `retry_failed_devices` appends recovered ones at the end.

## 5. Proofs

Eight modules hold the theorems. All constants are arbitrary, subject to the named
assumptions, which the constructors or `config.py` check unless said otherwise. Every
invariant, action property and refinement a passing run checks is a theorem; the hypotheses
some of them need are stated with the theorem (`ASSUME`) and below.

`InterCoreProofs`, for every heap size, pair of thresholds, ceiling, message set and number
of calls (`HeapAssumption`, `NoOwnerAssumption` and those of the two queues):

* `TypeInvariant`, `TypeCorrect`: the variables stay in their domains. `TypeOK` alone is
  not inductive: a put may drop its payload from the ambient heap and uses its message, so
  `TypeInv` adds `CallOK` (inside a call there is a message, and its payload is part of
  `ambient`) and `EvCallOK`.
* `AdmissionIsExclusive`: from `TypeInv` alone, one step per action.
* `CriticalNeverEvicted`: only four steps evict (`StepKinds`), and in each the victim's
  class is at least the message's and never CRITICAL (`VictimNotCritical`).
* `DepthWithinCeiling`: needs `CountInv`, which adds that after count relief a slot stays
  free until the append. This holds although the lock is released, because Core 1 is the
  only producer and Core 0's `take` and `complete` never raise the depth.
* `OneVictimPerAdmission`: from `VictimsInv`, by the same argument: until the hard floor is
  met, a displacement leaves the lane below its ceiling, and what is below stays below, so
  no second victim is taken.
* `DeliveredInOrder`: from `FifoInv`, which adds `EarlierCalls`: whatever is queued, in
  flight or finished belongs to a call before the present one.
* `LedgerIsExact`: from `BytesInv` and `LedgerInv` (finite sets, nothing both live and
  evicted). `queued_bytes` is compared with a fold over the queue. The library's induction theorems are out of the provers' reach, but
  induction over *a set* of naturals is not: a set that holds 0 and, with n, n+1 is `Nat`
  (`NaturalsReached`, from the well-foundedness of `<`), and the lemmas about the sum state
  the set of lengths for which they hold (`FoldFunction`, `BytesOf`).
* `EventsDeliveredInOrder`: concatenation lemmas for the head that moves and the append
  that is rolled back.

`CommandChannelProofs`, for every set of commands, every capacity of the response queue and
of the debounce cache, and any number of deliveries and failures:

* `DuplicatesAreDropped`: from `Remembered`, the cache holds the IDs of the last
  `RecentCapacity` claims in their order.
* `HeldRebootIsReleasable`: from `HeldInv`: the reboot that waits answers a reboot command
  with success (`RebootOK`), and it is held exactly while one answer that releases it is
  queued (`ReleaseOK`). `ResetIsAcknowledged` needs the first half.
* `OneDocumentPerClaim`: `PlaceInv` says that an answer is in exactly one container, at one
  position, and which sequence numbers and claims it may have there; each step is one of a
  few kinds (a new answer, a move, a rewriting in place, a loss: `StepKinds`), and
  `IdentityInv` is kept by each kind: whatever shares a sequence or a claim with a document
  at the broker is an answer to be sent again with the same bytes.
* `NoAnswerIsLost`: from `OwedInv` and `LaneOK`, assuming `NoSplicedDetails`: no get-details
  answer fits the lane but not its envelope. Without it the property is false
  (section 4, `core0.py:752`).

`ConfigManagerProofs`, for every set of configurations:

* `BoardIsBootable`, for faults anywhere: every image that a power loss may leave is
  bootable, and `StepSafe` says which files each step may still count on.
* `SettlesClean` and `TransactionIsAtomic`, under `FaultsStopShort` (faults in the steps up
  to the commit and in recovery, as in run `config`; a fault of the cleanup breaks the
  property, finding 1, a fault of a read at boot is taken for an invalid file, section 4,
  and a fault of a restoration is a second one). `WriteInv` says of
  every image a power loss may leave that it settles on the accepted or the candidate
  configuration (`ImagesKept`), and of the files what each step finds (`WriteFiles`,
  `SettleFiles`). The beginning of a write, the durable commit, the end of a restoration
  and a power loss each map to their action of `ConfigStore` (`StoreStep`); whatever else
  touches a file moves `outcomes` between the two configurations (`Doubt`) or not at all.
* `FlagStaysHonest`, of the half of `ConfigSettled` about the flag (`RebootFlagHonest`),
  under `ReadsAndRestoresWork`: everything but a restoration and a read at boot may fail,
  the cleanup included. `FlagInv` says nothing while the flag is set, which is where a
  stale `.cleanup` may be restored; while it is not, no marker of an earlier write is left
  (`FlagWrites`), because boot recovery, where the flag is reset, finds each marker absent,
  on its list, or about to be renamed (`FlagRecovery`, `PlanLists`). A restoration that
  fails can leave `config.json` missing with the flag clear, so the hypothesis is needed.

`Core0ClockProofs`, for every period of the counter and every delay. What `ticks_diff`
gives is the time that passed only for stamps younger than half a period, so each proof
bounds ages:

* `TimeIsExact`: from `TimeInv`, assuming `SampledInTime`: the longest time without a
  sample of the uptime, failures and outages included, is below half a period.
* `TimersAreSound`: from `TimersInv`, assuming `StampsInTime`: the same of the stamps of
  poll, publish and UTC attempt. It includes `MinQuiet >= PublishDelay + MaxPass`: entries
  that come as fast as the gate opens would keep the UTC request behind it for ever. Run
  `clock` satisfies both hypotheses. The real half period is 6.2 days.

`Core1Proofs`, for any list of devices with distinct identifiers, any intervals and bounds:

* `HeartbeatIsFresh` from `Stamped`, the age the stamp may have at each place, with
  `TimingAssumption` (the timing the watchdog is designed for; the code has no check of it).
* `RecordIsSound` from `DeviceInv`, which adds to the property that warnings and flags agree
  (a device not logged has no warning) and, at boot, that exactly the devices before `idx`
  are known, each once.
* `DeadlinesOnGrid`, `PassesAreNotReplayed` from `TimerInv`: a deadline and the time since
  its last boundary add up to a multiple of the interval, a deadline is at most an interval
  ahead, and it is behind only once a boundary has passed unserved. The skip loops are one
  division, so the lemmas are about `%` and `\div`. Of the health deadline only the grid is
  proved, since it does replay (section 4, `core1.py:1008`).

`NetworkProofs`, for all delay lists, windows, budgets and attempts. `BudgetAssumption` is
the code's own ("every single blocking wait must fail on its own timeout before the
watchdog can fire"); `DelaysAssumption` and `AttemptsAssumption` restrict the delay lists
(section 4). The invariant `IInv` is the conjunction of

* `Numbers` and `Places`: domains, and where each place returns to, so that a sleep begun in
  startup ends in startup;
* `Evident` and `Contract`: what the current pass has verified at each place, and that the
  flag, the mailbox and the worker follow it. `GateIsVerified` rests on them;
* `Balance` and `Silence`: counters against what Core 0 knows of the link, and a mailbox
  that is not ready while the network is being established. `SnapshotsAreHonest`;
* `Feeding`: how long the watchdog may have gone unfed at each place. `WatchdogIsFed`.
  The bound at a WLAN attempt grows with its index in the list, because attempts that fail
  at once are not serviced.

Each part is kept by every action in a lemma of its own (`NumbersKept` to `FeedingKept`).
`DeadWorkerIsNoticed` adds `Noticing`: how old a dead worker's heartbeat may be at each
place, which is the limit and the time since the last service point. The longest such
stretch is one operation and the work after it, the settling pause, a UTC pass whose session
is gone, or, with delays of 0, a whole list of WLAN attempts.

`MqttClientProofs`, for any number of messages, commands, sessions and packet identifiers:

* `WaitsAreBounded` is inductive as it stands.
* `StreamStaysInSync`: what comes in is a sequence of whole pieces in which the two halves of
  an answer follow each other and a lone body is only ahead of a client that waits for it
  (`InStep`). That needs `OneExchange`: at most one request or one answer is on its way,
  and it is of the exchange the client is in.
* `AcksFollowCallbacks`: `Underway` and `AckInv` number what is on its way in each
  direction: the commands offered are those given to the callback and those in the stream,
  in order, and the acknowledgements sent are those of the QoS 1 commands the callback had
  (`owed`), which are a selection that keeps their order (`Rising`).
* `ClientImplementsLink`: each step maps to a step of `MqttLink` or a stutter (the broker's
  reading of a message to `Receive`, the return of `publish` to `PublishReturns`, its sending
  and the callback to `Offer` and `Deliver`, the last SUBACK to `Up`, a failure or loss to
  `Down`, a new connection to `Renew`). A publish that returns was received, by `PublishInv`.

`SensorsProofs`, for any set of lists (of any length up to `MaxDevices`) and chips in any
state:

* `NothingIsShared` from `OnlyAcceptedBuilt` and lemmas on the pairwise rules.
* `WorkerLives`, for lists without a null in an optional key (`NullFree`, the complement of
  finding 3): the bus cache only holds settings of devices of the list (`CacheSound`), pins
  that are accepted can be routed, and an accepted calibration has a span.
* `ProbeIsOff` and `ChipsAnswer` from `CallInv`: what an initialization has set up at each of
  its steps and what a ready driver may count on, which no later failure, re-initialization
  or half-done reading takes away (`SetUpInv`), and that the manager reads only a driver that
  is ready (`ManagerInv`).
* `SamplesAreSound` from `ReadingInv`, what has been measured and collected at each step of a
  reading, and `ReadyInv`, which channels may have data-ready latched: between readings none
  while the driver is ready and the last reading was neither failed nor overtaken, so that a
  bit seen set during a reading was set in it. It has no hypothesis.

Only model-checked: liveness (`CallsReturn`, `AnsweredEventually`, `DevicesRecover`,
`Recovers`), since the prover has no fairness or ENABLED; and the violations of section 3.

## 6. Not modelled

Range checks of single scalar settings, message formatting and the JSON walk of the
serializer (pure; used by their verdict); compensation arithmetic of the samples, and which
digits of them are published; the LED (a timer callback nobody reads); system information
and hardware profile (reads of facts); status snapshots that are only reported; release and
deployment scripts. Of Core 1, the payload of a health report and the statistics of a
device; telemetry and health enter the outbound lane as messages of `InterCore` and appear
in `Core1` only as the time they take.

## 7. Plan

1. Done: both lanes (`InterCore`), the configuration transaction (`ConfigManager`,
   `ConfigStore`), commands (`CommandChannel`), time (`Core0Clock`), Core 1 (`Core1`,
   `DeviceManager`), the network (`Network`), the MQTT client (`MqttClient`, `MqttLink`),
   devices from configuration to sample (`DeviceConfig`, `Sensors`), and eight modules of
   proofs: every invariant, action property and refinement that a passing run checks is a
   theorem.
2. Proofs: `StampsInTime` adds up delays that cannot all be at their longest together, so
   it excludes more than it needs to; what is left of `SteadyState` after a failed cleanup
   (a stale `.cleanup`, but only until the next boot) is proved as part of `FlagInv` and
   is not a property of its own; and
   what `CommandChannel` and `Network` take from the modules beneath them, as theorems of
   those.
