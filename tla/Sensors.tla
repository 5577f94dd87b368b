------------------------------- MODULE Sensors -------------------------------
(***************************************************************************)
(* Core 1's devices, from the configuration to the samples: validation of  *)
(* the list (DeviceConfig), construction of the drivers on the bus         *)
(* factories, and the five drivers under device_manager.py's policy of     *)
(* initialization, read failures and reinitialization (DeviceManager).     *)
(*                                                                         *)
(* A driver call is a sequence of transfers.  Any transfer may fail with   *)
(* an OSError, and a failed one may still have reached the chip; the board *)
(* may be reset between any two, which leaves the chips as they are.       *)
(* Accepted lists share no line and no I2C chip (NothingShared), so one    *)
(* device of the list is followed, the others only being built.            *)
(***************************************************************************)
EXTENDS DeviceConfig, DeviceManager

CONSTANT Lists   \* the "devices" lists that are tried

ASSUME SensorsAssumption == Len(DevicesConfig) = 1

\* The devices are a list, and candidate addresses a list of integers (the code checks
\* both by type).
ASSUME ListsAssumption ==
    \A l \in Lists :
      /\ DOMAIN l = 1 .. Len(l)
      /\ \A i \in DOMAIN l :
        l[i].type \in {"bme280", "sht35"} /\ ~ IsNone(l[i].config.i2c_address_candidates)
            => l[i].config.i2c_address_candidates \in Seq(Nat)

VARIABLES
    list,      \* config["devices"]
    phase,     \* what Core 1 is at
    buses,     \* _build_i2c_bus_factory: cache
    built,     \* drivers constructed so far
    followed,  \* the device that is followed
    driver,    \* of its driver object: what the last initialize() left
    op,        \* the driver call that runs, and the manager's reason for it
    step,      \* where it is
    attempt,   \* of the initialization
    raised,    \* an exception is on its way through the probe's finally
    chip,      \* the sensor, or the lines of the probe
    taken,     \* history: of this reading, the channels whose value is new
    left,      \* history: it has left a conversion unread behind
    spoiled,   \* history: the reading before failed, or left a conversion unread
    damaged,   \* history: a damaged transfer of this call was accepted
    unswitched, \* history: the last write of the probe's power line failed
    sample     \* history: what the last reading published is worth

board == <<list, followed>>
build == <<phase, buses, built>>
call == <<driver, op, step, attempt, raised, taken, left, damaged>>
vars == <<deviceVars, board, build, call, chip, unswitched, spoiled, sample>>

Device == DevicesConfig[1]
Definition == list[followed]
Type == Definition.type
Config == Definition.config

-----------------------------------------------------------------------------
(* The calls, transfer by transfer.  Waits of a fixed length are part of the *)
(* transfer before them; a candidate loop is one pass, at the address that   *)
(* answers.                                                                  *)

\* mutant: the break is left out
Sht35Init_noBreak == <<"serial_number", "heater_off">>

Sht35Init == <<"break", "serial_number", "heater_off">>

\* mutant: _clear_data_ready is left out
Ltr390Init_noClear == <<"part_id", "als_standby", "meas_rate", "gain", "int_cfg">>

Ltr390Init ==
    <<"part_id", "als_standby", "als_data", "uvs_standby", "uvs_data",
      "als_standby", "meas_rate", "gain", "int_cfg">>

InitSteps(type) ==
    CASE type = "bme280" ->
           <<"chip_id", "reset", "nvm", "calibration", "ctrl_hum", "config", "ctrl_meas">>
      [] type = "ltr390" -> Ltr390Init
      [] type = "sht35" -> Sht35Init
      [] type = "ds18b20" -> <<"scan">>
      [] type = "yl69_fc28" -> <<"pins", "power_off">>

ReadSteps(type) ==
    CASE type = "bme280" -> <<"forced", "burst">>
      [] type = "ltr390" ->
           <<"als_active", "ready", "als_data", "uvs_active", "ready", "uvs_data",
             "als_standby">>
      [] type = "sht35" -> <<"single_shot", "fetch">>
      [] type = "ds18b20" -> <<"convert_temp", "read_temp">>
      [] type = "yl69_fc28" -> <<"power_on", "samples", "digital", "power_off">>

Steps == IF op = "read" THEN ReadSteps(Type) ELSE InitSteps(Type)

AtLastStep == step = Len(Steps)
Transfer == Steps[step]

Idle == op = "none"

-----------------------------------------------------------------------------
(* The chips.  mode: the MAIN_CTRL of an LTR390, the acquisition of an SHT35. *)
(* ready: channels whose data-ready is set.  fresh: channels whose data       *)
(* register was filled during this reading.  set: what was written to it.     *)

ChipModes == {"als_standby", "uvs_standby", "als_active", "uvs_active", "idle", "periodic"}
Channels == {"als", "uvs", "main"}
Registers ==
    {"ctrl_hum", "config", "ctrl_meas", "meas_rate", "gain", "int_cfg", "heater"}

ChannelOf(mode) ==
    CASE mode \in {"als_standby", "als_active"} -> "als"
      [] mode \in {"uvs_standby", "uvs_active"} -> "uvs"
      [] OTHER -> "main"

\* Registers that an earlier user may have left in any state.
Chip(mode, ready, set) ==
    [mode |-> mode, ready |-> ready, set |-> set, fresh |-> {}, powered |-> FALSE]

FoundChips(type) ==
    CASE type = "ltr390" ->
           {Chip(mode, ready, {}) : mode \in ChipModes \ {"idle", "periodic"},
                                    ready \in SUBSET {"als", "uvs"}}
      [] type = "sht35" ->
           {Chip(mode, {}, set) : mode \in {"idle", "periodic"}, set \in SUBSET {"heater"}}
      [] type = "bme280" ->
           {Chip("idle", {}, set) : set \in {{}, {"ctrl_hum", "config", "ctrl_meas"}}}
      [] OTHER -> {Chip("idle", {}, {})}

\* What a transfer does to the chip when it arrives.  Data-ready is cleared by reading the
\* channel's data register and by nothing else: a write of MAIN_CTRL leaves it latched.
Effect(transfer, c) ==
    CASE transfer = "reset" -> [c EXCEPT !.set = {}]
      [] transfer \in Registers -> [c EXCEPT !.set = @ \cup {transfer}]
      [] transfer \in ChipModes -> [c EXCEPT !.mode = transfer]
      [] transfer = "als_data" -> [c EXCEPT !.ready = @ \ {"als"}]
      [] transfer = "uvs_data" -> [c EXCEPT !.ready = @ \ {"uvs"}]
      [] transfer = "break" -> [c EXCEPT !.mode = "idle"]
      [] transfer = "heater_off" -> [c EXCEPT !.set = @ \ {"heater"}]
      [] transfer \in {"forced", "single_shot", "samples"} -> [c EXCEPT !.fresh = @ \cup {"main"}]
      [] transfer = "convert_temp" ->
           IF Get(Config.conversion_ms, MinConversion) >= MinConversion
           THEN [c EXCEPT !.fresh = @ \cup {"main"}] ELSE c
      [] transfer \in {"pins", "power_off"} -> [c EXCEPT !.powered = FALSE]
      [] transfer = "power_on" -> [c EXCEPT !.powered = Config.power_pin # Absent]
      [] OTHER -> c

\* What the chip does not answer, by the state it is in.
Refuses(transfer, c) ==
    \/ transfer \in {"serial_number", "heater_off", "single_shot"} /\ c.mode = "periodic"
    \/ transfer = "ready" /\ c.mode \notin {"als_active", "uvs_active"}

\* Transfers that end in a checksum.
Protected == {"serial_number", "fetch", "read_temp"}

\* Those whose checksum is compared (for read_temp, in the library).
Verified(transfer) == transfer \in Protected

-----------------------------------------------------------------------------
(* What a completed reading is worth. *)

\* The channel whose value a transfer brings.
Brings(transfer) ==
    CASE transfer = "als_data" -> {"als"}
      [] transfer = "uvs_data" -> {"uvs"}
      [] transfer \in {"burst", "fetch", "read_temp", "samples"} -> {"main"}
      [] OTHER -> {}

\* The channels whose data register this reading is done with.
Passed == UNION {Brings(Steps[s]) : s \in 1 .. step - 1}

Measured == IF Type = "ltr390" THEN {"als", "uvs"} ELSE {"main"}

\* The registers that the conversion of the samples relies on.
Needed ==
    CASE Type = "bme280" -> {"ctrl_hum", "config", "ctrl_meas"}
      [] Type = "ltr390" -> {"meas_rate", "gain", "int_cfg"}
      [] OTHER -> {}

\* BME280.read: without the temperature the two others are not reported.
Reported(osrs) == IF "temperature" \in osrs THEN osrs ELSE {}

Worth(c, values, wrong) ==
    [fresh |-> Measured \subseteq values,
     intact |-> ~ wrong,
     configured |-> Needed \subseteq c.set /\ "heater" \notin c.set,
     complete |-> Type = "bme280" => Reported(Config.oversampling) = Config.oversampling,
     suspect |-> Type = "ltr390" /\ spoiled]

NoSample ==
    [fresh |-> TRUE, intact |-> TRUE, configured |-> TRUE, complete |-> TRUE, suspect |-> FALSE]

-----------------------------------------------------------------------------
(* Startup. *)

Init ==
    /\ DeviceInit
    /\ list \in Lists
    /\ followed \in DOMAIN list
    /\ phase = "validate"
    /\ buses = [bus \in {} |-> <<>>]
    /\ built = 0
    /\ driver = "none"
    /\ op = "none"
    /\ step = 1
    /\ attempt = 1
    /\ raised = FALSE
    /\ taken = {}
    /\ left = FALSE
    /\ spoiled = TRUE
    /\ damaged = FALSE
    /\ unswitched = FALSE
    /\ chip \in FoundChips(Type)
    /\ sample = NoSample

\* load_config: a refused list starts nothing.
Validate ==
    /\ phase = "validate"
    /\ phase' = IF Accepted(list) THEN "build" ELSE "rejected"
    /\ UNCHANGED <<deviceVars, board, buses, built, call, chip, unswitched, spoiled, sample>>

\* i2c_bus_factory.  machine.I2C refuses pins it cannot route.
BuildsOnBus(c) ==
    LET known == c.i2c_bus \in DOMAIN buses
    IN IF (known /\ buses[c.i2c_bus] # BusSetting(c)) \/ (~ known /\ ~ Routable(c))
       THEN phase' = "dead" /\ UNCHANGED <<buses, built>>
       ELSE /\ buses' = With(buses, c.i2c_bus, BusSetting(c))
            /\ built' = built + 1
            /\ UNCHANGED phase

\* create_device, one device after the other.  The 1-Wire and ADC factories only cache.
CreateDevice ==
    /\ phase = "build"
    /\ built < Len(list)
    /\ LET d == list[built + 1]
       IN IF d.type \in I2cTypes
          THEN BuildsOnBus(d.config)
          ELSE built' = built + 1 /\ UNCHANGED <<phase, buses>>
    /\ UNCHANGED <<deviceVars, board, call, chip, unswitched, spoiled, sample>>

-----------------------------------------------------------------------------
(* The manager calls a driver. *)

\* dict.get(key, default) returns a null that is there: the drivers then fail on it.
NullField ==
    \/ Type # "yl69_fc28" /\ Config.offsets = Null
    \/ Type \in {"bme280", "sht35"} /\ Config.i2c_address_candidates = Null

Starts(reason) ==
    /\ phase' = IF reason # "read" /\ NullField THEN "dead" ELSE "run"
    /\ op' = reason
    /\ step' = 1
    /\ raised' = FALSE
    /\ taken' = {}
    /\ left' = FALSE
    /\ damaged' = FALSE
    /\ driver' = IF reason = "read" THEN driver ELSE "partial"

\* What was converted before a reading starts is old.
Forgets(c) == [c EXCEPT !.fresh = {}]

Manages(reason) ==
    /\ Idle
    /\ Starts(reason)
    /\ attempt' = 1
    /\ chip' = Forgets(chip)
    /\ UNCHANGED <<deviceVars, board, buses, built, unswitched, spoiled, sample>>

\* _initialize_single_device
Boot == phase = "build" /\ built = Len(list) /\ Manages("boot")

\* process_device
Read == phase = "run" /\ Ready(Device) /\ Manages("read")

Reinitialize ==
    /\ phase = "run"
    /\ Device \in DOMAIN managed /\ managed[Device].pending
    /\ Manages("reinitialize")

\* retry_failed_devices
Retry == phase = "run" /\ Device \in FailedDevices /\ Manages("retry")

-----------------------------------------------------------------------------
(* How a call ends. *)

Returns ==
    /\ op' = "none" /\ step' = 1 /\ raised' = FALSE
    /\ taken' = {} /\ left' = FALSE /\ damaged' = FALSE

\* A soil reading divides by the calibrated span.
ReadReturns ==
    /\ ReadSucceeds(Device)
    /\ sample' = Worth(chip', taken \cup (Brings(Transfer) \cap chip'.fresh), damaged)
    /\ phase' = IF Type = "yl69_fc28" /\ Config.dry_raw = Config.wet_raw THEN "dead" ELSE phase
    /\ spoiled' = left
    /\ UNCHANGED driver

InitReturns ==
    /\ driver' = "ready"
    /\ \/ op = "boot" /\ RecordSuccess(Device)
       \/ op = "reinitialize" /\ ReinitSucceeds(Device)
       \/ op = "retry" /\ RetrySucceeds(Device)
    /\ spoiled' = FALSE
    /\ UNCHANGED <<phase, sample>>

Completes ==
    /\ IF op = "read" THEN ReadReturns ELSE InitReturns
    /\ Returns
    /\ UNCHANGED attempt

GivesUp ==
    \/ op = "read" /\ ReadFails(Device)
    \/ op = "boot" /\ RecordFailure(Device)
    \/ op = "reinitialize" /\ ReinitExhausted(Device)
    \/ op = "retry" /\ RetryFails(Device)

\* OSError: the manager tries again, or records it.
Raises ==
    /\ IF op \in {"boot", "reinitialize"} /\ attempt < Attempts
       THEN /\ Starts(op)
            /\ attempt' = attempt + 1
            /\ UNCHANGED deviceVars
       ELSE /\ GivesUp
            /\ Returns
            /\ UNCHANGED <<attempt, phase, driver>>
    /\ spoiled' = (spoiled \/ op = "read")
    /\ UNCHANGED sample

Continues ==
    /\ step' = step + 1
    /\ taken' = taken \cup (Brings(Transfer) \cap chip'.fresh)
    /\ UNCHANGED <<deviceVars, phase, op, attempt, driver, left, spoiled, sample>>

-----------------------------------------------------------------------------
(* A transfer. *)

Calling ==
    /\ phase = "run"
    /\ ~ Idle
    /\ UNCHANGED <<board, buses, built>>

Switches == Transfer \in {"power_on", "power_off"} /\ Config.power_pin # Absent

\* A signal the configuration leaves out is not touched; pins are set up without fail.
MayFail ==
    /\ Transfer # "pins"
    /\ Transfer \in {"power_on", "power_off"} => Config.power_pin # Absent
    /\ Transfer = "digital" => Config.digital_pin # Absent

TransferArrives ==
    /\ Calling
    /\ ~ Refuses(Transfer, chip)
    /\ Transfer = "ready" => ChannelOf(chip.mode) \in chip.ready
    /\ chip' = Effect(Transfer, chip)
    /\ unswitched' = IF Switches THEN FALSE ELSE unswitched
    /\ IF ~ AtLastStep
       THEN Continues /\ UNCHANGED <<raised, damaged>>
       ELSE IF raised THEN Raises ELSE Completes

\* mutant: the power is switched off only after a reading that went well
FinallyPowersOff_skipped == FALSE

\* Yl69Fc28.read: once the power is on, the finally switches it off.
FinallyPowersOff == Transfer \in {"samples", "digital"}

\* A transfer that fails, at the latest when its bounded wait is over.
TransferFails ==
    /\ Calling
    /\ MayFail
    /\ chip' \in {chip, Effect(Transfer, chip)}
    /\ unswitched' = (unswitched \/ Switches)
    /\ IF FinallyPowersOff
       THEN /\ step' = Len(Steps)
            /\ raised' = TRUE
            /\ UNCHANGED <<deviceVars, phase, op, attempt, driver, taken, left, damaged,
                           spoiled, sample>>
       ELSE Raises

\* A damaged transfer is an OSError when its checksum is compared.
TransferDamaged ==
    /\ Calling
    /\ Transfer \in Protected
    /\ ~ Refuses(Transfer, chip)
    /\ chip' = Effect(Transfer, chip)
    /\ IF Verified(Transfer)
       THEN Raises
       ELSE IF AtLastStep
            THEN /\ ReadSucceeds(Device)
                 /\ sample' = [NoSample EXCEPT !.intact = FALSE]
                 /\ spoiled' = left
                 /\ Returns
                 /\ UNCHANGED <<phase, driver, attempt>>
            ELSE Continues /\ damaged' = TRUE /\ UNCHANGED raised
    /\ UNCHANGED unswitched

-----------------------------------------------------------------------------
(* The chip and the board. *)

\* An LTR390 converts the selected channel again and again, also between the read of its
\* data register and the switch to the next mode.
Convert ==
    /\ phase = "run"
    /\ chip.mode \in {"als_active", "uvs_active"}
    /\ chip' = [chip EXCEPT !.ready = @ \cup {ChannelOf(chip.mode)},
                            !.fresh = IF op = "read" THEN @ \cup {ChannelOf(chip.mode)} ELSE @]
    /\ left' = (left \/ (op = "read" /\ ChannelOf(chip.mode) \in Passed))
    /\ UNCHANGED <<deviceVars, board, build, driver, op, step, attempt, raised, taken, damaged,
                   unswitched, spoiled, sample>>

\* Core 0 resets the board, or it is restarted.  The lines float until they are set up.
BoardReset ==
    /\ phase \in {"build", "run", "dead"}
    /\ DeviceReset
    /\ phase' = "build"
    /\ buses' = [bus \in {} |-> <<>>]
    /\ built' = 0
    /\ driver' = "none"
    /\ Returns
    /\ attempt' = 1
    /\ chip' \in {[Forgets(chip) EXCEPT !.powered = on] :
                    on \in IF Type = "yl69_fc28" THEN BOOLEAN ELSE {FALSE}}
    /\ unswitched' = FALSE
    /\ spoiled' = TRUE
    /\ sample' = NoSample
    /\ UNCHANGED board

Next ==
    \/ Validate
    \/ CreateDevice
    \/ Boot
    \/ Read
    \/ Reinitialize
    \/ Retry
    \/ TransferArrives
    \/ TransferFails
    \/ TransferDamaged
    \/ Convert
    \/ BoardReset

Spec == Init /\ [][Next]_vars

-----------------------------------------------------------------------------
(* Properties. *)

Running == phase \notin {"validate", "rejected"}

\* Nothing but an OSError leaves a driver or a factory: an exception that is not one
\* ends Core 1 (device_manager.py catches OSError only), and the reset that follows
\* meets the same configuration.
WorkerSurvives == phase # "dead"

\* Two devices of an accepted list drive one line only as parts of one bus, and no I2C
\* chip can publish under two ids, whatever address each device finds.
NothingShared ==
    Running =>
        \A i, j \in DOMAIN list : i # j =>
            /\ Carrier(list[i]) # Carrier(list[j]) =>
                Lines(list[i]) \cap Lines(list[j]) = {}
            /\ list[i].type = list[j].type => Chips(list[i]) \cap Chips(list[j]) = {}

\* What is published was transferred intact where the protocol has a checksum, by a chip
\* set up as configured, with every enabled channel, through failed transfers, half-done
\* readings and initializations, and board resets.  It was measured during that reading,
\* the first one after an initialization included (_clear_data_ready).  Only a reading of
\* the LTR390 right after one that failed, or that left a conversion unread, may publish
\* an older conversion; the next complete one is new again.
SampleSound ==
    /\ sample.intact /\ sample.configured /\ sample.complete
    /\ ~ sample.suspect => sample.fresh

\* Between two calls the probe's electrodes carry no current, unless the power switch
\* itself could not be written.
ProbeOff == (Idle /\ driver # "none" /\ chip.powered) => unswitched

\* Initialization works from any state a chip can be found in, and readings from any
\* state that initialization and earlier calls leave: a call fails by a fault of a
\* transfer, never because of where the chip was left.
ChipAnswers == (phase = "run" /\ ~ Idle) => ~ Refuses(Transfer, chip)
=============================================================================
