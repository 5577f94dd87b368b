---------------------------- MODULE SensorsProofs ----------------------------
(***************************************************************************)
(* Proofs about the device lists that validation lets through, whatever    *)
(* their length, their devices and the keys they leave out, and about the  *)
(* calls of the device that is followed: what each of its transfers needs  *)
(* is there, and what a reading publishes is worth it.                     *)
(***************************************************************************)
EXTENDS Sensors, TLAPS

-----------------------------------------------------------------------------
(* Lines. *)

\* The pins a valid I2C device drives belong to the mux groups of its own bus, also
\* where they are defaults that no key names.
LEMMA PinsOfBus ==
  ASSUME NEW c, c.i2c_bus \in 0 .. 1, Routable(c)
  PROVE  EffectivePins(c) \subseteq SdaPins(c.i2c_bus) \cup SclPins(c.i2c_bus)
  <1>1. CASE c.i2c_bus = 0
    BY <1>1 DEF Routable, EffectivePins, SdaPins, SclPins, DefaultSda, DefaultScl,
                UserGpioPins
  <1>2. CASE c.i2c_bus = 1
    BY <1>2 DEF Routable, EffectivePins, SdaPins, SclPins, DefaultSda, DefaultScl,
                UserGpioPins
  <1> QED BY <1>1, <1>2

\* The groups of the two buses have no pin in common.
LEMMA BusesDisjoint ==
  ASSUME NEW a \in 0 .. 1, NEW b \in 0 .. 1, a # b
  PROVE  (SdaPins(a) \cup SclPins(a)) \cap (SdaPins(b) \cup SclPins(b)) = {}
  BY DEF SdaPins, SclPins, UserGpioPins

\* What the devices of an accepted list are.
LEMMA AcceptedDevice ==
  ASSUME NEW l, Accepted(l), NEW i \in DOMAIN l
  PROVE  /\ l[i].type \in I2cTypes \cup {"ds18b20", "yl69_fc28"}
         /\ l[i].type \in I2cTypes =>
              l[i].config.i2c_bus \in 0 .. 1 /\ Routable(l[i].config)
  <1>1. ValidDevice(l[i])
    BY DEF Accepted
  <1> QED BY <1>1 DEF ValidDevice, ValidI2c, I2cTypes

\* A line that two devices drive is a line of one carrier.
LEMMA LinesApart ==
  ASSUME NEW l, Accepted(l), NEW i \in DOMAIN l, NEW j \in DOMAIN l, i # j,
         Carrier(l[i]) # Carrier(l[j])
  PROVE  Lines(l[i]) \cap Lines(l[j]) = {}
  <1> DEFINE ti == l[i].type
             tj == l[j].type
             named == OneWirePins(l) \cup AllSoilPins(l)
  <1>1. /\ ti \in I2cTypes \cup {"ds18b20", "yl69_fc28"}
        /\ tj \in I2cTypes \cup {"ds18b20", "yl69_fc28"}
    BY AcceptedDevice
  <1>2. \A k \in DOMAIN l :
           /\ l[k].type = "ds18b20" => Lines(l[k]) \subseteq OneWirePins(l)
           /\ l[k].type = "yl69_fc28" => Lines(l[k]) \subseteq AllSoilPins(l)
           /\ l[k].type \in I2cTypes => Lines(l[k]) = EffectivePins(l[k].config)
    BY DEF Lines, OneWirePins, AllSoilPins, OfType, I2cTypes
  <1>3. \A k \in DOMAIN l :
           l[k].type \in I2cTypes => EffectivePins(l[k].config) \cap named = {}
    BY DEF Accepted, NoPinConflict, OfType
  <1>4. AllSoilPins(l) \cap OneWirePins(l) = {}
    BY DEF Accepted, NoPinConflict
  <1>5. CASE ti \in I2cTypes /\ tj \in I2cTypes
    <2>1. l[i].config.i2c_bus # l[j].config.i2c_bus
      BY <1>5 DEF Carrier, I2cTypes
    <2>2. /\ l[i].config.i2c_bus \in 0 .. 1 /\ Routable(l[i].config)
          /\ l[j].config.i2c_bus \in 0 .. 1 /\ Routable(l[j].config)
      BY <1>5, AcceptedDevice
    <2>3. EffectivePins(l[i].config) \cap EffectivePins(l[j].config) = {}
      BY <2>1, <2>2, PinsOfBus, BusesDisjoint
    <2> QED BY <1>2, <1>5, <2>3
  <1>6. CASE ti \in I2cTypes /\ tj \notin I2cTypes
    BY <1>1, <1>2, <1>3, <1>6
  <1>7. CASE ti \notin I2cTypes /\ tj \in I2cTypes
    BY <1>1, <1>2, <1>3, <1>7
  <1>8. CASE ti = "ds18b20" /\ tj = "ds18b20"
    BY <1>8 DEF Carrier, Lines, I2cTypes
  <1>9. CASE ti = "yl69_fc28" /\ tj = "yl69_fc28"
    BY <1>9 DEF Accepted, NoPinConflict, OfType, Lines, I2cTypes
  <1>10. CASE {ti, tj} = {"ds18b20", "yl69_fc28"}
    BY <1>2, <1>4, <1>10
  <1> QED BY <1>1, <1>5, <1>6, <1>7, <1>8, <1>9, <1>10

-----------------------------------------------------------------------------
(* Chips. *)

\* Two sequences of length one with a common element are the same.
LEMMA Singletons ==
  ASSUME NEW s \in Seq(Nat), NEW t \in Seq(Nat), Len(s) = 1, Len(t) = 1, s # t
  PROVE  ToSet(s) \cap ToSet(t) = {}
  <1>1. DOMAIN s = {1} /\ DOMAIN t = {1}
    OBVIOUS
  <1>2. s[1] # t[1]
    BY <1>1
  <1> QED BY <1>1, <1>2 DEF ToSet

\* Two devices of one type cannot bind the same chip, whichever of its candidate
\* addresses each of them finds.
LEMMA ChipsApart ==
  ASSUME NEW l \in Lists, Accepted(l), NEW i \in DOMAIN l, NEW j \in DOMAIN l, i # j,
         l[i].type = l[j].type
  PROVE  Chips(l[i]) \cap Chips(l[j]) = {}
  <1>1. CASE l[i].type \notin I2cTypes
    BY <1>1 DEF Chips
  <1>2. CASE l[i].type \in I2cTypes /\ l[i].config.i2c_bus # l[j].config.i2c_bus
    BY <1>2 DEF Chips
  <1>3. CASE l[i].type \in I2cTypes /\ l[i].config.i2c_bus = l[j].config.i2c_bus
    <2>1. <<i, j>> \in SameChipType(l) /\ <<j, i>> \in SameChipType(l)
      BY <1>3 DEF SameChipType, SameBus, OfType
    <2>2. /\ l[i].type # "ltr390" /\ l[j].type # "ltr390"
          /\ Len(Candidates(l[i])) = 1 /\ Len(Candidates(l[j])) = 1
          /\ Candidates(l[i]) # Candidates(l[j])
      BY <2>1 DEF Accepted, NoChipConflict
    <2>3. \A k \in {i, j} : Candidates(l[k]) \in Seq(Nat)
      BY <1>3, <2>2, ListsAssumption DEF Candidates, DefaultAddresses, I2cTypes
    <2>4. ToSet(Candidates(l[i])) \cap ToSet(Candidates(l[j])) = {}
      BY <2>2, <2>3, Singletons
    <2> QED BY <2>4 DEF Chips
  <1> QED BY <1>1, <1>2, <1>3

-----------------------------------------------------------------------------
(* The specification. *)

\* Nothing is built, and no driver called, for a list that was not accepted.
OnlyAccepted == list \in Lists /\ (Running => Accepted(list))

\* Every step but validation starts while Core 1 runs, and leaves the list alone.
LEMMA StepsRun ==
  ASSUME Next, ~ Validate
  PROVE  Running /\ list' = list
  <1>1. CASE CreateDevice
    BY <1>1 DEF CreateDevice, Running, board
  <1>2. CASE Boot
    BY <1>2 DEF Boot, Manages, Running, board
  <1>3. CASE Read \/ Reinitialize \/ Retry
    BY <1>3 DEF Read, Reinitialize, Retry, Manages, Running, board
  <1>4. CASE TransferArrives \/ TransferFails \/ TransferDamaged
    BY <1>4 DEF TransferArrives, TransferFails, TransferDamaged, Calling, Running, board
  <1>5. CASE Convert
    BY <1>5 DEF Convert, Running, board
  <1>6. CASE BoardReset
    BY <1>6 DEF BoardReset, Running, board
  <1> QED BY <1>1, <1>2, <1>3, <1>4, <1>5, <1>6 DEF Next

\* Nothing is built at boot.
LEMMA InitAccepted == Init => OnlyAccepted
  BY DEF Init, OnlyAccepted, Running

\* Drivers are only constructed from a list that was accepted.
LEMMA NextAccepted == OnlyAccepted /\ [Next]_vars => OnlyAccepted'
  <1> SUFFICES ASSUME OnlyAccepted, [Next]_vars
               PROVE  OnlyAccepted'
    OBVIOUS
  <1>1. CASE Validate
    BY <1>1 DEF Validate, OnlyAccepted, Running, board, Accepted
  <1>2. CASE Next /\ ~ Validate
    <2>1. Running /\ list' = list
      BY <1>2, StepsRun
    <2> QED BY <2>1 DEF OnlyAccepted
  <1>3. CASE UNCHANGED vars
    BY <1>3 DEF OnlyAccepted, Running, vars, board, build
  <1> QED BY <1>1, <1>2, <1>3

\* Every list that reaches construction was accepted (load_config before create_device).
THEOREM OnlyAcceptedBuilt == Spec => []OnlyAccepted
  BY InitAccepted, NextAccepted, PTL DEF Spec

\* Whatever list a configuration holds, once it is accepted no two of its devices drive
\* one line except as parts of one bus, and no I2C chip can publish under two ids
\* (_validate_devices of config.py with rp2_pins.py and rp2_i2c.py).
THEOREM NothingIsShared == Spec => []NothingShared
  <1>1. OnlyAccepted => NothingShared
    <2> SUFFICES ASSUME OnlyAccepted, Running,
                        NEW i \in DOMAIN list, NEW j \in DOMAIN list, i # j
                 PROVE  /\ Carrier(list[i]) # Carrier(list[j]) =>
                             Lines(list[i]) \cap Lines(list[j]) = {}
                        /\ list[i].type = list[j].type =>
                             Chips(list[i]) \cap Chips(list[j]) = {}
      BY DEF NothingShared
    <2>1. list \in Lists /\ Accepted(list)
      BY DEF OnlyAccepted
    <2> QED BY <2>1, LinesApart, ChipsApart
  <1> QED BY <1>1, OnlyAcceptedBuilt, PTL

-----------------------------------------------------------------------------
(* Lists without a null. *)

\* No optional key that a driver reads holds a null.
NullFree(l) ==
    \A i \in DOMAIN l :
        /\ l[i].type # "yl69_fc28" => l[i].config.offsets # Null
        /\ l[i].type \in {"bme280", "sht35"} =>
              l[i].config.i2c_address_candidates # Null

\* Each cached bus was opened with the setting of some device of the list.
CacheSound ==
    \A bus \in DOMAIN buses : \E i \in DOMAIN list :
        /\ list[i].type \in I2cTypes
        /\ list[i].config.i2c_bus = bus
        /\ BusSetting(list[i].config) = buses[bus]

Alive ==
    /\ OnlyAccepted
    /\ followed \in DOMAIN list
    /\ built \in Nat
    /\ CacheSound
    /\ WorkerSurvives

\* The factory never meets a cached bus with another setting, nor unroutable pins.
LEMMA FactorySucceeds ==
  ASSUME Alive, CreateDevice
  PROVE  Alive'
  <1> DEFINE d == list[built + 1]
  <1>1. built + 1 \in DOMAIN list /\ Accepted(list) /\ phase = "build"
    BY ListsAssumption DEF Alive, OnlyAccepted, Running, CreateDevice
  <1>2. list' = list /\ followed' = followed
    BY DEF CreateDevice, board
  <1>3. CASE d.type \in I2cTypes
    <2> DEFINE bus == d.config.i2c_bus
    <2>1. BuildsOnBus(d.config)
      BY <1>3 DEF CreateDevice
    <2>2. bus \in DOMAIN buses => buses[bus] = BusSetting(d.config)
      <3> SUFFICES ASSUME bus \in DOMAIN buses
                   PROVE  buses[bus] = BusSetting(d.config)
        OBVIOUS
      <3>1. PICK i \in DOMAIN list : /\ list[i].type \in I2cTypes
                                     /\ list[i].config.i2c_bus = bus
                                     /\ BusSetting(list[i].config) = buses[bus]
        BY DEF Alive, CacheSound
      <3>2. CASE i = built + 1
        BY <3>1, <3>2
      <3>3. CASE i # built + 1
        <4>1. <<i, built + 1>> \in SameBus(list)
          BY <1>1, <1>3, <3>1, <3>3 DEF SameBus, OfType
        <4> QED BY <1>1, <3>1, <4>1 DEF Accepted, NoBusConflict
      <3> QED BY <3>2, <3>3
    <2>3. Routable(d.config)
      BY <1>1, <1>3, AcceptedDevice
    <2>4. /\ buses' = With(buses, bus, BusSetting(d.config))
          /\ built' = built + 1
          /\ phase' = phase
      BY <2>1, <2>2, <2>3 DEF BuildsOnBus
    <2>5. CacheSound'
      <3> SUFFICES ASSUME NEW b \in DOMAIN buses'
                   PROVE  \E i \in DOMAIN list :
                             /\ list[i].type \in I2cTypes
                             /\ list[i].config.i2c_bus = b
                             /\ BusSetting(list[i].config) = buses'[b]
        BY <1>2 DEF CacheSound
      <3>1. CASE b = bus
        BY <1>1, <1>3, <2>4, <3>1 DEF With
      <3>2. CASE b # bus
        BY <2>4, <3>2 DEF With, Alive, CacheSound
      <3> QED BY <3>1, <3>2
    <2> QED BY <1>1, <1>2, <2>4, <2>5 DEF Alive, OnlyAccepted, Running, WorkerSurvives
  <1>4. CASE d.type \notin I2cTypes
    BY <1>1, <1>2, <1>4 DEF CreateDevice, Alive, OnlyAccepted, Running, CacheSound,
                            WorkerSurvives
  <1> QED BY <1>3, <1>4

\* What a driver is called with does not make it fail: the followed device is an
\* accepted one without nulls.
LEMMA DriverSafe ==
  ASSUME Alive, NullFree(list), Running
  PROVE  /\ ~ NullField
         /\ Type = "yl69_fc28" => Config.dry_raw # Config.wet_raw
  <1>1. ValidDevice(list[followed]) /\ followed \in DOMAIN list
    BY DEF Alive, OnlyAccepted, Accepted
  <1>2. ~ NullField
    BY <1>1 DEF NullFree, NullField, Type, Config, Definition
  <1>3. Type = "yl69_fc28" => Config.dry_raw # Config.wet_raw
    BY <1>1 DEF ValidDevice, ValidSoil, Type, Config, Definition, I2cTypes
  <1> QED BY <1>2, <1>3

\* No step of an accepted list without nulls raises what Core 1 does not catch.
LEMMA NextAlive ==
  ASSUME NullFree(list), Alive, [Next]_vars
  PROVE  Alive'
  <1>1. OnlyAccepted'
    BY NextAccepted DEF Alive
  <1>2. CASE Validate
    BY <1>1, <1>2 DEF Validate, Alive, board, CacheSound, WorkerSurvives
  <1>3. CASE CreateDevice
    BY <1>3, FactorySucceeds
  <1>4. CASE Next /\ ~ Validate /\ ~ CreateDevice
    <2>1. Running /\ list' = list
      BY <1>4, StepsRun
    <2>2. /\ ~ NullField
          /\ Type = "yl69_fc28" => Config.dry_raw # Config.wet_raw
      BY <2>1, DriverSafe
    <2>3. ASSUME NEW reason \in {"boot", "read", "reinitialize", "retry"},
                 Manages(reason)
          PROVE  phase' # "dead" /\ UNCHANGED <<board, buses, built>>
      BY <2>2, <2>3 DEF Manages, Starts
    <2>4. Boot \/ Read \/ Reinitialize \/ Retry
             => phase' # "dead" /\ UNCHANGED <<board, buses, built>>
      BY <2>3 DEF Boot, Read, Reinitialize, Retry
    <2>5. Raises => phase' = phase \/ phase' # "dead"
      BY <2>2 DEF Raises, Starts
    <2>6. Completes => phase' = phase
      BY <2>2 DEF Completes, ReadReturns, InitReturns
    <2>7. TransferArrives => phase' # "dead" /\ UNCHANGED <<board, buses, built>>
      BY <2>5, <2>6 DEF TransferArrives, Calling, Continues
    <2>8. TransferFails => phase' # "dead" /\ UNCHANGED <<board, buses, built>>
      BY <2>5 DEF TransferFails, Calling
    <2>9. TransferDamaged => phase' # "dead" /\ UNCHANGED <<board, buses, built>>
      BY <2>5 DEF TransferDamaged, Calling, Continues
    <2>10. Convert => phase' # "dead" /\ UNCHANGED <<board, buses, built>>
      BY DEF Convert, build
    <2>11. CASE BoardReset
      BY <1>1, <2>11 DEF BoardReset, Alive, board, CacheSound, WorkerSurvives
    <2>12. CASE phase' # "dead" /\ UNCHANGED <<board, buses, built>>
      BY <1>1, <2>12 DEF Alive, board, CacheSound, WorkerSurvives
    <2> QED BY <1>4, <2>4, <2>7, <2>8, <2>9, <2>10, <2>11, <2>12 DEF Next
  <1>5. CASE UNCHANGED vars
    BY <1>1, <1>5 DEF Alive, vars, board, build, CacheSound, WorkerSurvives
  <1> QED BY <1>2, <1>3, <1>4, <1>5

\* What validation accepts without a null in it, no factory and no driver fails on:
\* neither a bus opened twice with different settings (device_factory.py), nor pins that
\* machine.I2C cannot route, nor a calibration without a span ends Core 1.
THEOREM WorkerLives ==
  ASSUME \A l \in Lists : NullFree(l)
  PROVE  Spec => []WorkerSurvives
  <1>1. Init => Alive
    BY DEF Init, Alive, OnlyAccepted, Running, CacheSound, WorkerSurvives
  <1>2. Alive /\ [Next]_vars => Alive'
    BY NextAlive DEF Alive, OnlyAccepted
  <1>3. Alive => WorkerSurvives
    BY DEF Alive
  <1> QED BY <1>1, <1>2, <1>3, PTL DEF Spec

-----------------------------------------------------------------------------
(* The calls of the followed device.  What a call relies on was established  *)
(* by its own earlier transfers, by the initialization that made the driver  *)
(* ready, or by the manager, which reads only a device whose driver is.      *)

InitOps == {"boot", "reinitialize", "retry"}

KnownTypes == I2cTypes \cup {"ds18b20", "yl69_fc28"}

ChipType ==
    [mode : ChipModes, ready : SUBSET Channels, set : SUBSET Registers,
     fresh : SUBSET Channels, powered : BOOLEAN]

\* The variables of a call stay in their domains, and a call is at one of its steps.
CallTypeOK ==
    /\ OnlyAccepted /\ followed \in DOMAIN list
    /\ chip \in ChipType
    /\ op \in InitOps \cup {"none", "read"}
    /\ driver \in {"none", "partial", "ready"}
    /\ raised \in BOOLEAN /\ taken \subseteq Channels /\ damaged = FALSE
    /\ ~ Idle => Running /\ step \in 1..Len(Steps)

\* The manager reads a device only while its driver is ready.
ManagerInv ==
    /\ managed = [d \in DOMAIN managed |-> managed[d]]
    /\ failed = [d \in DOMAIN failed |-> failed[d]]
    /\ Device \in DOMAIN managed =>
          managed[Device] \in [failures : Nat, pending : BOOLEAN, logged : BOOLEAN]
    /\ Device \in DOMAIN managed => Device \notin FailedDevices
    /\ phase \in {"validate", "rejected", "build"} =>
          Idle /\ driver = "none" /\ Device \notin DOMAIN managed /\ Device \notin FailedDevices
    /\ phase = "run" => driver # "none"
    /\ Ready(Device) => driver = "ready"
    /\ op = "read" => Ready(Device)
    /\ op = "reinitialize" => Device \in DOMAIN managed /\ managed[Device].pending
    /\ op \in {"boot", "retry"} => Device \notin DOMAIN managed
    /\ op = "boot" => Device \notin FailedDevices
    /\ op \in InitOps => driver = "partial"

\* No code touches the heater but to switch it off, nor any line but the probe's.
Untouched(c) ==
    /\ Type # "sht35" => "heater" \notin c.set
    /\ Type # "yl69_fc28" => ~ c.powered

\* What a completed initialization leaves.
SetUp(c) ==
    /\ Needed \subseteq c.set /\ "heater" \notin c.set
    /\ Type = "sht35" => c.mode # "periodic"

\* What an initialization has left once it is at step s.
SettingUp(s, c) ==
    /\ Type = "bme280" /\ s >= 6 => "ctrl_hum" \in c.set
    /\ Type = "bme280" /\ s >= 7 => "config" \in c.set
    /\ Type = "ltr390" /\ s >= 8 => "meas_rate" \in c.set
    /\ Type = "ltr390" /\ s >= 9 => "gain" \in c.set
    /\ Type = "sht35" /\ s >= 2 => c.mode # "periodic"
    /\ Type = "yl69_fc28" /\ s >= 2 => ~ c.powered

\* The LTR390 converts the channel it is polled for.
Polled(s, c) ==
    Type = "ltr390" => /\ s = 2 => c.mode = "als_active"
                       /\ s = 5 => c.mode = "uvs_active"

SetUpInv ==
    /\ Untouched(chip)
    /\ driver = "ready" => SetUp(chip)
    /\ op \in InitOps => SettingUp(step, chip)
    /\ op = "read" => Polled(step, chip)
    /\ ProbeOff

CallInv == CallTypeOK /\ ManagerInv /\ SetUpInv

\* What a reading has in hand at step s.
Collected(s, c, values, failing) ==
    /\ Type \in {"bme280", "sht35", "ds18b20"} /\ s = 2 => "main" \in c.fresh
    /\ Type = "yl69_fc28" /\ s >= 3 /\ ~ failing => "main" \in values
    /\ Type = "ltr390" /\ ~ spoiled =>
          /\ s \in 1..3 /\ "als" \in c.ready => "als" \in c.fresh
          /\ s = 3 => "als" \in c.fresh
          /\ s >= 4 => "als" \in values
          /\ s \in 1..6 /\ "uvs" \in c.ready => "uvs" \in c.fresh
          /\ s = 6 => "uvs" \in c.fresh
          /\ s >= 7 => "uvs" \in values

\* An LTR390 without a conversion that no one has read, and that makes no new one.
Drained(c) ==
    Type = "ltr390" => /\ c.mode \in {"als_standby", "uvs_standby"}
                       /\ "als" \notin c.ready /\ "uvs" \notin c.ready

\* How far an initialization has come with that at step s.
Clearing(s, c) ==
    Type = "ltr390" => /\ s >= 3 => c.mode \in {"als_standby", "uvs_standby"}
                       /\ s >= 4 => "als" \notin c.ready
                       /\ s >= 6 => "uvs" \notin c.ready

\* And a reading, unless a conversion has ended behind its back.
Draining(s, c) ==
    Type = "ltr390" => /\ s >= 4 => "als" \notin c.ready
                       /\ s >= 7 => "uvs" \notin c.ready

ReadyInv ==
    /\ left \in BOOLEAN /\ spoiled \in BOOLEAN
    /\ op \in InitOps => Clearing(step, chip)
    /\ op = "read" /\ ~ left => Draining(step, chip)
    /\ op = "none" /\ driver = "ready" /\ ~ spoiled => Drained(chip)

ReadingInv ==
    /\ ~ Idle /\ raised => op = "read" /\ Type = "yl69_fc28" /\ step = 4
    /\ op = "read" => Collected(step, chip, taken, raised)
    /\ ReadyInv
    /\ SampleSound

-----------------------------------------------------------------------------
(* Transfers. *)

Transfers ==
    {"chip_id", "reset", "nvm", "calibration", "ctrl_hum", "config", "ctrl_meas",
     "part_id", "als_standby", "als_data", "uvs_standby", "uvs_data", "meas_rate", "gain",
     "int_cfg", "break", "serial_number", "heater_off", "scan", "pins", "power_off",
     "forced", "burst", "als_active", "ready", "uvs_active", "single_shot", "fetch",
     "convert_temp", "read_temp", "power_on", "samples", "digital"}

\* What transfer t changes of the chip, field by field, from c to d.
Changes(t, c, d) ==
    /\ d \in ChipType
    /\ d.mode = IF t \in ChipModes THEN t ELSE IF t = "break" THEN "idle" ELSE c.mode
    /\ d.set = IF t = "reset" THEN {}
               ELSE IF t \in Registers THEN c.set \cup {t}
               ELSE IF t = "heater_off" THEN c.set \ {"heater"} ELSE c.set
    /\ d.powered = IF t \in {"pins", "power_off"} THEN FALSE
                   ELSE IF t = "power_on" THEN Config.power_pin # Absent ELSE c.powered
    /\ c.fresh \subseteq d.fresh
    /\ t \in {"forced", "single_shot", "samples"} => "main" \in d.fresh
    /\ t = "convert_temp" /\ Get(Config.conversion_ms, MinConversion) >= MinConversion
          => "main" \in d.fresh
    /\ d.ready = IF t = "als_data" THEN c.ready \ {"als"}
                 ELSE IF t = "uvs_data" THEN c.ready \ {"uvs"} ELSE c.ready

\* That is what the model's transfers do.
LEMMA EffectFacts ==
  ASSUME NEW t \in Transfers, NEW c \in ChipType
  PROVE  Changes(t, c, Effect(t, c))
  <1> USE DEF Changes, ChipType, ChipModes, Channels, Registers
  <1>1. CASE t \in {"ctrl_hum", "config", "ctrl_meas", "meas_rate", "gain", "int_cfg"}
    BY <1>1 DEF Effect
  <1>2. CASE t \in {"als_standby", "uvs_standby", "als_active", "uvs_active"}
    BY <1>2 DEF Effect
  <1>3. CASE t \in {"reset", "als_data", "uvs_data", "break", "heater_off"}
    BY <1>3 DEF Effect
  <1>4. CASE t \in {"forced", "single_shot", "samples", "convert_temp"}
    BY <1>4 DEF Effect
  <1>5. CASE t \in {"pins", "power_off", "power_on"}
    BY <1>5 DEF Effect
  <1>6. CASE t \in {"chip_id", "nvm", "calibration", "part_id", "serial_number", "scan",
                    "burst", "ready", "fetch", "read_temp", "digital"}
    BY <1>6 DEF Effect
  <1> QED BY <1>1, <1>2, <1>3, <1>4, <1>5, <1>6 DEF Transfers

\* The transfers of each call.
LEMMA StepFacts ==
  ASSUME Type \in KnownTypes, NEW s \in 1..Len(Steps)
  PROVE  /\ Len(Steps) \in Nat /\ s \in Nat
         /\ Steps[s] \in Transfers
         /\ op # "read" /\ Type = "bme280" =>
              /\ Len(Steps) = 7
              /\ Steps[s] = CASE s = 1 -> "chip_id" [] s = 2 -> "reset" [] s = 3 -> "nvm"
                              [] s = 4 -> "calibration" [] s = 5 -> "ctrl_hum"
                              [] s = 6 -> "config" [] OTHER -> "ctrl_meas"
         /\ op # "read" /\ Type = "ltr390" =>
              /\ Len(Steps) = 9
              /\ Steps[s] = CASE s = 1 -> "part_id" [] s \in {2, 6} -> "als_standby"
                              [] s = 3 -> "als_data" [] s = 4 -> "uvs_standby"
                              [] s = 5 -> "uvs_data" [] s = 7 -> "meas_rate"
                              [] s = 8 -> "gain" [] OTHER -> "int_cfg"
         /\ op # "read" /\ Type = "sht35" =>
              /\ Len(Steps) = 3
              /\ Steps[s] = CASE s = 1 -> "break" [] s = 2 -> "serial_number"
                              [] OTHER -> "heater_off"
         /\ op # "read" /\ Type = "ds18b20" => Len(Steps) = 1 /\ Steps[s] = "scan"
         /\ op # "read" /\ Type = "yl69_fc28" =>
              /\ Len(Steps) = 2
              /\ Steps[s] = IF s = 1 THEN "pins" ELSE "power_off"
         /\ op = "read" /\ Type = "bme280" =>
              /\ Len(Steps) = 2
              /\ Steps[s] = IF s = 1 THEN "forced" ELSE "burst"
         /\ op = "read" /\ Type = "ltr390" =>
              /\ Len(Steps) = 7
              /\ Steps[s] = CASE s = 1 -> "als_active" [] s \in {2, 5} -> "ready"
                              [] s = 3 -> "als_data" [] s = 4 -> "uvs_active"
                              [] s = 6 -> "uvs_data" [] OTHER -> "als_standby"
         /\ op = "read" /\ Type = "sht35" =>
              /\ Len(Steps) = 2
              /\ Steps[s] = IF s = 1 THEN "single_shot" ELSE "fetch"
         /\ op = "read" /\ Type = "ds18b20" =>
              /\ Len(Steps) = 2
              /\ Steps[s] = IF s = 1 THEN "convert_temp" ELSE "read_temp"
         /\ op = "read" /\ Type = "yl69_fc28" =>
              /\ Len(Steps) = 4
              /\ Steps[s] = CASE s = 1 -> "power_on" [] s = 2 -> "samples" [] s = 3 -> "digital"
                              [] OTHER -> "power_off"
  <1>1. CASE Type = "bme280"
    BY <1>1 DEF Steps, InitSteps, Ltr390Init, ReadSteps, Transfers
  <1>2. CASE Type = "ltr390"
    BY <1>2 DEF Steps, InitSteps, Ltr390Init, ReadSteps, Transfers
  <1>3. CASE Type = "sht35"
    BY <1>3 DEF Steps, InitSteps, Ltr390Init, ReadSteps, Sht35Init, Transfers
  <1>4. CASE Type = "ds18b20"
    BY <1>4 DEF Steps, InitSteps, Ltr390Init, ReadSteps, Transfers
  <1>5. CASE Type = "yl69_fc28"
    BY <1>5 DEF Steps, InitSteps, Ltr390Init, ReadSteps, Transfers
  <1> QED BY <1>1, <1>2, <1>3, <1>4, <1>5 DEF KnownTypes, I2cTypes

\* The followed device is one of the list, whose type is known once it was accepted.
LEMMA FollowedKnown ==
  ASSUME CallTypeOK, Running
  PROVE  /\ Type \in KnownTypes /\ ValidDevice(Definition)
  <1>1. followed \in DOMAIN list /\ Accepted(list)
    BY DEF CallTypeOK, OnlyAccepted
  <1> QED BY <1>1, AcceptedDevice DEF Accepted, Type, Definition, KnownTypes

\* The device a step follows stays the same.
LEMMA BoardKept ==
  ASSUME UNCHANGED board
  PROVE  UNCHANGED <<list, followed, Definition, Type, Config, Needed>>
  BY DEF board, Definition, Type, Config, Needed

\* A transfer that reaches the chip takes the call's work one step further.
LEMMA TransferAdvances ==
  ASSUME CallTypeOK, ~ Idle, Untouched(chip), NEW c, c = Effect(Transfer, chip)
  PROVE  /\ c \in ChipType /\ Untouched(c)
         /\ op \in InitOps /\ SettingUp(step, chip) =>
              IF AtLastStep THEN SetUp(c) ELSE SettingUp(step + 1, c)
         /\ op = "read" /\ SetUp(chip) => SetUp(c)
         /\ op = "read" /\ ~ AtLastStep => Polled(step + 1, c)
         /\ AtLastStep => ~ c.powered
  <1>1. Type \in KnownTypes /\ step \in 1..Len(Steps) /\ op \in InitOps \cup {"read"}
        /\ chip \in ChipType /\ "read" \notin InitOps
    BY FollowedKnown DEF CallTypeOK, Idle, InitOps
  <1>2. Transfer \in Transfers /\ Transfer = Steps[step] /\ Len(Steps) \in Nat /\ step \in Nat
    BY <1>1, StepFacts DEF Transfer
  <1>3. Changes(Transfer, chip, c)
    BY <1>1, <1>2, EffectFacts
  <1> USE DEF Changes, Untouched, SetUp, SettingUp, Polled, AtLastStep, ChipModes, Registers
  <1>4. CASE Type = "bme280" /\ op # "read"
    <2>1. /\ step \in 1..7 /\ (AtLastStep <=> step = 7)
          /\ step = 5 => Transfer = "ctrl_hum"
          /\ step = 6 => Transfer = "config"
          /\ step = 7 => Transfer = "ctrl_meas"
          /\ step <= 4 => Transfer \in {"chip_id", "reset", "nvm", "calibration"}
      <3>1. Steps = <<"chip_id", "reset", "nvm", "calibration", "ctrl_hum", "config",
                      "ctrl_meas">>
        BY <1>4 DEF Steps, InitSteps, Ltr390Init
      <3> QED BY <1>1, <3>1 DEF Transfer
    <2>2. Untouched(c) /\ c \in ChipType /\ ~ c.powered
      BY <1>3, <1>4, <2>1
    <2>3. Needed = {"ctrl_hum", "config", "ctrl_meas"}
      BY <1>4 DEF Needed
    <2>4. SettingUp(step, chip) => IF AtLastStep THEN SetUp(c) ELSE SettingUp(step + 1, c)
      BY <1>3, <1>4, <2>1, <2>2, <2>3
    <2> QED BY <1>4, <2>2, <2>4
  <1>5. CASE Type = "ltr390" /\ op # "read"
    <2>1. /\ step \in 1..9 /\ (AtLastStep <=> step = 9)
          /\ step = 7 => Transfer = "meas_rate"
          /\ step = 8 => Transfer = "gain"
          /\ step = 9 => Transfer = "int_cfg"
          /\ step <= 6 => Transfer \in {"part_id", "als_standby", "als_data", "uvs_standby",
                                       "uvs_data"}
      <3>1. Steps = <<"part_id", "als_standby", "als_data", "uvs_standby", "uvs_data",
                      "als_standby", "meas_rate", "gain", "int_cfg">>
        BY <1>5 DEF Steps, InitSteps, Ltr390Init
      <3> QED BY <1>1, <3>1 DEF Transfer
    <2>2. Untouched(c) /\ c \in ChipType /\ ~ c.powered
      BY <1>3, <1>5, <2>1
    <2>3. Needed = {"meas_rate", "gain", "int_cfg"}
      BY <1>5 DEF Needed
    <2>4. SettingUp(step, chip) => IF AtLastStep THEN SetUp(c) ELSE SettingUp(step + 1, c)
      BY <1>3, <1>5, <2>1, <2>2, <2>3
    <2> QED BY <1>5, <2>2, <2>4
  <1>6. CASE Type = "sht35" /\ op # "read"
    <2>1. /\ step \in 1..3 /\ (AtLastStep <=> step = 3)
          /\ step = 1 => Transfer = "break"
          /\ step = 2 => Transfer = "serial_number"
          /\ step = 3 => Transfer = "heater_off"
      BY <1>1, <1>2, <1>6, StepFacts
    <2>2. Untouched(c) /\ c \in ChipType /\ ~ c.powered
      BY <1>3, <1>6, <2>1
    <2>3. Needed = {}
      BY <1>6 DEF Needed
    <2>4. SettingUp(step, chip) => IF AtLastStep THEN SetUp(c) ELSE SettingUp(step + 1, c)
      BY <1>3, <1>6, <2>1, <2>2, <2>3
    <2> QED BY <1>6, <2>2, <2>4
  <1>7. CASE Type = "ds18b20" /\ op # "read"
    BY <1>1, <1>2, <1>3, <1>7, StepFacts DEF Needed
  <1>8. CASE Type = "yl69_fc28" /\ op # "read"
    BY <1>1, <1>2, <1>3, <1>8, StepFacts DEF Needed
  <1>9. CASE Type = "bme280" /\ op = "read"
    BY <1>1, <1>2, <1>3, <1>9, StepFacts DEF Needed
  <1>10. CASE Type = "ltr390" /\ op = "read"
    <2>1. /\ step \in 1..7 /\ (AtLastStep <=> step = 7)
          /\ step = 1 => Transfer = "als_active"
          /\ step = 4 => Transfer = "uvs_active"
          /\ Transfer \in {"als_active", "ready", "als_data", "uvs_active", "uvs_data",
                           "als_standby"}
      <3>1. Steps = <<"als_active", "ready", "als_data", "uvs_active", "ready", "uvs_data",
                      "als_standby">>
        BY <1>10 DEF Steps, ReadSteps
      <3> QED BY <1>1, <3>1 DEF Transfer
    <2>2. Untouched(c) /\ c \in ChipType /\ ~ c.powered /\ c.set = chip.set
      BY <1>3, <1>10, <2>1
    <2>3. SetUp(chip) => SetUp(c)
      BY <1>10, <2>2 DEF Needed
    <2>4. ~ AtLastStep => Polled(step + 1, c)
      BY <1>3, <1>10, <2>1
    <2> QED BY <1>1, <1>10, <2>2, <2>3, <2>4
  <1>11. CASE Type = "sht35" /\ op = "read"
    BY <1>1, <1>2, <1>3, <1>11, StepFacts DEF Needed
  <1>12. CASE Type = "ds18b20" /\ op = "read"
    BY <1>1, <1>2, <1>3, <1>12, StepFacts DEF Needed
  <1>13. CASE Type = "yl69_fc28" /\ op = "read"
    <2>1. /\ step \in 1..4 /\ (AtLastStep <=> step = 4)
          /\ step = 4 => Transfer = "power_off"
          /\ Transfer \in {"power_on", "samples", "digital", "power_off"}
      <3>1. Steps = <<"power_on", "samples", "digital", "power_off">>
        BY <1>13 DEF Steps, ReadSteps
      <3> QED BY <1>1, <3>1 DEF Transfer
    <2>2. Untouched(c) /\ c \in ChipType /\ c.set = chip.set /\ (AtLastStep => ~ c.powered)
      BY <1>3, <1>13, <2>1
    <2> QED BY <1>1, <1>13, <2>2 DEF Needed
  <1> QED BY <1>1, <1>4, <1>5, <1>6, <1>7, <1>8, <1>9, <1>10, <1>11, <1>12, <1>13
      DEF KnownTypes, I2cTypes

-----------------------------------------------------------------------------
(* Steps of a call. *)

\* A record of a device whose failed reading was counted is one.
LEMMA CountedFailure ==
  ASSUME NEW r \in [failures : Nat, pending : BOOLEAN, logged : BOOLEAN],
         NEW due \in BOOLEAN
  PROVE  [[r EXCEPT !.failures = @ + 1] EXCEPT !.pending = due]
            \in [failures : Nat, pending : BOOLEAN, logged : BOOLEAN]
  <1>1. [r EXCEPT !.failures = @ + 1] \in [failures : Nat, pending : BOOLEAN, logged : BOOLEAN]
    <2>1. r.failures + 1 \in Nat
      OBVIOUS
    <2> QED BY <2>1
  <1> QED BY <1>1

\* What the manager's bookkeeping does to the followed device.
LEMMA Records ==
  ASSUME ManagerInv
  PROVE  /\ ReadSucceeds(Device) /\ Ready(Device) =>
              /\ failed' = failed /\ Ready(Device)'
              /\ managed' = [d \in DOMAIN managed' |-> managed'[d]]
              /\ managed'[Device] \in [failures : Nat, pending : BOOLEAN, logged : BOOLEAN]
         /\ ReadFails(Device) /\ Ready(Device) =>
              /\ failed' = failed /\ Device \in DOMAIN managed'
              /\ managed' = [d \in DOMAIN managed' |-> managed'[d]]
              /\ managed'[Device] \in [failures : Nat, pending : BOOLEAN, logged : BOOLEAN]
         /\ ReinitSucceeds(Device) /\ Device \in DOMAIN managed =>
              /\ failed' = failed /\ Device \in DOMAIN managed'
              /\ managed' = [d \in DOMAIN managed' |-> managed'[d]]
              /\ managed'[Device] = NewManaged
         /\ ReinitExhausted(Device) /\ Device \in DOMAIN managed /\ managed[Device].pending =>
              /\ failed' = failed /\ Device \in DOMAIN managed'
              /\ managed' = [d \in DOMAIN managed' |-> managed'[d]]
              /\ managed'[Device] \in [failures : Nat, pending : BOOLEAN, logged : BOOLEAN]
              /\ managed'[Device].pending
         /\ RecordSuccess(Device) =>
              /\ failed' = failed /\ Device \in DOMAIN managed'
              /\ managed' = [d \in DOMAIN managed' |-> managed'[d]]
              /\ managed'[Device] = NewManaged
         /\ RetrySucceeds(Device) =>
              /\ failed' = [d \in DOMAIN failed' |-> failed'[d]]
              /\ Device \in DOMAIN managed' /\ Device \notin DOMAIN failed'
              /\ managed' = [d \in DOMAIN managed' |-> managed'[d]]
              /\ managed'[Device] = NewManaged
         /\ RecordFailure(Device) =>
              managed' = managed /\ failed' = [d \in DOMAIN failed' |-> failed'[d]]
         /\ RetryFails(Device) =>
              managed' = managed /\ failed' = [d \in DOMAIN failed' |-> failed'[d]]
  <1> USE DEF ManagerInv, Ready, NewManaged
  <1>1. ReadSucceeds(Device) /\ Ready(Device) =>
              /\ failed' = failed /\ Ready(Device)'
              /\ managed' = [d \in DOMAIN managed' |-> managed'[d]]
              /\ managed'[Device] \in [failures : Nat, pending : BOOLEAN, logged : BOOLEAN]
    <2> SUFFICES ASSUME ReadSucceeds(Device), Ready(Device)
                 PROVE  /\ failed' = failed /\ Ready(Device)'
                        /\ managed' = [d \in DOMAIN managed' |-> managed'[d]]
                        /\ managed'[Device] \in
                             [failures : Nat, pending : BOOLEAN, logged : BOOLEAN]
      OBVIOUS
    <2>1. /\ failed' = failed /\ DOMAIN managed' = DOMAIN managed
          /\ managed' = [d \in DOMAIN managed' |-> managed'[d]]
          /\ managed'[Device] = [managed[Device] EXCEPT !.failures = 0]
      BY DEF ReadSucceeds
    <2> QED BY <2>1 DEF Device
  <1>2. ReadFails(Device) /\ Ready(Device) =>
              /\ failed' = failed /\ Device \in DOMAIN managed'
              /\ managed' = [d \in DOMAIN managed' |-> managed'[d]]
              /\ managed'[Device] \in [failures : Nat, pending : BOOLEAN, logged : BOOLEAN]
    <2> SUFFICES ASSUME ReadFails(Device), Ready(Device)
                 PROVE  /\ failed' = failed /\ Device \in DOMAIN managed'
                        /\ managed' = [d \in DOMAIN managed' |-> managed'[d]]
                        /\ managed'[Device] \in
                             [failures : Nat, pending : BOOLEAN, logged : BOOLEAN]
      OBVIOUS
    <2> DEFINE old == managed[Device]
               due == old.failures + 1 >= Threshold
    <2>1. /\ failed' = failed /\ DOMAIN managed' = DOMAIN managed
          /\ managed' = [d \in DOMAIN managed' |-> managed'[d]]
          /\ managed'[Device] =
               [[old EXCEPT !.failures = @ + 1] EXCEPT !.pending = due]
      BY DEF ReadFails
    <2>2. old \in [failures : Nat, pending : BOOLEAN, logged : BOOLEAN] /\ due \in BOOLEAN
      OBVIOUS
    <2> HIDE DEF old, due
    <2>3. [[old EXCEPT !.failures = @ + 1] EXCEPT !.pending = due]
             \in [failures : Nat, pending : BOOLEAN, logged : BOOLEAN]
      BY <2>2, CountedFailure
    <2> QED BY <2>1, <2>3
  <1>3. ReinitSucceeds(Device) /\ Device \in DOMAIN managed =>
              /\ failed' = failed /\ Device \in DOMAIN managed'
              /\ managed' = [d \in DOMAIN managed' |-> managed'[d]]
              /\ managed'[Device] = NewManaged
    BY DEF ReinitSucceeds
  <1>4. ReinitExhausted(Device) /\ Device \in DOMAIN managed /\ managed[Device].pending =>
              /\ failed' = failed /\ Device \in DOMAIN managed'
              /\ managed' = [d \in DOMAIN managed' |-> managed'[d]]
              /\ managed'[Device] \in [failures : Nat, pending : BOOLEAN, logged : BOOLEAN]
              /\ managed'[Device].pending
    BY DEF ReinitExhausted
  <1>5. RecordSuccess(Device) =>
              /\ failed' = failed /\ Device \in DOMAIN managed'
              /\ managed' = [d \in DOMAIN managed' |-> managed'[d]]
              /\ managed'[Device] = NewManaged
    BY DEF RecordSuccess, With
  <1>6. RetrySucceeds(Device) =>
              /\ failed' = [d \in DOMAIN failed' |-> failed'[d]]
              /\ Device \in DOMAIN managed' /\ Device \notin DOMAIN failed'
              /\ managed' = [d \in DOMAIN managed' |-> managed'[d]]
              /\ managed'[Device] = NewManaged
    BY DEF RetrySucceeds, With, Without
  <1>7. RecordFailure(Device) =>
              managed' = managed /\ failed' = [d \in DOMAIN failed' |-> failed'[d]]
    BY DEF RecordFailure, With
  <1>8. RetryFails(Device) =>
              managed' = managed /\ failed' = [d \in DOMAIN failed' |-> failed'[d]]
    BY DEF RetryFails
  <1> QED BY <1>1, <1>2, <1>3, <1>4, <1>5, <1>6, <1>7, <1>8

\* A call in which a driver is busy, and that leaves a chip behind.
InCall ==
    /\ CallInv
    /\ phase = "run" /\ ~ Idle
    /\ UNCHANGED board
    /\ chip' \in ChipType /\ Untouched(chip')

\* Core 1 follows the same device before and after a step of a call.
LEMMA InCallFacts ==
  ASSUME InCall
  PROVE  /\ list' = list /\ followed' = followed /\ Type' = Type /\ Needed' = Needed
         /\ OnlyAccepted' /\ followed' \in DOMAIN list' /\ Accepted(list)
         /\ Type \in KnownTypes /\ op \in InitOps \cup {"read"} /\ op \notin {"none"}
         /\ step \in 1..Len(Steps) /\ Len(Steps) \in Nat \ {0}
         /\ Untouched(chip)' /\ Config' = Config
  <1>1. /\ CallTypeOK /\ Running /\ list' = list /\ followed' = followed
        /\ Type' = Type /\ Needed' = Needed /\ Config' = Config
    BY BoardKept DEF InCall, CallInv, Running
  <1>2. Type \in KnownTypes
    BY <1>1, FollowedKnown
  <1>3. OnlyAccepted' /\ followed' \in DOMAIN list' /\ Accepted(list)
    BY <1>1 DEF CallTypeOK, OnlyAccepted
  <1>4. /\ op \in InitOps \cup {"read"} /\ op \notin {"none"} /\ step \in 1..Len(Steps)
    BY DEF InCall, CallInv, CallTypeOK, Idle, InitOps
  <1>5. Len(Steps) \in Nat \ {0}
    BY <1>2, <1>4, StepFacts
  <1>6. Untouched(chip)'
    BY <1>1 DEF InCall, Untouched
  <1> QED BY <1>1, <1>2, <1>3, <1>4, <1>5, <1>6

\* A call is begun at its first step.
LEMMA FirstStep ==
  ASSUME Type \in KnownTypes
  PROVE  1 \in 1..Len(Steps)
  BY DEF KnownTypes, I2cTypes, Steps, InitSteps, Ltr390Init, ReadSteps, Sht35Init

\* An exception that leaves a driver is counted, and does not leave the probe on.
LEMMA RaisesKeeps ==
  ASSUME InCall, Raises,
         op = "read" /\ SetUp(chip) => SetUp(chip'),
         Type = "yl69_fc28" => unswitched' \/ ~ chip'.powered
  PROVE  CallInv'
  <1> USE DEF InCall, CallInv
  <1>1. CASE op \in {"boot", "reinitialize"} /\ attempt < Attempts
    <2>1. /\ phase' \in {"run", "dead"} /\ op' = op /\ step' = 1 /\ raised' = FALSE
          /\ taken' = {} /\ damaged' = FALSE /\ driver' = "partial"
          /\ managed' = managed /\ failed' = failed
      BY <1>1 DEF Raises, Starts, deviceVars
    <2>2. 1 \in 1..Len(Steps)'
      <3>1. Steps' = Steps
        BY <2>1, InCallFacts DEF Steps
      <3> QED BY <3>1, InCallFacts, FirstStep
    <2>3. CallTypeOK'
      BY <1>1, <2>1, <2>2, InCallFacts DEF CallTypeOK, InitOps, Running, Idle
    <2>4. ManagerInv'
      BY <1>1, <2>1 DEF ManagerInv, Ready, FailedDevices, Device, Idle, InitOps
    <2>5. SetUpInv'
      BY <1>1, <2>1, InCallFacts DEF SetUpInv, SettingUp, ProbeOff, Idle, InitOps
    <2> QED BY <2>3, <2>4, <2>5
  <1>2. CASE ~ (op \in {"boot", "reinitialize"} /\ attempt < Attempts)
    <2>1. /\ GivesUp /\ phase' = phase /\ op' = "none" /\ step' = 1 /\ raised' = FALSE
          /\ taken' = {} /\ damaged' = FALSE /\ driver' = driver
      BY <1>2 DEF Raises, Returns
    <2>3. CallTypeOK'
      BY <2>1, InCallFacts DEF CallTypeOK, InitOps, Running, Idle
    <2>4. ManagerInv'
      BY <2>1, Records DEF GivesUp, ManagerInv, Ready, FailedDevices, Device, Idle, InitOps
    <2>5. Type # "yl69_fc28" => ~ chip'.powered
      BY DEF Untouched
    <2>6. driver = "ready" => SetUp(chip')
      BY InCallFacts DEF SetUpInv, ManagerInv, InitOps
    <2>7. SetUpInv'
      BY <2>1, <2>5, <2>6, InCallFacts DEF SetUpInv, SetUp, ProbeOff, Idle, InitOps
    <2> QED BY <2>3, <2>4, <2>7
  <1> QED BY <1>1, <1>2

\* A call that completes leaves what it promises.
LEMMA CompletesKeeps ==
  ASSUME InCall, Completes, ~ chip'.powered,
         op \in InitOps => SetUp(chip'),
         op = "read" /\ SetUp(chip) => SetUp(chip')
  PROVE  CallInv'
  <1> USE DEF InCall, CallInv
  <1>1. /\ op' = "none" /\ step' = 1 /\ raised' = FALSE /\ taken' = {} /\ damaged' = FALSE
        /\ phase' \in {"run", "dead"}
    BY DEF Completes, Returns, ReadReturns, InitReturns
  <1>2. CASE op = "read"
    <2>1. ReadSucceeds(Device) /\ Ready(Device) /\ driver' = driver /\ driver = "ready"
      BY <1>2 DEF Completes, ReadReturns, ManagerInv
    <2>2. CallTypeOK'
      BY <1>1, <2>1, InCallFacts DEF CallTypeOK, InitOps, Running, Idle
    <2>3. ManagerInv'
      BY <1>1, <2>1, Records DEF ManagerInv, Ready, FailedDevices, Device, Idle, InitOps
    <2>4. SetUp(chip')
      BY <1>2, <2>1 DEF SetUpInv
    <2>5. SetUpInv'
      BY <1>1, <2>4, InCallFacts DEF SetUpInv, SetUp, ProbeOff, Idle, InitOps
    <2> QED BY <2>2, <2>3, <2>5
  <1>3. CASE op # "read"
    <2>1. /\ driver' = "ready" /\ op \in InitOps /\ phase' = "run"
          /\ \/ op = "boot" /\ RecordSuccess(Device)
             \/ op = "reinitialize" /\ ReinitSucceeds(Device)
             \/ op = "retry" /\ RetrySucceeds(Device)
      BY <1>3, InCallFacts DEF Completes, InitReturns
    <2>2. CallTypeOK'
      BY <1>1, <2>1, InCallFacts DEF CallTypeOK, InitOps, Running, Idle
    <2>3. ManagerInv'
      <3>1. /\ Device \in DOMAIN managed' /\ managed'[Device] = NewManaged
            /\ managed' = [d \in DOMAIN managed' |-> managed'[d]]
            /\ failed' = [d \in DOMAIN failed' |-> failed'[d]]
            /\ Device \notin DOMAIN failed'
        BY <2>1, Records DEF ManagerInv, FailedDevices
      <3> QED BY <1>1, <2>1, <3>1 DEF ManagerInv, Ready, FailedDevices, Device, Idle, InitOps,
                                      NewManaged
    <2>4. SetUpInv'
      BY <1>1, <2>1, InCallFacts DEF SetUpInv, SetUp, ProbeOff, Idle, InitOps
    <2> QED BY <2>2, <2>3, <2>4
  <1> QED BY <1>2, <1>3

\* A call that goes on is one transfer further.
LEMMA ContinuesKeeps ==
  ASSUME InCall, Continues, ~ AtLastStep, UNCHANGED <<raised, damaged>>,
         op \in InitOps => SettingUp(step + 1, chip'),
         op = "read" => Polled(step + 1, chip'),
         op = "read" /\ SetUp(chip) => SetUp(chip')
  PROVE  CallInv'
  <1> USE DEF InCall, CallInv
  <1>1. /\ phase' = phase /\ op' = op /\ driver' = driver /\ step' = step + 1
        /\ managed' = managed /\ failed' = failed
        /\ raised' = raised /\ damaged' = damaged
    BY DEF Continues, deviceVars
  <1>2. taken' \subseteq Channels
    BY InCallFacts DEF Continues, CallTypeOK, ChipType
  <1>3. Steps' = Steps /\ step' \in 1..Len(Steps)
    BY <1>1, InCallFacts DEF Steps, AtLastStep
  <1>4. CallTypeOK'
    BY <1>1, <1>2, <1>3, InCallFacts DEF CallTypeOK, InitOps, Running, Idle
  <1>5. ManagerInv'
    BY <1>1, InCallFacts DEF ManagerInv, Ready, FailedDevices, Device, Idle, InitOps
  <1>6. driver = "ready" => SetUp(chip')
    BY InCallFacts DEF SetUpInv, ManagerInv, InitOps
  <1>7. /\ driver' = "ready" => SetUp(chip)'
        /\ op' \in InitOps => SettingUp(step, chip)'
        /\ op' = "read" => Polled(step, chip)'
    BY <1>1, <1>6, InCallFacts DEF SetUp, SettingUp, Polled
  <1>8. SetUpInv'
    BY <1>1, <1>7, InCallFacts DEF SetUpInv, ProbeOff, Idle
  <1> QED BY <1>4, <1>5, <1>8

\* A call begins where the last one has left the chip.
LEMMA CallBegins ==
  ASSUME CallInv, Boot \/ Read \/ Reinitialize \/ Retry
  PROVE  CallInv'
  <1> USE DEF CallInv
  <1>1. PICK reason \in InitOps \cup {"read"} :
           /\ Manages(reason)
           /\ reason = "boot" => phase = "build"
           /\ reason # "boot" => phase = "run"
           /\ reason = "read" => Ready(Device)
           /\ reason = "reinitialize" => Device \in DOMAIN managed /\ managed[Device].pending
           /\ reason = "retry" => Device \in FailedDevices
    <2>1. CASE Boot
      BY <2>1 DEF Boot, InitOps
    <2>2. CASE Read
      BY <2>2 DEF Read, InitOps
    <2>3. CASE Reinitialize
      BY <2>3 DEF Reinitialize, InitOps
    <2>4. CASE Retry
      BY <2>4 DEF Retry, InitOps
    <2> QED BY <2>1, <2>2, <2>3, <2>4
  <1>2. /\ Idle /\ phase \in {"build", "run"} /\ phase' \in {"run", "dead"}
        /\ phase' = "dead" => reason # "read"
        /\ op' = reason /\ step' = 1 /\ raised' = FALSE /\ taken' = {} /\ damaged' = FALSE
        /\ driver' = IF reason = "read" THEN driver ELSE "partial"
        /\ chip' = Forgets(chip) /\ UNCHANGED board
        /\ managed' = managed /\ failed' = failed
    BY <1>1 DEF Manages, Starts, deviceVars
  <1>3. /\ list' = list /\ followed' = followed /\ Type' = Type /\ Needed' = Needed
        /\ Type \in KnownTypes /\ OnlyAccepted'
    BY <1>2, BoardKept, FollowedKnown DEF Running, CallTypeOK, OnlyAccepted
  <1>4. chip' \in ChipType /\ chip'.set = chip.set /\ chip'.mode = chip.mode
        /\ chip'.powered = chip.powered
    BY <1>2 DEF Forgets, CallTypeOK, ChipType
  <1>5. 1 \in 1..Len(Steps)'
    <2>1. CASE reason = "read"
      BY <1>2, <1>3, <2>1 DEF Steps, ReadSteps, KnownTypes, I2cTypes
    <2>2. CASE reason # "read"
      BY <1>2, <1>3, <2>2 DEF Steps, InitSteps, Ltr390Init, Sht35Init, KnownTypes, I2cTypes
    <2> QED BY <2>1, <2>2
  <1>6. CallTypeOK'
    BY <1>2, <1>3, <1>4, <1>5 DEF CallTypeOK, InitOps, Running, Idle
  <1>7. ManagerInv'
    BY <1>1, <1>2 DEF ManagerInv, Ready, FailedDevices, Device, Idle, InitOps
  <1>8. SetUpInv'
    <2>1. Untouched(chip)' /\ (driver' = "ready" => SetUp(chip)')
      BY <1>2, <1>3, <1>4 DEF SetUpInv, Untouched, SetUp
    <2>2. SettingUp(step, chip)' /\ Polled(step, chip)'
      BY <1>2, <1>3 DEF SettingUp, Polled
    <2>3. ProbeOff'
      BY <1>1, <1>2 DEF ProbeOff, Idle, InitOps
    <2> QED BY <2>1, <2>2, <2>3 DEF SetUpInv
  <1> QED BY <1>6, <1>7, <1>8

\* What may fail of the probe, other than the samples: the write of its power line.
LEMMA ProbeFailure ==
  ASSUME CallTypeOK, ~ Idle, MayFail, Type = "yl69_fc28"
  PROVE  /\ FinallyPowersOff => op = "read" /\ ~ AtLastStep
         /\ ~ FinallyPowersOff => Switches
  <1>1. Type \in KnownTypes /\ step \in 1..Len(Steps) /\ op \in InitOps \cup {"read"}
        /\ "read" \notin InitOps
    BY FollowedKnown DEF CallTypeOK, Idle, InitOps
  <1>2. CASE op = "read"
    <2>1. Steps = <<"power_on", "samples", "digital", "power_off">>
      BY <1>2 DEF Steps, ReadSteps
    <2> QED BY <1>1, <1>2, <2>1 DEF MayFail, FinallyPowersOff, Switches, Transfer, AtLastStep
  <1>3. CASE op # "read"
    <2>1. Steps = <<"pins", "power_off">>
      BY <1>3 DEF Steps, InitSteps, Ltr390Init
    <2> QED BY <1>1, <1>3, <2>1 DEF MayFail, FinallyPowersOff, Switches, Transfer, AtLastStep
  <1> QED BY <1>2, <1>3

\* The probe is the one device with samples to take, and has no checksum.
LEMMA SoilTransfers ==
  ASSUME CallTypeOK, ~ Idle
  PROVE  /\ FinallyPowersOff => Type = "yl69_fc28" /\ op = "read"
         /\ Transfer \in Protected => Type # "yl69_fc28"
         /\ Transfer \in {"fetch", "read_temp"} => op = "read" /\ AtLastStep
  <1>1. Type \in KnownTypes /\ step \in 1..Len(Steps)
    BY FollowedKnown DEF CallTypeOK, Idle
  <1> USE DEF FinallyPowersOff, Protected, Transfer, AtLastStep, Steps, InitSteps, Ltr390Init, ReadSteps
  <1>2. CASE Type = "bme280"
    BY <1>1, <1>2
  <1>3. CASE Type = "ltr390"
    BY <1>1, <1>3
  <1>4. CASE Type = "sht35"
    BY <1>1, <1>4 DEF Sht35Init
  <1>5. CASE Type = "ds18b20"
    BY <1>1, <1>5
  <1>6. CASE Type = "yl69_fc28"
    BY <1>1, <1>6
  <1> QED BY <1>1, <1>2, <1>3, <1>4, <1>5, <1>6 DEF KnownTypes, I2cTypes

\* A transfer, however it ends, keeps what calls rely on.
LEMMA TransferKeeps ==
  ASSUME CallInv, TransferArrives \/ TransferFails \/ TransferDamaged
  PROVE  CallInv'
  <1> DEFINE c == Effect(Transfer, chip)
  <1>1. /\ phase = "run" /\ ~ Idle /\ UNCHANGED board /\ CallTypeOK /\ Untouched(chip)
        /\ chip' \in {chip, c} /\ chip \in ChipType
    BY DEF TransferArrives, TransferFails, TransferDamaged, Calling, CallInv, SetUpInv,
           CallTypeOK
  <1>2. /\ c \in ChipType /\ Untouched(c)
        /\ op \in InitOps /\ SettingUp(step, chip) =>
             IF AtLastStep THEN SetUp(c) ELSE SettingUp(step + 1, c)
        /\ op = "read" /\ SetUp(chip) => SetUp(c)
        /\ op = "read" /\ ~ AtLastStep => Polled(step + 1, c)
        /\ AtLastStep => ~ c.powered
    BY <1>1, TransferAdvances
  <1> HIDE DEF c
  <1>3. InCall
    BY <1>1, <1>2 DEF InCall
  <1>4. op \in InitOps => SettingUp(step, chip)
    BY DEF CallInv, SetUpInv
  <1>5. op = "read" /\ SetUp(chip) => SetUp(chip')
    BY <1>1, <1>2
  <1>6. CASE TransferArrives
    <2>1. chip' = c
      BY <1>6 DEF TransferArrives, c
    <2>2. CASE ~ AtLastStep
      BY <1>2, <1>3, <1>4, <1>5, <1>6, <2>1, <2>2, ContinuesKeeps DEF TransferArrives
    <2>3. CASE AtLastStep /\ raised
      BY <1>2, <1>3, <1>5, <1>6, <2>1, <2>3, RaisesKeeps DEF TransferArrives
    <2>4. CASE AtLastStep /\ ~ raised
      BY <1>2, <1>3, <1>4, <1>5, <1>6, <2>1, <2>4, CompletesKeeps DEF TransferArrives
    <2> QED BY <2>2, <2>3, <2>4
  <1>7. CASE TransferFails
    <2>1. MayFail /\ unswitched' = (unswitched \/ Switches)
      BY <1>7 DEF TransferFails
    <2>2. CASE FinallyPowersOff
      <3>1. /\ managed' = managed /\ failed' = failed /\ phase' = phase /\ op' = op
            /\ driver' = driver /\ taken' = taken /\ damaged' = damaged
            /\ step' = Len(Steps) /\ raised' = TRUE
        BY <1>7, <2>2 DEF TransferFails, deviceVars
      <3>2. Type = "yl69_fc28" /\ op = "read"
        BY <1>1, <2>2, SoilTransfers
      <3>3. CallTypeOK'
        <4>1. Steps' = Steps /\ step' \in 1..Len(Steps)
          BY <1>3, <3>1, InCallFacts DEF Steps
        <4> QED BY <1>1, <1>3, <3>1, <4>1, InCallFacts DEF CallTypeOK, InCall, Running, Idle
      <3>4. ManagerInv'
        BY <1>1, <3>1, <3>2
        DEF CallInv, ManagerInv, Ready, FailedDevices, Device, Idle, InitOps
      <3>5. driver = "ready" => SetUp(chip')
        BY <1>5, <3>2 DEF CallInv, SetUpInv
      <3>6. SetUpInv'
        BY <1>1, <1>3, <3>1, <3>2, <3>5, InCallFacts
        DEF SetUpInv, SetUp, Polled, ProbeOff, Idle, InitOps
      <3> QED BY <3>3, <3>4, <3>6 DEF CallInv
    <2>3. CASE ~ FinallyPowersOff
      <3>1. Raises
        BY <1>7, <2>3 DEF TransferFails
      <3>2. Type = "yl69_fc28" => unswitched'
        BY <1>1, <2>1, <2>3, ProbeFailure
      <3> QED BY <1>3, <1>5, <3>1, <3>2, RaisesKeeps
    <2> QED BY <2>2, <2>3
  <1>8. CASE TransferDamaged
    <2>1. Transfer \in Protected /\ Raises
      BY <1>8 DEF TransferDamaged, Verified
    <2>2. Type # "yl69_fc28"
      BY <1>1, <2>1, SoilTransfers
    <2> QED BY <1>3, <1>5, <2>1, <2>2, RaisesKeeps
  <1> QED BY <1>6, <1>7, <1>8

\* What calls rely on is there before the first call, and kept by every step.
LEMMA CallsKept == CallInv /\ [Next]_vars => CallInv'
  <1> SUFFICES ASSUME CallInv, [Next]_vars
               PROVE  CallInv'
    OBVIOUS
  <1>0. OnlyAccepted'
    BY NextAccepted DEF CallInv, CallTypeOK
  <1>1. CASE Validate
    <2>1. /\ phase = "validate" /\ phase' \in {"build", "rejected"}
          /\ UNCHANGED <<managed, failed, list, followed, call, chip, unswitched>>
      BY <1>1 DEF Validate, deviceVars, board
    <2>2. Type' = Type /\ Needed' = Needed
      BY <2>1, BoardKept DEF board
    <2> QED BY <1>0, <2>1, <2>2
        DEF call, CallInv, CallTypeOK, ManagerInv, SetUpInv, Untouched, ProbeOff, Idle, InitOps,
            Ready, FailedDevices, Device
  <1>2. CASE CreateDevice
    <2>1. /\ phase = "build" /\ phase' \in {"build", "dead"}
          /\ UNCHANGED <<managed, failed, list, followed, call, chip, unswitched>>
      BY <1>2 DEF CreateDevice, BuildsOnBus, deviceVars, board
    <2>2. Type' = Type /\ Needed' = Needed
      BY <2>1, BoardKept DEF board
    <2> QED BY <1>0, <2>1, <2>2
        DEF call, CallInv, CallTypeOK, ManagerInv, SetUpInv, Untouched, ProbeOff, Idle, InitOps,
            Ready, FailedDevices, Device
  <1>3. CASE Boot \/ Read \/ Reinitialize \/ Retry
    BY <1>3, CallBegins
  <1>4. CASE TransferArrives \/ TransferFails \/ TransferDamaged
    BY <1>4, TransferKeeps
  <1>5. CASE Convert
    <2>1. /\ phase = "run" /\ chip.mode \in {"als_active", "uvs_active"}
          /\ chip' = [chip EXCEPT !.ready = @ \cup {ChannelOf(chip.mode)},
                                  !.fresh = IF op = "read" THEN @ \cup {ChannelOf(chip.mode)}
                                            ELSE @]
          /\ UNCHANGED <<managed, failed, list, followed, phase, driver, op, step, raised, taken,
                         damaged, unswitched>>
      BY <1>5 DEF Convert, deviceVars, board, build
    <2>2. /\ chip \in ChipType /\ ChannelOf(chip.mode) \in Channels
      BY <2>1 DEF CallInv, CallTypeOK, ChannelOf, Channels
    <2>3. /\ chip' \in ChipType /\ chip'.set = chip.set /\ chip'.mode = chip.mode
          /\ chip'.powered = chip.powered
      BY <2>1, <2>2 DEF ChipType
    <2>4. Type' = Type /\ Needed' = Needed /\ Steps' = Steps
      BY <2>1, BoardKept DEF board, Steps
    <2>5. CallTypeOK'
      BY <1>0, <2>1, <2>3, <2>4 DEF CallInv, CallTypeOK, Idle, Running
    <2>6. ManagerInv'
      BY <2>1 DEF CallInv, ManagerInv, Idle, Ready, FailedDevices, Device
    <2>7. SetUpInv'
      BY <2>1, <2>3, <2>4
      DEF CallInv, SetUpInv, Untouched, SetUp, SettingUp, Polled, ProbeOff, Idle
    <2> QED BY <2>5, <2>6, <2>7 DEF CallInv
  <1>6. CASE BoardReset
    <2>1. /\ phase' = "build" /\ driver' = "none" /\ op' = "none" /\ step' = 1
          /\ raised' = FALSE /\ taken' = {} /\ damaged' = FALSE
          /\ managed' = [d \in {} |-> NewManaged] /\ failed' = [d \in {} |-> FALSE]
          /\ UNCHANGED <<list, followed>>
      BY <1>6 DEF BoardReset, Returns, DeviceReset, board
    <2>2. PICK on \in BOOLEAN : /\ Type # "yl69_fc28" => on = FALSE
                                /\ chip' = [Forgets(chip) EXCEPT !.powered = on]
      BY <1>6 DEF BoardReset
    <2>3. chip' \in ChipType /\ chip'.set = chip.set /\ chip'.powered = on
      BY <2>2 DEF Forgets, CallInv, CallTypeOK, ChipType
    <2>4. Type' = Type
      BY <2>1, BoardKept DEF board
    <2>5. CallTypeOK'
      BY <1>0, <2>1, <2>3 DEF CallInv, CallTypeOK, Idle
    <2>6. ManagerInv'
      BY <2>1 DEF ManagerInv, Idle, Ready, FailedDevices, InitOps
    <2>7. SetUpInv'
      BY <2>1, <2>2, <2>3, <2>4
      DEF CallInv, SetUpInv, Untouched, ProbeOff, Idle, InitOps
    <2> QED BY <2>5, <2>6, <2>7 DEF CallInv
  <1>7. CASE UNCHANGED vars
    <2>1. /\ UNCHANGED <<managed, failed, list, followed, phase, call, chip, unswitched>>
      BY <1>7 DEF vars, deviceVars, board, build
    <2>2. Type' = Type /\ Needed' = Needed /\ Steps' = Steps
      BY <2>1, BoardKept DEF board, Steps, call
    <2>3. CallTypeOK'
      BY <1>0, <2>1, <2>2 DEF call, CallInv, CallTypeOK, Idle, Running
    <2>4. ManagerInv'
      BY <2>1 DEF call, CallInv, ManagerInv, Idle, Ready, FailedDevices, Device
    <2>5. SetUpInv'
      BY <2>1, <2>2
      DEF call, CallInv, SetUpInv, Untouched, SetUp, SettingUp, Polled, ProbeOff, Idle
    <2> QED BY <2>3, <2>4, <2>5 DEF CallInv
  <1> QED BY <1>1, <1>2, <1>3, <1>4, <1>5, <1>6, <1>7 DEF Next

\* Core 1 starts with no call running, whatever the chip was left in.
LEMMA InitCalls == Init => CallInv
  <1> SUFFICES ASSUME Init
               PROVE  CallInv
    OBVIOUS
  <1>1. /\ OnlyAccepted /\ followed \in DOMAIN list
        /\ op = "none" /\ driver = "none" /\ raised = FALSE /\ taken = {} /\ damaged = FALSE
        /\ phase = "validate" /\ managed = [d \in {} |-> NewManaged]
        /\ failed = [d \in {} |-> FALSE] /\ chip \in FoundChips(Type)
    BY InitAccepted DEF Init, DeviceInit
  <1>2. /\ chip \in ChipType /\ ~ chip.powered
        /\ Type # "sht35" => "heater" \notin chip.set
    <2>1. PICK mode \in ChipModes, ready \in SUBSET Channels, set \in SUBSET Registers :
             chip = Chip(mode, ready, set) /\ (Type # "sht35" => "heater" \notin set)
      <3> USE DEF ChipModes, Channels, Registers
      <3>1. CASE Type = "ltr390"
        BY <1>1, <3>1 DEF FoundChips
      <3>2. CASE Type = "sht35"
        BY <1>1, <3>2 DEF FoundChips
      <3>3. CASE Type = "bme280"
        BY <1>1, <3>3 DEF FoundChips
      <3>4. CASE Type \notin {"ltr390", "sht35", "bme280"}
        BY <1>1, <3>4 DEF FoundChips
      <3> QED BY <3>1, <3>2, <3>3, <3>4
    <2> QED BY <2>1 DEF Chip, ChipType
  <1>3. CallTypeOK
    BY <1>1, <1>2 DEF CallTypeOK, Idle
  <1>4. ManagerInv
    BY <1>1 DEF ManagerInv, Idle, Ready, FailedDevices, InitOps
  <1>5. SetUpInv
    BY <1>1, <1>2 DEF SetUpInv, Untouched, ProbeOff, InitOps
  <1> QED BY <1>3, <1>4, <1>5 DEF CallInv

\* The calls of every device find what they rely on: the manager reads only a device whose
\* initialization completed, and no failed call undoes what that one set up.
THEOREM CallsRelyOn == Spec => []CallInv
  BY InitCalls, CallsKept, PTL DEF Spec

\* The probe's current is off between two calls, on every path out of one, unless the power
\* line could not be written (Yl69Fc28.read's finally).
THEOREM ProbeIsOff == Spec => []ProbeOff
  <1>1. CallInv => ProbeOff
    BY DEF CallInv, SetUpInv
  <1> QED BY <1>1, CallsRelyOn, PTL

\* No chip refuses a transfer because of where an earlier call, or a user before the reset,
\* left it: an SHT35 is stopped before it is spoken to and an LTR390 polled only for the
\* channel it converts.
THEOREM ChipsAnswer == Spec => []ChipAnswers
  <1>1. CallInv => ChipAnswers
    <2> SUFFICES ASSUME CallInv, phase = "run", ~ Idle
                 PROVE  ~ Refuses(Transfer, chip)
      BY DEF ChipAnswers
    <2>1. /\ CallTypeOK /\ Type \in KnownTypes /\ step \in 1..Len(Steps)
          /\ op \in InitOps \cup {"read"} /\ "read" \notin InitOps
      BY FollowedKnown DEF CallInv, CallTypeOK, Idle, InitOps, Running
    <2>2. /\ op \in InitOps => SettingUp(step, chip)
          /\ op = "read" => Polled(step, chip) /\ SetUp(chip)
      BY DEF CallInv, SetUpInv, ManagerInv
    <2> USE DEF Refuses, Transfer, Steps, InitSteps, Ltr390Init, ReadSteps
    <2>3. CASE Type = "bme280"
      BY <2>1, <2>3
    <2>4. CASE Type = "ltr390"
      BY <2>1, <2>2, <2>4 DEF Polled
    <2>5. CASE Type = "sht35"
      BY <2>1, <2>2, <2>5 DEF SettingUp, SetUp, Sht35Init
    <2>6. CASE Type = "ds18b20"
      BY <2>1, <2>6
    <2>7. CASE Type = "yl69_fc28"
      BY <2>1, <2>7
    <2> QED BY <2>1, <2>3, <2>4, <2>5, <2>6, <2>7 DEF KnownTypes, I2cTypes
  <1> QED BY <1>1, CallsRelyOn, PTL

-----------------------------------------------------------------------------
(* What a reading publishes. *)

\* What validation says of the devices whose values depend on their configuration.
LEMMA SampledConfig ==
  ASSUME CallTypeOK, Running
  PROVE  /\ Type = "bme280" => Reported(Config.oversampling) = Config.oversampling
         /\ Type = "ds18b20" => Get(Config.conversion_ms, MinConversion) >= MinConversion
  <1>1. ValidDevice(Definition)
    BY FollowedKnown
  <1>2. CASE Type = "bme280"
    BY <1>1, <1>2 DEF ValidDevice, ValidI2c, ValidOversampling, Reported, Config, Type, I2cTypes
  <1>3. CASE Type = "ds18b20"
    <2>1. Get(Config.conversion_ms, MinConversion) \in MinConversion .. MaxConversion
      BY <1>1, <1>3 DEF ValidDevice, ValidOneWire, ValidConversion, Config, Type, I2cTypes
    <2> QED BY <1>3, <2>1 DEF MinConversion, MaxConversion
  <1> QED BY <1>2, <1>3

\* A transfer that arrives during a reading brings what the next step counts on, and the
\* last one completes what is published.
LEMMA ReadingAdvances ==
  ASSUME CallInv, op = "read", TransferArrives,
         Collected(step, chip, taken, raised), NEW got,
         got = taken \cup (Brings(Transfer) \cap chip'.fresh)
  PROVE  /\ ~ AtLastStep => Collected(step + 1, chip', got, raised)
         /\ AtLastStep /\ ~ raised =>
              (Type = "ltr390" /\ spoiled) \/ Measured \subseteq got
  <1>1. /\ CallTypeOK /\ phase = "run" /\ Running /\ Type \in KnownTypes
        /\ step \in 1..Len(Steps) /\ chip \in ChipType
    BY FollowedKnown DEF CallInv, CallTypeOK, TransferArrives, Calling, Idle, Running
  <1>2. Transfer \in Transfers
    BY <1>1, StepFacts DEF Transfer
  <1>3. Changes(Transfer, chip, chip')
    BY <1>1, <1>2, EffectFacts DEF TransferArrives
  <1>4. Transfer = "ready" => ChannelOf(chip.mode) \in chip.ready
    BY DEF TransferArrives
  <1>5. Polled(step, chip)
    BY DEF CallInv, SetUpInv
  <1> USE DEF Collected, AtLastStep, Brings, Measured
  <1>6. CASE Type \in {"bme280", "sht35"}
    <2>1. /\ Len(Steps) = 2 /\ step \in 1..2
          /\ step = 1 => Transfer \in {"forced", "single_shot"}
          /\ step = 2 => Transfer \in {"burst", "fetch"}
      BY <1>1, <1>6 DEF Transfer, Steps, ReadSteps
    <2>2. step = 1 => "main" \in chip'.fresh
      BY <1>3, <2>1 DEF Changes
    <2>3. chip.fresh \subseteq chip'.fresh
      BY <1>3 DEF Changes
    <2> QED BY <1>6, <2>1, <2>2, <2>3
  <1>7. CASE Type = "ds18b20"
    <2>1. /\ Len(Steps) = 2 /\ step \in 1..2
          /\ step = 1 => Transfer = "convert_temp"
          /\ step = 2 => Transfer = "read_temp"
      BY <1>1, <1>7 DEF Transfer, Steps, ReadSteps
    <2>2. step = 1 => "main" \in chip'.fresh
      BY <1>1, <1>3, <1>7, <2>1, SampledConfig DEF Changes
    <2>3. chip.fresh \subseteq chip'.fresh
      BY <1>3 DEF Changes
    <2> QED BY <1>7, <2>1, <2>2, <2>3
  <1>8. CASE Type = "yl69_fc28"
    <2>1. /\ Len(Steps) = 4 /\ step \in 1..4
          /\ step = 2 => Transfer = "samples"
      BY <1>1, <1>8 DEF Transfer, Steps, ReadSteps
    <2>2. step = 2 => "main" \in chip'.fresh
      BY <1>3, <2>1 DEF Changes
    <2>3. step = 2 => "main" \in got
      BY <2>1, <2>2
    <2> QED BY <1>8, <2>1, <2>3
  <1>9. CASE Type = "ltr390"
    <2>1. Steps = <<"als_active", "ready", "als_data", "uvs_active", "ready", "uvs_data",
                    "als_standby">>
      BY <1>9 DEF Steps, ReadSteps
    <2>2. step \in 1..7 /\ (AtLastStep <=> step = 7)
      BY <1>1, <2>1
    <2>3. /\ step = 1 => Transfer = "als_active"
          /\ step = 2 => Transfer = "ready"
          /\ step = 3 => Transfer = "als_data"
          /\ step = 4 => Transfer = "uvs_active"
          /\ step = 5 => Transfer = "ready"
          /\ step = 6 => Transfer = "uvs_data"
          /\ step = 7 => Transfer = "als_standby"
      BY <1>1, <2>1 DEF Transfer
    <2>4. chip.fresh \subseteq chip'.fresh
      BY <1>3 DEF Changes
    <2>5. chip'.ready \subseteq chip.ready
      BY <1>3 DEF Changes
    <2>6. /\ ~ spoiled /\ step = 2 => "als" \in chip.fresh
          /\ ~ spoiled /\ step = 5 => "uvs" \in chip.fresh
      BY <1>4, <1>5, <1>9, <2>3 DEF Polled, ChannelOf
    <2>7. /\ ~ spoiled /\ step = 3 => "als" \in got
          /\ ~ spoiled /\ step = 6 => "uvs" \in got
      BY <1>9, <2>3, <2>4
    <2>8. taken \subseteq got
      OBVIOUS
    <2> QED BY <1>9, <2>2, <2>4, <2>5, <2>6, <2>7, <2>8
  <1> QED BY <1>1, <1>6, <1>7, <1>8, <1>9 DEF KnownTypes, I2cTypes

\* A transfer that arrives takes the chip's data-ready as far as the call's next step
\* counts on, and the last one leaves none.
LEMMA ReadyAdvances ==
  ASSUME CallInv, TransferArrives
  PROVE  /\ op \in InitOps /\ Clearing(step, chip) =>
              IF AtLastStep THEN Drained(chip') ELSE Clearing(step + 1, chip')
         /\ op = "read" /\ Draining(step, chip) =>
              IF AtLastStep THEN Drained(chip') ELSE Draining(step + 1, chip')
  <1> SUFFICES ASSUME Type = "ltr390"
               PROVE  /\ op \in InitOps /\ Clearing(step, chip) =>
                           IF AtLastStep THEN Drained(chip') ELSE Clearing(step + 1, chip')
                      /\ op = "read" /\ Draining(step, chip) =>
                           IF AtLastStep THEN Drained(chip') ELSE Draining(step + 1, chip')
    BY DEF Clearing, Draining, Drained
  <1>1. /\ CallTypeOK /\ Type \in KnownTypes /\ step \in 1..Len(Steps) /\ chip \in ChipType
    BY FollowedKnown DEF CallInv, CallTypeOK, TransferArrives, Calling, Idle, Running
  <1>2. Changes(Transfer, chip, chip')
    BY <1>1, StepFacts, EffectFacts DEF TransferArrives, Transfer
  <1> USE DEF Clearing, Draining, Drained, AtLastStep
  <1>3. CASE op \in InitOps
    <2>1. Steps = <<"part_id", "als_standby", "als_data", "uvs_standby", "uvs_data",
                    "als_standby", "meas_rate", "gain", "int_cfg">>
      BY <1>3 DEF Steps, InitSteps, Ltr390Init, InitOps
    <2>2. step \in 1..9 /\ (AtLastStep <=> step = 9)
      BY <1>1, <2>1
    <2>3. /\ step = 1 => Transfer = "part_id"
          /\ step = 2 => Transfer = "als_standby"
          /\ step = 3 => Transfer = "als_data"
          /\ step = 4 => Transfer = "uvs_standby"
          /\ step = 5 => Transfer = "uvs_data"
          /\ step = 6 => Transfer = "als_standby"
          /\ step \in 7..9 => Transfer \in {"meas_rate", "gain", "int_cfg"}
      BY <1>1, <2>1 DEF Transfer
    <2>4. /\ step \in {2, 4, 6} => chip'.mode \in {"als_standby", "uvs_standby"}
          /\ step \in {1, 3, 5, 7, 8, 9} => chip'.mode = chip.mode
          /\ step = 3 => "als" \notin chip'.ready
          /\ step = 5 => "uvs" \notin chip'.ready
          /\ chip'.ready \subseteq chip.ready
      BY <1>2, <2>2, <2>3 DEF Changes, ChipModes
    <2> QED BY <1>3, <2>2, <2>4 DEF InitOps
  <1>4. CASE op = "read"
    <2>1. Steps = <<"als_active", "ready", "als_data", "uvs_active", "ready", "uvs_data",
                    "als_standby">>
      BY <1>4 DEF Steps, ReadSteps
    <2>2. step \in 1..7 /\ (AtLastStep <=> step = 7)
      BY <1>1, <2>1
    <2>3. /\ step = 3 => Transfer = "als_data"
          /\ step = 6 => Transfer = "uvs_data"
          /\ step = 7 => Transfer = "als_standby"
      BY <1>1, <2>1 DEF Transfer
    <2>4. /\ step = 3 => "als" \notin chip'.ready
          /\ step = 6 => "uvs" \notin chip'.ready
          /\ step = 7 => chip'.mode \in {"als_standby", "uvs_standby"}
          /\ chip'.ready \subseteq chip.ready
      BY <1>2, <2>2, <2>3 DEF Changes, ChipModes
    <2> QED BY <1>4, <2>2, <2>4 DEF InitOps
  <1> QED BY <1>3, <1>4

\* The registers that a reading at a late step is done with.
LEMMA PassedChannels ==
  ASSUME CallInv, op = "read", Type = "ltr390"
  PROVE  /\ step >= 4 => "als" \in Passed
         /\ step >= 7 => "uvs" \in Passed
  <1>1. Steps = <<"als_active", "ready", "als_data", "uvs_active", "ready", "uvs_data",
                  "als_standby">>
    BY DEF Steps, ReadSteps
  <1>2. step \in 1..7
    BY <1>1 DEF CallInv, CallTypeOK, Idle
  <1>3. "als" \in Brings(Steps[3]) /\ "uvs" \in Brings(Steps[6])
    BY <1>1 DEF Brings
  <1>4. step >= 4 => 3 \in 1 .. step - 1
    BY <1>2
  <1>5. step >= 7 => 6 \in 1 .. step - 1
    BY <1>2
  <1> QED BY <1>3, <1>4, <1>5 DEF Passed

\* What an exception leaves is a call that starts anew, or none; a reading that it ended is
\* remembered.
LEMMA RaisesForgets ==
  ASSUME CallInv, op # "none", Raises, ReadingInv
  PROVE  /\ sample' = sample /\ raised' = FALSE
         /\ op' # "read" /\ ReadyInv'
  <1>1. /\ op \in InitOps \cup {"read"} /\ spoiled' = (spoiled \/ op = "read") /\ left' = FALSE
        /\ sample' = sample /\ raised' = FALSE /\ spoiled' \in BOOLEAN
    BY DEF Raises, Starts, Returns, CallInv, CallTypeOK, ReadingInv, ReadyInv
  <1>2. CASE op \in {"boot", "reinitialize"} /\ attempt < Attempts
    <2>1. Starts(op)
      BY <1>2 DEF Raises
    <2>2. op' = op /\ step' = 1
      BY <2>1 DEF Starts
    <2>3. op' \in InitOps /\ op' # "read" /\ op' # "none"
      BY <1>2, <2>2 DEF InitOps
    <2>4. Clearing(step, chip)'
      BY <2>2 DEF Clearing
    <2>5. left' \in BOOLEAN
      BY <1>1
    <2> QED BY <1>1, <2>3, <2>4, <2>5 DEF ReadyInv
  <1>3. CASE ~ (op \in {"boot", "reinitialize"} /\ attempt < Attempts)
    <2>1. op' = "none" /\ driver' = driver
      BY <1>3 DEF Raises, Returns
    <2>2. op # "read" => driver = "partial"
      BY <1>1 DEF CallInv, ManagerInv
    <2> QED BY <1>1, <2>1, <2>2 DEF ReadyInv, InitOps
  <1> QED BY <1>2, <1>3

\* What the published sample needs is in hand at every step of a reading.
LEMMA ReadingKept ==
  ASSUME CallInv, CallInv', ReadingInv, [Next]_vars
  PROVE  ReadingInv'
  <1> USE DEF ReadingInv
  <1>1. CASE Validate \/ CreateDevice \/ UNCHANGED vars
    <2>1. UNCHANGED <<list, followed, driver, op, step, raised, taken, left, chip, spoiled, sample>>
      BY <1>1 DEF Validate, CreateDevice, vars, board, call
    <2>2. Type' = Type
      BY <2>1, BoardKept DEF board
    <2> QED BY <2>1, <2>2 DEF Collected, ReadyInv, Clearing, Draining, Drained, Idle, SampleSound
  <1>2. CASE Boot \/ Read \/ Reinitialize \/ Retry
    <2>1. PICK reason \in InitOps \cup {"read"} : Manages(reason)
      BY <1>2 DEF Boot, Read, Reinitialize, Retry, InitOps
    <2>2. /\ op = "none" /\ op' = reason /\ raised' = FALSE /\ step' = 1 /\ left' = FALSE
          /\ UNCHANGED <<list, followed, spoiled, sample>> /\ chip' = Forgets(chip)
          /\ reason = "read" => driver' = driver
      BY <2>1 DEF Manages, Starts, Idle, board
    <2>3. Type' = Type
      BY <2>2, BoardKept DEF board
    <2>4. reason = "read" /\ ~ spoiled => Drained(chip)
      BY <2>2 DEF ReadyInv, CallInv, ManagerInv
    <2>5. chip'.ready = chip.ready
      BY <2>2 DEF Forgets, CallInv, CallTypeOK, ChipType
    <2>6. op' = "read" => Collected(step, chip, taken, raised)'
      BY <2>2, <2>3, <2>4, <2>5 DEF Collected, Drained
    <2>7. Clearing(step, chip)' /\ Draining(step, chip)'
      BY <2>2 DEF Clearing, Draining
    <2>8. left' \in BOOLEAN /\ spoiled' \in BOOLEAN /\ op' # "none"
      BY <2>1, <2>2 DEF ReadyInv, InitOps
    <2>9. ReadyInv'
      BY <2>7, <2>8 DEF ReadyInv
    <2> QED BY <2>2, <2>6, <2>9 DEF Idle, SampleSound
  <1>3. CASE TransferArrives
    <2>1. /\ UNCHANGED <<list, followed>> /\ op # "none" /\ Running /\ CallTypeOK
      BY <1>3 DEF TransferArrives, Calling, Idle, board, Running, CallInv
    <2>2. Type' = Type
      BY <2>1, BoardKept DEF board
    <2> DEFINE got == taken \cup (Brings(Transfer) \cap chip'.fresh)
    <2>3. op = "read" => /\ ~ AtLastStep => Collected(step + 1, chip', got, raised)
                         /\ AtLastStep /\ ~ raised =>
                              (Type = "ltr390" /\ spoiled) \/ Measured \subseteq got
      BY <1>3, ReadingAdvances
    <2>4. CASE ~ AtLastStep
      <3>1. /\ op' = op /\ step' = step + 1 /\ raised' = raised /\ taken' = got
            /\ UNCHANGED <<driver, left, spoiled, sample>>
        BY <1>3, <2>4 DEF TransferArrives, Continues
      <3>2. ~ raised
        <4>1. raised => Len(Steps) = 4 /\ step = 4
          BY <2>1 DEF Idle, Steps, ReadSteps
        <4> QED BY <2>4, <4>1 DEF AtLastStep, CallInv, CallTypeOK
      <3> HIDE DEF got
      <3>3. op' = "read" => Collected(step, chip, taken, raised)'
        BY <2>2, <2>3, <2>4, <3>1 DEF Collected
      <3>4. /\ op \in InitOps => Clearing(step + 1, chip')
            /\ op = "read" /\ ~ left => Draining(step + 1, chip')
        BY <1>3, <2>4, ReadyAdvances DEF ReadyInv
      <3>5. ReadyInv'
        BY <2>1, <2>2, <3>1, <3>4 DEF ReadyInv, Clearing, Draining
      <3> QED BY <3>1, <3>2, <3>3, <3>5 DEF Idle, SampleSound
    <2>5. CASE AtLastStep /\ raised
      <3>1. Raises
        BY <1>3, <2>5 DEF TransferArrives
      <3> QED BY <2>1, <3>1, RaisesForgets DEF Idle, SampleSound
    <2>6. CASE AtLastStep /\ ~ raised
      <3>1. Completes /\ op' = "none" /\ left' = FALSE
        BY <1>3, <2>6 DEF TransferArrives, Completes, Returns
      <3>2. CASE op = "read"
        <4>1. /\ sample' = Worth(chip', got, damaged) /\ spoiled' = left
              /\ (Type = "ltr390" /\ spoiled) \/ Measured \subseteq got
          BY <2>3, <2>6, <3>1, <3>2 DEF Completes, ReadReturns
        <4>2. Needed \subseteq chip'.set /\ "heater" \notin chip'.set
          <5>1. driver' = "ready" /\ Needed' = Needed
            BY <2>1, <3>1, <3>2, BoardKept
            DEF Completes, ReadReturns, CallInv, ManagerInv, board
          <5>2. SetUp(chip)'
            BY <5>1 DEF CallInv, SetUpInv
          <5> QED BY <5>1, <5>2 DEF SetUp
        <4>3. damaged = FALSE
          BY DEF CallInv, CallTypeOK
        <4>4. Type = "bme280" => Reported(Config.oversampling) = Config.oversampling
          BY <2>1, SampledConfig
        <4> HIDE DEF got
        <4>5. SampleSound'
          BY <4>1, <4>2, <4>3, <4>4 DEF Worth, SampleSound
        <4>6. ~ left => Drained(chip')
          BY <1>3, <2>6, <3>2, ReadyAdvances DEF ReadyInv
        <4>7. ReadyInv'
          BY <2>2, <3>1, <4>1, <4>6 DEF ReadyInv, Drained, InitOps
        <4> QED BY <3>1, <4>5, <4>7 DEF Idle
      <3>3. CASE op # "read"
        <4>1. sample' = sample /\ spoiled' = FALSE
          BY <3>1, <3>3 DEF Completes, InitReturns
        <4>2. op \in InitOps
          BY <2>1, <3>3 DEF CallTypeOK
        <4>3. Drained(chip')
          BY <1>3, <2>6, <4>2, ReadyAdvances DEF ReadyInv
        <4>4. ReadyInv'
          BY <2>2, <3>1, <4>1, <4>3 DEF ReadyInv, Drained, InitOps
        <4> QED BY <3>1, <4>1, <4>4 DEF Idle, SampleSound
      <3> QED BY <3>2, <3>3
    <2> QED BY <2>4, <2>5, <2>6
  <1>4. CASE TransferFails
    <2>1. /\ UNCHANGED <<list, followed>> /\ op # "none" /\ Running /\ CallTypeOK
      BY <1>4 DEF TransferFails, Calling, Idle, board, Running, CallInv
    <2>2. CASE FinallyPowersOff
      <3>1. /\ step' = Len(Steps) /\ raised' = TRUE /\ op' = op
            /\ UNCHANGED <<left, spoiled, sample>>
        BY <1>4, <2>2 DEF TransferFails
      <3>2. Type = "yl69_fc28" /\ op = "read" /\ Type' = Type
        BY <2>1, <2>2, SoilTransfers, BoardKept DEF board, Idle
      <3>3. Len(Steps) = 4
        BY <3>2 DEF Steps, ReadSteps
      <3> QED BY <3>1, <3>2, <3>3
          DEF Collected, ReadyInv, Clearing, Draining, Drained, SampleSound
    <2>3. CASE ~ FinallyPowersOff
      <3>1. Raises
        BY <1>4, <2>3 DEF TransferFails
      <3> QED BY <2>1, <3>1, RaisesForgets DEF Idle, SampleSound
    <2> QED BY <2>2, <2>3
  <1>5. CASE TransferDamaged
    <2>1. Raises /\ op # "none"
      BY <1>5 DEF TransferDamaged, Verified, Calling, Idle
    <2> QED BY <2>1, RaisesForgets DEF Idle, SampleSound
  <1>6. CASE Convert
    <2> DEFINE channel == ChannelOf(chip.mode)
    <2>1. /\ UNCHANGED <<list, followed, driver, op, step, raised, taken, spoiled, sample>>
          /\ chip.mode \in {"als_active", "uvs_active"}
          /\ left' = (left \/ (op = "read" /\ channel \in Passed))
          /\ chip' = [chip EXCEPT !.ready = @ \cup {channel},
                                  !.fresh = IF op = "read" THEN @ \cup {channel} ELSE @]
      BY <1>6 DEF Convert, board, build
    <2>2. Type' = Type
      BY <2>1, BoardKept DEF board
    <2>3. chip \in ChipType /\ channel \in {"als", "uvs"}
      BY <2>1 DEF CallInv, CallTypeOK, ChannelOf
    <2>4. /\ chip'.mode = chip.mode /\ chip'.ready = chip.ready \cup {channel}
          /\ op = "read" => chip'.fresh = chip.fresh \cup {channel}
      BY <2>1, <2>3 DEF ChipType
    <2> HIDE DEF channel
    <2>5. op = "read" => Collected(step, chip', taken, raised)
      BY <2>4 DEF Collected
    <2>6. op' = "read" => Collected(step, chip, taken, raised)'
      BY <2>1, <2>2, <2>5 DEF Collected
    <2>7. op = "read" /\ Type = "ltr390" /\ channel \notin Passed => 
             /\ step >= 4 => channel # "als"
             /\ step >= 7 => channel # "uvs"
      BY PassedChannels, <1>6 DEF Convert, Idle
    <2>8. op = "read" /\ ~ left' => Draining(step, chip')
      BY <2>1, <2>3, <2>4, <2>7 DEF ReadyInv, Draining
    <2>9. op \in InitOps => Clearing(step, chip')
      <3>1. op \in InitOps /\ Type = "ltr390" => step \in Nat /\ ~ (step >= 3)
        BY <2>1, FollowedKnown, StepFacts, <1>6
        DEF ReadyInv, Clearing, Convert, CallInv, CallTypeOK, Idle, InitOps, Running
      <3> QED BY <3>1 DEF Clearing
    <2>10. ~ (op = "none" /\ driver = "ready" /\ ~ spoiled /\ Type = "ltr390")
      BY <2>1 DEF ReadyInv, Drained
    <2>11. ReadyInv'
      BY <2>1, <2>2, <2>8, <2>9, <2>10 DEF ReadyInv, Clearing, Draining, Drained
    <2> QED BY <2>1, <2>2, <2>6, <2>11 DEF Idle, SampleSound
  <1>7. CASE BoardReset
    <2>1. op' = "none" /\ left' = FALSE /\ spoiled' = TRUE /\ raised' = FALSE /\ sample' = NoSample
      BY <1>7 DEF BoardReset, Returns
    <2> QED BY <2>1 DEF Idle, NoSample, SampleSound, ReadyInv, InitOps
  <1> QED BY <1>1, <1>2, <1>3, <1>4, <1>5, <1>6, <1>7 DEF Next

\* What Core 1 publishes arrived whole, from a chip set up as configured and with every
\* channel that is enabled, and was measured during that reading: for the light sensor after
\* each initialization and each complete reading, whatever its data-ready held before.
THEOREM SamplesAreSound == Spec => []SampleSound
  <1>1. Init => ReadingInv
    <2> SUFFICES ASSUME Init
                 PROVE  ReadingInv
      OBVIOUS
    <2>1. /\ op = "none" /\ driver = "none" /\ left = FALSE /\ spoiled = TRUE
          /\ sample = NoSample
      BY DEF Init
    <2>2. ReadyInv
      BY <2>1 DEF ReadyInv, InitOps
    <2>3. SampleSound
      BY <2>1 DEF SampleSound, NoSample
    <2> QED BY <2>1, <2>2, <2>3 DEF ReadingInv, Idle
  <1>2. ReadingInv /\ CallInv /\ CallInv' /\ [Next]_vars => ReadingInv'
    BY ReadingKept
  <1>3. ReadingInv => SampleSound
    BY DEF ReadingInv
  <1> QED BY <1>1, <1>2, <1>3, CallsRelyOn, PTL DEF Spec
=============================================================================
