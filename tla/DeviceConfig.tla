---------------------------- MODULE DeviceConfig ----------------------------
(***************************************************************************)
(* The "devices" list of a configuration: which lists validate_config of   *)
(* config.py accepts (_validate_devices, with each type's validation.py    *)
(* and the pin rules of rp2_pins.py and rp2_i2c.py), and what an accepted  *)
(* list makes the board drive.                                             *)
(*                                                                         *)
(* A definition is [id, type, config]; a key that is left out of config is *)
(* Absent, a key that is there with the JSON value null is Null.  Bounds   *)
(* that only keep a number sane (oversampling codes, gains, offsets, sea   *)
(* level, rates) are left out: their values here are always in range.      *)
(***************************************************************************)
EXTENDS Naturals, Sequences, FiniteSets, SequencesExt

CONSTANTS
    Absent,
    Null,
    MaxDevices    \* MAX_DEVICES

ASSUME DeviceListAssumption == MaxDevices \in Nat /\ Absent # Null

\* config.get(key) is None
IsNone(value) == value \in {Absent, Null}

\* config.get(key, default): a null is a value.
Get(value, default) == IF value = Absent THEN default ELSE value

I2cTypes == {"bme280", "ltr390", "sht35"}

-----------------------------------------------------------------------------
(* rp2_pins.py, rp2_i2c.py *)

UserGpioPins == (0 .. 22) \cup (26 .. 28)

\* The mux groups, cut down to the pins the board brings out.
SdaPins(bus) == {pin \in UserGpioPins : pin % 4 = 2 * bus}
SclPins(bus) == {pin \in UserGpioPins : pin % 4 = 2 * bus + 1}

DefaultSda(bus) == 4 + 2 * bus
DefaultScl(bus) == 5 + 2 * bus

\* validate_rp2_i2c_pins.  The groups are disjoint: the two pins differ.
Routable(c) ==
    /\ IsNone(c.i2c_sda_pin) \/ c.i2c_sda_pin \in SdaPins(c.i2c_bus)
    /\ IsNone(c.i2c_scl_pin) \/ c.i2c_scl_pin \in SclPins(c.i2c_bus)

\* effective_rp2_i2c_pins
EffectivePins(c) ==
    {IF IsNone(c.i2c_sda_pin) THEN DefaultSda(c.i2c_bus) ELSE c.i2c_sda_pin,
     IF IsNone(c.i2c_scl_pin) THEN DefaultScl(c.i2c_bus) ELSE c.i2c_scl_pin}

-----------------------------------------------------------------------------
(* The per-device rules: <type>/validation.py *)

DefaultFreq == 400000
MaxFreq(type) == IF type = "ltr390" THEN 400000 ELSE 1000000

ValidFreq(type, freq) == freq # Null /\ freq \in 100000 .. MaxFreq(type)

DefaultAddresses(type) ==
    CASE type = "bme280" -> <<118, 119>>
      [] type = "sht35" -> <<68, 69>>
      [] type = "ltr390" -> <<83>>      \* fixed in the driver

ValidAddresses(type, addresses) ==
    \/ IsNone(addresses)
    \/ /\ addresses # <<>>
       /\ ToSet(addresses) \subseteq ToSet(DefaultAddresses(type))
       /\ IsInjective(addresses)

\* temperature feeds the compensation of the two others
ValidOversampling(osrs) == "temperature" \in osrs

ValidI2c(type, c) ==
    /\ c.i2c_bus \in 0 .. 1
    /\ Routable(c)
    /\ ValidFreq(type, Get(c.i2c_freq_hz, DefaultFreq))
    /\ type = "ltr390" \/ ValidAddresses(type, c.i2c_address_candidates)
    /\ type = "bme280" => ValidOversampling(c.oversampling)

MinConversion == 750
MaxConversion == 1000

ValidConversion(ms) == ms \in MinConversion .. MaxConversion

ValidOneWire(c) ==
    /\ c.pin \in UserGpioPins
    /\ ValidConversion(Get(c.conversion_ms, MinConversion))

AdcCapablePins == 26 .. 28

SoilKeys == {"adc_pin", "digital_pin", "power_pin"}

\* `key in config`: a null there is validated as a pin, and refused.
Wired(c) == {key \in SoilKeys : c[key] # Absent}

ValidSoil(c) ==
    /\ c.adc_pin \in AdcCapablePins
    /\ \A key \in Wired(c) : c[key] \in UserGpioPins
    /\ \A key1, key2 \in Wired(c) : key1 # key2 => c[key1] # c[key2]
    /\ c.dry_raw # c.wet_raw

\* validate_device_definition
ValidDevice(d) ==
    CASE d.type \in I2cTypes -> ValidI2c(d.type, d.config)
      [] d.type = "ds18b20" -> ValidOneWire(d.config)
      [] d.type = "yl69_fc28" -> ValidSoil(d.config)
      [] OTHER -> FALSE

-----------------------------------------------------------------------------
(* The rules about the list: _validate_devices *)

OfType(list, types) == {i \in DOMAIN list : list[i].type \in types}

UniqueIds(list) == \A i, j \in DOMAIN list : list[i].id = list[j].id => i = j

\* i2c_bus_identity, less the bus: an omitted pin is not resolved.
BusSetting(c) ==
    <<IF IsNone(c.i2c_sda_pin) THEN Null ELSE c.i2c_sda_pin,
      IF IsNone(c.i2c_scl_pin) THEN Null ELSE c.i2c_scl_pin,
      Get(c.i2c_freq_hz, DefaultFreq)>>

SameBus(list) ==
    {p \in OfType(list, I2cTypes) \X OfType(list, I2cTypes) :
        p[1] # p[2] /\ list[p[1]].config.i2c_bus = list[p[2]].config.i2c_bus}

\* mutant: the pins the bus ends up on are compared, not the keys the factory compares
NoBusConflict_resolved(list) ==
    \A p \in SameBus(list) :
        LET c == list[p[1]].config  e == list[p[2]].config
        IN EffectivePins(c) = EffectivePins(e) /\ BusSetting(c)[3] = BusSetting(e)[3]

NoBusConflict(list) ==
    \A p \in SameBus(list) : BusSetting(list[p[1]].config) = BusSetting(list[p[2]].config)

OneWirePins(list) == {list[i].config.pin : i \in OfType(list, {"ds18b20"})}

SoilPins(d) == {d.config[key] : key \in Wired(d.config)}

AllSoilPins(list) == UNION {SoilPins(list[i]) : i \in OfType(list, {"yl69_fc28"})}

\* mutant: only the pins a configuration names are looked at
NoPinConflict_named(list) ==
    /\ \A i, j \in OfType(list, {"yl69_fc28"}) :
        i # j => SoilPins(list[i]) \cap SoilPins(list[j]) = {}
    /\ AllSoilPins(list) \cap OneWirePins(list) = {}
    /\ \A i \in OfType(list, I2cTypes) :
        {list[i].config.i2c_sda_pin, list[i].config.i2c_scl_pin}
            \cap (OneWirePins(list) \cup AllSoilPins(list)) = {}

NoPinConflict(list) ==
    /\ \A i, j \in OfType(list, {"yl69_fc28"}) :
        i # j => SoilPins(list[i]) \cap SoilPins(list[j]) = {}
    /\ AllSoilPins(list) \cap OneWirePins(list) = {}
    /\ \A i \in OfType(list, I2cTypes) :
        EffectivePins(list[i].config) \cap (OneWirePins(list) \cup AllSoilPins(list)) = {}

\* The candidates a device probes, in order.
Candidates(d) ==
    IF d.type = "ltr390" \/ IsNone(d.config.i2c_address_candidates)
    THEN DefaultAddresses(d.type)
    ELSE d.config.i2c_address_candidates

SameChipType(list) == {p \in SameBus(list) : list[p[1]].type = list[p[2]].type}

NoChipConflict(list) ==
    \A p \in SameChipType(list) :
        /\ list[p[1]].type # "ltr390"
        /\ Len(Candidates(list[p[1]])) = 1
        /\ Candidates(list[p[1]]) # Candidates(list[p[2]])

\* _validate_devices
Accepted(list) ==
    /\ Len(list) \in 1 .. MaxDevices
    /\ UniqueIds(list)
    /\ \A i \in DOMAIN list : ValidDevice(list[i])
    /\ NoBusConflict(list)
    /\ NoPinConflict(list)
    /\ NoChipConflict(list)

-----------------------------------------------------------------------------
(* What the devices of a list drive, once they are built. *)

Lines(d) ==
    CASE d.type \in I2cTypes -> EffectivePins(d.config)
      [] d.type = "ds18b20" -> {d.config.pin}
      [] d.type = "yl69_fc28" -> SoilPins(d)

\* What carries the signals of a line: devices of one carrier may share it.
Carrier(d) ==
    CASE d.type \in I2cTypes -> <<"i2c", d.config.i2c_bus>>
      [] d.type = "ds18b20" -> <<"1-wire", d.config.pin>>
      [] d.type = "yl69_fc28" -> <<"soil", d.id>>

\* The chips a device may bind, by what is on the bus.
Chips(d) ==
    IF d.type \in I2cTypes
    THEN {<<d.config.i2c_bus, address>> : address \in ToSet(Candidates(d))}
    ELSE {}
=============================================================================
