------------------------------ MODULE MCSensors ------------------------------
(* Lists of one and two devices that meet every rule, and break it, for TLC. *)
EXTENDS Sensors

MCDevices == <<"followed">>

I2c(type, bus, sda, freq, addresses, offsets) ==
    [type |-> type,
     config |-> [i2c_bus |-> bus, i2c_sda_pin |-> sda, i2c_scl_pin |-> Absent,
                 i2c_freq_hz |-> freq, i2c_address_candidates |-> addresses,
                 oversampling |-> {"temperature", "humidity"}, offsets |-> offsets]]

OneWire(pin, conversion) ==
    [type |-> "ds18b20",
     config |-> [pin |-> pin, conversion_ms |-> conversion, offsets |-> Absent]]

Soil(adc, digital, power, wet) ==
    [type |-> "yl69_fc28",
     config |-> [adc_pin |-> adc, digital_pin |-> digital, power_pin |-> power,
                 dry_raw |-> 1, wet_raw |-> wet]]

\* Pins at their default (4, 5 on bus 0), on it by name, elsewhere, and not routable.
Bme280s ==
    {I2c("bme280", 0, sda, Absent, addresses, Absent) :
        sda \in {Absent, 4, 6, 8}, addresses \in {Absent, <<118>>, <<119>>}}
    \cup {[b EXCEPT !.config.oversampling = {"humidity"}] :
            b \in {I2c("bme280", 1, Absent, Absent, Absent, Absent)}}

Ltr390s ==
    {I2c("ltr390", bus, Absent, freq, Absent, Absent) :
        bus \in {0, 1}, freq \in {Absent, 400000, 1000000}}

Sht35s == {I2c("sht35", 0, Absent, freq, <<68>>, Absent) : freq \in {Absent, 100000}}

Ds18b20s == {OneWire(pin, ms) : pin \in {4, 15, 23}, ms \in {Absent, 749}}

Yl69s ==
    {Soil(26, digital, power, 2) : digital \in {Absent, 5}, power \in {Absent, 15}}
    \cup {Soil(27, Absent, 26, 2), Soil(26, Absent, Absent, 1)}

Definitions == Bme280s \cup Ltr390s \cup Sht35s \cup Ds18b20s \cup Yl69s

WithId(id, d) == [id |-> id, type |-> d.type, config |-> d.config]

MCLists ==
    {<<WithId(1, d)>> : d \in Definitions}
    \cup {<<WithId(1, d), WithId(id, e)>> : d \in Definitions, e \in Definitions, id \in {2}}
    \cup {<<WithId(1, d), WithId(1, d)>> : d \in Ds18b20s}

\* An optional key that is there, with null.
NullLists == {<<WithId(1, I2c("bme280", 0, Absent, Absent, Absent, Null))>>}
=============================================================================
