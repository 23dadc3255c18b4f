----------------------------- MODULE DeviceMaps -----------------------------
(***************************************************************************)
(* The register maps of the power stations (core/devices/), what a read of *)
(* registers parses to (DeviceStruct.parse, EP2000.parse), and which       *)
(* fields the MQTT client knows (mqtt_client.py).                          *)
(*                                                                         *)
(* A field is a name, its registers, and how its conversion may fail:      *)
(* "plain" never does, a "ranged" value may be skipped, an "enum" value or *)
(* a "text" may raise (ValueError, UnicodeDecodeError).  Scales and signs  *)
(* are left out.                                                           *)
(***************************************************************************)
EXTENDS Naturals, Sequences, FiniteSets, Functions

Field(name, address, size, kind) ==
    [name |-> name, address |-> address, size |-> size, kind |-> kind]

Words(table) == {Field(f[1], f[2], 1, "plain") : f \in table}
Ranged(table) == {Field(f[1], f[2], 1, "ranged") : f \in table}
Enums(table) == {Field(f[1], f[2], 1, "enum") : f \in table}
Texts(table) == {Field(f[1], f[2], f[3], "text") : f \in table}
Versions(table) == {Field(f[1], f[2], 2, "plain") : f \in table}
SerialNumbers(table) == {Field(f[1], f[2], 4, "plain") : f \in table}
CellVoltages == {Field("cell_voltages", 105, 16, "plain")}

Read(first, quantity) == [slave |-> 1, first |-> first, quantity |-> quantity]
ReadSlave(slave, first, quantity) ==
    [slave |-> slave, first |-> first, quantity |-> quantity]

-----------------------------------------------------------------------------
(* Tables that several stations share word for word.                       *)

Identity ==
    Texts({<<"device_type", 10, 6>>}) \cup SerialNumbers({<<"serial_number", 17>>})
    \cup Versions({<<"arm_version", 23>>, <<"dsp_version", 25>>})
Powers ==
    Words({<<"dc_input_power", 36>>, <<"ac_input_power", 37>>, <<"ac_output_power", 38>>,
           <<"dc_output_power", 39>>, <<"total_battery_percent", 43>>,
           <<"ac_output_on", 48>>, <<"dc_output_on", 49>>})
Core == Identity \cup Powers \cup Words({<<"power_generation", 41>>})
Internal ==
    Enums({<<"ac_output_mode", 70>>})
    \cup Words({<<"internal_ac_voltage", 71>>, <<"internal_current_one", 72>>,
                <<"internal_power_one", 73>>, <<"internal_ac_frequency", 74>>,
                <<"internal_dc_input_voltage", 86>>, <<"internal_dc_input_power", 87>>})
SplitPhase ==
    Words({<<"internal_current_two", 75>>, <<"internal_power_two", 76>>,
           <<"ac_input_voltage", 77>>, <<"internal_power_three", 79>>,
           <<"ac_input_frequency", 80>>})
Packs ==
    Words({<<"pack_num_max", 91>>, <<"total_battery_voltage", 92>>, <<"pack_num", 96>>})
    \cup CellVoltages
PackState == Words({<<"pack_voltage", 98>>, <<"pack_battery_percent", 99>>})
OutputControls ==
    Words({<<"ac_output_on", 3007>>, <<"dc_output_on", 3008>>})
Controls ==
    OutputControls
    \cup Enums({<<"ups_mode", 3001>>, <<"split_phase_machine_mode", 3005>>,
                <<"auto_sleep_mode", 3061>>})
    \cup Words({<<"split_phase_on", 3004>>, <<"pack_num", 3006>>,
                <<"grid_charge_on", 3011>>, <<"time_control_on", 3013>>,
                <<"battery_range_start", 3015>>, <<"battery_range_end", 3016>>,
                <<"bluetooth_connected", 3036>>})

-----------------------------------------------------------------------------
(* The stations.                                                           *)

AC200MFields ==
    Core \cup Internal \cup Packs \cup PackState \cup OutputControls
    \cup Words({<<"internal_dc_input_current", 88>>, <<"pack_num", 3006>>,
                <<"power_off", 3060>>})
    \cup Enums({<<"auto_sleep_mode", 3061>>})

AC300Fields ==
    Core \cup Internal \cup SplitPhase \cup Packs \cup PackState \cup Controls
    \cup Ranged({<<"internal_current_three", 78>>, <<"internal_dc_input_current", 88>>})
    \cup Words({<<"total_battery_current", 93>>})
    \cup Enums({<<"pack_status", 97>>})
    \cup Versions({<<"pack_bms_version", 201>>})

AC500Fields ==
    Core \cup Internal \cup SplitPhase \cup Packs \cup PackState \cup Controls
    \cup Words({<<"internal_current_three", 78>>, <<"internal_dc_input_current", 88>>})

EP500Fields ==
    Core \cup Internal \cup SplitPhase \cup Packs \cup Controls
    \cup Words({<<"internal_current_three", 78>>, <<"pack_voltage", 92>>,
                <<"pack_battery_percent", 94>>})
    \cup Ranged({<<"internal_dc_input_current", 88>>})

\* The same fields, one by one.
EP500PFields == EP500Fields

EB3AFields ==
    Identity \cup Powers \cup OutputControls
    \cup Words({<<"ac_input_voltage", 77>>, <<"internal_dc_input_voltage", 86>>,
                <<"pack_num_max", 91>>, <<"power_off", 3060>>, <<"eco_on", 3063>>,
                <<"power_lifting_on", 3066>>})
    \cup Enums({<<"led_mode", 3034>>, <<"eco_shutdown", 3064>>, <<"charging_mode", 3065>>})

AC60Fields ==
    Words({<<"total_battery_percent", 102>>, <<"power_generation", 154>>,
           <<"power_generation", 1202>>})
    \cup Texts({<<"device_type", 110, 6>>, <<"device_type", 1101, 6>>, <<"battery_type", 6101, 6>>})
    \cup SerialNumbers({<<"serial_number", 116>>, <<"serial_number", 1107>>,
                        <<"battery_serial_number", 6107>>})
    \cup Versions({<<"bcu_version", 6175>>})

EP600Fields ==
    AC60Fields
    \cup Words({<<"battery_range_start", 2022>>, <<"battery_range_end", 2023>>,
                <<"max_ac_input_power", 2213>>, <<"max_ac_input_current", 2214>>,
                <<"max_ac_output_power", 2215>>, <<"max_ac_output_current", 2216>>})
    \cup Versions({<<"bmu_version", 6178>>, <<"safety_module_version", 6181>>,
                   <<"high_voltage_module_version", 6184>>})

\* 32-bit values of the EP2000: name, the fields of its halves, first register.
Totals32 ==
    {<<"total_dc_power", "total_dc_power_low", "total_dc_power_high", 140>>,
     <<"consumption_power_all", "consumption_power_all_low", "consumption_power_all_high", 142>>,
     <<"pv_input_power_all", "pv_input_power_all_low", "pv_input_power_all_high", 144>>,
     <<"grid_power_all", "grid_power_all_low", "grid_power_all_high", 146>>,
     <<"total_inverter_power", "total_inverter_power_low", "total_inverter_power_high", 148>>,
     <<"total_dc_energy", "total_dc_energy_low", "total_dc_energy_high", 150>>,
     <<"total_ac_consumption", "total_ac_consumption_low", "total_ac_consumption_high", 152>>,
     <<"total_grid_consumption", "total_grid_consumption_low", "total_grid_consumption_high", 156>>,
     <<"total_grid_feed", "total_grid_feed_low", "total_grid_feed_high", 158>>}

\* A measured phase or string: power, voltage and current behind each other.
Phase(power, voltage, current, address) ==
    Words({<<power, address>>, <<voltage, address + 1>>, <<current, address + 2>>})

PhaseFields ==
    UNION {
     Phase("pv1_power", "pv1_voltage", "pv1_current", 1212),
     Phase("pv2_power", "pv2_voltage", "pv2_current", 1220),
     Phase("adl400_ac_input_power_phase1", "adl400_ac_input_voltage_phase1", "adl400_ac_input_current_phase1", 1228),
     Phase("adl400_ac_input_power_phase2", "adl400_ac_input_voltage_phase2", "adl400_ac_input_current_phase2", 1236),
     Phase("adl400_ac_input_power_phase3", "adl400_ac_input_voltage_phase3", "adl400_ac_input_current_phase3", 1244),
     Phase("grid_power_phase1", "grid_voltage_phase1_v", "grid_current_phase1_a", 1313),
     Phase("grid_power_phase2", "grid_voltage_phase2_v", "grid_current_phase2_a", 1319),
     Phase("grid_power_phase3", "grid_voltage_phase3_v", "grid_current_phase3_a", 1325),
     Phase("ac_output_power_phase1", "ac_output_voltage_phase1", "ac_output_current_phase1", 1510),
     Phase("ac_output_power_phase2", "ac_output_voltage_phase2", "ac_output_current_phase2", 1517),
     Phase("ac_output_power_phase3", "ac_output_voltage_phase3", "ac_output_current_phase3", 1524),
     Phase("consumption_power_phase1", "consumption_voltage_phase1_v", "consumption_current_phase1_a", 1430),
     Phase("consumption_power_phase2", "consumption_voltage_phase2_v", "consumption_current_phase2_a", 1436),
     Phase("consumption_power_phase3", "consumption_voltage_phase3_v", "consumption_current_phase3_a", 1442)}

EP2000Fields ==
    PhaseFields
    \cup Words({<<t[2], t[4]>> : t \in Totals32}) \cup Words({<<t[3], t[4] + 1>> : t \in Totals32})
    \cup Words({<<"pack_total_voltage", 100>>, <<"pack_total_current", 101>>,
                <<"total_battery_percent", 102>>, <<"grid_frequency_hz", 1300>>,
                <<"ac_control_enabled", 2011>>, <<"battery_range_start", 2022>>,
                <<"battery_range_end", 2023>>, <<"generator_control_enabled", 2246>>,
                <<"grid_reconnect_voltage_low_limit_v", 2435>>,
                <<"grid_reconnect_voltage_high_limit_v", 2436>>,
                <<"grid_reconnect_frequency_low_limit_hz", 2437>>,
                <<"grid_reconnect_frequency_high_limit_hz", 2438>>,
                <<"consumption_power_1212", 1212>>, <<"consumption_power_1220", 1220>>,
                <<"consumption_power_1228", 1228>>})
    \cup Texts({<<"device_type", 110, 6>>, <<"model_code", 1101, 6>>, <<"wifi_name", 12002, 16>>})
    \cup SerialNumbers({<<"serial_number", 116>>})

\* The sums of EP2000.parse() and the registers of their components.
SumRegisters ==
    [pv_dc_total_power |-> {1212, 1220},
     pv_ac_total_power |-> {1228, 1236, 1244},
     inverter_sum_power |-> {1510, 1517, 1524},
     self_consumption_power |-> {1212, 1220, 1228, 1236, 1244, 146, 147}]
Sums == DOMAIN SumRegisters
CalculatedFields == Sums \cup {t[1] : t \in Totals32}

-----------------------------------------------------------------------------
(* What the MQTT client knows: NORMAL_DEVICE_FIELDS, in its sections.      *)

InputFields ==
    {"pv1_power", "pv1_voltage", "pv1_current", "pv2_power", "pv2_voltage", "pv2_current",
     "adl400_ac_input_power_phase1", "adl400_ac_input_voltage_phase1",
     "adl400_ac_input_current_phase1", "adl400_ac_input_power_phase2"}
InputAndGridFields ==
    {"adl400_ac_input_power_phase3", "adl400_ac_input_voltage_phase2",
     "adl400_ac_input_voltage_phase3", "adl400_ac_input_current_phase2",
     "adl400_ac_input_current_phase3", "grid_frequency_hz", "grid_power_phase1",
     "grid_power_phase2", "grid_power_phase3", "grid_voltage_phase1_v",
     "grid_voltage_phase2_v", "grid_voltage_phase3_v", "grid_current_phase1_a"}
GridAndOutputFields ==
    {"grid_current_phase2_a", "grid_current_phase3_a", "ac_output_frequency",
     "ac_output_power_phase1", "ac_output_power_phase2", "ac_output_power_phase3",
     "ac_output_voltage_phase1", "ac_output_voltage_phase2", "ac_output_voltage_phase3",
     "ac_output_current_phase1", "ac_output_current_phase2", "ac_output_current_phase3"}
ConsumptionFields ==
    {"consumption_power_phase1", "consumption_power_phase2", "consumption_power_phase3",
     "consumption_voltage_phase1_v", "consumption_voltage_phase2_v",
     "consumption_voltage_phase3_v", "consumption_current_phase1_a",
     "consumption_current_phase2_a", "consumption_current_phase3_a",
     "consumption_power_1212", "consumption_power_1220", "consumption_power_1228"}
TotalFields ==
    {"pv_input_power_all", "consumption_power_all", "grid_power_all",
     "total_ac_consumption", "total_grid_consumption", "total_grid_feed",
     "total_inverter_power", "total_dc_energy"}
EP2000ControlFields ==
    {"ac_control_enabled", "generator_control_enabled"}
LimitFields ==
    {"grid_reconnect_voltage_low_limit_v", "grid_reconnect_voltage_high_limit_v",
     "grid_reconnect_frequency_low_limit_hz", "grid_reconnect_frequency_high_limit_hz"}
PowerFields ==
    {"dc_input_power", "ac_input_power", "ac_output_power", "dc_output_power",
     "power_generation", "total_battery_percent", "pack_total_voltage", "pack_total_current"}
InternalFields ==
    {"ac_output_mode", "internal_ac_voltage", "internal_current_one", "internal_power_one",
     "internal_ac_frequency", "internal_current_two", "internal_power_two",
     "ac_input_voltage", "internal_current_three", "internal_power_three",
     "ac_input_frequency", "total_battery_voltage", "total_battery_current"}
SplitPhaseFields == {"split_phase_on", "split_phase_machine_mode"}
ControlFields ==
    {"ac_output_on", "dc_output_on", "ups_mode", "grid_charge_on", "time_control_on",
     "battery_range_start", "battery_range_end", "led_mode", "power_off",
     "auto_sleep_mode", "eco_on", "eco_shutdown", "charging_mode", "power_lifting_on"}
SumFields ==
    {"pv_dc_total_power", "pv_ac_total_power", "inverter_sum_power",
     "self_consumption_power", "total_dc_power"}

Settable == EP2000ControlFields \cup ControlFields
Advanced == InternalFields
NORMAL_DEVICE_FIELDS ==
    UNION {InputFields, InputAndGridFields, GridAndOutputFields, ConsumptionFields,
           TotalFields, LimitFields, PowerFields, InternalFields, SplitPhaseFields,
           SumFields, Settable}
DC_INPUT_FIELDS ==
    [dc_input_voltage1 |-> "internal_dc_input_voltage",
     dc_input_power1 |-> "internal_dc_input_power",
     dc_input_current1 |-> "internal_dc_input_current"]
battery_pack_fields == {"pack_status", "pack_voltage", "pack_battery_percent"}
PackDetails ==
    <<"pack_details1", "pack_details2", "pack_details3",
      "pack_details4", "pack_details5", "pack_details6">>

-----------------------------------------------------------------------------
(* What the pollers ask each station.                                      *)

ClassicReads == <<Read(10, 40), Read(70, 21), Read(3001, 61)>>
PackReads == <<Read(91, 119)>>

\* Mutant: a read begins behind its first field.
EP2000ReadsLate ==
    <<Read(100, 60), Read(1100, 70), Read(1200, 92), Read(1300, 31), Read(1400, 60),
      Read(1511, 28), Read(2000, 60), Read(2200, 100), Read(2400, 40),
      ReadSlave(41, 6000, 62), ReadSlave(41, 6100, 60), ReadSlave(41, 14000, 14),
      Read(12002, 16)>>
EP2000Reads ==
    <<Read(100, 60), Read(1100, 70), Read(1200, 92), Read(1300, 31), Read(1400, 60),
      Read(1509, 30), Read(2000, 60), Read(2200, 100), Read(2400, 40),
      ReadSlave(41, 6000, 62), ReadSlave(41, 6100, 60), ReadSlave(41, 14000, 14),
      Read(12002, 16)>>

AC60Reads == <<Read(100, 62)>>
EP600Reads == <<Read(100, 62), Read(2022, 2)>>
EB3AReads == <<Read(10, 40), Read(70, 21), Read(3034, 1), Read(3060, 7)>>

Names(fields) == {f.name : f \in fields}

\* names: those for which has_field() is true; normal: those the MQTT client
\* announces and publishes.
Station(fields, calculated, polling, packs, pack_num_max, writable) ==
    LET names == Names(fields) \cup calculated
    IN  [fields |-> fields, names |-> names, normal |-> names \cap NORMAL_DEVICE_FIELDS,
         polling |-> polling, packs |-> packs,
         pack_num_max |-> pack_num_max, writable |-> writable]

AC200M == Station(AC200MFields, {}, ClassicReads, PackReads, 3, 3000..3061)
AC300 == Station(AC300Fields, {}, ClassicReads, PackReads, 4, 3000..3061)
AC500 == Station(AC500Fields, {}, ClassicReads, PackReads, 6, 3000..3061)
EP500 == Station(EP500Fields, {}, ClassicReads, PackReads, 1, 3000..3061)
EP500P == Station(EP500PFields, {}, ClassicReads, PackReads, 1, 3000..3061)
EB3A == Station(EB3AFields, {}, EB3AReads, <<>>, 1, 3000..3066)
AC60 == Station(AC60Fields, {}, AC60Reads, <<>>, 1, {})
EP600 == Station(EP600Fields, {}, EP600Reads, <<>>, 1, {})
EP2000 == Station(EP2000Fields, CalculatedFields, EP2000Reads, <<>>, 1, {})

Stations ==
    [AC200M |-> AC200M, AC300 |-> AC300, AC500 |-> AC500, AC60 |-> AC60, EP500 |-> EP500,
     EP500P |-> EP500P, EP600 |-> EP600, EB3A |-> EB3A, EP2000 |-> EP2000]

\* DEVICE_NAME_RE: the names of an EP2000 may also begin with EBOX.
Prefixes == DOMAIN Stations \cup {"EBOX"}
build_device(prefix) == IF prefix = "EBOX" THEN "EP2000" ELSE prefix

-----------------------------------------------------------------------------
(* Parsing.                                                                *)

Registers(first, quantity) == first..(first + quantity - 1)

\* The fields that lie in a read entirely.
FieldsIn(fields, read) ==
    LET r == Registers(read.first, read.quantity)
    IN  {f \in fields : f.address \in r /\ f.address + f.size - 1 \in r}

\* Mutant: a half that is missing counts as 0, as the components of sums do.
parseHalves(type, read, skipped) ==
    LET parsed == Names(FieldsIn(Stations[type].fields, read) \ skipped)
    IN  parsed \cup (IF type # "EP2000" THEN {} ELSE CalculatedFields)

\* The totals whose halves have been parsed.
Combined(parsed) == {t[1] : t \in {u \in Totals32 : {u[2], u[3]} \subseteq parsed}}

\* The names parse() returns, given the fields skipped as out of range.  An
\* EP2000 combines the halves of its totals, and publishes its sums always: a
\* component that is not in the read counts as 0.
parse(type, read, skipped) ==
    LET parsed == Names(FieldsIn(Stations[type].fields, read) \ skipped)
    IN  IF type = "EP2000" THEN parsed \cup Combined(parsed) \cup Sums ELSE parsed

\* EP2000: the registers named in the attributes of a topic.
get_field_registers(name) ==
    IF name \in Sums THEN SumRegisters[name]
    ELSE UNION ({{t[4], t[4] + 1} : t \in {u \in Totals32 : u[1] = name}}
                \cup {Registers(f.address, f.size) : f \in {g \in EP2000Fields : g.name = name}})

has_field_setter(type, name) ==
    \E f \in Stations[type].fields : f.name = name /\ f.address \in Stations[type].writable
=============================================================================
