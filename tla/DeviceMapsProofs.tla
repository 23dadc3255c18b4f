-------------------------- MODULE DeviceMapsProofs --------------------------
(***************************************************************************)
(* Theorems about the register maps: what a read of an EP2000 parses to    *)
(* lies in that read, whatever its first register and its length; and what *)
(* is shown of a station is in one of the reads its pollers ask for.       *)
(***************************************************************************)
EXTENDS DeviceMaps, TLAPS

\* The registers of a field.
FieldRegisters(f) == Registers(f.address, f.size)

-----------------------------------------------------------------------------
(* Facts about the table of the EP2000.                                    *)

\* No name is given twice.
LEMMA EP2000NamesDiffer ==
    ASSUME NEW f \in EP2000Fields, NEW g \in EP2000Fields, f.name = g.name
    PROVE  f = g
BY SMTT(60) DEF EP2000Fields, PhaseFields, Phase, Words, Texts, SerialNumbers, Totals32, Field

\* A field takes registers, one at least.
LEMMA EP2000FieldType ==
    ASSUME NEW f \in EP2000Fields
    PROVE  f.address \in Nat /\ f.size \in Nat \ {0}
BY SMTT(60) DEF EP2000Fields, PhaseFields, Phase, Words, Texts, SerialNumbers, Totals32, Field

\* No total has the name of a field, or of another total.
LEMMA TotalsDiffer ==
    /\ \A t \in Totals32, f \in EP2000Fields : t[1] # f.name
    /\ \A t, u \in Totals32 : t[1] = u[1] => t = u
<1>1. \A t \in Totals32, f \in EP2000Fields : t[1] # f.name
  BY SMTT(60) DEF EP2000Fields, PhaseFields, Phase, Words, Texts, SerialNumbers, Totals32, Field
<1>2. \A t, u \in Totals32 : t[1] = u[1] => t = u
  BY DEF Totals32
<1> QED
  BY <1>1, <1>2

\* A row of a table is a field.
LEMMA WordOfTable ==
    ASSUME NEW name, NEW address, NEW table, <<name, address>> \in table
    PROVE  Field(name, address, 1, "plain") \in Words(table)
<1> DEFINE row == <<name, address>>
<1>1. row[1] = name /\ row[2] = address
  OBVIOUS
<1>2. Field(row[1], row[2], 1, "plain") \in Words(table)
  BY DEF Words
<1> HIDE DEF row
<1> QED
  BY <1>1, <1>2

\* The halves of a total are fields, one behind the other.
LEMMA HalvesOfTotal ==
    ASSUME NEW t \in Totals32
    PROVE  /\ t[4] \in Nat
           /\ Field(t[2], t[4], 1, "plain") \in EP2000Fields
           /\ Field(t[3], t[4] + 1, 1, "plain") \in EP2000Fields
<1>1. t[4] \in Nat
  BY DEF Totals32
<1>2. /\ Field(t[2], t[4], 1, "plain") \in Words({<<u[2], u[4]>> : u \in Totals32})
      /\ Field(t[3], t[4] + 1, 1, "plain") \in Words({<<u[3], u[4] + 1>> : u \in Totals32})
  BY WordOfTable
<1> QED
  BY <1>1, <1>2 DEF EP2000Fields

\* No sum has the name of a field or of a total.
LEMMA SumsDiffer ==
    /\ \A f \in EP2000Fields : f.name \notin Sums
    /\ \A t \in Totals32 : t[1] \notin Sums
<1>1. Sums = {"pv_dc_total_power", "pv_ac_total_power", "inverter_sum_power",
              "self_consumption_power"}
  BY DEF Sums, SumRegisters
<1>2. \A f \in EP2000Fields : f.name \notin Sums
  BY <1>1, SMTT(60) DEF EP2000Fields, PhaseFields, Phase, Words, Texts, SerialNumbers, Totals32, Field
<1>3. \A t \in Totals32 : t[1] \notin Sums
  BY <1>1 DEF Totals32
<1> QED
  BY <1>2, <1>3

-----------------------------------------------------------------------------
(* What the attributes of a topic name.                                    *)

\* A field's attributes name its registers, and no others.
LEMMA RegistersOfField ==
    ASSUME NEW f \in EP2000Fields
    PROVE  get_field_registers(f.name) = FieldRegisters(f)
<1>1. {u \in Totals32 : u[1] = f.name} = {}
  BY TotalsDiffer
<1>2. {g \in EP2000Fields : g.name = f.name} = {f}
  BY EP2000NamesDiffer
<1>3. f.name \notin Sums
  BY SumsDiffer
<1> QED
  BY <1>1, <1>2, <1>3 DEF get_field_registers, FieldRegisters

\* A total's name its two halves.
LEMMA RegistersOfTotal ==
    ASSUME NEW t \in Totals32
    PROVE  get_field_registers(t[1]) = {t[4], t[4] + 1}
<1>1. {u \in Totals32 : u[1] = t[1]} = {t}
  BY TotalsDiffer
<1>2. {g \in EP2000Fields : g.name = t[1]} = {}
  BY TotalsDiffer
<1>3. t[1] \notin Sums
  BY SumsDiffer
<1> QED
  BY <1>1, <1>2, <1>3 DEF get_field_registers

-----------------------------------------------------------------------------
(* What a read parses to.                                                  *)

Reads == [slave : Nat, first : Nat, quantity : Nat]

\* A field in a read lies in it with all its registers.
LEMMA FieldInRead ==
    ASSUME NEW read \in Reads, NEW f \in FieldsIn(EP2000Fields, read)
    PROVE  /\ f \in EP2000Fields
           /\ FieldRegisters(f) \subseteq Registers(read.first, read.quantity)
<1>1. /\ f \in EP2000Fields
      /\ f.address \in Registers(read.first, read.quantity)
      /\ f.address + f.size - 1 \in Registers(read.first, read.quantity)
  BY DEF FieldsIn
<1>2. read.first \in Nat /\ read.quantity \in Nat
  BY DEF Reads
<1>3. f.address \in Nat /\ f.size \in Nat
  BY <1>1, EP2000FieldType
<1> QED
  BY <1>1, <1>2, <1>3 DEF FieldRegisters, Registers

\* What EP2000.parse() returns of any read, but for the sums, was in that read.
THEOREM ParsedLiesInRead ==
    ASSUME NEW read \in Reads, NEW skipped,
           NEW name \in parse("EP2000", read, skipped), name \notin Sums
    PROVE  get_field_registers(name) \subseteq Registers(read.first, read.quantity)
<1> DEFINE parsed == Names(FieldsIn(EP2000Fields, read) \ skipped)
<1>1. Stations["EP2000"].fields = EP2000Fields
  BY DEF Stations, EP2000, Station
<1>2. name \in parsed \/ name \in Combined(parsed)
  BY <1>1 DEF parse
<1>3. ASSUME NEW n \in parsed
      PROVE  /\ \E f \in EP2000Fields : f.name = n
             /\ get_field_registers(n) \subseteq Registers(read.first, read.quantity)
  <2>1. PICK f \in FieldsIn(EP2000Fields, read) : f.name = n
    BY DEF Names
  <2> QED
    BY <2>1, FieldInRead, RegistersOfField
<1>4. CASE name \in Combined(parsed)
  <2>1. PICK t \in Totals32 : t[1] = name /\ t[2] \in parsed /\ t[3] \in parsed
    BY <1>4 DEF Combined
  <2> DEFINE low == Field(t[2], t[4], 1, "plain")
             high == Field(t[3], t[4] + 1, 1, "plain")
  <2>2. /\ low \in EP2000Fields /\ high \in EP2000Fields /\ t[4] \in Nat
        /\ low.name = t[2] /\ low.address = t[4] /\ low.size = 1
        /\ high.name = t[3] /\ high.address = t[4] + 1 /\ high.size = 1
    BY HalvesOfTotal DEF Field
  <2>3. get_field_registers(t[2]) = {t[4]} /\ get_field_registers(t[3]) = {t[4] + 1}
    <3>1. FieldRegisters(low) = {t[4]} /\ FieldRegisters(high) = {t[4] + 1}
      BY <2>2 DEF FieldRegisters, Registers
    <3> QED
      BY <2>2, <3>1, RegistersOfField
  <2>4. {t[4], t[4] + 1} \subseteq Registers(read.first, read.quantity)
    BY <1>3, <2>1, <2>3
  <2> QED
    BY <2>1, <2>4, RegistersOfTotal
<1> QED
  BY <1>2, <1>3, <1>4

-----------------------------------------------------------------------------
(* What is shown is read.                                                  *)

\* The reads of a station, of its poller and its pack poller.
ReadsOf(station) == Range(station.polling) \cup Range(station.packs)

\* The fields of a station with a topic: of their own, or of a DC input.
FieldsShown(station) ==
    station.names \cap (NORMAL_DEVICE_FIELDS \cup Range(DC_INPUT_FIELDS))

\* A field between the ends of a read lies in it.
Between(f, first, last) == f.address >= first /\ f.address + f.size - 1 <= last

\* Nine stations are asked by six lists; these are the reads of the lists.
LEMMA ReadsOfLists ==
    /\ Range(ClassicReads) = {Read(10, 40), Read(70, 21), Read(3001, 61)}
    /\ Range(PackReads) = {Read(91, 119)}
    /\ Range(EB3AReads) = {Read(10, 40), Read(70, 21), Read(3034, 1), Read(3060, 7)}
    /\ Range(AC60Reads) = {Read(100, 62)}
    /\ Range(EP600Reads) = {Read(100, 62), Read(2022, 2)}
<1>1. Range(ClassicReads) = {Read(10, 40), Read(70, 21), Read(3001, 61)}
  BY DEF Range, ClassicReads
<1>2. Range(PackReads) = {Read(91, 119)}
  BY DEF Range, PackReads
<1>3. Range(EB3AReads) = {Read(10, 40), Read(70, 21), Read(3034, 1), Read(3060, 7)}
  BY DEF Range, EB3AReads
<1>4. Range(AC60Reads) = {Read(100, 62)}
  BY DEF Range, AC60Reads
<1>5. Range(EP600Reads) = {Read(100, 62), Read(2022, 2)}
  BY DEF Range, EP600Reads
<1> QED
  BY <1>1, <1>2, <1>3, <1>4, <1>5

\* A field between the ends of a read is parsed from it.
LEMMA BetweenIsParsed ==
    ASSUME NEW fields, NEW f \in fields, f.address \in Nat, f.size \in Nat \ {0},
           NEW first \in Nat, NEW quantity \in Nat,
           Between(f, first, first + quantity - 1)
    PROVE  f.name \in Names(FieldsIn(fields, Read(first, quantity)))
<1>1. Read(first, quantity).first = first /\ Read(first, quantity).quantity = quantity
  BY DEF Read
<1>2. /\ f.address \in Registers(first, quantity)
      /\ f.address + f.size - 1 \in Registers(first, quantity)
  BY DEF Between, Registers
<1>3. f \in FieldsIn(fields, Read(first, quantity))
  BY <1>1, <1>2 DEF FieldsIn
<1> QED
  BY <1>3 DEF Names

\* The fields of the older stations lie between the ends of their four reads.
ClassicField(f) ==
    /\ f.address \in Nat /\ f.size \in Nat \ {0}
    /\ \/ Between(f, 10, 49) \/ Between(f, 70, 90) \/ Between(f, 3001, 3061)
       \/ Between(f, 91, 209)

LEMMA ClassicFields ==
    \A fields \in {AC200MFields, AC300Fields, AC500Fields, EP500Fields, EP500PFields} :
        \A f \in fields : ClassicField(f)
<1>1. \A f \in Core \cup Internal \cup SplitPhase \cup Packs \cup PackState \cup Controls :
          ClassicField(f)
  BY SMTT(60) DEF Core, Identity, Powers, Internal, SplitPhase, Packs, PackState, Controls,
     OutputControls, Words, Enums, Texts, Versions, SerialNumbers, CellVoltages, Field,
     ClassicField, Between
<1>2. \A f \in AC200MFields : ClassicField(f)
  BY <1>1, SMTT(60) DEF AC200MFields, Controls, Words, Enums, Field, ClassicField, Between
<1>3. \A f \in AC300Fields : ClassicField(f)
  BY <1>1, SMTT(60) DEF AC300Fields, Ranged, Words, Enums, Versions, Field, ClassicField,
     Between
<1>4. \A f \in AC500Fields : ClassicField(f)
  BY <1>1, SMTT(60) DEF AC500Fields, Words, Field, ClassicField, Between
<1>5. \A f \in EP500Fields : ClassicField(f)
  BY <1>1, SMTT(60) DEF EP500Fields, Ranged, Words, Field, ClassicField, Between
<1> QED
  BY <1>2, <1>3, <1>4, <1>5 DEF EP500PFields

\* What the pollers ask of a station covers what is shown of it.
Covered(station) ==
    \A name \in FieldsShown(station) : \E read \in ReadsOf(station) :
        name \in Names(FieldsIn(station.fields, read))

\* The older stations but the EB3A: every field is read.
LEMMA ClassicCovered ==
    ASSUME NEW fields \in {AC200MFields, AC300Fields, AC500Fields, EP500Fields, EP500PFields},
           NEW pack_num_max, NEW writable
    PROVE  Covered(Station(fields, {}, ClassicReads, PackReads, pack_num_max, writable))
<1> DEFINE station == Station(fields, {}, ClassicReads, PackReads, pack_num_max, writable)
<1>1. /\ station.fields = fields /\ station.names = Names(fields)
      /\ station.polling = ClassicReads /\ station.packs = PackReads
  BY DEF Station
<1> HIDE DEF station
<1>2. ReadsOf(station) = {Read(10, 40), Read(70, 21), Read(3001, 61), Read(91, 119)}
  BY <1>1, ReadsOfLists DEF ReadsOf
<1>3. SUFFICES ASSUME NEW f \in fields
               PROVE  \E read \in ReadsOf(station) :
                          f.name \in Names(FieldsIn(fields, read))
  BY <1>1 DEF Covered, FieldsShown, Names, station
<1>4. ClassicField(f)
  BY ClassicFields
<1>5. \/ f.name \in Names(FieldsIn(fields, Read(10, 40)))
      \/ f.name \in Names(FieldsIn(fields, Read(70, 21)))
      \/ f.name \in Names(FieldsIn(fields, Read(3001, 61)))
      \/ f.name \in Names(FieldsIn(fields, Read(91, 119)))
  <2>1. 10 + 40 - 1 = 49 /\ 70 + 21 - 1 = 90 /\ 3001 + 61 - 1 = 3061 /\ 91 + 119 - 1 = 209
    OBVIOUS
  <2>2. CASE Between(f, 10, 49)
    BY <1>4, <2>1, <2>2, BetweenIsParsed DEF ClassicField
  <2>3. CASE Between(f, 70, 90)
    BY <1>4, <2>1, <2>3, BetweenIsParsed DEF ClassicField
  <2>4. CASE Between(f, 3001, 3061)
    BY <1>4, <2>1, <2>4, BetweenIsParsed DEF ClassicField
  <2>5. CASE Between(f, 91, 209)
    BY <1>4, <2>1, <2>5, BetweenIsParsed DEF ClassicField
  <2> QED
    BY <1>4, <2>2, <2>3, <2>4, <2>5 DEF ClassicField
<1> QED
  BY <1>2, <1>5

\* The names that the MQTT client shows, and those it does not.
LEMMA NotShown ==
    \A name \in {"device_type", "serial_number", "arm_version", "dsp_version", "pack_num_max",
                 "battery_type", "battery_serial_number", "bcu_version", "bmu_version",
                 "safety_module_version", "high_voltage_module_version",
                 "max_ac_input_power", "max_ac_input_current", "max_ac_output_power",
                 "max_ac_output_current"} :
        name \notin NORMAL_DEVICE_FIELDS \cup Range(DC_INPUT_FIELDS)
<1>1. Range(DC_INPUT_FIELDS) =
          {"internal_dc_input_voltage", "internal_dc_input_power", "internal_dc_input_current"}
  BY DEF Range, DC_INPUT_FIELDS
<1> QED
  BY <1>1, SMTT(60) DEF NORMAL_DEVICE_FIELDS, InputFields, InputAndGridFields, GridAndOutputFields,
     ConsumptionFields, TotalFields, LimitFields, PowerFields, InternalFields,
     SplitPhaseFields, SumFields, Settable, EP2000ControlFields, ControlFields

\* The EB3A: its two outputs are read at their other register.
LEMMA EB3ACovered == Covered(EB3A)
<1> DEFINE fields == EB3AFields
<1>1. /\ EB3A.fields = fields /\ EB3A.names = Names(fields)
      /\ EB3A.polling = EB3AReads /\ EB3A.packs = <<>>
  BY DEF EB3A, Station
<1>2. {Read(10, 40), Read(70, 21), Read(3034, 1), Read(3060, 7)} \subseteq ReadsOf(EB3A)
  BY <1>1, ReadsOfLists DEF ReadsOf
<1>3. \A f \in fields : f.address \in Nat /\ f.size \in Nat \ {0}
  BY SMTT(60) DEF EB3AFields, Identity, Powers, OutputControls, Words, Enums, Texts, Versions,
     SerialNumbers, Field
<1>4. \A f \in fields :
          \/ f.name = "pack_num_max"
          \/ \E g \in fields : /\ g.name = f.name
                               /\ \/ Between(g, 10, 49) \/ Between(g, 70, 90)
                                  \/ Between(g, 3034, 3034) \/ Between(g, 3060, 3066)
  <2>1. /\ Field("ac_output_on", 48, 1, "plain") \in fields
        /\ Field("dc_output_on", 49, 1, "plain") \in fields
    BY SMTT(60) DEF EB3AFields, Powers, Words, Field
  <2>2. \A f \in fields : \/ f.name \in {"pack_num_max", "ac_output_on", "dc_output_on"}
                          \/ Between(f, 10, 49) \/ Between(f, 70, 90)
                          \/ Between(f, 3034, 3034) \/ Between(f, 3060, 3066)
    BY SMTT(60) DEF EB3AFields, Identity, Powers, OutputControls, Words, Enums, Texts,
       Versions, SerialNumbers, Field, Between
  <2>3. /\ Between(Field("ac_output_on", 48, 1, "plain"), 10, 49)
        /\ Between(Field("dc_output_on", 49, 1, "plain"), 10, 49)
        /\ Field("ac_output_on", 48, 1, "plain").name = "ac_output_on"
        /\ Field("dc_output_on", 49, 1, "plain").name = "dc_output_on"
    BY DEF Field, Between
  <2> HIDE DEF fields
  <2> QED
    BY <2>1, <2>2, <2>3
<1> HIDE DEF fields
<1>5. SUFFICES ASSUME NEW f \in fields, f.name # "pack_num_max"
               PROVE  \E read \in ReadsOf(EB3A) : f.name \in Names(FieldsIn(fields, read))
  BY <1>1, NotShown DEF Covered, FieldsShown, Names
<1>6. PICK g \in fields : /\ g.name = f.name
                          /\ \/ Between(g, 10, 49) \/ Between(g, 70, 90)
                             \/ Between(g, 3034, 3034) \/ Between(g, 3060, 3066)
  BY <1>4, <1>5
<1>7. 10 + 40 - 1 = 49 /\ 70 + 21 - 1 = 90 /\ 3034 + 1 - 1 = 3034 /\ 3060 + 7 - 1 = 3066
  OBVIOUS
<1>8. CASE Between(g, 10, 49)
  BY <1>2, <1>3, <1>6, <1>7, <1>8, BetweenIsParsed
<1>9. CASE Between(g, 70, 90)
  BY <1>2, <1>3, <1>6, <1>7, <1>9, BetweenIsParsed
<1>10. CASE Between(g, 3034, 3034)
  BY <1>2, <1>3, <1>6, <1>7, <1>10, BetweenIsParsed
<1>11. CASE Between(g, 3060, 3066)
  BY <1>2, <1>3, <1>6, <1>7, <1>11, BetweenIsParsed
<1> QED
  BY <1>6, <1>8, <1>9, <1>10, <1>11

\* The encrypted stations: what is shown of them is in their first read, but
\* for the battery range of the EP600.
LEMMA EncryptedCovered ==
    ASSUME NEW fields \in {AC60Fields, EP600Fields},
           NEW f \in fields, f.name \in NORMAL_DEVICE_FIELDS \cup Range(DC_INPUT_FIELDS)
    PROVE  \/ f.name \in Names(FieldsIn(fields, Read(100, 62)))
           \/ fields = EP600Fields /\ f.name \in Names(FieldsIn(fields, Read(2022, 2)))
<1>1. \A g \in EP600Fields : g.address \in Nat /\ g.size \in Nat \ {0}
  BY SMTT(60) DEF AC60Fields, EP600Fields, Words, Texts, Versions, SerialNumbers, Field
<1>2. AC60Fields \subseteq EP600Fields
  BY DEF EP600Fields
<1> DEFINE hidden == {"device_type", "serial_number", "battery_type", "battery_serial_number",
                      "bcu_version", "bmu_version", "safety_module_version",
                      "high_voltage_module_version", "max_ac_input_power",
                      "max_ac_input_current", "max_ac_output_power", "max_ac_output_current"}
<1>3. f.name \notin hidden
  BY NotShown
<1>4. \A g \in AC60Fields :
          \/ g.name \in hidden
          \/ g.name = "power_generation"
          \/ Between(g, 100, 161)
  BY SMTT(60) DEF AC60Fields, Words, Texts, Versions, SerialNumbers, Field, Between
<1>5. \A g \in EP600Fields :
          \/ g \in AC60Fields
          \/ g.name \in hidden
          \/ Between(g, 2022, 2023)
  BY SMTT(60) DEF EP600Fields, Words, Versions, Field, Between
<1>6. 100 + 62 - 1 = 161 /\ 2022 + 2 - 1 = 2023
  OBVIOUS
<1> DEFINE generation == Field("power_generation", 154, 1, "plain")
<1>7. /\ generation \in AC60Fields /\ generation.name = "power_generation"
      /\ Between(generation, 100, 161)
  BY SMTT(60) DEF AC60Fields, Words, Field, Between
<1> HIDE DEF hidden, generation
<1>8. CASE f.name = "power_generation"
  <2>1. generation \in fields /\ generation.address \in Nat /\ generation.size \in Nat \ {0}
    BY <1>1, <1>2, <1>7
  <2>2. generation.name \in Names(FieldsIn(fields, Read(100, 62)))
    BY <1>6, <1>7, <2>1, BetweenIsParsed
  <2> QED
    BY <1>7, <1>8, <2>2
<1>9. CASE Between(f, 100, 161)
  BY <1>1, <1>2, <1>6, <1>9, BetweenIsParsed
<1>10. CASE f \notin AC60Fields
  <2>1. fields = EP600Fields /\ Between(f, 2022, 2023)
    BY <1>3, <1>5, <1>10
  <2> QED
    BY <1>1, <1>6, <2>1, BetweenIsParsed
<1> QED
  BY <1>3, <1>4, <1>8, <1>9, <1>10

\* Hence both are covered.
LEMMA AC60Covered == Covered(AC60) /\ Covered(EP600)
<1>1. /\ AC60.fields = AC60Fields /\ AC60.names = Names(AC60Fields)
      /\ AC60.polling = AC60Reads /\ AC60.packs = <<>>
  BY DEF AC60, Station
<1>2. /\ EP600.fields = EP600Fields /\ EP600.names = Names(EP600Fields)
      /\ EP600.polling = EP600Reads /\ EP600.packs = <<>>
  BY DEF EP600, Station
<1>3. /\ Read(100, 62) \in ReadsOf(AC60)
      /\ Read(100, 62) \in ReadsOf(EP600) /\ Read(2022, 2) \in ReadsOf(EP600)
  BY <1>1, <1>2, ReadsOfLists DEF ReadsOf
<1>4. Covered(AC60)
  <2>1. AC60Fields # EP600Fields
    <3>1. Field("battery_range_start", 2022, 1, "plain") \in EP600Fields
      BY SMTT(60) DEF EP600Fields, Words, Field
    <3>2. Field("battery_range_start", 2022, 1, "plain") \notin AC60Fields
      BY SMTT(60) DEF AC60Fields, Words, Texts, Versions, SerialNumbers, Field
    <3> QED
      BY <3>1, <3>2
  <2>2. ASSUME NEW name \in FieldsShown(AC60)
        PROVE  name \in Names(FieldsIn(AC60Fields, Read(100, 62)))
    <3>1. PICK f \in AC60Fields : f.name = name
      BY <1>1 DEF FieldsShown, Names
    <3> QED
      BY <2>1, <3>1, EncryptedCovered DEF FieldsShown
  <2> QED
    BY <1>1, <1>3, <2>2 DEF Covered
<1>5. Covered(EP600)
  <2>1. ASSUME NEW name \in FieldsShown(EP600)
        PROVE  \/ name \in Names(FieldsIn(EP600Fields, Read(100, 62)))
               \/ name \in Names(FieldsIn(EP600Fields, Read(2022, 2)))
    <3>1. PICK f \in EP600Fields : f.name = name
      BY <1>2 DEF FieldsShown, Names
    <3> QED
      BY <3>1, EncryptedCovered DEF FieldsShown
  <2> QED
    BY <1>2, <1>3, <2>1 DEF Covered
<1> QED
  BY <1>4, <1>5

\* The EP2000: every field lies in one of its reads.
LEMMA EP2000FieldsRead ==
    ASSUME NEW f \in EP2000Fields
    PROVE  \E i \in DOMAIN EP2000Reads : f \in FieldsIn(EP2000Fields, EP2000Reads[i])
<1>1. \/ Between(f, 100, 159) \/ Between(f, 1100, 1169) \/ Between(f, 1200, 1291)
      \/ Between(f, 1300, 1330) \/ Between(f, 1400, 1459) \/ Between(f, 1509, 1538)
      \/ Between(f, 2000, 2059) \/ Between(f, 2200, 2299) \/ Between(f, 2400, 2439)
      \/ Between(f, 12002, 12017)
  BY SMTT(60) DEF EP2000Fields, PhaseFields, Phase, Words, Texts, SerialNumbers, Totals32,
     Field, Between
<1>2. ASSUME NEW i \in DOMAIN EP2000Reads, NEW first \in Nat, NEW quantity \in Nat,
             EP2000Reads[i].first = first, EP2000Reads[i].quantity = quantity,
             Between(f, first, first + quantity - 1)
      PROVE  f \in FieldsIn(EP2000Fields, EP2000Reads[i])
  <2>1. /\ f.address \in Registers(first, quantity)
        /\ f.address + f.size - 1 \in Registers(first, quantity)
    BY <1>2, EP2000FieldType DEF Between, Registers
  <2> QED
    BY <1>2, <2>1 DEF FieldsIn
<1>3. /\ DOMAIN EP2000Reads = 1..13
      /\ EP2000Reads[1].first = 100 /\ EP2000Reads[1].quantity = 60
      /\ EP2000Reads[2].first = 1100 /\ EP2000Reads[2].quantity = 70
      /\ EP2000Reads[3].first = 1200 /\ EP2000Reads[3].quantity = 92
      /\ EP2000Reads[4].first = 1300 /\ EP2000Reads[4].quantity = 31
      /\ EP2000Reads[5].first = 1400 /\ EP2000Reads[5].quantity = 60
      /\ EP2000Reads[6].first = 1509 /\ EP2000Reads[6].quantity = 30
      /\ EP2000Reads[7].first = 2000 /\ EP2000Reads[7].quantity = 60
      /\ EP2000Reads[8].first = 2200 /\ EP2000Reads[8].quantity = 100
      /\ EP2000Reads[9].first = 2400 /\ EP2000Reads[9].quantity = 40
      /\ EP2000Reads[13].first = 12002 /\ EP2000Reads[13].quantity = 16
  BY DEF EP2000Reads, Read, ReadSlave
<1>4. /\ 100 + 60 - 1 = 159 /\ 1100 + 70 - 1 = 1169 /\ 1200 + 92 - 1 = 1291
      /\ 1300 + 31 - 1 = 1330 /\ 1400 + 60 - 1 = 1459 /\ 1509 + 30 - 1 = 1538
      /\ 2000 + 60 - 1 = 2059 /\ 2200 + 100 - 1 = 2299 /\ 2400 + 40 - 1 = 2439
      /\ 12002 + 16 - 1 = 12017
  OBVIOUS
<1>5. CASE Between(f, 100, 159)
  BY <1>2, <1>3, <1>4, <1>5
<1>6. CASE Between(f, 1100, 1169)
  BY <1>2, <1>3, <1>4, <1>6
<1>7. CASE Between(f, 1200, 1291)
  BY <1>2, <1>3, <1>4, <1>7
<1>8. CASE Between(f, 1300, 1330)
  BY <1>2, <1>3, <1>4, <1>8
<1>9. CASE Between(f, 1400, 1459)
  BY <1>2, <1>3, <1>4, <1>9
<1>10. CASE Between(f, 1509, 1538)
  BY <1>2, <1>3, <1>4, <1>10
<1>11. CASE Between(f, 2000, 2059)
  BY <1>2, <1>3, <1>4, <1>11
<1>12. CASE Between(f, 2200, 2299)
  BY <1>2, <1>3, <1>4, <1>12
<1>13. CASE Between(f, 2400, 2439)
  BY <1>2, <1>3, <1>4, <1>13
<1>14. CASE Between(f, 12002, 12017)
  BY <1>2, <1>3, <1>4, <1>14
<1> QED
  BY <1>1, <1>5, <1>6, <1>7, <1>8, <1>9, <1>10, <1>11, <1>12, <1>13, <1>14

\* Both halves of a total lie in the first of them.
LEMMA TotalsRead ==
    ASSUME NEW t \in Totals32
    PROVE  t[1] \in Combined(Names(FieldsIn(EP2000Fields, EP2000Reads[1])))
<1> DEFINE low == Field(t[2], t[4], 1, "plain")
           high == Field(t[3], t[4] + 1, 1, "plain")
           parsed == Names(FieldsIn(EP2000Fields, EP2000Reads[1]))
<1>1. /\ low \in EP2000Fields /\ high \in EP2000Fields
      /\ low.name = t[2] /\ low.address = t[4] /\ low.size = 1
      /\ high.name = t[3] /\ high.address = t[4] + 1 /\ high.size = 1
  BY HalvesOfTotal DEF Field
<1>2. t[4] \in 140..158
  BY DEF Totals32
<1>3. EP2000Reads[1] = Read(100, 60) /\ 100 + 60 - 1 = 159
  BY DEF EP2000Reads
<1>4. Between(low, 100, 159) /\ Between(high, 100, 159)
  BY <1>1, <1>2 DEF Between
<1> HIDE DEF low, high
<1>5. low.name \in parsed /\ high.name \in parsed
  BY <1>1, <1>2, <1>3, <1>4, BetweenIsParsed
<1> QED
  BY <1>1, <1>5 DEF Combined

\* Whatever the MQTT client shows of a station, of any of the nine kinds, is in
\* one of the reads that polling_commands and pack_polling_commands list: no topic
\* is announced that no read can fill.
THEOREM WhatIsShownIsRead ==
    ASSUME NEW station \in DOMAIN Stations,
           NEW name \in FieldsShown(Stations[station])
    PROVE  \E read \in ReadsOf(Stations[station]) : name \in parse(station, read, {})
<1>1. ASSUME Covered(Stations[station])
      PROVE  \E read \in ReadsOf(Stations[station]) : name \in parse(station, read, {})
  <2>1. PICK read \in ReadsOf(Stations[station]) :
            name \in Names(FieldsIn(Stations[station].fields, read))
    BY <1>1 DEF Covered
  <2>2. name \in parse(station, read, {})
    BY <2>1 DEF parse
  <2> QED
    BY <2>2
<1>2. CASE station \in {"AC200M", "AC300", "AC500", "EP500", "EP500P"}
  <2>1. Covered(AC200M) /\ Covered(AC300) /\ Covered(AC500) /\ Covered(EP500) /\ Covered(EP500P)
    BY ClassicCovered DEF AC200M, AC300, AC500, EP500, EP500P
  <2> QED
    BY <1>1, <1>2, <2>1 DEF Stations
<1>3. CASE station \in {"EB3A", "AC60", "EP600"}
  BY <1>1, <1>3, EB3ACovered, AC60Covered DEF Stations
<1>4. CASE station = "EP2000"
  <2>1. /\ Stations[station].fields = EP2000Fields
        /\ Stations[station].names = Names(EP2000Fields) \cup CalculatedFields
        /\ Stations[station].polling = EP2000Reads
    BY <1>4 DEF Stations, EP2000, Station
  <2>2. \A i \in DOMAIN EP2000Reads : EP2000Reads[i] \in ReadsOf(Stations[station])
    BY <2>1 DEF ReadsOf, Range
  <2>3. 1 \in DOMAIN EP2000Reads
    BY DEF EP2000Reads
  <2>4. CASE \E f \in EP2000Fields : f.name = name
    <3>1. PICK f \in EP2000Fields : f.name = name
      BY <2>4
    <3>2. PICK i \in DOMAIN EP2000Reads : f \in FieldsIn(EP2000Fields, EP2000Reads[i])
      BY EP2000FieldsRead
    <3>3. name \in parse(station, EP2000Reads[i], {})
      BY <2>1, <3>1, <3>2 DEF parse, Names
    <3> QED
      BY <2>2, <3>3
  <2>5. CASE \E t \in Totals32 : t[1] = name
    <3>1. name \in parse(station, EP2000Reads[1], {})
      BY <1>4, <2>1, <2>5, TotalsRead DEF parse
    <3> QED
      BY <2>2, <2>3, <3>1
  <2>6. CASE name \in Sums
    <3>1. name \in parse(station, EP2000Reads[1], {})
      BY <1>4, <2>6 DEF parse
    <3> QED
      BY <2>2, <2>3, <3>1
  <2> QED
    BY <2>1, <2>4, <2>5, <2>6 DEF FieldsShown, CalculatedFields, Names
<1> QED
  BY <1>2, <1>3, <1>4 DEF Stations
=============================================================================
