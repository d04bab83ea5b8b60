--------------------------- MODULE ConfigPayloads ---------------------------
(* What a device configuration does to the payloads that pass between the hub   *)
(* and a device: how a file is normalised                                       *)
(* (device-configs/device-configs-parser.service.ts), how names and values are  *)
(* translated (device-configs/device-configs-mapper.service.ts), and what is    *)
(* accepted (device-configs/device-configs-validator.service.ts,                *)
(* device-configs/validators/device-config-item.validators.ts).                 *)
(*                                                                             *)
(* The state is a file that is written item by item. The properties say which   *)
(* files an author may rely on: that a value the hub sent comes back as it was, *)
(* and that what a scenario waits for can be reported.                          *)
EXTENDS Integers, Sequences, SequencesExt

CONSTANTS
    RawItems,       \* the items that files declare
    MaxItems,       \* bound on the items of a file
    Absent,         \* a field that an item leaves out
    Values,         \* values of payloads, see Value
    Numerals,       \* texts that JavaScript's Number accepts
    Refused         \* the texts that violate a constraint, for each constraint

VARIABLES
    file,           \* the items of each section, as written
    strict          \* whether items that the file does not declare are refused

vars == <<file, strict>>

Sections == {"commands", "controls", "measurements"}
SectionOrder == <<"commands", "controls", "measurements">>
ItemTypes == {"number", "boolean", "string", "enum", "object"}

\* A value of a payload with its JavaScript type; the text is what String(value)
\* gives.
Value(type, text) == [type |-> type, text |-> text]
Text(t) == Value("string", t)
Bool(b) == Value("boolean", IF b THEN "true" ELSE "false")
Null == Value("null", "null")
IsValue(v) == /\ v = Value(v.type, v.text)
              /\ v.type = "boolean" => v.text \in {"true", "false"}

ASSUME ValuesAssumption == \A v \in Values : IsValue(v)
\* DeviceConfigItemSchema: an item lists its values, and has a value as its default.
ASSUME ItemsAssumption == \A raw \in RawItems :
    /\ raw = [name |-> raw.name, path |-> raw.path, type |-> raw.type, values |-> raw.values,
              constraints |-> raw.constraints, default |-> raw.default, required |-> raw.required]
    /\ raw.values \in Seq(ToSet(raw.values)) /\ IsValue(raw.default)
\* There are enough values: for each path that an item declares, one with its text.
ASSUME PathsAssumption == \A raw \in RawItems : \A v \in ToSet(raw.values) :
    v.path # Absent => \E w \in Values : w.text = v.path

Translates(item) == item.type \in {"boolean", "enum"}
Given(field, otherwise) == IF field = Absent THEN otherwise ELSE field

\* The elements of a sequence that are in S, in their order, as Array.filter.
Kept(s, S) == FoldLeft(LAMBDA kept, x : IF x \in S THEN Append(kept, x) ELSE kept, <<>>, s)
\* The first of a sequence with a name or a path, as Array.find.
HasNamed(s, name) == \E i \in DOMAIN s : s[i].name = name
Named(s, name) == s[SelectInSeq(s, LAMBDA x : x.name = name)]
HasPath(s, path) == \E i \in DOMAIN s : s[i].path = path
AtPath(s, path) == s[SelectInSeq(s, LAMBDA x : x.path = path)]

(* --------------------------------- Validation ----------------------------- *)

ApplicableConstraints ==
    [t \in ItemTypes |-> CASE t = "number" -> {"min", "max", "integer"}
                           [] t = "string" -> {"minLength", "maxLength", "pattern", "format"}
                           [] OTHER -> {}]

Conforms(item, value) == \A c \in item.constraints : value.text \notin Refused[c]
EntryNames(item) == {item.values[i].name : i \in DOMAIN item.values}

\* validateItemValue; an enumeration compares texts, whatever the value's type is.
ValidValue(item, value) ==
    \/ value = Null
    \/ item.type = "enum" /\ EntryNames(item) # {} /\ value.text \in EntryNames(item)
    \/ item.type = "enum" /\ EntryNames(item) = {} /\ value.type = "string"
    \/ item.type # "enum" /\ value.type = item.type /\ Conforms(item, value)

(* ----------------------------------- Parsing ------------------------------ *)

NamedEntries(raw) == Kept(raw.values, {v \in ToSet(raw.values) : v.name # Absent})

\* Fault: the default is judged before the values are there.
NormalizedEarly(raw) ==
    LET constraints == raw.constraints \cap ApplicableConstraints[raw.type]
        item == [raw EXCEPT !.constraints = constraints, !.values = <<>>]
    IN  [raw EXCEPT !.constraints = constraints,
                    !.values = NamedEntries(raw),
                    !.default = IF ValidValue(item, @) THEN @ ELSE Null]
\* normalizeItem: constraints that do not apply, values without a name and
\* defaults that the item itself refuses are left out.
Normalized(raw) ==
    LET item == [raw EXCEPT
            !.constraints = @ \cap ApplicableConstraints[raw.type],
            !.values = NamedEntries(raw)]
    IN  [item EXCEPT !.default = IF ValidValue(item, @) THEN @ ELSE Null]

\* normalizeItems, buildConfig: an item without a name or of no known type is skipped.
Known == {raw \in RawItems : raw.name # Absent /\ raw.type \in ItemTypes}
Config == [s \in Sections |->
    LET known == Kept(file[s], Known)
    IN  [i \in DOMAIN known |-> Normalized(known[i])]]

(* -------------------------- Translation to a device ----------------------- *)

\* A payload is a JavaScript object: a sequence of fields with different names,
\* in which an assignment to a name that is there keeps its place.
Field(name, value) == [name |-> name, value |-> value]
Assign(fields, f) ==
    IF HasNamed(fields, f.name)
    THEN [i \in DOMAIN fields |-> IF fields[i].name = f.name THEN f ELSE fields[i]]
    ELSE Append(fields, f)
Assigned(base, fields) == FoldLeft(Assign, base, fields)

DeviceName(item) == Given(item.path, item.name)

\* mapValueToDevice: of an item that is neither boolean nor an enumeration, the
\* path is sent in place of the value.
ValueToDevice(item, value) ==
    CASE Translates(item) /\ HasNamed(item.values, value.text) ->
           LET path == Named(item.values, value.text).path
           IN  IF path = Absent THEN value ELSE Text(path)
      [] Translates(item) /\ ~HasNamed(item.values, value.text) -> value
      [] OTHER -> IF item.path = Absent THEN value ELSE Text(item.path)

\* mapPayloadToDevice: commands and controls are looked up in one list.
ToDevice(config, fields) ==
    LET items == config["commands"] \o config["controls"]
        sent(f) ==
            IF HasNamed(items, f.name)
            THEN LET item == Named(items, f.name)
                 IN  Field(DeviceName(item), ValueToDevice(item, f.value))
            ELSE f
    IN  IF items = <<>> THEN fields ELSE Assigned(<<>>, [k \in DOMAIN fields |-> sent(fields[k])])

(* ------------------------- Translation from a device ---------------------- *)

\* Fault: an item is chosen by its path alone.
HasFieldAnyValue(item, f) == DeviceName(item) = f.name
\* findConfigItem: a boolean or an enumeration must know the value as well.
HasField(item, f) ==
    /\ DeviceName(item) = f.name
    /\ Translates(item) =>
           HasPath(item.values, f.value.text) \/ HasNamed(item.values, f.value.text)

\* JavaScript's Number(value), of what is not a number the value itself.
AsNumber(value) ==
    CASE value.type = "boolean" -> Value("number", IF value.text = "true" THEN "1" ELSE "0")
      [] value = Null -> Value("number", "0")
      [] value.type = "string" /\ value.text \in Numerals -> Value("number", value.text)
      [] OTHER -> value

\* Fault: a boolean comes back as the name of its value.
ValueFromDeviceNamed(item, value) ==
    LET byPath == HasPath(item.values, value.text)
        byName == HasNamed(item.values, value.text)
        entry == IF byPath THEN AtPath(item.values, value.text) ELSE Named(item.values, value.text)
    IN  CASE Translates(item) /\ ~byPath /\ ~byName -> value
          [] item.type = "number" -> AsNumber(value)
          [] item.type \in {"string", "object"} -> value
          [] OTHER -> Text(entry.name)
\* mapValueFromDevice: paths are looked at before names.
ValueFromDevice(item, value) ==
    LET byPath == HasPath(item.values, value.text)
        byName == HasNamed(item.values, value.text)
        entry == IF byPath THEN AtPath(item.values, value.text) ELSE Named(item.values, value.text)
    IN  CASE Translates(item) /\ ~byPath /\ ~byName -> value
          [] item.type = "number" -> AsNumber(value)
          [] item.type \in {"string", "object"} -> value
          [] item.type = "boolean" -> Bool(entry.name = "true")
          [] OTHER -> Text(entry.name)

\* A field of which a section has an item, as the hub names it.
Knows(config, section, f) == \E i \in DOMAIN config[section] : HasField(config[section][i], f)
Taker(items, f) == items[SelectInSeq(items, LAMBDA i : HasField(i, f))]
Heard(config, section, f) ==
    LET item == Taker(config[section], f)
    IN  Field(item.name, ValueFromDevice(item, f.value))

\* Fault: a field without an item is dropped here, too.
FromDeviceStrict(config, section, fields) ==
    LET known == Kept(fields, {f \in ToSet(fields) : Knows(config, section, f)})
    IN  IF config[section] = <<>> THEN fields
        ELSE Assigned(<<>>, [k \in DOMAIN known |-> Heard(config, section, known[k])])
\* mapPayloadFromDevice, for devices on MQTT: unknown fields stay as they are.
FromDevice(config, section, fields) ==
    IF config[section] = <<>> THEN fields
    ELSE Assigned(<<>>, [k \in DOMAIN fields |->
             IF Knows(config, section, fields[k]) THEN Heard(config, section, fields[k])
                                                  ELSE fields[k]])

\* assignToSection: the first section with an item for the field takes it.
SectionOf(config, f) == SelectInSeq(SectionOrder, LAMBDA s : Knows(config, s, f))
\* categorizeAndMapPayloadFromDevice, for Zigbee devices: unknown fields are dropped.
Categorized(config, fields) == [s \in Sections |->
    LET own == Kept(fields, {f \in ToSet(fields) :
                   SectionOf(config, f) # 0 /\ SectionOrder[SectionOf(config, f)] = s})
    IN  Assigned(<<>>, [k \in DOMAIN own |-> Heard(config, s, own[k])])]

(* --------------------------- What is accepted ----------------------------- *)

\* validateField: of the first item of that name, if there is one.
AcceptsField(config, section, f) ==
    IF HasNamed(config[section], f.name) THEN ValidValue(Named(config[section], f.name), f.value)
                                         ELSE ~strict
\* validateRequiredItems
Missing(config, section, fields) ==
    {item \in ToSet(config[section]) : item.required /\
        ~\E f \in ToSet(fields) : f.name = item.name /\ f.value # Null}
\* collectErrors, with and without the required items: of a payload that is to be
\* written, and of one that a scenario compares with what is reported.
PayloadErrors(config, section, fields) ==
    {f.name : f \in {g \in ToSet(fields) : ~AcceptsField(config, section, g)}}
        \cup {item.name : item \in Missing(config, section, fields)}
ConditionErrors(config, section, fields) ==
    {f.name : f \in {g \in ToSet(fields) : ~AcceptsField(config, section, g)}}
\* validateConditions of ScenariosValidatorService: a scenario with such conditions
\* on a device of this configuration is not saved.
ScenarioRefused(config, are) == \E s \in Sections : ConditionErrors(config, s, are[s]) # {}
\* sanitizePayload; the override flag is left out (it is in module Devices).
Sanitized(config, section, fields) ==
    Kept(fields, {f \in ToSet(fields) : AcceptsField(config, section, f)})
\* buildDefaultPayload
Defaults(config, section) ==
    Assigned(<<>>, [i \in DOMAIN config[section] |->
                       Field(config[section][i].name, config[section][i].default)])

(* ------------------------------ Specification ----------------------------- *)

Init == file = [s \in Sections |-> <<>>] /\ strict \in BOOLEAN

Written == Len(file["commands"]) + Len(file["controls"]) + Len(file["measurements"])
Declare(s, raw) ==
    /\ Written < MaxItems
    /\ file' = [file EXCEPT ![s] = Append(@, raw)]
    /\ UNCHANGED strict

Next == \E s \in Sections, raw \in RawItems : Declare(s, raw)

Spec == Init /\ [][Next]_vars

(* ---------------------------- Clear configurations ------------------------ *)

\* What a device sends for the values of an item, and what the hub looks for.
Sent(item) == {Given(item.values[i].path, item.values[i].name) : i \in DOMAIN item.values}
Understood(item) == Sent(item) \cup EntryNames(item)

\* No two values of an item are the same to the device.
Injective(item) == \A i, j \in DOMAIN item.values :
    Given(item.values[i].path, item.values[i].name)
        = Given(item.values[j].path, item.values[j].name) => i = j

\* The item e never takes a field that was meant for i.
Apart(i, e) ==
    \/ DeviceName(i) # DeviceName(e)
    \/ /\ Translates(i) /\ Translates(e)
       /\ i.values # <<>>
       /\ Sent(i) \cap Understood(e) = {}

ItemNames == {item.name : item \in RawItems} \ {Absent}

Places(config) == UNION {{s} \X DOMAIN config[s] : s \in Sections}
\* Names are unique, in a section and among what can be sent to a device, and
\* what is reported has one item that knows it.
Clear(config) ==
    \A p, q \in Places(config) : p # q =>
        LET i == config[p[1]][p[2]]
            e == config[q[1]][q[2]]
        IN  /\ Apart(i, e)
            /\ i.name = e.name => p[1] # q[1] /\ "measurements" \in {p[1], q[1]}

\* A boolean names both its values.
Complete(item) ==
    /\ item.values # <<>> /\ Injective(item)
    /\ item.type = "boolean" => EntryNames(item) = {"true", "false"}
\* The hub knows what it is told about the item: a number, a text or an object
\* as it is, a boolean or an enumeration by its values.
Reportable(item, value) ==
    IF Translates(item)
    THEN Complete(item) /\ value.type = (IF item.type = "enum" THEN "string" ELSE "boolean")
    ELSE value.type = item.type
\* It also sends what it was told to send: not the path (see ValueToDevice).
Settable(item, value) == Reportable(item, value) /\ (Translates(item) \/ item.path = Absent)

\* Payloads of one or two fields.
Payloads(config, section) ==
    LET fields == {Field(config[section][i].name, v) : i \in DOMAIN config[section], v \in Values}
    IN  {<<f>> : f \in fields}
        \cup {<<p[1], p[2]>> : p \in {q \in fields \X fields : q[1].name # q[2].name}}

ItemOf(config, section, f) == Named(config[section], f.name)
\* A payload that the hub accepts, one field for each place on the device.
Acceptable(config, fields) ==
    /\ PayloadErrors(config, "controls", fields) = {}
    /\ \A k \in DOMAIN fields : fields[k].value # Null
    /\ \A k, l \in DOMAIN fields : k # l =>
           DeviceName(ItemOf(config, "controls", fields[k]))
               # DeviceName(ItemOf(config, "controls", fields[l]))

(* -------------------------------- Properties ------------------------------ *)

(* A Zigbee device that reports the controls it was sent leaves the stored ones *)
(* as they are: translating there and back, sorting into sections and dropping  *)
(* what is refused lose and change nothing (categorizeAndMapPayloadFromDevice   *)
(* after mapPayloadToDevice), if the configuration is clear.                    *)
ZigbeeEcho ==
    LET config == Config IN
    Clear(config) => \A fields \in Payloads(config, "controls") :
        /\ Acceptable(config, fields)
        /\ \A k \in DOMAIN fields : Settable(ItemOf(config, "controls", fields[k]), fields[k].value)
        => LET heard == Categorized(config, ToDevice(config, fields))
           IN  /\ ToSet(Sanitized(config, "controls", heard["controls"])) = ToSet(fields)
               /\ heard["commands"] = <<>> /\ heard["measurements"] = <<>>

(* So does a device on MQTT (mapPayloadFromDevice), whose booleans and          *)
(* enumerations need not declare their values if they have no path.             *)
MqttEcho ==
    LET config == Config IN
    Clear(config) => \A fields \in Payloads(config, "controls") :
        /\ Acceptable(config, fields)
        /\ \A k \in DOMAIN fields :
               LET item == ItemOf(config, "controls", fields[k])
               IN  \/ Settable(item, fields[k].value)
                   \/ Translates(item) /\ item.path = Absent /\ item.values = <<>>
        => ToSet(Sanitized(config, "controls",
               FromDevice(config, "controls", ToDevice(config, fields)))) = ToSet(fields)

(* The payload that a new device starts with is one that the hub would accept   *)
(* from a client: every default was judged by the rules that updates are judged *)
(* by (normalizeDefault, buildDefaultPayloads). A repeated name takes the rules *)
(* of its first item and the default of its last, so names must be unique.      *)
DefaultsAccepted ==
    LET config == Config IN
    Clear(config) => \A s \in Sections : \A k \in DOMAIN Defaults(config, s) :
        AcceptsField(config, s, Defaults(config, s)[k])

(* A scenario is not saved with a condition that the device can never report:   *)
(* "a condition on a section the config does not declare can never be met and   *)
(* is reported as an error" (collectConditionErrors, validateConditions); a     *)
(* configuration that is not strict lets undeclared names pass. Empty values,   *)
(* objects (compared by identity) and values that the item does not declare are *)
(* left out: those conditions are accepted and never met.                       *)
ConditionsMeetable ==
    LET config == Config IN
    Clear(config) => \A s \in Sections, n \in ItemNames, v \in Values :
        LET condition == Field(n, v)
            declared == HasNamed(config[s], n)
            item == Named(config[s], n)
        IN  /\ ~ScenarioRefused(config, [t \in Sections |-> IF t = s THEN <<condition>> ELSE <<>>])
            /\ IF declared THEN Reportable(item, v) /\ v.type # "object" ELSE strict
            => declared /\ \E w \in Values :
                   condition \in ToSet(Sanitized(config, s,
                       Categorized(config, <<Field(DeviceName(item), w)>>)[s]))
=============================================================================
