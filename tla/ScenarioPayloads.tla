-------------------------- MODULE ScenarioPayloads --------------------------
(* A scenario whose trigger and actions speak of a device's payloads: what of it *)
(* is saved (scenarios/scenarios-validator.service.ts and the schemas of its     *)
(* sources and actions), what executing it makes of the device                  *)
(* (scenarios-execution.service.ts, devices.service.ts), and what a scenario that *)
(* waits for it sees (common/services/conditions-evaluator.service.ts).          *)
(*                                                                             *)
(* The device's configuration is the file of ConfigPayloads.                    *)
EXTENDS ConfigPayloads

CONSTANTS
    Device,         \* a device with this configuration
    Gone,           \* the id of a device that is not there
    BrandRefused    \* the fields that the DTO of the device's brand refuses, each by itself

\* A source or an action, and the sections it speaks of; the others are Absent.
Nowhere == [s \in Sections |-> Absent]
DeviceSource(d, are) == [type |-> "device", device |-> d, are |-> are]
CronSource == [type |-> "cron", device |-> Absent, are |-> Nowhere]
Action(d, set) == [device |-> d, set |-> set]

(* --------------------------------- Saving --------------------------------- *)

\* resolveDevices: the devices that are named and found.
Resolved(sources, actions) ==
    ({source.device : source \in {s \in ToSet(sources) : s.type = "device"}}
        \cup {action.device : action \in ToSet(actions)}) \cap {Device}

\* validateConditions and validateActions, of one source or action.
UnknownConditions(config, source) ==
    {s \in Sections : source.are[s] # Absent /\ ConditionErrors(config, s, source.are[s]) # {}}
UnfitPayloads(config, action) ==
    {s \in {"controls", "measurements"} :
        action.set[s] # Absent /\ PayloadErrors(config, s, action.set[s]) # {}}

\* validateScenario
Validated(config, sources, actions) ==
    LET devices == Resolved(sources, actions)
    IN  /\ \A source \in ToSet(sources) : source.type = "device" =>
               source.device \in devices /\ UnknownConditions(config, source) = {}
        /\ \A action \in ToSet(actions) :
               action.device \in devices /\ UnfitPayloads(config, action) = {}

\* validateDeviceExternalId and validateScenarioAction.
Empty(payload) == payload \in {Absent, <<>>}
Storable(sources, actions) ==
    /\ \A source \in ToSet(sources) : source.type = "device" =>
           \E s \in Sections : ~Empty(source.are[s])
    /\ \A action \in ToSet(actions) :
           ~Empty(action.set["controls"]) \/ ~Empty(action.set["measurements"])

Saved(config, sources, actions) == Validated(config, sources, actions) /\ Storable(sources, actions)

(* -------------------------------- Executing ------------------------------- *)

\* Fault: what is stored wins.
MergedUnder(payload, stored) == Assigned(payload, stored)
\* mergePayload
Merged(payload, stored) == Assigned(stored, payload)

\* validatePayload: the DTO of the brand judges all the merged controls, those that
\* were stored before it was asked as well.
BrandRefuses(merged) == ToSet(merged) \cap BrandRefused # {}

\* mergeValidateControls, of what the configuration accepts; what is thrown leaves
\* the document as it was.
Updated(controls, stored) ==
    IF BrandRefuses(Merged(controls, stored)) THEN stored ELSE Merged(controls, stored)

\* executeScenario has the controls updated, and nothing else; updateDevice
\* refuses what the configuration does, and then what the brand does.
Executed(config, stored, action) ==
    LET controls == action.set["controls"]
    IN  IF controls = Absent \/ PayloadErrors(config, "controls", controls) # {} THEN stored
        ELSE Updated(controls, stored)

\* setControls sends all the controls that have a value (stripEmptyValues); the
\* device reports them, and they are merged and judged again.
Stripped(payload) == Kept(payload, {f \in ToSet(payload) : f.value # Null})
Echo(config, stored) ==
    Updated(Sanitized(config, "controls",
                Categorized(config, ToDevice(config, Stripped(stored)))["controls"]), stored)

\* deviceConditionIsMet, of the controls; objects are compared by identity.
IsMet(source, controls) ==
    source.are["controls"] # Absent =>
        \A f \in ToSet(source.are["controls"]) : f.value.type # "object" /\ f \in ToSet(controls)

(* -------------------------------- Properties ------------------------------ *)

Fields(config) == {Field(config["controls"][i].name, v) : i \in DOMAIN config["controls"], v \in Values}
\* What a device may hold: the defaults it started with and one update.
Holdings(config) ==
    LET start == Defaults(config, "controls")
    IN  {start} \cup {Executed(config, start, Action(Device, [Nowhere EXCEPT !["controls"] = <<f>>])) : f \in Fields(config)}

\* All that is sent can be set, each field at a place of its own.
Sendable(config, fields) ==
    /\ \A k \in DOMAIN fields :
           /\ HasNamed(config["controls"], fields[k].name)
           /\ Settable(ItemOf(config, "controls", fields[k]), fields[k].value)
    /\ \A k, l \in DOMAIN fields : k # l =>
           DeviceName(ItemOf(config, "controls", fields[k]))
               # DeviceName(ItemOf(config, "controls", fields[l]))

\* The stored controls that are as the device started with them.
FromStart(config, stored) == ToSet(stored) \cap ToSet(Defaults(config, "controls"))
\* What the brand has against a control that is set: itself, or others that are.
Objections(config, f, stored) ==
    ({f} \cup {g \in FromStart(config, stored) : g.name # f.name}) \cap BrandRefused

(* A scenario that was saved does what it says, unless the brand refuses: if its *)
(* action sets a control to a value and another scenario waits for that value,   *)
(* the condition is met after the execution, and still after the device reported *)
(* what it was sent: the configuration, whose rules validateActions applied when *)
(* the scenario was saved, accepts the action, merging keeps it, and translating *)
(* all stored controls there and back puts none of the others in its place.  The *)
(* brand's DTO is not asked before the execution.  What it refuses is the value  *)
(* the action sets, or the default of another control that nothing has replaced: *)
(* defaults are stored without asking it, and then bar every action of the       *)
(* device; no value that an earlier update stored does.  A refused execution     *)
(* leaves the device as it was.  Objects are left out: a condition on one is     *)
(* never met.                                                                    *)
ActionMeets ==
    LET config == Config IN
    Clear(config) => \A f \in Fields(config), d \in {Device, Gone}, stored \in Holdings(config) :
        LET payload == [Nowhere EXCEPT !["controls"] = <<f>>]
            waiting == DeviceSource(d, payload)
            acting == Action(d, payload)
            after == Executed(config, stored, acting)
        IN  /\ f.value.type # "object"
            /\ Saved(config, <<waiting>>, <<>>) /\ Saved(config, <<CronSource>>, <<acting>>)
            /\ Sendable(config, Stripped(Merged(<<f>>, stored)))
            => /\ d = Device
               /\ Objections(config, f, stored) # {} => after = stored
               /\ Objections(config, f, stored) = {} =>
                     IsMet(waiting, after) /\ IsMet(waiting, Echo(config, after))
=============================================================================
