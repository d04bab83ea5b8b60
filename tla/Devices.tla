------------------------------- MODULE Devices -------------------------------
(* The devices service: the stored devices with their controls and             *)
(* measurements, the updates that reach them from the API, from the devices    *)
(* themselves and from changed configurations, and the controls that are sent  *)
(* to a device (devices/devices.service.ts, devices/devices-mqtt.service.ts,   *)
(* devices-control/devices-control.service.ts,                                 *)
(* device-configs/device-configs-validator.service.ts).                        *)
(*                                                                             *)
(* Every request is a handler that reads the document, awaits the              *)
(* configuration, may await the device, and saves what it computed from the    *)
(* document it read; other handlers run between its steps.                     *)
EXTENDS Naturals, Sequences, FiniteSets

CONSTANTS
    Ids,            \* devices; each has a name and an address of its own
    Controls,       \* names of controls
    Measurements,   \* names of measurements
    Values,         \* values the configurations and the brand DTOs accept
    Bad,            \* a value they refuse
    Null,           \* the entry of a declared item without a default
    Absent,         \* no entry of that name
    NoDevice,       \* no document
    CKeys,          \* configuration keys (brand, type, protocol)
    NoKey,          \* an update that leaves the key alone
    Configs,        \* configurations: strictness and declared items with defaults
    NoConfig,       \* no configuration for a key
    Undeclared,     \* an item a configuration does not declare
    Procs,          \* handlers in flight
    NoRequest,
    Exclusive,      \* TRUE: handlers that write the same section take turns
    MaxSends,       \* bound on controls lost on their way to a device
    MaxCalls        \* bound on requests and on actions of the devices

VARIABLES
    docs,       \* the stored devices
    config,     \* what getConfig answers
    device,     \* the controls the physical devices have
    reports,    \* states the devices published, not yet received
    proc,       \* the handlers
    astray,     \* hub and device may differ: a message was lost or refused, or
                \* a default was filled in that the device was not told
    loose,      \* an override or a new key since the last reconciliation
    lost, calls \* counters for the bounds

vars == <<docs, config, device, reports, proc, astray, loose, lost, calls>>

Items == Controls \cup Measurements
SectionOf(i) == IF i \in Controls THEN Controls ELSE Measurements
Named(pay) == {i \in Items : pay[i] # Absent}
Touched(pay) == UNION {SectionOf(i) : i \in Named(pay)}
Entries == Values \cup {Bad, Null, Absent}
Payloads == [Items -> Entries]
Nothing == [i \in Items |-> Absent]
Only(i, v) == [Nothing EXCEPT ![i] = v]
Doc == [key : CKeys \cup {NoKey}, val : Payloads]
Blank == [key |-> NoKey, val |-> Nothing]

ASSUME Sections == Controls \cap Measurements = {}
ASSUME Sentinels == /\ {Bad, Null, Absent} \cap Values = {}
                    /\ Bad # Null /\ Absent \notin {Bad, Null}
ASSUME Bounds == MaxSends \in Nat /\ MaxCalls \in Nat
ASSUME ConfigShape == Configs \subseteq
           [strict : BOOLEAN, item : [Items -> Values \cup {Null, Undeclared}]]
ASSUME NoSuch ==
    /\ NoDevice \notin Doc \cup Payloads \cup [set : SUBSET Items, unset : SUBSET Items]
    /\ NoRequest \notin [kind : {"update", "add", "remove"}, id : Ids, pay : Payloads,
                         override : BOOLEAN, part : BOOLEAN]
    /\ NoRequest \notin [kind : {"reconcile"}, declarations : SUBSET SUBSET Items]

(* -------------------------------- Validation ------------------------------ *)

Declares(c, i) == c # NoConfig /\ c.item[i] # Undeclared
Declared(c) == {i \in Items : Declares(c, i)}

\* validateField: an unknown item is refused by a strict configuration.
Accepts(c, i, v) ==
    c = NoConfig \/ (IF Declares(c, i) THEN v # Bad ELSE ~c.strict)

Valid(c, pay) == \A i \in Named(pay) : Accepts(c, i, pay[i])
Sanitized(c, pay) == [i \in Items |-> IF i \in Named(pay) /\ Accepts(c, i, pay[i])
                                      THEN pay[i] ELSE Absent]

\* Fault: an override replaces both sections.
MergedAll(val, pay, touched, override) ==
    [i \in Items |-> IF pay[i] # Absent THEN pay[i]
                     ELSE IF override THEN Absent ELSE val[i]]

\* mergePayload, for the sections the request touches.
Merged(val, pay, touched, override) ==
    [i \in Items |-> IF pay[i] # Absent THEN pay[i]
                     ELSE IF override /\ i \in touched THEN Absent ELSE val[i]]

\* applyConfigDefaults: entries the device has win over the defaults.
WithDefaults(val, c) ==
    [i \in Items |-> IF val[i] = Absent /\ Declares(c, i) THEN c.item[i] ELSE val[i]]

\* The sections of a configuration that declare anything.
Described(c) == UNION {SectionOf(i) : i \in Declared(c)}

\* buildPayloadsReconcileOperation: the entries to set, and those to unset.
ToSet(val, c) == {i \in Declared(c) : val[i] = Absent}
ToUnset(val, c) == {i \in Described(c) \ Declared(c) : val[i] # Absent}

(* --------------------------------- Handlers ------------------------------- *)

NoProc == [pc |-> "idle", kind |-> "none", id |-> CHOOSE id \in Ids : TRUE, pay |-> Nothing,
           override |-> FALSE, key |-> NoKey, propagate |-> FALSE, origin |-> "api",
           pair |-> FALSE, sent |-> FALSE, old |-> Blank, new |-> Blank, reply |-> Nothing,
           parsed |-> {}, ops |-> [id \in Ids |-> NoDevice]]

UpdateOf(id, pay, propagate, origin) ==
    [NoProc EXCEPT !.pc = "read", !.kind = "update", !.id = id, !.pay = pay,
                   !.propagate = propagate, !.origin = origin]

\* The sections a handler may write, and whether two handlers are kept apart.
Writes(r) == IF r.kind = "update" /\ r.key = NoKey /\ ~r.pair THEN Touched(r.pay) ELSE Items
Conflict(r, q) == /\ r.pc # "idle" /\ q.pc # "idle"
                  /\ r.id = q.id \/ "reconcile" \in {r.kind, q.kind}
                  /\ Writes(r) \cap Writes(q) # {}

Start(p, r) ==
    /\ proc[p].pc = "idle" /\ calls < MaxCalls
    /\ Exclusive => \A q \in Procs : ~Conflict(r, proc[q])
    /\ proc' = [proc EXCEPT ![p] = r]
    /\ calls' = calls + 1

Finish(p) == proc' = [proc EXCEPT ![p] = NoProc]
Go(p, r) == proc' = [proc EXCEPT ![p] = r]

\* Where an update goes once its payload is merged, and once the defaults are.
AfterDefaults(r) == IF r.kind = "update" /\ r.propagate /\ Named(r.pay) \cap Controls # {}
                    THEN "send" ELSE "save"
AfterMerge(r) == IF r.kind = "add" \/ r.new.key # r.old.key THEN "defaults"
                 ELSE AfterDefaults(r)

\* A handler has its document: an update without a payload awaits no validation.
Loaded(r, d) ==
    LET n == [r EXCEPT !.old = d,
                       !.new = [key |-> IF r.key = NoKey THEN d.key ELSE r.key, val |-> d.val]]
    IN  [n EXCEPT !.pc = IF Named(n.pay) # {} THEN "merge" ELSE AfterMerge(n)]

\* The controls a message to the device carries: stripEmptyValues.
Applied(controls, val) ==
    [i \in Controls |-> IF val[i] \in Values THEN val[i] ELSE controls[i]]

\* A device that takes over controls publishes its state if that changed it.
Received(id, val) ==
    /\ device' = [device EXCEPT ![id] = Applied(device[id], val)]
    /\ reports' = IF Applied(device[id], val) = device[id] THEN reports
                  ELSE [reports EXCEPT ![id] = Append(@, Applied(device[id], val))]

Init ==
    /\ docs \in [Ids -> {NoDevice} \cup {[key |-> k, val |-> Nothing] : k \in CKeys}]
    /\ config = [k \in CKeys |-> NoConfig]
    /\ device \in [Ids -> [Controls -> Values]]
    /\ reports = [id \in Ids |-> <<>>]
    /\ proc = [p \in Procs |-> NoProc]
    /\ astray = [id \in Ids |-> FALSE]
    /\ loose = [id \in Ids |-> FALSE]
    /\ lost = 0 /\ calls = 0

(* ------------------------------ New requests ------------------------------ *)

\* PUT of one control or measurement, merged or overriding.
ApiUpdate(p, id, i, v, override) ==
    /\ Start(p, [UpdateOf(id, Only(i, v), TRUE, "api") EXCEPT !.override = override])
    /\ UNCHANGED <<docs, config, device, reports, astray, loose, lost>>

\* PUT of the brand, the type or the protocol.
ApiRekey(p, id, k) ==
    /\ Start(p, [UpdateOf(id, Nothing, TRUE, "api") EXCEPT !.key = k])
    /\ UNCHANGED <<docs, config, device, reports, astray, loose, lost>>

ApiAdd(p, id, k) ==
    /\ Start(p, [NoProc EXCEPT !.pc = "name", !.kind = "add", !.id = id, !.key = k])
    /\ UNCHANGED <<docs, config, device, reports, astray, loose, lost>>

ApiRemove(p, id) ==
    /\ Start(p, [NoProc EXCEPT !.pc = "read", !.kind = "remove", !.id = id])
    /\ UNCHANGED <<docs, config, device, reports, astray, loose, lost>>

\* A state the device published is received: it is not sent back.
Report(p, id) ==
    /\ reports[id] # <<>>
    /\ Start(p, UpdateOf(id, [i \in Items |-> IF i \in Controls THEN Head(reports[id])[i]
                                              ELSE Absent], FALSE, "device"))
    /\ reports' = [reports EXCEPT ![id] = Tail(@)]
    /\ UNCHANGED <<docs, config, device, astray, loose, lost>>

\* A measurement is received.
Measure(p, id, i, v) ==
    /\ Start(p, UpdateOf(id, Only(i, v), TRUE, "device"))
    /\ UNCHANGED <<docs, config, device, reports, astray, loose, lost>>

\* A pair request carries the controls the device has, and measurements or none.
PairRequest(p, id, k, v) ==
    /\ Start(p, [NoProc EXCEPT !.pc = "ip", !.id = id, !.kind = "update", !.pair = TRUE,
                               !.key = k, !.origin = "device",
                               !.pay = [i \in Items |-> IF i \in Controls THEN device[id][i]
                                                        ELSE v]])
    /\ UNCHANGED <<docs, config, device, reports, astray, loose, lost>>

\* A synchronisation announced the parsed configurations.
ConfigsChanged(p, k, c) ==
    LET parsed == [config EXCEPT ![k] = c] IN
    /\ config[k] # c
    /\ config' = parsed
    /\ Start(p, [NoProc EXCEPT !.pc = "find", !.kind = "reconcile",
                     !.parsed = {[key |-> j, cfg |-> parsed[j]] :
                                     j \in {l \in CKeys : parsed[l] # NoConfig}}])
    /\ UNCHANGED <<docs, device, reports, astray, loose, lost>>

\* Somebody uses the device itself.
DeviceActs(id, i, v) ==
    /\ calls < MaxCalls /\ device[id][i] # v
    /\ device' = [device EXCEPT ![id][i] = v]
    /\ reports' = [reports EXCEPT ![id] = Append(@, [device[id] EXCEPT ![i] = v])]
    /\ calls' = calls + 1
    /\ UNCHANGED <<docs, config, proc, astray, loose, lost>>

(* ---------------------------- Steps of handlers --------------------------- *)

\* handleEsp32DevicePairRequest looks the device up by its address and adds or
\* updates it; the reply to a device it knows is built from this document.
LookupByIp(p) == LET r == proc[p] IN
    /\ r.pc = "ip"
    /\ IF docs[r.id] = NoDevice
       THEN Go(p, [r EXCEPT !.pc = "name", !.kind = "add"])
       ELSE Go(p, [r EXCEPT !.pc = "read", !.key = NoKey, !.reply = docs[r.id].val])
    /\ UNCHANGED <<docs, config, device, reports, astray, loose, lost, calls>>

\* addDevice: the name must not be taken.
LookupName(p) == LET r == proc[p] IN
    /\ r.pc = "name"
    /\ IF docs[r.id] # NoDevice THEN Finish(p) ELSE Go(p, Loaded(r, Blank))
    /\ UNCHANGED <<docs, config, device, reports, astray, loose, lost, calls>>

ReadDoc(p) == LET r == proc[p] IN
    /\ r.pc = "read"
    /\ IF docs[r.id] = NoDevice THEN Finish(p)
       ELSE IF r.kind = "remove" THEN Go(p, [r EXCEPT !.pc = "delete"])
       ELSE Go(p, Loaded(r, docs[r.id]))
    /\ UNCHANGED <<docs, config, device, reports, astray, loose, lost, calls>>

\* Fault: the brand DTO does not see the merged controls.
RefusedByConfig(r, c, val) == r.origin = "api" /\ ~Valid(c, r.pay)

\* An update that is refused as a whole: the configuration rejects what the API
\* sends, the brand DTO rejects a bad control in the merged payload.
Refused(r, c, val) ==
    (r.origin = "api" /\ ~Valid(c, r.pay)) \/ \E i \in Controls : val[i] = Bad

\* The pairing of a known device without measurements may be one that says nothing
\* of them at all: undefined cannot be merged, and the pairing is rejected.
Unmeasured(r) == r.pair /\ r.kind = "update" /\ Named(r.pay) \cap Measurements = {}

\* mergeValidateControls, mergeValidateMeasurements: what the API sends is
\* accepted or refused as a whole, what a device sends is sanitised.
Merge(p) ==
    LET r == proc[p]
        c == config[r.new.key]
        pay == IF r.origin = "device" THEN Sanitized(c, r.pay) ELSE r.pay
        val == Merged(r.old.val, pay, Touched(r.pay), r.override)
        n == [r EXCEPT !.new.val = val]
        dropped == \E i \in Named(r.pay) \ Named(pay) : r.old.val[i] \in Values
    IN  /\ r.pc = "merge"
        /\ \/ (Refused(r, c, val) \/ Unmeasured(r)) /\ Finish(p)
           \/ ~Refused(r, c, val) /\ Go(p, [n EXCEPT !.pc = AfterMerge(n)])
        /\ astray' = [astray EXCEPT ![r.id] = @ \/ dropped]
        /\ UNCHANGED <<docs, config, device, reports, loose, lost, calls>>

Defaults(p) ==
    LET r == proc[p]
        n == [r EXCEPT !.new.val = WithDefaults(r.new.val, config[r.new.key])]
    IN  /\ r.pc = "defaults"
        /\ Go(p, [n EXCEPT !.pc = AfterDefaults(n)])
        /\ UNCHANGED <<docs, config, device, reports, astray, loose, lost, calls>>

\* Fault: only the controls the request names are sent.
MessageNamed(r) == r.pay

\* The controls a message carries: all the merged ones.
Message(r) == r.new.val

\* setControls swallows every error.
Send(p) == LET r == proc[p] IN
    /\ r.pc = "send"
    /\ \/ /\ Received(r.id, Message(r))
          /\ Go(p, [r EXCEPT !.pc = "save", !.sent = TRUE])
          /\ UNCHANGED <<astray, lost>>
       \/ /\ lost < MaxSends /\ lost' = lost + 1
          /\ Go(p, [r EXCEPT !.pc = "save"])
          /\ astray' = [astray EXCEPT ![r.id] = TRUE]
          /\ UNCHANGED <<device, reports>>
    /\ UNCHANGED <<docs, config, loose, calls>>

\* Fault: the whole document is written back.
WrittenWhole(r, d) == r.new

\* save writes the sections the handler modified, each as a whole.
Written(r, d) ==
    LET modified == UNION {SectionOf(i) : i \in {j \in Items : r.new.val[j] # r.old.val[j]}}
    IN  [key |-> IF r.new.key # r.old.key THEN r.new.key ELSE d.key,
         val |-> [i \in Items |-> IF i \in modified THEN r.new.val[i] ELSE d.val[i]]]

\* A default the device was not told of.
Filled(old, new, pay) ==
    \E i \in Controls : new[i] \in Values /\ new[i] # old[i] /\ new[i] # pay[i]

Replied(p, r) == IF r.pair THEN Go(p, [r EXCEPT !.pc = "reply"]) ELSE Finish(p)

\* A document removed meanwhile fails the save.
Save(p) == LET r == proc[p] IN
    /\ r.pc = "save" /\ r.kind = "update"
    /\ IF docs[r.id] = NoDevice
       THEN Finish(p) /\ UNCHANGED <<docs, astray, loose>>
       ELSE /\ docs' = [docs EXCEPT ![r.id] = Written(r, @)]
            /\ astray' = [astray EXCEPT ![r.id] = ~r.sent /\ (@ \/ Filled(r.old.val, r.new.val, r.pay))]
            /\ loose' = [loose EXCEPT ![r.id] = @ \/ r.override \/ r.new.key # r.old.key]
            /\ Replied(p, r)
    /\ UNCHANGED <<config, device, reports, lost, calls>>

\* The save of an API request fails validation or a unique index, after the
\* controls were sent.
SaveRefused(p) == LET r == proc[p] IN
    /\ r.pc = "save" /\ r.kind = "update" /\ r.origin = "api"
    /\ Finish(p)
    /\ UNCHANGED <<docs, config, device, reports, astray, loose, lost, calls>>

\* The insertion of a new device; the unique index refuses a second one.
Insert(p) == LET r == proc[p] IN
    /\ r.pc = "save" /\ r.kind = "add"
    /\ IF docs[r.id] # NoDevice
       THEN Finish(p) /\ UNCHANGED <<docs, astray, loose>>
       ELSE /\ docs' = [docs EXCEPT ![r.id] = r.new]
            /\ astray' = [astray EXCEPT ![r.id] = ~r.pair /\ Filled(Nothing, r.new.val, r.pay)]
            /\ loose' = [loose EXCEPT ![r.id] = FALSE]
            /\ Replied(p, [r EXCEPT !.reply = r.new.val])
    /\ UNCHANGED <<config, device, reports, lost, calls>>

\* PairAcceptDto.accept: the device takes over the controls of the reply.
Reply(p) == LET r == proc[p] IN
    /\ r.pc = "reply"
    /\ Received(r.id, r.reply)
    /\ Finish(p)
    /\ UNCHANGED <<docs, config, astray, loose, lost, calls>>

Delete(p) == LET r == proc[p] IN
    /\ r.pc = "delete"
    /\ docs' = [docs EXCEPT ![r.id] = NoDevice]
    /\ Finish(p)
    /\ UNCHANGED <<config, device, reports, astray, loose, lost, calls>>

\* reconcileDevicePayloads: read the devices of one configuration ...
FindDevices(p, e) ==
    LET r == proc[p]
        ops == [id \in Ids |-> IF docs[id] # NoDevice /\ docs[id].key = e.key
                               THEN [set |-> ToSet(docs[id].val, e.cfg),
                                     unset |-> ToUnset(docs[id].val, e.cfg)]
                               ELSE NoDevice]
    IN  /\ r.pc = "find" /\ e \in r.parsed
        /\ Go(p, [r EXCEPT !.pc = "bulk", !.ops = ops, !.parsed = @ \ {e},
                           !.new.key = e.key, !.reply = e.cfg.item])
        /\ UNCHANGED <<docs, config, device, reports, astray, loose, lost, calls>>

\* Fault: entries no longer declared are kept.
TidiedKeeps(r, id) ==
    [i \in Items |-> IF i \in r.ops[id].set THEN r.reply[i] ELSE docs[id].val[i]]

\* What the operations of a bulk write make of a stored payload.
Tidied(r, id) ==
    [i \in Items |-> IF i \in r.ops[id].set THEN r.reply[i]
                     ELSE IF i \in r.ops[id].unset THEN Absent ELSE docs[id].val[i]]

\* ... and set and unset their entries, then go on to the next configuration.
BulkWrite(p) ==
    LET r == proc[p]
        hit == {id \in Ids : r.ops[id] # NoDevice /\ docs[id] # NoDevice}
    IN  /\ r.pc = "bulk"
        /\ docs' = [id \in Ids |-> IF id \in hit THEN [docs[id] EXCEPT !.val = Tidied(r, id)]
                                   ELSE docs[id]]
        /\ astray' = [id \in Ids |-> astray[id] \/
                         (id \in hit /\ Filled(docs[id].val, docs'[id].val, Nothing))]
        /\ loose' = [id \in Ids |-> loose[id] /\ id \notin hit]
        /\ Go(p, [r EXCEPT !.pc = "find", !.ops = NoProc.ops, !.reply = Nothing, !.new = Blank])
        /\ UNCHANGED <<config, device, reports, lost, calls>>

ReconcileEnds(p) ==
    /\ proc[p].pc = "find" /\ proc[p].parsed = {}
    /\ Finish(p)
    /\ UNCHANGED <<docs, config, device, reports, astray, loose, lost, calls>>

Request(p) ==
    \E id \in Ids :
        \/ \E i \in Items, v \in Values \cup {Bad}, ov \in BOOLEAN : ApiUpdate(p, id, i, v, ov)
        \/ \E k \in CKeys : ApiRekey(p, id, k) \/ ApiAdd(p, id, k)
        \/ \E k \in CKeys, v \in Values \cup {Absent} : PairRequest(p, id, k, v)
        \/ ApiRemove(p, id) \/ Report(p, id)
        \/ \E i \in Measurements, v \in Values \cup {Bad} : Measure(p, id, i, v)

Step(p) ==
    \/ LookupByIp(p) \/ LookupName(p) \/ ReadDoc(p) \/ Merge(p) \/ Defaults(p) \/ Send(p)
    \/ Save(p) \/ SaveRefused(p) \/ Insert(p) \/ Reply(p) \/ Delete(p)
    \/ (\E e \in proc[p].parsed : FindDevices(p, e)) \/ BulkWrite(p) \/ ReconcileEnds(p)

Next == \/ \E p \in Procs : \/ Request(p) \/ Step(p)
                            \/ \E k \in CKeys, c \in Configs \cup {NoConfig} : ConfigsChanged(p, k, c)
        \/ \E id \in Ids, i \in Controls, v \in Values : DeviceActs(id, i, v)

Spec == Init /\ [][Next]_vars

(* ------------------------------- Properties ------------------------------- *)

Pcs == {"idle", "ip", "name", "read", "merge", "defaults", "send", "save", "reply", "delete",
        "find", "bulk"}

\* Every variable keeps its type; no refused control is ever stored, and every
\* stored device has a configuration key.
TypeOK ==
    /\ \A id \in Ids : docs[id] = NoDevice
           \/ (docs[id].key \in CKeys /\ docs[id].val \in Payloads
               /\ \A i \in Controls : docs[id].val[i] # Bad)
    /\ config \in [CKeys -> Configs \cup {NoConfig}]
    /\ device \in [Ids -> [Controls -> Values]]
    /\ \A id \in Ids : reports[id] \in Seq([Controls -> Values])
    /\ \A p \in Procs : proc[p].pc \in Pcs /\ proc[p].old \in Doc /\ proc[p].pay \in Payloads
    /\ astray \in [Ids -> BOOLEAN] /\ loose \in [Ids -> BOOLEAN]
    /\ lost \in 0 .. MaxSends /\ calls \in 0 .. MaxCalls

\* The request a handler has taken on and not yet carried out.
RequestOf(r) ==
    IF r.pc \in {"idle", "ip", "reply"} THEN NoRequest
    ELSE IF r.kind = "reconcile"
    THEN [kind |-> "reconcile",
          declarations |-> {Declared(e.cfg) : e \in r.parsed}
              \cup (IF r.pc = "bulk" THEN {{i \in Items : r.reply[i] # Undeclared}} ELSE {})]
    ELSE [kind |-> r.kind, id |-> r.id, pay |-> r.pay, override |-> r.override,
          part |-> r.origin = "device"]

Store == INSTANCE DeviceStore WITH
    docs <- [id \in Ids |-> IF docs[id] = NoDevice THEN NoDevice ELSE docs[id].val],
    request <- [p \in Procs |-> RequestOf(proc[p])],
    Clients <- Procs

\* Every request takes effect at one instant, on what is stored at that instant:
\* an update changes only what it names (DevicesService.updateDevice, addDevice,
\* removeDevice, reconcileDeviceConfigs).
UpdatesAtomic == Store!StoreSpec

\* Nothing is under way for a device.
Settled(id) == /\ \A p \in Procs : proc[p].pc = "idle"
               /\ docs[id] # NoDevice /\ reports[id] = <<>>

\* When nothing is under way the stored controls are those of the device, lost
\* and refused messages apart; the next update that reaches the device repairs
\* those (setControls sends the whole merged controls).
DeviceAgrees == \A id \in Ids : Settled(id) /\ ~astray[id] =>
    \A i \in Controls : docs[id].val[i] \in {Null, Absent, device[id][i]}

\* A device has the entries its strict configuration declares for a described
\* section, and no others, until an override or a new key changes that
\* (onDeviceConfigsChanged, applyConfigDefaults).
Conforms == \A id \in Ids : Settled(id) /\ ~loose[id] =>
    LET c == config[docs[id].key] IN
    c # NoConfig /\ c.strict => \A i \in Described(c) : docs[id].val[i] # Absent <=> Declares(c, i)
=============================================================================
