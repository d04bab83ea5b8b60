----------------------------- MODULE ZigbeeNames -----------------------------
(* The friendly names of Zigbee devices: the hub stores one with each device,  *)
(* the Zigbee2MQTT bridge has its own, and both sides rename (zigbee/,         *)
(* devices/devices.service.ts).  The hub keeps the names of the last device    *)
(* list of the bridge in a cache; at the end of every update of a device it    *)
(* compares the cached name with the stored one and asks the bridge to rename  *)
(* the device if they differ.  Messages keep their order in each direction.    *)
EXTENDS Naturals, Sequences, FiniteSets

CONSTANTS
    Devs,           \* Zigbee devices, by IEEE address
    Names,          \* friendly names
    NoName,         \* no name: the bridge or the cache does not have the device
    NoDevice,       \* the hub has no document of the device
    Procs,          \* handlers in flight
    Exclusive,      \* TRUE: a handler starts only when no other one is in flight
    MaxCalls,       \* bound on API requests
    MaxReports,     \* bound on published device states
    MaxChanges,     \* bound on renames and joins on the side of the bridge
    MaxInterviews,  \* bound on devices that start or complete an interview
    MaxOutages,     \* bound on reports of a lost connection
    MaxRestarts     \* bound on restarts of the hub

VARIABLES
    stored,     \* the names in the hub's documents
    cache,      \* ZigbeePairableDevices
    connected,  \* ZigbeeBridge.connected()
    proc,       \* the handlers
    bridge,     \* the names the bridge has
    ready,      \* the bridge's devices whose interview is complete
    toBridge,   \* published requests
    toHub,      \* published lists, responses, states and health reports
    asked,      \* the last name the API asked for, as long as no list denies it
    astray,     \* a rename was dropped or refused since the last list
    blocked,    \* a bridge's name could not be stored
    used        \* counters for the bounds

hub == <<stored, cache, connected, proc>>
ghosts == <<asked, astray, blocked>>
vars == <<hub, bridge, ready, toBridge, toHub, ghosts, used>>

ASSUME Sentinels == NoName \notin Names /\ NoDevice \notin Names /\ NoName # NoDevice

Limits == [calls |-> MaxCalls, reports |-> MaxReports, changes |-> MaxChanges,
           interviews |-> MaxInterviews, outages |-> MaxOutages, restarts |-> MaxRestarts]
Use(what) == used[what] < Limits[what] /\ used' = [used EXCEPT ![what] = @ + 1]

(* A handler is looking for documents, or runs one update per device: read the *)
(* document, save it, compare its name with the cached one.                    *)
NoWork == [pc |-> "none", kind |-> "none", old |-> NoName, to |-> NoName]
Work(pc, kind, to) == [pc |-> pc, kind |-> kind, old |-> NoName, to |-> to]
NoList == [d \in Devs |-> NoName]
Idle == [pc |-> "idle", names |-> NoList, from |-> NoName, to |-> NoName,
         work |-> [d \in Devs |-> NoWork]]
Running(w) == [Idle EXCEPT !.pc = "run", !.work = w]
Busy(p) == proc[p].pc # "idle"

Start(p, r) ==
    /\ ~Busy(p)
    /\ Exclusive => \A q \in Procs : ~Busy(q)
    /\ proc' = [proc EXCEPT ![p] = r]

\* The work on one device goes on; with the last one the handler ends.
Becomes(p, d, w) ==
    LET works == [proc[p].work EXCEPT ![d] = w] IN
    proc' = [proc EXCEPT ![p] = IF \A e \in Devs : works[e] = NoWork THEN Idle
                                ELSE Running(works)]
Ends(p, d) == Becomes(p, d, NoWork)

Taken(n) == \E d \in Devs : stored[d] = n

Init ==
    /\ bridge \in [Devs -> Names \cup {NoName}]
    /\ \A d, e \in Devs : d # e /\ bridge[d] # NoName => bridge[d] # bridge[e]
    /\ ready = [d \in Devs |-> TRUE]
    /\ stored \in [Devs -> Names \cup {NoDevice}]
    /\ \A d \in Devs : stored[d] \in {bridge[d], NoDevice}
    /\ cache = bridge
    /\ connected = TRUE
    /\ proc = [p \in Procs |-> Idle]
    /\ toBridge = <<>> /\ toHub = <<>>
    /\ asked = NoList
    /\ astray = [d \in Devs |-> FALSE] /\ blocked = [d \in Devs |-> FALSE]
    /\ used = [k \in DOMAIN Limits |-> 0]

(* -------------------------------- Messages -------------------------------- *)

Msg == [kind |-> "none", names |-> NoList, from |-> NoName, to |-> NoName, up |-> FALSE,
        eligible |-> {}]
List(names, eligible) == [Msg EXCEPT !.kind = "list", !.names = names, !.eligible = eligible]
Response(from, to) == [Msg EXCEPT !.kind = "response", !.from = from, !.to = to]
State(name) == [Msg EXCEPT !.kind = "state", !.from = name]
Health(up) == [Msg EXCEPT !.kind = "health", !.up = up]

Eligible == {d \in Devs : ready[d]}
NextMsg(kind) == toHub # <<>> /\ Head(toHub).kind = kind /\ toHub' = Tail(toHub)

\* ZigbeeService.renameDevice, removeZigbeeDevice: dropped unless connected.
Publish(d, kind, to) ==
    IF connected
    THEN toBridge' = Append(toBridge, [kind |-> kind, dev |-> d, to |-> to]) /\ UNCHANGED astray
    ELSE astray' = [astray EXCEPT ![d] = TRUE] /\ UNCHANGED toBridge

(* -------------------------------- The bridge ------------------------------ *)

\* The bridge publishes its list after every change.
Publishes(names, more) == toHub' = toHub \o <<List(names, Eligible)>> \o more

\* It renames a device it has, to a name it does not have.
BridgeApplies ==
    /\ toBridge # <<>> /\ toBridge' = Tail(toBridge)
    /\ LET r == Head(toBridge)
           possible == bridge[r.dev] # NoName /\ \A d \in Devs : bridge[d] # r.to
           applied == [bridge EXCEPT ![r.dev] = IF r.kind = "remove" THEN NoName ELSE r.to]
       IN  \/ /\ r.kind = "remove" \/ possible
              /\ bridge' = applied
              /\ Publishes(applied, IF r.kind = "remove" THEN <<>>
                                    ELSE <<Response(bridge[r.dev], r.to)>>)
              /\ UNCHANGED astray
           \/ /\ r.kind = "rename" /\ ~possible
              /\ astray' = [astray EXCEPT ![r.dev] = @ \/ bridge[r.dev] # r.to]
              /\ UNCHANGED <<bridge, toHub>>
    /\ UNCHANGED <<hub, ready, asked, blocked, used>>

\* A user of the bridge renames a device, or the bridge resets its name.
BridgeRenames(d, n) ==
    /\ Use("changes")
    /\ bridge[d] # NoName /\ \A e \in Devs : bridge[e] # n
    /\ bridge' = [bridge EXCEPT ![d] = n]
    /\ \E more \in {<<>>, <<Response(bridge[d], n)>>} : Publishes(bridge', more)
    /\ UNCHANGED <<hub, ready, toBridge, ghosts>>

BridgeJoins(d, n) ==
    /\ Use("changes")
    /\ bridge[d] = NoName /\ \A e \in Devs : bridge[e] # n
    /\ bridge' = [bridge EXCEPT ![d] = n]
    /\ Publishes(bridge', <<>>)
    /\ UNCHANGED <<hub, ready, toBridge, ghosts>>

\* A device is interviewed again, and completes its interview.
Interview(d) ==
    /\ Use("interviews") /\ bridge[d] # NoName
    /\ ready' = [ready EXCEPT ![d] = ~@]
    /\ toHub' = Append(toHub, List(bridge, {e \in Devs : ready'[e]}))
    /\ UNCHANGED <<hub, bridge, toBridge, ghosts>>

\* A device publishes its state under its name.
DeviceState(d) ==
    /\ Use("reports") /\ bridge[d] # NoName
    /\ toHub' = Append(toHub, State(bridge[d]))
    /\ UNCHANGED <<hub, bridge, ready, toBridge, ghosts>>

\* The bridge reports that it has lost, or has, its connection to the broker.
HealthReport(up) ==
    /\ IF up THEN ~connected /\ UNCHANGED used ELSE connected /\ Use("outages")
    /\ \A i \in DOMAIN toHub : toHub[i].kind # "health"
    /\ toHub' = Append(toHub, Health(up))
    /\ UNCHANGED <<hub, bridge, ready, toBridge, ghosts>>

(* -------------------------- Messages to the hub --------------------------- *)

\* onBridgeHealthCheck
HandleHealth ==
    /\ NextMsg("health")
    /\ connected' = Head(toHub).up
    /\ UNCHANGED <<stored, cache, proc, bridge, ready, toBridge, ghosts, used>>

\* Fault: the cache is not refreshed.
CachedBefore(m) == cache

\* ZigbeePairableDevices.save
Cached(m) == [d \in Devs |-> IF d \in m.eligible THEN m.names[d] ELSE NoName]

\* onConnectedDevicesListChange refreshes the cache and looks up the documents.
HandleList(p) ==
    LET m == Head(toHub) IN
    /\ NextMsg("list")
    /\ Start(p, [Idle EXCEPT !.pc = "find", !.names = m.names])
    /\ cache' = Cached(m)
    /\ asked' = [d \in Devs |-> IF asked[d] = m.names[d] THEN asked[d] ELSE NoName]
    /\ UNCHANGED <<stored, connected, bridge, ready, toBridge, astray, blocked, used>>

\* Fault: the list is compared with the cache, which it has just refreshed.
DriftedFromCache(names) ==
    {d \in Devs : stored[d] # NoDevice /\ names[d] \notin {NoName, cache[d]}}

\* The devices whose stored name is not the bridge's.
Drifted(names) == {d \in Devs : stored[d] # NoDevice /\ names[d] \notin {NoName, stored[d]}}

\* syncFriendlyNames requests an update of every device that drifted.
SyncFriendlyNames(p) ==
    LET names == proc[p].names
        works == [d \in Devs |-> IF d \in Drifted(names) THEN Work("read", "sync", names[d])
                                 ELSE NoWork]
    IN  /\ proc[p].pc = "find"
        /\ proc' = [proc EXCEPT ![p] = IF Drifted(names) = {} THEN Idle ELSE Running(works)]
        /\ astray' = [d \in Devs |-> astray[d] /\ names[d] = NoName]
        /\ UNCHANGED <<stored, cache, connected, bridge, ready, toBridge, toHub, asked, blocked, used>>

\* onDeviceFriendlyNameChange: the device is selected by its old name.
HandleResponse(p) ==
    /\ NextMsg("response")
    /\ Start(p, [Idle EXCEPT !.pc = "select", !.from = Head(toHub).from, !.to = Head(toHub).to])
    /\ UNCHANGED <<stored, cache, connected, bridge, ready, toBridge, ghosts, used>>

\* handleDeviceStateUpdate: an update of what the device reports leaves its name
\* alone, but reads and saves its document like any other.
HandleState(p) ==
    /\ NextMsg("state")
    /\ Start(p, [Idle EXCEPT !.pc = "select", !.from = Head(toHub).from])
    /\ UNCHANGED <<stored, cache, connected, bridge, ready, toBridge, ghosts, used>>

Select(p) ==
    LET chosen == {d \in Devs : stored[d] = proc[p].from} IN
    /\ proc[p].pc = "select"
    /\ proc' = [proc EXCEPT ![p] = IF chosen = {} THEN Idle
           ELSE Running([d \in Devs |-> IF d \in chosen THEN Work("read", "sync", proc[p].to)
                                        ELSE NoWork])]
    /\ UNCHANGED <<stored, cache, connected, bridge, ready, toBridge, toHub, ghosts, used>>

(* ------------------------------ API requests ------------------------------ *)

Request(p, d, w) ==
    /\ Use("calls")
    /\ Start(p, Running([Idle.work EXCEPT ![d] = w]))
    /\ UNCHANGED <<stored, cache, connected, bridge, ready, toBridge, toHub, astray, blocked>>

\* An update of something else than the name.
ApiUpdate(p, d) == Request(p, d, Work("read", "api", NoName)) /\ UNCHANGED asked
ApiRename(p, d, n) ==
    Request(p, d, Work("read", "api", n)) /\ asked' = [asked EXCEPT ![d] = n]
\* Nobody adds a device twice.
ApiAdd(p, d, n) ==
    /\ stored[d] = NoDevice /\ \A q \in Procs : proc[q].work[d].kind # "add"
    /\ Request(p, d, Work("check", "add", n))
    /\ asked' = [asked EXCEPT ![d] = n]
ApiRemove(p, d) == Request(p, d, Work("read", "remove", NoName)) /\ UNCHANGED asked

(* ---------------------- Steps of the work on a device --------------------- *)

At(p, d, pc) == proc[p].pc = "run" /\ proc[p].work[d].pc = pc

Read(p, d) ==
    LET w == proc[p].work[d] IN
    /\ At(p, d, "read")
    /\ IF stored[d] = NoDevice THEN Ends(p, d)
       ELSE IF w.kind = "remove" THEN Becomes(p, d, [w EXCEPT !.pc = "delete"])
       ELSE Becomes(p, d, [w EXCEPT !.pc = "save", !.old = stored[d],
                                    !.to = IF w.to = NoName THEN stored[d] ELSE w.to])
    /\ UNCHANGED <<stored, cache, connected, bridge, ready, toBridge, toHub, ghosts, used>>

\* Fault: a name may be stored twice.
ClashIgnored(d, w) == FALSE

\* The unique index on zigbeeFriendlyName refuses a modified name.
Clash(d, w) == w.to # w.old /\ \E e \in Devs \ {d} : stored[e] = w.to

\* The save writes a name that was modified.
Save(p, d) ==
    LET w == proc[p].work[d]
        clash == Clash(d, w)
    IN  /\ At(p, d, "save")
        /\ IF stored[d] = NoDevice \/ clash
           THEN Ends(p, d) /\ UNCHANGED stored
           ELSE /\ stored' = IF w.to = w.old THEN stored ELSE [stored EXCEPT ![d] = w.to]
                /\ Becomes(p, d, [w EXCEPT !.pc = "compare"])
        /\ blocked' = [blocked EXCEPT ![d] = IF w.to = w.old \/ clash THEN @ \/ (clash /\ w.kind = "sync")
                                             ELSE FALSE]
        /\ UNCHANGED <<cache, connected, bridge, ready, toBridge, toHub, asked, astray, used>>

\* After the save the name is compared with the cached one, as it is now.
Compare(p, d) ==
    LET w == proc[p].work[d] IN
    /\ At(p, d, "compare")
    /\ IF cache[d] = w.to THEN UNCHANGED <<toBridge, astray>> ELSE Publish(d, "rename", w.to)
    /\ Ends(p, d)
    /\ UNCHANGED <<stored, cache, connected, bridge, ready, toHub, asked, blocked, used>>

\* addDevice: only a device the cache has can be added.
Check(p, d) ==
    /\ At(p, d, "check")
    /\ IF cache[d] = NoName THEN Ends(p, d)
       ELSE Becomes(p, d, [proc[p].work[d] EXCEPT !.pc = "insert"])
    /\ UNCHANGED <<stored, cache, connected, bridge, ready, toBridge, toHub, ghosts, used>>

Insert(p, d) ==
    LET w == proc[p].work[d] IN
    /\ At(p, d, "insert")
    /\ IF Taken(w.to) THEN Ends(p, d) /\ UNCHANGED stored
       ELSE /\ stored' = [stored EXCEPT ![d] = w.to]
            /\ Becomes(p, d, [w EXCEPT !.pc = "announce"])
    /\ UNCHANGED <<cache, connected, bridge, ready, toBridge, toHub, ghosts, used>>

Announce(p, d) ==
    /\ At(p, d, "announce")
    /\ Publish(d, "rename", proc[p].work[d].to)
    /\ Ends(p, d)
    /\ UNCHANGED <<stored, cache, connected, bridge, ready, toHub, asked, blocked, used>>

Delete(p, d) ==
    /\ At(p, d, "delete")
    /\ stored' = [stored EXCEPT ![d] = NoDevice]
    /\ Becomes(p, d, [proc[p].work[d] EXCEPT !.pc = "expel"])
    /\ UNCHANGED <<cache, connected, bridge, ready, toBridge, toHub, ghosts, used>>

Expel(p, d) ==
    /\ At(p, d, "expel")
    /\ Publish(d, "remove", NoName)
    /\ Ends(p, d)
    /\ UNCHANGED <<stored, cache, connected, bridge, ready, toHub, asked, blocked, used>>

\* The hub starts anew; what was published meanwhile is gone, except the list,
\* which the broker retains.
Restart ==
    /\ Use("restarts")
    /\ cache' = NoList /\ connected' = FALSE
    /\ proc' = [p \in Procs |-> Idle]
    /\ toHub' = <<List(bridge, Eligible)>>
    /\ UNCHANGED <<stored, bridge, ready, toBridge, ghosts>>

WorkStep(p, d) == \/ Read(p, d) \/ Save(p, d) \/ Compare(p, d) \/ Check(p, d)
                  \/ Insert(p, d) \/ Announce(p, d) \/ Delete(p, d) \/ Expel(p, d)

Step(p) == SyncFriendlyNames(p) \/ Select(p) \/ \E d \in Devs : WorkStep(p, d)
Handle(p) == HandleList(p) \/ HandleResponse(p) \/ HandleState(p)

Api(p) == \E d \in Devs : \/ ApiUpdate(p, d) \/ ApiRemove(p, d)
                          \/ \E n \in Names : ApiRename(p, d, n) \/ ApiAdd(p, d, n)

Outside == \E d \in Devs : \/ \E n \in Names : BridgeRenames(d, n) \/ BridgeJoins(d, n)
                           \/ Interview(d) \/ DeviceState(d)

Next == \/ \E p \in Procs : Step(p) \/ Handle(p) \/ Api(p)
        \/ HandleHealth \/ BridgeApplies \/ Outside
        \/ \E up \in BOOLEAN : HealthReport(up)
        \/ Restart

Spec == Init /\ [][Next]_vars

\* Handlers go on, messages arrive, and the bridge reports that it is back.
FairSpec == /\ Spec
            /\ \A p \in Procs : WF_vars(SyncFriendlyNames(p)) /\ WF_vars(Select(p))
            /\ \A p \in Procs, d \in Devs : WF_vars(WorkStep(p, d))
            /\ WF_vars(\E p \in Procs : Handle(p))
            /\ WF_vars(HandleHealth) /\ WF_vars(BridgeApplies) /\ WF_vars(HealthReport(TRUE))

(* ------------------------------- Properties ------------------------------- *)

WorkPcs == {"none", "read", "save", "compare", "check", "insert", "announce", "delete", "expel"}

\* Every variable keeps its type, no two documents and no two devices of the
\* bridge share a name.
TypeOK ==
    /\ stored \in [Devs -> Names \cup {NoDevice}]
    /\ cache \in [Devs -> Names \cup {NoName}] /\ bridge \in [Devs -> Names \cup {NoName}]
    /\ \A d, e \in Devs : d # e => /\ stored[d] # NoDevice => stored[d] # stored[e]
                                   /\ bridge[d] # NoName => bridge[d] # bridge[e]
    /\ ready \in [Devs -> BOOLEAN] /\ connected \in BOOLEAN
    /\ \A p \in Procs : /\ proc[p].pc \in {"idle", "find", "select", "run"}
                        /\ \A d \in Devs : proc[p].work[d].pc \in WorkPcs
    /\ asked \in [Devs -> Names \cup {NoName}]
    /\ astray \in [Devs -> BOOLEAN] /\ blocked \in [Devs -> BOOLEAN]

\* No handler is in flight and no message on its way.
Quiet == toBridge = <<>> /\ toHub = <<>> /\ \A p \in Procs : ~Busy(p)
Differs(d) == stored[d] # NoDevice /\ bridge[d] # NoName /\ stored[d] # bridge[d]

\* Once everything has been handled, the hub has the bridge's names, except
\* where a rename was dropped or refused, or a name could not be stored.
Synced == Quiet => \A d \in Devs : Differs(d) => astray[d] \/ blocked[d]

Renames(d, n) == /\ Len(toBridge') > Len(toBridge)
                 /\ LET r == toBridge'[Len(toBridge')] IN r.kind = "rename" /\ r.dev = d /\ r.to = n

\* The hub renames a device it knows the bridge's name of only when the API
\* asked for that name.
NoEcho == [][\A d \in Devs, n \in Names :
                 Renames(d, n) => asked[d] = n \/ cache[d] = NoName]_vars

\* In the end hub and bridge agree for good, whatever has happened before: the
\* renames they ask of each other come to an end.  The hub's cache does not have
\* a device whose interview is incomplete, and every update of one renames it.
Converges == <>[](\A d \in Devs : Differs(d) => astray[d] \/ blocked[d] \/ ~ready[d])
=============================================================================
