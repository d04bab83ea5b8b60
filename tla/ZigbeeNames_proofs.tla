-------------------------- MODULE ZigbeeNames_proofs --------------------------
(* Theorems about ZigbeeNames, for any number of devices, names and handlers,  *)
(* overlapping or not.                                                         *)
(*                                                                             *)
(* TypeOK says of the handlers only where they stand.  Typed adds what a       *)
(* handler and a message hold: whatever becomes a name of a document or of the *)
(* bridge is a name, and each side checks its own names when it takes one.     *)
EXTENDS ZigbeeNames, SequenceTheorems, TLAPS

MaybeName == Names \cup {NoName}
Kinds == {"none", "sync", "api", "add", "remove"}
\* The awaits from which a name is written or published.
Naming == {"save", "compare", "check", "insert", "announce"}

Works == {w \in [pc : WorkPcs, kind : Kinds, old : MaybeName, to : MaybeName] :
              w.pc \in Naming => w.to \in Names}
Handlers == [pc : {"idle", "find", "select", "run"}, names : [Devs -> MaybeName],
             from : MaybeName, to : MaybeName, work : [Devs -> Works]]

ToHub == [kind : {"list", "response", "state", "health"}, names : [Devs -> MaybeName],
          from : MaybeName, to : MaybeName, up : BOOLEAN, eligible : SUBSET Devs]
ToBridge == {r \in [kind : {"rename", "remove"}, dev : Devs, to : MaybeName] :
                 r.kind = "rename" => r.to \in Names}

\* No two documents, and no two devices of the bridge, have one name.
Unique(names, none) == \A d, e \in Devs : d # e /\ names[d] # none => names[d] # names[e]

StoredTyped == stored \in [Devs -> Names \cup {NoDevice}] /\ Unique(stored, NoDevice)
BridgeTyped == bridge \in [Devs -> MaybeName] /\ Unique(bridge, NoName)
FlagsTyped == /\ cache \in [Devs -> MaybeName]
              /\ ready \in [Devs -> BOOLEAN] /\ connected \in BOOLEAN
              /\ asked \in [Devs -> MaybeName]
              /\ astray \in [Devs -> BOOLEAN] /\ blocked \in [Devs -> BOOLEAN]
ProcTyped == proc \in [Procs -> Handlers]
MessagesTyped == toHub \in Seq(ToHub) /\ toBridge \in Seq(ToBridge)

Typed == StoredTyped /\ BridgeTyped /\ FlagsTyped /\ ProcTyped /\ MessagesTyped

LEMMA TypedSuffices == Typed => TypeOK
<1> SUFFICES ASSUME Typed PROVE TypeOK
  OBVIOUS
<1>1. ASSUME NEW p \in Procs
      PROVE  /\ proc[p].pc \in {"idle", "find", "select", "run"}
             /\ \A d \in Devs : proc[p].work[d].pc \in WorkPcs
  BY <1>1 DEF Typed, ProcTyped, Handlers, Works
<1>2. QED BY <1>1 DEF Typed, TypeOK, StoredTyped, BridgeTyped, FlagsTyped, Unique, MaybeName

(* ------------------------------ Small facts -------------------------------- *)

LEMMA NoWorkTyped == NoWork \in Works
BY DEF NoWork, Works, WorkPcs, Kinds, MaybeName, Naming

LEMMA IdleTyped == Idle \in Handlers /\ Idle.work = [d \in Devs |-> NoWork]
BY NoWorkTyped DEF Idle, Handlers, NoList, MaybeName

LEMMA RunningTyped ==
    ASSUME NEW w \in [Devs -> Works] PROVE Running(w) \in Handlers
BY DEF Running, Idle, Handlers, NoList, MaybeName

LEMMA ReadTyped ==
    ASSUME NEW kind \in Kinds, NEW to \in MaybeName PROVE Work("read", kind, to) \in Works
BY DEF Work, Works, WorkPcs, Kinds, MaybeName, Naming

LEMMA CheckTyped ==
    ASSUME NEW to \in Names PROVE Work("check", "add", to) \in Works
BY DEF Work, Works, WorkPcs, Kinds, MaybeName, Naming

LEMMA OneWork ==
    ASSUME NEW d \in Devs, NEW w \in Works PROVE [Idle.work EXCEPT ![d] = w] \in [Devs -> Works]
BY IdleTyped, NoWorkTyped

LEMMA BecomesTyped ==
    ASSUME ProcTyped, NEW p \in Procs, NEW d \in Devs, NEW w \in Works, Becomes(p, d, w)
    PROVE  ProcTyped'
<1> DEFINE works == [proc[p].work EXCEPT ![d] = w]
<1>1. proc[p].work \in [Devs -> Works]
  BY DEF ProcTyped, Handlers
<1>2. works \in [Devs -> Works]
  BY <1>1
<1>3. Running(works) \in Handlers
  BY <1>2, RunningTyped
<1>4. proc' = [proc EXCEPT ![p] = IF \A e \in Devs : works[e] = NoWork THEN Idle
                                  ELSE Running(works)]
  BY DEF Becomes
<1> HIDE DEF works
<1>5. QED BY <1>3, <1>4, IdleTyped DEF ProcTyped

LEMMA EndsTyped ==
    ASSUME ProcTyped, NEW p \in Procs, NEW d \in Devs, Ends(p, d) PROVE ProcTyped'
BY BecomesTyped, NoWorkTyped DEF Ends

LEMMA StartTyped ==
    ASSUME ProcTyped, NEW p \in Procs, NEW r \in Handlers, Start(p, r) PROVE ProcTyped'
BY DEF Start, ProcTyped

LEMMA PublishTyped ==
    ASSUME FlagsTyped, MessagesTyped, NEW d \in Devs, NEW kind \in {"rename", "remove"},
           NEW to \in MaybeName, kind = "rename" => to \in Names, Publish(d, kind, to)
    PROVE  toBridge' \in Seq(ToBridge) /\ astray' \in [Devs -> BOOLEAN]
<1> DEFINE r == [kind |-> kind, dev |-> d, to |-> to]
<1>1. r \in ToBridge
  BY DEF ToBridge
<1>2. Append(toBridge, r) \in Seq(ToBridge)
  BY <1>1 DEF MessagesTyped
<1>3. QED BY <1>2 DEF Publish, FlagsTyped, MessagesTyped

LEMMA ListTyped ==
    ASSUME NEW names \in [Devs -> MaybeName], NEW eligible \in SUBSET Devs
    PROVE  List(names, eligible) \in ToHub
BY DEF List, Msg, ToHub, NoList, MaybeName

LEMMA OthersTyped ==
    /\ \A from \in MaybeName, to \in MaybeName : Response(from, to) \in ToHub
    /\ \A name \in MaybeName : State(name) \in ToHub
    /\ \A up \in BOOLEAN : Health(up) \in ToHub
BY DEF Response, State, Health, Msg, ToHub, NoList, MaybeName

LEMMA PublishesTyped ==
    ASSUME MessagesTyped, NEW names \in [Devs -> MaybeName], NEW more \in Seq(ToHub),
           Publishes(names, more)
    PROVE  toHub' \in Seq(ToHub)
<1>1. List(names, Eligible) \in ToHub
  BY ListTyped DEF Eligible
<1>2. <<List(names, Eligible)>> \in Seq(ToHub)
  BY <1>1
<1>3. toHub \o <<List(names, Eligible)>> \in Seq(ToHub)
  BY <1>2, ConcatProperties DEF MessagesTyped
<1>4. (toHub \o <<List(names, Eligible)>>) \o more \in Seq(ToHub)
  BY <1>3, ConcatProperties
<1>5. QED BY <1>4 DEF Publishes

\* The message at the head of the queue, and what is left.
LEMMA NextTyped ==
    ASSUME MessagesTyped, NEW kind, NextMsg(kind)
    PROVE  Head(toHub) \in ToHub /\ toHub' \in Seq(ToHub)
BY HeadTailProperties DEF MessagesTyped, NextMsg

\* A name nobody has may be taken.
LEMMA StaysUnique ==
    ASSUME NEW none, NEW names \in [Devs -> Names \cup {none}], Unique(names, none),
           NEW d \in Devs, NEW n \in Names \cup {none},
           n = none \/ \A e \in Devs \ {d} : names[e] # n
    PROVE  Unique([names EXCEPT ![d] = n], none)
BY DEF Unique

(* ------------------------------- The actions ------------------------------- *)

LEMMA InitTyped == Init => Typed
<1> SUFFICES ASSUME Init PROVE Typed
  OBVIOUS
<1>1. StoredTyped
  <2>1. stored \in [Devs -> Names \cup {NoDevice}]
    BY DEF Init
  <2>2. ASSUME NEW d \in Devs, NEW e \in Devs, d # e, stored[d] # NoDevice
        PROVE  stored[d] # stored[e]
    <3>1. stored[d] = bridge[d] /\ bridge[d] # NoName
      BY <2>1, <2>2, Sentinels DEF Init
    <3>2. bridge[d] # bridge[e] /\ stored[e] \in {bridge[e], NoDevice}
      BY <2>2, <3>1 DEF Init
    <3>3. QED BY <2>2, <3>1, <3>2
  <2>3. QED BY <2>1, <2>2 DEF StoredTyped, Unique
<1>2. BridgeTyped
  BY DEF Init, BridgeTyped, Unique, MaybeName
<1>3. FlagsTyped
  BY DEF Init, FlagsTyped, MaybeName, NoList
<1>4. ProcTyped
  BY IdleTyped DEF Init, ProcTyped
<1>5. MessagesTyped
  BY DEF Init, MessagesTyped
<1>6. QED BY <1>1, <1>2, <1>3, <1>4, <1>5 DEF Typed

\* The bridge keeps its names apart: it refuses a rename to a taken name.
LEMMA BridgeStepsTyped ==
    ASSUME Typed,
           \/ BridgeApplies \/ Outside
           \/ \E up \in BOOLEAN : HealthReport(up)
    PROVE  Typed'
<1> USE DEF Typed
<1>1. CASE BridgeApplies
  <2> DEFINE r == Head(toBridge)
             possible == bridge[r.dev] # NoName /\ \A d \in Devs : bridge[d] # r.to
             applied == [bridge EXCEPT ![r.dev] = IF r.kind = "remove" THEN NoName ELSE r.to]
  <2>1. toBridge # <<>> /\ toBridge' = Tail(toBridge)
    BY <1>1 DEF BridgeApplies
  <2>2. r \in ToBridge /\ toBridge' \in Seq(ToBridge)
    BY <2>1, HeadTailProperties DEF MessagesTyped
  <2>3. applied \in [Devs -> MaybeName]
    BY <2>2 DEF BridgeTyped, ToBridge, MaybeName
  <2>4. CASE (r.kind = "remove" \/ possible) /\ bridge' = applied
              /\ Publishes(applied, IF r.kind = "remove" THEN <<>>
                                    ELSE <<Response(bridge[r.dev], r.to)>>)
              /\ UNCHANGED astray
    <3>1. BridgeTyped'
      <4>1. Unique(applied, NoName)
        <5>1. r.dev \in Devs /\ (IF r.kind = "remove" THEN NoName ELSE r.to) \in Names \cup {NoName}
          BY <2>2 DEF ToBridge, MaybeName
        <5>2. QED BY <2>4, <5>1, StaysUnique DEF BridgeTyped, MaybeName
      <4>2. QED BY <2>3, <2>4, <4>1 DEF BridgeTyped
    <3>2. Response(bridge[r.dev], r.to) \in ToHub
      BY <2>2, OthersTyped DEF BridgeTyped, ToBridge
    <3>3. (IF r.kind = "remove" THEN <<>> ELSE <<Response(bridge[r.dev], r.to)>>) \in Seq(ToHub)
      BY <3>2
    <3>4. toHub' \in Seq(ToHub)
      BY <2>3, <2>4, <3>3, PublishesTyped
    <3>5. QED BY <1>1, <2>2, <2>4, <3>1, <3>4
              DEF BridgeApplies, hub, StoredTyped, FlagsTyped, ProcTyped, MessagesTyped
  <2>5. CASE /\ r.kind = "rename" /\ ~possible
              /\ astray' = [astray EXCEPT ![r.dev] = @ \/ bridge[r.dev] # r.to]
              /\ UNCHANGED <<bridge, toHub>>
    <3>1. astray' \in [Devs -> BOOLEAN]
      BY <2>5 DEF FlagsTyped
    <3>2. QED BY <1>1, <2>2, <2>5, <3>1
              DEF BridgeApplies, hub, StoredTyped, BridgeTyped, FlagsTyped, ProcTyped, MessagesTyped
  <2>6. QED BY <1>1, <2>4, <2>5 DEF BridgeApplies
<1>2. ASSUME NEW d \in Devs, NEW n \in Names, BridgeRenames(d, n) \/ BridgeJoins(d, n)
      PROVE  Typed'
  <2>1. bridge' = [bridge EXCEPT ![d] = n] /\ \A e \in Devs : bridge[e] # n
    BY <1>2 DEF BridgeRenames, BridgeJoins
  <2>2. bridge' \in [Devs -> MaybeName]
    BY <2>1 DEF BridgeTyped, MaybeName
  <2>3. Unique(bridge', NoName)
    BY <2>1, StaysUnique DEF BridgeTyped, MaybeName
  <2>4. Response(bridge[d], n) \in ToHub
    BY OthersTyped DEF BridgeTyped, MaybeName
  <2>5. <<>> \in Seq(ToHub) /\ <<Response(bridge[d], n)>> \in Seq(ToHub)
    BY <2>4
  <2>6. \E more \in {<<>>, <<Response(bridge[d], n)>>} : Publishes(bridge', more)
    BY <1>2 DEF BridgeRenames, BridgeJoins
  <2>7. toHub' \in Seq(ToHub)
    BY <2>2, <2>5, <2>6, PublishesTyped
  <2>8. UNCHANGED <<hub, ready, toBridge, ghosts>>
    BY <1>2 DEF BridgeRenames, BridgeJoins
  <2>9. QED BY <2>2, <2>3, <2>7, <2>8
            DEF hub, ghosts, StoredTyped, BridgeTyped, FlagsTyped, ProcTyped, MessagesTyped
<1>3. ASSUME NEW d \in Devs, Interview(d) PROVE Typed'
  <2>1. ready' = [ready EXCEPT ![d] = ~@] /\ UNCHANGED <<hub, bridge, toBridge, ghosts>>
        /\ toHub' = Append(toHub, List(bridge, {e \in Devs : ready'[e]}))
    BY <1>3 DEF Interview
  <2>2. ready' \in [Devs -> BOOLEAN]
    BY <2>1 DEF FlagsTyped
  <2>3. List(bridge, {e \in Devs : ready'[e]}) \in ToHub
    BY ListTyped DEF BridgeTyped
  <2>4. QED BY <2>1, <2>2, <2>3
            DEF hub, ghosts, StoredTyped, BridgeTyped, FlagsTyped, ProcTyped, MessagesTyped
<1>4. ASSUME NEW d \in Devs, DeviceState(d) PROVE Typed'
  <2>1. State(bridge[d]) \in ToHub
    BY OthersTyped DEF BridgeTyped
  <2>2. QED BY <1>4, <2>1
            DEF DeviceState, hub, ghosts, StoredTyped, BridgeTyped, FlagsTyped, ProcTyped, MessagesTyped
<1>5. ASSUME NEW up \in BOOLEAN, HealthReport(up) PROVE Typed'
  BY <1>5, OthersTyped
     DEF HealthReport, hub, ghosts, StoredTyped, BridgeTyped, FlagsTyped, ProcTyped, MessagesTyped
<1>6. QED BY <1>1, <1>2, <1>3, <1>4, <1>5 DEF Outside

LEMMA HandlingTyped ==
    ASSUME Typed,
           \/ HandleHealth
           \/ \E p \in Procs : Handle(p) \/ SyncFriendlyNames(p) \/ Select(p)
    PROVE  Typed'
<1> USE DEF Typed
<1>1. CASE HandleHealth
  <2>1. Head(toHub) \in ToHub /\ toHub' \in Seq(ToHub)
    BY <1>1, NextTyped DEF HandleHealth
  <2>2. Head(toHub).up \in BOOLEAN
    BY <2>1 DEF ToHub
  <2>3. QED BY <1>1, <2>1, <2>2 DEF HandleHealth, ghosts, StoredTyped, BridgeTyped, FlagsTyped,
                                    ProcTyped, MessagesTyped
<1>2. ASSUME NEW p \in Procs, HandleList(p) PROVE Typed'
  <2> DEFINE m == Head(toHub)
             r == [Idle EXCEPT !.pc = "find", !.names = m.names]
  <2>1. m \in ToHub /\ toHub' \in Seq(ToHub)
    BY <1>2, NextTyped DEF HandleList
  <2>2. m.names \in [Devs -> MaybeName]
    BY <2>1 DEF ToHub
  <2>3. r \in Handlers
    BY <2>2, IdleTyped DEF Handlers
  <2>4. ProcTyped'
    BY <1>2, <2>3, StartTyped DEF HandleList
  <2>5. cache' \in [Devs -> MaybeName]
    BY <1>2, <2>2 DEF HandleList, Cached, MaybeName
  <2>6. asked' \in [Devs -> MaybeName]
    BY <1>2, <2>2 DEF HandleList, FlagsTyped, MaybeName
  <2>7. QED BY <1>2, <2>1, <2>4, <2>5, <2>6
            DEF HandleList, StoredTyped, BridgeTyped, FlagsTyped, MessagesTyped
<1>3. ASSUME NEW p \in Procs, HandleResponse(p) PROVE Typed'
  <2> DEFINE m == Head(toHub)
             r == [Idle EXCEPT !.pc = "select", !.from = m.from, !.to = m.to]
  <2>1. m \in ToHub /\ toHub' \in Seq(ToHub)
    BY <1>3, NextTyped DEF HandleResponse
  <2>2. r \in Handlers
    BY <2>1, IdleTyped DEF Handlers, ToHub
  <2>3. ProcTyped'
    BY <1>3, <2>2, StartTyped DEF HandleResponse
  <2>4. QED BY <1>3, <2>1, <2>3
            DEF HandleResponse, ghosts, StoredTyped, BridgeTyped, FlagsTyped, MessagesTyped
<1>4. ASSUME NEW p \in Procs, HandleState(p) PROVE Typed'
  <2> DEFINE m == Head(toHub)
             r == [Idle EXCEPT !.pc = "select", !.from = m.from]
  <2>1. m \in ToHub /\ toHub' \in Seq(ToHub)
    BY <1>4, NextTyped DEF HandleState
  <2>2. r \in Handlers
    BY <2>1, IdleTyped DEF Handlers, ToHub
  <2>3. ProcTyped'
    BY <1>4, <2>2, StartTyped DEF HandleState
  <2>4. QED BY <1>4, <2>1, <2>3
            DEF HandleState, ghosts, StoredTyped, BridgeTyped, FlagsTyped, MessagesTyped
<1>5. ASSUME NEW p \in Procs, SyncFriendlyNames(p) PROVE Typed'
  <2> DEFINE names == proc[p].names
             works == [d \in Devs |-> IF d \in Drifted(names) THEN Work("read", "sync", names[d])
                                      ELSE NoWork]
  <2>1. names \in [Devs -> MaybeName]
    BY DEF ProcTyped, Handlers
  <2>2. ASSUME NEW d \in Devs PROVE Work("read", "sync", names[d]) \in Works
    BY <2>1, ReadTyped DEF Kinds
  <2>3. works \in [Devs -> Works]
    BY <2>2, NoWorkTyped
  <2>4. Running(works) \in Handlers
    BY <2>3, RunningTyped
  <2>5. proc' = [proc EXCEPT ![p] = IF Drifted(names) = {} THEN Idle ELSE Running(works)]
    BY <1>5 DEF SyncFriendlyNames
  <2>6. astray' \in [Devs -> BOOLEAN]
    <3>1. astray' = [d \in Devs |-> astray[d] /\ names[d] = NoName]
      BY <1>5 DEF SyncFriendlyNames
    <3>2. \A d \in Devs : (astray[d] /\ names[d] = NoName) \in BOOLEAN
      OBVIOUS
    <3>3. QED BY <3>1, <3>2
  <2> HIDE DEF works, names
  <2>7. ProcTyped'
    BY <2>4, <2>5, IdleTyped DEF ProcTyped
  <2>8. QED BY <1>5, <2>6, <2>7
            DEF SyncFriendlyNames, StoredTyped, BridgeTyped, FlagsTyped, MessagesTyped
<1>6. ASSUME NEW p \in Procs, Select(p) PROVE Typed'
  <2> DEFINE chosen == {d \in Devs : stored[d] = proc[p].from}
             w == Work("read", "sync", proc[p].to)
             works == [d \in Devs |-> IF d \in chosen THEN w ELSE NoWork]
  <2>1. w \in Works
    BY ReadTyped DEF Kinds, ProcTyped, Handlers
  <2>2. works \in [Devs -> Works]
    BY <2>1, NoWorkTyped
  <2>3. Running(works) \in Handlers
    BY <2>2, RunningTyped
  <2>4. proc' = [proc EXCEPT ![p] = IF chosen = {} THEN Idle ELSE Running(works)]
    BY <1>6 DEF Select
  <2> HIDE DEF works, chosen
  <2>5. ProcTyped'
    BY <2>3, <2>4, IdleTyped DEF ProcTyped
  <2>6. QED BY <1>6, <2>5
            DEF Select, ghosts, StoredTyped, BridgeTyped, FlagsTyped, MessagesTyped
<1>7. QED BY <1>1, <1>2, <1>3, <1>4, <1>5, <1>6 DEF Handle

LEMMA ApiTyped == ASSUME Typed, NEW p \in Procs, Api(p) PROVE Typed'
<1> USE DEF Typed
<1>1. ASSUME NEW d \in Devs, NEW w \in Works, Request(p, d, w), asked' \in [Devs -> MaybeName]
      PROVE  Typed'
  <2>1. Running([Idle.work EXCEPT ![d] = w]) \in Handlers
    BY OneWork, RunningTyped
  <2>2. ProcTyped'
    BY <1>1, <2>1, StartTyped DEF Request
  <2>3. QED BY <1>1, <2>2
            DEF Request, StoredTyped, BridgeTyped, FlagsTyped, MessagesTyped
<1>2. NoName \in MaybeName /\ Names \subseteq MaybeName
  BY DEF MaybeName
<1>3. ASSUME NEW d \in Devs, ApiUpdate(p, d) \/ ApiRemove(p, d) PROVE Typed'
  <2>1. Work("read", "api", NoName) \in Works /\ Work("read", "remove", NoName) \in Works
    BY <1>2, ReadTyped DEF Kinds
  <2>2. QED BY <1>1, <1>3, <2>1 DEF ApiUpdate, ApiRemove, FlagsTyped
<1>4. ASSUME NEW d \in Devs, NEW n \in Names, ApiRename(p, d, n) \/ ApiAdd(p, d, n) PROVE Typed'
  <2>1. Work("read", "api", n) \in Works /\ Work("check", "add", n) \in Works
    BY <1>2, ReadTyped, CheckTyped DEF Kinds
  <2>2. asked' \in [Devs -> MaybeName]
    BY <1>2, <1>4 DEF ApiRename, ApiAdd, FlagsTyped
  <2>3. QED BY <1>1, <1>4, <2>1, <2>2 DEF ApiRename, ApiAdd
<1>5. QED BY <1>3, <1>4 DEF Api

\* The hub's names stay apart by the unique index, which the save of a modified
\* name and the insertion meet; a name that was not modified is not written.
LEMMA WorkTyped ==
    ASSUME Typed, NEW p \in Procs, NEW d \in Devs, WorkStep(p, d) PROVE Typed'
<1> USE DEF Typed
<1> DEFINE w == proc[p].work[d]
<1>1. w \in Works
  BY DEF ProcTyped, Handlers
<1>2. ASSUME NEW q \in WorkPcs, q \in Naming => w.to \in Names PROVE [w EXCEPT !.pc = q] \in Works
  BY <1>1, <1>2 DEF Works
<1>3. CASE Read(p, d)
  <2>1. [w EXCEPT !.pc = "delete"] \in Works
    BY <1>2 DEF WorkPcs, Naming
  <2> DEFINE r == [w EXCEPT !.pc = "save", !.old = stored[d],
                            !.to = IF w.to = NoName THEN stored[d] ELSE w.to]
  <2>2. stored[d] # NoDevice => r \in Works
    BY <1>1 DEF Works, WorkPcs, StoredTyped, MaybeName
  <2>3. ProcTyped'
    BY <1>3, <2>1, <2>2, EndsTyped, BecomesTyped DEF Read
  <2>4. QED BY <1>3, <2>3
            DEF Read, ghosts, StoredTyped, BridgeTyped, FlagsTyped, MessagesTyped
<1>4. CASE Save(p, d)
  <2>1. w.to \in Names
    BY <1>1, <1>4 DEF Save, At, Works, Naming
  <2>2. [w EXCEPT !.pc = "compare"] \in Works
    BY <1>2, <2>1 DEF WorkPcs
  <2>3. ProcTyped'
    BY <1>4, <2>2, EndsTyped, BecomesTyped DEF Save
  <2>4. StoredTyped'
    <3>1. CASE UNCHANGED stored
      BY <3>1 DEF StoredTyped
    <3>2. CASE w.to # w.old /\ ~Clash(d, w) /\ stored' = [stored EXCEPT ![d] = w.to]
      <4>1. \A e \in Devs \ {d} : stored[e] # w.to
        BY <3>2 DEF Clash
      <4>2. Unique(stored', NoDevice)
        BY <2>1, <3>2, <4>1, StaysUnique DEF StoredTyped
      <4>3. QED BY <2>1, <3>2, <4>2 DEF StoredTyped
    <3>3. QED BY <1>4, <3>1, <3>2 DEF Save
  <2>5. blocked' \in [Devs -> BOOLEAN]
    BY <1>4 DEF Save, FlagsTyped, Clash
  <2>6. QED BY <1>4, <2>3, <2>4, <2>5 DEF Save, BridgeTyped, FlagsTyped, MessagesTyped
<1>5. CASE Compare(p, d)
  <2>1. w.to \in Names
    BY <1>1, <1>5 DEF Compare, At, Works, Naming
  <2>2. toBridge' \in Seq(ToBridge) /\ astray' \in [Devs -> BOOLEAN]
    BY <1>5, <2>1, PublishTyped DEF Compare, FlagsTyped, MessagesTyped, MaybeName
  <2>3. ProcTyped'
    BY <1>5, EndsTyped DEF Compare
  <2>4. QED BY <1>5, <2>2, <2>3 DEF Compare, StoredTyped, BridgeTyped, FlagsTyped, MessagesTyped
<1>6. CASE Check(p, d)
  <2>1. w.to \in Names
    BY <1>1, <1>6 DEF Check, At, Works, Naming
  <2>2. [w EXCEPT !.pc = "insert"] \in Works
    BY <1>2, <2>1 DEF WorkPcs
  <2>3. ProcTyped'
    BY <1>6, <2>2, EndsTyped, BecomesTyped DEF Check
  <2>4. QED BY <1>6, <2>3
            DEF Check, ghosts, StoredTyped, BridgeTyped, FlagsTyped, MessagesTyped
<1>7. CASE Insert(p, d)
  <2>1. w.to \in Names
    BY <1>1, <1>7 DEF Insert, At, Works, Naming
  <2>2. [w EXCEPT !.pc = "announce"] \in Works
    BY <1>2, <2>1 DEF WorkPcs
  <2>3. ProcTyped'
    BY <1>7, <2>2, EndsTyped, BecomesTyped DEF Insert
  <2>4. StoredTyped'
    <3>1. CASE UNCHANGED stored
      BY <3>1 DEF StoredTyped
    <3>2. CASE ~Taken(w.to) /\ stored' = [stored EXCEPT ![d] = w.to]
      <4>1. Unique(stored', NoDevice)
        BY <2>1, <3>2, StaysUnique DEF StoredTyped, Taken
      <4>2. QED BY <2>1, <3>2, <4>1 DEF StoredTyped
    <3>3. QED BY <1>7, <3>1, <3>2 DEF Insert
  <2>5. QED BY <1>7, <2>3, <2>4 DEF Insert, ghosts, BridgeTyped, FlagsTyped, MessagesTyped
<1>8. CASE Announce(p, d)
  <2>1. w.to \in Names
    BY <1>1, <1>8 DEF Announce, At, Works, Naming
  <2>2. toBridge' \in Seq(ToBridge) /\ astray' \in [Devs -> BOOLEAN]
    BY <1>8, <2>1, PublishTyped DEF Announce, MaybeName
  <2>3. ProcTyped'
    BY <1>8, EndsTyped DEF Announce
  <2>4. QED BY <1>8, <2>2, <2>3 DEF Announce, StoredTyped, BridgeTyped, FlagsTyped, MessagesTyped
<1>9. CASE Delete(p, d)
  <2>1. [w EXCEPT !.pc = "expel"] \in Works
    BY <1>2 DEF WorkPcs, Naming
  <2>2. ProcTyped'
    BY <1>9, <2>1, BecomesTyped DEF Delete
  <2>3. stored' = [stored EXCEPT ![d] = NoDevice]
    BY <1>9 DEF Delete
  <2>4. StoredTyped'
    BY <2>3 DEF StoredTyped, Unique
  <2>5. QED BY <1>9, <2>2, <2>4 DEF Delete, ghosts, BridgeTyped, FlagsTyped, MessagesTyped
<1>10. CASE Expel(p, d)
  <2>1. toBridge' \in Seq(ToBridge) /\ astray' \in [Devs -> BOOLEAN]
    BY <1>10, PublishTyped DEF Expel, MaybeName
  <2>2. ProcTyped'
    BY <1>10, EndsTyped DEF Expel
  <2>3. QED BY <1>10, <2>1, <2>2 DEF Expel, StoredTyped, BridgeTyped, FlagsTyped, MessagesTyped
<1>11. QED BY <1>3, <1>4, <1>5, <1>6, <1>7, <1>8, <1>9, <1>10 DEF WorkStep

LEMMA RestartTyped == ASSUME Typed, Restart PROVE Typed'
<1> USE DEF Typed
<1>1. List(bridge, Eligible) \in ToHub
  BY ListTyped DEF BridgeTyped, Eligible
<1>2. toHub' \in Seq(ToHub)
  BY <1>1 DEF Restart
<1>3. ProcTyped'
  BY IdleTyped DEF Restart, ProcTyped
<1>4. cache' \in [Devs -> MaybeName] /\ connected' \in BOOLEAN
  BY DEF Restart, NoList, MaybeName
<1>5. QED BY <1>2, <1>3, <1>4
          DEF Restart, ghosts, StoredTyped, BridgeTyped, FlagsTyped, MessagesTyped

LEMMA TypedStep == Typed /\ [Next]_vars => Typed'
<1> SUFFICES ASSUME Typed, [Next]_vars PROVE Typed'
  OBVIOUS
<1>1. CASE UNCHANGED vars
  BY <1>1 DEF vars, hub, ghosts, Typed, StoredTyped, BridgeTyped, FlagsTyped, ProcTyped,
              MessagesTyped
<1>2. CASE \E p \in Procs : Step(p)
  BY <1>2, HandlingTyped, WorkTyped DEF Step
<1>3. CASE \E p \in Procs : Handle(p)
  BY <1>3, HandlingTyped
<1>4. CASE \E p \in Procs : Api(p)
  BY <1>4, ApiTyped
<1>5. CASE HandleHealth
  BY <1>5, HandlingTyped
<1>6. CASE BridgeApplies \/ Outside \/ \E up \in BOOLEAN : HealthReport(up)
  BY <1>6, BridgeStepsTyped
<1>7. CASE Restart
  BY <1>7, RestartTyped
<1> QED BY <1>1, <1>2, <1>3, <1>4, <1>5, <1>6, <1>7 DEF Next

LEMMA AlwaysTyped == Spec => []Typed
BY InitTyped, TypedStep, PTL DEF Spec

\* However handlers, messages, renames on either side, outages and restarts
\* follow each other, no two documents of the hub and no two devices of the
\* bridge get one name, and only names are ever stored or sent.
THEOREM NamesStayApart == Spec => []TypeOK
BY AlwaysTyped, TypedSuffices, PTL

(* --------------------- What is on its way to agreement --------------------- *)

\* A device list has not been handled yet.
IsList(i) == toHub[i].kind = "list"
Listed == \E i \in DOMAIN toHub : IsList(i)

\* The last list has the names the bridge has.
LastList == \A i \in DOMAIN toHub :
    IsList(i) /\ (\A j \in DOMAIN toHub : j > i => ~IsList(j)) => toHub[i].names = bridge

\* Once all lists are handled, the cache has no name that the bridge has not,
\* and whoever still looks for documents does so for the bridge's names.
Told == ~Listed => /\ \A d \in Devs : cache[d] \in {bridge[d], NoName}
                   /\ \A p \in Procs : proc[p].pc = "find" => proc[p].names = bridge

\* The work w will give the document of d the bridge's name, or ask the bridge
\* for the document's.
Settles(d, w) ==
    \/ w.pc = "read" /\ w.kind = "sync" /\ w.to = bridge[d]
    \/ w.pc = "save" /\ w.kind = "sync" /\ w.to = bridge[d] /\ w.old # w.to
    \/ w.pc \in {"compare", "announce"} /\ w.to = stored[d]
Settling(d) == \E p \in Procs : proc[p].pc = "run" /\ Settles(d, proc[p].work[d])

Asked(d) == \E i \in DOMAIN toBridge :
    toBridge[i] = [kind |-> "rename", dev |-> d, to |-> stored[d]]

OnItsWay(d) == \/ astray[d] \/ blocked[d]
               \/ Asked(d) \/ Settling(d)
               \/ \E p \in Procs : proc[p].pc = "find"

\* A name differs only as long as something is under way that settles it.
Coming == ~Listed => \A d \in Devs : Differs(d) => OnItsWay(d)

Agreeing == LastList /\ Told /\ Coming

(* ------------------------------- Small facts ------------------------------- *)

\* What the last list says once the first message is handled.
LEMMA NextLast ==
    ASSUME Typed, LastList, NEW kind, NextMsg(kind), bridge' = bridge
    PROVE  /\ LastList'
           /\ ~Listed' /\ kind = "list" => Head(toHub).names = bridge
           /\ kind # "list" => (Listed <=> Listed')
<1> DEFINE n == Len(toHub)
<1>1. /\ toHub \in Seq(ToHub) /\ toHub # <<>> /\ toHub' = Tail(toHub)
      /\ Head(toHub).kind = kind
  BY DEF Typed, MessagesTyped, NextMsg
<1>2. /\ n \in Nat \ {0} /\ DOMAIN toHub = 1..n /\ DOMAIN toHub' = 1..(n - 1)
      /\ \A i \in 1..(n - 1) : toHub'[i] = toHub[i + 1]
      /\ Head(toHub) = toHub[1]
  BY <1>1, HeadTailProperties
<1> HIDE DEF n
<1>3. \A i \in 1..(n - 1) : i + 1 \in 1..n
  BY <1>2
<1>4. \A j \in 1..n : j = 1 \/ (j - 1 \in 1..(n - 1) /\ toHub[j] = toHub'[j - 1])
  BY <1>2
<1>5. LastList'
  <2> SUFFICES ASSUME NEW i \in 1..(n - 1), toHub'[i].kind = "list",
                      \A j \in 1..(n - 1) : j > i => toHub'[j].kind # "list"
               PROVE  toHub'[i].names = bridge
    BY <1>2 DEF LastList, IsList
  <2>1. ASSUME NEW j \in 1..n, j > i + 1 PROVE toHub[j].kind # "list"
    <3>1. j - 1 \in 1..(n - 1) /\ toHub[j] = toHub'[j - 1] /\ j - 1 > i
      BY <1>2, <1>4, <2>1
    <3> QED BY <3>1
  <2> QED BY <1>2, <1>3, <2>1 DEF LastList, IsList
<1>6. ASSUME ~Listed', kind = "list" PROVE Head(toHub).names = bridge
  <2>1. 1 \in 1..n /\ toHub[1].kind = "list"
    BY <1>1, <1>2, <1>6
  <2>2. ASSUME NEW j \in 1..n, j > 1 PROVE toHub[j].kind # "list"
    BY <1>2, <1>4, <1>6, <2>2 DEF Listed, IsList
  <2> QED BY <1>2, <2>1, <2>2 DEF LastList, IsList
<1>7. ASSUME kind # "list" PROVE Listed <=> Listed'
  <2>1. ASSUME NEW j \in 1..n, toHub[j].kind = "list" PROVE Listed'
    <3>1. j # 1
      BY <1>1, <1>2, <1>7, <2>1
    <3>2. j - 1 \in 1..(n - 1) /\ toHub'[j - 1].kind = "list"
      BY <1>4, <2>1, <3>1
    <3> QED BY <1>2, <3>2 DEF Listed, IsList
  <2>2. Listed' => Listed
    BY <1>2, <1>3 DEF Listed, IsList
  <2> QED BY <1>2, <2>1, <2>2 DEF Listed, IsList
<1> QED BY <1>5, <1>6, <1>7

\* What the last list says once one more message is published.
LEMMA OneMore ==
    ASSUME Typed, LastList, NEW m, toHub' = Append(toHub, m),
           IF m.kind = "list" THEN m.names = bridge' ELSE bridge' = bridge
    PROVE  /\ LastList'
           /\ m.kind = "list" => Listed'
           /\ m.kind # "list" => (Listed <=> Listed')
<1> DEFINE n == Len(toHub)
<1>1. /\ n \in Nat /\ DOMAIN toHub = 1..n /\ DOMAIN toHub' = 1..(n + 1)
      /\ \A i \in 1..n : toHub'[i] = toHub[i]
      /\ toHub'[n + 1] = m
  BY DEF Typed, MessagesTyped
<1> HIDE DEF n
<1>2. \A i \in 1..(n + 1) : i = n + 1 \/ i \in 1..n
  BY <1>1
<1>3. n + 1 \in 1..(n + 1) /\ \A i \in 1..n : i \in 1..(n + 1) /\ n + 1 > i
  BY <1>1
<1>4. LastList'
  BY <1>1, <1>2, <1>3 DEF LastList, IsList
<1> QED BY <1>1, <1>2, <1>3, <1>4 DEF Listed, IsList

LEMMA PublishedLast ==
    ASSUME Typed, LastList, NEW more, Publishes(bridge', more),
           more = <<>> \/ \E from, to : more = <<Response(from, to)>>
    PROVE  LastList' /\ Listed'
<1> DEFINE l == List(bridge', Eligible)
           n == Len(toHub)
<1>1. l.kind = "list" /\ l.names = bridge'
  BY DEF List, Msg
<1> HIDE DEF l
<1>2. toHub' = toHub \o <<l>> \o more /\ toHub \in Seq(ToHub) /\ n \in Nat
  BY DEF Publishes, Typed, MessagesTyped, l
<1>3. PICK k \in {0, 1} : /\ DOMAIN toHub' = 1..(n + 1 + k) /\ toHub'[n + 1] = l
                          /\ k = 1 => toHub'[n + 2].kind = "response"
  <2>1. CASE more = <<>>
    <3>1. DOMAIN toHub' = 1..(n + 1 + 0) /\ toHub'[n + 1] = l
      BY <1>2, <2>1
    <3> QED BY <3>1
  <2>2. ASSUME NEW from, NEW to, more = <<Response(from, to)>>
        PROVE  /\ DOMAIN toHub' = 1..(n + 1 + 1) /\ toHub'[n + 1] = l
               /\ toHub'[n + 2].kind = "response"
    <3> DEFINE r == Response(from, to)
    <3>1. r.kind = "response"
      BY DEF Response, Msg
    <3> HIDE DEF r
    <3> QED BY <1>2, <2>2, <3>1 DEF r
  <2> QED BY <2>1, <2>2
<1> HIDE DEF n
<1>4. n + 1 \in DOMAIN toHub' /\ \A i \in DOMAIN toHub' : i <= n \/ i = n + 1 \/ (k = 1 /\ i = n + 2)
  BY <1>2, <1>3
<1>5. Listed'
  BY <1>1, <1>3, <1>4 DEF Listed, IsList
<1>6. LastList'
  <2> SUFFICES ASSUME NEW i \in DOMAIN toHub', toHub'[i].kind = "list",
                      \A j \in DOMAIN toHub' : j > i => toHub'[j].kind # "list"
               PROVE  toHub'[i].names = bridge'
    BY DEF LastList, IsList
  <2>1. ~(n + 1 > i) /\ i \in Int
    BY <1>1, <1>3, <1>4
  <2>2. ~(k = 1 /\ i = n + 2)
    BY <1>3
  <2>3. i = n + 1
    BY <1>2, <1>4, <2>1, <2>2
  <2> QED BY <1>1, <1>3, <2>3
<1> QED BY <1>5, <1>6

\* While a list is still to be handled, nothing else is claimed.
LEMMA ListedSuffices == ASSUME LastList', Listed' PROVE Agreeing'
BY DEF Agreeing, Told, Coming

\* The work of one device goes on, that of the others is as it was.
LEMMA OthersGoOn ==
    ASSUME Typed, NEW p \in Procs, NEW d \in Devs, NEW w, Becomes(p, d, w)
    PROVE  /\ \A q \in Procs : proc'[q].pc = "find" => proc[q].pc = "find" /\ proc'[q] = proc[q]
           /\ \A q \in Procs, e \in Devs :
                  /\ q # p \/ e # d
                  /\ proc[q].pc = "run" /\ proc[q].work[e].pc # "none"
                  => proc'[q].pc = "run" /\ proc'[q].work[e] = proc[q].work[e]
           /\ w.pc # "none" => proc'[p].pc = "run" /\ proc'[p].work[d] = w
           /\ \A q \in Procs : q # p => proc'[q] = proc[q]
<1> DEFINE works == [proc[p].work EXCEPT ![d] = w]
<1>1. proc' = [proc EXCEPT ![p] = IF \A e \in Devs : works[e] = NoWork THEN Idle
                                  ELSE Running(works)]
  BY DEF Becomes
<1>2. proc \in [Procs -> Handlers] /\ proc[p].work \in [Devs -> Works]
  BY DEF Typed, ProcTyped, Handlers
<1>3. works[d] = w /\ \A e \in Devs : e # d => works[e] = proc[p].work[e]
  BY <1>2
<1> HIDE DEF works
<1>4. proc'[p] \in {Idle, Running(works)} /\ \A q \in Procs : q # p => proc'[q] = proc[q]
  BY <1>1, <1>2
<1>5. Idle.pc = "idle" /\ Running(works).pc = "run" /\ Running(works).work = works
  BY DEF Idle, Running
<1>6. ASSUME NEW e \in Devs, works[e].pc # "none"
      PROVE  proc'[p].pc = "run" /\ proc'[p].work[e] = works[e]
  <2>1. works[e] # NoWork
    BY <1>6 DEF NoWork
  <2> QED BY <1>1, <1>2, <1>5, <2>1
<1> QED BY <1>3, <1>4, <1>5, <1>6

\* A request that was published stays on its way, and so does one before it.
LEMMA StillAsked ==
    ASSUME Typed, NEW e \in Devs, Asked(e), stored'[e] = stored[e],
           toBridge' = toBridge \/ \E r : toBridge' = Append(toBridge, r)
    PROVE  Asked(e)'
<1> DEFINE a == [kind |-> "rename", dev |-> e, to |-> stored[e]]
<1>1. PICK i \in DOMAIN toBridge : toBridge[i] = a
  BY DEF Asked
<1>2. toBridge \in Seq(ToBridge)
  BY DEF Typed, MessagesTyped
<1> HIDE DEF a
<1>3. i \in DOMAIN toBridge' /\ toBridge'[i] = a
  BY <1>1, <1>2
<1> QED BY <1>3 DEF Asked, a

LEMMA Published ==
    ASSUME Typed, NEW d \in Devs, NEW kind, NEW to, Publish(d, kind, to)
    PROVE  /\ toBridge' = toBridge \/ \E r : toBridge' = Append(toBridge, r)
           /\ \A e \in Devs : astray[e] => astray'[e]
           /\ kind = "rename" /\ to = stored[d] /\ stored'[d] = stored[d] => astray'[d] \/ Asked(d)'
<1>1. astray \in [Devs -> BOOLEAN] /\ toBridge \in Seq(ToBridge)
  BY DEF Typed, FlagsTyped, MessagesTyped
<1>2. CASE connected
  <2> DEFINE r == [kind |-> kind, dev |-> d, to |-> to]
             n == Len(toBridge)
  <2>1. toBridge' = Append(toBridge, r) /\ astray' = astray
    BY <1>2 DEF Publish
  <2> HIDE DEF r
  <2>2. n + 1 \in DOMAIN toBridge' /\ toBridge'[n + 1] = r
    BY <1>1, <2>1
  <2>3. \E i \in DOMAIN toBridge' : toBridge'[i] = r
    BY <2>2
  <2>4. kind = "rename" /\ to = stored[d] /\ stored'[d] = stored[d] => Asked(d)'
    BY <2>3 DEF Asked, r
  <2> QED BY <2>1, <2>4
<1>3. CASE ~connected
  BY <1>1, <1>3 DEF Publish
<1> QED BY <1>2, <1>3

\* Steps of handlers that are neither about to sync nor at work on documents.
LEMMA AsideAgrees ==
    ASSUME Agreeing, LastList', Listed <=> Listed',
           UNCHANGED <<stored, cache, bridge, toBridge, astray, blocked>>,
           \A q \in Procs : proc[q].pc \in {"find", "run"} \/ proc'[q].pc = "find"
               => proc'[q] = proc[q]
    PROVE  Agreeing'
<1> SUFFICES ASSUME ~Listed' PROVE Told' /\ Coming'
  BY DEF Agreeing, Told, Coming
<1>1. Told'
  BY DEF Agreeing, Told
<1>2. ASSUME NEW d \in Devs, Differs(d)' PROVE OnItsWay(d)'
  <2>1. OnItsWay(d)
    BY <1>2 DEF Agreeing, Coming, Differs
  <2>2. CASE astray[d] \/ blocked[d] \/ Asked(d)
    BY <2>2 DEF OnItsWay, Asked
  <2>3. CASE Settling(d)
    <3>1. Settling(d)'
      BY <2>3 DEF Settling, Settles
    <3> QED BY <3>1 DEF OnItsWay
  <2>4. CASE \E p \in Procs : proc[p].pc = "find"
    BY <2>4 DEF OnItsWay
  <2> QED BY <2>1, <2>2, <2>3, <2>4 DEF OnItsWay
<1> QED BY <1>1, <1>2 DEF Coming

(* ------------------------- The work on documents --------------------------- *)

\* A step of the work on d leaves what is on its way for the other devices; for d
\* it keeps it, or it is what now settles the name.
LEMMA WorkGoesOn ==
    ASSUME Typed, Agreeing, NEW p \in Procs, NEW d \in Devs, NEW w, proc[p].pc = "run",
           Becomes(p, d, w), UNCHANGED <<cache, bridge, toHub>>,
           \A e \in Devs \ {d} : stored'[e] = stored[e] /\ blocked'[e] = blocked[e],
           \A e \in Devs : astray[e] => astray'[e],
           toBridge' = toBridge \/ \E r : toBridge' = Append(toBridge, r),
           \/ stored'[d] = NoDevice
           \/ w.pc \in {"compare", "announce"} /\ w.to = stored'[d]
           \/ /\ stored'[d] = stored[d] /\ (blocked[d] => blocked'[d])
              /\ ~Listed /\ Differs(d) /\ Settles(d, proc[p].work[d]) =>
                     Settles(d, w) \/ astray'[d] \/ blocked'[d] \/ Asked(d)'
    PROVE  Agreeing'
<1>0. /\ \A q \in Procs : proc'[q].pc = "find" => proc[q].pc = "find" /\ proc'[q] = proc[q]
      /\ \A q \in Procs, e \in Devs :
             /\ q # p \/ e # d
             /\ proc[q].pc = "run" /\ proc[q].work[e].pc # "none"
             => proc'[q].pc = "run" /\ proc'[q].work[e] = proc[q].work[e]
      /\ w.pc # "none" => proc'[p].pc = "run" /\ proc'[p].work[d] = w
      /\ \A q \in Procs : q # p => proc'[q] = proc[q]
  BY OthersGoOn
<1>1. LastList' /\ (Listed <=> Listed') /\ Told'
  BY <1>0 DEF Agreeing, LastList, Listed, IsList, Told
<1> SUFFICES ASSUME ~Listed, NEW e \in Devs, Differs(e)' PROVE OnItsWay(e)'
  BY <1>1 DEF Agreeing, Coming
<1>2. (\E q \in Procs : proc[q].pc = "find") => OnItsWay(e)'
  BY <1>0 DEF OnItsWay
<1>3. ASSUME stored'[e] = stored[e], blocked[e] => blocked'[e],
             Settles(e, proc[p].work[e]) /\ proc[p].pc = "run" => OnItsWay(e)'
      PROVE  OnItsWay(e)'
  <2>1. OnItsWay(e)
    BY <1>3 DEF Agreeing, Coming, Differs
  <2>2. CASE astray[e] \/ blocked[e]
    BY <1>3, <2>2 DEF OnItsWay
  <2>3. CASE Asked(e)
    BY <1>3, <2>3, StillAsked DEF OnItsWay
  <2>4. ASSUME NEW q \in Procs, q # p, proc[q].pc = "run", Settles(e, proc[q].work[e])
        PROVE  OnItsWay(e)'
    <3>1. Settles(e, proc[q].work[e])' /\ proc'[q].pc = "run"
      BY <1>0, <1>3, <2>4 DEF Settles
    <3> QED BY <3>1 DEF OnItsWay, Settling
  <2> QED BY <1>2, <1>3, <2>1, <2>2, <2>3, <2>4 DEF OnItsWay, Settling
<1>4. CASE e # d
  <2>1. stored'[e] = stored[e] /\ (blocked[e] => blocked'[e])
    BY <1>4
  <2>2. ASSUME Settles(e, proc[p].work[e]) PROVE OnItsWay(e)'
    <3>1. proc[p].work[e].pc # "none"
      BY <2>2 DEF Settles
    <3>2. proc'[p].pc = "run" /\ proc'[p].work[e] = proc[p].work[e]
      BY <1>0, <1>4, <3>1
    <3>3. Settles(e, proc[p].work[e])'
      BY <2>1, <2>2, <3>2 DEF Settles
    <3> QED BY <3>2, <3>3 DEF OnItsWay, Settling
  <2> QED BY <1>3, <2>1, <2>2
<1>5. CASE e = d
  <2>1. ASSUME w.pc # "none", \/ w.pc \in {"compare", "announce"} /\ w.to = stored'[d]
                              \/ stored'[d] = stored[d] /\ Settles(d, w)
        PROVE  OnItsWay(e)'
    <3>1. proc'[p].pc = "run" /\ proc'[p].work[d] = w
      BY <1>0, <2>1
    <3>2. Settles(d, proc[p].work[d])'
      BY <2>1, <3>1 DEF Settles
    <3> QED BY <1>5, <3>1, <3>2 DEF OnItsWay, Settling
  <2>2. CASE stored'[d] = NoDevice
    BY <1>5, <2>2 DEF Differs
  <2>3. CASE w.pc \in {"compare", "announce"} /\ w.to = stored'[d]
    BY <2>1, <2>3
  <2>4. CASE /\ stored'[d] = stored[d] /\ (blocked[d] => blocked'[d])
             /\ ~Listed /\ Differs(d) /\ Settles(d, proc[p].work[d]) =>
                    Settles(d, w) \/ astray'[d] \/ blocked'[d] \/ Asked(d)'
    <3>1. Differs(d)
      BY <1>5, <2>4 DEF Differs
    <3>2. ASSUME Settles(d, proc[p].work[d]) PROVE OnItsWay(d)'
      <4>1. CASE Settles(d, w)
        <5>1. w.pc # "none"
          BY <4>1 DEF Settles
        <5> QED BY <1>5, <2>1, <2>4, <4>1, <5>1
      <4>2. CASE astray'[d] \/ blocked'[d] \/ Asked(d)'
        BY <4>2 DEF OnItsWay
      <4> QED BY <2>4, <3>1, <3>2, <4>1, <4>2
    <3> QED BY <1>3, <1>5, <2>4, <3>2
  <2> QED BY <2>2, <2>3, <2>4
<1> QED BY <1>4, <1>5

LEMMA WorkAgrees ==
    ASSUME Typed, Agreeing, NEW p \in Procs, NEW d \in Devs, WorkStep(p, d)
    PROVE  Agreeing'
<1> DEFINE w == proc[p].work[d]
<1>1. /\ w \in Works /\ stored \in [Devs -> Names \cup {NoDevice}]
      /\ blocked \in [Devs -> BOOLEAN] /\ astray \in [Devs -> BOOLEAN]
  BY DEF Typed, ProcTyped, Handlers, StoredTyped, FlagsTyped
<1>2. proc[p].pc = "run" /\ UNCHANGED <<cache, bridge, toHub>>
  BY DEF WorkStep, Read, Save, Compare, Check, Insert, Announce, Delete, Expel, At
<1>3. ASSUME NEW v, Becomes(p, d, v), UNCHANGED <<stored, toBridge, astray>>,
             \A e \in Devs \ {d} : blocked'[e] = blocked[e], blocked[d] => blocked'[d],
             Settles(d, w) /\ Differs(d) => Settles(d, v) \/ blocked'[d]
      PROVE  Agreeing'
  BY <1>2, <1>3, WorkGoesOn
<1>4. CASE Read(p, d)
  <2>1. UNCHANGED <<stored, toBridge, astray, blocked>> /\ w.pc = "read"
    BY <1>4 DEF Read, ghosts, At
  <2>2. CASE stored[d] = NoDevice
    <3>1. Becomes(p, d, NoWork) /\ ~Differs(d)
      BY <1>4, <2>2 DEF Read, Ends, Differs
    <3> QED BY <1>3, <2>1, <3>1
  <2>3. CASE stored[d] # NoDevice /\ w.kind = "remove"
    <3>1. Becomes(p, d, [w EXCEPT !.pc = "delete"]) /\ ~Settles(d, w)
      BY <1>4, <2>1, <2>3 DEF Read, Settles
    <3> QED BY <1>3, <2>1, <3>1
  <2>4. CASE stored[d] # NoDevice /\ w.kind # "remove"
    <3> DEFINE v == [w EXCEPT !.pc = "save", !.old = stored[d],
                              !.to = IF w.to = NoName THEN stored[d] ELSE w.to]
    <3>1. Becomes(p, d, v)
      BY <1>4, <2>4 DEF Read
    <3>2. /\ v.pc = "save" /\ v.kind = w.kind /\ v.old = stored[d]
          /\ v.to = IF w.to = NoName THEN stored[d] ELSE w.to
      BY <1>1 DEF Works
    <3> HIDE DEF v
    <3>3. Settles(d, w) /\ Differs(d) => Settles(d, v)
      BY <2>1, <3>2 DEF Settles, Differs
    <3> QED BY <1>3, <2>1, <3>1, <3>3
  <2> QED BY <2>2, <2>3, <2>4
<1>5. CASE Save(p, d)
  <2>1. w.pc = "save" /\ UNCHANGED <<toBridge, astray>>
    BY <1>5 DEF Save, At
  <2>2. /\ \A e \in Devs \ {d} : blocked'[e] = blocked[e]
        /\ blocked'[d] = IF w.to = w.old \/ Clash(d, w)
                         THEN blocked[d] \/ (Clash(d, w) /\ w.kind = "sync") ELSE FALSE
    BY <1>1, <1>5 DEF Save
  <2>3. CASE stored[d] = NoDevice
    <3>1. Becomes(p, d, NoWork) /\ stored' = stored /\ stored'[d] = NoDevice
      BY <1>5, <2>3 DEF Save, Ends
    <3> QED BY <1>2, <2>1, <2>2, <3>1, WorkGoesOn
  <2>4. CASE stored[d] # NoDevice /\ Clash(d, w)
    <3>1. Becomes(p, d, NoWork) /\ stored' = stored
      BY <1>5, <2>4 DEF Save, Ends
    <3>2. Settles(d, w) => blocked'[d]
      BY <2>1, <2>2, <2>4 DEF Settles
    <3>3. blocked[d] => blocked'[d]
      BY <2>2, <2>4
    <3> QED BY <1>3, <2>1, <2>2, <3>1, <3>2, <3>3
  <2>5. CASE stored[d] # NoDevice /\ ~Clash(d, w)
    <3> DEFINE v == [w EXCEPT !.pc = "compare"]
    <3>1. Becomes(p, d, v)
          /\ stored' = IF w.to = w.old THEN stored ELSE [stored EXCEPT ![d] = w.to]
      BY <1>5, <2>5 DEF Save
    <3>2. v.pc = "compare" /\ v.to = w.to
      BY <1>1 DEF Works
    <3> HIDE DEF v
    <3>3. CASE w.to = w.old
      <4>1. ~Settles(d, w) /\ (blocked[d] => blocked'[d]) /\ stored' = stored
        BY <2>1, <2>2, <3>1, <3>3 DEF Settles
      <4> QED BY <1>3, <2>1, <2>2, <3>1, <4>1
    <3>4. CASE w.to # w.old
      <4>1. stored'[d] = w.to /\ \A e \in Devs \ {d} : stored'[e] = stored[e]
        BY <1>1, <3>1, <3>4
      <4> QED BY <1>2, <2>1, <2>2, <3>1, <3>2, <4>1, WorkGoesOn
    <3> QED BY <3>3, <3>4
  <2> QED BY <2>3, <2>4, <2>5
<1>6. ASSUME NEW kind, NEW to, Publish(d, kind, to), Becomes(p, d, NoWork),
             UNCHANGED <<stored, blocked>>, Settles(d, w) => kind = "rename" /\ to = stored[d]
      PROVE  Agreeing'
  <2>1. /\ toBridge' = toBridge \/ \E r : toBridge' = Append(toBridge, r)
        /\ \A e \in Devs : astray[e] => astray'[e]
        /\ Settles(d, w) => astray'[d] \/ Asked(d)'
    BY <1>6, Published
  <2> QED BY <1>2, <1>6, <2>1, WorkGoesOn
<1>7. CASE Compare(p, d)
  <2>1. w.pc = "compare" /\ UNCHANGED <<stored, blocked>> /\ Becomes(p, d, NoWork)
    BY <1>7 DEF Compare, At, Ends
  <2>2. CASE cache[d] = w.to
    <3>1. UNCHANGED <<toBridge, astray>>
      BY <1>7, <2>2 DEF Compare
    <3>2. ~Listed /\ Settles(d, w) => ~Differs(d)
      <4>1. ~Listed => cache[d] \in {bridge[d], NoName}
        BY DEF Agreeing, Told
      <4>2. w.to # NoName
        BY <1>1, <2>1, Sentinels DEF Works, Naming
      <4> QED BY <2>1, <2>2, <4>1, <4>2 DEF Settles, Differs
    <3> QED BY <1>2, <2>1, <3>1, <3>2, WorkGoesOn
  <2>3. CASE cache[d] # w.to
    <3>1. Publish(d, "rename", w.to)
      BY <1>7, <2>3 DEF Compare
    <3>2. Settles(d, w) => w.to = stored[d]
      BY <2>1 DEF Settles
    <3> QED BY <1>6, <2>1, <3>1, <3>2
  <2> QED BY <2>2, <2>3
<1>8. CASE Check(p, d)
  <2>1. UNCHANGED <<stored, toBridge, astray, blocked>> /\ ~Settles(d, w)
    BY <1>8 DEF Check, ghosts, At, Settles
  <2>2. Becomes(p, d, NoWork) \/ Becomes(p, d, [w EXCEPT !.pc = "insert"])
    BY <1>8 DEF Check, Ends
  <2> QED BY <1>3, <2>1, <2>2
<1>9. CASE Insert(p, d)
  <2>1. UNCHANGED <<toBridge, astray, blocked>> /\ ~Settles(d, w)
    BY <1>9 DEF Insert, ghosts, At, Settles
  <2>2. CASE Becomes(p, d, NoWork) /\ stored' = stored
    BY <1>3, <2>1, <2>2
  <2>3. CASE Becomes(p, d, [w EXCEPT !.pc = "announce"]) /\ stored' = [stored EXCEPT ![d] = w.to]
    <3> DEFINE v == [w EXCEPT !.pc = "announce"]
    <3>1. v.pc = "announce" /\ v.to = w.to /\ Becomes(p, d, v)
      BY <1>1, <2>3 DEF Works
    <3>2. stored'[d] = w.to /\ \A e \in Devs \ {d} : stored'[e] = stored[e]
      BY <1>1, <2>3
    <3> HIDE DEF v
    <3> QED BY <1>2, <2>1, <3>1, <3>2, WorkGoesOn
  <2> QED BY <1>9, <2>2, <2>3 DEF Insert, Ends
<1>10. CASE Announce(p, d)
  <2>1. Publish(d, "rename", w.to) /\ Becomes(p, d, NoWork) /\ UNCHANGED <<stored, blocked>>
    BY <1>10 DEF Announce, Ends
  <2>2. Settles(d, w) => w.to = stored[d]
    BY <1>10 DEF Announce, At, Settles
  <2> QED BY <1>6, <2>1, <2>2
<1>11. CASE Delete(p, d)
  <2>1. /\ UNCHANGED <<toBridge, astray, blocked>>
        /\ Becomes(p, d, [w EXCEPT !.pc = "expel"])
        /\ stored'[d] = NoDevice /\ \A e \in Devs \ {d} : stored'[e] = stored[e]
    BY <1>1, <1>11 DEF Delete, ghosts
  <2> QED BY <1>2, <2>1, WorkGoesOn
<1>12. CASE Expel(p, d)
  <2>1. Publish(d, "remove", NoName) /\ Becomes(p, d, NoWork) /\ UNCHANGED <<stored, blocked>>
    BY <1>12 DEF Expel, Ends
  <2>2. ~Settles(d, w)
    BY <1>12 DEF Expel, At, Settles
  <2> QED BY <1>6, <2>1, <2>2
<1> QED BY <1>4, <1>5, <1>7, <1>8, <1>9, <1>10, <1>11, <1>12 DEF WorkStep

(* -------------------------- Messages and requests -------------------------- *)

\* A handler that starts with something else than a list.
LEMMA StartAgrees ==
    ASSUME Typed, Agreeing, NEW p \in Procs, NEW r, r.pc # "find", Start(p, r),
           LastList', Listed <=> Listed',
           UNCHANGED <<stored, cache, bridge, toBridge, astray, blocked>>
    PROVE  Agreeing'
<1>1. proc[p].pc = "idle" /\ proc' = [proc EXCEPT ![p] = r]
  BY DEF Start, Busy
<1>2. \A q \in Procs : proc[q].pc \in {"find", "run"} \/ proc'[q].pc = "find"
          => proc'[q] = proc[q]
  BY <1>1 DEF Typed, ProcTyped
<1> QED BY <1>2, AsideAgrees

\* The handler of the last list has the bridge's names, and it is the only one.
LEMMA ListAgrees ==
    ASSUME Typed, Exclusive, Agreeing, NEW p \in Procs, HandleList(p)
    PROVE  Agreeing'
<1> DEFINE m == Head(toHub)
           r == [Idle EXCEPT !.pc = "find", !.names = m.names]
<1>1. NextMsg("list") /\ bridge' = bridge /\ Start(p, r) /\ cache' = Cached(m)
  BY DEF HandleList
<1>2. LastList' /\ (~Listed' => m.names = bridge)
  BY <1>1, NextLast DEF Agreeing
<1>3. r.pc = "find" /\ r.names = m.names
  BY DEF Idle
<1> HIDE DEF m, r
<1>4. proc'[p] = r /\ \A q \in Procs : q # p => proc'[q].pc = "idle"
  BY <1>1 DEF Start, Busy, Typed, ProcTyped
<1> SUFFICES ASSUME ~Listed' PROVE Told' /\ Coming'
  BY <1>2 DEF Agreeing, Told, Coming
<1>5. \A d \in Devs : cache'[d] \in {bridge'[d], NoName}
  BY <1>1, <1>2 DEF Cached
<1>6. \A q \in Procs : proc'[q].pc = "find" => proc'[q].names = bridge'
  BY <1>1, <1>2, <1>3, <1>4
<1>7. \A d \in Devs : OnItsWay(d)'
  BY <1>3, <1>4 DEF OnItsWay
<1> QED BY <1>5, <1>6, <1>7 DEF Told, Coming

\* Whoever syncs the bridge's names sees to every document that differs.
LEMMA SyncAgrees ==
    ASSUME Typed, Agreeing, NEW p \in Procs, SyncFriendlyNames(p)
    PROVE  Agreeing'
<1> DEFINE names == proc[p].names
           works == [d \in Devs |-> IF d \in Drifted(names) THEN Work("read", "sync", names[d])
                                    ELSE NoWork]
           r == IF Drifted(names) = {} THEN Idle ELSE Running(works)
<1>1. /\ proc[p].pc = "find" /\ proc' = [proc EXCEPT ![p] = r]
      /\ UNCHANGED <<stored, cache, bridge, toBridge, toHub, blocked>>
  BY DEF SyncFriendlyNames
<1>2. r.pc # "find" /\ (Drifted(names) # {} => r.pc = "run" /\ r.work = works)
  BY DEF Idle, Running
<1> HIDE DEF r, works
<1>3. proc'[p] = r /\ \A q \in Procs : q # p => proc'[q] = proc[q]
  BY <1>1 DEF Typed, ProcTyped
<1>4. LastList' /\ (Listed <=> Listed')
  BY <1>1 DEF Agreeing, LastList, Listed, IsList
<1>5. Told'
  BY <1>1, <1>2, <1>3, <1>4 DEF Agreeing, Told
<1>6. ASSUME ~Listed, NEW d \in Devs, Differs(d)' PROVE OnItsWay(d)'
  <2>1. names = bridge
    BY <1>1, <1>6 DEF Agreeing, Told
  <2>2. d \in Drifted(names)
    BY <1>1, <1>6, <2>1 DEF Differs, Drifted
  <2>3. r.pc = "run" /\ r.work[d] = Work("read", "sync", names[d])
    BY <1>2, <2>2 DEF works
  <2> HIDE DEF names
  <2>4. proc'[p].pc = "run" /\ proc'[p].work[d].pc = "read" /\ proc'[p].work[d].kind = "sync"
            /\ proc'[p].work[d].to = bridge'[d]
    BY <1>1, <1>3, <2>1, <2>3 DEF Work
  <2>5. Settling(d)'
    BY <2>4 DEF Settling, Settles
  <2> QED BY <2>5 DEF OnItsWay
<1> QED BY <1>4, <1>5, <1>6 DEF Agreeing, Coming

LEMMA HandlersAgree ==
    ASSUME Typed, Exclusive, Agreeing, NEW p \in Procs,
           Step(p) \/ Handle(p) \/ Api(p)
    PROVE  Agreeing'
<1>1. ASSUME NEW kind, NextMsg(kind), kind # "list", bridge' = bridge
      PROVE  LastList' /\ (Listed <=> Listed')
  BY <1>1, NextLast DEF Agreeing
<1>2. CASE HandleResponse(p)
  <2> DEFINE r == [Idle EXCEPT !.pc = "select", !.from = Head(toHub).from, !.to = Head(toHub).to]
  <2>1. r.pc # "find" /\ Start(p, r) /\ NextMsg("response")
        /\ UNCHANGED <<stored, cache, bridge, toBridge, astray, blocked>>
    BY <1>2 DEF HandleResponse, ghosts, Idle
  <2> HIDE DEF r
  <2> QED BY <1>1, <2>1, StartAgrees
<1>3. CASE HandleState(p)
  <2> DEFINE r == [Idle EXCEPT !.pc = "select", !.from = Head(toHub).from]
  <2>1. r.pc # "find" /\ Start(p, r) /\ NextMsg("state")
        /\ UNCHANGED <<stored, cache, bridge, toBridge, astray, blocked>>
    BY <1>3 DEF HandleState, ghosts, Idle
  <2> HIDE DEF r
  <2> QED BY <1>1, <2>1, StartAgrees
<1>4. ASSUME UNCHANGED toHub, UNCHANGED bridge PROVE LastList' /\ (Listed <=> Listed')
  BY <1>4 DEF Agreeing, LastList, Listed, IsList
<1>5. CASE Select(p)
  <2>1. /\ proc[p].pc = "select" /\ UNCHANGED <<stored, cache, bridge, toBridge, toHub, astray, blocked>>
        /\ \E r : r.pc # "find" /\ proc' = [proc EXCEPT ![p] = r]
    BY <1>5 DEF Select, ghosts, Idle, Running
  <2>2. \A q \in Procs : proc[q].pc \in {"find", "run"} \/ proc'[q].pc = "find"
            => proc'[q] = proc[q]
    BY <2>1 DEF Typed, ProcTyped
  <2> QED BY <1>4, <2>1, <2>2, AsideAgrees
<1>6. ASSUME NEW d \in Devs, NEW w, Request(p, d, w) PROVE Agreeing'
  <2> DEFINE r == Running([Idle.work EXCEPT ![d] = w])
  <2>1. r.pc # "find" /\ Start(p, r)
        /\ UNCHANGED <<stored, cache, bridge, toBridge, toHub, astray, blocked>>
    BY <1>6 DEF Request, Running, Idle
  <2> HIDE DEF r
  <2> QED BY <1>4, <2>1, StartAgrees
<1>7. CASE Api(p)
  BY <1>6, <1>7 DEF Api, ApiUpdate, ApiRename, ApiAdd, ApiRemove
<1> QED BY <1>2, <1>3, <1>5, <1>7, ListAgrees, SyncAgrees, WorkAgrees DEF Step, Handle

\* A request the bridge refuses: the device has that name already, or it is astray.
LEMMA RefusedAgrees ==
    ASSUME Typed, Agreeing, toBridge # <<>>, toBridge' = Tail(toBridge),
           LET r == Head(toBridge) IN
           /\ r.kind = "rename" /\ ~(bridge[r.dev] # NoName /\ \A d \in Devs : bridge[d] # r.to)
           /\ astray' = [astray EXCEPT ![r.dev] = @ \/ bridge[r.dev] # r.to],
           UNCHANGED <<stored, cache, proc, bridge, toHub, blocked>>
    PROVE  Agreeing'
<1> DEFINE r == Head(toBridge)
           n == Len(toBridge)
<1>1. /\ n \in Nat \ {0} /\ DOMAIN toBridge = 1..n /\ DOMAIN toBridge' = 1..(n - 1)
      /\ \A i \in 1..n : i = 1 \/ (i - 1 \in 1..(n - 1) /\ toBridge[i] = toBridge'[i - 1])
      /\ r = toBridge[1]
  BY HeadTailProperties DEF Typed, MessagesTyped
<1> HIDE DEF n
<1>2. LastList' /\ (Listed <=> Listed') /\ Told'
  BY DEF Agreeing, LastList, Listed, IsList, Told
<1>3. astray \in [Devs -> BOOLEAN]
  BY DEF Typed, FlagsTyped
<1>4. ASSUME ~Listed, NEW d \in Devs, Differs(d)' PROVE OnItsWay(d)'
  <2>1. Differs(d) /\ OnItsWay(d)
    BY <1>4 DEF Agreeing, Coming, Differs
  <2>2. CASE astray[d]
    BY <1>3, <2>2 DEF OnItsWay
  <2>3. CASE blocked[d] \/ \E p \in Procs : proc[p].pc = "find"
    BY <2>3 DEF OnItsWay
  <2>4. CASE Settling(d)
    <3>1. Settling(d)'
      BY <2>4 DEF Settling, Settles
    <3> QED BY <3>1 DEF OnItsWay
  <2>5. CASE Asked(d)
    <3>1. PICK i \in 1..n : toBridge[i] = [kind |-> "rename", dev |-> d, to |-> stored[d]]
      BY <1>1, <2>5 DEF Asked
    <3>2. CASE i = 1
      <4>1. r.dev = d /\ r.to = stored[d]
        BY <1>1, <3>1, <3>2
      <4>2. bridge[d] # r.to
        BY <2>1, <4>1 DEF Differs
      <4>3. astray'[d]
        BY <1>3, <4>1, <4>2
      <4> QED BY <4>3 DEF OnItsWay
    <3>3. CASE i # 1
      <4>1. i - 1 \in DOMAIN toBridge'
            /\ toBridge'[i - 1] = [kind |-> "rename", dev |-> d, to |-> stored'[d]]
        BY <1>1, <3>1, <3>3
      <4>2. Asked(d)'
        BY <4>1 DEF Asked
      <4> QED BY <4>2 DEF OnItsWay
    <3> QED BY <3>2, <3>3
  <2> QED BY <2>1, <2>2, <2>3, <2>4, <2>5 DEF OnItsWay
<1> QED BY <1>2, <1>4 DEF Agreeing, Coming

\* Whatever the bridge changes, it publishes.
LEMMA BridgeAgrees ==
    ASSUME Typed, Agreeing,
           BridgeApplies \/ Outside \/ HandleHealth \/ \E up \in BOOLEAN : HealthReport(up)
    PROVE  Agreeing'
<1>1. ASSUME NEW m, toHub' = Append(toHub, m), m.kind # "list",
             UNCHANGED <<stored, cache, proc, bridge, toBridge, astray, blocked>>
      PROVE  Agreeing'
  <2>1. LastList' /\ (Listed <=> Listed')
    BY <1>1, OneMore DEF Agreeing
  <2> QED BY <1>1, <2>1, AsideAgrees
<1>2. CASE BridgeApplies
  <2> DEFINE r == Head(toBridge)
             applied == [bridge EXCEPT ![r.dev] = IF r.kind = "remove" THEN NoName ELSE r.to]
             more == IF r.kind = "remove" THEN <<>> ELSE <<Response(bridge[r.dev], r.to)>>
  <2>1. CASE bridge' = applied /\ Publishes(applied, more)
    <3>1. more = <<>> \/ \E from, to : more = <<Response(from, to)>>
      OBVIOUS
    <3>2. Publishes(bridge', more)
      BY <2>1
    <3> HIDE DEF more
    <3>3. LastList' /\ Listed'
      BY <3>1, <3>2, PublishedLast DEF Agreeing
    <3> QED BY <3>3, ListedSuffices
  <2>2. CASE /\ r.kind = "rename" /\ ~(bridge[r.dev] # NoName /\ \A d \in Devs : bridge[d] # r.to)
             /\ astray' = [astray EXCEPT ![r.dev] = @ \/ bridge[r.dev] # r.to]
             /\ UNCHANGED <<bridge, toHub>>
    <3>1. toBridge # <<>> /\ toBridge' = Tail(toBridge) /\ UNCHANGED <<stored, cache, proc, blocked>>
      BY <1>2 DEF BridgeApplies, hub
    <3> QED BY <2>2, <3>1, RefusedAgrees
  <2> QED BY <1>2, <2>1, <2>2 DEF BridgeApplies
<1>3. ASSUME NEW d \in Devs, NEW n \in Names, BridgeRenames(d, n) \/ BridgeJoins(d, n)
      PROVE  Agreeing'
  <2>1. \E more \in {<<>>, <<Response(bridge[d], n)>>} : Publishes(bridge', more)
    BY <1>3 DEF BridgeRenames, BridgeJoins
  <2>2. LastList' /\ Listed'
    BY <2>1, PublishedLast DEF Agreeing
  <2> QED BY <2>2, ListedSuffices
<1>4. ASSUME NEW d \in Devs, Interview(d) PROVE Agreeing'
  <2> DEFINE m == List(bridge, {e \in Devs : ready'[e]})
  <2>1. m.kind = "list" /\ m.names = bridge' /\ toHub' = Append(toHub, m)
    BY <1>4 DEF Interview, List, Msg
  <2> HIDE DEF m
  <2>2. LastList' /\ Listed'
    BY <2>1, OneMore DEF Agreeing
  <2> QED BY <2>2, ListedSuffices
<1>5. ASSUME NEW d \in Devs, DeviceState(d) PROVE Agreeing'
  <2>1. State(bridge[d]).kind # "list"
    BY DEF State, Msg
  <2> QED BY <1>1, <1>5, <2>1 DEF DeviceState, hub, ghosts
<1>6. ASSUME NEW up \in BOOLEAN, HealthReport(up) PROVE Agreeing'
  <2>1. Health(up).kind # "list"
    BY DEF Health, Msg
  <2> QED BY <1>1, <1>6, <2>1 DEF HealthReport, hub, ghosts
<1>7. CASE HandleHealth
  <2>1. NextMsg("health") /\ UNCHANGED <<stored, cache, proc, bridge, toBridge, astray, blocked>>
    BY <1>7 DEF HandleHealth, ghosts
  <2>2. LastList' /\ (Listed <=> Listed')
    BY <2>1, NextLast DEF Agreeing
  <2> QED BY <2>1, <2>2, AsideAgrees
<1> QED BY <1>2, <1>3, <1>4, <1>5, <1>6, <1>7 DEF Outside

LEMMA RestartAgrees == ASSUME Typed, Agreeing, Restart PROVE Agreeing'
<1> DEFINE m == List(bridge, Eligible)
<1>1. m.kind = "list" /\ m.names = bridge' /\ toHub' = <<m>>
  BY DEF Restart, List, Msg
<1> HIDE DEF m
<1>2. DOMAIN toHub' = {1} /\ toHub'[1] = m
  BY <1>1
<1>3. LastList' /\ Listed'
  BY <1>1, <1>2 DEF LastList, Listed, IsList
<1> QED BY <1>3, ListedSuffices

LEMMA InitAgrees == Init => Agreeing
<1> SUFFICES ASSUME Init PROVE Agreeing
  OBVIOUS
<1>1. DOMAIN toHub = {}
  BY DEF Init
<1>2. LastList
  BY <1>1 DEF LastList
<1>3. Told
  BY DEF Init, Told, Idle
<1>4. Coming
  BY DEF Init, Coming, Differs
<1> QED BY <1>2, <1>3, <1>4 DEF Agreeing

LEMMA AgreeingStep ==
    ASSUME Exclusive, Typed, Agreeing, [Next]_vars PROVE Agreeing'
<1>1. CASE UNCHANGED vars
  <2>1. UNCHANGED <<stored, cache, proc, bridge, toBridge, toHub, astray, blocked>>
    BY <1>1 DEF vars, hub, ghosts
  <2>2. LastList' /\ (Listed <=> Listed')
    BY <2>1 DEF Agreeing, LastList, Listed, IsList
  <2> QED BY <2>1, <2>2, AsideAgrees
<1> QED BY <1>1, HandlersAgree, BridgeAgrees, RestartAgrees DEF Next

(* Once nothing is in flight, hub and bridge have one name for a device, unless *)
(* a rename was dropped or refused or the hub's index refused the bridge's      *)
(* name, for any number of devices and messages, outages and restarts:          *)
(* syncFriendlyNames and the comparison after every update leave nothing        *)
(* behind.  The handlers must not overlap: one that looks up the documents of   *)
(* an older list ends what is noted of a dropped rename.                        *)
THEOREM NamesAgree == ASSUME Exclusive PROVE Spec => []Synced
<1>1. Typed /\ Agreeing => Synced
  <2> SUFFICES ASSUME Agreeing, Quiet, NEW d \in Devs, Differs(d) PROVE astray[d] \/ blocked[d]
    BY DEF Synced
  <2>1. ~Listed /\ ~Asked(d)
    BY DEF Quiet, Listed, Asked
  <2>2. \A p \in Procs : proc[p].pc = "idle"
    BY DEF Quiet, Busy
  <2> QED BY <2>1, <2>2 DEF Agreeing, Coming, OnItsWay, Settling
<1>2. Typed /\ Agreeing /\ [Next]_vars => Agreeing'
  BY AgreeingStep
<1> QED BY <1>1, <1>2, InitAgrees, AlwaysTyped, PTL DEF Spec

(* ---------------------------- No name is echoed ---------------------------- *)

\* The device a name belongs to.
CONSTANT Owner
Mine(d, n) == n \in Names => Owner[n] = d

\* Neither the bridge nor the API gives a name to another device than its owner.
OneOwner == \A d \in Devs : Mine(d, bridge[d]) /\ Mine(d, asked[d])

StoreOwns == \A d \in Devs : Mine(d, stored[d]) /\ Mine(d, cache[d])

\* A response is about one device, and the list before it has told its name.
OfOne(from, to) ==
    from \in Names /\ to \in Names /\ Owner[from] \in Devs /\ Owner[to] = Owner[from]
Known(from, to) == cache[Owner[from]] \in {to, NoName}

ListsOwn == \A i \in DOMAIN toHub :
    IsList(i) => \A d \in Devs : Mine(d, toHub[i].names[d])
ResponsesTold == \A i \in DOMAIN toHub : toHub[i].kind = "response" =>
    /\ OfOne(toHub[i].from, toHub[i].to)
    /\ IF i = 1 THEN Known(toHub[i].from, toHub[i].to)
       ELSE IsList(i - 1) /\ toHub[i - 1].names[Owner[toHub[i].from]] = toHub[i].to
MessagesRight == ListsOwn /\ ResponsesTold

\* A name the hub may ask the bridge for, unless it is the one it knows.
Rightful(d, n) == n = asked[d] \/ cache[d] \in {n, NoName}

\* What a handler holds is of the device it is for, and rightful.
RightFind(h) == \A d \in Devs : Mine(d, h.names[d]) /\ cache[d] \in {h.names[d], NoName}
RightSelect(h) == h.to # NoName => OfOne(h.from, h.to) /\ Known(h.from, h.to)
RightWork(d, w) ==
    /\ Mine(d, w.to) /\ (w.to \in Names => Rightful(d, w.to))
    /\ w.pc \in {"check", "insert", "announce"} => w.to = asked[d]
    /\ w.pc = "save" => w.old = stored[d]
Right(h) == /\ h.pc = "find" => RightFind(h)
            /\ h.pc = "select" => RightSelect(h)
            /\ h.pc = "run" => \A d \in Devs : RightWork(d, h.work[d])
HandlersRight == \A p \in Procs : Right(proc[p])

\* The work w, or the handler h, will store another name with its device.
Corrects(w) == w.pc \in {"read", "save"} /\ w.kind # "remove" /\ w.to \in Names
Corrected(d, h) == h.pc = "find" \/ (h.pc = "run" /\ Corrects(h.work[d]))

StoredRight == \A d \in Devs :
    stored[d] = NoDevice \/ Rightful(d, stored[d]) \/ \E p \in Procs : Corrected(d, proc[p])

Alone == \A p, q \in Procs : Busy(p) /\ Busy(q) => p = q

Rights == Alone /\ StoreOwns /\ MessagesRight /\ HandlersRight /\ StoredRight

(* -------------------------------- Messages --------------------------------- *)

\* The next message is taken; a list among them refreshes the cache.
LEMMA NextRight ==
    ASSUME Typed, MessagesRight, NEW kind, NextMsg(kind),
           cache' = IF kind = "list" THEN Cached(Head(toHub)) ELSE cache
    PROVE  /\ MessagesRight'
           /\ kind = "list" => \A d \in Devs : Mine(d, Head(toHub).names[d])
           /\ kind = "response" => /\ OfOne(Head(toHub).from, Head(toHub).to)
                                   /\ Known(Head(toHub).from, Head(toHub).to)
<1> DEFINE n == Len(toHub)
<1>1. /\ toHub \in Seq(ToHub) /\ toHub # <<>> /\ toHub' = Tail(toHub)
      /\ Head(toHub).kind = kind
  BY DEF Typed, MessagesTyped, NextMsg
<1>2. /\ n \in Nat \ {0} /\ DOMAIN toHub = 1..n /\ DOMAIN toHub' = 1..(n - 1)
      /\ \A i \in 1..(n - 1) : toHub'[i] = toHub[i + 1]
      /\ Head(toHub) = toHub[1]
  BY <1>1, HeadTailProperties
<1> HIDE DEF n
<1>3. 1 \in 1..n /\ \A i \in 1..(n - 1) : i + 1 \in 1..n /\ i + 1 # 1 /\ i + 1 - 1 = i
  BY <1>2
<1>4. ListsOwn'
  BY <1>2, <1>3 DEF MessagesRight, ListsOwn, IsList, Mine
<1>5. ASSUME NEW i \in 1..(n - 1), toHub'[i].kind = "response"
      PROVE  /\ OfOne(toHub'[i].from, toHub'[i].to)
             /\ i = 1 => cache'[Owner[toHub'[i].from]] \in {toHub'[i].to, NoName}
             /\ i # 1 => /\ toHub'[i - 1].kind = "list"
                         /\ toHub'[i - 1].names[Owner[toHub'[i].from]] = toHub'[i].to
  <2> DEFINE m == toHub[i + 1]
             x == Owner[m.from]
  <2>1. toHub'[i] = m
    BY <1>2
  <2>2. m.kind = "response" /\ i + 1 \in DOMAIN toHub
    BY <1>2, <1>3, <1>5, <2>1
  <2>3. OfOne(m.from, m.to) /\ IsList(i) /\ toHub[i].names[x] = m.to
    BY <1>3, <2>2 DEF MessagesRight, ResponsesTold
  <2>4. CASE i = 1
    <3>1. kind = "list" /\ Head(toHub).names[x] = m.to
      BY <1>1, <1>2, <2>3, <2>4 DEF IsList
    <3>2. x \in Devs
      BY <2>3 DEF OfOne
    <3> HIDE DEF m
    <3>3. cache'[x] \in {m.to, NoName}
      BY <3>1, <3>2 DEF Cached
    <3> QED BY <2>1, <2>3, <2>4, <3>3 DEF Known
  <2>5. CASE i # 1
    <3>1. i - 1 \in 1..(n - 1) /\ i - 1 + 1 = i
      BY <1>2, <2>5
    <3>2. toHub'[i - 1] = toHub[i]
      BY <1>2, <3>1
    <3> HIDE DEF m
    <3> QED BY <2>1, <2>3, <2>5, <3>2 DEF IsList
  <2> QED BY <2>4, <2>5
<1>6. ResponsesTold'
  BY <1>2, <1>5 DEF ResponsesTold, OfOne, Known, IsList
<1>7. kind = "list" => \A d \in Devs : Mine(d, Head(toHub).names[d])
  BY <1>1, <1>2, <1>3 DEF MessagesRight, ListsOwn, IsList
<1>8. kind = "response" => /\ OfOne(Head(toHub).from, Head(toHub).to)
                           /\ Known(Head(toHub).from, Head(toHub).to)
  BY <1>1, <1>2, <1>3 DEF MessagesRight, ResponsesTold
<1> QED BY <1>4, <1>6, <1>7, <1>8 DEF MessagesRight

\* A list, a state or a health report is published.
LEMMA OneMoreRight ==
    ASSUME Typed, MessagesRight, NEW m, toHub' = Append(toHub, m), m.kind # "response",
           m.kind = "list" => \A d \in Devs : Mine(d, m.names[d]), cache' = cache
    PROVE  MessagesRight'
<1> DEFINE n == Len(toHub)
<1>1. /\ n \in Nat /\ DOMAIN toHub = 1..n /\ DOMAIN toHub' = 1..(n + 1)
      /\ \A i \in 1..n : toHub'[i] = toHub[i]
      /\ toHub'[n + 1] = m
  BY DEF Typed, MessagesTyped
<1> HIDE DEF n
<1>2. \A i \in 1..(n + 1) : i = n + 1 \/ i \in 1..n
  BY <1>1
<1>3. \A i \in 1..n : i # 1 => i - 1 \in 1..n
  BY <1>1
<1>4. ListsOwn'
  BY <1>1, <1>2 DEF MessagesRight, ListsOwn, IsList, Mine
<1>5. ASSUME NEW i \in 1..(n + 1), toHub'[i].kind = "response"
      PROVE  /\ OfOne(toHub'[i].from, toHub'[i].to)
             /\ i = 1 => cache'[Owner[toHub'[i].from]] \in {toHub'[i].to, NoName}
             /\ i # 1 => /\ toHub'[i - 1].kind = "list"
                         /\ toHub'[i - 1].names[Owner[toHub'[i].from]] = toHub'[i].to
  <2>1. i \in 1..n /\ toHub'[i] = toHub[i]
    BY <1>1, <1>2, <1>5
  <2>2. i # 1 => toHub'[i - 1] = toHub[i - 1]
    BY <1>1, <1>3, <2>1
  <2>3. /\ OfOne(toHub[i].from, toHub[i].to)
        /\ i = 1 => Known(toHub[i].from, toHub[i].to)
        /\ i # 1 => /\ IsList(i - 1)
                    /\ toHub[i - 1].names[Owner[toHub[i].from]] = toHub[i].to
    BY <1>1, <1>5, <2>1 DEF MessagesRight, ResponsesTold
  <2> QED BY <2>1, <2>2, <2>3 DEF Known, IsList
<1>6. ResponsesTold'
  BY <1>1, <1>5 DEF ResponsesTold, OfOne, Known, IsList
<1> QED BY <1>4, <1>6 DEF MessagesRight

\* The response to a rename follows the list with the new name.
LEMMA PublishedRight ==
    ASSUME Typed, MessagesRight, OneOwner', NEW more, Publishes(bridge', more),
           \/ more = <<>>
           \/ \E from, to : /\ more = <<Response(from, to)>>
                            /\ OfOne(from, to) /\ bridge'[Owner[from]] = to,
           cache' = cache
    PROVE  MessagesRight'
<1> DEFINE l == List(bridge', Eligible)
           n == Len(toHub)
<1>1. l.kind = "list" /\ l.names = bridge'
  BY DEF List, Msg
<1> HIDE DEF l
<1>2. toHub' = toHub \o <<l>> \o more /\ toHub \in Seq(ToHub) /\ n \in Nat
  BY DEF Publishes, Typed, MessagesTyped, l
<1>3. PICK k \in {0, 1} :
          /\ DOMAIN toHub' = 1..(n + 1 + k) /\ toHub'[n + 1] = l
          /\ \A i \in 1..n : toHub'[i] = toHub[i]
          /\ k = 1 => /\ toHub'[n + 2].kind = "response"
                      /\ OfOne(toHub'[n + 2].from, toHub'[n + 2].to)
                      /\ bridge'[Owner[toHub'[n + 2].from]] = toHub'[n + 2].to
  <2>1. CASE more = <<>>
    <3>1. /\ DOMAIN toHub' = 1..(n + 1 + 0) /\ toHub'[n + 1] = l
          /\ \A i \in 1..n : toHub'[i] = toHub[i]
      BY <1>2, <2>1
    <3> QED BY <3>1
  <2>2. ASSUME NEW from, NEW to, more = <<Response(from, to)>>,
               OfOne(from, to), bridge'[Owner[from]] = to
        PROVE  /\ DOMAIN toHub' = 1..(n + 1 + 1) /\ toHub'[n + 1] = l
               /\ \A i \in 1..n : toHub'[i] = toHub[i]
               /\ toHub'[n + 2].kind = "response"
               /\ OfOne(toHub'[n + 2].from, toHub'[n + 2].to)
               /\ bridge'[Owner[toHub'[n + 2].from]] = toHub'[n + 2].to
    <3> DEFINE r == Response(from, to)
    <3>1. r.kind = "response" /\ r.from = from /\ r.to = to
      BY DEF Response, Msg
    <3> HIDE DEF r
    <3>2. /\ DOMAIN toHub' = 1..(n + 1 + 1) /\ toHub'[n + 1] = l
          /\ \A i \in 1..n : toHub'[i] = toHub[i]
          /\ toHub'[n + 2] = r
      BY <1>2, <2>2 DEF r
    <3> QED BY <2>2, <3>1, <3>2
  <2> QED BY <2>1, <2>2
<1>4. DOMAIN toHub = 1..n
  BY <1>2
<1> HIDE DEF n
<1>5. \A i \in DOMAIN toHub' : i \in 1..n \/ i = n + 1 \/ (k = 1 /\ i = n + 2)
  <2>1. CASE k = 0
    <3>1. DOMAIN toHub' = 1..(n + 1)
      BY <1>2, <1>3, <2>1
    <3> QED BY <1>2, <3>1
  <2>2. CASE k = 1
    <3>0. n + 1 + k = n + 2
      BY <1>2, <2>2
    <3>1. DOMAIN toHub' = 1..(n + 2)
      BY <1>3, <3>0
    <3> QED BY <1>2, <2>2, <3>1
  <2> QED BY <2>1, <2>2
<1>6. \A d \in Devs : Mine(d, l.names[d])
  BY <1>1 DEF OneOwner, Mine
<1>7. ListsOwn'
  <2> SUFFICES ASSUME NEW i \in DOMAIN toHub', toHub'[i].kind = "list", NEW d \in Devs
               PROVE  Mine(d, toHub'[i].names[d])
    BY DEF ListsOwn, IsList, Mine
  <2>1. CASE i \in 1..n
    BY <1>3, <1>4, <2>1 DEF MessagesRight, ListsOwn, IsList
  <2>2. CASE i = n + 1
    BY <1>3, <1>6, <2>2
  <2> QED BY <1>3, <1>5, <2>1, <2>2
<1>8. ASSUME NEW i \in DOMAIN toHub', toHub'[i].kind = "response"
      PROVE  /\ OfOne(toHub'[i].from, toHub'[i].to)
             /\ i = 1 => cache'[Owner[toHub'[i].from]] \in {toHub'[i].to, NoName}
             /\ i # 1 => /\ toHub'[i - 1].kind = "list"
                         /\ toHub'[i - 1].names[Owner[toHub'[i].from]] = toHub'[i].to
  <2>1. CASE i \in 1..n
    <3>0. i # 1 => i - 1 \in 1..n
      BY <1>2, <2>1
    <3>1. toHub'[i] = toHub[i] /\ (i # 1 => toHub'[i - 1] = toHub[i - 1])
      BY <1>3, <2>1, <3>0
    <3>2. /\ OfOne(toHub[i].from, toHub[i].to)
          /\ i = 1 => Known(toHub[i].from, toHub[i].to)
          /\ i # 1 => /\ IsList(i - 1)
                      /\ toHub[i - 1].names[Owner[toHub[i].from]] = toHub[i].to
      BY <1>4, <1>8, <2>1, <3>1 DEF MessagesRight, ResponsesTold
    <3> QED BY <3>1, <3>2 DEF Known, IsList
  <2>2. CASE k = 1 /\ i = n + 2
    <3>1. i # 1 /\ i - 1 = n + 1
      BY <1>2, <2>2
    <3> QED BY <1>1, <1>3, <2>2, <3>1 DEF IsList
  <2> QED BY <1>1, <1>3, <1>5, <1>8, <2>1, <2>2
<1>9. ResponsesTold'
  BY <1>8 DEF ResponsesTold, OfOne, Known, IsList
<1> QED BY <1>7, <1>9 DEF MessagesRight

(* -------------------------------- Handlers --------------------------------- *)

\* A step of the one handler in flight: what it holds is right, and what is
\* stored is rightful or about to be corrected by it.
LEMMA TurnRight ==
    ASSUME Typed, StoreOwns', MessagesRight', NEW p \in Procs, NEW r,
           proc' = [proc EXCEPT ![p] = r], \A q \in Procs \ {p} : ~Busy(q),
           Right(r)',
           \A d \in Devs : \/ stored'[d] = NoDevice \/ Rightful(d, stored[d])'
                           \/ Corrected(d, r)
    PROVE  Rights'
<1>1. proc'[p] = r /\ \A q \in Procs : q # p => proc'[q] = proc[q] /\ proc[q].pc = "idle"
  BY DEF Typed, ProcTyped, Busy
<1>2. Alone'
  BY <1>1 DEF Alone, Busy
<1>3. HandlersRight'
  <2>1. ASSUME NEW q \in Procs, q # p PROVE Right(proc[q])'
    BY <1>1, <2>1 DEF Right
  <2>2. Right(proc[p])'
    BY <1>1 DEF Right, RightFind, RightSelect, RightWork, OfOne, Known, Mine, Rightful
  <2> QED BY <2>1, <2>2 DEF HandlersRight
<1>4. StoredRight'
  BY <1>1 DEF StoredRight, Corrected
<1> QED BY <1>2, <1>3, <1>4 DEF Rights

\* With no handler in flight, every stored name is rightful.
LEMMA FreeRight ==
    ASSUME Typed, Rights, NEW d \in Devs,
           \A p \in Procs : proc[p].pc = "run" => ~Corrects(proc[p].work[d]),
           \A p \in Procs : proc[p].pc # "find"
    PROVE  stored[d] = NoDevice \/ Rightful(d, stored[d])
BY DEF Rights, StoredRight, Corrected

\* A handler that starts with anything but a list.
LEMMA StartRight ==
    ASSUME Typed, Exclusive, Rights, NEW p \in Procs, NEW r, Start(p, r), MessagesRight',
           UNCHANGED <<stored, cache>>, Right(r)',
           \A d \in Devs : asked'[d] = asked[d] \/ stored[d] = NoDevice \/ Corrected(d, r)
    PROVE  Rights'
<1>1. proc' = [proc EXCEPT ![p] = r] /\ \A q \in Procs : ~Busy(q)
  BY DEF Start
<1>2. StoreOwns'
  BY DEF Rights, StoreOwns, Mine
<1>3. ASSUME NEW d \in Devs
      PROVE  \/ stored'[d] = NoDevice \/ Rightful(d, stored[d])'
             \/ Corrected(d, r)
  <2>1. stored[d] = NoDevice \/ Rightful(d, stored[d])
    BY <1>1, FreeRight DEF Busy
  <2> QED BY <2>1 DEF Rightful
<1> QED BY <1>1, <1>2, <1>3, TurnRight

LEMMA MessagesStay ==
    ASSUME Rights, UNCHANGED <<toHub, cache>> PROVE MessagesRight'
BY DEF Rights, MessagesRight, ListsOwn, ResponsesTold, OfOne, Known, Mine, IsList

LEMMA HandleListRight ==
    ASSUME Typed, Exclusive, Rights, NEW p \in Procs, HandleList(p) PROVE Rights'
<1> DEFINE m == Head(toHub)
<1>1. /\ NextMsg("list") /\ cache' = Cached(m) /\ stored' = stored
      /\ Start(p, [Idle EXCEPT !.pc = "find", !.names = m.names])
  BY DEF HandleList
<1>2. MessagesRight' /\ \A d \in Devs : Mine(d, m.names[d])
  BY <1>1, NextRight DEF Rights
<1>3. PICK r : r = [Idle EXCEPT !.pc = "find", !.names = m.names]
  OBVIOUS
<1>4. r.pc = "find" /\ r.names = m.names
  BY <1>3 DEF Idle
<1>5. \A d \in Devs : cache'[d] \in {r.names[d], NoName} /\ Mine(d, r.names[d])
  BY <1>1, <1>2, <1>4 DEF Cached
<1>6. Start(p, r)
  BY <1>1, <1>3
<1> HIDE DEF m
<1>7. StoreOwns'
  BY <1>1, <1>5, Sentinels DEF Rights, StoreOwns, Mine
<1>8. Right(r)'
  BY <1>4, <1>5 DEF Right, RightFind, Mine
<1>9. \A d \in Devs : Corrected(d, r)
  BY <1>4 DEF Corrected
<1>10. proc' = [proc EXCEPT ![p] = r] /\ \A q \in Procs \ {p} : ~Busy(q)
  BY <1>6 DEF Start
<1> QED BY <1>2, <1>7, <1>8, <1>9, <1>10, TurnRight

\* The handler that selects a document by the old name of a response, or by the
\* name a state was published under.
LEMMA HandleOtherRight ==
    ASSUME Typed, Exclusive, Rights, NEW p \in Procs, HandleResponse(p) \/ HandleState(p)
    PROVE  Rights'
<1>1. PICK kind, r :
          /\ kind \in {"response", "state"} /\ NextMsg(kind)
          /\ Start(p, r) /\ UNCHANGED <<stored, cache, asked>>
          /\ r.pc = "select" /\ r.from = Head(toHub).from
          /\ r.to = IF kind = "response" THEN Head(toHub).to ELSE NoName
  <2>1. CASE HandleResponse(p)
    <3> DEFINE r == [Idle EXCEPT !.pc = "select", !.from = Head(toHub).from,
                                 !.to = Head(toHub).to]
    <3>1. r.pc = "select" /\ r.from = Head(toHub).from /\ r.to = Head(toHub).to
      BY DEF Idle
    <3>2. NextMsg("response") /\ Start(p, r) /\ UNCHANGED <<stored, cache, asked>>
      BY <2>1 DEF HandleResponse, ghosts
    <3> HIDE DEF r
    <3> QED BY <3>1, <3>2
  <2>2. CASE HandleState(p)
    <3> DEFINE r == [Idle EXCEPT !.pc = "select", !.from = Head(toHub).from]
    <3>1. r.pc = "select" /\ r.from = Head(toHub).from /\ r.to = NoName
      BY DEF Idle
    <3>2. NextMsg("state") /\ Start(p, r) /\ UNCHANGED <<stored, cache, asked>>
      BY <2>2 DEF HandleState, ghosts
    <3> HIDE DEF r
    <3> QED BY <3>1, <3>2
  <2> QED BY <2>1, <2>2
<1>2. /\ MessagesRight'
      /\ kind = "response" => /\ OfOne(Head(toHub).from, Head(toHub).to)
                              /\ Known(Head(toHub).from, Head(toHub).to)
  <2>1. cache' = IF kind = "list" THEN Cached(Head(toHub)) ELSE cache
    BY <1>1
  <2> QED BY <1>1, <2>1, NextRight DEF Rights
<1>3. r.to # NoName => OfOne(r.from, r.to) /\ Known(r.from, r.to)
  BY <1>1, <1>2
<1>4. Right(r)'
  BY <1>1, <1>3 DEF Right, RightSelect, OfOne, Known
<1> QED BY <1>1, <1>2, <1>4, StartRight

\* What a list names is what the cache has, so every name that is not rightful
\* has drifted from it.
LEMMA SyncRight ==
    ASSUME Typed, Rights, NEW p \in Procs, SyncFriendlyNames(p) PROVE Rights'
<1> DEFINE names == proc[p].names
           works == [d \in Devs |-> IF d \in Drifted(names) THEN Work("read", "sync", names[d])
                                    ELSE NoWork]
<1>1. /\ proc[p].pc = "find" /\ UNCHANGED <<stored, cache, asked, toHub>>
      /\ proc' = [proc EXCEPT ![p] = IF Drifted(names) = {} THEN Idle ELSE Running(works)]
  BY DEF SyncFriendlyNames
<1>2. \A q \in Procs \ {p} : ~Busy(q)
  BY <1>1 DEF Rights, Alone, Busy
<1>3. \A d \in Devs : Mine(d, names[d]) /\ cache[d] \in {names[d], NoName}
  BY <1>1 DEF Rights, HandlersRight, Right, RightFind
<1>4. names \in [Devs -> MaybeName]
  BY DEF Typed, ProcTyped, Handlers
<1>5. PICK r : r = IF Drifted(names) = {} THEN Idle ELSE Running(works)
  OBVIOUS
<1>6. /\ r.pc = "idle" \/ (r.pc = "run" /\ r.work = works)
      /\ Drifted(names) # {} => r.pc = "run" /\ r.work = works
  BY <1>5 DEF Idle, Running
<1>7. /\ \A d \in Drifted(names) : /\ works[d].pc = "read" /\ works[d].kind = "sync"
                                   /\ works[d].to = names[d]
      /\ \A d \in Devs \ Drifted(names) : works[d].pc = "none" /\ works[d].to = NoName
  BY DEF Drifted, Work, NoWork
<1>8. proc' = [proc EXCEPT ![p] = r]
  BY <1>1, <1>5
<1> HIDE DEF works, names
<1>9. ASSUME r.pc = "run", NEW d \in Devs PROVE RightWork(d, r.work[d])'
  <2>1. CASE d \in Drifted(names)
    BY <1>1, <1>3, <1>6, <1>7, <1>9, <2>1 DEF RightWork, Mine, Rightful
  <2>2. CASE d \notin Drifted(names)
    BY <1>6, <1>7, <1>9, <2>2, Sentinels DEF RightWork, Mine
  <2> QED BY <2>1, <2>2
<1>10. Right(r)'
  BY <1>6, <1>9 DEF Right
<1>11. ASSUME NEW d \in Devs
       PROVE  \/ stored'[d] = NoDevice \/ Rightful(d, stored[d])'
              \/ Corrected(d, r)
  <2>1. CASE d \in Drifted(names)
    <3>1. names[d] \in Names
      BY <1>4, <2>1 DEF Drifted, MaybeName
    <3> QED BY <1>6, <1>7, <2>1, <3>1 DEF Corrected, Corrects
  <2>2. CASE d \notin Drifted(names) /\ stored[d] # NoDevice
    <3>1. cache[d] \in {stored[d], NoName}
      BY <1>3, <2>2 DEF Drifted
    <3> QED BY <1>1, <3>1 DEF Rightful
  <2> QED BY <1>1, <2>1, <2>2
<1>12. StoreOwns'
  BY <1>1 DEF Rights, StoreOwns, Mine
<1>13. MessagesRight'
  BY <1>1, MessagesStay
<1> QED BY <1>2, <1>8, <1>10, <1>11, <1>12, <1>13, TurnRight

\* Only the owner of a name has its document stored under it.
LEMMA SelectRight ==
    ASSUME Typed, Rights, NEW p \in Procs, Select(p) PROVE Rights'
<1> DEFINE h == proc[p]
           chosen == {d \in Devs : stored[d] = h.from}
           works == [d \in Devs |-> IF d \in chosen THEN Work("read", "sync", h.to) ELSE NoWork]
<1>1. /\ h.pc = "select" /\ UNCHANGED <<stored, cache, asked, toHub>>
      /\ proc' = [proc EXCEPT ![p] = IF chosen = {} THEN Idle ELSE Running(works)]
  BY DEF Select, ghosts
<1>2. \A q \in Procs \ {p} : ~Busy(q)
  BY <1>1 DEF Rights, Alone, Busy
<1>3. h.to # NoName => OfOne(h.from, h.to) /\ Known(h.from, h.to)
  BY <1>1 DEF Rights, HandlersRight, Right, RightSelect
<1>4. \A d \in Devs : stored[d] = NoDevice \/ Rightful(d, stored[d])
  <2>1. \A q \in Procs : proc[q].pc # "run" /\ proc[q].pc # "find"
    BY <1>1, <1>2 DEF Busy
  <2> QED BY <2>1, FreeRight
<1>5. PICK r : r = IF chosen = {} THEN Idle ELSE Running(works)
  OBVIOUS
<1>6. r.pc = "idle" \/ (r.pc = "run" /\ r.work = works)
  BY <1>5 DEF Idle, Running
<1>7. /\ \A d \in chosen : works[d].pc = "read" /\ works[d].to = h.to
      /\ \A d \in Devs \ chosen : works[d].pc = "none" /\ works[d].to = NoName
  BY DEF Work, NoWork
<1>8. proc' = [proc EXCEPT ![p] = r]
  BY <1>1, <1>5
<1>9. \A d \in chosen : Mine(d, h.from)
  BY DEF Rights, StoreOwns
<1> HIDE DEF works, h
<1>10. ASSUME r.pc = "run", NEW d \in Devs PROVE RightWork(d, r.work[d])'
  <2>1. CASE d \in chosen /\ h.to # NoName
    <3>1. Owner[h.from] = d /\ Owner[h.to] = d /\ cache[d] \in {h.to, NoName}
      BY <1>3, <1>9, <2>1 DEF OfOne, Known, Mine
    <3> QED BY <1>1, <1>6, <1>7, <1>10, <2>1, <3>1 DEF RightWork, Mine, Rightful
  <2>2. CASE ~(d \in chosen /\ h.to # NoName)
    <3>1. r.work[d].pc \in {"read", "none"} /\ r.work[d].to = NoName
      BY <1>6, <1>7, <1>10, <2>2
    <3> QED BY <3>1, Sentinels DEF RightWork, Mine
  <2> QED BY <2>1, <2>2
<1>11. Right(r)'
  BY <1>6, <1>10 DEF Right
<1>12. \A d \in Devs : stored'[d] = NoDevice \/ Rightful(d, stored[d])'
  BY <1>1, <1>4 DEF Rightful
<1>13. StoreOwns'
  BY <1>1 DEF Rights, StoreOwns, Mine
<1>14. MessagesRight'
  BY <1>1, MessagesStay
<1> QED BY <1>2, <1>8, <1>11, <1>12, <1>13, <1>14, TurnRight

\* The work on d goes on as w, that on the other devices is left as it is.
LEMMA WorkGoesRight ==
    ASSUME Typed, Rights, NEW p \in Procs, NEW d \in Devs, NEW w, proc[p].pc = "run",
           Becomes(p, d, w), UNCHANGED <<cache, asked, toHub>>,
           \A e \in Devs \ {d} : stored'[e] = stored[e],
           Mine(d, stored'[d]), RightWork(d, w)',
           stored'[d] = NoDevice \/ Rightful(d, stored[d])' \/ Corrects(w)
    PROVE  Rights'
<1>1. PICK works : works = [proc[p].work EXCEPT ![d] = w]
  OBVIOUS
<1>2. works[d] = w /\ \A e \in Devs : e # d => works[e] = proc[p].work[e]
  BY <1>1 DEF Typed, ProcTyped, Handlers
<1>3. PICK r : r = IF \A e \in Devs : works[e] = NoWork THEN Idle ELSE Running(works)
  OBVIOUS
<1>4. proc' = [proc EXCEPT ![p] = r]
  BY <1>1, <1>3 DEF Becomes
<1>5. /\ r.pc = "idle" \/ (r.pc = "run" /\ r.work = works)
      /\ \A e \in Devs : works[e].pc # "none" => r.pc = "run" /\ r.work = works
  BY <1>3 DEF Idle, Running, NoWork
<1>6. \A q \in Procs \ {p} : ~Busy(q)
  BY DEF Rights, Alone, Busy
<1>7. ASSUME NEW e \in Devs PROVE RightWork(e, works[e])'
  <2>1. CASE e = d
    BY <1>2, <2>1
  <2>2. CASE e # d
    <3>1. RightWork(e, works[e])
      BY <1>2, <2>2 DEF Rights, HandlersRight, Right
    <3> QED BY <2>2, <3>1 DEF RightWork, Mine, Rightful
  <2> QED BY <2>1, <2>2
<1>8. Right(r)'
  BY <1>5, <1>7 DEF Right
<1>9. ASSUME NEW e \in Devs
      PROVE  stored'[e] = NoDevice \/ Rightful(e, stored[e])' \/ Corrected(e, r)
  <2>1. ASSUME Corrects(works[e]) PROVE Corrected(e, r)
    BY <1>5, <2>1 DEF Corrects, Corrected
  <2>2. CASE e = d
    BY <1>2, <2>1, <2>2
  <2>3. CASE e # d
    <3>1. \/ stored[e] = NoDevice \/ Rightful(e, stored[e])
          \/ \E q \in Procs : Corrected(e, proc[q])
      BY DEF Rights, StoredRight
    <3>2. ASSUME NEW q \in Procs, Corrected(e, proc[q]) PROVE Corrects(works[e])
      <4>1. q = p
        BY <1>6, <3>2 DEF Corrected, Busy
      <4> QED BY <1>2, <2>3, <3>2, <4>1 DEF Corrected
    <3>3. Rightful(e, stored[e]) => Rightful(e, stored[e])'
      BY <2>3 DEF Rightful
    <3> QED BY <2>1, <2>3, <3>1, <3>2, <3>3
  <2> QED BY <2>2, <2>3
<1>10. StoreOwns'
  BY DEF Rights, StoreOwns, Mine
<1>11. MessagesRight'
  BY MessagesStay
<1> QED BY <1>4, <1>6, <1>8, <1>9, <1>10, <1>11, TurnRight

\* The unique index refuses no name: nobody has another's.  What is compared or
\* announced is what was stored, and that was rightful.
LEMMA WorkRight ==
    ASSUME Typed, Rights, NEW p \in Procs, NEW d \in Devs, WorkStep(p, d) PROVE Rights'
<1>1. PICK w : w = proc[p].work[d]
  OBVIOUS
<1>2. proc[p].pc = "run" /\ UNCHANGED <<cache, asked, toHub>>
  BY DEF WorkStep, Read, Save, Compare, Check, Insert, Announce, Delete, Expel, At, ghosts
<1>3. /\ w \in Works /\ stored \in [Devs -> Names \cup {NoDevice}]
  BY <1>1 DEF Typed, ProcTyped, Handlers, StoredTyped
<1>4. RightWork(d, w)
  BY <1>1, <1>2 DEF Rights, HandlersRight, Right
<1>5. Mine(d, stored[d])
  BY DEF Rights, StoreOwns
<1>6. stored[d] = NoDevice \/ Rightful(d, stored[d]) \/ Corrects(w)
  <2>1. \A q \in Procs \ {p} : ~Busy(q)
    BY <1>2 DEF Rights, Alone, Busy
  <2>2. \A q \in Procs : Corrected(d, proc[q]) => q = p
    BY <2>1 DEF Corrected, Busy
  <2>3. Corrected(d, proc[p]) => Corrects(w)
    BY <1>1, <1>2 DEF Corrected
  <2> QED BY <2>2, <2>3 DEF Rights, StoredRight
<1>7. ASSUME NEW v, Becomes(p, d, v), stored' = stored, RightWork(d, v),
             stored[d] = NoDevice \/ Rightful(d, stored[d]) \/ Corrects(v)
      PROVE  Rights'
  <2>1. RightWork(d, v)'
    BY <1>2, <1>7 DEF RightWork, Mine, Rightful
  <2>2. stored'[d] = NoDevice \/ Rightful(d, stored[d])' \/ Corrects(v)
    BY <1>2, <1>7 DEF Rightful
  <2>3. Mine(d, stored'[d])
    BY <1>5, <1>7
  <2>4. \A e \in Devs \ {d} : stored'[e] = stored[e]
    BY <1>7
  <2> QED BY <1>2, <1>7, <2>1, <2>2, <2>3, <2>4, WorkGoesRight
<1>8. ASSUME NEW v, Becomes(p, d, v), v.pc \notin Naming, v.to = NoName,
             stored' = stored \/ stored' = [stored EXCEPT ![d] = NoDevice],
             ~Corrects(w) \/ stored'[d] = NoDevice
      PROVE  Rights'
  <2>1. RightWork(d, v)'
    BY <1>8, Sentinels DEF RightWork, Mine, Naming
  <2>2. stored'[d] = NoDevice \/ Rightful(d, stored[d])'
    BY <1>2, <1>3, <1>6, <1>8 DEF Rightful
  <2>3. Mine(d, stored'[d]) /\ \A e \in Devs \ {d} : stored'[e] = stored[e]
    BY <1>3, <1>5, <1>8, Sentinels DEF Mine
  <2> QED BY <1>2, <1>8, <2>1, <2>2, <2>3, WorkGoesRight
<1>9. NoWork.pc \notin Naming /\ NoWork.to = NoName
  BY DEF NoWork, Naming
<1>10. CASE Read(p, d)
  <2>1. w.pc = "read" /\ stored' = stored
    BY <1>1, <1>10 DEF Read, At
  <2>2. CASE stored[d] = NoDevice
    <3>1. Becomes(p, d, NoWork)
      BY <1>10, <2>2 DEF Read, Ends
    <3> QED BY <1>8, <1>9, <2>1, <2>2, <3>1
  <2>3. CASE stored[d] # NoDevice /\ w.kind = "remove"
    <3>1. PICK v : v = [w EXCEPT !.pc = "delete"]
      OBVIOUS
    <3>2. v.pc = "delete" /\ v.to = w.to /\ ~Corrects(w)
      BY <1>3, <2>3, <3>1 DEF Works, Corrects
    <3>3. Becomes(p, d, v)
      BY <1>1, <1>10, <2>3, <3>1 DEF Read
    <3>4. RightWork(d, v)
      BY <1>4, <3>2 DEF RightWork
    <3> QED BY <1>6, <1>7, <2>1, <3>2, <3>3, <3>4
  <2>4. CASE stored[d] # NoDevice /\ w.kind # "remove"
    <3>1. PICK v : v = [w EXCEPT !.pc = "save", !.old = stored[d],
                                 !.to = IF w.to = NoName THEN stored[d] ELSE w.to]
      OBVIOUS
    <3>2. /\ v.pc = "save" /\ v.old = stored[d] /\ v.kind = w.kind
          /\ v.to = IF w.to = NoName THEN stored[d] ELSE w.to
      BY <1>3, <3>1 DEF Works
    <3>3. Becomes(p, d, v)
      BY <1>1, <1>10, <2>4, <3>1 DEF Read
    <3>4. CASE w.to = NoName
      <4>1. Rightful(d, stored[d])
        BY <1>6, <2>4, <3>4, Sentinels DEF Corrects
      <4>2. RightWork(d, v)
        BY <1>5, <3>2, <3>4, <4>1 DEF RightWork
      <4> QED BY <1>7, <2>1, <3>3, <4>1, <4>2
    <3>5. CASE w.to # NoName
      <4>1. RightWork(d, v)
        BY <1>4, <3>2, <3>5 DEF RightWork
      <4>2. Corrects(w) => Corrects(v)
        BY <3>2, <3>5 DEF Corrects
      <4> QED BY <1>6, <1>7, <2>1, <3>3, <4>1, <4>2
    <3> QED BY <3>4, <3>5
  <2> QED BY <2>2, <2>3, <2>4
<1>11. CASE Save(p, d)
  <2>1. w.pc = "save" /\ w.to \in Names /\ w.old = stored[d] /\ Mine(d, w.to)
        /\ Rightful(d, w.to)
    BY <1>1, <1>3, <1>4, <1>11 DEF Save, At, Works, Naming, RightWork
  <2>2. ~Clash(d, w)
    BY <1>3, <2>1 DEF Clash, Rights, StoreOwns, Mine
  <2>3. CASE stored[d] = NoDevice
    <3>1. Becomes(p, d, NoWork) /\ stored' = stored
      BY <1>11, <2>3 DEF Save, Ends
    <3> QED BY <1>8, <1>9, <2>3, <3>1
  <2>4. CASE stored[d] # NoDevice
    <3>1. PICK v : v = [w EXCEPT !.pc = "compare"]
      OBVIOUS
    <3>2. v.pc = "compare" /\ v.to = w.to
      BY <1>3, <3>1 DEF Works
    <3>3. /\ Becomes(p, d, v)
          /\ stored' = IF w.to = w.old THEN stored ELSE [stored EXCEPT ![d] = w.to]
      BY <1>1, <1>11, <2>2, <2>4, <3>1 DEF Save
    <3>4. stored'[d] = w.to /\ \A e \in Devs \ {d} : stored'[e] = stored[e]
      BY <1>3, <2>1, <3>3
    <3>5. RightWork(d, v)'
      BY <1>2, <2>1, <3>2 DEF RightWork, Mine, Rightful
    <3>6. Mine(d, stored'[d]) /\ Rightful(d, stored[d])'
      BY <1>2, <2>1, <3>4 DEF Mine, Rightful
    <3> QED BY <1>2, <3>3, <3>4, <3>5, <3>6, WorkGoesRight
  <2> QED BY <2>3, <2>4
<1>12. CASE Compare(p, d) \/ Announce(p, d) \/ Expel(p, d)
  <2>1. Becomes(p, d, NoWork) /\ stored' = stored /\ w.pc \notin {"read", "save"}
    BY <1>1, <1>12 DEF Compare, Announce, Expel, Ends, At
  <2> QED BY <1>8, <1>9, <2>1 DEF Corrects
<1>13. CASE Check(p, d)
  <2>1. w.pc = "check" /\ stored' = stored
    BY <1>1, <1>13 DEF Check, At
  <2>2. CASE Becomes(p, d, NoWork)
    BY <1>8, <1>9, <2>1, <2>2 DEF Corrects
  <2>3. CASE Becomes(p, d, [w EXCEPT !.pc = "insert"])
    <3>1. PICK v : v = [w EXCEPT !.pc = "insert"]
      OBVIOUS
    <3>2. v.pc = "insert" /\ v.to = w.to
      BY <1>3, <3>1 DEF Works
    <3>3. RightWork(d, v)
      BY <1>4, <2>1, <3>2 DEF RightWork
    <3> QED BY <1>6, <1>7, <2>1, <2>3, <3>1, <3>3 DEF Corrects
  <2> QED BY <1>1, <1>13, <2>2, <2>3 DEF Check, Ends
<1>14. CASE Insert(p, d)
  <2>1. w.pc = "insert" /\ w.to = asked[d] /\ Mine(d, w.to)
    BY <1>1, <1>4, <1>14 DEF Insert, At, RightWork
  <2>2. CASE Becomes(p, d, NoWork) /\ stored' = stored
    BY <1>8, <1>9, <2>1, <2>2 DEF Corrects
  <2>3. CASE /\ Becomes(p, d, [w EXCEPT !.pc = "announce"])
             /\ stored' = [stored EXCEPT ![d] = w.to]
    <3>1. PICK v : v = [w EXCEPT !.pc = "announce"]
      OBVIOUS
    <3>2. v.pc = "announce" /\ v.to = w.to
      BY <1>3, <3>1 DEF Works
    <3>3. stored'[d] = w.to /\ \A e \in Devs \ {d} : stored'[e] = stored[e]
      BY <1>3, <2>3
    <3>4. RightWork(d, v)'
      BY <1>2, <2>1, <3>2 DEF RightWork, Mine, Rightful
    <3>5. Mine(d, stored'[d]) /\ Rightful(d, stored[d])'
      BY <1>2, <2>1, <3>3 DEF Mine, Rightful
    <3> QED BY <1>2, <2>3, <3>1, <3>3, <3>4, <3>5, WorkGoesRight
  <2> QED BY <1>1, <1>14, <2>2, <2>3 DEF Insert, Ends
<1>15. CASE Delete(p, d)
  <2>1. PICK v : v = [w EXCEPT !.pc = "expel"]
    OBVIOUS
  <2>2. v.pc = "expel" /\ v.to = w.to
    BY <1>3, <2>1 DEF Works
  <2>3. Becomes(p, d, v) /\ stored' = [stored EXCEPT ![d] = NoDevice]
    BY <1>1, <1>15, <2>1 DEF Delete
  <2>4. stored'[d] = NoDevice /\ \A e \in Devs \ {d} : stored'[e] = stored[e]
    BY <1>3, <2>3
  <2>5. RightWork(d, v)' /\ Mine(d, stored'[d])
    BY <1>2, <1>4, <2>2, <2>4, Sentinels DEF RightWork, Mine, Rightful
  <2> QED BY <1>2, <2>3, <2>4, <2>5, WorkGoesRight
<1> QED BY <1>10, <1>11, <1>12, <1>13, <1>14, <1>15 DEF WorkStep

\* The API asks for a name of the device; no other handler is in flight then.
LEMMA ApiRight ==
    ASSUME Typed, Exclusive, OneOwner', Rights, NEW p \in Procs, Api(p) PROVE Rights'
<1>1. ASSUME NEW d \in Devs, NEW w \in Works, Request(p, d, w), RightWork(d, w)',
             \A e \in Devs \ {d} : asked'[e] = asked[e],
             asked'[d] = asked[d] \/ stored[d] = NoDevice \/ Corrects(w)
      PROVE  Rights'
  <2>1. PICK works : works = [Idle.work EXCEPT ![d] = w]
    OBVIOUS
  <2>2. works[d] = w /\ \A e \in Devs : e # d => works[e] = NoWork
    BY <2>1, IdleTyped
  <2>3. PICK r : r = Running(works)
    OBVIOUS
  <2>4. r.pc = "run" /\ r.work = works
    BY <2>3 DEF Running, Idle
  <2>5. Start(p, r) /\ UNCHANGED <<stored, cache, toHub>>
    BY <1>1, <2>1, <2>3 DEF Request
  <2>6. ASSUME NEW e \in Devs, e # d PROVE RightWork(e, NoWork)'
    BY Sentinels DEF RightWork, Mine, NoWork
  <2>7. \A e \in Devs : RightWork(e, works[e])'
    BY <1>1, <2>2, <2>6 DEF RightWork, Mine, Rightful
  <2>8. Right(r)'
    BY <2>4, <2>7 DEF Right
  <2>9. \A e \in Devs : asked'[e] = asked[e] \/ stored[e] = NoDevice \/ Corrected(e, r)
    BY <1>1, <2>2, <2>4 DEF Corrected
  <2>10. MessagesRight'
    BY <2>5, MessagesStay
  <2> QED BY <2>5, <2>8, <2>9, <2>10, StartRight
<1>2. NoName \in MaybeName /\ Names \subseteq MaybeName
  BY DEF MaybeName
<1>3. ASSUME NEW d \in Devs, NEW kind \in Kinds, Request(p, d, Work("read", kind, NoName)),
             asked' = asked
      PROVE  Rights'
  <2>1. PICK w : w = Work("read", kind, NoName)
    OBVIOUS
  <2>2. w \in Works /\ w.pc = "read" /\ w.to = NoName
    BY <1>2, <2>1, ReadTyped DEF Work
  <2>3. RightWork(d, w)'
    BY <2>2, Sentinels DEF RightWork, Mine
  <2> QED BY <1>1, <1>3, <2>1, <2>2, <2>3
<1>4. ASSUME NEW d \in Devs, NEW n \in Names, ApiRename(p, d, n) \/ ApiAdd(p, d, n)
      PROVE  Rights'
  <2>1. asked' = [asked EXCEPT ![d] = n] /\ asked \in [Devs -> MaybeName]
    BY <1>4 DEF ApiRename, ApiAdd, Typed, FlagsTyped
  <2>2. asked'[d] = n /\ \A e \in Devs \ {d} : asked'[e] = asked[e]
    BY <2>1
  <2>3. Mine(d, n)
    BY <2>2 DEF OneOwner
  <2>4. CASE ApiRename(p, d, n)
    <3>1. PICK w : w = Work("read", "api", n)
      OBVIOUS
    <3>2. w \in Works /\ w.pc = "read" /\ w.kind = "api" /\ w.to = n
      BY <1>2, <3>1, ReadTyped DEF Work, Kinds
    <3>3. RightWork(d, w)' /\ Corrects(w)
      BY <2>2, <2>3, <3>2 DEF RightWork, Mine, Rightful, Corrects
    <3>4. Request(p, d, w)
      BY <2>4, <3>1 DEF ApiRename
    <3> QED BY <1>1, <2>2, <3>2, <3>3, <3>4
  <2>5. CASE ApiAdd(p, d, n)
    <3>1. PICK w : w = Work("check", "add", n)
      OBVIOUS
    <3>2. w \in Works /\ w.pc = "check" /\ w.to = n
      BY <3>1, CheckTyped DEF Work
    <3>3. RightWork(d, w)'
      BY <2>2, <2>3, <3>2 DEF RightWork, Mine, Rightful
    <3>4. Request(p, d, w) /\ stored[d] = NoDevice
      BY <2>5, <3>1 DEF ApiAdd
    <3> QED BY <1>1, <2>2, <3>2, <3>3, <3>4
  <2> QED BY <1>4, <2>4, <2>5
<1>5. ASSUME NEW d \in Devs, ApiUpdate(p, d) \/ ApiRemove(p, d) PROVE Rights'
  BY <1>3, <1>5 DEF ApiUpdate, ApiRemove, Kinds
<1> QED BY <1>4, <1>5 DEF Api

\* The bridge changes nothing of the hub but what is on its way.
LEMMA BridgeRight ==
    ASSUME Typed, OneOwner, OneOwner', Rights,
           BridgeApplies \/ Outside \/ HandleHealth \/ \E up \in BOOLEAN : HealthReport(up)
    PROVE  Rights'
<1>1. ASSUME UNCHANGED <<stored, cache, proc, asked>>, MessagesRight' PROVE Rights'
  BY <1>1 DEF Rights, Alone, Busy, StoreOwns, HandlersRight, StoredRight, Right, RightFind,
              RightSelect, RightWork, OfOne, Known, Mine, Rightful, Corrected
<1>2. ASSUME NEW m, toHub' = Append(toHub, m), m.kind \in {"list", "state", "health"},
             m.kind = "list" => m.names = bridge, UNCHANGED <<stored, cache, proc, asked>>
      PROVE  Rights'
  <2>1. m.kind = "list" => \A d \in Devs : Mine(d, m.names[d])
    BY <1>2 DEF OneOwner
  <2>2. m.kind # "response"
    BY <1>2
  <2>3. MessagesRight'
    BY <1>2, <2>1, <2>2, OneMoreRight DEF Rights
  <2> QED BY <1>1, <1>2, <2>3
<1>3. ASSUME NEW d \in Devs, bridge[d] \in Names, NEW n \in Names, bridge'[d] = n
      PROVE  OfOne(bridge[d], n) /\ bridge'[Owner[bridge[d]]] = n
  BY <1>3 DEF OneOwner, Mine, OfOne
<1>4. CASE BridgeApplies
  <2>1. PICK r : r = Head(toBridge)
    OBVIOUS
  <2>2. r \in ToBridge /\ bridge \in [Devs -> MaybeName]
    BY <1>4, <2>1, HeadTailProperties DEF BridgeApplies, Typed, MessagesTyped, BridgeTyped
  <2>3. UNCHANGED <<stored, cache, proc, asked>>
    BY <1>4 DEF BridgeApplies, hub
  <2>4. CASE UNCHANGED toHub
    BY <1>1, <2>3, <2>4, MessagesStay
  <2>5. CASE r.kind = "remove" /\ Publishes(bridge', <<>>)
    <3>1. MessagesRight'
      BY <2>3, <2>5, PublishedRight DEF Rights
    <3> QED BY <1>1, <2>3, <3>1
  <2>6. CASE /\ r.kind = "rename" /\ bridge[r.dev] # NoName
             /\ bridge' = [bridge EXCEPT ![r.dev] = r.to]
             /\ Publishes(bridge', <<Response(bridge[r.dev], r.to)>>)
    <3>1. /\ r.dev \in Devs /\ r.to \in Names /\ bridge[r.dev] \in Names
          /\ bridge'[r.dev] = r.to
      BY <2>2, <2>6 DEF ToBridge, MaybeName
    <3>2. OfOne(bridge[r.dev], r.to) /\ bridge'[Owner[bridge[r.dev]]] = r.to
      BY <1>3, <3>1
    <3>3. MessagesRight'
      BY <2>3, <2>6, <3>2, PublishedRight DEF Rights
    <3> QED BY <1>1, <2>3, <3>3
  <2>7. r.kind \in {"rename", "remove"}
    BY <2>2 DEF ToBridge
  <2> QED BY <1>4, <2>1, <2>4, <2>5, <2>6, <2>7 DEF BridgeApplies
<1>5. ASSUME NEW d \in Devs, NEW n \in Names, BridgeRenames(d, n) PROVE Rights'
  <2>1. /\ bridge[d] # NoName /\ bridge' = [bridge EXCEPT ![d] = n]
        /\ UNCHANGED <<stored, cache, proc, asked>>
        /\ \E more \in {<<>>, <<Response(bridge[d], n)>>} : Publishes(bridge', more)
    BY <1>5 DEF BridgeRenames, hub, ghosts
  <2>2. bridge[d] \in Names /\ bridge'[d] = n
    BY <2>1 DEF Typed, BridgeTyped, MaybeName
  <2>3. OfOne(bridge[d], n) /\ bridge'[Owner[bridge[d]]] = n
    BY <1>3, <2>2
  <2>4. MessagesRight'
    BY <2>1, <2>3, PublishedRight DEF Rights
  <2> QED BY <1>1, <2>1, <2>4
<1>6. ASSUME NEW d \in Devs, NEW n \in Names, BridgeJoins(d, n) PROVE Rights'
  <2>1. Publishes(bridge', <<>>) /\ UNCHANGED <<stored, cache, proc, asked>>
    BY <1>6 DEF BridgeJoins, hub, ghosts
  <2>2. MessagesRight'
    BY <2>1, PublishedRight DEF Rights
  <2> QED BY <1>1, <2>1, <2>2
<1>7. ASSUME NEW d \in Devs, Interview(d) PROVE Rights'
  <2> DEFINE m == List(bridge, {e \in Devs : ready'[e]})
  <2>1. /\ m.kind = "list" /\ m.names = bridge /\ toHub' = Append(toHub, m)
        /\ UNCHANGED <<stored, cache, proc, asked>>
    BY <1>7 DEF Interview, List, Msg, hub, ghosts
  <2> HIDE DEF m
  <2> QED BY <1>2, <2>1
<1>8. ASSUME NEW d \in Devs, DeviceState(d) PROVE Rights'
  <2>1. /\ State(bridge[d]).kind = "state" /\ toHub' = Append(toHub, State(bridge[d]))
        /\ UNCHANGED <<stored, cache, proc, asked>>
    BY <1>8 DEF DeviceState, State, Msg, hub, ghosts
  <2> QED BY <1>2, <2>1
<1>9. ASSUME NEW up \in BOOLEAN, HealthReport(up) PROVE Rights'
  <2>1. /\ Health(up).kind = "health" /\ toHub' = Append(toHub, Health(up))
        /\ UNCHANGED <<stored, cache, proc, asked>>
    BY <1>9 DEF HealthReport, Health, Msg, hub, ghosts
  <2> QED BY <1>2, <2>1
<1>10. CASE HandleHealth
  <2>1. NextMsg("health") /\ UNCHANGED <<stored, cache, proc, asked>>
    BY <1>10 DEF HandleHealth, ghosts
  <2>2. MessagesRight'
    BY <2>1, NextRight DEF Rights
  <2> QED BY <1>1, <2>1, <2>2
<1> QED BY <1>4, <1>5, <1>6, <1>7, <1>8, <1>9, <1>10 DEF Outside

\* A hub that has just started does not know any name of the bridge.
LEMMA RestartRight == ASSUME Typed, OneOwner, Rights, Restart PROVE Rights'
<1>1. PICK m : m = List(bridge, Eligible)
  OBVIOUS
<1>2. m.kind = "list" /\ m.names = bridge /\ toHub' = <<m>>
  BY <1>1 DEF Restart, List, Msg
<1>3. DOMAIN toHub' = {1} /\ toHub'[1] = m
  BY <1>2
<1>4. MessagesRight'
  BY <1>2, <1>3 DEF MessagesRight, ListsOwn, ResponsesTold, IsList, OneOwner, Mine
<1>5. \A d \in Devs : cache'[d] = NoName
  BY DEF Restart, NoList
<1>6. \A p \in Procs : proc'[p].pc = "idle"
  BY DEF Restart, Idle
<1>7. stored' = stored
  BY DEF Restart
<1>8. StoreOwns'
  BY <1>5, <1>7, Sentinels DEF Rights, StoreOwns, Mine
<1>9. StoredRight'
  BY <1>5 DEF StoredRight, Rightful
<1>10. Alone' /\ HandlersRight'
  BY <1>6 DEF Alone, Busy, HandlersRight, Right
<1> QED BY <1>4, <1>8, <1>9, <1>10 DEF Rights

LEMMA InitRight == ASSUME Init, OneOwner PROVE Rights
<1>1. DOMAIN toHub = {}
  BY DEF Init
<1>2. MessagesRight
  BY <1>1 DEF MessagesRight, ListsOwn, ResponsesTold
<1>3. \A p \in Procs : proc[p].pc = "idle"
  BY DEF Init, Idle
<1>4. Alone /\ HandlersRight
  BY <1>3 DEF Alone, Busy, HandlersRight, Right
<1>5. StoreOwns
  BY Sentinels DEF Init, StoreOwns, OneOwner, Mine
<1>6. StoredRight
  BY DEF Init, StoredRight, Rightful
<1> QED BY <1>2, <1>4, <1>5, <1>6 DEF Rights

LEMMA RightsStep ==
    ASSUME Exclusive, Typed, OneOwner, OneOwner', Rights, [Next]_vars PROVE Rights'
<1>1. CASE UNCHANGED vars
  <2>1. UNCHANGED <<stored, cache, proc, toHub, asked>>
    BY <1>1 DEF vars, hub, ghosts
  <2>2. MessagesRight'
    BY <2>1, MessagesStay
  <2> QED BY <2>1, <2>2
          DEF Rights, Alone, Busy, StoreOwns, HandlersRight, StoredRight, Right, RightFind,
              RightSelect, RightWork, OfOne, Known, Mine, Rightful, Corrected
<1>2. ASSUME NEW p \in Procs, Step(p) PROVE Rights'
  BY <1>2, SyncRight, SelectRight, WorkRight DEF Step
<1>3. ASSUME NEW p \in Procs, Handle(p) PROVE Rights'
  BY <1>3, HandleListRight, HandleOtherRight DEF Handle
<1>4. ASSUME NEW p \in Procs, Api(p) PROVE Rights'
  BY <1>4, ApiRight
<1>5. CASE BridgeApplies \/ Outside \/ HandleHealth \/ \E up \in BOOLEAN : HealthReport(up)
  BY <1>5, BridgeRight
<1>6. CASE Restart
  BY <1>6, RestartRight
<1> QED BY <1>1, <1>2, <1>3, <1>4, <1>5, <1>6 DEF Next

\* Only a name that is compared or announced is asked of the bridge.
LEMMA RenamesRightful ==
    ASSUME Typed, Rights, [Next]_vars, NEW d \in Devs, NEW n \in Names, Renames(d, n)
    PROVE  asked[d] = n \/ cache[d] = NoName
<1>1. Len(toBridge') > Len(toBridge) /\ toBridge \in Seq(ToBridge)
  BY DEF Renames, Typed, MessagesTyped
<1>2. toBridge' # toBridge
  BY <1>1
<1>3. ASSUME toBridge # <<>>, toBridge' = Tail(toBridge) PROVE FALSE
  BY <1>1, <1>3, HeadTailProperties
<1>4. PICK p \in Procs, e \in Devs : WorkStep(p, e)
  BY <1>2, <1>3
     DEF Next, vars, Step, Handle, Api, Outside, SyncFriendlyNames, Select, HandleList,
         HandleResponse, HandleState, HandleHealth, ApiUpdate, ApiRename, ApiAdd, ApiRemove,
         Request, BridgeApplies, BridgeRenames, BridgeJoins, Interview, DeviceState,
         HealthReport, Restart
<1>5. PICK w : w = proc[p].work[e]
  OBVIOUS
<1>6. PICK kind, to :
          /\ toBridge' = Append(toBridge, [kind |-> kind, dev |-> e, to |-> to])
          /\ kind = "rename" => /\ to = w.to /\ w.pc \in {"compare", "announce"}
                                /\ w.pc = "compare" => cache[e] # w.to
  <2>1. CASE Compare(p, e)
    <3>1. cache[e] # w.to /\ Publish(e, "rename", w.to) /\ w.pc = "compare"
      BY <1>2, <1>5, <2>1 DEF Compare, At
    <3> QED BY <1>2, <3>1 DEF Publish
  <2>2. CASE Announce(p, e)
    <3>1. Publish(e, "rename", w.to) /\ w.pc = "announce"
      BY <1>5, <2>2 DEF Announce, At
    <3> QED BY <1>2, <3>1 DEF Publish
  <2>3. CASE Expel(p, e)
    <3>1. Publish(e, "remove", NoName)
      BY <2>3 DEF Expel
    <3>2. toBridge' = Append(toBridge, [kind |-> "remove", dev |-> e, to |-> NoName])
      BY <1>2, <3>1 DEF Publish
    <3>3. "remove" # "rename"
      OBVIOUS
    <3> QED BY <3>2, <3>3
  <2> QED BY <1>2, <1>4, <2>1, <2>2, <2>3 DEF WorkStep, Read, Save, Check, Insert, Delete
<1>7. PICK r : r = [kind |-> kind, dev |-> e, to |-> to]
  OBVIOUS
<1>8. toBridge' = Append(toBridge, r)
  BY <1>6, <1>7
<1>9. toBridge'[Len(toBridge')] = r
  BY <1>1, <1>8
<1>10. kind = "rename" /\ e = d /\ to = n
  BY <1>7, <1>9 DEF Renames
<1>11. proc[p].pc = "run"
  BY <1>4 DEF WorkStep, Read, Save, Compare, Check, Insert, Announce, Delete, Expel, At
<1>12. RightWork(d, w) /\ w.to = n
  BY <1>5, <1>6, <1>10, <1>11 DEF Rights, HandlersRight, Right
<1> QED BY <1>6, <1>10, <1>12 DEF RightWork, Rightful

(* The hub and the bridge do not echo each other's renames: as long as no name  *)
(* is given to two devices, the hub asks the bridge to rename a device whose    *)
(* name it knows only to the name the API asked for last, whatever lists,       *)
(* responses, states, interviews, outages and restarts come in between.  Both   *)
(* premises are needed.  When the API gives a device the name another has just  *)
(* lost on the bridge, the response to that rename finds the wrong document by  *)
(* the old name, and the wrong device is renamed.  When two handlers of one     *)
(* device overlap, the first publishes after the second has been asked.         *)
THEOREM RenamesAreAsked == ASSUME Exclusive PROVE Spec /\ []OneOwner => NoEcho
<1> DEFINE Asks == \A d \in Devs, n \in Names :
                       Renames(d, n) => asked[d] = n \/ cache[d] = NoName
<1>1. Init /\ OneOwner => Rights
  BY InitRight
<1>2. Typed /\ OneOwner /\ OneOwner' /\ Rights /\ [Next]_vars => Rights'
  BY RightsStep
<1>3. Typed /\ Rights /\ [Next]_vars => [Asks]_vars
  BY RenamesRightful
<1> QED BY <1>1, <1>2, <1>3, AlwaysTyped, PTL DEF Spec, NoEcho

===============================================================================
