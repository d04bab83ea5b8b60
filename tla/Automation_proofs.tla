------------------------- MODULE Automation_proofs -------------------------
(***************************************************************************)
(* Theorems about Automation, for every number of devices, scenarios,      *)
(* handlers, updates and commands: scenarios react to what has become      *)
(* true, and one command executes them once.                               *)
(***************************************************************************)
EXTENDS Automation, Scenarios_proofs

-----------------------------------------------------------------------------
(* Bags: what may be in one after adding and removing.                     *)

LEMMA AddedItems ==
  ASSUME NEW b, NEW s
  PROVE  DOMAIN (b (+) s) = DOMAIN b \cup DOMAIN s
  BY DEF (+)

LEMMA RemainingItems ==
  ASSUME NEW b, NEW s
  PROVE  DOMAIN (b (-) s) \subseteq DOMAIN b
  BY DEF (-)

LEMMA ItemsOfSet ==
  ASSUME NEW s
  PROVE  DOMAIN SetToBag(s) = s
  BY DEF SetToBag

-----------------------------------------------------------------------------
(* Type correctness, and what a handler holds between its steps.           *)

Piece == [kind : {"update", "command"}, dev : Devices, val : Values \cup {Same},
          read : Values \cup {Same}]
Pieces == {w \in Piece : w.kind = "update" => w.val # Same}
Sight == [entry : Entry \cup {None}, conditions : Seq(BOOLEAN)]

DevicesTyped ==
  /\ home \in Homes
  /\ stored \in [Devices -> Values \cup {Gone}]
  /\ completed \in [Devices -> Nat] /\ executed \in [Devices -> Nat]
  /\ DOMAIN work \subseteq Pieces
  /\ due \subseteq Ids
  /\ credit \in [Ids -> Int]
EvalTyped ==
  /\ context \in [Procs -> {"none", "tick", "update", "command"}]
  /\ seen \in [Procs -> Sight]
AutoTyped == Typed /\ DevicesTyped /\ EvalTyped

LEMMA NobodyType == Nobody \in Sight
  BY DEF Nobody, Sight

\* The rule of a scenario, by the name it has or had.
LEMMA RuleType ==
  ASSUME DevicesTyped, NEW n \in Names
  PROVE  /\ home.rules[n].sources \in Seq(Source)
         /\ home.rules[n].logic \in {"AND", "OR"}
         /\ home.rules[n].actions \subseteq Update
  BY HomesAssumption DEF DevicesTyped

\* An item leaves the bag, and others come.
LEMMA ReplaceType ==
  ASSUME DevicesTyped, NEW item, NEW items, DOMAIN items \subseteq Pieces, Replace(item, items)
  PROVE  DOMAIN work' \subseteq Pieces
<1>1. DOMAIN work' = DOMAIN (work (-) SetToBag({item})) \cup DOMAIN items
  BY AddedItems DEF Replace
<1>2. DOMAIN (work (-) SetToBag({item})) \subseteq DOMAIN work
  BY RemainingItems
<1>3. QED BY <1>1, <1>2 DEF DevicesTyped

LEMMA AddDoes ==
  ASSUME NEW item, Add(item)
  PROVE  DOMAIN work' = DOMAIN work \cup {item}
<1>1. work' = work (+) SetToBag({item})
  BY DEF Add
<1>2. DOMAIN (work (+) SetToBag({item})) = DOMAIN work \cup DOMAIN SetToBag({item})
  BY AddedItems
<1>3. QED BY <1>1, <1>2, ItemsOfSet

LEMMA EmptyBagType == DOMAIN EmptyBag \subseteq Pieces
  BY ItemsOfSet DEF EmptyBag

LEMMA ItemType ==
  ASSUME NEW kind \in {"update", "command"}, NEW d \in Devices, NEW v \in Values \cup {Same},
         kind = "update" => v # Same
  PROVE  Item(kind, d, v) \in Pieces
  BY DEF Item, Piece, Pieces

\* The steps of DevicesService leave handlers and documents of scenarios alone.
DeviceStep ==
  \/ \E call \in home.calls : \/ SubmitWork(call) \/ RemoveDevice(call)
                             \/ \E item \in BagToSet(work) : Refuse(call, item)
  \/ \E item \in BagToSet(work) : Serve(item)

LEMMA DeviceStepKeeps ==
  ASSUME DeviceStep
  PROVE  UNCHANGED <<vars, evalVars, home>>
  BY DEF DeviceStep, SubmitWork, RemoveDevice, Refuse, Serve, ReadDevice, SaveDevice,
         SendCommand

LEMMA TrackType == ASSUME NEW new, Track(new) PROVE due' \subseteq Ids
  BY DEF Track

LEMMA CallType ==
  ASSUME DevicesTyped, NEW call \in home.calls
  PROVE  call \in Call /\ (call.kind = "update" => call.val # Same)
  BY HomesAssumption DEF DevicesTyped

LEMMA DeviceStepTyped ==
  ASSUME AutoTyped, DeviceStep
  PROVE  AutoTyped'
<1>1. UNCHANGED <<vars, evalVars, home>>
  BY DeviceStepKeeps
<1>2. Typed' /\ EvalTyped' /\ home' \in Homes
  BY <1>1 DEF AutoTyped, Typed, TypeOK, EvalTyped, DevicesTyped, vars, evalVars, Shape,
     InGroups, Target
<1> USE DEF AutoTyped, DevicesTyped
<1>3. ASSUME NEW call \in home.calls, SubmitWork(call) PROVE DevicesTyped'
  <2>1. Item(call.kind, call.dev, call.val) \in Pieces
    BY <1>3, CallType, ItemType DEF SubmitWork, Call
  <2>2. DOMAIN work' = DOMAIN work \cup {Item(call.kind, call.dev, call.val)}
    BY <1>3, AddDoes DEF SubmitWork
  <2>3. QED BY <1>2, <1>3, <2>1, <2>2 DEF SubmitWork
<1>4. ASSUME NEW call \in home.calls, RemoveDevice(call) PROVE DevicesTyped'
  BY <1>2, <1>4, CallType, TrackType DEF RemoveDevice, Call
<1>5. ASSUME NEW call \in home.calls, NEW item \in BagToSet(work), Refuse(call, item)
      PROVE  DevicesTyped'
  BY <1>2, <1>5, ReplaceType, EmptyBagType DEF Refuse
<1>6. ASSUME NEW item \in BagToSet(work), Serve(item) PROVE DevicesTyped'
  <2>1. item \in Piece /\ (item.kind = "update" => item.val # Same)
    BY DEF BagToSet, Pieces
  <2>2. item.dev \in Devices /\ item.val \in Values \cup {Same}
    BY <2>1 DEF Piece
  <2>3. CASE ReadDevice(item)
    <3>1. stored[item.dev] # Gone => [item EXCEPT !.read = stored[item.dev]] \in Pieces
      BY <2>1, <2>2 DEF Piece, Pieces
    <3>2. ASSUME stored[item.dev] # Gone
          PROVE  DOMAIN SetToBag({[item EXCEPT !.read = stored[item.dev]]}) \subseteq Pieces
      BY <3>1, <3>2, ItemsOfSet
    <3>3. DOMAIN work' \subseteq Pieces
      BY <2>3, <3>2, ReplaceType, EmptyBagType DEF ReadDevice
    <3>4. QED BY <1>2, <2>3, <3>3 DEF ReadDevice
  <2>4. CASE SaveDevice(item)
    <3>1. DOMAIN work' \subseteq Pieces
      BY <2>4, ReplaceType, EmptyBagType DEF SaveDevice
    <3>2. item.val \in Values
      BY <2>1, <2>2, <2>4 DEF SaveDevice
    <3>3. QED BY <1>2, <2>2, <2>4, <3>1, <3>2, TrackType DEF SaveDevice
  <2>5. CASE SendCommand(item)
    <3>1. item.val # Same => DOMAIN SetToBag({Item("update", item.dev, item.val)}) \subseteq Pieces
      BY <2>2, ItemType, ItemsOfSet
    <3>2. DOMAIN Remainder(item) \subseteq Pieces
      BY <3>1, EmptyBagType DEF Remainder
    <3>3. DOMAIN work' \subseteq Pieces
      BY <2>5, <3>2, ReplaceType, EmptyBagType DEF SendCommand
    <3>4. executed' \in [Devices -> Nat] /\ credit' \in [Ids -> Int]
      BY <2>2, <2>5 DEF SendCommand
    <3>5. QED BY <1>2, <2>5, <3>3, <3>4 DEF SendCommand
  <2>6. QED BY <1>6, <2>3, <2>4, <2>5 DEF Serve
<1>7. QED BY <1>2, <1>3, <1>4, <1>5, <1>6 DEF DeviceStep

-----------------------------------------------------------------------------
(* What a step of a handler does, seen from the scenarios waiting for it:  *)
(* it goes on with a queue, and nobody else moves.                         *)

Onward(p, queue) ==
  /\ proc' \in [Procs -> Op] /\ proc'[p].queue = queue
  /\ proc'[p].pc = "idle" => queue = {}
  /\ \A q \in Procs \ {p} : proc'[q] = proc[q] /\ seen'[q] = seen[q] /\ context'[q] = context[q]
  /\ proc'[p].pc # "idle" => context'[p] = context[p]

\* The rest of a queue is served next.
LEMMA DoneDoes ==
  ASSUME NEW o \in Op
  PROVE  /\ Done(o).queue = o.queue
         /\ Done(o).pc = IF o.queue = {} THEN "idle" ELSE "evaluate"
<1>1. CASE o.queue = {}
  BY <1>1 DEF Done, Idle
<1>2. CASE o.queue # {}
  BY <1>2 DEF Done, Idle
<1>3. QED BY <1>1, <1>2

LEMMA GotoDoes ==
  ASSUME AutoTyped, AutoTyped', NEW p \in Procs, NEW r, Goto(p, r), seen' = seen \/ \E v : seen' = [seen EXCEPT ![p] = v],
         For(p, context[p]), r.pc = "idle" => r.queue = {}
  PROVE  Onward(p, r.queue) /\ proc'[p] = r
<1>1. proc' \in [Procs -> Op] /\ proc \in [Procs -> Op]
  BY DEF AutoTyped, Typed, TypeOK
<1>2. proc'[p] = r /\ \A q \in Procs \ {p} : proc'[q] = proc[q]
  BY <1>1 DEF Goto
<1>3. \A q \in Procs \ {p} : seen'[q] = seen[q] /\ context'[q] = context[q]
  BY DEF For, AutoTyped, EvalTyped
<1>4. proc'[p].pc # "idle" => context'[p] = context[p]
  BY DEF For, AutoTyped, EvalTyped
<1>5. QED BY <1>1, <1>2, <1>3, <1>4 DEF Onward

-----------------------------------------------------------------------------
(* Types of the scenarios side.                                            *)

LEMMA ForType ==
  ASSUME EvalTyped, NEW p \in Procs, NEW why \in {"none", "tick", "update", "command"}, For(p, why)
  PROVE  context' \in [Procs -> {"none", "tick", "update", "command"}]
  BY DEF EvalTyped, For

LEMMA HearTyped ==
  ASSUME AutoTyped, NEW p \in Procs, NEW d \in Devices, NEW why \in {"update", "command"},
         Hear(p, d, why)
  PROVE  Typed' /\ EvalTyped' /\ due' \subseteq Ids
<1> DEFINE Q == {[id |-> i, doc |-> scenarios[i]] : i \in Triggered(d)}
           r == [Idle EXCEPT !.queue = Q]
<1>1. Q \in SUBSET Entry
  BY DEF Triggered, Entry, AutoTyped, Typed, TypeOK
<1>2. r \in Op
  BY <1>1, IdleType DEF Op, Idle
<1>3. Goto(p, Done(r))
  BY DEF Hear
<1> HIDE DEF r
<1>4. proc' \in [Procs -> Op] /\ \A q \in Procs : Shape(proc'[q])
  BY <1>2, <1>3, DoneType, GotoType DEF AutoTyped
<1>5. EvalTyped'
  BY ForType DEF Hear, EvalTyped, AutoTyped
<1>6. QED BY <1>4, <1>5 DEF Hear, AutoTyped, Typed, TypeOK, DevicesTyped

LEMMA AnnounceTyped ==
  ASSUME AutoTyped, NEW p \in Procs, NEW d \in Devices,
         OnDeviceUpdateCompleted(p, d) \/ OnDeviceCommandExecuted(p, d)
  PROVE  AutoTyped'
<1>1. Typed' /\ EvalTyped' /\ due' \subseteq Ids
  BY HearTyped DEF OnDeviceUpdateCompleted, OnDeviceCommandExecuted
<1>2. completed' \in [Devices -> Nat] /\ executed' \in [Devices -> Nat]
  BY DEF OnDeviceUpdateCompleted, OnDeviceCommandExecuted, AutoTyped, DevicesTyped
<1>3. QED BY <1>1, <1>2 DEF OnDeviceUpdateCompleted, OnDeviceCommandExecuted, AutoTyped, DevicesTyped

LEMMA TickTyped ==
  ASSUME AutoTyped, NEW p \in Procs, NEW n \in Names, Tick(p, n)
  PROVE  AutoTyped'
<1>1. Typed'
  BY ExecutionTyped DEF Tick, AutoTyped
<1>2. EvalTyped'
  BY ForType DEF Tick, AutoTyped, EvalTyped
<1>3. QED BY <1>1, <1>2 DEF Tick, AutoTyped, DevicesTyped, deviceVars

LEMMA CountTyped ==
  ASSUME AutoTyped, NEW p \in Procs, Count(p)
  PROVE  AutoTyped'
<1>1. Typed'
  BY UpdateTyped, RescheduleTyped DEF Count, AutoTyped
<1>2. context[p] \in {"none", "tick", "update", "command"}
  BY DEF AutoTyped, EvalTyped
<1>3. EvalTyped'
  BY <1>2, ForType DEF Count, AutoTyped, EvalTyped
<1>4. QED BY <1>1, <1>3 DEF Count, AutoTyped, DevicesTyped, deviceVars

\* The three ways a condition is evaluated.
Looks(p, e) == Append(seen[p].conditions, Holds(p, RuleOf(e).sources[Len(seen[p].conditions) + 1]))
Evaluating(p, e) == proc[p].pc = "evaluate" /\ e \in proc[p].queue /\ seen[p].entry \in {None, e}
Fails(p, e) == /\ Absent(RuleOf(e).sources[Len(seen[p].conditions) + 1])
               /\ Leave(p, e) /\ seen' = [seen EXCEPT ![p] = Nobody]
GoesOn(p, e) == /\ Len(Looks(p, e)) # Len(RuleOf(e).sources)
                /\ seen' = [seen EXCEPT ![p] = [entry |-> e, conditions |-> Looks(p, e)]]
                /\ UNCHANGED <<vars, deviceVars, due>>
Decides(p, e) ==
  /\ Len(Looks(p, e)) = Len(RuleOf(e).sources)
  /\ \/ Combined(RuleOf(e).logic, Looks(p, e)) /\ Act(p, e)
     \/ ~Combined(RuleOf(e).logic, Looks(p, e)) /\ Leave(p, e)
  /\ seen' = [seen EXCEPT ![p] = Nobody]

LEMMA EvaluateCases ==
  ASSUME NEW p, NEW e, Evaluate(p, e)
  PROVE  Evaluating(p, e) /\ For(p, context[p]) /\ (Fails(p, e) \/ GoesOn(p, e) \/ Decides(p, e))
  BY DEF Evaluate, Evaluating, Fails, GoesOn, Decides, LeaveOnError, Looks

\* An item is added for each action.
LEMMA ActsType ==
  ASSUME DevicesTyped, NEW A, A \subseteq Update,
         work' = work (+) SetToBag({Item("update", a.dev, a.val) : a \in A})
  PROVE  DOMAIN work' \subseteq Pieces
<1> DEFINE I == {Item("update", a.dev, a.val) : a \in A}
<1>1. ASSUME NEW a \in A PROVE Item("update", a.dev, a.val) \in Pieces
  BY CallsAssumption, ItemType DEF Update
<1>2. I \subseteq Pieces
  BY <1>1
<1> HIDE DEF I
<1>3. work' = work (+) SetToBag(I)
  BY DEF I
<1>4. DOMAIN (work (+) SetToBag(I)) = DOMAIN work \cup DOMAIN SetToBag(I)
  BY AddedItems
<1>5. DOMAIN work' = DOMAIN work \cup I
  BY <1>3, <1>4, ItemsOfSet
<1>6. QED BY <1>2, <1>5 DEF DevicesTyped

LEMMA EvaluateTyped ==
  ASSUME AutoTyped, NEW p \in Procs, NEW e \in proc[p].queue, Evaluate(p, e)
  PROVE  AutoTyped'
<1>1. e \in Entry /\ e.id \in Ids /\ e.doc \in Scenario /\ e.doc.name \in Names
  BY DEF AutoTyped, Typed, TypeOK, Op, Entry, Scenario
<1>2. Evaluating(p, e) /\ For(p, context[p]) /\ (Fails(p, e) \/ GoesOn(p, e) \/ Decides(p, e))
  BY EvaluateCases
<1>3. context' \in [Procs -> {"none", "tick", "update", "command"}]
  BY <1>2, ForType DEF AutoTyped, EvalTyped
<1>4. ASSUME Leave(p, e) PROVE Typed' /\ DevicesTyped'
  <2>1. Typed'
    BY <1>4, ExecutionTyped DEF Leave, AutoTyped
  <2>2. QED BY <1>4, <2>1 DEF Leave, AutoTyped, DevicesTyped, deviceVars
<1>5. ASSUME Act(p, e) PROVE Typed' /\ DevicesTyped'
  <2>1. Typed'
    BY <1>5, ExecutionTyped DEF Act, AutoTyped
  <2>2. DOMAIN work' \subseteq Pieces
    BY <1>1, <1>5, ActsType, RuleType DEF Act, RuleOf, AutoTyped
  <2>3. due' \subseteq Ids /\ credit' \in [Ids -> Int]
    BY <1>1, <1>5 DEF Act, AutoTyped, DevicesTyped
  <2>4. QED BY <1>5, <2>1, <2>2, <2>3 DEF Act, AutoTyped, DevicesTyped
<1>6. ASSUME seen' = [seen EXCEPT ![p] = Nobody] PROVE seen' \in [Procs -> Sight]
  BY <1>6, NobodyType DEF AutoTyped, EvalTyped
<1>7. CASE Fails(p, e)
  BY <1>3, <1>4, <1>6, <1>7 DEF Fails, AutoTyped, EvalTyped
<1>8. CASE Decides(p, e)
  BY <1>3, <1>4, <1>5, <1>6, <1>8 DEF Decides, AutoTyped, EvalTyped
<1>9. CASE GoesOn(p, e)
  <2>1. Holds(p, RuleOf(e).sources[Len(seen[p].conditions) + 1]) \in BOOLEAN
    BY DEF Holds
  <2>2. Looks(p, e) \in Seq(BOOLEAN)
    BY <2>1 DEF Looks, AutoTyped, EvalTyped, Sight
  <2>3. [entry |-> e, conditions |-> Looks(p, e)] \in Sight
    BY <1>1, <2>2 DEF Sight
  <2>4. seen' \in [Procs -> Sight]
    BY <1>9, <2>3 DEF GoesOn, AutoTyped, EvalTyped
  <2>5. Typed' /\ DevicesTyped'
    BY <1>9 DEF GoesOn, AutoTyped, Typed, TypeOK, DevicesTyped, vars, deviceVars, Shape, InGroups, Target
  <2>6. QED BY <1>3, <2>4, <2>5 DEF AutoTyped, EvalTyped
<1>10. QED BY <1>2, <1>7, <1>8, <1>9

-----------------------------------------------------------------------------
(* What holds of handlers and documents between their steps.  Documents    *)
(* are counted down and deactivated, and nothing else: the names by which  *)
(* rules are found stay, and a handler works on what is still there.       *)

Obedient(o) ==
  /\ o.pc = "read" => OnlyDeactivates(o.dto)
  /\ o.pc = "save" => o.new.name = o.old.name /\ (o.new.active => o.old.active)

Steady ==
  \A p \in Procs :
    /\ Obedient(proc[p])
    /\ proc[p].pc = "idle" => proc[p].queue = {}
    /\ \A e \in proc[p].queue : scenarios[e.id] # None /\ e.doc.name = scenarios[e.id].name
    /\ seen[p] = Nobody \/ (proc[p].pc = "evaluate" /\ seen[p].entry \in proc[p].queue)

Fixed ==
  \A i \in Ids :
    /\ scenarios'[i] = None <=> scenarios[i] = None
    /\ scenarios[i] # None => /\ scenarios'[i].name = scenarios[i].name
                              /\ scenarios'[i].active => scenarios[i].active

\* Reading the document again, to count an execution.
LEMMA ReadCountedDoes ==
  ASSUME AutoTyped, Steady, NEW p \in Procs, ReadCounted(p)
  PROVE  \E r \in Op : /\ Goto(p, r) /\ r.queue = proc[p].queue /\ Obedient(r)
                       /\ r.pc = "idle" => r.queue = {}
<1> DEFINE o == proc[p]
           c == [o EXCEPT !.kind = "count"]
<1>1. o \in Op /\ o.pc = "read" /\ o.id \in Ids /\ o.dto \in UpdateDto /\ OnlyDeactivates(o.dto)
  BY DEF ReadCounted, AutoTyped, Typed, TypeOK, Shape, Steady, Obedient
<1>2. c \in Op /\ c.queue = o.queue
  BY <1>1 DEF Op
<1>3. Goto(p, ReadForUpdate(c, o.id, o.dto))
  BY DEF ReadCounted
<1> HIDE DEF c
<1>4. CASE scenarios[o.id] = None
  <2>1. Goto(p, Done(c))
    BY <1>3, <1>4 DEF ReadForUpdate
  <2>2. Done(c) \in Op /\ Done(c).queue = o.queue /\ Done(c).pc = IF o.queue = {} THEN "idle" ELSE "evaluate"
    BY <1>2, DoneDoes, DoneType
  <2>3. QED BY <2>1, <2>2 DEF Obedient
<1>5. CASE scenarios[o.id] # None
  <2> DEFINE s == scenarios[o.id]
             n == Assign(s, o.dto)
             r == [c EXCEPT !.pc = "save", !.id = o.id, !.dto = None, !.old = s, !.new = n]
  <2>1. s \in Scenario
    BY <1>1, <1>5 DEF AutoTyped, Typed, TypeOK
  <2>2. n \in Scenario /\ Weaker(n, s)
    BY <1>1, <2>1, AssignType, AssignWeaker
  <2>3. Goto(p, r)
    BY <1>3, <1>5 DEF ReadForUpdate
  <2>4. r \in Op
    <3> HIDE DEF s, n
    <3> QED BY <1>1, <1>2, <2>1, <2>2 DEF Op
  <2>5. r.pc = "save" /\ r.queue = c.queue /\ r.old = s /\ r.new = n
    <3> HIDE DEF s, n
    <3> QED BY <1>2 DEF Op
  <2>6. Obedient(r)
    BY <2>2, <2>5 DEF Obedient, Weaker
  <2> HIDE DEF r
  <2>7. QED BY <1>2, <2>3, <2>4, <2>5, <2>6
<1>6. QED BY <1>4, <1>5

\* A save that counts down leaves the name, and never activates.
LEMMA SaveUpdateDoes ==
  ASSUME AutoTyped, Steady, NEW p \in Procs, SaveUpdate(p)
  PROVE  /\ Fixed
         /\ \E r \in Op : /\ Goto(p, r) /\ r.queue = proc[p].queue /\ Obedient(r)
                          /\ r.pc = "idle" => r.queue = {}
<1> DEFINE o == proc[p]
           j == [o EXCEPT !.pc = "job"]
           from == o.old.group
           to == o.new.group
           g == [o EXCEPT !.pc = "groupRead", !.leave = from, !.join = to]
           s == Merge(scenarios[o.id], o.old, o.new)
<1>1. /\ o \in Op /\ o.pc = "save" /\ o.id \in Ids /\ o.old \in Scenario /\ o.new \in Scenario
      /\ o.new.name = o.old.name /\ (o.new.active => o.old.active)
  BY DEF SaveUpdate, AutoTyped, Typed, TypeOK, Shape, Steady, Obedient
<1>2. from \in Groups \cup {None} /\ to \in Groups \cup {None}
  BY <1>1 DEF Scenario
<1>3. j \in Op /\ j.queue = o.queue /\ j.pc = "job"
  BY <1>1 DEF Op
<1>4. g \in Op /\ g.queue = o.queue /\ g.pc = "groupRead"
  <2> HIDE DEF o, from, to
  <2> QED BY <1>1, <1>2 DEF Op
<1>5. Done(o) \in Op /\ Done(o).queue = o.queue /\ Done(o).pc = IF o.queue = {} THEN "idle" ELSE "evaluate"
  BY <1>1, DoneDoes, DoneType
<1>6. Goto(p, Done(o)) \/ Goto(p, j) \/ Goto(p, g)
  BY DEF SaveUpdate
<1>7. \E r \in Op : /\ Goto(p, r) /\ r.queue = proc[p].queue /\ Obedient(r)
                    /\ r.pc = "idle" => r.queue = {}
  <2> HIDE DEF j, g
  <2> QED BY <1>3, <1>4, <1>5, <1>6 DEF Obedient
<1>8. Fixed
  <2>1. CASE UNCHANGED scenarios
    BY <2>1 DEF Fixed
  <2>2. CASE scenarios[o.id] # None /\ scenarios' = [scenarios EXCEPT ![o.id] = s]
    <3>1. scenarios[o.id] \in Scenario
      BY <1>1, <2>2 DEF AutoTyped, Typed, TypeOK
    <3>2. s \in Scenario /\ s # None
      BY <1>1, <3>1, MergeType, NoneAssumption
    <3>3. s.name = scenarios[o.id].name
      BY <1>1 DEF Merge
    <3>4. s.active => scenarios[o.id].active
      BY <1>1, <3>1 DEF Merge, Scenario
    <3> HIDE DEF s
    <3>5. scenarios \in [Ids -> Scenario \cup {None}]
      BY DEF AutoTyped, Typed, TypeOK
    <3> QED BY <1>1, <2>2, <3>2, <3>3, <3>4, <3>5 DEF Fixed
  <2>3. QED BY <2>1, <2>2 DEF SaveUpdate
<1>9. QED BY <1>7, <1>8

LEMMA RescheduleDoes ==
  ASSUME AutoTyped, NEW p \in Procs, Reschedule(p)
  PROVE  \E r \in Op : /\ Goto(p, r) /\ r.queue = proc[p].queue /\ Obedient(r)
                       /\ r.pc = "idle" => r.queue = {}
<1> DEFINE o == proc[p]
           b == [o EXCEPT !.pc = "rollback"]
<1>1. o \in Op
  BY DEF AutoTyped, Typed, TypeOK
<1>2. b \in Op /\ b.queue = o.queue /\ b.pc = "rollback"
  BY <1>1 DEF Op
<1>3. Done(o) \in Op /\ Done(o).queue = o.queue /\ Done(o).pc = IF o.queue = {} THEN "idle" ELSE "evaluate"
  BY <1>1, DoneDoes, DoneType
<1>4. Goto(p, Done(o)) \/ Goto(p, b)
  BY DEF Reschedule
<1> HIDE DEF b
<1>5. QED BY <1>2, <1>3, <1>4 DEF Obedient

LEMMA CountDoes ==
  ASSUME AutoTyped, AutoTyped', Steady, NEW p \in Procs, Count(p)
  PROVE  /\ Fixed /\ Onward(p, proc[p].queue) /\ seen[p] = Nobody /\ seen' = seen
         /\ Obedient(proc'[p])
<1>1. proc[p].pc \in {"read", "save", "job"}
  BY DEF Count, ReadCounted, SaveUpdate, Reschedule
<1>2. Fixed
  <2>1. CASE SaveUpdate(p)
    BY <2>1, SaveUpdateDoes
  <2>2. CASE UNCHANGED scenarios
    BY <2>2 DEF Fixed
  <2>3. QED BY <2>1, <2>2 DEF Count, ReadCounted, Reschedule
<1>3. \E r \in Op : /\ Goto(p, r) /\ r.queue = proc[p].queue /\ Obedient(r)
                    /\ r.pc = "idle" => r.queue = {}
  BY ReadCountedDoes, SaveUpdateDoes, RescheduleDoes DEF Count
<1>4. seen[p] = Nobody /\ seen' = seen /\ For(p, context[p])
  BY <1>1 DEF Steady, Count
<1>5. PICK r \in Op : /\ Goto(p, r) /\ r.queue = proc[p].queue /\ Obedient(r)
                      /\ r.pc = "idle" => r.queue = {}
  BY <1>3
<1>6. Onward(p, proc[p].queue) /\ proc'[p] = r
  BY <1>4, <1>5, GotoDoes
<1>7. QED BY <1>2, <1>4, <1>5, <1>6

\* The tick of a job serves one scenario; an event serves all that name the device.
LEMMA TickDoes ==
  ASSUME AutoTyped, AutoTyped', Steady, NEW p \in Procs, NEW n \in Names, Tick(p, n)
  PROVE  /\ proc[p].pc = "idle" /\ seen[p] = Nobody /\ seen' = seen /\ UNCHANGED scenarios
         /\ scenarios[jobs[n]] # None /\ jobs[n] \in Ids
         /\ proc'[p].pc = "evaluate" /\ proc'[p].queue = {[id |-> jobs[n], doc |-> scenarios[jobs[n]]]}
         /\ context'[p] = "tick"
         /\ \A q \in Procs \ {p} : proc'[q] = proc[q] /\ seen'[q] = seen[q] /\ context'[q] = context[q]
<1> DEFINE Q == {[id |-> jobs[n], doc |-> scenarios[jobs[n]]]}
           r == [Idle EXCEPT !.pc = "evaluate", !.queue = Q]
<1>1. /\ proc[p].pc = "idle" /\ Goto(p, r) /\ seen' = seen /\ UNCHANGED scenarios /\ For(p, "tick")
      /\ scenarios[jobs[n]] # None /\ jobs[n] # None
  BY DEF Tick, Fire
<1>2. r.pc = "evaluate" /\ r.queue = Q
  BY DEF Idle
<1>3. proc'[p] = r /\ \A q \in Procs \ {p} : proc'[q] = proc[q]
  <2> HIDE DEF r
  <2> QED BY <1>1 DEF Goto, AutoTyped, Typed, TypeOK
<1>4. context'[p] = "tick" /\ \A q \in Procs \ {p} : context'[q] = context[q]
  BY <1>1, <1>2, <1>3 DEF For, AutoTyped, EvalTyped
<1>5. seen[p] = Nobody
  BY <1>1 DEF Steady
<1>6. jobs[n] \in Ids
  BY <1>1 DEF AutoTyped, Typed, TypeOK
<1> HIDE DEF r
<1>7. QED BY <1>1, <1>2, <1>3, <1>4, <1>5, <1>6

LEMMA HearDoes ==
  ASSUME AutoTyped, AutoTyped', Steady, NEW p \in Procs, NEW d \in Devices, NEW why, Hear(p, d, why)
  PROVE  /\ proc[p].pc = "idle" /\ seen[p] = Nobody /\ seen' = seen /\ UNCHANGED scenarios
         /\ proc'[p].pc = IF Triggered(d) = {} THEN "idle" ELSE "evaluate"
         /\ proc'[p].queue = {[id |-> i, doc |-> scenarios[i]] : i \in Triggered(d)}
         /\ context'[p] = IF Triggered(d) = {} THEN "none" ELSE why
         /\ \A q \in Procs \ {p} : proc'[q] = proc[q] /\ seen'[q] = seen[q] /\ context'[q] = context[q]
<1> DEFINE Q == {[id |-> i, doc |-> scenarios[i]] : i \in Triggered(d)}
           o == [Idle EXCEPT !.queue = Q]
<1>1. /\ proc[p].pc = "idle" /\ Goto(p, Done(o)) /\ seen' = seen /\ UNCHANGED scenarios /\ For(p, why)
  BY DEF Hear
<1>2. o \in Op /\ o.queue = Q
  <2>1. Q \in SUBSET Entry
    BY DEF Triggered, Entry, AutoTyped, Typed, TypeOK
  <2> HIDE DEF Q
  <2>2. QED BY <2>1, IdleType DEF Op, Idle
<1>3. Done(o).queue = Q /\ Done(o).pc = IF Q = {} THEN "idle" ELSE "evaluate"
  <2> HIDE DEF o, Q
  <2> QED BY <1>2, DoneDoes
<1>4. proc'[p] = Done(o) /\ \A q \in Procs \ {p} : proc'[q] = proc[q]
  <2> HIDE DEF o
  <2> QED BY <1>1 DEF Goto, AutoTyped, Typed, TypeOK
<1>5. Q = {} <=> Triggered(d) = {}
  OBVIOUS
<1>6. /\ context'[p] = IF proc'[p].pc = "idle" THEN "none" ELSE why
      /\ \A q \in Procs \ {p} : context'[q] = context[q]
  BY <1>1 DEF For, AutoTyped, EvalTyped
<1>7. seen[p] = Nobody
  BY <1>1 DEF Steady
<1> HIDE DEF o
<1>8. QED BY <1>1, <1>3, <1>4, <1>5, <1>6, <1>7

\* An entry that has been executed, or has not, leaves the queue.
LEMMA LeavesDoes ==
  ASSUME AutoTyped, NEW p \in Procs, NEW e \in proc[p].queue, Execute(p, e) \/ SkipExecution(p, e)
  PROVE  \E r \in Op : /\ Goto(p, r) /\ r.queue = proc[p].queue \ {e} /\ Obedient(r)
                       /\ r.pc = "idle" => r.queue = {}
<1> DEFINE o == proc[p]
           rest == [o EXCEPT !.queue = @ \ {e}]
           i == e.id
           dec == Decrement(e.doc)
           r == [rest EXCEPT !.pc = "read", !.id = i, !.dto = dec]
<1>1. o \in Op /\ e.id \in Ids /\ e.doc \in Scenario
  BY DEF AutoTyped, Typed, TypeOK, Op, Entry
<1>2. rest \in Op /\ rest.queue = o.queue \ {e}
  BY <1>1 DEF Op
<1>3. Goto(p, Done(rest)) \/ (e.doc.repeat \in 1..MaxRepeat /\ Goto(p, r))
  BY DEF Execute, SkipExecution
<1> HIDE DEF rest
<1>4. /\ Done(rest) \in Op /\ Done(rest).queue = o.queue \ {e}
      /\ Done(rest).pc = IF rest.queue = {} THEN "idle" ELSE "evaluate"
  BY <1>2, DoneDoes, DoneType
<1>5. ASSUME e.doc.repeat \in 1..MaxRepeat
      PROVE  r \in Op /\ r.queue = o.queue \ {e} /\ r.pc = "read" /\ OnlyDeactivates(r.dto)
  <2>1. dec \in UpdateDto /\ OnlyDeactivates(dec) /\ i \in Ids
    BY <1>1, <1>5, DecrementType, DecrementOnlyDeactivates
  <2> HIDE DEF dec, i
  <2>2. QED BY <1>2, <2>1 DEF Op
<1> HIDE DEF r
<1>6. CASE Goto(p, Done(rest))
  BY <1>2, <1>4, <1>6 DEF Obedient
<1>7. CASE e.doc.repeat \in 1..MaxRepeat /\ Goto(p, r)
  BY <1>5, <1>7 DEF Obedient
<1>8. QED BY <1>3, <1>6, <1>7

LEMMA EvaluateDoes ==
  ASSUME AutoTyped, AutoTyped', Steady, NEW p \in Procs, NEW e \in proc[p].queue, Evaluate(p, e)
  PROVE  /\ UNCHANGED scenarios
         /\ \/ Fails(p, e) \/ Decides(p, e)
            => /\ Onward(p, proc[p].queue \ {e}) /\ seen'[p] = Nobody /\ Obedient(proc'[p])
         /\ GoesOn(p, e) =>
              /\ proc' = proc /\ context' = context
              /\ seen'[p] = [entry |-> e, conditions |-> Looks(p, e)]
              /\ \A q \in Procs \ {p} : seen'[q] = seen[q]
<1>1. Evaluating(p, e) /\ For(p, context[p]) /\ (Fails(p, e) \/ GoesOn(p, e) \/ Decides(p, e))
  BY EvaluateCases
<1>2. ASSUME Fails(p, e) \/ Decides(p, e)
      PROVE  /\ Onward(p, proc[p].queue \ {e}) /\ seen'[p] = Nobody /\ Obedient(proc'[p])
             /\ UNCHANGED scenarios
  <2>1. Execute(p, e) \/ SkipExecution(p, e)
    BY <1>2 DEF Fails, Decides, Act, Leave
  <2>2. seen' = [seen EXCEPT ![p] = Nobody]
    BY <1>2 DEF Fails, Decides
  <2>3. PICK r \in Op : /\ Goto(p, r) /\ r.queue = proc[p].queue \ {e} /\ Obedient(r)
                        /\ r.pc = "idle" => r.queue = {}
    BY <2>1, LeavesDoes
  <2>4. Onward(p, r.queue) /\ proc'[p] = r
    BY <1>1, <2>2, <2>3, GotoDoes
  <2>5. seen'[p] = Nobody
    BY <2>2 DEF AutoTyped, EvalTyped
  <2>6. UNCHANGED scenarios
    BY <2>1 DEF Execute, SkipExecution
  <2>7. QED BY <2>3, <2>4, <2>5, <2>6
<1>3. ASSUME GoesOn(p, e)
      PROVE  /\ proc' = proc /\ context' = context /\ UNCHANGED scenarios
             /\ seen'[p] = [entry |-> e, conditions |-> Looks(p, e)]
             /\ \A q \in Procs \ {p} : seen'[q] = seen[q]
  <2>1. /\ proc' = proc /\ UNCHANGED scenarios
        /\ seen' = [seen EXCEPT ![p] = [entry |-> e, conditions |-> Looks(p, e)]]
    BY <1>3 DEF GoesOn, vars
  <2>2. proc'[p].pc = "evaluate"
    BY <1>1, <2>1 DEF Evaluating
  <2>3. context' = context
    BY <1>1, <2>2 DEF For, AutoTyped, EvalTyped
  <2>4. QED BY <2>1, <2>3 DEF AutoTyped, EvalTyped
<1>4. QED BY <1>1, <1>2, <1>3

LEMMA SteadyKept ==
  ASSUME AutoTyped, Steady, Fixed, NEW p \in Procs,
         \A q \in Procs \ {p} : proc'[q] = proc[q] /\ seen'[q] = seen[q],
         Obedient(proc'[p]), proc'[p].pc = "idle" => proc'[p].queue = {},
         \A e \in proc'[p].queue : /\ e.id \in Ids /\ scenarios[e.id] # None
                                   /\ e.doc.name = scenarios[e.id].name,
         seen'[p] = Nobody \/ (proc'[p].pc = "evaluate" /\ seen'[p].entry \in proc'[p].queue)
  PROVE  Steady'
<1> SUFFICES ASSUME NEW q \in Procs
             PROVE  /\ Obedient(proc'[q])
                    /\ proc'[q].pc = "idle" => proc'[q].queue = {}
                    /\ \A e \in proc'[q].queue :
                         scenarios'[e.id] # None /\ e.doc.name = scenarios'[e.id].name
                    /\ \/ seen'[q] = Nobody
                       \/ proc'[q].pc = "evaluate" /\ seen'[q].entry \in proc'[q].queue
  BY DEF Steady, Obedient
<1>1. \A e \in proc[q].queue : e.id \in Ids
  BY DEF AutoTyped, Typed, TypeOK, Op, Entry
<1>2. CASE q = p
  BY <1>2 DEF Fixed
<1>3. CASE q # p
  <2>1. proc'[q] = proc[q] /\ seen'[q] = seen[q]
    BY <1>3
  <2>2. QED BY <1>1, <2>1 DEF Steady, Fixed
<1>4. QED BY <1>2, <1>3

LEMMA AutoCases ==
  ASSUME AutoNext
  PROVE  \/ DeviceStep
         \/ \E p \in Procs, d \in Devices :
              OnDeviceUpdateCompleted(p, d) \/ OnDeviceCommandExecuted(p, d)
         \/ \E p \in Procs, n \in Names : Tick(p, n)
         \/ \E p \in Procs : Count(p)
         \/ \E p \in Procs : \E e \in proc[p].queue : Evaluate(p, e)
<1>1. Free # {} => Handler \in Procs
  BY DEF Free, Handler
<1>2. ASSUME NEW d \in Devices, Announce(d)
      PROVE  \E p \in Procs : OnDeviceUpdateCompleted(p, d) \/ OnDeviceCommandExecuted(p, d)
  BY <1>1, <1>2 DEF Announce
<1>3. ASSUME NEW n \in Names, Strike(n) PROVE \E p \in Procs : Tick(p, n)
  BY <1>1, <1>3 DEF Strike
<1>4. QED BY <1>2, <1>3 DEF AutoNext, DeviceStep, Resume

LEMMA AutoNextTyped ==
  ASSUME AutoTyped, [AutoNext]_autoVars
  PROVE  AutoTyped'
<1>1. CASE UNCHANGED autoVars
  BY <1>1 DEF AutoTyped, Typed, TypeOK, DevicesTyped, EvalTyped, autoVars, vars, deviceVars,
     evalVars, Shape, InGroups, Target
<1>2. CASE AutoNext
  BY <1>2, AutoCases, DeviceStepTyped, AnnounceTyped, TickTyped, CountTyped, EvaluateTyped
<1>3. QED BY <1>1, <1>2

LEMMA SteadyStep ==
  ASSUME AutoTyped, AutoTyped', Steady, [AutoNext]_autoVars
  PROVE  Fixed /\ Steady'
<1>1. UNCHANGED scenarios => Fixed
  BY DEF Fixed
<1>2. CASE UNCHANGED <<vars, evalVars>>
  BY <1>2, <1>1 DEF Steady, Obedient, vars, evalVars
<1>3. \A i \in Ids : scenarios[i] # None => scenarios[i] \in Scenario
  BY DEF AutoTyped, Typed, TypeOK
<1>4. ASSUME NEW p \in Procs, NEW d \in Devices, NEW why, Hear(p, d, why) PROVE Fixed /\ Steady'
  <2>1. \A e \in proc'[p].queue : /\ e.id \in Ids /\ scenarios[e.id] # None
                                  /\ e.doc.name = scenarios[e.id].name
    BY <1>4, HearDoes DEF Triggered
  <2>2. /\ seen'[p] = Nobody /\ (proc'[p].pc = "idle" => proc'[p].queue = {})
        /\ Obedient(proc'[p])
    BY <1>4, HearDoes DEF Obedient
  <2>3. Fixed /\ \A q \in Procs \ {p} : proc'[q] = proc[q] /\ seen'[q] = seen[q]
    BY <1>1, <1>4, HearDoes
  <2>4. QED BY <2>1, <2>2, <2>3, SteadyKept
<1>5. ASSUME NEW p \in Procs, NEW n \in Names, Tick(p, n) PROVE Fixed /\ Steady'
  <2>1. \A e \in proc'[p].queue : /\ e.id \in Ids /\ scenarios[e.id] # None
                                  /\ e.doc.name = scenarios[e.id].name
    BY <1>5, TickDoes
  <2>2. seen'[p] = Nobody /\ proc'[p].pc = "evaluate" /\ Obedient(proc'[p])
    BY <1>5, TickDoes DEF Obedient
  <2>3. Fixed /\ \A q \in Procs \ {p} : proc'[q] = proc[q] /\ seen'[q] = seen[q]
    BY <1>1, <1>5, TickDoes
  <2>4. QED BY <2>1, <2>2, <2>3, SteadyKept
<1>6. ASSUME NEW p \in Procs PROVE \A e \in proc[p].queue : /\ e.id \in Ids /\ scenarios[e.id] # None
                                                          /\ e.doc.name = scenarios[e.id].name
  BY DEF Steady, AutoTyped, Typed, TypeOK, Op, Entry
<1>7. ASSUME NEW p \in Procs, NEW Q, Q \subseteq proc[p].queue, Onward(p, Q), Fixed,
             Obedient(proc'[p]), seen'[p] = Nobody
      PROVE  Fixed /\ Steady'
  <2>1. \A e \in proc'[p].queue : /\ e.id \in Ids /\ scenarios[e.id] # None
                                  /\ e.doc.name = scenarios[e.id].name
    BY <1>6, <1>7 DEF Onward
  <2>2. /\ (proc'[p].pc = "idle" => proc'[p].queue = {})
        /\ \A q \in Procs \ {p} : proc'[q] = proc[q] /\ seen'[q] = seen[q]
    BY <1>7 DEF Onward
  <2>3. QED BY <1>7, <2>1, <2>2, SteadyKept
<1>8. ASSUME NEW p \in Procs, Count(p) PROVE Fixed /\ Steady'
  <2>1. /\ Fixed /\ Onward(p, proc[p].queue) /\ seen'[p] = Nobody /\ Obedient(proc'[p])
    BY <1>8, CountDoes
  <2>2. QED BY <1>7, <2>1
<1>9. ASSUME NEW p \in Procs, NEW e \in proc[p].queue, Evaluate(p, e) PROVE Fixed /\ Steady'
  <2>1. Evaluating(p, e) /\ (Fails(p, e) \/ GoesOn(p, e) \/ Decides(p, e)) /\ Fixed
    BY <1>1, <1>9, EvaluateCases, EvaluateDoes
  <2>2. CASE Fails(p, e) \/ Decides(p, e)
    <3>1. Onward(p, proc[p].queue \ {e}) /\ seen'[p] = Nobody /\ Obedient(proc'[p])
      BY <1>9, <2>2, EvaluateDoes
    <3>2. QED BY <1>7, <2>1, <3>1
  <2>3. CASE GoesOn(p, e)
    <3>0. /\ proc' = proc /\ seen'[p] = [entry |-> e, conditions |-> Looks(p, e)]
          /\ \A q \in Procs \ {p} : seen'[q] = seen[q]
      BY <1>9, <2>3, EvaluateDoes
    <3>1. proc' = proc /\ seen'[p].entry = e /\ \A q \in Procs \ {p} : seen'[q] = seen[q]
      BY <3>0
    <3>2. proc'[p].pc = "evaluate" /\ seen'[p].entry \in proc'[p].queue
      BY <2>1, <3>1 DEF Evaluating
    <3>3. Obedient(proc'[p])
      BY <3>1 DEF Steady
    <3>4. QED BY <1>6, <2>1, <3>1, <3>2, <3>3, SteadyKept
  <2>4. QED BY <2>1, <2>2, <2>3
<1>10. CASE UNCHANGED autoVars
  BY <1>2, <1>10 DEF autoVars
<1>11. CASE AutoNext
  BY <1>2, <1>4, <1>5, <1>8, <1>9, <1>11, AutoCases, DeviceStepKeeps
     DEF OnDeviceUpdateCompleted, OnDeviceCommandExecuted
<1>12. QED BY <1>10, <1>11

-----------------------------------------------------------------------------
(* The conditions of a rule.  A rule of a stored scenario has sources, and *)
(* whoever evaluates one has some of them still to look at.                *)

Sourced ==
  /\ \A i \in Ids : scenarios[i] # None => Len(Sources(i)) > 0
  /\ \A p \in Procs : seen[p] # Nobody =>
       Len(seen[p].conditions) < Len(RuleOf(seen[p].entry).sources)

Sound == AutoTyped /\ Steady /\ Sourced

\* The entries of a queue, and the rules they are evaluated by.
LEMMA EntryFacts ==
  ASSUME Sound, NEW p \in Procs, NEW e \in proc[p].queue
  PROVE  /\ e \in Entry /\ e # None /\ e.id \in Ids /\ scenarios[e.id] # None
         /\ RuleOf(e) = home.rules[scenarios[e.id].name] /\ RuleOf(e).sources = Sources(e.id)
         /\ Sources(e.id) \in Seq(Source) /\ RuleOf(e).logic \in {"AND", "OR"}
<1>1. e \in Entry /\ e.id \in Ids /\ e.doc.name \in Names
  BY DEF Sound, AutoTyped, Typed, TypeOK, Op, Entry, Scenario
<1>2. scenarios[e.id] # None /\ e.doc.name = scenarios[e.id].name
  BY DEF Sound, Steady
<1>3. RuleOf(e) = home.rules[scenarios[e.id].name] /\ RuleOf(e).sources = Sources(e.id)
  BY <1>2 DEF RuleOf, Sources
<1>4. Sources(e.id) \in Seq(Source) /\ RuleOf(e).logic \in {"AND", "OR"}
  BY <1>1, <1>3, RuleType DEF Sound, AutoTyped, RuleOf
<1>5. QED BY <1>1, <1>2, <1>3, <1>4, EntryAssumption

LEMMA SourcesType ==
  ASSUME AutoTyped, NEW i \in Ids, scenarios[i] # None
  PROVE  /\ Sources(i) \in Seq(Source)
         /\ home.rules[scenarios[i].name].logic \in {"AND", "OR"}
<1>1. scenarios[i].name \in Names
  BY DEF AutoTyped, Typed, TypeOK, Scenario
<1>2. QED BY <1>1, RuleType DEF AutoTyped, Sources

\* Whoever evaluates an entry has begun with it, or begins now, and has a
\* source to look at.
LEMMA EvaluatingFacts ==
  ASSUME Sound, NEW p \in Procs, NEW e \in proc[p].queue, Evaluating(p, e)
  PROVE  /\ seen[p].entry = e \/ seen[p] = Nobody
         /\ seen[p].conditions \in Seq(BOOLEAN)
         /\ Len(seen[p].conditions) + 1 \in 1..Len(Sources(e.id))
         /\ seen[p] = Nobody => seen[p].conditions = <<>>
<1>1. seen[p].conditions \in Seq(BOOLEAN)
  BY DEF Sound, AutoTyped, EvalTyped, Sight
<1>2. seen[p].entry = e \/ seen[p] = Nobody
  <2>1. seen[p] # Nobody => seen[p].entry \in proc[p].queue
    BY DEF Sound, Steady
  <2>2. seen[p] # Nobody => seen[p].entry # None
    BY <2>1, EntryFacts
  <2>3. QED BY <2>2 DEF Evaluating
<1>3. Sources(e.id) \in Seq(Source) /\ Len(Sources(e.id)) > 0
  BY EntryFacts DEF Sound, Sourced
<1>4. CASE seen[p] = Nobody
  BY <1>3, <1>4 DEF Nobody
<1>5. CASE seen[p] # Nobody
  <2>1. Len(seen[p].conditions) < Len(Sources(e.id))
    BY <1>2, <1>5, EntryFacts DEF Sound, Sourced
  <2>2. QED BY <1>1, <1>2, <1>3, <1>5, <2>1
<1>6. QED BY <1>1, <1>2, <1>4, <1>5

LEMMA LooksFacts ==
  ASSUME Sound, NEW p \in Procs, NEW e \in proc[p].queue, Evaluating(p, e)
  PROVE  /\ Looks(p, e) \in Seq(BOOLEAN) /\ Len(Looks(p, e)) = Len(seen[p].conditions) + 1
         /\ \A k \in 1..Len(seen[p].conditions) : Looks(p, e)[k] = seen[p].conditions[k]
         /\ Looks(p, e)[Len(seen[p].conditions) + 1]
              = Holds(p, Sources(e.id)[Len(seen[p].conditions) + 1])
<1>1. seen[p].conditions \in Seq(BOOLEAN)
  BY EvaluatingFacts
<1>2. Holds(p, RuleOf(e).sources[Len(seen[p].conditions) + 1]) \in BOOLEAN
  BY DEF Holds
<1>3. RuleOf(e).sources = Sources(e.id)
  BY EntryFacts
<1>4. QED BY <1>1, <1>2, <1>3 DEF Looks

LEMMA SourcedInit == AutoInit => Sourced
<1> SUFFICES ASSUME AutoInit PROVE Sourced
  OBVIOUS
<1>1. home \in Homes /\ seen = [p \in Procs |-> Nobody]
  BY DEF AutoInit
<1>2. ASSUME NEW i \in Ids, scenarios[i] # None PROVE Len(Sources(i)) > 0
  <2>1. scenarios[i] \in Scenario
    BY <1>2, InputAssumption DEF AutoInit, Init
  <2>2. HasCron(scenarios[i]) \/ HasDevice(scenarios[i])
    BY <2>1 DEF HasCron, HasDevice, Scenario, Triggers
  <2>3. \E k : k \in DOMAIN Sources(i)
    BY <1>2, <2>2 DEF AutoInit, Refers
  <2>4. Sources(i) \in Seq(Source)
    BY <1>1, <2>1, HomesAssumption DEF Sources, Scenario
  <2>5. QED BY <2>3, <2>4
<1>3. QED BY <1>1, <1>2 DEF Sourced

\* Rules stay what they are.
LEMMA RulesStay ==
  ASSUME Fixed, home' = home, NEW i \in Ids, scenarios[i] # None
  PROVE  /\ Sources(i)' = Sources(i) /\ scenarios'[i] # None
         /\ home'.rules[scenarios'[i].name] = home.rules[scenarios[i].name]
         /\ \A d : Refers(i, d)' <=> Refers(i, d)
         /\ \A d : AwaitsCommand(i, d)' <=> AwaitsCommand(i, d)
<1>1. scenarios'[i].name = scenarios[i].name /\ scenarios'[i] # None
  BY DEF Fixed
<1>2. Sources(i)' = Sources(i)
  BY <1>1 DEF Sources
<1>3. QED BY <1>1, <1>2 DEF Refers, AwaitsCommand

LEMMA HomeStays == [AutoNext]_autoVars => home' = home
<1>1. ASSUME NEW p \in Procs, NEW e \in proc[p].queue, Evaluate(p, e) PROVE home' = home
  BY <1>1, EvaluateCases DEF Fails, GoesOn, Decides, Act, Leave, deviceVars
<1>2. QED BY <1>1, AutoCases, DeviceStepKeeps DEF OnDeviceUpdateCompleted, OnDeviceCommandExecuted, Tick,
     Count, autoVars, deviceVars

LEMMA SourcedStep ==
  ASSUME Sound, AutoTyped', Steady', Fixed, [AutoNext]_autoVars
  PROVE  Sourced'
<1>1. home' = home
  BY HomeStays
<1>2. ASSUME NEW i \in Ids, scenarios'[i] # None PROVE Len(Sources(i)') > 0
  <2>1. scenarios[i] # None
    BY <1>2 DEF Fixed
  <2>2. QED BY <1>1, <2>1, RulesStay DEF Sound, Sourced
<1>3. ASSUME NEW p \in Procs, seen'[p] # Nobody
      PROVE  Len(seen'[p].conditions) < Len(RuleOf(seen'[p].entry).sources)
  <2>1. CASE seen'[p] = seen[p]
    BY <1>3, <2>1 DEF Sound, Sourced
  <2>2. ASSUME NEW e \in proc[p].queue, Evaluating(p, e), GoesOn(p, e)
        PROVE  Len(seen'[p].conditions) < Len(RuleOf(seen'[p].entry).sources)
    <3>1. seen'[p] = [entry |-> e, conditions |-> Looks(p, e)]
      BY <2>2 DEF GoesOn, Sound, AutoTyped, EvalTyped
    <3>2. seen'[p].conditions = Looks(p, e) /\ seen'[p].entry = e
      BY <3>1
    <3>3. /\ Len(Looks(p, e)) = Len(seen[p].conditions) + 1
          /\ Len(seen[p].conditions) + 1 \in 1..Len(Sources(e.id))
          /\ RuleOf(e).sources = Sources(e.id) /\ Sources(e.id) \in Seq(Source)
      BY <2>2, LooksFacts, EvaluatingFacts, EntryFacts
    <3>4. Len(Looks(p, e)) # Len(Sources(e.id))
      BY <2>2, <3>3 DEF GoesOn
    <3>5. QED BY <3>2, <3>3, <3>4
  <2>3. ASSUME NEW q \in Procs, NEW e \in proc[q].queue, Evaluate(q, e)
        PROVE  \/ seen'[p] = seen[p]
               \/ seen'[p] = Nobody
               \/ q = p /\ Evaluating(p, e) /\ GoesOn(p, e)
    BY <2>3, EvaluateCases DEF Fails, GoesOn, Decides, Sound, AutoTyped, EvalTyped
  <2>4. CASE UNCHANGED seen
    BY <2>1, <2>4
  <2>5. \/ UNCHANGED seen
        \/ \E q \in Procs : \E e \in proc[q].queue : Evaluate(q, e)
    BY AutoCases, DeviceStepKeeps DEF OnDeviceUpdateCompleted, OnDeviceCommandExecuted, Hear,
       Tick, Count, autoVars, evalVars
  <2>6. QED BY <1>3, <2>1, <2>2, <2>3, <2>4, <2>5
<1>4. ASSUME NEW p \in Procs, seen'[p] # Nobody
      PROVE  Len(seen'[p].conditions) < Len(home'.rules[seen'[p].entry.doc.name].sources)
  BY <1>1, <1>3, <1>4 DEF RuleOf
<1>5. QED BY <1>2, <1>4 DEF Sourced, RuleOf

-----------------------------------------------------------------------------
(* Scenarios react.  A scenario that is due has its conditions met by what *)
(* is stored; and if it is active, then the update that met them has still *)
(* to be heard of, or a handler has still to decide about the scenario and *)
(* has so far found true whatever is true now.                             *)

Holding(i, k) ==
  Sources(i)[k].kind = "controls" /\ stored[Sources(i)[k].dev] = Sources(i)[k].is
Awake(i) == \E d \in Devices : Refers(i, d) /\ completed[d] > 0
Open(p, i, e) ==
  /\ e \in proc[p].queue /\ e.id = i
  /\ seen[p].entry = e => \A k \in DOMAIN seen[p].conditions \cap DOMAIN Sources(i) :
                            Holding(i, k) => seen[p].conditions[k]
Opened(i) == \E p \in Procs : \E e \in proc[p].queue : Open(p, i, e)

Reacting ==
  \A i \in due : /\ scenarios[i] # None /\ MetBy(i, stored)
                 /\ scenarios[i].active => Awake(i) \/ Opened(i)

\* A device a scenario does not name does not matter to it.
LEMMA Unconcerned ==
  ASSUME AutoTyped, NEW i \in Ids, scenarios[i] # None, NEW d0 \in Devices, NEW new,
         \A d \in Devices \ {d0} : new[d] = stored[d], ~Refers(i, d0)
  PROVE  /\ MetBy(i, new) <=> MetBy(i, stored)
         /\ \A k \in DOMAIN Sources(i) :
              Sources(i)[k].kind = "controls" => new[Sources(i)[k].dev] = stored[Sources(i)[k].dev]
<1>1. Sources(i) \in Seq(Source)
  BY SourcesType
<1>2. ASSUME NEW k \in DOMAIN Sources(i), Sources(i)[k].kind = "controls"
      PROVE  new[Sources(i)[k].dev] = stored[Sources(i)[k].dev]
  <2>1. Sources(i)[k] \in Source
    BY <1>1
  <2>2. Sources(i)[k].dev \in Devices /\ Sources(i)[k].dev # d0
    BY <1>2, <2>1 DEF Source, Refers
  <2>3. QED BY <2>2
<1>3. \A d \in Devices : Refers(i, d) => new[d] = stored[d]
  OBVIOUS
<1> DEFINE F(st) == [k \in DOMAIN Sources(i) |->
                       Sources(i)[k].kind = "controls" /\ st[Sources(i)[k].dev] = Sources(i)[k].is]
<1>4. F(new) = F(stored)
  BY <1>2
<1>5. MetBy(i, new) <=> /\ \A d \in Devices : Refers(i, d) => new[d] # Gone
                        /\ Combined(home.rules[scenarios[i].name].logic, F(new))
  BY DEF MetBy
<1>6. MetBy(i, stored) <=> /\ \A d \in Devices : Refers(i, d) => stored[d] # Gone
                           /\ Combined(home.rules[scenarios[i].name].logic, F(stored))
  BY DEF MetBy
<1> HIDE DEF F
<1>7. QED BY <1>2, <1>3, <1>4, <1>5, <1>6

\* What a scenario waits for is said by its name and what is stored.
LEMMA MetStays ==
  ASSUME AutoTyped, Fixed, home' = home, NEW i \in Ids, scenarios[i] # None
  PROVE  MetBy(i, stored)' <=> MetBy(i, stored')
<1>1. scenarios'[i].name = scenarios[i].name /\ Sources(i)' = Sources(i)
  BY RulesStay DEF Fixed, Sources
<1>2. \A d \in Devices : Refers(i, d)' <=> Refers(i, d)
  BY RulesStay
<1>3. QED BY <1>1, <1>2 DEF MetBy

\* A handler that does not move, or goes on without looking, decides later.
LEMMA OpenStays ==
  ASSUME Sound, Fixed, home' = home, NEW i \in Ids, scenarios[i] # None,
         NEW p \in Procs, NEW e, Open(p, i, e), e \in proc'[p].queue,
         \/ seen'[p] = Nobody
         \/ /\ seen'[p] = seen[p]
            /\ \A k \in DOMAIN Sources(i) : Holding(i, k)' => Holding(i, k)
  PROVE  Open(p, i, e)'
<1>1. Sources(i)' = Sources(i)
  BY RulesStay
<1>2. e # None
  BY EntryFacts DEF Open
<1>3. CASE seen'[p] = Nobody
  BY <1>2, <1>3 DEF Open, Nobody
<1>4. CASE seen'[p] = seen[p]
  BY <1>1, <1>4, <1>2 DEF Open, Nobody
<1>5. QED BY <1>3, <1>4

\* DevicesService changes at most one device, and says so to the scenarios
\* that name it; it deletes a device only from under them.
LEMMA DeviceStepReacting ==
  ASSUME Sound, AutoTyped', Reacting, Fixed, home' = home, DeviceStep
  PROVE  Reacting'
<1>0. UNCHANGED <<scenarios, proc, seen>>
  BY DeviceStepKeeps DEF vars, evalVars
<1>1. /\ stored \in [Devices -> Values \cup {Gone}] /\ completed \in [Devices -> Nat] /\ due \subseteq Ids
  BY DEF Sound, AutoTyped, DevicesTyped
<1>2. ASSUME NEW i \in Ids, scenarios[i] # None, i \in due,
             \A k \in DOMAIN Sources(i) : Holding(i, k)' => Holding(i, k),
             \A d \in Devices : completed'[d] >= completed[d]
      PROVE  scenarios'[i].active => Awake(i)' \/ Opened(i)'
  <2>1. scenarios'[i].active => Awake(i) \/ Opened(i)
    BY <1>0, <1>2 DEF Reacting
  <2>2. \A d \in Devices : Refers(i, d)' <=> Refers(i, d)
    BY <1>2, RulesStay
  <2>3. Awake(i) => Awake(i)'
    <3>1. \A d \in Devices : completed[d] \in Nat /\ completed'[d] \in Nat
      BY DEF Sound, AutoTyped, DevicesTyped
    <3>2. \A d \in Devices : completed[d] > 0 => completed'[d] > 0
      BY <1>2, <3>1
    <3>3. QED BY <2>2, <3>2 DEF Awake
  <2>4. ASSUME NEW p \in Procs, NEW e \in proc[p].queue, Open(p, i, e)
        PROVE  Open(p, i, e)' /\ e \in proc'[p].queue
    BY <1>0, <1>2, <2>4, OpenStays
  <2>5. Opened(i) => Opened(i)'
    BY <2>4 DEF Opened
  <2>6. QED BY <2>1, <2>3, <2>5
<1>3. CASE UNCHANGED <<stored, completed, due>>
  <2>1. ASSUME NEW i \in due' PROVE /\ i \in Ids /\ scenarios[i] # None /\ i \in due
                                    /\ MetBy(i, stored')
    BY <1>1, <1>3, <2>1 DEF Reacting
  <2>2. ASSUME NEW i \in due' PROVE \A k \in DOMAIN Sources(i) : Holding(i, k)' => Holding(i, k)
    <3>1. Sources(i)' = Sources(i)
      BY <2>1, RulesStay
    <3>2. QED BY <1>3, <3>1 DEF Holding
  <2>3. \A d \in Devices : completed'[d] >= completed[d]
    BY <1>1, <1>3
  <2>4. ASSUME NEW i \in due'
        PROVE  /\ scenarios'[i] # None /\ MetBy(i, stored)'
               /\ scenarios'[i].active => Awake(i)' \/ Opened(i)'
    BY <1>0, <1>2, <2>1, <2>2, <2>3, MetStays DEF Sound
  <2>5. QED BY <2>4 DEF Reacting
<1>4. ASSUME NEW d0 \in Devices, Track(stored'),
             \A d \in Devices \ {d0} : stored'[d] = stored[d],
             \A d \in Devices : completed'[d] >= completed[d],
             completed'[d0] > 0 \/ stored'[d0] = Gone
      PROVE  Reacting'
  <2>1. ASSUME NEW i \in due'
        PROVE  /\ i \in Ids /\ scenarios[i] # None /\ MetBy(i, stored')
               /\ i \in due \/ ~MetBy(i, stored)
    BY <1>4, <2>1 DEF Track
  <2>2. ASSUME NEW i \in due', Refers(i, d0), scenarios'[i].active PROVE Awake(i)'
    <3>1. stored'[d0] # Gone
      BY <2>1, <2>2 DEF MetBy
    <3>2. Refers(i, d0)'
      BY <2>1, <2>2, RulesStay
    <3>3. QED BY <1>4, <3>1, <3>2 DEF Awake
  <2>3. ASSUME NEW i \in due', ~Refers(i, d0), scenarios'[i].active PROVE Awake(i)' \/ Opened(i)'
    <3>1. /\ MetBy(i, stored') <=> MetBy(i, stored)
          /\ \A k \in DOMAIN Sources(i) :
               Sources(i)[k].kind = "controls" => stored'[Sources(i)[k].dev] = stored[Sources(i)[k].dev]
      BY <1>4, <2>1, <2>3, Unconcerned DEF Sound
    <3>2. i \in due
      BY <2>1, <3>1
    <3>3. Sources(i)' = Sources(i)
      BY <2>1, RulesStay
    <3>4. \A k \in DOMAIN Sources(i) : Holding(i, k)' => Holding(i, k)
      BY <3>1, <3>3 DEF Holding
    <3>5. QED BY <1>2, <1>4, <2>1, <2>3, <3>2, <3>4
  <2>4. ASSUME NEW i \in due'
        PROVE  /\ scenarios'[i] # None /\ MetBy(i, stored)'
               /\ scenarios'[i].active => Awake(i)' \/ Opened(i)'
    BY <1>0, <2>1, <2>2, <2>3, MetStays DEF Sound
  <2>5. QED BY <2>4 DEF Reacting
<1>5. ASSUME NEW call \in home.calls, RemoveDevice(call) PROVE Reacting'
  <2>1. call.dev \in Devices
    BY CallType DEF Call, Sound, AutoTyped
  <2>2. /\ stored' = [stored EXCEPT ![call.dev] = Gone] /\ Track(stored') /\ completed' = completed
    BY <1>5 DEF RemoveDevice
  <2>3. /\ \A d \in Devices \ {call.dev} : stored'[d] = stored[d]
        /\ \A d \in Devices : completed'[d] >= completed[d]
        /\ stored'[call.dev] = Gone
    BY <1>1, <2>1, <2>2
  <2>4. QED BY <1>4, <2>1, <2>2, <2>3
<1>6. ASSUME NEW item \in BagToSet(work), SaveDevice(item) PROVE Reacting'
  <2>1. item.dev \in Devices
    BY DEF BagToSet, Pieces, Piece, Sound, AutoTyped, DevicesTyped
  <2>2. CASE UNCHANGED <<stored, completed, due>>
    BY <1>3, <2>2
  <2>3. CASE /\ Track(stored') /\ completed' = [completed EXCEPT ![item.dev] = @ + 1]
             /\ stored' = stored \/ stored' = [stored EXCEPT ![item.dev] = item.val]
    <3>1. \A d \in Devices \ {item.dev} : stored'[d] = stored[d]
      BY <1>1, <2>1, <2>3
    <3>2. completed'[item.dev] > 0 /\ \A d \in Devices : completed'[d] >= completed[d]
      BY <1>1, <2>1, <2>3
    <3>3. QED BY <1>4, <2>1, <2>3, <3>1, <3>2
  <2>4. QED BY <1>6, <2>2, <2>3 DEF SaveDevice
<1>7. \/ UNCHANGED <<stored, completed, due>>
      \/ \E call \in home.calls : RemoveDevice(call)
      \/ \E item \in BagToSet(work) : SaveDevice(item)
  BY DEF DeviceStep, SubmitWork, Refuse, Serve, ReadDevice, SendCommand
<1>8. QED BY <1>3, <1>5, <1>6, <1>7

\* What has been looked at is true of what is met.
LEMMA LooksTrue ==
  ASSUME Sound, NEW p \in Procs, NEW e \in proc[p].queue, Evaluating(p, e), Open(p, e.id, e)
  PROVE  \A k \in DOMAIN Looks(p, e) \cap DOMAIN Sources(e.id) :
           Holding(e.id, k) => Looks(p, e)[k]
<1> DEFINE n == Len(seen[p].conditions)
<1>1. /\ Looks(p, e) \in Seq(BOOLEAN) /\ Len(Looks(p, e)) = n + 1
      /\ \A k \in 1..n : Looks(p, e)[k] = seen[p].conditions[k]
      /\ Looks(p, e)[n + 1] = Holds(p, Sources(e.id)[n + 1])
  BY LooksFacts
<1>2. /\ seen[p].entry = e \/ seen[p] = Nobody
      /\ seen[p].conditions \in Seq(BOOLEAN)
      /\ seen[p] = Nobody => seen[p].conditions = <<>>
  BY EvaluatingFacts
<1>3. n \in Nat /\ DOMAIN Looks(p, e) = 1..(n + 1) /\ DOMAIN seen[p].conditions = 1..n
  BY <1>1, <1>2
<1>4. ASSUME NEW k \in 1..n, k \in DOMAIN Sources(e.id), Holding(e.id, k) PROVE Looks(p, e)[k]
  <2>1. seen[p].entry = e
    BY <1>2, <1>4
  <2>2. seen[p].conditions[k]
    BY <1>3, <1>4, <2>1 DEF Open
  <2>3. QED BY <1>1, <1>4, <2>2
<1>5. Holding(e.id, n + 1) => Looks(p, e)[n + 1]
  BY <1>1 DEF Holding, Holds
<1> HIDE DEF n
<1>6. ASSUME NEW k \in 1..(n + 1) PROVE k \in 1..n \/ k = n + 1
  BY <1>3, <1>6
<1>7. QED BY <1>3, <1>4, <1>5, <1>6

\* A handler that finds a device gone, or the conditions not met, has not left
\* behind a scenario that was due on its account.
LEMMA LeavesNone ==
  ASSUME Sound, NEW p \in Procs, NEW e \in proc[p].queue, Evaluating(p, e), Open(p, e.id, e),
         MetBy(e.id, stored)
  PROVE  /\ ~Fails(p, e)
         /\ Len(Looks(p, e)) = Len(RuleOf(e).sources) => Combined(RuleOf(e).logic, Looks(p, e))
<1> DEFINE S == Sources(e.id)
           F == [k \in DOMAIN S |-> S[k].kind = "controls" /\ stored[S[k].dev] = S[k].is]
<1>1. /\ S \in Seq(Source) /\ RuleOf(e).sources = S /\ scenarios[e.id] # None /\ e.id \in Ids
      /\ RuleOf(e) = home.rules[scenarios[e.id].name] /\ RuleOf(e).logic \in {"AND", "OR"}
  BY EntryFacts
<1>2. /\ \A d \in Devices : Refers(e.id, d) => stored[d] # Gone
      /\ Combined(RuleOf(e).logic, F)
  BY <1>1 DEF MetBy
<1>3. ~Fails(p, e)
  <2> SUFFICES ASSUME Fails(p, e) PROVE FALSE
    OBVIOUS
  <2> DEFINE n == Len(seen[p].conditions) + 1
  <2>1. n \in DOMAIN S
    BY <1>1, EvaluatingFacts
  <2>2. S[n] \in Source /\ S[n].kind # "cron" /\ stored[S[n].dev] = Gone
    BY <1>1, <2>1 DEF Fails, Absent
  <2>3. S[n].dev \in Devices /\ Refers(e.id, S[n].dev)
    BY <2>1, <2>2 DEF Source, Refers
  <2>4. QED BY <1>2, <2>2, <2>3
<1>4. ASSUME Len(Looks(p, e)) = Len(RuleOf(e).sources) PROVE Combined(RuleOf(e).logic, Looks(p, e))
  <2>1. Looks(p, e) \in Seq(BOOLEAN)
    BY LooksFacts
  <2>2. DOMAIN Looks(p, e) = DOMAIN S
    BY <1>1, <1>4, <2>1
  <2>3. \A k \in DOMAIN S : F[k] => Looks(p, e)[k]
    BY <2>2, LooksTrue DEF Holding
  <2>4. DOMAIN F = DOMAIN S
    OBVIOUS
  <2> HIDE DEF F, S
  <2>5. QED BY <1>1, <1>2, <2>2, <2>3, <2>4 DEF Combined
<1>5. QED BY <1>3, <1>4

\* The steps of handlers.  Each but the last condition of a scenario leaves
\* due what is due, and somebody to decide about it.
LEMMA HandlerReacting ==
  ASSUME Sound, Reacting, Fixed, home' = home, stored' = stored,
         \A i \in due' : /\ i \in due
                         /\ scenarios'[i].active /\ (Awake(i) \/ Opened(i)) => Awake(i)' \/ Opened(i)'
  PROVE  Reacting'
<1> SUFFICES ASSUME NEW i \in due'
             PROVE  /\ scenarios'[i] # None /\ MetBy(i, stored)'
                    /\ scenarios'[i].active => Awake(i)' \/ Opened(i)'
  BY DEF Reacting
<1>1. i \in due /\ i \in Ids /\ scenarios[i] # None /\ MetBy(i, stored)
      /\ (scenarios[i].active => Awake(i) \/ Opened(i))
  BY DEF Sound, AutoTyped, DevicesTyped, Reacting
<1>2. scenarios'[i] # None /\ (scenarios'[i].active => scenarios[i].active)
  BY <1>1 DEF Fixed
<1>3. MetBy(i, stored)'
  BY <1>1, MetStays DEF Sound
<1>4. QED BY <1>1, <1>2, <1>3

\* The handlers that do not move.
LEMMA OthersOpen ==
  ASSUME Sound, Fixed, home' = home, stored' = stored, NEW i \in Ids, scenarios[i] # None,
         NEW p \in Procs, NEW q \in Procs, q # p, NEW e \in proc[q].queue, Open(q, i, e),
         \A r \in Procs \ {p} : proc'[r] = proc[r] /\ seen'[r] = seen[r]
  PROVE  e \in proc'[q].queue /\ Open(q, i, e)'
<1>1. proc'[q] = proc[q] /\ seen'[q] = seen[q]
  OBVIOUS
<1>2. Sources(i)' = Sources(i)
  BY RulesStay
<1>3. \A k \in DOMAIN Sources(i) : Holding(i, k)' => Holding(i, k)
  BY <1>2 DEF Holding
<1>4. e \in proc'[q].queue
  BY <1>1
<1>5. QED BY <1>1, <1>3, <1>4, OpenStays

LEMMA AwakeStays ==
  ASSUME Fixed, home' = home, NEW i \in Ids, scenarios[i] # None, Awake(i), completed' = completed
  PROVE  Awake(i)'
<1>1. \A d : Refers(i, d)' <=> Refers(i, d)
  BY RulesStay
<1>2. QED BY <1>1 DEF Awake

\* A handler that begins had nothing to decide, so it closes nothing.
LEMMA BeginsReacting ==
  ASSUME Sound, Reacting, Fixed, home' = home, stored' = stored, due' = due, NEW p \in Procs,
         proc[p].pc = "idle", \A r \in Procs \ {p} : proc'[r] = proc[r] /\ seen'[r] = seen[r],
         \A i \in due : scenarios'[i].active /\ Awake(i) => Awake(i)' \/ Opened(i)'
  PROVE  Reacting'
<1>1. proc[p].queue = {}
  BY DEF Sound, Steady
<1>2. ASSUME NEW i \in due, Opened(i) PROVE Opened(i)'
  <2>1. i \in Ids /\ scenarios[i] # None
    BY DEF Sound, AutoTyped, DevicesTyped, Reacting
  <2>2. PICK q \in Procs : \E e \in proc[q].queue : Open(q, i, e)
    BY <1>2 DEF Opened
  <2>3. PICK e \in proc[q].queue : Open(q, i, e)
    BY <2>2
  <2>4. q # p
    BY <1>1, <2>3
  <2>5. e \in proc'[q].queue /\ Open(q, i, e)'
    BY <2>1, <2>3, <2>4, OthersOpen
  <2>6. QED BY <2>5 DEF Opened
<1>3. QED BY <1>2, HandlerReacting

LEMMA HearReacting ==
  ASSUME Sound, AutoTyped', Reacting, Fixed, home' = home, NEW p \in Procs, NEW d \in Devices,
         OnDeviceUpdateCompleted(p, d) \/ OnDeviceCommandExecuted(p, d)
  PROVE  Reacting'
<1>1. PICK why : Hear(p, d, why)
  BY DEF OnDeviceUpdateCompleted, OnDeviceCommandExecuted
<1>2. /\ stored' = stored /\ due' = due
      /\ completed' = completed \/ completed' = [completed EXCEPT ![d] = @ - 1]
  BY DEF OnDeviceUpdateCompleted, OnDeviceCommandExecuted, Hear
<1>3. /\ proc[p].pc = "idle" /\ seen'[p] = Nobody /\ scenarios' = scenarios
      /\ proc'[p].queue = {[id |-> i, doc |-> scenarios[i]] : i \in Triggered(d)}
      /\ \A r \in Procs \ {p} : proc'[r] = proc[r] /\ seen'[r] = seen[r]
  BY <1>1, HearDoes DEF Sound
<1>4. ASSUME NEW i \in due, scenarios'[i].active, Awake(i) PROVE Awake(i)' \/ Opened(i)'
  <2>1. i \in Ids /\ scenarios[i] # None
    BY DEF Sound, AutoTyped, DevicesTyped, Reacting
  <2>2. \A x : Refers(i, x)' <=> Refers(i, x)
    BY <2>1, RulesStay
  <2>3. PICK x \in Devices : Refers(i, x) /\ completed[x] > 0
    BY <1>4 DEF Awake
  <2>4. CASE x # d
    <3>1. completed'[x] = completed[x]
      BY <1>2, <2>4 DEF Sound, AutoTyped, DevicesTyped
    <3>2. QED BY <2>2, <2>3, <3>1 DEF Awake
  <2>5. CASE x = d
    <3>1. i \in Triggered(d)
      BY <1>3, <1>4, <2>1, <2>3, <2>5 DEF Triggered
    <3>0. [id |-> i, doc |-> scenarios[i]] \in proc'[p].queue /\ [id |-> i, doc |-> scenarios[i]].id = i
      BY <1>3, <3>1
    <3>2. PICK e \in proc'[p].queue : e.id = i
      BY <3>0, Zenon
    <3>3. e # None
      BY <3>2, EntryAssumption DEF Op, AutoTyped, Typed, TypeOK
    <3>4. Open(p, i, e)'
      BY <1>3, <3>2, <3>3 DEF Open, Nobody
    <3>5. QED BY <3>2, <3>4 DEF Opened
  <2>6. QED BY <2>4, <2>5
<1>5. QED BY <1>2, <1>3, <1>4, BeginsReacting

LEMMA TickReacting ==
  ASSUME Sound, AutoTyped', Reacting, Fixed, home' = home, NEW p \in Procs, NEW n \in Names,
         Tick(p, n)
  PROVE  Reacting'
<1>1. stored' = stored /\ due' = due /\ completed' = completed
  BY DEF Tick, deviceVars
<1>2. proc[p].pc = "idle" /\ \A r \in Procs \ {p} : proc'[r] = proc[r] /\ seen'[r] = seen[r]
  BY TickDoes DEF Sound
<1>3. ASSUME NEW i \in due, Awake(i) PROVE Awake(i)'
  <2>1. i \in Ids /\ scenarios[i] # None
    BY DEF Sound, AutoTyped, DevicesTyped, Reacting
  <2>2. QED BY <1>1, <1>3, <2>1, AwakeStays
<1>4. QED BY <1>1, <1>2, <1>3, BeginsReacting

\* A handler that goes on keeps the entries it does not decide about.
LEMMA OnwardReacting ==
  ASSUME Sound, Reacting, Fixed, home' = home, stored' = stored, completed' = completed,
         NEW p \in Procs, NEW Q, Onward(p, Q), seen'[p] = Nobody,
         \A i \in due' : i \in due /\ \A e \in proc[p].queue \ Q : ~Open(p, i, e)
  PROVE  Reacting'
<1>1. ASSUME NEW i \in due', Opened(i) PROVE Opened(i)'
  <2>1. i \in Ids /\ scenarios[i] # None /\ i \in due
    BY DEF Sound, AutoTyped, DevicesTyped, Reacting
  <2>2. PICK q \in Procs : \E e \in proc[q].queue : Open(q, i, e)
    BY <1>1 DEF Opened
  <2>3. PICK e \in proc[q].queue : Open(q, i, e)
    BY <2>2
  <2>4. CASE q # p
    <3>1. e \in proc'[q].queue /\ Open(q, i, e)'
      BY <2>1, <2>3, <2>4, OthersOpen DEF Onward
    <3>2. QED BY <3>1 DEF Opened
  <2>5. CASE q = p
    <3>1. e \in proc'[p].queue
      BY <2>3, <2>5 DEF Onward
    <3>2. Open(p, i, e)'
      BY <2>1, <2>3, <2>5, <3>1, OpenStays
    <3>3. QED BY <3>1, <3>2 DEF Opened
  <2>6. QED BY <2>4, <2>5
<1>2. ASSUME NEW i \in due', Awake(i) PROVE Awake(i)'
  <2>1. i \in Ids /\ scenarios[i] # None
    BY DEF Sound, AutoTyped, DevicesTyped, Reacting
  <2>2. QED BY <1>2, <2>1, AwakeStays
<1>3. QED BY <1>1, <1>2, HandlerReacting

LEMMA CountReacting ==
  ASSUME Sound, AutoTyped', Reacting, Fixed, home' = home, NEW p \in Procs, Count(p)
  PROVE  Reacting'
<1>1. stored' = stored /\ due' = due /\ completed' = completed
  BY DEF Count, deviceVars
<1>2. Onward(p, proc[p].queue) /\ seen'[p] = Nobody
  BY CountDoes DEF Sound
<1>3. QED BY <1>1, <1>2, OnwardReacting

LEMMA EvaluateReacting ==
  ASSUME Sound, AutoTyped', Reacting, Fixed, home' = home, NEW p \in Procs, NEW e \in proc[p].queue,
         Evaluate(p, e)
  PROVE  Reacting'
<1>1. Evaluating(p, e) /\ (Fails(p, e) \/ GoesOn(p, e) \/ Decides(p, e))
  BY EvaluateCases
<1>2. stored' = stored /\ completed' = completed
  BY <1>1 DEF Fails, GoesOn, Decides, Act, Leave, deviceVars
<1>3. CASE Fails(p, e) \/ Decides(p, e)
  <2>1. Onward(p, proc[p].queue \ {e}) /\ seen'[p] = Nobody
    BY <1>3, EvaluateDoes DEF Sound
  <2>2. ASSUME NEW i \in due' PROVE i \in due /\ ~Open(p, i, e)
    <3>1. i \in due
      BY <1>3, <2>2 DEF Fails, Decides, Act, Leave
    <3>2. CASE Decides(p, e) /\ Act(p, e)
      BY <2>2, <3>2 DEF Act, Open
    <3>3. CASE Fails(p, e) \/ (Decides(p, e) /\ ~Combined(RuleOf(e).logic, Looks(p, e)))
      <4>1. ASSUME Open(p, i, e) PROVE FALSE
        <5>1. e.id = i /\ Open(p, e.id, e)
          BY <4>1 DEF Open
        <5>2. MetBy(e.id, stored)
          BY <3>1, <5>1 DEF Reacting
        <5>3. QED BY <1>1, <3>3, <5>1, <5>2, LeavesNone DEF Decides
      <4>2. QED BY <3>1, <4>1
    <3>4. Decides(p, e) => Act(p, e) \/ ~Combined(RuleOf(e).logic, Looks(p, e))
      BY DEF Decides
    <3>5. QED BY <1>3, <3>2, <3>3, <3>4
  <2>3. QED BY <1>2, <2>1, <2>2, OnwardReacting
<1>4. CASE GoesOn(p, e)
  <2>1. due' = due
    BY <1>4 DEF GoesOn
  <2>2. /\ proc' = proc /\ seen'[p] = [entry |-> e, conditions |-> Looks(p, e)]
        /\ \A q \in Procs \ {p} : seen'[q] = seen[q]
    BY <1>4, EvaluateDoes DEF Sound
  <2>3. ASSUME NEW i \in due, Opened(i) PROVE Opened(i)'
    <3>1. i \in Ids /\ scenarios[i] # None
      BY DEF Sound, AutoTyped, DevicesTyped, Reacting
    <3>2. PICK q \in Procs : \E f \in proc[q].queue : Open(q, i, f)
      BY <2>3 DEF Opened
    <3>3. PICK f \in proc[q].queue : Open(q, i, f)
      BY <3>2
    <3>4. CASE q # p
      <4>1. f \in proc'[q].queue /\ Open(q, i, f)'
        BY <1>2, <2>2, <3>1, <3>3, <3>4, OthersOpen
      <4>2. QED BY <4>1 DEF Opened
    <3>5. CASE q = p
      <4>1. Sources(i)' = Sources(i)
        BY <3>1, RulesStay
      <4>2. seen'[p].entry = e /\ seen'[p].conditions = Looks(p, e)
        BY <2>2
      <4>3. f \in proc'[p].queue /\ f.id = i
        BY <2>2, <3>3, <3>5 DEF Open
      <4>4. CASE f # e
        <5>1. Open(p, i, f)'
          BY <4>2, <4>3, <4>4 DEF Open
        <5>2. QED BY <4>3, <5>1 DEF Opened
      <4>5. CASE f = e
        <5>1. e.id = i /\ Open(p, e.id, e)
          BY <3>3, <3>5, <4>3, <4>5
        <5>2. \A k \in DOMAIN Looks(p, e) \cap DOMAIN Sources(i) : Holding(i, k) => Looks(p, e)[k]
          BY <1>1, <5>1, LooksTrue
        <5>3. \A k \in DOMAIN Sources(i) : Holding(i, k)' <=> Holding(i, k)
          BY <1>2, <4>1 DEF Holding
        <5>4. Open(p, i, f)'
          BY <4>1, <4>2, <4>3, <4>5, <5>2, <5>3 DEF Open
        <5>5. QED BY <4>3, <5>4 DEF Opened
      <4>6. QED BY <4>4, <4>5
    <3>6. QED BY <3>4, <3>5
  <2>4. ASSUME NEW i \in due, Awake(i) PROVE Awake(i)'
    <3>1. i \in Ids /\ scenarios[i] # None
      BY DEF Sound, AutoTyped, DevicesTyped, Reacting
    <3>2. QED BY <1>2, <2>4, <3>1, AwakeStays
  <2>5. QED BY <1>2, <2>1, <2>3, <2>4, HandlerReacting
<1>5. QED BY <1>1, <1>3, <1>4

LEMMA StepReacting ==
  ASSUME Sound, AutoTyped', Reacting, Fixed, [AutoNext]_autoVars
  PROVE  Reacting'
<1>1. home' = home
  BY HomeStays
<1>2. CASE UNCHANGED autoVars
  <2>1. /\ stored' = stored /\ due' = due /\ completed' = completed /\ proc' = proc /\ seen' = seen
        /\ scenarios' = scenarios
    BY <1>2 DEF autoVars, vars, deviceVars, evalVars
  <2>2. ASSUME NEW i, Awake(i) \/ Opened(i) PROVE Awake(i)' \/ Opened(i)'
    <3>1. Awake(i) => Awake(i)'
      BY <1>1, <2>1 DEF Awake, Refers, Sources
    <3>2. \A k : Holding(i, k)' <=> Holding(i, k)
      BY <1>1, <2>1 DEF Holding, Sources
    <3>3. Opened(i) => Opened(i)'
      BY <1>1, <2>1, <3>2 DEF Opened, Open, Sources
    <3>4. QED BY <2>2, <3>1, <3>3
  <2>3. QED BY <1>1, <2>1, <2>2, HandlerReacting
<1>3. CASE AutoNext
  BY <1>1, <1>3, AutoCases, DeviceStepReacting, HearReacting, TickReacting, CountReacting,
     EvaluateReacting
<1>4. QED BY <1>2, <1>3

LEMMA AutoInitSound == AutoInit => Sound /\ Reacting
<1> SUFFICES ASSUME AutoInit PROVE Sound /\ Reacting
  OBVIOUS
<1>1. Typed
  BY InitTyped DEF AutoInit
<1>2. DevicesTyped /\ EvalTyped
  <2>1. seen \in [Procs -> Sight]
    BY NobodyType DEF AutoInit
  <2>2. DOMAIN work \subseteq Pieces
    BY EmptyBagType DEF AutoInit
  <2>3. QED BY <2>1, <2>2 DEF AutoInit, DevicesTyped, EvalTyped
<1>3. Steady
  BY DEF AutoInit, Init, Idle, Steady, Obedient
<1>4. Reacting
  BY DEF AutoInit, Reacting
<1>5. QED BY <1>1, <1>2, <1>3, <1>4, SourcedInit DEF Sound, AutoTyped

LEMMA SoundStep == Sound /\ [AutoNext]_autoVars => Sound' /\ Fixed
<1> SUFFICES ASSUME Sound, [AutoNext]_autoVars PROVE Sound' /\ Fixed
  OBVIOUS
<1>1. AutoTyped'
  BY AutoNextTyped DEF Sound
<1>2. Fixed /\ Steady'
  BY <1>1, SteadyStep DEF Sound
<1>3. Sourced'
  BY <1>1, <1>2, SourcedStep
<1>4. QED BY <1>1, <1>2, <1>3 DEF Sound

\* Whatever the order in which updates are stored, events are heard and devices
\* are read: when nothing is in progress, every active scenario whose conditions
\* have become met has been executed since.
THEOREM ScenariosReact == AutoSpec => []Reacts
<1>1. AutoInit => Sound /\ Reacting
  BY AutoInitSound
<1>2. Sound /\ Reacting /\ [AutoNext]_autoVars => (Sound /\ Reacting)'
  <2> SUFFICES ASSUME Sound, Reacting, [AutoNext]_autoVars PROVE Sound' /\ Reacting'
    OBVIOUS
  <2>1. Sound' /\ Fixed
    BY SoundStep
  <2>2. QED BY <2>1, StepReacting DEF Sound
<1>3. Sound /\ Reacting => Reacts
  <2> SUFFICES ASSUME Sound, Reacting, Settled, Quiet, NEW i \in due
               PROVE  scenarios[i] = None \/ ~scenarios[i].active
    BY DEF Reacts
  <2>1. ~Awake(i)
    BY DEF Settled, Awake
  <2>2. ~Opened(i)
    BY DEF Quiet, Sound, Steady, Opened
  <2>3. QED BY <2>1, <2>2 DEF Reacting
<1>4. QED BY <1>1, <1>2, <1>3, PTL DEF AutoSpec

-----------------------------------------------------------------------------
(* One command, one execution.  The commands that reached devices a        *)
(* scenario names are counted twice: in its credit, and as events not yet  *)
(* heard and handlers that heard one and have still to decide.             *)

AwaitsAny(i) == \E d \in Devices : AwaitsCommand(i, d)
Unheard(i) == {x \in Devices \X Nat : AwaitsCommand(i, x[1]) /\ x[2] \in 1..executed[x[1]]}
Deciding(i) == {x \in Procs \X Entry : /\ x[2] \in proc[x[1]].queue /\ x[2].id = i
                                       /\ context[x[1]] = "command" /\ AwaitsAny(i)}
AllRequired(i) == scenarios[i] # None /\ home.rules[scenarios[i].name].logic = "AND"

Paid ==
  \A i \in Ids :
    /\ IsFiniteSet(Unheard(i)) /\ IsFiniteSet(Deciding(i))
    /\ AllRequired(i) => credit[i] >= Cardinality(Unheard(i)) + Cardinality(Deciding(i))

\* Only a handler that heard a command has found one executed.
Heard ==
  \A p \in Procs : \A k \in DOMAIN seen[p].conditions :
    RuleOf(seen[p].entry).sources[k].kind = "command" /\ seen[p].conditions[k]
      => context[p] = "command"

\* One element more, none, and one less.
LEMMA OneMore ==
  ASSUME NEW T, IsFiniteSet(T), NEW x, NEW S, S \subseteq T \cup {x}
  PROVE  /\ IsFiniteSet(S) /\ Cardinality(S) \in Nat /\ Cardinality(T) \in Nat
         /\ Cardinality(S) <= Cardinality(T) + 1
<1>1. /\ IsFiniteSet(T \cup {x})
      /\ Cardinality(T \cup {x}) = IF x \in T THEN Cardinality(T) ELSE Cardinality(T) + 1
  BY FS_AddElement
<1>2. IsFiniteSet(S) /\ Cardinality(S) <= Cardinality(T \cup {x})
  BY <1>1, FS_Subset
<1>3. Cardinality(S) \in Nat /\ Cardinality(T) \in Nat
  BY <1>2, FS_CardinalityType
<1>4. QED BY <1>1, <1>2, <1>3

LEMMA NoMore ==
  ASSUME NEW T, IsFiniteSet(T), NEW S, S \subseteq T
  PROVE  /\ IsFiniteSet(S) /\ Cardinality(S) \in Nat /\ Cardinality(T) \in Nat
         /\ Cardinality(S) <= Cardinality(T)
<1>1. IsFiniteSet(S) /\ Cardinality(S) <= Cardinality(T)
  BY FS_Subset
<1>2. QED BY <1>1, FS_CardinalityType

LEMMA OneLess ==
  ASSUME NEW T, IsFiniteSet(T), NEW x \in T, NEW S, S \subseteq T \ {x}
  PROVE  /\ IsFiniteSet(S) /\ Cardinality(S) \in Nat /\ Cardinality(T) \in Nat
         /\ Cardinality(S) <= Cardinality(T) - 1
<1>1. IsFiniteSet(T \ {x}) /\ Cardinality(T \ {x}) = Cardinality(T) - 1
  BY FS_RemoveElement
<1>2. IsFiniteSet(S) /\ Cardinality(S) <= Cardinality(T \ {x})
  BY <1>1, FS_Subset
<1>3. Cardinality(S) \in Nat /\ Cardinality(T) \in Nat
  BY <1>2, FS_CardinalityType
<1>4. QED BY <1>1, <1>2, <1>3

\* Nothing moves, a command arrives, a handler hears one, or it has been decided.
Balanced(U, D, U2, D2, c, c2) ==
  \/ \E x : U2 \subseteq U \cup {x} /\ D2 \subseteq D /\ c2 = c + 1
  \/ \E x \in U : \E y : U2 \subseteq U \ {x} /\ D2 \subseteq D \cup {y} /\ c2 = c
  \/ \E y \in D : U2 \subseteq U /\ D2 \subseteq D \ {y} /\ c2 = c - 1

LEMMA Balance ==
  ASSUME NEW U, NEW D, NEW U2, NEW D2, NEW c \in Int, NEW c2, IsFiniteSet(U), IsFiniteSet(D),
         Balanced(U, D, U2, D2, c, c2)
  PROVE  /\ IsFiniteSet(U2) /\ IsFiniteSet(D2)
         /\ c >= Cardinality(U) + Cardinality(D) => c2 >= Cardinality(U2) + Cardinality(D2)
<1>1. ASSUME NEW x, U2 \subseteq U \cup {x}, D2 \subseteq D, c2 = c + 1
      PROVE  /\ IsFiniteSet(U2) /\ IsFiniteSet(D2)
             /\ c >= Cardinality(U) + Cardinality(D) => c2 >= Cardinality(U2) + Cardinality(D2)
  <2>1. /\ IsFiniteSet(U2) /\ Cardinality(U2) \in Nat /\ Cardinality(U) \in Nat
        /\ Cardinality(U2) <= Cardinality(U) + 1
    BY <1>1, OneMore
  <2>2. /\ IsFiniteSet(D2) /\ Cardinality(D2) \in Nat /\ Cardinality(D) \in Nat
        /\ Cardinality(D2) <= Cardinality(D)
    BY <1>1, NoMore
  <2>3. QED BY <1>1, <2>1, <2>2
<1>2. ASSUME NEW x \in U, NEW y, U2 \subseteq U \ {x}, D2 \subseteq D \cup {y}, c2 = c
      PROVE  /\ IsFiniteSet(U2) /\ IsFiniteSet(D2)
             /\ c >= Cardinality(U) + Cardinality(D) => c2 >= Cardinality(U2) + Cardinality(D2)
  <2>1. /\ IsFiniteSet(U2) /\ Cardinality(U2) \in Nat /\ Cardinality(U) \in Nat
        /\ Cardinality(U2) <= Cardinality(U) - 1
    BY <1>2, OneLess
  <2>2. /\ IsFiniteSet(D2) /\ Cardinality(D2) \in Nat /\ Cardinality(D) \in Nat
        /\ Cardinality(D2) <= Cardinality(D) + 1
    BY <1>2, OneMore
  <2>3. QED BY <1>2, <2>1, <2>2
<1>3. ASSUME NEW y \in D, U2 \subseteq U, D2 \subseteq D \ {y}, c2 = c - 1
      PROVE  /\ IsFiniteSet(U2) /\ IsFiniteSet(D2)
             /\ c >= Cardinality(U) + Cardinality(D) => c2 >= Cardinality(U2) + Cardinality(D2)
  <2>1. /\ IsFiniteSet(U2) /\ Cardinality(U2) \in Nat /\ Cardinality(U) \in Nat
        /\ Cardinality(U2) <= Cardinality(U)
    BY <1>3, NoMore
  <2>2. /\ IsFiniteSet(D2) /\ Cardinality(D2) \in Nat /\ Cardinality(D) \in Nat
        /\ Cardinality(D2) <= Cardinality(D) - 1
    BY <1>3, OneLess
  <2>3. QED BY <1>3, <2>1, <2>2
<1>4. QED BY <1>1, <1>2, <1>3 DEF Balanced

\* What one step may do to a scenario.
Settles(i) == /\ Unheard(i)' \subseteq Unheard(i) /\ Deciding(i)' \subseteq Deciding(i)
              /\ AllRequired(i) => credit'[i] = credit[i]
Passes(i) == Balanced(Unheard(i), Deciding(i), Unheard(i)', Deciding(i)', credit[i], credit'[i])

LEMMA StillPaid ==
  ASSUME Sound, Paid, Fixed, home' = home, \A i \in Ids : Settles(i) \/ Passes(i)
  PROVE  Paid'
<1> SUFFICES ASSUME NEW i \in Ids
             PROVE  /\ IsFiniteSet(Unheard(i)') /\ IsFiniteSet(Deciding(i)')
                    /\ AllRequired(i)' =>
                         credit'[i] >= Cardinality(Unheard(i)') + Cardinality(Deciding(i)')
  BY DEF Paid
<1>1. AllRequired(i)' => AllRequired(i)
  BY DEF AllRequired, Fixed
<1>2. /\ IsFiniteSet(Unheard(i)) /\ IsFiniteSet(Deciding(i)) /\ credit[i] \in Int
      /\ AllRequired(i) => credit[i] >= Cardinality(Unheard(i)) + Cardinality(Deciding(i))
  BY DEF Paid, Sound, AutoTyped, DevicesTyped
<1>3. CASE Settles(i)
  <2>1. Unheard(i)' \subseteq Unheard(i) /\ Deciding(i)' \subseteq Deciding(i)
        /\ (AllRequired(i) => credit'[i] = credit[i])
    BY <1>3 DEF Settles
  <2>2. /\ IsFiniteSet(Unheard(i)') /\ Cardinality(Unheard(i)') \in Nat /\ Cardinality(Unheard(i)) \in Nat
        /\ Cardinality(Unheard(i)') <= Cardinality(Unheard(i))
    BY <1>2, <2>1, NoMore
  <2>3. /\ IsFiniteSet(Deciding(i)') /\ Cardinality(Deciding(i)') \in Nat /\ Cardinality(Deciding(i)) \in Nat
        /\ Cardinality(Deciding(i)') <= Cardinality(Deciding(i))
    BY <1>2, <2>1, NoMore
  <2>4. QED BY <1>1, <1>2, <2>1, <2>2, <2>3
<1>4. CASE Passes(i)
  <2>1. Balanced(Unheard(i), Deciding(i), Unheard(i)', Deciding(i)', credit[i], credit'[i])
    BY <1>4 DEF Passes
  <2>2. /\ IsFiniteSet(Unheard(i)') /\ IsFiniteSet(Deciding(i)')
        /\ credit[i] >= Cardinality(Unheard(i)) + Cardinality(Deciding(i))
           => credit'[i] >= Cardinality(Unheard(i)') + Cardinality(Deciding(i)')
    BY <1>2, <2>1, Balance
  <2>3. QED BY <1>1, <1>2, <2>2
<1>5. QED BY <1>3, <1>4

\* Whom a command concerns is said by rules, which stay.
LEMMA AwaitsStays ==
  ASSUME Fixed, home' = home, NEW i \in Ids
  PROVE  /\ \A d : AwaitsCommand(i, d)' <=> AwaitsCommand(i, d)
         /\ AwaitsAny(i)' <=> AwaitsAny(i)
<1>1. \A d : AwaitsCommand(i, d)' <=> AwaitsCommand(i, d)
  <2>1. CASE scenarios[i] # None
    BY <2>1, RulesStay
  <2>2. CASE scenarios[i] = None
    BY <2>2 DEF Fixed, AwaitsCommand
  <2>3. QED BY <2>1, <2>2
<1>2. QED BY <1>1 DEF AwaitsAny

LEMMA UnheardStays ==
  ASSUME Fixed, home' = home, NEW i \in Ids, executed' = executed
  PROVE  Unheard(i)' = Unheard(i)
<1>1. \A d : AwaitsCommand(i, d)' <=> AwaitsCommand(i, d)
  BY AwaitsStays
<1>2. QED BY <1>1 DEF Unheard

\* A handler that goes on hears nothing new.
LEMMA OnwardDecides ==
  ASSUME Sound, Fixed, home' = home, NEW i \in Ids, NEW p \in Procs, NEW Q,
         Q \subseteq proc[p].queue, Onward(p, Q)
  PROVE  /\ Deciding(i)' \subseteq Deciding(i)
         /\ \A e \in proc[p].queue \ Q : Deciding(i)' \subseteq Deciding(i) \ {<<p, e>>}
<1>1. AwaitsAny(i)' <=> AwaitsAny(i)
  BY AwaitsStays
<1>2. ASSUME NEW q \in Procs, NEW e \in Entry, <<q, e>> \in Deciding(i)'
      PROVE  <<q, e>> \in Deciding(i) /\ (q = p => e \in Q)
  <2>1. e \in proc'[q].queue /\ e.id = i /\ context'[q] = "command" /\ AwaitsAny(i)
    BY <1>1, <1>2 DEF Deciding
  <2>2. CASE q = p
    <3>1. e \in Q /\ proc'[p].pc # "idle"
      BY <2>1, <2>2 DEF Onward
    <3>2. context[p] = "command"
      BY <2>1, <2>2, <3>1 DEF Onward
    <3>3. QED BY <2>1, <2>2, <3>1, <3>2 DEF Deciding
  <2>3. CASE q # p
    BY <2>1, <2>3 DEF Deciding, Onward
  <2>4. QED BY <2>2, <2>3
<1>3. \A x \in Deciding(i)' : \E q \in Procs, e \in Entry : x = <<q, e>>
  BY DEF Deciding
<1>4. QED BY <1>2, <1>3

\* A handler that begins, to a queue that no command set off, or for those that
\* await none, has nothing to decide about a command.
LEMMA BeginsDecides ==
  ASSUME Sound, Fixed, home' = home, NEW i \in Ids, NEW p \in Procs, proc[p].pc = "idle",
         \A q \in Procs \ {p} : proc'[q] = proc[q] /\ context'[q] = context[q],
         NEW y, \A e \in proc'[p].queue : e.id = i /\ context'[p] = "command" /\ AwaitsAny(i)
                                            => <<p, e>> \in {y}
  PROVE  Deciding(i)' \subseteq Deciding(i) \cup {y}
<1>1. AwaitsAny(i)' <=> AwaitsAny(i)
  BY AwaitsStays
<1>2. ASSUME NEW q \in Procs, NEW e \in Entry, <<q, e>> \in Deciding(i)'
      PROVE  <<q, e>> \in Deciding(i) \cup {y}
  <2>1. e \in proc'[q].queue /\ e.id = i /\ context'[q] = "command" /\ AwaitsAny(i)
    BY <1>1, <1>2 DEF Deciding
  <2>2. CASE q = p
    BY <2>1, <2>2
  <2>3. CASE q # p
    BY <2>1, <2>3 DEF Deciding
  <2>4. QED BY <2>2, <2>3
<1>3. \A x \in Deciding(i)' : \E q \in Procs, e \in Entry : x = <<q, e>>
  BY DEF Deciding
<1>4. QED BY <1>2, <1>3

LEMMA BeginsNothing ==
  ASSUME Sound, Fixed, home' = home, NEW i \in Ids, NEW p \in Procs, proc[p].pc = "idle",
         \A q \in Procs \ {p} : proc'[q] = proc[q] /\ context'[q] = context[q],
         \A e \in proc'[p].queue : ~(e.id = i /\ context'[p] = "command" /\ AwaitsAny(i))
  PROVE  Deciding(i)' \subseteq Deciding(i)
<1>1. \A y : Deciding(i)' \subseteq Deciding(i) \cup {y}
  BY BeginsDecides
<1>2. /\ Deciding(i)' \subseteq Deciding(i) \cup {1}
      /\ Deciding(i)' \subseteq Deciding(i) \cup {2}
  BY <1>1
<1>3. QED BY <1>2

\* The steps of DevicesService: a command that is sent is awaited, or is not.
LEMMA DeviceStepPaid ==
  ASSUME Sound, AutoTyped', Fixed, home' = home, DeviceStep, NEW i \in Ids
  PROVE  Settles(i) \/ Passes(i)
<1>1. proc' = proc /\ context' = context /\ scenarios' = scenarios
  BY DeviceStepKeeps DEF vars, evalVars
<1>2. Deciding(i)' \subseteq Deciding(i)
  <2>1. AwaitsAny(i)' <=> AwaitsAny(i)
    BY AwaitsStays
  <2>2. QED BY <1>1, <2>1 DEF Deciding
<1>3. CASE executed' = executed /\ credit' = credit
  BY <1>2, <1>3, UnheardStays DEF Settles
<1>4. ASSUME NEW item, SendCommand(item), ~(executed' = executed /\ credit' = credit)
      PROVE  Settles(i) \/ Passes(i)
  <2> DEFINE d == item.dev
  <2>1. /\ executed' = [executed EXCEPT ![d] = @ + 1]
        /\ credit' = [j \in Ids |-> IF AwaitsCommand(j, d) THEN credit[j] + 1 ELSE credit[j]]
    BY <1>4 DEF SendCommand
  <2> HIDE DEF d
  <2>2. \A x : AwaitsCommand(i, x)' <=> AwaitsCommand(i, x)
    BY AwaitsStays
  <2>3. ASSUME NEW x \in Devices, NEW k \in Nat, <<x, k>> \in Unheard(i)'
        PROVE  <<x, k>> \in Unheard(i) \/ (x = d /\ k = executed[d] + 1 /\ AwaitsCommand(i, d))
    <3>1. AwaitsCommand(i, x) /\ k \in 1..executed'[x]
      BY <2>2, <2>3 DEF Unheard
    <3>2. x # d => executed'[x] = executed[x]
      BY <2>1 DEF Sound, AutoTyped, DevicesTyped
    <3>3. x = d => executed'[x] = executed[d] + 1 /\ executed[d] \in Nat
      BY <2>1 DEF Sound, AutoTyped, DevicesTyped
    <3>4. CASE x # d
      BY <3>1, <3>2, <3>4 DEF Unheard
    <3>5. CASE x = d
      BY <3>1, <3>3, <3>5 DEF Unheard
    <3>6. QED BY <3>4, <3>5
  <2>4. \A z \in Unheard(i)' : \E x \in Devices, k \in Nat : z = <<x, k>>
    BY DEF Unheard
  <2>5. CASE AwaitsCommand(i, d)
    <3>1. Unheard(i)' \subseteq Unheard(i) \cup {<<d, executed[d] + 1>>}
      BY <2>3, <2>4
    <3>2. credit'[i] = credit[i] + 1
      BY <2>1, <2>5
    <3>3. QED BY <1>2, <3>1, <3>2 DEF Passes, Balanced
  <2>6. CASE ~AwaitsCommand(i, d)
    <3>1. Unheard(i)' \subseteq Unheard(i)
      BY <2>3, <2>4, <2>6
    <3>2. credit'[i] = credit[i]
      BY <2>1, <2>6
    <3>3. QED BY <1>2, <3>1, <3>2 DEF Settles
  <2>7. QED BY <2>5, <2>6
<1>5. (executed' = executed /\ credit' = credit) \/ \E item : SendCommand(item)
  BY DEF DeviceStep, SubmitWork, RemoveDevice, Refuse, Serve, ReadDevice, SaveDevice
<1>6. QED BY <1>3, <1>4, <1>5

\* A handler that hears a command of a device has to decide about the scenarios
\* that name it.
LEMMA CommandPaid ==
  ASSUME Sound, AutoTyped', Fixed, home' = home, NEW p \in Procs, NEW d \in Devices,
         OnDeviceCommandExecuted(p, d), NEW i \in Ids
  PROVE  Settles(i) \/ Passes(i)
<1> DEFINE e == [id |-> i, doc |-> scenarios[i]]
<1>1. /\ executed[d] > 0 /\ executed[d] \in Nat /\ executed' = [executed EXCEPT ![d] = @ - 1]
      /\ credit' = credit /\ Hear(p, d, "command")
  BY DEF OnDeviceCommandExecuted, Sound, AutoTyped, DevicesTyped
<1>2. /\ proc[p].pc = "idle"
      /\ proc'[p].queue = {[id |-> j, doc |-> scenarios[j]] : j \in Triggered(d)}
      /\ \A q \in Procs \ {p} : proc'[q] = proc[q] /\ context'[q] = context[q]
  BY <1>1, HearDoes DEF Sound
<1>3. ASSUME NEW f \in proc'[p].queue, f.id = i PROVE f = e /\ i \in Triggered(d)
  BY <1>2, <1>3
<1>4. \A x : AwaitsCommand(i, x)' <=> AwaitsCommand(i, x)
  BY AwaitsStays
<1>5. ASSUME NEW x \in Devices, NEW k \in Nat, <<x, k>> \in Unheard(i)'
      PROVE  <<x, k>> \in Unheard(i) /\ <<x, k>> # <<d, executed[d]>>
  <2>1. AwaitsCommand(i, x) /\ k \in 1..executed'[x]
    BY <1>4, <1>5 DEF Unheard
  <2>2. CASE x # d
    <3>1. executed'[x] = executed[x]
      BY <1>1, <2>2 DEF Sound, AutoTyped, DevicesTyped
    <3>2. QED BY <2>1, <2>2, <3>1 DEF Unheard
  <2>3. CASE x = d
    <3>1. executed'[d] = executed[d] - 1
      BY <1>1 DEF Sound, AutoTyped, DevicesTyped
    <3>2. k \in 1..executed[x] /\ k # executed[d]
      BY <1>1, <2>1, <2>3, <3>1
    <3>3. QED BY <2>1, <3>2 DEF Unheard
  <2>4. QED BY <2>2, <2>3
<1>6. \A z \in Unheard(i)' : \E x \in Devices, k \in Nat : z = <<x, k>>
  BY DEF Unheard
<1>7. Unheard(i)' \subseteq Unheard(i) \ {<<d, executed[d]>>}
  BY <1>5, <1>6
<1>8. CASE AwaitsCommand(i, d)
  <2>1. <<d, executed[d]>> \in Unheard(i)
    BY <1>1, <1>8 DEF Unheard
  <2>2. \A f \in proc'[p].queue : f.id = i /\ context'[p] = "command" /\ AwaitsAny(i)
                                   => <<p, f>> \in {<<p, e>>}
    BY <1>3
  <2>3. Deciding(i)' \subseteq Deciding(i) \cup {<<p, e>>}
    <3> HIDE DEF e
    <3> QED BY <1>2, <2>2, BeginsDecides
  <2>4. credit'[i] = credit[i]
    BY <1>1
  <2>5. QED BY <1>7, <2>1, <2>3, <2>4 DEF Passes, Balanced
<1>9. CASE ~AwaitsCommand(i, d)
  <2>1. ~(i \in Triggered(d) /\ AwaitsAny(i))
    BY <1>9 DEF Triggered, AwaitsAny, AwaitsCommand
  <2>2. \A f \in proc'[p].queue : ~(f.id = i /\ context'[p] = "command" /\ AwaitsAny(i))
    BY <1>3, <2>1
  <2>3. Deciding(i)' \subseteq Deciding(i)
    BY <1>2, <2>2, BeginsNothing
  <2>4. QED BY <1>1, <1>7, <2>3 DEF Settles
<1>10. QED BY <1>8, <1>9

LEMMA UpdatePaid ==
  ASSUME Sound, AutoTyped', Fixed, home' = home, NEW p \in Procs, NEW d \in Devices,
         OnDeviceUpdateCompleted(p, d), NEW i \in Ids
  PROVE  Settles(i)
<1>1. executed' = executed /\ credit' = credit /\ Hear(p, d, "update")
  BY DEF OnDeviceUpdateCompleted
<1>2. /\ proc[p].pc = "idle" /\ context'[p] \in {"none", "update"}
      /\ \A q \in Procs \ {p} : proc'[q] = proc[q] /\ context'[q] = context[q]
  BY <1>1, HearDoes DEF Sound
<1>3. \A f \in proc'[p].queue : ~(f.id = i /\ context'[p] = "command" /\ AwaitsAny(i))
  BY <1>2
<1>4. Deciding(i)' \subseteq Deciding(i)
  BY <1>2, <1>3, BeginsNothing
<1>5. QED BY <1>1, <1>4, UnheardStays DEF Settles

LEMMA TickPaid ==
  ASSUME Sound, AutoTyped', Fixed, home' = home, NEW p \in Procs, NEW n \in Names, Tick(p, n),
         NEW i \in Ids
  PROVE  Settles(i)
<1>1. executed' = executed /\ credit' = credit
  BY DEF Tick, deviceVars
<1>2. /\ proc[p].pc = "idle" /\ context'[p] = "tick"
      /\ \A q \in Procs \ {p} : proc'[q] = proc[q] /\ context'[q] = context[q]
  BY TickDoes DEF Sound
<1>3. \A f \in proc'[p].queue : ~(f.id = i /\ context'[p] = "command" /\ AwaitsAny(i))
  BY <1>2
<1>4. Deciding(i)' \subseteq Deciding(i)
  BY <1>2, <1>3, BeginsNothing
<1>5. QED BY <1>1, <1>4, UnheardStays DEF Settles

LEMMA CountPaid ==
  ASSUME Sound, AutoTyped', Fixed, home' = home, NEW p \in Procs, Count(p), NEW i \in Ids
  PROVE  Settles(i)
<1>1. executed' = executed /\ credit' = credit
  BY DEF Count, deviceVars
<1>2. Onward(p, proc[p].queue)
  BY CountDoes DEF Sound
<1>3. Deciding(i)' \subseteq Deciding(i)
  BY <1>2, OnwardDecides
<1>4. QED BY <1>1, <1>3, UnheardStays DEF Settles

\* Whoever finds that a command has been executed has heard one.
LEMMA HeardLooks ==
  ASSUME Sound, Heard, NEW p \in Procs, NEW e \in proc[p].queue, Evaluating(p, e),
         NEW k \in DOMAIN Looks(p, e), RuleOf(e).sources[k].kind = "command", Looks(p, e)[k]
  PROVE  context[p] = "command"
<1> DEFINE n == Len(seen[p].conditions)
<1>1. RuleOf(e).sources = Sources(e.id)
  BY EntryFacts
<1>2. /\ Looks(p, e) \in Seq(BOOLEAN) /\ Len(Looks(p, e)) = n + 1 /\ n \in Nat
      /\ \A m \in 1..n : Looks(p, e)[m] = seen[p].conditions[m]
      /\ Looks(p, e)[n + 1] = Holds(p, Sources(e.id)[n + 1])
      /\ seen[p].conditions \in Seq(BOOLEAN)
  BY LooksFacts, EvaluatingFacts
<1>3. CASE k = n + 1
  BY <1>1, <1>2, <1>3 DEF Holds
<1>4. CASE k # n + 1
  <2>1. k \in 1..n /\ seen[p].conditions[k] /\ k \in DOMAIN seen[p].conditions
    BY <1>2, <1>4
  <2>2. seen[p].entry = e
    BY <1>2, <2>1, EvaluatingFacts
  <2>3. QED BY <2>1, <2>2 DEF Heard
<1>5. QED BY <1>3, <1>4

\* Whose conditions are all required, and a command is one of them, is executed
\* only by a handler that heard a command.
LEMMA HeardDecides ==
  ASSUME Sound, Heard, NEW p \in Procs, NEW e \in proc[p].queue, Evaluating(p, e), Decides(p, e),
         Combined(RuleOf(e).logic, Looks(p, e)), AllRequired(e.id), AwaitsAny(e.id)
  PROVE  <<p, e>> \in Deciding(e.id)
<1>1. e \in Entry /\ RuleOf(e).sources = Sources(e.id) /\ RuleOf(e).logic = "AND"
      /\ Sources(e.id) \in Seq(Source)
  BY EntryFacts DEF AllRequired
<1>2. PICK k \in DOMAIN Sources(e.id) : Sources(e.id)[k].kind = "command"
  BY DEF AwaitsAny, AwaitsCommand
<1>3. k \in DOMAIN Looks(p, e) /\ Looks(p, e)[k]
  BY <1>1, <1>2, LooksFacts DEF Decides, Combined
<1>4. context[p] = "command"
  BY <1>1, <1>2, <1>3, HeardLooks
<1>5. QED BY <1>1, <1>4 DEF Deciding

LEMMA EvaluatePaid ==
  ASSUME Sound, Heard, AutoTyped', Fixed, home' = home, NEW p \in Procs, NEW e \in proc[p].queue,
         Evaluate(p, e), NEW i \in Ids
  PROVE  Settles(i) \/ Passes(i)
<1>1. Evaluating(p, e) /\ (Fails(p, e) \/ GoesOn(p, e) \/ Decides(p, e))
  BY EvaluateCases
<1>2. executed' = executed
  BY <1>1 DEF Fails, GoesOn, Decides, Act, Leave, deviceVars
<1>3. Unheard(i)' = Unheard(i)
  BY <1>2, UnheardStays
<1>4. CASE GoesOn(p, e)
  <2>1. proc' = proc /\ context' = context /\ credit' = credit
    BY <1>4, EvaluateDoes DEF Sound, GoesOn, deviceVars
  <2>2. AwaitsAny(i)' <=> AwaitsAny(i)
    BY AwaitsStays
  <2>3. Deciding(i)' \subseteq Deciding(i)
    BY <2>1, <2>2 DEF Deciding
  <2>4. QED BY <1>3, <2>1, <2>3 DEF Settles
<1>5. CASE Fails(p, e) \/ Decides(p, e)
  <2>1. Onward(p, proc[p].queue \ {e})
    BY <1>5, EvaluateDoes DEF Sound
  <2>2. /\ Deciding(i)' \subseteq Deciding(i)
        /\ Deciding(i)' \subseteq Deciding(i) \ {<<p, e>>}
    BY <2>1, OnwardDecides
  <2>3. CASE AllRequired(i) => credit'[i] = credit[i]
    BY <1>3, <2>2, <2>3 DEF Settles
  <2>4. CASE AllRequired(i) /\ credit'[i] # credit[i]
    <3>1. Decides(p, e) /\ Combined(RuleOf(e).logic, Looks(p, e)) /\ Act(p, e)
      BY <1>5, <2>4 DEF Fails, Decides, Leave, deviceVars
    <3>2. credit' = [credit EXCEPT ![e.id] = IF AwaitsAny(e.id) THEN @ - 1 ELSE @]
      BY <3>1 DEF Act, AwaitsAny
    <3>3. e.id = i /\ AwaitsAny(i) /\ credit'[i] = credit[i] - 1
      BY <2>4, <3>2 DEF Sound, AutoTyped, DevicesTyped
    <3>4. <<p, e>> \in Deciding(i)
      BY <1>1, <2>4, <3>1, <3>3, HeardDecides
    <3>5. QED BY <1>3, <2>2, <3>3, <3>4 DEF Passes, Balanced
  <2>5. QED BY <2>3, <2>4
<1>6. QED BY <1>1, <1>4, <1>5

LEMMA PaidStep ==
  ASSUME Sound, Heard, Paid, AutoTyped', Fixed, [AutoNext]_autoVars
  PROVE  Paid'
<1>1. home' = home
  BY HomeStays
<1>2. CASE UNCHANGED autoVars
  <2>1. /\ executed' = executed /\ credit' = credit /\ proc' = proc /\ context' = context
        /\ scenarios' = scenarios
    BY <1>2 DEF autoVars, vars, deviceVars, evalVars
  <2>2. ASSUME NEW i \in Ids PROVE Settles(i)
    <3>1. AwaitsAny(i)' <=> AwaitsAny(i)
      BY <1>1, AwaitsStays
    <3>2. Deciding(i)' \subseteq Deciding(i)
      BY <2>1, <3>1 DEF Deciding
    <3>3. QED BY <1>1, <2>1, <3>2, UnheardStays DEF Settles
  <2>3. QED BY <1>1, <2>2, StillPaid
<1>3. CASE AutoNext
  <2>1. \A i \in Ids : Settles(i) \/ Passes(i)
    BY <1>1, <1>3, AutoCases, DeviceStepPaid, CommandPaid, UpdatePaid, TickPaid, CountPaid, EvaluatePaid
  <2>2. QED BY <1>1, <2>1, StillPaid
<1>4. QED BY <1>2, <1>3

\* What a handler has found is found again, and why it evaluates stays.
LEMMA HeardKept ==
  ASSUME Heard, home' = home,
         \A p \in Procs : \/ seen'[p] = Nobody
                          \/ seen'[p] = seen[p] /\ context'[p] = context[p]
                          \/ \A k \in DOMAIN seen'[p].conditions :
                               RuleOf(seen'[p].entry).sources[k].kind = "command"
                               /\ seen'[p].conditions[k] => context'[p] = "command"
  PROVE  Heard'
<1> SUFFICES ASSUME NEW p \in Procs, NEW k \in DOMAIN seen'[p].conditions,
                    home'.rules[seen'[p].entry.doc.name].sources[k].kind = "command",
                    seen'[p].conditions[k]
             PROVE  context'[p] = "command"
  BY DEF Heard, RuleOf
<1>1. CASE seen'[p] = Nobody
  BY <1>1 DEF Nobody
<1>2. CASE seen'[p] = seen[p] /\ context'[p] = context[p]
  BY <1>2 DEF Heard, RuleOf
<1>3. QED BY <1>1, <1>2 DEF RuleOf

LEMMA HeardStep ==
  ASSUME Sound, Heard, AutoTyped', Fixed, [AutoNext]_autoVars
  PROVE  Heard'
<1>1. home' = home
  BY HomeStays
<1>2. CASE UNCHANGED <<seen, context>>
  BY <1>1, <1>2, HeardKept
<1>3. ASSUME NEW p \in Procs, NEW d \in Devices, NEW why, Hear(p, d, why) PROVE Heard'
  <2>1. /\ seen[p] = Nobody /\ seen' = seen
        /\ \A q \in Procs \ {p} : context'[q] = context[q]
    BY <1>3, HearDoes DEF Sound
  <2>2. QED BY <1>1, <2>1, HeardKept
<1>4. ASSUME NEW p \in Procs, NEW n \in Names, Tick(p, n) PROVE Heard'
  <2>1. /\ seen[p] = Nobody /\ seen' = seen
        /\ \A q \in Procs \ {p} : context'[q] = context[q]
    BY <1>4, TickDoes DEF Sound
  <2>2. QED BY <1>1, <2>1, HeardKept
<1>5. ASSUME NEW p \in Procs, Count(p) PROVE Heard'
  <2>1. /\ seen[p] = Nobody /\ seen' = seen
        /\ \A q \in Procs \ {p} : context'[q] = context[q]
    BY <1>5, CountDoes DEF Sound, Onward
  <2>2. QED BY <1>1, <2>1, HeardKept
<1>6. ASSUME NEW p \in Procs, NEW e \in proc[p].queue, Evaluate(p, e) PROVE Heard'
  <2>1. Evaluating(p, e) /\ (Fails(p, e) \/ GoesOn(p, e) \/ Decides(p, e))
    BY <1>6, EvaluateCases
  <2>2. CASE Fails(p, e) \/ Decides(p, e)
    <3>1. /\ seen'[p] = Nobody
          /\ \A q \in Procs \ {p} : seen'[q] = seen[q] /\ context'[q] = context[q]
      BY <1>6, <2>2, EvaluateDoes DEF Sound, Onward
    <3>2. QED BY <1>1, <3>1, HeardKept
  <2>3. CASE GoesOn(p, e)
    <3>1. /\ context' = context
          /\ seen'[p] = [entry |-> e, conditions |-> Looks(p, e)]
          /\ \A q \in Procs \ {p} : seen'[q] = seen[q]
      BY <1>6, <2>3, EvaluateDoes DEF Sound
    <3>2. seen'[p].entry = e /\ seen'[p].conditions = Looks(p, e)
      BY <3>1
    <3>3. ASSUME NEW k \in DOMAIN Looks(p, e), RuleOf(e).sources[k].kind = "command", Looks(p, e)[k]
          PROVE  context[p] = "command"
      BY <2>1, <3>3, HeardLooks
    <3>4. QED BY <1>1, <3>1, <3>2, <3>3, HeardKept
  <2>4. QED BY <2>1, <2>2, <2>3
<1>7. CASE UNCHANGED autoVars
  BY <1>2, <1>7 DEF autoVars, evalVars
<1>8. CASE AutoNext
  BY <1>2, <1>3, <1>4, <1>5, <1>6, <1>8, AutoCases, DeviceStepKeeps
  DEF OnDeviceUpdateCompleted, OnDeviceCommandExecuted, evalVars
<1>9. QED BY <1>7, <1>8

LEMMA AutoInitPaid == AutoInit => Heard /\ Paid
<1> SUFFICES ASSUME AutoInit PROVE Heard /\ Paid
  OBVIOUS
<1>1. Heard
  BY DEF AutoInit, Heard, Nobody
<1>2. ASSUME NEW i \in Ids PROVE Unheard(i) = {} /\ Deciding(i) = {} /\ credit[i] = 0
  BY DEF AutoInit, Init, Idle, Unheard, Deciding
<1>3. IsFiniteSet({}) /\ Cardinality({}) = 0
  BY FS_EmptySet
<1>4. QED BY <1>1, <1>2, <1>3 DEF Paid

\* Whatever other updates and ticks evaluate it between: a scenario all of whose
\* conditions are required, a command among them, is executed at most once for each
\* command that reached a device it names.
THEOREM CommandsExecuteOnce == AutoSpec => []CommandOnce
<1>1. AutoInit => Sound /\ Heard /\ Paid
  BY AutoInitSound, AutoInitPaid
<1>2. Sound /\ Heard /\ Paid /\ [AutoNext]_autoVars => (Sound /\ Heard /\ Paid)'
  <2> SUFFICES ASSUME Sound, Heard, Paid, [AutoNext]_autoVars PROVE Sound' /\ Heard' /\ Paid'
    OBVIOUS
  <2>1. Sound' /\ Fixed
    BY SoundStep
  <2>2. QED BY <2>1, HeardStep, PaidStep DEF Sound
<1>3. Sound /\ Heard /\ Paid => CommandOnce
  <2> SUFFICES ASSUME Sound, Paid, NEW i \in Ids, AllRequired(i) PROVE credit[i] >= 0
    BY DEF CommandOnce, AllRequired
  <2>1. Cardinality(Unheard(i)) \in Nat /\ Cardinality(Deciding(i)) \in Nat
    BY FS_CardinalityType DEF Paid
  <2>2. credit[i] \in Int /\ credit[i] >= Cardinality(Unheard(i)) + Cardinality(Deciding(i))
    BY DEF Paid, Sound, AutoTyped, DevicesTyped
  <2>3. QED BY <2>1, <2>2
<1>4. QED BY <1>1, <1>2, <1>3, PTL DEF AutoSpec
=============================================================================
