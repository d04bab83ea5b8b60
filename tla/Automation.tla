------------------------------ MODULE Automation ------------------------------
(***************************************************************************)
(* Devices and scenarios together: DevicesService emits events about what  *)
(* it has stored or sent, ScenariosExecutionService hears them, evaluates  *)
(* the scenarios that name the device and emits the updates their actions  *)
(* ask for, which DevicesService hears in turn.                            *)
(*                                                                         *)
(* Scenarios models the handlers of the scenarios side; here its device    *)
(* event becomes the event of one device, its coin flip for the conditions *)
(* becomes the stored state, read source by source, and its executions     *)
(* have effects.  An update in progress is an item of the bag work.        *)
(***************************************************************************)
EXTENDS Scenarios, Sequences, Bags
Sets == INSTANCE FiniteSetsExt

CONSTANTS
  Devices,
  Values,     \* of the one control a device has here
  Homes,      \* what scenarios ask for, and what users and devices may submit
  MaxCalls,   \* how often they do, in one behaviour
  MaxWork     \* no tick while this many updates and events are pending: they are minutes apart

Gone == "gone"      \* the document of the device has been deleted
Same == "same"      \* a message without controls, a command without a message

\* A source is a cron source, or compares the stored control or the executed
\* command of a device; conditions are all required ("AND") or alternatives.
Source == [kind : {"cron", "controls", "command"}, dev : Devices, is : Values]
Update == [dev : Devices, val : Values]

Call == [kind : {"update", "command", "remove", "refuse"}, dev : Devices,
         val : Values \cup {Same}]

ASSUME HomesAssumption ==
  \A home \in Homes :
    /\ home.calls \subseteq Call
    /\ \A call \in home.calls : call.kind = "update" => call.val # Same
    /\ \A n \in Names : LET f == home.rules[n] IN
         /\ f.sources \in Seq(Source)
         /\ f.logic \in {"AND", "OR"} /\ f.actions \subseteq Update
ASSUME CallsAssumption ==
  MaxCalls \in Nat /\ MaxWork \in Nat /\ Gone \notin Values /\ Same \notin Values
ASSUME EntryAssumption == None \notin Entry

VARIABLES
  home,      \* rules: [Names -> what the scenario of that name asks for], and calls
  stored,    \* [Devices -> the stored control, or Gone]
  work,      \* bag of updates and commands that DevicesService is serving
  completed, \* [Devices -> DeviceUpdateCompletedEvents not yet handled]
  executed,  \* [Devices -> DeviceCommandExecutedEvents not yet handled]
  context,   \* [Procs -> why the handler evaluates: "tick", "update" or "command"]
  seen,      \* [Procs -> the entry being evaluated and the conditions so far]
  calls,     \* what users and devices have submitted
  due,       \* history: scenarios whose conditions have become met since they ran
  credit     \* history: [Ids -> commands a scenario has not been executed for]

deviceVars == <<home, stored, work, completed, executed, calls, credit>>
evalVars == <<context, seen>>
autoVars == <<vars, deviceVars, evalVars, due>>

Nobody == [entry |-> None, conditions |-> <<>>]

Sources(i) == home.rules[scenarios[i].name].sources
Refers(i, d) == \E k \in DOMAIN Sources(i) :
                  Sources(i)[k].kind # "cron" /\ Sources(i)[k].dev = d

Combined(logic, conditions) ==
  IF logic = "AND" THEN \A k \in DOMAIN conditions : conditions[k]
  ELSE \E k \in DOMAIN conditions : conditions[k]

\* Scenario i may be evaluated on st, and st alone meets its conditions.
MetBy(i, st) ==
  /\ \A d \in Devices : Refers(i, d) => st[d] # Gone
  /\ Combined(home.rules[scenarios[i].name].logic,
              [k \in DOMAIN Sources(i) |->
                 Sources(i)[k].kind = "controls" /\ st[Sources(i)[k].dev] = Sources(i)[k].is])

\* Scenarios whose conditions become met are due, those no longer met are not.
Track(new) ==
  due' = {i \in Ids : /\ scenarios[i] # None /\ MetBy(i, new)
                      /\ i \in due \/ ~MetBy(i, stored)}

-----------------------------------------------------------------------------
(* DevicesService                                                          *)

Item(kind, d, v) == [kind |-> kind, dev |-> d, val |-> v, read |-> Same]
Add(item) == work' = work (+) SetToBag({item})
Replace(item, items) == work' = (work (-) SetToBag({item})) (+) items

Submit(call) == call \in home.calls /\ calls < MaxCalls /\ calls' = calls + 1

\* A user or a device submits a new value: DeviceUpdateRequestedEvent, or the API.
\* A Zigbee state message holds a command and perhaps controls, the command of a
\* user no controls.
SubmitWork(call) ==
  /\ Submit(call) /\ call.kind \in {"update", "command"}
  /\ Add(Item(call.kind, call.dev, call.val))
  /\ UNCHANGED <<vars, evalVars, due, home, stored, completed, executed, credit>>

RemoveDevice(call) ==
  /\ Submit(call) /\ call.kind = "remove" /\ stored[call.dev] # Gone
  /\ stored' = [stored EXCEPT ![call.dev] = Gone] /\ Track(stored')
  /\ UNCHANGED <<vars, evalVars, home, work, completed, executed, credit>>

\* The device does not accept the controls or the command: the handler throws.
Refuse(call, item) ==
  /\ Submit(call) /\ call.kind = "refuse" /\ call.dev = item.dev
  /\ item.kind = "command" \/ item.read # Same
  /\ Replace(item, EmptyBag)
  /\ UNCHANGED <<vars, evalVars, due, home, stored, completed, executed, credit>>

\* updateDevice reads the document, merges and validates the controls and waits
\* for the device to accept them; there may be no such document any more.
ReadDevice(item) ==
  /\ item.kind = "update" /\ item.read = Same
  /\ Replace(item, IF stored[item.dev] = Gone THEN EmptyBag
                   ELSE SetToBag({[item EXCEPT !.read = stored[item.dev]]}))
  /\ UNCHANGED <<vars, evalVars, due, home, stored, completed, executed, calls, credit>>

\* save() writes the controls if they differ from those read and throws if the
\* document has been deleted; the event is emitted even if nothing has changed.
\* (Updates of other fields are announced, too, but no scenario hears of them.)
SaveDevice(item) ==
  LET new == IF item.read = item.val THEN stored
             ELSE [stored EXCEPT ![item.dev] = item.val] IN
  /\ item.kind = "update" /\ item.read # Same
  /\ Replace(item, EmptyBag)
  /\ IF stored[item.dev] = Gone
     THEN UNCHANGED <<stored, completed, due>>
     ELSE /\ stored' = new /\ Track(new)
          /\ completed' = [completed EXCEPT ![item.dev] = @ + 1]
  /\ UNCHANGED <<vars, evalVars, home, executed, calls, credit>>

\* A command of d may execute scenario i: the commands of a handler are compared
\* with the command conditions of every source.
AwaitsCommand(i, d) ==
  scenarios[i] # None /\ Refers(i, d) /\ \E k \in DOMAIN Sources(i) : Sources(i)[k].kind = "command"

\* handleDeviceStateUpdate, after the command: the controls of the message become
\* an update, unless the command was refused.
Remainder(item) == IF item.val = Same THEN EmptyBag
                   ELSE SetToBag({Item("update", item.dev, item.val)})

\* sendCommand: read, validated and sent, then announced.
SendCommand(item) ==
  /\ item.kind = "command"
  /\ IF stored[item.dev] = Gone
     THEN Replace(item, EmptyBag) /\ UNCHANGED <<executed, credit>>
     ELSE /\ executed' = [executed EXCEPT ![item.dev] = @ + 1]
          /\ credit' = [i \in Ids |-> IF AwaitsCommand(i, item.dev) THEN credit[i] + 1
                                      ELSE credit[i]]
          /\ Replace(item, Remainder(item))
  /\ UNCHANGED <<vars, evalVars, due, home, stored, completed, calls>>

Serve(item) == ReadDevice(item) \/ SaveDevice(item) \/ SendCommand(item)

-----------------------------------------------------------------------------
(* ScenariosExecutionService                                               *)

Triggered(d) == {i \in Ids : scenarios[i] # None /\ scenarios[i].active /\ Refers(i, d)}

\* Fault: a handler keeps the commands of the one before it.
ForKeeping(p, why) == context' = IF context[p] = "command" THEN context
                                 ELSE [context EXCEPT ![p] = why]
\* A handler that has ended evaluates nothing.
For(p, why) == context' = [context EXCEPT ![p] = IF proc'[p].pc = "idle" THEN "none" ELSE why]
Free == {p \in Procs : proc[p].pc = "idle"}
\* Handlers are alike: a new one is the first that is free.
Handler == CHOOSE p \in Free : TRUE

\* triggerDeviceRelatedScenarios: the active scenarios that name the device.
Hear(p, d, why) ==
  /\ proc[p].pc = "idle"
  /\ Goto(p, Done([Idle EXCEPT !.queue = {[id |-> i, doc |-> scenarios[i]] : i \in Triggered(d)}]))
  /\ For(p, why)
  /\ UNCHANGED <<scenarios, groups, jobs, quota, seen, due>>

OnDeviceUpdateCompleted(p, d) ==
  /\ completed[d] > 0 /\ Hear(p, d, "update")
  /\ completed' = [completed EXCEPT ![d] = @ - 1]
  /\ UNCHANGED <<home, stored, work, executed, calls, credit>>

OnDeviceCommandExecuted(p, d) ==
  /\ executed[d] > 0 /\ Hear(p, d, "command")
  /\ executed' = [executed EXCEPT ![d] = @ - 1]
  /\ UNCHANGED <<home, stored, work, completed, calls, credit>>

Tick(p, n) ==
  /\ Fire(p, n)
  /\ For(p, "tick")
  /\ UNCHANGED <<deviceVars, seen, due>>

RuleOf(e) == home.rules[e.doc.name]
Absent(s) == s.kind # "cron" /\ stored[s.dev] = Gone
Holds(p, s) == \/ s.kind = "cron" /\ context[p] = "tick"
               \/ s.kind = "command" /\ context[p] = "command"
               \/ s.kind = "controls" /\ stored[s.dev] = s.is

\* executeScenario: the actions are emitted, then the execution is counted.
Act(p, e) ==
  /\ Execute(p, e)
  /\ work' = work (+) SetToBag({Item("update", a.dev, a.val) : a \in RuleOf(e).actions})
  /\ credit' = [credit EXCEPT ![e.id] = IF \E d \in Devices : AwaitsCommand(e.id, d)
                                        THEN @ - 1 ELSE @]
  /\ due' = due \ {e.id}
  /\ UNCHANGED <<home, stored, completed, executed, calls>>

Leave(p, e) == SkipExecution(p, e) /\ UNCHANGED <<deviceVars, due>>

\* Fault: an error ends the handler, and the scenarios after this one.
LeaveAll(p, e) ==
  /\ proc[p].pc = "evaluate" /\ Goto(p, Idle)
  /\ UNCHANGED <<scenarios, groups, jobs, quota, deviceVars, due>>
\* execute catches the error of a device that is not there.
LeaveOnError(p, e) == Leave(p, e)

\* extractConditions awaits the device of each source in turn; the logic is
\* evaluated with the last condition.
Evaluate(p, e) ==
  LET s == RuleOf(e).sources[Len(seen[p].conditions) + 1]
      conditions == Append(seen[p].conditions, Holds(p, s))
      last == Len(conditions) = Len(RuleOf(e).sources) IN
  /\ proc[p].pc = "evaluate" /\ e \in proc[p].queue /\ seen[p].entry \in {None, e}
  /\ \/ /\ Absent(s)
        /\ LeaveOnError(p, e) /\ seen' = [seen EXCEPT ![p] = Nobody]
     \/ /\ ~Absent(s) /\ ~last
        /\ seen' = [seen EXCEPT ![p] = [entry |-> e, conditions |-> conditions]]
        /\ UNCHANGED <<vars, deviceVars, due>>
     \/ /\ ~Absent(s) /\ last
        /\ IF Combined(RuleOf(e).logic, conditions) THEN Act(p, e) ELSE Leave(p, e)
        /\ seen' = [seen EXCEPT ![p] = Nobody]
  /\ For(p, context[p])

Count(p) == /\ ReadCounted(p) \/ SaveUpdate(p) \/ Reschedule(p)
            /\ For(p, context[p]) /\ UNCHANGED <<deviceVars, seen, due>>

-----------------------------------------------------------------------------
AutoInit ==
  /\ Init
  /\ home \in Homes
  /\ \A i \in Ids : scenarios[i] # None =>
       /\ HasCron(scenarios[i]) <=> \E k \in DOMAIN Sources(i) : Sources(i)[k].kind = "cron"
       /\ HasDevice(scenarios[i]) <=> \E d \in Devices : Refers(i, d)
  /\ stored \in [Devices -> Values]
  /\ work = EmptyBag
  /\ completed = [d \in Devices |-> 0] /\ executed = [d \in Devices |-> 0]
  /\ context = [p \in Procs |-> "none"] /\ seen = [p \in Procs |-> Nobody]
  /\ calls = 0 /\ due = {} /\ credit = [i \in Ids |-> 0]

SumOver(f) == Sets!MapThenSumSet(LAMBDA d : f[d], Devices)
Pending == BagCardinality(work) + SumOver(completed) + SumOver(executed)

Resume(p) == Count(p) \/ \E e \in proc[p].queue : Evaluate(p, e)
Announce(d) == /\ Free # {}
               /\ OnDeviceUpdateCompleted(Handler, d) \/ OnDeviceCommandExecuted(Handler, d)
Strike(n) == Free # {} /\ Pending < MaxWork /\ Tick(Handler, n)

AutoNext ==
  \/ \E call \in home.calls : \/ SubmitWork(call) \/ RemoveDevice(call)
                             \/ \E item \in BagToSet(work) : Refuse(call, item)
  \/ \E item \in BagToSet(work) : Serve(item)
  \/ \E d \in Devices : Announce(d)
  \/ \E p \in Procs : Resume(p)
  \/ \E n \in Names : Strike(n)

\* Handlers that await are resumed, what is being served is served, and neither
\* an event nor a tick is crowded out by the bound on Procs.
AutoFairness ==
  /\ \A p \in Procs : WF_autoVars(Resume(p))
  /\ WF_autoVars(\E item \in BagToSet(work) : Serve(item))
  /\ SF_autoVars(\E d \in Devices : Announce(d))
  /\ \A n \in Names : SF_autoVars(Strike(n))

AutoSpec == AutoInit /\ [][AutoNext]_autoVars /\ AutoFairness

-----------------------------------------------------------------------------
(* Properties                                                              *)

Settled == work = EmptyBag /\ \A d \in Devices : completed[d] = 0 /\ executed[d] = 0

\* When nothing is in progress, no active scenario is left behind whose conditions
\* have become met since it was last executed: whatever the order in which
\* updates are stored, events are heard and devices are read, it has reacted.
Reacts ==
  Settled /\ Quiet => \A i \in due : scenarios[i] = None \/ ~scenarios[i].active

\* A scenario that waits for a command is executed at most once for each command
\* that reached a device it names, although the controls of the same message
\* and every other update of that device evaluate it again.
CommandOnce ==
  \A i \in Ids : scenarios[i] # None /\ home.rules[scenarios[i].name].logic = "AND"
                  => credit[i] >= 0

\* Scenarios that update each other's devices come to rest if each of them is
\* counted, although an update that changes nothing triggers them as well.
CascadeEnds ==
  (\A i \in Ids : scenarios[i] # None => scenarios[i].repeat \in 1..MaxRepeat) => <>[]Settled
=============================================================================
