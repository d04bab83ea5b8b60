------------------------------ MODULE Scenarios ------------------------------
(***************************************************************************)
(* ScenariosService, ScenarioGroupsService, ScenariosExecutionService and  *)
(* the cron-job registry of SchedulerService.                              *)
(*                                                                         *)
(* Two copies of the truth live side by side: the scenario documents in    *)
(* MongoDB (scenarios, with the counts of groups), and the in-memory       *)
(* registry of cron jobs (jobs), keyed by the NAME a scenario had when it  *)
(* was scheduled.  Every handler reads, awaits, writes and then touches    *)
(* the registry; Node runs other handlers at every await.  A handler in    *)
(* progress is a record of proc: its program counter stands at an await.   *)
(***************************************************************************)
EXTENDS Integers, FiniteSets

CONSTANTS
  Ids,        \* external ids; a removed id is reused only when nothing holds it
  Names,      \* scenario names
  Groups,     \* group names
  Procs,      \* handlers that may be in progress at one time
  MaxRepeat,  \* bound on repeatTimes
  AtBoot,     \* the documents the collection may hold when the hub boots
  Creations,  \* the CreateScenarioDtos users submit
  Updates,    \* the UpdateScenarioDtos users submit
  Requests,   \* the kinds of stimulus that occur
  None        \* "undefined": no document, no job, no group, field not submitted

\* repeatTimes is undefined, null, or a count from 1 (the DTOs' @Min(1)).
Unset == -2
Null == -1
Repeats == {Unset, Null} \cup 1..MaxRepeat

\* The trigger sources of a scenario: at most one cron source, device sources,
\* or both.  CronJob refuses the cron expression of a "bad" one.
Triggers == {"cron", "device", "both", "bad"}
HasCron(s) == s.trig # "device"
HasDevice(s) == s.trig \in {"device", "both"}

Scenario == [name: Names, group: Groups \cup {None}, active: BOOLEAN,
             repeat: Repeats, trig: Triggers]
UpdateDto == [name: Names \cup {None}, group: Groups \cup {None},
              active: {"keep", "on", "off"}, repeat: Repeats,
              trig: Triggers \cup {None}]
KeepAll == [name |-> None, group |-> None, active |-> "keep", repeat |-> Unset,
            trig |-> None]

AllRequests == {"add", "update", "remove", "createGroup", "unlinkGroup",
                "purgeGroup", "deleteEmptyGroup", "deviceEvent", "fire", "restart"}

ASSUME BoundAssumption == MaxRepeat \in Nat
ASSUME FiniteAssumption == IsFiniteSet(Ids)
ASSUME NoneAssumption ==
  /\ None \notin Ids /\ None \notin Names /\ None \notin Groups
  /\ None \notin Triggers /\ None \notin Scenario /\ None \notin UpdateDto
ASSUME InputAssumption ==
  /\ AtBoot \subseteq Scenario /\ Creations \subseteq Scenario
  /\ Updates \subseteq UpdateDto /\ Requests \subseteq AllRequests

VARIABLES
  scenarios,  \* [Ids -> Scenario or None], the scenarios collection
  groups,     \* [Groups -> scenariosCount, or Missing], the groups collection
  jobs,       \* [Names -> the id the job's handler executes, or None]
  proc,       \* [Procs -> the handler in progress]
  quota       \* history: executions users still allow, Unlimited without a limit

vars == <<scenarios, groups, jobs, proc, quota>>

Missing == -1   \* no such group document
Stale == -2     \* the group document that was read has been deleted since
Unlimited == MaxRepeat + 1
Exceeded == -1  \* executed more often than allowed

Entry == [id: Ids, doc: Scenario]
Op == [pc: {"idle", "insert", "read", "save", "groupRead", "groupSave", "job",
            "rollback", "reschedule", "removeRead", "delete", "clear", "drop",
            "evaluate"},
       kind: {"none", "add", "update", "count", "remove", "createGroup",
              "unlinkGroup", "purgeGroup", "deleteEmptyGroup"},
       id: Ids \cup {None},
       dto: UpdateDto \cup {None},     \* the decrement an execution submits
       old: Scenario \cup {None},      \* the document as it was read
       new: Scenario \cup {None},      \* the document as it is saved
       leave: Groups \cup {None},      \* the group still to be decremented
       join: Groups \cup {None},       \* the group still to be incremented
       count: Int,                     \* the scenariosCount that was read
       queue: SUBSET Entry]            \* triggered scenarios not yet executed
Idle == [pc |-> "idle", kind |-> "none", id |-> None, dto |-> None, old |-> None,
         new |-> None, leave |-> None, join |-> None, count |-> Missing, queue |-> {}]

Members(g) == {i \in Ids : scenarios[i] # None /\ scenarios[i].group = g}
Scheduled(s) == s # None /\ s.active /\ HasCron(s)
NameTaken(n, i) == \E j \in Ids \ {i} : scenarios[j] # None /\ scenarios[j].name = n
QuotaOf(s) == IF s.repeat \in 1..MaxRepeat THEN s.repeat ELSE Unlimited

\* A handler ends; the next scenario of the device event it serves, if any, is
\* executed: execute() swallows whatever the previous one threw.
Done(o) == IF o.queue = {} THEN Idle
           ELSE [Idle EXCEPT !.pc = "evaluate", !.queue = o.queue]
Goto(p, o) == proc' = [proc EXCEPT ![p] = o]
AfterGroups(o) == IF o.leave # None \/ o.join # None THEN "groupRead" ELSE "job"

\* Fault: inactive scenarios are scheduled at boot too.
JobsOfAll(docs) ==
  [n \in Names |-> LET S == {i \in Ids : docs[i] # None /\ docs[i].name = n} IN
                   IF S = {} THEN None ELSE CHOOSE i \in S : TRUE]

JobsOf(docs) ==
  [n \in Names |-> IF \E i \in Ids : Scheduled(docs[i]) /\ docs[i].name = n
                   THEN CHOOSE i \in Ids : Scheduled(docs[i]) /\ docs[i].name = n
                   ELSE None]

-----------------------------------------------------------------------------
(* The hub boots on a consistent database: unique names, exact counts.     *)

Init ==
  /\ scenarios \in [Ids -> AtBoot \cup {None}]
  /\ \A i \in Ids : scenarios[i] # None => /\ ~NameTaken(scenarios[i].name, i)
                                           /\ Scheduled(scenarios[i]) => scenarios[i].trig # "bad"
  /\ groups = [g \in Groups |-> IF Members(g) = {} THEN Missing
                                ELSE Cardinality(Members(g))]
  /\ jobs = JobsOf(scenarios)
  /\ proc = [p \in Procs |-> Idle]
  /\ quota = [i \in Ids |-> IF scenarios[i] = None THEN Unlimited
                            ELSE QuotaOf(scenarios[i])]

(* onModuleInit: every active scenario is scheduled before requests are    *)
(* served.  A stored schedule that CronJob refuses keeps the hub down, so  *)
(* the step is then not taken.                                             *)
Restart ==
  /\ "restart" \in Requests
  /\ \A i \in Ids : Scheduled(scenarios[i]) => scenarios[i].trig # "bad"
  /\ jobs' = JobsOf(scenarios)
  /\ proc' = [p \in Procs |-> Idle]
  /\ UNCHANGED <<scenarios, groups, quota>>

-----------------------------------------------------------------------------
(* addScenario                                                             *)

Fresh(i) == /\ scenarios[i] = None
            /\ \A n \in Names : jobs[n] # i
            /\ \A p \in Procs : proc[p].id # i /\ \A e \in proc[p].queue : e.id # i

StartAdd(p, i, s) ==
  /\ "add" \in Requests /\ proc[p].pc = "idle" /\ Fresh(i)
  /\ ~NameTaken(s.name, i)
  /\ Goto(p, [Idle EXCEPT !.pc = "insert", !.kind = "add", !.id = i, !.new = s])
  /\ UNCHANGED <<scenarios, groups, jobs, quota>>

\* The unique index on name decides a race between two additions.
Insert(p) ==
  LET o == proc[p] IN
  /\ o.pc = "insert"
  /\ IF NameTaken(o.new.name, o.id)
     THEN Goto(p, Done(o)) /\ UNCHANGED <<scenarios, quota>>
     ELSE /\ scenarios' = [scenarios EXCEPT ![o.id] = o.new]
          /\ quota' = [quota EXCEPT ![o.id] = QuotaOf(o.new)]
          /\ Goto(p, [o EXCEPT !.join = o.new.group,
                               !.pc = IF o.new.group = None THEN "job" ELSE "groupRead"])
  /\ UNCHANGED <<groups, jobs>>

\* Fault: a scenario that cannot be scheduled stays.
ScheduleAddedOrNot(p) ==
  LET o == proc[p]
      ok == Scheduled(o.new) /\ jobs[o.new.name] = None /\ o.new.trig # "bad" IN
  /\ o.pc = "job" /\ o.kind = "add"
  /\ jobs' = IF ok THEN [jobs EXCEPT ![o.new.name] = o.id] ELSE jobs
  /\ Goto(p, Done(o)) /\ UNCHANGED <<scenarios, groups, quota>>

\* scheduleScenarioJob and its onFailure: a scenario that cannot be scheduled
\* is removed again, through removeScenario.
ScheduleAdded(p) ==
  LET o == proc[p] IN
  /\ o.pc = "job" /\ o.kind = "add"
  /\ \/ /\ ~Scheduled(o.new)
        /\ Goto(p, Done(o)) /\ UNCHANGED jobs
     \/ /\ Scheduled(o.new) /\ jobs[o.new.name] = None /\ o.new.trig # "bad"
        /\ jobs' = [jobs EXCEPT ![o.new.name] = o.id]
        /\ Goto(p, Done(o))
     \/ /\ Scheduled(o.new) /\ ~(jobs[o.new.name] = None /\ o.new.trig # "bad")
        /\ Goto(p, [o EXCEPT !.pc = "removeRead", !.kind = "remove"])
        /\ UNCHANGED jobs
  /\ UNCHANGED <<scenarios, groups, quota>>

-----------------------------------------------------------------------------
(* updateScenario                                                          *)

\* The fields a DTO leaves out keep their value; repeatTimes can also be
\* blanked, a group can only be replaced.
Assign(s, d) ==
  [name   |-> IF d.name = None THEN s.name ELSE d.name,
   group  |-> IF d.group = None THEN s.group ELSE d.group,
   active |-> IF d.active = "keep" THEN s.active ELSE d.active = "on",
   repeat |-> IF d.repeat = Unset THEN s.repeat ELSE d.repeat,
   trig   |-> IF d.trig = None THEN s.trig ELSE d.trig]

\* Fault: save() writes the whole document.
MergeAll(db, old, new) == new

\* save() writes the modified paths only: those where the document differs
\* from what it was when it was read.
Merge(db, old, new) ==
  [name   |-> IF new.name = old.name THEN db.name ELSE new.name,
   group  |-> IF new.group = old.group THEN db.group ELSE new.group,
   active |-> IF new.active = old.active THEN db.active ELSE new.active,
   repeat |-> IF new.repeat = old.repeat THEN db.repeat ELSE new.repeat,
   trig   |-> IF new.trig = old.trig THEN db.trig ELSE new.trig]

ReadForUpdate(o, i, d) ==
  IF scenarios[i] = None THEN Done(o)
  ELSE [o EXCEPT !.pc = "save", !.id = i, !.dto = None, !.old = scenarios[i],
                 !.new = Assign(scenarios[i], d)]

StartUpdate(p, i, d) ==
  /\ "update" \in Requests /\ proc[p].pc = "idle"
  /\ Goto(p, ReadForUpdate([Idle EXCEPT !.kind = "update"], i, d))
  /\ UNCHANGED <<scenarios, groups, jobs, quota>>

\* updateScenarioRepeatTimes reaches updateScenario with a decrement computed
\* from the document that was fetched before the conditions were evaluated.
ReadCounted(p) ==
  LET o == proc[p] IN
  /\ o.pc = "read"
  /\ Goto(p, ReadForUpdate([o EXCEPT !.kind = "count"], o.id, o.dto))
  /\ UNCHANGED <<scenarios, groups, jobs, quota>>

SaveUpdate(p) ==
  LET o == proc[p]
      s == Merge(scenarios[o.id], o.old, o.new) IN
  /\ o.pc = "save"
  /\ \/ /\ \/ scenarios[o.id] = None
           \/ o.new.name # o.old.name /\ NameTaken(o.new.name, o.id)
        /\ Goto(p, Done(o)) /\ UNCHANGED <<scenarios, quota>>
     \/ /\ scenarios[o.id] # None
        /\ ~(o.new.name # o.old.name /\ NameTaken(o.new.name, o.id))
        /\ scenarios' = [scenarios EXCEPT ![o.id] = s]
        /\ quota' = IF o.kind = "update" THEN [quota EXCEPT ![o.id] = QuotaOf(s)]
                    ELSE quota
        /\ IF o.old.group = o.new.group
           THEN Goto(p, [o EXCEPT !.pc = "job"])
           ELSE Goto(p, [o EXCEPT !.pc = "groupRead", !.leave = o.old.group,
                                  !.join = o.new.group])
  /\ UNCHANGED <<groups, jobs>>

\* No await separates unscheduling from scheduling.  unscheduleJob throws when
\* the registry has no job of that name, and the rest is then skipped.
Reschedule(p) ==
  LET o == proc[p]
      freed == IF Scheduled(o.old) THEN [jobs EXCEPT ![o.old.name] = None] ELSE jobs IN
  /\ o.pc = "job" /\ o.kind \in {"update", "count"}
  /\ \/ /\ Scheduled(o.old) /\ jobs[o.old.name] = None
        /\ Goto(p, Done(o)) /\ UNCHANGED jobs
     \/ /\ Scheduled(o.old) => jobs[o.old.name] # None
        /\ \/ /\ ~Scheduled(o.new)
              /\ jobs' = freed /\ Goto(p, Done(o))
           \/ /\ Scheduled(o.new) /\ freed[o.new.name] = None /\ o.new.trig # "bad"
              /\ jobs' = [freed EXCEPT ![o.new.name] = o.id] /\ Goto(p, Done(o))
           \/ /\ Scheduled(o.new) /\ ~(freed[o.new.name] = None /\ o.new.trig # "bad")
              /\ jobs' = freed /\ Goto(p, [o EXCEPT !.pc = "rollback"])
  /\ UNCHANGED <<scenarios, groups, quota>>

\* Fault: the old document is not written back.
RollbackForgets(p) ==
  /\ proc[p].pc = "rollback"
  /\ Goto(p, [proc[p] EXCEPT !.pc = "reschedule"])
  /\ UNCHANGED <<scenarios, groups, jobs, quota>>

\* onFailure writes the old document back: $set of the paths it had, so what it
\* had left undefined keeps the new value, and the groups are not synced again.
Rollback(p) ==
  LET o == proc[p]
      s == scenarios[o.id] IN
  /\ o.pc = "rollback"
  /\ IF s # None /\ NameTaken(o.old.name, o.id)
     THEN Goto(p, Done(o)) /\ UNCHANGED <<scenarios, quota>>
     ELSE /\ scenarios' =
               IF s = None THEN scenarios
               ELSE [scenarios EXCEPT ![o.id] =
                      [o.old EXCEPT
                        !.group = IF o.old.group = None THEN s.group ELSE o.old.group,
                        !.repeat = IF o.old.repeat = Unset THEN s.repeat ELSE o.old.repeat]]
          /\ quota' = IF s = None THEN quota
                      ELSE [quota EXCEPT ![o.id] = QuotaOf(scenarios'[o.id])]
          /\ Goto(p, [o EXCEPT !.pc = "reschedule"])
  /\ UNCHANGED <<groups, jobs>>

\* Fault: the old schedule is not restored.
RescheduleOldForgets(p) ==
  /\ proc[p].pc = "reschedule" /\ Goto(p, Done(proc[p]))
  /\ UNCHANGED <<scenarios, groups, jobs, quota>>

\* The second half of onFailure schedules the old document, active or not.
RescheduleOld(p) ==
  LET o == proc[p] IN
  /\ o.pc = "reschedule"
  /\ jobs' = IF HasCron(o.old) /\ jobs[o.old.name] = None /\ o.old.trig # "bad"
             THEN [jobs EXCEPT ![o.old.name] = o.id] ELSE jobs
  /\ Goto(p, Done(o))
  /\ UNCHANGED <<scenarios, groups, quota>>

-----------------------------------------------------------------------------
(* removeScenario, for a user or for an addition that could not be scheduled *)

ReadForRemove(o, i) ==
  IF scenarios[i] = None THEN Done(o)
  ELSE [o EXCEPT !.pc = "delete", !.kind = "remove", !.id = i, !.old = scenarios[i],
                 !.new = None]

StartRemove(p, i) ==
  /\ "remove" \in Requests /\ proc[p].pc = "idle"
  /\ Goto(p, ReadForRemove(Idle, i))
  /\ UNCHANGED <<scenarios, groups, jobs, quota>>

RemoveAdded(p) ==
  /\ proc[p].pc = "removeRead"
  /\ Goto(p, ReadForRemove(proc[p], proc[p].id))
  /\ UNCHANGED <<scenarios, groups, jobs, quota>>

Delete(p) ==
  LET o == proc[p] IN
  /\ o.pc = "delete"
  /\ scenarios' = [scenarios EXCEPT ![o.id] = None]
  /\ Goto(p, [o EXCEPT !.leave = o.old.group,
                       !.pc = IF o.old.group = None THEN "job" ELSE "groupRead"])
  /\ UNCHANGED <<groups, jobs, quota>>

\* Fault: the job of a removed scenario stays.
UnscheduleForgets(p) ==
  /\ proc[p].pc = "job" /\ proc[p].kind = "remove" /\ Goto(p, Done(proc[p]))
  /\ UNCHANGED <<scenarios, groups, jobs, quota>>

\* The registry is asked for the name of every active scenario, cron or not.
Unschedule(p) ==
  LET o == proc[p] IN
  /\ o.pc = "job" /\ o.kind = "remove"
  /\ jobs' = IF o.old.active THEN [jobs EXCEPT ![o.old.name] = None] ELSE jobs
  /\ Goto(p, Done(o))
  /\ UNCHANGED <<scenarios, groups, quota>>

-----------------------------------------------------------------------------
(* ScenarioGroupsService.  upsertGroup reads the group document and saves  *)
(* an absolute count; the schema refuses a negative one (min: 0), and a    *)
(* save throws too when the document it read is gone, or when the one it   *)
(* creates has been created by someone else.  A handler whose group cannot *)
(* be saved stops there.                                                   *)

Target(o) == IF o.leave # None THEN o.leave ELSE o.join
\* Fault: a group that is created on its own counts one scenario.
IncrementNew(o) == IF o.leave # None THEN -1 ELSE 1
Increment(o) == IF o.leave # None THEN -1 ELSE IF o.kind = "createGroup" THEN 0 ELSE 1

GroupRead(p) ==
  LET o == proc[p] IN
  /\ o.pc = "groupRead"
  /\ Goto(p, [o EXCEPT !.pc = "groupSave", !.count = groups[Target(o)]])
  /\ UNCHANGED <<scenarios, groups, jobs, quota>>

GroupSave(p) ==
  LET o == proc[p]
      g == Target(o)
      n == IF o.count = Missing THEN Increment(o) ELSE o.count + Increment(o)
      left == [o EXCEPT !.leave = None,
                        !.join = IF o.leave = None THEN None ELSE o.join,
                        !.count = Missing] IN
  /\ o.pc = "groupSave"
  /\ \/ /\ n < 0 \/ o.count = Stale \/ (o.count = Missing /\ groups[g] # Missing)
        /\ Goto(p, Done(o)) /\ UNCHANGED groups
     \/ /\ n >= 0 /\ o.count # Stale /\ (o.count = Missing => groups[g] = Missing)
        /\ groups' = IF o.count # Missing /\ Increment(o) = 0 THEN groups
                     ELSE [groups EXCEPT ![g] = n]
        /\ Goto(p, IF o.kind = "createGroup" THEN Done(o)
                   ELSE [left EXCEPT !.pc = AfterGroups(left)])
  /\ UNCHANGED <<scenarios, jobs, quota>>

StartCreateGroup(p, g) ==
  /\ "createGroup" \in Requests /\ proc[p].pc = "idle" /\ groups[g] = Missing
  /\ Goto(p, [Idle EXCEPT !.pc = "groupRead", !.kind = "createGroup", !.join = g])
  /\ UNCHANGED <<scenarios, groups, jobs, quota>>

\* deleteGroup: deleteScenarios undefined, true or false.  The count of the
\* document that was read decides whether the scenarios are looked at.
StartDeleteGroup(p, g, k) ==
  /\ k \in Requests /\ proc[p].pc = "idle" /\ groups[g] # Missing
  /\ k = "deleteEmptyGroup" => groups[g] = 0
  /\ Goto(p, [Idle EXCEPT !.kind = k, !.leave = g, !.count = groups[g],
                          !.pc = IF groups[g] > 0 THEN "clear" ELSE "drop"])
  /\ UNCHANGED <<scenarios, groups, jobs, quota>>

\* Fault: the scenarios of a deleted group keep its name.
ClearGroupForgets(p) ==
  /\ proc[p].pc = "clear" /\ Goto(p, [proc[p] EXCEPT !.pc = "drop"])
  /\ UNCHANGED <<scenarios, groups, jobs, quota>>

\* deleteMany or updateMany($unset) over the documents of the group: neither
\* goes through ScenariosService, and the registry is not told.
ClearGroup(p) ==
  LET o == proc[p] IN
  /\ o.pc = "clear"
  /\ scenarios' =
       [i \in Ids |-> IF i \notin Members(o.leave) THEN scenarios[i]
                      ELSE IF o.kind = "purgeGroup" THEN None
                      ELSE [scenarios[i] EXCEPT !.group = None]]
  /\ Goto(p, [o EXCEPT !.pc = "drop"])
  /\ UNCHANGED <<groups, jobs, quota>>

HoldsGroup(o, g) == /\ o.pc \in {"groupSave", "clear", "drop"} /\ o.count # Missing
                    /\ Target(o) = g

\* deleteOne by _id deletes nothing when that document is gone already.
DropGroup(p) ==
  LET o == proc[p] IN
  /\ o.pc = "drop"
  /\ groups' = IF o.count = Stale THEN groups ELSE [groups EXCEPT ![o.leave] = Missing]
  /\ proc' = [q \in Procs |->
                IF q = p THEN Done(o)
                ELSE IF o.count # Stale /\ HoldsGroup(proc[q], o.leave)
                THEN [proc[q] EXCEPT !.count = Stale] ELSE proc[q]]
  /\ UNCHANGED <<scenarios, jobs, quota>>

-----------------------------------------------------------------------------
(* ScenariosExecutionService                                               *)

\* A cron job ticks: its handler fetches the scenario it was created for, and
\* throws when there is none.  It does not ask whether the scenario is active.
Fire(p, n) ==
  /\ "fire" \in Requests /\ proc[p].pc = "idle"
  /\ jobs[n] # None /\ scenarios[jobs[n]] # None
  /\ Goto(p, [Idle EXCEPT !.pc = "evaluate",
                          !.queue = {[id |-> jobs[n], doc |-> scenarios[jobs[n]]]}])
  /\ UNCHANGED <<scenarios, groups, jobs, quota>>

\* Fault: inactive scenarios are triggered too.
DeviceEventAny(p) ==
  LET triggered == {i \in Ids : scenarios[i] # None /\ HasDevice(scenarios[i])} IN
  /\ "deviceEvent" \in Requests /\ proc[p].pc = "idle" /\ triggered # {}
  /\ Goto(p, [Idle EXCEPT !.pc = "evaluate",
                          !.queue = {[id |-> i, doc |-> scenarios[i]] : i \in triggered}])
  /\ UNCHANGED <<scenarios, groups, jobs, quota>>

\* A device update or command: the active scenarios its device triggers are
\* read at once and executed one after the other.
DeviceEvent(p) ==
  LET triggered == {i \in Ids : /\ scenarios[i] # None
                                /\ scenarios[i].active /\ HasDevice(scenarios[i])} IN
  /\ "deviceEvent" \in Requests /\ proc[p].pc = "idle" /\ triggered # {}
  /\ Goto(p, [Idle EXCEPT !.pc = "evaluate",
                          !.queue = {[id |-> i, doc |-> scenarios[i]] : i \in triggered}])
  /\ UNCHANGED <<scenarios, groups, jobs, quota>>

\* Fault: the last execution blanks repeatTimes and leaves the scenario active.
DecrementStaysActive(s) == IF s.repeat = 1 THEN [KeepAll EXCEPT !.repeat = Null]
                           ELSE [KeepAll EXCEPT !.repeat = s.repeat - 1]
\* Fault: the last execution is not told apart.
DecrementToZero(s) == [KeepAll EXCEPT !.repeat = s.repeat - 1]

Decrement(s) == IF s.repeat = 1 THEN [KeepAll EXCEPT !.active = "off", !.repeat = Null]
                ELSE [KeepAll EXCEPT !.repeat = s.repeat - 1]

\* execute: the conditions hold and the actions are emitted (device conditions
\* may also fail; a lone cron source is always met), then the count goes down.
Execute(p, e) ==
  LET o == proc[p]
      rest == [o EXCEPT !.queue = @ \ {e}] IN
  /\ o.pc = "evaluate" /\ e \in o.queue
  /\ quota' = [quota EXCEPT ![e.id] = IF @ = Unlimited THEN Unlimited
                                      ELSE IF @ <= 0 THEN Exceeded ELSE @ - 1]
  /\ Goto(p, IF e.doc.repeat \in 1..MaxRepeat
             THEN [rest EXCEPT !.pc = "read", !.id = e.id, !.dto = Decrement(e.doc)]
             ELSE Done(rest))
  /\ UNCHANGED <<scenarios, groups, jobs>>

SkipExecution(p, e) ==
  LET o == proc[p] IN
  /\ o.pc = "evaluate" /\ e \in o.queue /\ e.doc.trig \notin {"cron", "bad"}
  /\ Goto(p, Done([o EXCEPT !.queue = @ \ {e}]))
  /\ UNCHANGED <<scenarios, groups, jobs, quota>>

-----------------------------------------------------------------------------
\* A handler in progress goes on.
Continue(p) ==
  \/ Insert(p) \/ ScheduleAdded(p)
  \/ ReadCounted(p) \/ SaveUpdate(p) \/ Reschedule(p) \/ Rollback(p) \/ RescheduleOld(p)
  \/ RemoveAdded(p) \/ Delete(p) \/ Unschedule(p)
  \/ GroupRead(p) \/ GroupSave(p) \/ ClearGroup(p) \/ DropGroup(p)
  \/ \E e \in proc[p].queue : Execute(p, e) \/ SkipExecution(p, e)

\* A request, a tick or a device event starts a handler.
Start(p) ==
  \/ \E i \in Ids, s \in Creations : StartAdd(p, i, s)
  \/ \E i \in Ids, d \in Updates : StartUpdate(p, i, d)
  \/ \E i \in Ids : StartRemove(p, i)
  \/ \E g \in Groups : StartCreateGroup(p, g)
  \/ \E g \in Groups, k \in {"unlinkGroup", "purgeGroup", "deleteEmptyGroup"} :
       StartDeleteGroup(p, g, k)
  \/ \E n \in Names : Fire(p, n)
  \/ DeviceEvent(p)

Next == Restart \/ \E p \in Procs : Start(p) \/ Continue(p)

Spec == Init /\ [][Next]_vars

-----------------------------------------------------------------------------
(* Properties                                                              *)

\* Type correctness of the collections, the registry and the handlers.
TypeOK ==
  /\ scenarios \in [Ids -> Scenario \cup {None}]
  /\ groups \in [Groups -> Int]
  /\ jobs \in [Names -> Ids \cup {None}]
  /\ proc \in [Procs -> Op]
  /\ quota \in [Ids -> Int]

Quiet == \A p \in Procs : proc[p].pc = "idle"
OwnsJob(i) == jobs[scenarios[i].name] = i

\* When no handler is in progress, every active scenario with a cron source has
\* its job: no sequence of requests makes a schedule silently disappear.
NoMissedSchedule ==
  Quiet => \A i \in Ids : Scheduled(scenarios[i]) => OwnsJob(i)

\* When no handler is in progress, every job belongs to a stored, active cron
\* scenario of that name: nothing that was deleted, deactivated or renamed
\* keeps ticking.
NoZombieJob ==
  Quiet => \A n \in Names : jobs[n] # None =>
             Scheduled(scenarios[jobs[n]]) /\ scenarios[jobs[n]].name = n

\* When no handler is in progress, scenariosCount of a group is the number of
\* scenarios that name it, and a group without a document has none.
CountsExact ==
  Quiet => \A g \in Groups :
             IF groups[g] = Missing THEN Members(g) = {}
             ELSE groups[g] = Cardinality(Members(g))

\* A scenario with repeatTimes is executed at most that many times before a
\* user grants more ("the number of times the scenario needs to be executed").
QuotaRespected == \A i \in Ids : quota[i] # Exceeded

\* Only a scenario that is active when it is fetched goes on to be executed
\* ("determines if the scenario should be executed").
FetchedActive == \A p \in Procs : \A e \in proc[p].queue : e.doc.active

\* An update whose new schedule is refused leaves an active scenario as it was:
\* same document, same job.
RollbackRestores ==
  [][\A p \in Procs :
       proc[p].pc = "reschedule" /\ proc'[p].pc = "idle" /\ proc[p].old.active =>
         /\ scenarios'[proc[p].id] = proc[p].old
         /\ Scheduled(proc[p].old) => jobs'[proc[p].old.name] = proc[p].id]_vars

\* A scenario that runs on a cron schedule alone and has executions left is in
\* the end deactivated (or removed), however its executions overlap.
CountdownEnds ==
  \A i \in Ids :
    (scenarios[i] # None /\ scenarios[i].active /\ scenarios[i].trig = "cron"
       /\ scenarios[i].repeat \in 1..MaxRepeat)
    ~> (scenarios[i] = None \/ ~scenarios[i].active)

-----------------------------------------------------------------------------
(* Why the registry stays right while handlers overlap, as long as no      *)
(* request adds, activates, renames or retriggers a scenario and groups    *)
(* are not used.  Activity then only ever ends, so a handler that holds an *)
(* old document holds one that is at least as active as the stored one.    *)

Calm ==
  /\ Groups = {} /\ "add" \notin Requests
  /\ \A d \in Updates : d.name = None /\ d.active # "on" /\ d.trig = None

\* Names and ids correspond one to one, in documents, snapshots and jobs.
Known(i, n) ==
  \/ scenarios[i] # None /\ scenarios[i].name = n
  \/ \E p \in Procs : /\ proc[p].pc \in {"save", "delete", "job"}
                      /\ proc[p].id = i /\ proc[p].old.name = n
  \/ jobs[n] = i
NamesFixed == \A i, j \in Ids : \A n, m \in Names :
                Known(i, n) /\ Known(j, m) => (i = j <=> n = m)

OnlyDeactivates(d) == d.name = None /\ d.active # "on" /\ d.trig = None
Weaker(new, old) == /\ new.name = old.name /\ new.trig = old.trig
                    /\ new.active => old.active
Refused(s) == Scheduled(s) /\ s.trig = "bad"

\* A handler may be at five positions; what it read is what is stored, except
\* that the stored document may have been deactivated or deleted meanwhile.
HandlerCalm(o) ==
  LET s == scenarios[o.id] IN
  /\ o.pc \in {"idle", "read", "save", "delete", "job", "evaluate"}
  /\ o.pc = "read" => OnlyDeactivates(o.dto)
  /\ o.pc \in {"save", "delete", "job"} =>
       ~Refused(o.old) /\ (s # None => Weaker(s, o.old))
  /\ o.pc \in {"save", "job"} /\ o.kind # "remove" => Weaker(o.new, o.old)
  /\ o.pc = "job" =>
       /\ o.kind \in {"update", "count", "remove"}
       /\ o.kind = "remove" => s = None
       /\ o.kind # "remove" /\ ~o.new.active => s = None \/ ~s.active

\* The handler has ended the activity of scenario i and has still to say so
\* to the registry.
Owes(p, i) == /\ proc[p].pc = "job" /\ proc[p].id = i /\ Scheduled(proc[p].old)
              /\ proc[p].kind = "remove" \/ ~proc[p].new.active

\* Every scheduled scenario has its job, and every job either is right or is
\* about to be deleted.
CalmInv ==
  /\ NamesFixed
  /\ \A p \in Procs : HandlerCalm(proc[p])
  /\ \A i \in Ids : Scheduled(scenarios[i]) => OwnsJob(i) /\ ~Refused(scenarios[i])
  /\ \A n \in Names : jobs[n] # None =>
       Scheduled(scenarios[jobs[n]]) \/ \E p \in Procs : Owes(p, jobs[n])

=============================================================================
