------------------------------- MODULE DayTime -------------------------------
(***************************************************************************)
(* The day-time adjustment of SchedulerService on top of Scenarios.        *)
(*                                                                         *)
(* A cron source with adjustTo follows sunrise or sunset.  Its cron string *)
(* is computed when a trigger is submitted, and every night at two for all *)
(* the scenarios that have such a source.  What matters of the string is   *)
(* the day it was computed for: clock is what the document says, jobClock  *)
(* what the job of the registry ticks at.  The nightly handler fetches the *)
(* scenarios, and updates them one after the other through updateScenario; *)
(* what one of these updates throws ends it.                               *)
(*                                                                         *)
(* The actions are those of Scenarios with the two strings carried along,  *)
(* for handlers that take turns; the nightly one gives way between two of  *)
(* its updates.                                                            *)
(***************************************************************************)
EXTENDS Scenarios

CONSTANTS
  AdjustTo,    \* the triggers whose cron source follows sunrise or sunset
  NullAdjust,  \* the triggers whose cron source is stored with adjustTo null
  MaxDay       \* bound on the nights

ASSUME OneHandler == \E p \in Procs : Procs = {p}
ASSUME AdjustAssumption ==
  /\ AdjustTo \subseteq {"cron", "both"} /\ NullAdjust \subseteq Triggers \ {"device"}
  /\ AdjustTo \cap NullAdjust = {} /\ MaxDay \in Nat

VARIABLES
  day,
  clock,      \* [Ids -> the day the stored cron string was computed for, or Fixed]
  jobClock,   \* [Names -> the day the cron string of the job was computed for, or Fixed]
  carry,      \* [Procs -> the strings of the document as read and as saved]
  night,      \* the handler of the nightly job
  sensor      \* the device that device triggers name

clockVars == <<clock, jobClock, carry>>
dayVars == <<vars, day, clockVars, night, sensor>>

Fixed == -1     \* no adjustTo, or no document or job at all
Adjusts(s) == s # None /\ s.trig \in AdjustTo
HasAdjustTo(s) == s # None /\ s.trig \in AdjustTo \cup NullAdjust
Clocks == {Fixed} \cup 0..MaxDay

\* adjustScenarioDayTimeCron: the minutes and hours of today.  A falsy adjustTo leaves
\* the string as it was submitted.
Today(trig) == IF trig \in AdjustTo THEN day ELSE Fixed

Asleep == [pc |-> "off", todo |-> {}]

\* Its conditions fit its configuration, do not since that was edited or the device's
\* brand, type or protocol changed, or the device is gone.
Sensors == {"fits", "altered", "gone"}

\* validateScenario: a submitted trigger names a device that exists, and whose
\* configuration accepts the conditions.
Valid(trig) == trig \in {"device", "both"} => sensor = "fits"

\* The job of name n, if there is one after this step, was scheduled with c; other
\* jobs keep ticking as they do.
Schedules(n, c) ==
  jobClock' = [m \in Names |-> IF jobs'[m] = None THEN Fixed
                               ELSE IF m = n THEN c ELSE jobClock[m]]
NoneScheduled == Schedules(None, Fixed)
Nothing == [old |-> Fixed, new |-> Fixed]
Carries(p, old, new) ==
  carry' = [carry EXCEPT ![p] = IF proc'[p].pc = "idle" THEN Nothing ELSE [old |-> old, new |-> new]]

-----------------------------------------------------------------------------
(* The nightly job                                                         *)

\* Fault: inactive scenarios are left out.
AdjustableActive == {i \in Ids : HasAdjustTo(scenarios[i]) /\ scenarios[i].active}
\* getScenariosWithAdjustableTime: active or not; an adjustTo that is null exists.
Adjustable == {i \in Ids : HasAdjustTo(scenarios[i])}

\* handleDayTimeAdjustments is called; the scenarios come in no particular order.
\* No other handler lasts from before midnight until two.
Nightfall ==
  /\ night.pc = "off" /\ day < MaxDay /\ Quiet
  /\ day' = day + 1
  /\ night' = IF Adjustable = {} THEN Asleep
              ELSE [Asleep EXCEPT !.pc = "loop",
                                  !.todo = {[id |-> i, trig |-> scenarios[i].trig] : i \in Adjustable}]
  /\ UNCHANGED <<vars, clockVars, sensor>>

\* Before a scenario is saved with the trigger that was fetched, the handler throws:
\* updateCronTime knows no time of day for null, getScenario finds no document, or
\* validateScenario refuses the trigger.
Fails(e) == e.trig \in NullAdjust \/ scenarios[e.id] = None \/ ~Valid(e.trig)

\* The next scenario is updated with the trigger that was fetched, its cron source
\* adjusted; updateScenario computes it once more.  What is thrown ends the night.
AdjustNext(p, e) ==
  /\ night.pc = "loop" /\ e \in night.todo /\ proc[p].pc = "idle"
  /\ IF Fails(e)
     THEN night' = Asleep /\ UNCHANGED <<vars, carry>>
     ELSE /\ Goto(p, ReadForUpdate([Idle EXCEPT !.kind = "count"], e.id,
                                   [KeepAll EXCEPT !.trig = e.trig]))
          /\ Carries(p, clock[e.id], Today(e.trig))
          /\ night' = [night EXCEPT !.pc = "await", !.todo = @ \ {e}]
          /\ UNCHANGED <<scenarios, groups, jobs, quota>>
  /\ UNCHANGED <<day, clock, jobClock, sensor>>

\* The handler's step makes updateScenario throw: no such document or a name that is
\* taken, no job to delete, or a schedule that is refused, after the rollback.
Throws(p) ==
  \/ proc[p].pc \in {"save", "rollback", "reschedule"}
  \/ proc[p].pc = "job" /\ Scheduled(proc[p].old) /\ jobs[proc[p].old.name] = None

\* The night goes on when the update it awaits has returned, and ends when it throws.
Awaits(p) ==
  night' = IF night.pc # "await" \/ proc'[p].pc # "idle" THEN night
           ELSE IF Throws(p) \/ night.todo = {} THEN Asleep
           ELSE [night EXCEPT !.pc = "loop"]

-----------------------------------------------------------------------------
(* What users do, and how the strings follow the documents and the jobs    *)

RemoveDevice == /\ sensor # "gone" /\ sensor' = "gone"
                /\ UNCHANGED <<vars, day, clockVars, night>>

\* The device's configuration file is edited, or its brand, type or protocol, to what
\* refuses the conditions or back.  A handler validates before it writes and never again,
\* so that an edit while one is in progress is as one after it.
AlterDevice == /\ sensor # "gone" /\ Quiet
               /\ sensor' = IF sensor = "fits" THEN "altered" ELSE "fits"
               /\ UNCHANGED <<vars, day, clockVars, night>>

AddAdjusted(p, i, s) ==
  /\ StartAdd(p, i, s) /\ Valid(s.trig)
  /\ Carries(p, Fixed, Today(s.trig)) /\ UNCHANGED <<clock, jobClock>>

\* The string is computed again only if a trigger is submitted.
UpdateAdjusted(p, i, d) ==
  /\ StartUpdate(p, i, d) /\ Valid(d.trig)
  /\ Carries(p, clock[i], IF d.trig = None THEN clock[i] ELSE Today(d.trig))
  /\ UNCHANGED <<clock, jobClock>>

\* Until the handler ends.
Carried(p) == carry' = IF proc'[p].pc = "idle" THEN [carry EXCEPT ![p] = Nothing] ELSE carry

\* Handlers that neither change a trigger nor touch the registry.
Elsewhere(p) ==
  /\ \/ RemoveAdded(p) \/ Delete(p) \/ GroupRead(p) \/ GroupSave(p) \/ ClearGroup(p) \/ DropGroup(p)
     \/ \E e \in proc[p].queue :
          \/ Execute(p, e) /\ (sensor = "gone" => ~HasDevice(e.doc))
          \/ SkipExecution(p, e)
  /\ clock' = [i \in Ids |-> IF scenarios'[i] = None THEN Fixed ELSE clock[i]]
  /\ Carried(p) /\ UNCHANGED jobClock

\* repeatTimes alone is submitted; the strings are those that were read.
CountAdjusted(p) ==
  /\ ReadCounted(p)
  /\ Carries(p, clock[proc[p].id], clock[proc[p].id]) /\ UNCHANGED <<clock, jobClock>>

InsertAdjusted(p) ==
  /\ Insert(p)
  /\ clock' = [clock EXCEPT ![proc[p].id] = IF scenarios' = scenarios THEN @ ELSE carry[p].new]
  /\ Carried(p) /\ UNCHANGED jobClock

SaveAdjusted(p) ==
  /\ SaveUpdate(p)
  /\ clock' = [clock EXCEPT ![proc[p].id] = IF proc'[p].pc = "idle" THEN @ ELSE carry[p].new]
  /\ Carried(p) /\ UNCHANGED jobClock

ScheduleAdjusted(p) ==
  LET o == proc[p] IN
  /\ \/ ScheduleAdded(p) /\ Schedules(IF jobs' = jobs THEN None ELSE o.new.name, carry[p].new)
     \/ Unschedule(p) /\ NoneScheduled
     \/ Reschedule(p) /\ Schedules(IF Scheduled(o.new) /\ proc'[p].pc # "rollback" /\ ~Throws(p)
                                   THEN o.new.name ELSE None, carry[p].new)
  /\ Carried(p) /\ UNCHANGED clock

\* Fault: the restored job keeps the new string.
RestoredNew(p) == carry[p].new
\* onFailure writes the old document back and schedules it.
Restored(p) == carry[p].old

RollbackAdjusted(p) ==
  /\ \/ /\ Rollback(p)
        /\ clock' = [clock EXCEPT ![proc[p].id] =
                       IF scenarios[proc[p].id] = None \/ proc'[p].pc = "idle" THEN @
                       ELSE carry[p].old]
        /\ UNCHANGED jobClock
     \/ /\ RescheduleOld(p) /\ UNCHANGED clock
        /\ Schedules(IF jobs' = jobs THEN None ELSE proc[p].old.name, Restored(p))
  /\ Carried(p)

-----------------------------------------------------------------------------
DayInit ==
  /\ Init
  /\ day = 0 /\ night = Asleep /\ sensor = "fits"
  /\ clock = [i \in Ids |-> IF Adjusts(scenarios[i]) THEN 0 ELSE Fixed]
  /\ jobClock = [n \in Names |-> IF jobs[n] = None THEN Fixed ELSE clock[jobs[n]]]
  /\ carry = [p \in Procs |-> Nothing]

ContinueAdjusted(p) ==
  /\ \/ Elsewhere(p) \/ CountAdjusted(p) \/ InsertAdjusted(p) \/ SaveAdjusted(p)
     \/ ScheduleAdjusted(p) \/ RollbackAdjusted(p)
  /\ Awaits(p) /\ UNCHANGED <<day, sensor>>

StartAdjusted(p) ==
  /\ \/ \E i \in Ids, s \in Creations : AddAdjusted(p, i, s)
     \/ \E i \in Ids, d \in Updates : UpdateAdjusted(p, i, d)
     \/ /\ \/ \E i \in Ids : StartRemove(p, i)
           \/ \E g \in Groups : StartCreateGroup(p, g)
           \/ \E g \in Groups, k \in {"unlinkGroup", "purgeGroup", "deleteEmptyGroup"} :
                StartDeleteGroup(p, g, k)
           \/ \E n \in Names : Fire(p, n)
           \/ sensor # "gone" /\ DeviceEvent(p)
        /\ UNCHANGED clockVars
  /\ night.pc # "await" /\ UNCHANGED <<day, night, sensor>>

DayNext ==
  \/ Nightfall \/ RemoveDevice \/ AlterDevice
  \/ \E p \in Procs : \/ \E e \in night.todo : AdjustNext(p, e)
                      \/ StartAdjusted(p) \/ ContinueAdjusted(p)

DaySpec == DayInit /\ [][DayNext]_dayVars

-----------------------------------------------------------------------------
(* Properties                                                              *)

\* When no handler is in progress, the job of a scheduled scenario ticks at the time
\* its document says, whatever adjustments, renames, refused updates and rollbacks
\* lie behind it.
ScheduleCurrent ==
  Quiet => \A i \in Ids : Scheduled(scenarios[i]) => jobClock[scenarios[i].name] = clock[i]

\* A night that ends has adjusted every scenario that follows sunrise or sunset, active
\* or not, to the new day, except those it had still to come to when it came to one at
\* which it fails: one with adjustTo null, one that has been removed, or one whose
\* device has been removed or no longer accepts the conditions it was saved with.
\* Renames, deactivations, refused updates and rollbacks between its updates neither
\* end it nor take a scenario away from it.
NightReaches ==
  [][night.pc # "off" /\ night'.pc = "off" =>
       \A i \in Ids : Adjusts(scenarios'[i]) /\ clock'[i] # day =>
         /\ night.pc = "loop" /\ \E e \in night.todo : e.id = i
         /\ \E e \in night.todo : Fails(e)]_dayVars
=============================================================================
