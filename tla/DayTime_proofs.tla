---------------------------- MODULE DayTime_proofs ----------------------------
(***************************************************************************)
(* The nightly adjustment of cron strings to sunrise and sunset, among     *)
(* handlers that take turns: jobs tick at the times their documents say,   *)
(* and a night adjusts every scenario.                                     *)
(***************************************************************************)
EXTENDS DayTime, Scenarios_proofs

-----------------------------------------------------------------------------
(* The inductive invariant: the strings of what a handler holds.           *)

DayTyped ==
  /\ day \in Int
  /\ clock \in [Ids -> Int]
  /\ jobClock \in [Names -> Int]
  /\ carry \in [Procs -> [old : Int, new : Int]]
  /\ night \in [pc : {"off", "loop", "await"}, todo : SUBSET [id : Ids, trig : AdjustTo \cup NullAdjust]]

\* The handler has touched the document of i, and not yet its job.
Pending(o, i) == i = o.id /\ (Saved(o) \/ o.pc = "reschedule")

\* A job ticks at the time of its document, except while a handler has still to
\* reschedule it; the document has then the string that the handler carries.
Ticking(o, c) ==
  /\ \A i \in Ids : Runs(scenarios[i]) /\ ~Pending(o, i) => jobClock[scenarios[i].name] = clock[i]
  /\ Saved(o) /\ o.kind \in {"add", "update", "count"} => clock[o.id] = c.new
  /\ o.pc = "reschedule" => clock[o.id] = c.old
  /\ o.pc = "save" /\ o.kind = "update" => o.queue = {}

\* The night has still to come to scenario i.
Due(i) == \E e \in night.todo : e.id = i

\* A string that is put in the place of what scenario i has.
Adjusted(s, c, i) == Adjusts(s) => c = day \/ Due(i)

\* While the nightly handler is under way, every scenario is adjusted to the day
\* or is still to come; so is what other handlers have read and will write.  The
\* update it awaits cannot fail.
Nightly(o, c) ==
  night.pc # "off" =>
    /\ night.pc = "await" => /\ o.pc \in {"save", "job"} /\ o.kind = "count" /\ o.queue = {}
                             /\ Adjusts(o.new) /\ c.new = day
    /\ \A i \in Ids : Adjusted(scenarios[i], clock[i], i)
                      \/ (night.pc = "await" /\ o.pc = "save" /\ i = o.id)
    /\ o.pc \in {"insert", "save"} => Adjusted(o.new, c.new, o.id)
    /\ HoldsOld(o) /\ o.kind = "update" => Adjusted(o.old, c.old, o.id)

DayInv == DayTyped /\ TurnInv /\ \A p \in Procs : Ticking(proc[p], carry[p]) /\ Nightly(proc[p], carry[p])

-----------------------------------------------------------------------------
(* The documents, the registry and the handlers.                           *)

\* The nightly update of a document that can be scheduled counts as one that an
\* execution makes: it keeps name, group, activity and repeatTimes.
LEMMA AdjustCountsDown ==
  ASSUME NEW s \in Scenario, ~Refused(s), NEW t \in AdjustTo
  PROVE  LET d == [KeepAll EXCEPT !.trig = t]
             w == Assign(s, d) IN
         /\ d \in UpdateDto /\ w \in Scenario /\ CountsDown(s, w)
         /\ w.active = s.active /\ QuotaOf(w) = QuotaOf(s) /\ Adjusts(w) /\ w.trig = t
<1> DEFINE d == [KeepAll EXCEPT !.trig = t]
           w == Assign(s, d)
<1>1. t \in {"cron", "both"} /\ t # None /\ t \in Triggers
  BY AdjustAssumption, NoneAssumption DEF Triggers
<1>2. /\ d \in UpdateDto /\ d.name = None /\ d.group = None /\ d.active = "keep"
      /\ d.repeat = Unset /\ d.trig = t
  BY <1>1 DEF KeepAll, UpdateDto, Repeats
<1> HIDE DEF d
<1>3. /\ w.name = s.name /\ w.group = s.group /\ w.active = s.active /\ w.repeat = s.repeat
      /\ w.trig = t
  BY <1>1, <1>2 DEF Assign
<1>4. w \in Scenario /\ w # None
  BY <1>2, AssignType, NoneAssumption
<1> HIDE DEF w
<1>5. CountsDown(s, w)
  BY <1>1, <1>3, <1>4 DEF CountsDown, Refused
<1>6. QuotaOf(w) = QuotaOf(s) /\ Adjusts(w)
  BY <1>3, <1>4 DEF QuotaOf, Adjusts
<1> QED BY <1>2, <1>3, <1>4, <1>5, <1>6 DEF d, w

\* The next nightly update reads its document, like one that counts an execution.
LEMMA AdjustNextTurn ==
  ASSUME Typed, TurnInv, DayTyped, NEW p \in Procs, NEW e \in night.todo, AdjustNext(p, e),
         ~Fails(e)
  PROVE  /\ Typed' /\ NamesUnique' /\ Turn(proc[p])'
         /\ LET s == scenarios[e.id]
                n == proc'[p] IN
            /\ e.id \in Ids /\ e.trig \in AdjustTo
            /\ n.pc = "save" /\ n.kind = "count" /\ n.id = e.id /\ n.old = s /\ n.queue = {}
            /\ n.new = Assign(s, [KeepAll EXCEPT !.trig = e.trig]) /\ Adjusts(n.new)
<1> DEFINE o == proc[p]
           n == proc'[p]
           s == scenarios[e.id]
           d == [KeepAll EXCEPT !.trig = e.trig]
           w == Assign(s, d)
           c == [Idle EXCEPT !.kind = "count"]
<1>1. /\ o.pc = "idle" /\ o \in Op /\ UNCHANGED <<scenarios, groups, jobs, quota>>
      /\ e.id \in Ids /\ e.trig \in AdjustTo /\ s \in Scenario /\ scenarios[e.id] # None
      /\ Goto(p, ReadForUpdate(c, e.id, d))
  BY DEF AdjustNext, Fails, Typed, TypeOK, DayTyped
<1>2. Plain(o) /\ Rested /\ Agreed' /\ NamesUnique /\ NamesUnique' /\ ~Refused(s)
  <2>1. Plain(o) /\ Rested
    BY <1>1, RestingPlain DEF TurnInv
  <2>2. Agreed'
    BY <1>1, <2>1, AgreedStays DEF Rested
  <2> QED BY <1>1, <2>1, <2>2 DEF Rested, Agreed
<1>3. /\ d \in UpdateDto /\ w \in Scenario /\ CountsDown(s, w)
      /\ w.active = s.active /\ QuotaOf(w) = QuotaOf(s) /\ Adjusts(w)
  BY <1>1, <1>2, AdjustCountsDown
<1>4. c \in Op /\ c.queue = {} /\ c.leave = None /\ c.join = None /\ c.kind = "count"
  BY IdleType DEF Op, Idle
<1> HIDE DEF d, w, c
<1>5. /\ proc' = [proc EXCEPT ![p] = n]
      /\ n = [c EXCEPT !.pc = "save", !.id = e.id, !.dto = None, !.old = s, !.new = w]
  BY <1>1 DEF Goto, ReadForUpdate, Typed, TypeOK, w
<1>6. /\ n.pc = "save" /\ n.kind = "count" /\ n.id = e.id /\ n.old = s /\ n.new = w
      /\ n.leave = None /\ n.join = None /\ n.queue = {}
  BY <1>4, <1>5 DEF Op
<1>7. Typed'
  <2>1. n \in Op
    BY <1>1, <1>3, <1>4, <1>5 DEF Op
  <2>2. Shape(n)
    BY <1>1, <1>3, <1>6 DEF Shape, InGroups
  <2>3. proc' \in [Procs -> Op] /\ \A q \in Procs : Shape(proc'[q])
    BY <1>5, <2>1, <2>2 DEF Typed, TypeOK
  <2> QED BY <1>1, <2>3 DEF Typed, TypeOK
<1>8. ~InGroups(n) /\ ~Saved(n) /\ HoldsOld(n) /\ Counting(n)
  BY <1>6 DEF InGroups, Saved, HoldsOld, Counting
<1>9. Registry(proc[p])'
  <2>1. \A i \in Ids : Registered(proc[p], i)' = scenarios[i]
    BY <1>1, <1>6 DEF Registered, Saved, InGroups
  <2> QED BY <1>1, <1>2, <2>1 DEF Registry, Rested, Agreed
<1>10. Position(proc[p])'
  <2>1. ~NameTaken(proc[p].old.name, proc[p].id)'
    BY <1>1, <1>2, <1>6 DEF NameTaken, NamesUnique
  <2>2. scenarios'[n.id] = n.old /\ CountsDown(n.old, n.new)
    BY <1>1, <1>3, <1>6
  <2> HIDE DEF s
  <2> QED BY <1>6, <1>8, <2>1, <2>2 DEF Position
<1>11. NoneRefused(proc[p])' /\ Fetched(proc[p])'
  BY <1>1, <1>2, <1>6 DEF NoneRefused, Rested, Fetched
<1>12. Moves(proc[p])'
  BY <1>6, <1>8 DEF Moves
<1>13. Counted(proc[p])'
  <2>1. \A g \in Groups : /\ groups[g] >= Missing
                          /\ Stored(g) = Cardinality(Members(g)) + 0
    BY <1>2, MembersFinite DEF Rested, Agreed
  <2>2. ASSUME NEW g \in Groups
        PROVE  /\ Stored(g)' = Stored(g) /\ Members(g)' = Members(g) /\ groups'[g] = groups[g]
               /\ Owed(proc[p], g)' = 0
    BY <1>1, <1>6 DEF Stored, Members, Owed, InGroups
  <2> QED BY <2>1, <2>2 DEF Counted
<1>14. Quotas(proc[p])'
  BY <1>1, <1>2, <1>3, <1>6 DEF Quotas, Rested, Agreed
<1>15. Turn(proc[p])'
  BY <1>9, <1>10, <1>11, <1>12, <1>13, <1>14 DEF Turn
<1> QED BY <1>1, <1>2, <1>3, <1>6, <1>7, <1>15 DEF w, d

\* The actions are those of Scenarios, with the strings carried along.
LEMMA DayActions ==
  ASSUME NEW p
  PROVE  (StartAdjusted(p) => Start(p)) /\ (ContinueAdjusted(p) => Continue(p))
<1>1. StartAdjusted(p) => Start(p)
  BY DEF StartAdjusted, Start, AddAdjusted, UpdateAdjusted
<1>2. ContinueAdjusted(p) => Continue(p)
  BY DEF ContinueAdjusted, Continue, Elsewhere, CountAdjusted, InsertAdjusted, SaveAdjusted,
         ScheduleAdjusted, RollbackAdjusted
<1> QED BY <1>1, <1>2

\* Every step keeps what holds of handlers that take turns.
LEMMA DayTurn == Turns /\ Typed /\ TurnInv /\ DayTyped /\ [DayNext]_dayVars => Typed' /\ TurnInv'
<1> SUFFICES ASSUME Turns, Typed, TurnInv, DayTyped, [DayNext]_dayVars PROVE Typed' /\ TurnInv'
  OBVIOUS
<1>1. [Next]_vars => Typed' /\ TurnInv'
  BY NextTyped, NextTurn
<1>2. CASE Nightfall \/ RemoveDevice \/ AlterDevice \/ UNCHANGED dayVars
  BY <1>1, <1>2 DEF Nightfall, RemoveDevice, AlterDevice, dayVars
<1>3. ASSUME NEW p \in Procs, StartAdjusted(p) \/ ContinueAdjusted(p) PROVE Typed' /\ TurnInv'
  BY <1>1, <1>3, DayActions DEF Next
<1>4. ASSUME NEW p \in Procs, NEW e \in night.todo, AdjustNext(p, e) PROVE Typed' /\ TurnInv'
  <2>1. CASE Fails(e)
    BY <1>1, <1>4, <2>1 DEF AdjustNext
  <2>2. CASE ~Fails(e)
    <3>1. Typed' /\ NamesUnique' /\ Turn(proc[p])'
      BY <1>4, <2>2, AdjustNextTurn
    <3>2. Procs = {p}
      BY DEF Turns
    <3> QED BY <3>1, <3>2 DEF TurnInv
  <2> QED BY <2>1, <2>2
<1> QED BY <1>2, <1>3, <1>4 DEF DayNext

-----------------------------------------------------------------------------
(* The types of the strings.                                               *)

\* What a schedule leaves of the strings of the jobs.
LEMMA SchedulesType ==
  ASSUME DayTyped, NEW n, NEW c \in Int, Schedules(n, c)
  PROVE  jobClock' \in [Names -> Int]
  BY DEF Schedules, DayTyped, Fixed

\* What a handler carries.
LEMMA CarriesType ==
  ASSUME DayTyped, NEW p, NEW c \in Int, NEW d \in Int, Carries(p, c, d) \/ Carried(p)
  PROVE  carry' \in [Procs -> [old : Int, new : Int]]
<1>1. Nothing \in [old : Int, new : Int] /\ [old |-> c, new |-> d] \in [old : Int, new : Int]
  BY DEF Nothing, Fixed
<1> QED BY <1>1 DEF DayTyped, Carries, Carried

\* The minutes and hours of today.
LEMMA TodayType == ASSUME DayTyped, NEW t PROVE Today(t) \in Int
  BY DEF Today, DayTyped, Fixed

\* The night, whose step is Awaits.
LEMMA AwaitsType ==
  ASSUME DayTyped, NEW p, Awaits(p)
  PROVE  night' \in [pc : {"off", "loop", "await"}, todo : SUBSET [id : Ids, trig : AdjustTo \cup NullAdjust]]
  BY DEF DayTyped, Awaits, Asleep

\* Every step keeps the types.
LEMMA DayTypes == Typed /\ DayTyped /\ [DayNext]_dayVars => DayTyped'
<1> SUFFICES ASSUME Typed, DayTyped, [DayNext]_dayVars PROVE DayTyped'
  OBVIOUS
<1> DEFINE NightType == [pc : {"off", "loop", "await"}, todo : SUBSET [id : Ids, trig : AdjustTo \cup NullAdjust]]
<1>0. Asleep \in NightType
  BY DEF Asleep
<1>1. CASE Nightfall
  <2> DEFINE todo == {[id |-> i, trig |-> scenarios[i].trig] : i \in Adjustable}
  <2>1. todo \in SUBSET [id : Ids, trig : AdjustTo \cup NullAdjust]
    BY DEF Adjustable, HasAdjustTo
  <2> HIDE DEF todo
  <2>2. night' = Asleep \/ night' = [Asleep EXCEPT !.pc = "loop", !.todo = todo]
    BY <1>1 DEF Nightfall, todo
  <2>3. [Asleep EXCEPT !.pc = "loop", !.todo = todo] \in NightType
    BY <1>0, <2>1
  <2>4. day' = day + 1 /\ UNCHANGED <<clock, jobClock, carry>>
    BY <1>1 DEF Nightfall, clockVars
  <2>5. night' \in NightType
    <3> HIDE DEF NightType
    <3> QED BY <1>0, <2>2, <2>3
  <2> QED BY <2>4, <2>5 DEF DayTyped
<1>2. CASE RemoveDevice \/ AlterDevice \/ UNCHANGED dayVars
  BY <1>2 DEF RemoveDevice, AlterDevice, dayVars, clockVars, DayTyped
<1>3. ASSUME NEW p \in Procs, NEW e \in night.todo, AdjustNext(p, e) PROVE DayTyped'
  <2>1. e.id \in Ids /\ clock[e.id] \in Int /\ Today(e.trig) \in Int
    BY TodayType DEF DayTyped
  <2>2. carry' \in [Procs -> [old : Int, new : Int]]
    BY <1>3, <2>1, CarriesType DEF AdjustNext, DayTyped
  <2>3. [night EXCEPT !.pc = "await", !.todo = @ \ {e}] \in NightType
    BY DEF DayTyped
  <2>4. night' \in NightType
    <3>1. night' = Asleep \/ night' = [night EXCEPT !.pc = "await", !.todo = @ \ {e}]
      BY <1>3 DEF AdjustNext
    <3> QED BY <1>0, <2>3, <3>1
  <2> QED BY <1>3, <2>2, <2>4 DEF AdjustNext, DayTyped
<1>4. ASSUME NEW p \in Procs, StartAdjusted(p) PROVE DayTyped'
  <2>1. carry' \in [Procs -> [old : Int, new : Int]]
    <3>1. (\A i \in Ids : clock[i] \in Int) /\ (\A t : Today(t) \in Int) /\ Fixed \in Int
      BY TodayType DEF DayTyped, Fixed
    <3>2. CASE \E i \in Ids, s \in Creations : AddAdjusted(p, i, s)
      <4> PICK i \in Ids, s \in Creations : AddAdjusted(p, i, s)
        BY <3>2
      <4> QED BY <3>1, CarriesType DEF AddAdjusted
    <3>3. CASE \E i \in Ids, d \in Updates : UpdateAdjusted(p, i, d)
      <4> PICK i \in Ids, d \in Updates : UpdateAdjusted(p, i, d)
        BY <3>3
      <4> DEFINE c == IF d.trig = None THEN clock[i] ELSE Today(d.trig)
      <4>1. c \in Int /\ clock[i] \in Int
        BY <3>1
      <4>2. Carries(p, clock[i], c)
        BY DEF UpdateAdjusted
      <4> HIDE DEF c
      <4> QED BY <4>1, <4>2, CarriesType
    <3>4. CASE UNCHANGED clockVars
      BY <3>4 DEF clockVars, DayTyped
    <3> QED BY <1>4, <3>2, <3>3, <3>4 DEF StartAdjusted
  <2>2. UNCHANGED <<day, night, clock, jobClock>>
    BY <1>4 DEF StartAdjusted, AddAdjusted, UpdateAdjusted, clockVars
  <2> QED BY <2>1, <2>2 DEF DayTyped
<1>5. ASSUME NEW p \in Procs, ContinueAdjusted(p) PROVE DayTyped'
  <2> DEFINE i == proc[p].id
  <2>1. carry[p].old \in Int /\ carry[p].new \in Int /\ Fixed \in Int
    BY DEF DayTyped, Fixed
  <2>2. night' \in NightType /\ day' = day
    BY <1>5, AwaitsType DEF ContinueAdjusted
  <2>3. clock' \in [Ids -> Int] /\ jobClock' \in [Names -> Int]
        /\ carry' \in [Procs -> [old : Int, new : Int]]
    <3>1. CASE Elsewhere(p)
      BY <2>1, <3>1, CarriesType DEF Elsewhere, DayTyped
    <3>2. CASE CountAdjusted(p)
      <4>1. clock[i] \in Int
        BY <3>2 DEF CountAdjusted, ReadCounted, Typed, Shape, DayTyped
      <4> QED BY <3>2, <4>1, CarriesType DEF CountAdjusted, DayTyped
    <3>3. CASE InsertAdjusted(p)
      BY <2>1, <3>3, CarriesType DEF InsertAdjusted, DayTyped
    <3>4. CASE SaveAdjusted(p)
      BY <2>1, <3>4, CarriesType DEF SaveAdjusted, DayTyped
    <3>5. CASE ScheduleAdjusted(p)
      BY <2>1, <3>5, CarriesType, SchedulesType DEF ScheduleAdjusted, NoneScheduled, DayTyped
    <3>6. CASE RollbackAdjusted(p)
      BY <2>1, <3>6, CarriesType, SchedulesType DEF RollbackAdjusted, Restored, DayTyped
    <3> QED BY <1>5, <3>1, <3>2, <3>3, <3>4, <3>5, <3>6 DEF ContinueAdjusted
  <2> QED BY <2>2, <2>3 DEF DayTyped
<1> QED BY <1>1, <1>2, <1>3, <1>4, <1>5 DEF DayNext

-----------------------------------------------------------------------------
(* Every step keeps the strings right: one lemma per kind of step.         *)

\* What the handler knows after the step.
LEMMA TurnPartsNext ==
  ASSUME NEW p \in Procs
  PROVE  (Typed /\ TurnInv => LET o == proc[p] IN
            /\ NamesUnique /\ Registry(o) /\ Position(o) /\ NoneRefused(o) /\ Moves(o)
            /\ Counted(o) /\ Quotas(o) /\ Fetched(o) /\ o \in Op /\ Shape(o))'
<1>1. Typed /\ TurnInv => LET o == proc[p] IN
        /\ NamesUnique /\ Registry(o) /\ Position(o) /\ NoneRefused(o) /\ Moves(o)
        /\ Counted(o) /\ Quotas(o) /\ Fetched(o) /\ o \in Op /\ Shape(o)
  BY TurnParts
<1> QED BY <1>1, PTL

\* The job of a document that no handler is changing.
LEMMA JobNamed ==
  ASSUME Typed, NEW o, Registry(o), NEW i \in Ids, Runs(scenarios[i]), ~Pending(o, i)
  PROVE  scenarios[i].name \in Names /\ jobs[scenarios[i].name] = i
<1>1. scenarios[i].name \in Names
  BY DEF Runs, Scheduled, Typed, TypeOK, Scenario
<1>2. Registered(o, i) = scenarios[i]
  BY DEF Pending, Registered
<1> QED BY <1>1, <1>2 DEF Registry

\* The same after the step.
LEMMA JobNamedNext ==
  ASSUME NEW p \in Procs, NEW i \in Ids
  PROVE  (Typed /\ Registry(proc[p]) /\ Runs(scenarios[i]) /\ ~Pending(proc[p], i)
            => scenarios[i].name \in Names /\ jobs[scenarios[i].name] = i)'
<1>1. Typed /\ Registry(proc[p]) /\ Runs(scenarios[i]) /\ ~Pending(proc[p], i)
        => scenarios[i].name \in Names /\ jobs[scenarios[i].name] = i
  BY JobNamed
<1> QED BY <1>1, PTL

\* Both parts of the invariant, for the handler p.
DayOf(p) == Ticking(proc[p], carry[p]) /\ Nightly(proc[p], carry[p])

\* A handler that is not to write anything keeps what it carries.
LEMMA NoMoreWrites ==
  ASSUME NEW p \in Procs, DayOf(p), UNCHANGED <<jobClock, day>>, Awaits(p), Carried(p), DayTyped,
         proc[p].pc \notin {"save", "job"}, proc'[p].pc \notin {"insert", "save", "rollback", "reschedule"},
         proc'[p].pc = "delete" => proc'[p].kind = "remove",
         \A i \in Ids : Pending(proc[p], i) => Saved(proc'[p]) /\ proc'[p].id = i,
         Saved(proc'[p]) /\ proc'[p].kind \in {"add", "update", "count"} =>
           /\ Saved(proc[p]) /\ proc'[p].id = proc[p].id /\ proc'[p].kind = proc[p].kind
           /\ proc'[p].old = proc[p].old /\ clock'[proc[p].id] = clock[proc[p].id],
         \A i \in Ids : scenarios'[i] # None =>
           /\ scenarios[i] # None /\ clock'[i] = clock[i]
           /\ scenarios'[i].name = scenarios[i].name /\ scenarios'[i].active = scenarios[i].active
           /\ scenarios'[i].trig = scenarios[i].trig
  PROVE  DayOf(p)'
<1> DEFINE o == proc[p]
           n == proc'[p]
<1>1. Ticking(o, carry[p]) /\ Nightly(o, carry[p])
  BY DEF DayOf
<1>2. night' = night
  BY <1>1 DEF Nightly, Awaits
<1>3. n.pc # "idle" => carry'[p] = carry[p]
  BY DEF Carried
<1>4. Saved(n) => n.pc # "idle"
  BY DEF Saved, InGroups
<1>5. \A i \in Ids : /\ Runs(scenarios'[i]) => Runs(scenarios[i]) /\ scenarios'[i] # None
                     /\ Adjusts(scenarios'[i]) => Adjusts(scenarios[i]) /\ scenarios'[i] # None
  BY DEF Runs, Scheduled, HasCron, Adjusts
<1>6. Ticking(proc[p], carry[p])'
  <2>1. ASSUME NEW i \in Ids, Runs(scenarios[i])', ~Pending(proc[p], i)'
        PROVE  jobClock'[scenarios'[i].name] = clock'[i]
    <3>1. Runs(scenarios'[i])
      BY <2>1 DEF Runs, Scheduled, HasCron
    <3>2. ~Pending(o, i)
      BY <2>1 DEF Pending, Saved, InGroups
    <3> QED BY <1>1, <1>5, <3>1, <3>2 DEF Ticking
  <2>2. Saved(proc[p])' /\ n.kind \in {"add", "update", "count"} => clock'[n.id] = carry'[p].new
    <3>1. Saved(proc[p])' <=> Saved(n)
      BY DEF Saved, InGroups
    <3> QED BY <1>1, <1>3, <1>4, <3>1 DEF Ticking
  <2> QED BY <2>1, <2>2 DEF Ticking
<1>7. Nightly(proc[p], carry[p])'
  <2> SUFFICES ASSUME night.pc # "off"
               PROVE  /\ \A i \in Ids : Adjusted(scenarios[i], clock[i], i)'
                      /\ HoldsOld(n) /\ n.kind = "update" => Adjusted(proc[p].old, carry[p].old, proc[p].id)'
    BY <1>1, <1>2 DEF Nightly, HoldsOld, Saved, InGroups
  <2>1. \A i : Due(i)' = Due(i)
    BY <1>2 DEF Due
  <2>2. ASSUME NEW i \in Ids PROVE Adjusted(scenarios[i], clock[i], i)'
    <3>1. Adjusted(scenarios[i], clock[i], i)
      BY <1>1 DEF Nightly
    <3>2. Adjusts(scenarios[i])' <=> Adjusts(scenarios'[i])
      BY DEF Adjusts
    <3> QED BY <1>5, <2>1, <3>1, <3>2 DEF Adjusted
  <2>3. ASSUME HoldsOld(n), n.kind = "update" PROVE Adjusted(proc[p].old, carry[p].old, proc[p].id)'
    <3>1. Saved(n)
      BY <2>3 DEF HoldsOld
    <3>2. Saved(o) /\ n.id = o.id /\ o.kind = "update" /\ n.old = o.old /\ carry'[p] = carry[p]
      BY <1>3, <1>4, <2>3, <3>1
    <3>3. Adjusted(o.old, carry[p].old, o.id)
      BY <1>1, <3>2 DEF Nightly, HoldsOld
    <3> QED BY <2>1, <3>2, <3>3 DEF Adjusted, Adjusts, Due
  <2> QED BY <2>2, <2>3
<1> QED BY <1>6, <1>7 DEF DayOf

-----------------------------------------------------------------------------
\* Night falls: what is adjustable is due.
LEMMA NightfallDay ==
  ASSUME DayTyped, NEW p \in Procs, DayOf(p), Nightfall
  PROVE  DayOf(p)'
<1> DEFINE o == proc[p]
           todo == {[id |-> i, trig |-> scenarios[i].trig] : i \in Adjustable}
<1>1. o.pc = "idle" /\ UNCHANGED <<scenarios, jobs, proc, clock, jobClock, carry>>
  BY DEF Nightfall, Quiet, vars, clockVars
<1>2. night' = Asleep \/ (night' = [Asleep EXCEPT !.pc = "loop", !.todo = todo])
  BY DEF Nightfall
<1>3. Ticking(proc[p], carry[p])'
  <2>1. Ticking(o, carry[p])
    BY DEF DayOf
  <2>2. \A i \in Ids : Runs(scenarios[i])' = Runs(scenarios[i])
    BY <1>1 DEF Runs, Scheduled, HasCron
  <2>3. \A i \in Ids : Pending(proc[p], i)' = Pending(o, i)
    BY <1>1 DEF Pending, Saved, InGroups
  <2>4. Saved(proc[p])' = Saved(o)
    BY <1>1 DEF Saved, InGroups
  <2> QED BY <1>1, <2>1, <2>2, <2>3, <2>4 DEF Ticking
<1>4. Nightly(proc[p], carry[p])'
  <2> SUFFICES ASSUME night'.pc # "off" PROVE Nightly(proc[p], carry[p])'
    BY DEF Nightly
  <2>1. night'.pc = "loop" /\ night'.todo = {[id |-> i, trig |-> scenarios[i].trig] : i \in Adjustable}
    BY <1>2 DEF Asleep, Nightfall
  <2>2. ASSUME NEW i \in Ids, Adjusts(scenarios[i])' PROVE Due(i)'
    <3>1. i \in Adjustable
      BY <1>1, <2>2 DEF Adjustable, Adjusts, HasAdjustTo
    <3>2. [id |-> i, trig |-> scenarios[i].trig] \in night'.todo
      BY <2>1, <3>1
    <3> QED BY <3>2 DEF Due
  <2>3. ~HoldsOld(proc[p])'
    BY <1>1 DEF HoldsOld, Saved, InGroups
  <2> QED BY <1>1, <2>1, <2>2, <2>3 DEF Nightly, Adjusted
<1> QED BY <1>3, <1>4 DEF DayOf

\* Nothing but the device changes: it is removed, or altered.
LEMMA SameDay ==
  ASSUME NEW p \in Procs, DayOf(p), UNCHANGED <<vars, day, clockVars, night>>
  PROVE  DayOf(p)'
<1>1. UNCHANGED <<scenarios, proc, day, clock, jobClock, carry, night>>
  BY DEF vars, clockVars
<1>2. \A i : /\ Runs(scenarios[i])' = Runs(scenarios[i]) /\ Adjusts(scenarios[i])' = Adjusts(scenarios[i])
             /\ Due(i)' = Due(i) /\ Pending(proc[p], i)' = Pending(proc[p], i)
  BY <1>1 DEF Runs, Scheduled, HasCron, Adjusts, Due, Pending, Saved, InGroups
<1>3. Saved(proc[p])' = Saved(proc[p]) /\ HoldsOld(proc[p])' = HoldsOld(proc[p])
  BY <1>1 DEF HoldsOld, Saved, InGroups
<1>4. Adjusts(proc[p].new)' = Adjusts(proc[p].new) /\ Adjusts(proc[p].old)' = Adjusts(proc[p].old)
  BY <1>1 DEF Adjusts
<1>5. Ticking(proc[p], carry[p])'
  BY <1>1, <1>2, <1>3 DEF DayOf, Ticking
<1>6. Nightly(proc[p], carry[p])'
  BY <1>1, <1>2, <1>3, <1>4 DEF DayOf, Nightly, Adjusted
<1> QED BY <1>5, <1>6 DEF DayOf

\* The next scenario is adjusted, or the night ends.
LEMMA AdjustNextDay ==
  ASSUME Typed, TurnInv, DayTyped, NEW p \in Procs, DayOf(p),
         NEW e \in night.todo, AdjustNext(p, e)
  PROVE  DayOf(p)'
<1> DEFINE o == proc[p]
           n == proc'[p]
<1>0. Ticking(o, carry[p]) /\ Nightly(o, carry[p]) /\ o.pc = "idle"
  BY DEF DayOf, AdjustNext
<1>1. CASE Fails(e)
  <2>1. UNCHANGED <<scenarios, proc, day, clock, jobClock, carry>> /\ night'.pc = "off"
    BY <1>1 DEF AdjustNext, vars, Asleep
  <2>2. Ticking(proc[p], carry[p])'
    <3>1. \A i : /\ Runs(scenarios[i])' = Runs(scenarios[i])
                 /\ Pending(proc[p], i)' = Pending(proc[p], i)
      BY <2>1 DEF Runs, Scheduled, HasCron, Pending, Saved, InGroups
    <3>2. Saved(proc[p])' = Saved(proc[p])
      BY <2>1 DEF Saved, InGroups
    <3> QED BY <1>0, <2>1, <3>1, <3>2 DEF Ticking
  <2> QED BY <2>1, <2>2 DEF DayOf, Nightly
<1>2. CASE ~Fails(e)
  <2>1. /\ e.id \in Ids /\ e.trig \in AdjustTo
        /\ n.pc = "save" /\ n.kind = "count" /\ n.id = e.id /\ n.queue = {}
        /\ Adjusts(n.new)
    BY <1>2, AdjustNextTurn
  <2>2. UNCHANGED <<scenarios, day, clock, jobClock>>
    BY <1>2 DEF AdjustNext
  <2>3. carry'[p] = [old |-> clock[e.id], new |-> day]
    BY <1>2, <2>1 DEF AdjustNext, Carries, DayTyped, Today
  <2>4. night.pc = "loop" /\ night'.pc = "await" /\ night'.todo = night.todo \ {e}
    BY <1>2 DEF AdjustNext, DayTyped
  <2>5. ~Saved(proc[p])' /\ HoldsOld(proc[p])' /\ \A i : ~Pending(proc[p], i)'
    BY <2>1 DEF Saved, InGroups, HoldsOld, Pending
  <2>6. Ticking(proc[p], carry[p])'
    <3>1. \A i : Runs(scenarios[i])' = Runs(scenarios[i]) /\ ~Pending(o, i)
      BY <1>0, <2>2 DEF Runs, Scheduled, HasCron, Pending, Saved, InGroups
    <3> QED BY <1>0, <2>1, <2>2, <2>5, <3>1 DEF Ticking
  <2>7. Nightly(proc[p], carry[p])'
    <3>1. ASSUME NEW i \in Ids, i # e.id PROVE Adjusted(scenarios[i], clock[i], i)'
      <4>1. Adjusted(scenarios[i], clock[i], i)
        BY <1>0, <2>4 DEF Nightly
      <4>2. Due(i) => Due(i)'
        BY <2>4, <3>1 DEF Due
      <4> QED BY <2>2, <4>1, <4>2 DEF Adjusted, Adjusts
    <3>2. Adjusted(proc[p].new, carry[p].new, proc[p].id)'
      BY <2>2, <2>3 DEF Adjusted
    <3>3. Adjusts(proc[p].new)'
      BY <2>1 DEF Adjusts
    <3> QED BY <2>1, <2>2, <2>3, <2>4, <3>1, <3>2, <3>3 DEF Nightly
  <2> QED BY <2>6, <2>7 DEF DayOf
<1> QED BY <1>1, <1>2

-----------------------------------------------------------------------------
\* A handler that reads, and writes nothing: what it carries fits what it holds.
LEMMA ReadDay ==
  ASSUME NEW p \in Procs, DayOf(p), UNCHANGED <<scenarios, jobClock, clock, day, night>>,
         proc[p].pc \in {"idle", "read"},
         proc'[p].pc # "reschedule",
         \A i \in Ids : ~Pending(proc'[p], i),
         Saved(proc'[p]) => proc'[p].kind = "createGroup",
         proc'[p].pc = "save" /\ proc'[p].kind = "update" => proc'[p].queue = {},
         proc'[p].pc = "insert" => proc'[p].kind = "add",
         night.pc # "off" =>
           /\ proc'[p].pc \in {"insert", "save"}
                => Adjusted(proc'[p].new, carry'[p].new, proc'[p].id)
           /\ proc'[p].pc = "save" /\ proc'[p].kind = "update"
                => Adjusted(proc'[p].old, carry'[p].old, proc'[p].id),
         proc'[p].kind = "update" => proc'[p].pc \in {"idle", "save"}
  PROVE  DayOf(p)'
<1> DEFINE o == proc[p]
           n == proc'[p]
<1>1. Ticking(o, carry[p]) /\ Nightly(o, carry[p])
  BY DEF DayOf
<1>2. /\ \A i : Runs(scenarios[i])' = Runs(scenarios[i]) /\ Adjusts(scenarios[i])' = Adjusts(scenarios[i])
      /\ \A i : Due(i)' = Due(i)
  BY DEF Runs, Scheduled, HasCron, Adjusts, Due
<1>3. /\ \A i : Pending(proc[p], i)' = Pending(n, i)
      /\ Saved(proc[p])' = Saved(n) /\ HoldsOld(proc[p])' = HoldsOld(n)
  BY DEF Pending, Saved, InGroups, HoldsOld
<1>4. \A i \in Ids : ~Pending(o, i)
  BY DEF Pending, Saved, InGroups
<1>5. Ticking(proc[p], carry[p])'
  BY <1>1, <1>2, <1>3, <1>4 DEF Ticking
<1>6. Nightly(proc[p], carry[p])'
  <2> SUFFICES ASSUME night.pc # "off" PROVE Nightly(proc[p], carry[p])'
    BY DEF Nightly
  <2>1. night.pc # "await" /\ \A i \in Ids : Adjusted(scenarios[i], clock[i], i)
    BY <1>1 DEF Nightly
  <2>2. \A i \in Ids : Adjusted(scenarios[i], clock[i], i)'
    BY <1>2, <2>1 DEF Adjusted
  <2>3. n.pc \in {"insert", "save"} => Adjusted(proc[p].new, carry[p].new, proc[p].id)'
    BY <1>2 DEF Adjusted, Adjusts
  <2>4. HoldsOld(n) /\ n.kind = "update" => n.pc = "save"
    BY <1>3 DEF HoldsOld, Saved, InGroups
  <2>5. HoldsOld(n) /\ n.kind = "update" => Adjusted(proc[p].old, carry[p].old, proc[p].id)'
    BY <1>2, <2>4 DEF Adjusted, Adjusts
  <2> QED BY <1>3, <2>1, <2>2, <2>3, <2>5 DEF Nightly
<1> QED BY <1>5, <1>6 DEF DayOf

\* An addition is submitted.
LEMMA AddDay ==
  ASSUME Typed, DayTyped, NEW p \in Procs, DayOf(p), UNCHANGED <<day, night>>,
         NEW i \in Ids, NEW s \in Creations, AddAdjusted(p, i, s)
  PROVE  DayOf(p)'
<1> DEFINE n == proc'[p]
           c == [Idle EXCEPT !.pc = "insert", !.kind = "add", !.id = i, !.new = s]
<1>1. n = c /\ proc[p].pc = "idle" /\ UNCHANGED <<scenarios, clock, jobClock>>
  BY DEF AddAdjusted, StartAdd, Goto, Typed, TypeOK
<1>2. /\ c.pc = "insert" /\ c.kind = "add" /\ c.id = i /\ c.new = s
  BY DEF Idle
<1> HIDE DEF c
<1>3. carry'[p].new = Today(s.trig)
  BY <1>1, <1>2 DEF AddAdjusted, Carries, DayTyped
<1>4. Adjusted(n.new, carry'[p].new, n.id)
  BY <1>1, <1>2, <1>3 DEF Adjusted, Adjusts, Today
<1>5. ~Saved(n) /\ \A j \in Ids : ~Pending(n, j)
  BY <1>1, <1>2 DEF Pending, Saved, InGroups
<1> QED BY <1>1, <1>2, <1>4, <1>5, ReadDay

\* An update is submitted; a trigger that it keeps keeps its string.
LEMMA UpdateDay ==
  ASSUME Typed, DayTyped, NEW p \in Procs, DayOf(p), UNCHANGED <<day, night>>, night.pc # "await",
         NEW i \in Ids, NEW d \in Updates, UpdateAdjusted(p, i, d)
  PROVE  DayOf(p)'
<1> DEFINE n == proc'[p]
           s == scenarios[i]
           c == [Idle EXCEPT !.kind = "update"]
           w == Assign(s, d)
<1>1. n = ReadForUpdate(c, i, d) /\ proc[p].pc = "idle" /\ UNCHANGED <<scenarios, clock, jobClock>>
  BY DEF UpdateAdjusted, StartUpdate, Goto, Typed, TypeOK
<1>2. c.queue = {} /\ c.kind = "update" /\ c \in Op
  BY IdleType DEF Idle, Op
<1>3. w.trig = IF d.trig = None THEN s.trig ELSE d.trig
  BY DEF Assign
<1> HIDE DEF c, w
<1>4. CASE s = None
  <2>1. n = Idle
    BY <1>1, <1>2, <1>4 DEF ReadForUpdate, Done
  <2>2. n.pc = "idle"
    BY <2>1 DEF Idle
  <2>3. ~Saved(n) /\ \A j \in Ids : ~Pending(n, j)
    BY <2>2 DEF Pending, Saved, InGroups
  <2> QED BY <1>1, <2>2, <2>3, ReadDay
<1>5. CASE s # None
  <2>1. n = [c EXCEPT !.pc = "save", !.id = i, !.dto = None, !.old = s, !.new = w]
    BY <1>1, <1>5 DEF ReadForUpdate, w
  <2>2. /\ n.pc = "save" /\ n.id = i /\ n.old = s /\ n.new = w /\ n.queue = {} /\ n.kind = "update"
    BY <1>2, <2>1 DEF Op
  <2>3. /\ carry'[p].old = clock[i]
        /\ carry'[p].new = IF d.trig = None THEN clock[i] ELSE Today(d.trig)
    BY <2>2 DEF UpdateAdjusted, Carries, DayTyped
  <2>4. night.pc # "off" => Adjusted(s, clock[i], i)
    BY DEF DayOf, Nightly
  <2>5. night.pc # "off" => Adjusted(n.new, carry'[p].new, n.id)
    <3>1. CASE d.trig = None
      BY <1>3, <1>5, <2>2, <2>3, <2>4, <3>1 DEF Adjusted, Adjusts
    <3>2. CASE d.trig # None
      BY <1>3, <2>2, <2>3, <3>2 DEF Adjusted, Adjusts, Today
    <3> QED BY <3>1, <3>2
  <2>6. ~Saved(n) /\ \A j \in Ids : ~Pending(n, j)
    BY <2>2 DEF Pending, Saved, InGroups
  <2> QED BY <1>1, <2>2, <2>3, <2>4, <2>5, <2>6, ReadDay
<1> QED BY <1>4, <1>5

\* Whatever starts, unless it is the nightly update.
LEMMA StartDay ==
  ASSUME Typed, DayTyped, NEW p \in Procs, DayOf(p), StartAdjusted(p)
  PROVE  DayOf(p)'
<1> DEFINE n == proc'[p]
<1>1. UNCHANGED <<day, night>> /\ night.pc # "await"
  BY DEF StartAdjusted
<1>2. ASSUME NEW i \in Ids, NEW s \in Creations, AddAdjusted(p, i, s) PROVE DayOf(p)'
  BY <1>1, <1>2, AddDay
<1>3. ASSUME NEW i \in Ids, NEW d \in Updates, UpdateAdjusted(p, i, d) PROVE DayOf(p)'
  BY <1>1, <1>3, UpdateDay
<1>4. ASSUME UNCHANGED clockVars,
             \/ \E i \in Ids : StartRemove(p, i)
             \/ \E g \in Groups : StartCreateGroup(p, g)
             \/ \E g \in Groups, k \in {"unlinkGroup", "purgeGroup", "deleteEmptyGroup"} :
                  StartDeleteGroup(p, g, k)
             \/ \E m \in Names : Fire(p, m)
             \/ DeviceEvent(p)
      PROVE  DayOf(p)'
  <2>1. proc[p].pc = "idle" /\ UNCHANGED <<scenarios, clock, jobClock>>
    BY <1>4 DEF clockVars, StartRemove, StartCreateGroup, StartDeleteGroup, Fire, DeviceEvent
  <2>2. \/ n.pc \in {"idle", "delete", "clear", "drop", "evaluate"} /\ n.kind # "update"
        \/ n.pc = "groupRead" /\ n.kind = "createGroup" /\ n.id = None
    <3>1. ASSUME NEW i \in Ids, StartRemove(p, i)
          PROVE  n.pc \in {"idle", "delete"} /\ n.kind # "update"
      BY <3>1 DEF StartRemove, ReadForRemove, Done, Idle, Goto, Typed, TypeOK
    <3>2. ASSUME NEW g \in Groups, StartCreateGroup(p, g)
          PROVE  n.pc = "groupRead" /\ n.kind = "createGroup" /\ n.id = None
      BY <3>2 DEF StartCreateGroup, Idle, Goto, Typed, TypeOK
    <3>3. ASSUME NEW g \in Groups, NEW k \in {"unlinkGroup", "purgeGroup", "deleteEmptyGroup"},
                 StartDeleteGroup(p, g, k)
          PROVE  n.pc \in {"clear", "drop"} /\ n.kind # "update"
      BY <3>3 DEF StartDeleteGroup, Idle, Goto, Typed, TypeOK
    <3>4. ASSUME (\E m \in Names : Fire(p, m)) \/ DeviceEvent(p)
          PROVE  n.pc = "evaluate" /\ n.kind # "update"
      <4>1. \E Q : proc' = [proc EXCEPT ![p] = [Idle EXCEPT !.pc = "evaluate", !.queue = Q]]
        BY <3>4, Zenon DEF Fire, DeviceEvent, Goto
      <4> QED BY <4>1 DEF Idle, Typed, TypeOK
    <3> QED BY <1>4, <3>1, <3>2, <3>3, <3>4
  <2>3. (Saved(n) => n.kind = "createGroup") /\ \A j \in Ids : ~Pending(n, j)
    BY <2>2, NoneAssumption DEF Pending, Saved, InGroups
  <2> HIDE DEF n
  <2>4. /\ n.pc \notin {"reschedule", "insert", "save"}
        /\ n.kind = "update" => n.pc \in {"idle", "save"}
    BY <2>2
  <2> QED BY <1>1, <2>1, <2>3, <2>4, ReadDay DEF n
<1> QED BY <1>2, <1>3, <1>4 DEF StartAdjusted

\* The count of an execution is submitted: the strings are those that were read.
LEMMA CountDay ==
  ASSUME Typed, TurnInv, DayTyped, NEW p \in Procs, DayOf(p), UNCHANGED day, Awaits(p),
         CountAdjusted(p)
  PROVE  DayOf(p)'
<1> DEFINE o == proc[p]
           n == proc'[p]
           s == scenarios[o.id]
           c == [o EXCEPT !.kind = "count"]
           w == Assign(s, o.dto)
<1>1. /\ Position(o) /\ o \in Op /\ Shape(o)
  BY TurnParts
<1>2. /\ o.pc = "read" /\ o.id \in Ids /\ o.dto = Decrement(s) /\ s # None
      /\ n = ReadForUpdate(c, o.id, o.dto) /\ UNCHANGED <<scenarios, clock, jobClock>>
  BY <1>1 DEF CountAdjusted, ReadCounted, Position, Shape, Goto, Typed, TypeOK
<1>3. c \in Op /\ c.kind = "count"
  BY <1>1 DEF Op
<1>4. w.trig = s.trig
  BY <1>2 DEF Assign, Decrement, KeepAll
<1> HIDE DEF c, w
<1>5. n = [c EXCEPT !.pc = "save", !.id = o.id, !.dto = None, !.old = s, !.new = w]
  BY <1>2 DEF ReadForUpdate, w
<1>6. n.pc = "save" /\ n.id = o.id /\ n.new = w /\ n.kind = "count"
  BY <1>3, <1>5 DEF Op
<1>7. carry'[p].new = clock[o.id]
  BY <1>6 DEF CountAdjusted, Carries, DayTyped
<1>8. night' = night /\ night.pc # "await"
  BY <1>2, <1>6 DEF Awaits, DayOf, Nightly
<1>9. night.pc # "off" => Adjusted(s, clock[o.id], o.id)
  BY <1>2, <1>8 DEF DayOf, Nightly
<1>10. night.pc # "off" => Adjusted(n.new, carry'[p].new, n.id)
  BY <1>2, <1>4, <1>6, <1>7, <1>9 DEF Adjusted, Adjusts
<1>11. ~Saved(n) /\ \A j \in Ids : ~Pending(n, j)
  BY <1>6 DEF Pending, Saved, InGroups
<1> QED BY <1>2, <1>6, <1>8, <1>10, <1>11, ReadDay

-----------------------------------------------------------------------------
\* A step that ends the handler, or takes it where it writes nothing more, and
\* stores nothing but what clock follows.
LEMMA ElsewhereDay ==
  ASSUME Typed, TurnInv, DayTyped, NEW p \in Procs, DayOf(p), UNCHANGED day, Awaits(p),
         Elsewhere(p)
  PROVE  DayOf(p)'
<1> DEFINE o == proc[p]
           n == proc'[p]
<1>1. Position(o) /\ o \in Op /\ Shape(o)
  BY TurnParts
<1>2. /\ clock' = [i \in Ids |-> IF scenarios'[i] = None THEN Fixed ELSE clock[i]]
      /\ Carried(p) /\ UNCHANGED <<jobClock, day>>
  BY DEF Elsewhere
<1>3. \A i \in Ids : scenarios'[i] # None => clock'[i] = clock[i]
  BY <1>2
<1>4. Done(o).pc \in {"idle", "evaluate"}
  BY <1>1, DonePlain DEF Plain
<1>5. ASSUME UNCHANGED scenarios, ~Saved(o), o.pc \notin {"save", "reschedule"}, ~Saved(n),
             n.pc \in {"idle", "evaluate", "drop", "read"} \/ (n.pc = "delete" /\ n.kind = "remove")
      PROVE  DayOf(p)'
  <2>1. \A i \in Ids : ~Pending(o, i)
    BY <1>5 DEF Pending
  <2>2. o.pc \notin {"save", "job"}
    BY <1>5 DEF Saved
  <2>3. /\ n.pc \notin {"insert", "save", "rollback", "reschedule"}
        /\ n.pc = "delete" => n.kind = "remove"
    BY <1>5
  <2> HIDE DEF n, o
  <2> QED BY <1>2, <1>3, <1>5, <2>1, <2>2, <2>3, NoMoreWrites DEF n, o
<1>6. CASE RemoveAdded(p)
  <2>1. n = ReadForRemove(o, o.id) /\ o.pc = "removeRead" /\ UNCHANGED scenarios
    BY <1>6 DEF RemoveAdded, Goto, Typed, TypeOK
  <2>2. n.pc \in {"idle", "evaluate"} \/ (n.pc = "delete" /\ n.kind = "remove")
    BY <1>1, <1>4, <2>1 DEF ReadForRemove, Op
  <2>3. ~Saved(n) /\ ~Saved(o)
    BY <2>1, <2>2 DEF Saved, InGroups
  <2> QED BY <1>5, <2>1, <2>2, <2>3
<1>7. CASE Delete(p)
  <2>1. /\ o.pc = "delete" /\ o.kind = "remove" /\ o.id \in Ids
        /\ scenarios' = [scenarios EXCEPT ![o.id] = None]
    BY <1>1, <1>7 DEF Delete, Shape
  <2>2. n.pc \in {"job", "groupRead"} /\ n.kind = "remove"
    BY <1>1, <1>7, <2>1 DEF Delete, Goto, Typed, TypeOK, Op
  <2>3. \A i \in Ids : ~Pending(o, i)
    BY <2>1 DEF Pending, Saved, InGroups
  <2>4. \A i \in Ids : scenarios'[i] # None => scenarios'[i] = scenarios[i]
    BY <2>1 DEF Typed, TypeOK
  <2>5. \A i \in Ids : scenarios'[i] # None =>
          /\ scenarios[i] # None /\ clock'[i] = clock[i]
          /\ scenarios'[i].name = scenarios[i].name /\ scenarios'[i].active = scenarios[i].active
          /\ scenarios'[i].trig = scenarios[i].trig
    BY <1>3, <2>4
  <2>6. ~(n.kind \in {"add", "update", "count"}) /\ n.pc # "delete"
    BY <2>2
  <2>7. o.pc \notin {"save", "job"} /\ n.pc \notin {"insert", "save", "rollback", "reschedule"}
    BY <2>1, <2>2
  <2> HIDE DEF n, o
  <2> QED BY <1>2, <2>3, <2>5, <2>6, <2>7, NoMoreWrites DEF n, o
<1>8. CASE GroupRead(p) \/ GroupSave(p)
  <2>1. UNCHANGED scenarios /\ InGroups(o)
    BY <1>8 DEF GroupRead, GroupSave, InGroups
  <2>2. \/ /\ n.pc \in {"job", "groupRead", "groupSave"} /\ n.kind = o.kind /\ n.id = o.id
           /\ n.old = o.old
        \/ o.kind = "createGroup" /\ o.id = None /\ n.pc \in {"idle", "evaluate"}
    <3>1. CASE GroupRead(p)
      <4>1. n = [o EXCEPT !.pc = "groupSave", !.count = groups[Target(o)]]
        BY <3>1 DEF GroupRead, Goto, Typed, TypeOK
      <4> QED BY <1>1, <4>1 DEF Op
    <3>2. CASE GroupSave(p)
      BY <1>4, <3>2, GroupSaves
    <3> QED BY <1>8, <3>1, <3>2
  <2>3. Saved(o) /\ (n.pc \in {"job", "groupRead", "groupSave"} <=> Saved(n))
    BY <2>1, <2>2 DEF Saved, InGroups
  <2>4. \A i \in Ids : Pending(o, i) => Saved(n) /\ n.id = i
    BY <2>2, <2>3, NoneAssumption DEF Pending
  <2>5. o.kind \in {"add", "update", "count"} =>
          o.id \in Ids /\ scenarios'[o.id] # None /\ clock'[o.id] = clock[o.id]
    BY <1>1, <1>3, <2>1, <2>3, NoneAssumption DEF Position, Shape
  <2>6. Saved(n) /\ n.kind \in {"add", "update", "count"} =>
          /\ Saved(o) /\ n.id = o.id /\ n.kind = o.kind /\ n.old = o.old
          /\ clock'[o.id] = clock[o.id]
    BY <2>2, <2>3, <2>5
  <2>7. o.pc \notin {"save", "job"} /\ n.pc \notin {"insert", "save", "rollback", "reschedule", "delete"}
    BY <2>1, <2>2 DEF InGroups
  <2> HIDE DEF n, o
  <2> QED BY <1>2, <1>3, <2>1, <2>4, <2>6, <2>7, NoMoreWrites DEF n, o
<1>9. CASE ClearGroup(p)
  <2>1. /\ o.pc = "clear" /\ n.pc = "drop"
        /\ scenarios' = [i \in Ids |-> IF i \notin Members(o.leave) THEN scenarios[i]
                                       ELSE IF o.kind = "purgeGroup" THEN None
                                       ELSE [scenarios[i] EXCEPT !.group = None]]
    BY <1>1, <1>9 DEF ClearGroup, Goto, Typed, TypeOK, Op
  <2>2. ~Saved(n) /\ ~Saved(o) /\ \A i \in Ids : ~Pending(o, i)
    BY <2>1 DEF Pending, Saved, InGroups
  <2>3. ASSUME NEW i \in Ids, scenarios'[i] # None
        PROVE  /\ scenarios[i] # None /\ scenarios'[i].name = scenarios[i].name
               /\ scenarios'[i].active = scenarios[i].active /\ scenarios'[i].trig = scenarios[i].trig
    <3>1. CASE i \notin Members(o.leave)
      BY <2>1, <2>3, <3>1
    <3>2. CASE i \in Members(o.leave)
      <4>1. scenarios[i] # None /\ scenarios[i] \in Scenario
        BY <3>2 DEF Members, Typed, TypeOK
      <4>2. scenarios'[i] = [scenarios[i] EXCEPT !.group = None]
        BY <2>1, <2>3, <3>2
      <4> QED BY <4>1, <4>2 DEF Scenario
    <3> QED BY <3>1, <3>2
  <2>4. /\ o.pc \notin {"save", "job"}
        /\ n.pc \notin {"insert", "save", "rollback", "reschedule", "delete"}
    BY <2>1
  <2> HIDE DEF n, o
  <2> QED BY <1>2, <1>3, <2>2, <2>3, <2>4, NoMoreWrites DEF n, o
<1>10. CASE DropGroup(p)
  <2>1. n = Done(o) /\ o.pc = "drop" /\ UNCHANGED scenarios
    BY <1>10 DEF DropGroup
  <2>2. ~Saved(n) /\ ~Saved(o)
    BY <1>4, <2>1 DEF Saved, InGroups
  <2> QED BY <1>4, <1>5, <2>1, <2>2
<1>11. ASSUME NEW e \in o.queue, Execute(p, e) \/ SkipExecution(p, e) PROVE DayOf(p)'
  <2> DEFINE rest == [o EXCEPT !.queue = @ \ {e}]
  <2>1. o.pc = "evaluate" /\ UNCHANGED scenarios
    BY <1>11 DEF Execute, SkipExecution
  <2>2. rest \in Op
    BY <1>1 DEF Op
  <2>3. Done(rest).pc \in {"idle", "evaluate"}
    BY <2>2, DonePlain DEF Plain
  <2>4. n = Done(rest) \/ n = [rest EXCEPT !.pc = "read", !.id = e.id, !.dto = Decrement(e.doc)]
    BY <1>11 DEF Execute, SkipExecution, Goto, Typed, TypeOK
  <2> HIDE DEF rest
  <2>5. n.pc \in {"idle", "evaluate", "read"}
    BY <2>2, <2>3, <2>4 DEF Op
  <2>6. ~Saved(n) /\ ~Saved(o)
    BY <2>1, <2>5 DEF Saved, InGroups
  <2> QED BY <1>5, <2>1, <2>5, <2>6
<1> QED BY <1>6, <1>7, <1>8, <1>9, <1>10, <1>11 DEF Elsewhere

\* What an addition inserts has the string that was computed for it.
LEMMA InsertDay ==
  ASSUME Typed, TurnInv, DayTyped, NEW p \in Procs, DayOf(p), UNCHANGED day, Awaits(p),
         InsertAdjusted(p)
  PROVE  DayOf(p)'
<1> DEFINE o == proc[p]
           n == proc'[p]
<1>1. Position(o) /\ o \in Op /\ Shape(o) /\ Ticking(o, carry[p]) /\ Nightly(o, carry[p])
  BY TurnParts DEF DayOf
<1>2. /\ o.pc = "insert" /\ o.kind = "add" /\ o.id \in Ids /\ o.new \in Scenario /\ o.new # None
      /\ scenarios[o.id] = None /\ ~NameTaken(o.new.name, o.id)
  BY <1>1, NoneAssumption DEF InsertAdjusted, Insert, Position, Shape
<1>3. /\ scenarios' = [scenarios EXCEPT ![o.id] = o.new] /\ UNCHANGED jobClock
      /\ n.pc \in {"job", "groupRead"} /\ n.kind = "add" /\ n.id = o.id
  <2>1. n = [o EXCEPT !.join = o.new.group,
                      !.pc = IF o.new.group = None THEN "job" ELSE "groupRead"]
    BY <1>2 DEF InsertAdjusted, Insert, Goto, Typed, TypeOK
  <2>2. n.kind = o.kind /\ n.id = o.id /\ n.pc \in {"job", "groupRead"}
    BY <1>1, <2>1 DEF Op
  <2> QED BY <1>2, <2>2 DEF InsertAdjusted, Insert
<1>4. /\ scenarios'[o.id] = o.new /\ \A i \in Ids : i # o.id => scenarios'[i] = scenarios[i]
  BY <1>2, <1>3 DEF Typed, TypeOK
<1>5. /\ clock'[o.id] = carry[p].new /\ \A i \in Ids : i # o.id => clock'[i] = clock[i]
  BY <1>2, <1>4 DEF InsertAdjusted, DayTyped
<1>6. carry' = carry /\ night' = night /\ (night.pc # "off" => night.pc # "await")
  BY <1>1, <1>2, <1>3 DEF InsertAdjusted, Carried, Awaits, Nightly
<1>7. Ticking(proc[p], carry[p])'
  <2>1. ASSUME NEW i \in Ids, Runs(scenarios[i])', ~Pending(proc[p], i)'
        PROVE  jobClock'[scenarios'[i].name] = clock'[i]
    <3>1. i # o.id
      BY <1>3, <2>1 DEF Pending, Saved, InGroups
    <3>2. Runs(scenarios[i]) /\ ~Pending(o, i)
      BY <1>4, <2>1, <3>1 DEF Pending, Runs, Scheduled, HasCron
    <3> QED BY <1>1, <1>3, <1>4, <1>5, <3>1, <3>2 DEF Ticking
  <2> QED BY <1>3, <1>5, <1>6, <2>1 DEF Ticking
<1>8. Nightly(proc[p], carry[p])'
  <2> SUFFICES ASSUME night.pc # "off" PROVE Nightly(proc[p], carry[p])'
    BY <1>6 DEF Nightly
  <2>1. Adjusted(o.new, carry[p].new, o.id) /\ \A i \in Ids : Adjusted(scenarios[i], clock[i], i)
    BY <1>1, <1>2, <1>6 DEF Nightly
  <2>2. \A i : Due(i)' = Due(i)
    BY <1>6 DEF Due
  <2>3. ASSUME NEW i \in Ids PROVE Adjusted(scenarios[i], clock[i], i)'
    <3>1. CASE i = o.id
      BY <1>4, <1>5, <2>1, <2>2, <3>1 DEF Adjusted, Adjusts
    <3>2. CASE i # o.id
      BY <1>4, <1>5, <2>1, <2>2, <3>2 DEF Adjusted, Adjusts
    <3> QED BY <3>1, <3>2
  <2> QED BY <1>3, <1>6, <2>3 DEF Nightly
<1> QED BY <1>7, <1>8 DEF DayOf

-----------------------------------------------------------------------------
\* An update that is saved writes the string that it carries; the nightly one is
\* always saved.
LEMMA SaveDay ==
  ASSUME Typed, TurnInv, DayTyped, NEW p \in Procs, DayOf(p), UNCHANGED day, Awaits(p),
         SaveAdjusted(p)
  PROVE  DayOf(p)'
<1> DEFINE o == proc[p]
           n == proc'[p]
<1>1. Position(o) /\ o \in Op /\ Shape(o) /\ Ticking(o, carry[p]) /\ Nightly(o, carry[p])
  BY TurnParts DEF DayOf
<1>2. /\ o.pc = "save" /\ o.kind \in {"update", "count"} /\ o.id \in Ids
      /\ o.new \in Scenario /\ o.old \in Scenario /\ o.new # None /\ scenarios[o.id] = o.old
      /\ o.old # None /\ HoldsOld(o)
      /\ o.kind = "count" => CountsDown(o.old, o.new) /\ ~NameTaken(o.old.name, o.id)
      /\ o.kind = "update" => o.queue = {}
  BY <1>1, NoneAssumption DEF SaveAdjusted, SaveUpdate, Position, Shape, HoldsOld, Ticking
<1>3. Merge(scenarios[o.id], o.old, o.new) = o.new
  BY <1>2, MergeCurrent
<1>4. UNCHANGED jobClock /\ SaveUpdate(p) /\ Carried(p)
  BY DEF SaveAdjusted
<1>5. \A i : Pending(o, i) <=> FALSE
  BY <1>2 DEF Pending, Saved, InGroups
<1>6. CASE o.new.name # o.old.name /\ NameTaken(o.new.name, o.id)
  <2>1. o.kind = "update"
    BY <1>2, <1>6 DEF CountsDown
  <2>2. n = Idle /\ UNCHANGED scenarios
    BY <1>2, <1>4, <1>6, <2>1 DEF SaveUpdate, Goto, Done, Typed, TypeOK
  <2>3. n.pc = "idle"
    BY <2>2 DEF Idle
  <2>4. clock' = clock
    BY <1>2, <2>3 DEF SaveAdjusted, DayTyped
  <2>5. night' = night /\ (night.pc # "off" => night.pc # "await")
    BY <1>1, <2>1 DEF Awaits, Nightly
  <2>6. ~Saved(proc[p])' /\ ~HoldsOld(proc[p])'
    BY <2>3 DEF Saved, InGroups, HoldsOld
  <2>7. Ticking(proc[p], carry[p])'
    <3>1. \A i : Runs(scenarios[i])' = Runs(scenarios[i])
      BY <2>2 DEF Runs, Scheduled, HasCron
    <3> QED BY <1>1, <1>4, <1>5, <2>2, <2>3, <2>4, <2>6, <3>1 DEF Ticking
  <2>8. Nightly(proc[p], carry[p])'
    <3>1. \A i : Adjusts(scenarios[i])' = Adjusts(scenarios[i]) /\ Due(i)' = Due(i)
      BY <2>2, <2>5 DEF Adjusts, Due
    <3> QED BY <1>1, <2>2, <2>3, <2>4, <2>5, <2>6, <3>1 DEF Nightly, Adjusted
  <2> QED BY <2>7, <2>8 DEF DayOf
<1>7. CASE ~(o.new.name # o.old.name /\ NameTaken(o.new.name, o.id))
  <2>1. /\ scenarios' = [scenarios EXCEPT ![o.id] = o.new]
        /\ n = IF o.old.group = o.new.group THEN [o EXCEPT !.pc = "job"]
               ELSE [o EXCEPT !.pc = "groupRead", !.leave = o.old.group, !.join = o.new.group]
    BY <1>2, <1>3, <1>4, <1>7 DEF SaveUpdate, Goto, Typed, TypeOK
  <2>2. /\ n.pc = (IF o.old.group = o.new.group THEN "job" ELSE "groupRead")
        /\ n.kind = o.kind /\ n.id = o.id /\ n.old = o.old /\ n.queue = o.queue /\ n.new = o.new
    BY <1>1, <2>1 DEF Op
  <2>3. /\ scenarios'[o.id] = o.new /\ \A i \in Ids : i # o.id => scenarios'[i] = scenarios[i]
    BY <1>2, <2>1 DEF Typed, TypeOK
  <2>4. /\ clock'[o.id] = carry[p].new /\ \A i \in Ids : i # o.id => clock'[i] = clock[i]
    BY <1>2, <2>2 DEF SaveAdjusted, DayTyped
  <2>5. carry' = carry /\ night' = night
    BY <1>4, <2>2 DEF Carried, Awaits
  <2>6. Saved(proc[p])' /\ n.pc \notin {"insert", "save", "reschedule", "idle"}
    BY <2>2 DEF Saved, InGroups
  <2>7. Ticking(proc[p], carry[p])'
    <3>1. ASSUME NEW i \in Ids, Runs(scenarios[i])', ~Pending(proc[p], i)'
          PROVE  jobClock'[scenarios'[i].name] = clock'[i]
      <4>1. i # o.id
        BY <2>2, <2>6, <3>1 DEF Pending
      <4>2. Runs(scenarios[i])
        BY <2>3, <3>1, <4>1 DEF Runs, Scheduled, HasCron
      <4> QED BY <1>1, <1>4, <1>5, <2>3, <2>4, <4>1, <4>2 DEF Ticking
    <3> QED BY <2>2, <2>4, <2>5, <2>6, <3>1 DEF Ticking
  <2>8. Nightly(proc[p], carry[p])'
    <3> SUFFICES ASSUME night.pc # "off" PROVE Nightly(proc[p], carry[p])'
      BY <2>5 DEF Nightly
    <3>1. Adjusted(o.new, carry[p].new, o.id)
          /\ \A i \in Ids : i # o.id => Adjusted(scenarios[i], clock[i], i)
      BY <1>1, <1>2 DEF Nightly
    <3>2. \A i : Due(i)' = Due(i)
      BY <2>5 DEF Due
    <3>3. ASSUME NEW i \in Ids PROVE Adjusted(scenarios[i], clock[i], i)'
      <4>1. CASE i = o.id
        BY <2>3, <2>4, <3>1, <3>2, <4>1 DEF Adjusted, Adjusts
      <4>2. CASE i # o.id
        BY <2>3, <2>4, <3>1, <3>2, <4>2 DEF Adjusted, Adjusts
      <4> QED BY <4>1, <4>2
    <3>4. ASSUME night.pc = "await"
          PROVE  /\ n.pc = "job" /\ n.kind = "count" /\ n.queue = {}
                 /\ Adjusts(proc[p].new)' /\ carry'[p].new = day
      <4>1. o.kind = "count" /\ o.queue = {} /\ Adjusts(o.new) /\ carry[p].new = day
        BY <1>1, <3>4 DEF Nightly
      <4>2. o.new.group = o.old.group
        BY <1>2, <4>1 DEF CountsDown
      <4> QED BY <2>2, <2>5, <4>1, <4>2 DEF Adjusts
    <3>5. n.kind = "update" => Adjusted(proc[p].old, carry[p].old, proc[p].id)'
      <4>1. o.kind = "update" => Adjusted(o.old, carry[p].old, o.id)
        BY <1>1, <1>2 DEF Nightly
      <4> QED BY <2>2, <2>5, <3>2, <4>1 DEF Adjusted, Adjusts
    <3> QED BY <2>5, <2>6, <3>3, <3>4, <3>5 DEF Nightly
  <2> QED BY <2>7, <2>8 DEF DayOf
<1> QED BY <1>6, <1>7

\* The last step of a handler on the registry: the job that it creates, if any,
\* ticks at the time of the document that it has written.
LEMMA JobDay ==
  ASSUME Typed', TurnInv', DayTyped, NEW p \in Procs, DayOf(p), Shape(proc[p]),
         UNCHANGED <<scenarios, clock, day>>, Awaits(p), Carried(p),
         proc[p].pc = "job",
         proc'[p].pc \in {"idle", "evaluate", "removeRead", "rollback"},
         proc'[p].pc = "rollback" =>
           proc'[p].id = proc[p].id /\ proc'[p].old = proc[p].old /\ proc'[p].kind = proc[p].kind,
         proc[p].kind = "count" /\ proc[p].queue = {} => proc'[p].pc \in {"idle", "rollback"},
         NEW m, Schedules(m, carry[p].new),
         \A i \in Ids : Runs(scenarios[i]) =>
           IF i = proc[p].id THEN scenarios[i].name = m /\ proc[p].kind \in {"add", "update", "count"}
           ELSE scenarios[i].name # m
  PROVE  DayOf(p)'
<1> DEFINE o == proc[p]
           n == proc'[p]
<1>1. Ticking(o, carry[p]) /\ Nightly(o, carry[p])
  BY DEF DayOf
<1>2. /\ ~Saved(proc[p])' /\ \A i : ~Pending(proc[p], i)'
      /\ HoldsOld(proc[p])' => n.pc = "rollback"
  BY DEF Saved, InGroups, Pending, HoldsOld
<1>3. Saved(o)
  BY DEF Saved
<1>4. Ticking(proc[p], carry[p])'
  <2>1. ASSUME NEW i \in Ids, Runs(scenarios[i])'
        PROVE  jobClock'[scenarios'[i].name] = clock'[i]
    <3>1. Runs(scenarios[i])
      BY <2>1 DEF Runs, Scheduled, HasCron
    <3>2. scenarios'[i].name \in Names /\ jobs'[scenarios'[i].name] = i /\ i # None
      BY <1>2, <2>1, TurnPartsNext, JobNamedNext, NoneAssumption
    <3>3. jobClock'[scenarios'[i].name] =
            IF scenarios[i].name = m THEN carry[p].new ELSE jobClock[scenarios[i].name]
      BY <3>2 DEF Schedules
    <3>4. CASE i = o.id
      BY <1>1, <1>3, <3>1, <3>3, <3>4 DEF Ticking
    <3>5. CASE i # o.id
      BY <1>1, <3>1, <3>3, <3>5 DEF Ticking, Pending
    <3> QED BY <3>4, <3>5
  <2> QED BY <1>2, <2>1 DEF Ticking
<1>5. Nightly(proc[p], carry[p])'
  <2> SUFFICES ASSUME night'.pc # "off" PROVE Nightly(proc[p], carry[p])'
    BY DEF Nightly
  <2>1. night'.pc # "await"
    <3>1. CASE night.pc # "await"
      BY <3>1 DEF Awaits
    <3>2. CASE night.pc = "await"
      <4>1. o.kind = "count" /\ o.queue = {}
        BY <1>1, <3>2 DEF Nightly
      <4>2. n.pc # "rollback"
        <5>1. n.pc = "rollback" => n.kind = "update"
          BY TurnPartsNext DEF Position
        <5> QED BY <4>1, <5>1
      <4>3. n.pc = "idle"
        BY <4>1, <4>2
      <4> QED BY <3>2, <4>3 DEF Awaits, Asleep, DayTyped
    <3> QED BY <3>1, <3>2
  <2>2. night.pc # "off" /\ night'.todo = night.todo
    BY DEF Awaits, Asleep, DayTyped
  <2>3. \A i : Due(i)' = Due(i) /\ Adjusts(scenarios[i])' = Adjusts(scenarios[i])
    BY <2>2 DEF Due, Adjusts
  <2>4. \A i \in Ids : Adjusted(scenarios[i], clock[i], i)'
    BY <1>1, <2>2, <2>3 DEF Nightly, Adjusted
  <2>5. HoldsOld(proc[p])' /\ n.kind = "update" => Adjusted(proc[p].old, carry[p].old, proc[p].id)'
    <3>1. HoldsOld(proc[p])' /\ n.kind = "update" =>
            n.pc = "rollback" /\ o.kind = "update" /\ HoldsOld(o) /\ carry' = carry
      BY <1>2, <1>3 DEF HoldsOld, Carried
    <3>2. o.kind = "update" /\ HoldsOld(o) => Adjusted(o.old, carry[p].old, o.id)
      BY <1>1, <2>2 DEF Nightly
    <3> QED BY <2>3, <3>1, <3>2 DEF Adjusted, Adjusts
  <2> QED BY <2>1, <2>4, <2>5 DEF Nightly
<1> QED BY <1>4, <1>5 DEF DayOf

-----------------------------------------------------------------------------
\* Only an update that is refused has still something to do, and no job is missing.
LEMMA NeverThrows ==
  ASSUME Typed, TurnInv, NEW p \in Procs, proc[p].pc = "job", proc[p].kind \in {"update", "count"}
  PROVE  ~Throws(p)
<1> DEFINE o == proc[p]
<1>1. Position(o) /\ o \in Op /\ Shape(o) /\ o.id # None
  BY TurnParts, NoneAssumption DEF Shape
<1>2. ~Refused(o.old)
  BY <1>1 DEF Position, HoldsOld, Saved, Revises, CountsDown
<1>3. Scheduled(o.old) => jobs[o.old.name] = o.id
  BY <1>2, ReleaseOne DEF Refused, Runs
<1> QED BY <1>1, <1>3 DEF Throws

\* The job of an addition, a removal or an update.
LEMMA ScheduleDay ==
  ASSUME Typed, TurnInv, Typed', TurnInv', DayTyped, NEW p \in Procs, DayOf(p), UNCHANGED day,
         Awaits(p), ScheduleAdjusted(p)
  PROVE  DayOf(p)'
<1> DEFINE o == proc[p]
           n == proc'[p]
<1>1. /\ NamesUnique /\ Registry(o) /\ Position(o) /\ o \in Op /\ Shape(o)
      /\ Done(o).pc \in {"idle", "evaluate"} /\ (o.queue = {} => Done(o).pc = "idle")
  <2>1. o \in Op
    BY TurnParts
  <2>2. Done(o).pc \in {"idle", "evaluate"}
    BY <2>1, DonePlain DEF Plain
  <2> QED BY <2>2, TurnParts DEF Done, Idle
<1>2. /\ o.pc = "job" /\ o.id \in Ids /\ Saved(o) /\ UNCHANGED <<scenarios, clock>> /\ Carried(p)
      /\ o.kind \in {"add", "update", "count", "remove"}
  BY <1>1 DEF ScheduleAdjusted, ScheduleAdded, Unschedule, Reschedule, Shape, Saved
<1>3. \A i \in Ids : Runs(scenarios[i]) => scenarios[i].name \in Names /\ scenarios[i].name # None
  BY NoneAssumption DEF Runs, Scheduled, Typed, TypeOK, Scenario
<1>4. \A i \in Ids : Runs(scenarios[i]) /\ i # o.id /\ o.kind \in {"add", "update", "count"} =>
        scenarios[i].name # o.new.name
  BY <1>1, <1>2, NoneAssumption DEF NamesUnique, Runs, Scheduled, Position, Shape, Saved
<1>5. CASE ScheduleAdded(p)
  <2> DEFINE m == IF jobs' = jobs THEN None ELSE o.new.name
  <2>1. /\ o.kind = "add" /\ scenarios[o.id] = o.new
        /\ n = Done(o) \/ n = [o EXCEPT !.pc = "removeRead", !.kind = "remove"]
    BY <1>1, <1>2, <1>5 DEF ScheduleAdded, Position, Goto, Typed, TypeOK
  <2>2. n.pc \in {"idle", "evaluate", "removeRead"}
    BY <1>1, <2>1 DEF Op
  <2>3. Schedules(m, carry[p].new)
    BY <1>5, <2>1 DEF ScheduleAdjusted, Unschedule, Reschedule
  <2>4. Runs(scenarios[o.id]) => jobs' # jobs
    <3>1. ~Runs(Registered(o, o.id))
      BY <1>2, <2>1 DEF Registered, Runs, Scheduled
    <3>2. Runs(scenarios[o.id]) => jobs[scenarios[o.id].name] # o.id
      BY <1>1, <1>2, <1>3, <3>1 DEF Registry
    <3>3. \A i : ~Pending(proc[p], i)'
      BY <2>2 DEF Pending, Saved, InGroups
    <3>4. Registry(proc[p])'
      BY TurnPartsNext
    <3>5. ASSUME NEW i \in Ids, i = o.id, Runs(scenarios[i]) PROVE jobs'[scenarios'[i].name] = i
      <4>1. Runs(scenarios[i])'
        BY <1>2, <3>5 DEF Runs, Scheduled, HasCron
      <4> QED BY <3>3, <3>4, <4>1, JobNamedNext
    <3> QED BY <1>2, <3>2, <3>5
  <2>5. \A i \in Ids : Runs(scenarios[i]) =>
          IF i = o.id THEN scenarios[i].name = m /\ o.kind \in {"add", "update", "count"}
          ELSE scenarios[i].name # m
    BY <1>3, <1>4, <2>1, <2>4
  <2>6. o.kind # "count" /\ n.pc # "rollback"
    BY <2>1, <2>2
  <2> HIDE DEF n, o, m
  <2> QED BY <1>1, <1>2, <2>2, <2>3, <2>5, <2>6, JobDay DEF n, o
<1>6. CASE Unschedule(p)
  <2>1. /\ o.kind = "remove" /\ scenarios[o.id] = None /\ n = Done(o)
    BY <1>1, <1>2, <1>6 DEF Unschedule, Position, Goto, Typed, TypeOK
  <2>2. Schedules(None, Fixed)
    BY <1>6, <2>1 DEF ScheduleAdjusted, ScheduleAdded, Reschedule, NoneScheduled
  <2>3. Schedules(None, carry[p].new)
    BY <2>2, NoneAssumption DEF Schedules
  <2>4. \A i \in Ids : Runs(scenarios[i]) => i # o.id /\ scenarios[i].name # None
    BY <1>3, <2>1 DEF Runs, Scheduled
  <2>5. n.pc \in {"idle", "evaluate", "removeRead", "rollback"} /\ n.pc # "rollback" /\ o.kind # "count"
    BY <1>1, <2>1
  <2> HIDE DEF n, o
  <2> QED BY <1>1, <1>2, <2>3, <2>4, <2>5, JobDay DEF n, o
<1>7. CASE Reschedule(p)
  <2> DEFINE m == IF Scheduled(o.new) /\ n.pc # "rollback" THEN o.new.name ELSE None
  <2>1. /\ o.kind \in {"update", "count"} /\ scenarios[o.id] = o.new
        /\ n = Done(o) \/ n = [o EXCEPT !.pc = "rollback"]
    BY <1>1, <1>2, <1>7 DEF Reschedule, Position, Goto, Typed, TypeOK
  <2>2. ~Throws(p)
    BY <1>2, <2>1, NeverThrows
  <2>3. Schedules(m, carry[p].new)
    BY <1>7, <2>1, <2>2 DEF ScheduleAdjusted, ScheduleAdded, Unschedule
  <2>4. n.pc \in {"idle", "evaluate", "rollback"} /\ (o.queue = {} => n.pc \in {"idle", "rollback"})
        /\ (n.pc = "rollback" => n.id = o.id /\ n.old = o.old /\ n.kind = o.kind /\ n.new = o.new)
    BY <1>1, <2>1 DEF Op
  <2>5. n.pc = "rollback" => Refused(o.new)
    <3>1. n.pc = "rollback" => Refused(proc[p].new)'
      BY TurnPartsNext DEF Position
    <3> QED BY <2>4, <3>1 DEF Refused, Scheduled, HasCron
  <2>6. Runs(o.new) => n.pc # "rollback" /\ Scheduled(o.new)
    BY <2>5 DEF Runs, Refused
  <2>7. \A i \in Ids : Runs(scenarios[i]) =>
          IF i = o.id THEN scenarios[i].name = m /\ o.kind \in {"add", "update", "count"}
          ELSE scenarios[i].name # m
    BY <1>3, <1>4, <2>1, <2>6
  <2> HIDE DEF n, o, m
  <2> QED BY <1>1, <1>2, <2>3, <2>4, <2>7, JobDay DEF n, o
<1> QED BY <1>5, <1>6, <1>7 DEF ScheduleAdjusted

\* A refused update is rolled back, document and job to the old string.
LEMMA RollbackDay ==
  ASSUME Typed, TurnInv, Typed', TurnInv', DayTyped, NEW p \in Procs, DayOf(p), UNCHANGED day,
         Awaits(p), RollbackAdjusted(p)
  PROVE  DayOf(p)'
<1> DEFINE o == proc[p]
           n == proc'[p]
<1>1. /\ Registry(o) /\ Position(o) /\ o \in Op /\ Shape(o)
      /\ Ticking(o, carry[p]) /\ Nightly(o, carry[p])
  BY TurnParts DEF DayOf
<1>2. /\ o.pc \in {"rollback", "reschedule"} /\ o.kind = "update" /\ o.id \in Ids
      /\ o.old \in Scenario /\ HoldsOld(o) /\ ~NameTaken(o.old.name, o.id)
      /\ ~Saved(o) /\ Carried(p)
  BY <1>1 DEF RollbackAdjusted, Rollback, RescheduleOld, Position, Shape, HoldsOld, Saved, InGroups
<1>3. night' = night /\ (night.pc # "off" => night.pc # "await")
      /\ (night.pc # "off" => Adjusted(o.old, carry[p].old, o.id))
  BY <1>1, <1>2 DEF Nightly, Awaits
<1>4. CASE Rollback(p)
  <2>1. /\ o.pc = "rollback" /\ scenarios[o.id] = o.new /\ scenarios[o.id] # None
        /\ n = [o EXCEPT !.pc = "reschedule"]
    BY <1>1, <1>2, <1>4, NoneAssumption DEF Rollback, Position, Shape, Goto, Typed, TypeOK
  <2>2. /\ n.pc = "reschedule" /\ n.id = o.id /\ n.old = o.old /\ n.kind = "update"
    BY <1>1, <1>2, <2>1 DEF Op
  <2>3. UNCHANGED jobClock /\ clock' = [clock EXCEPT ![o.id] = carry[p].old] /\ carry' = carry
    BY <1>4, <2>1, <2>2 DEF RollbackAdjusted, RescheduleOld, Carried
  <2>4. /\ scenarios'[o.id].trig = o.old.trig /\ scenarios'[o.id] # None
        /\ \A i \in Ids : i # o.id => scenarios'[i] = scenarios[i]
    <3>1. scenarios'[proc'[p].id] = [proc'[p].old EXCEPT !.repeat = scenarios'[proc'[p].id].repeat]
          /\ scenarios'[proc'[p].id] # None
      BY <2>2, TurnPartsNext DEF Position
    <3>2. scenarios'[o.id].trig = o.old.trig /\ scenarios'[o.id] # None
      BY <1>2, <2>2, <3>1 DEF Scenario
    <3>3. \A i \in Ids : i # o.id => scenarios'[i] = scenarios[i]
      BY <1>2, <1>4, <2>1 DEF Rollback, Typed, TypeOK
    <3> QED BY <3>2, <3>3
  <2>5. Ticking(proc[p], carry[p])'
    <3>1. ASSUME NEW i \in Ids, Runs(scenarios[i])', ~Pending(proc[p], i)'
          PROVE  jobClock'[scenarios'[i].name] = clock'[i]
      <4>1. i # o.id
        BY <2>2, <3>1 DEF Pending
      <4>2. Runs(scenarios[i])
        BY <2>4, <3>1, <4>1 DEF Runs, Scheduled, HasCron
      <4> QED BY <1>1, <2>3, <2>4, <4>1, <4>2 DEF Ticking, Pending, DayTyped
    <3>2. ~Saved(proc[p])'
      BY <2>2 DEF Saved, InGroups
    <3>3. clock'[o.id] = carry'[p].old
      BY <1>2, <2>3 DEF DayTyped
    <3> QED BY <2>2, <3>1, <3>2, <3>3 DEF Ticking
  <2>6. Nightly(proc[p], carry[p])'
    <3> SUFFICES ASSUME night.pc # "off" PROVE Nightly(proc[p], carry[p])'
      BY <1>3 DEF Nightly
    <3>1. \A i : Due(i)' = Due(i)
      BY <1>3 DEF Due
    <3>2. \A i \in Ids : Adjusted(scenarios[i], clock[i], i)
      BY <1>1, <1>3 DEF Nightly
    <3>3. ASSUME NEW i \in Ids PROVE Adjusted(scenarios[i], clock[i], i)'
      <4>1. CASE i = o.id
        <5>1. Adjusts(scenarios[i])' <=> Adjusts(o.old)
          BY <1>2, <2>4, <4>1, NoneAssumption DEF Adjusts
        <5>2. clock'[i] = carry[p].old
          BY <1>2, <2>3, <4>1 DEF DayTyped
        <5> QED BY <1>3, <3>1, <4>1, <5>1, <5>2 DEF Adjusted
      <4>2. CASE i # o.id
        BY <2>3, <2>4, <3>1, <3>2, <4>2 DEF Adjusted, Adjusts, DayTyped
      <4> QED BY <4>1, <4>2
    <3>4. Adjusted(proc[p].old, carry[p].old, proc[p].id)'
      BY <1>3, <2>2, <2>3, <3>1 DEF Adjusted, Adjusts
    <3> QED BY <1>3, <2>2, <3>3, <3>4 DEF Nightly
  <2> QED BY <2>5, <2>6 DEF DayOf
<1>5. CASE RescheduleOld(p)
  <2> DEFINE m == IF jobs' = jobs THEN None ELSE o.old.name
  <2>1. /\ o.pc = "reschedule" /\ scenarios[o.id].name = o.old.name /\ scenarios[o.id] # None
        /\ n = Done(o) /\ UNCHANGED <<scenarios, clock>>
    <3>1. o.pc = "reschedule" /\ n = Done(o) /\ UNCHANGED <<scenarios, clock>>
      BY <1>2, <1>5 DEF RollbackAdjusted, RescheduleOld, Rollback, Goto, Typed, TypeOK
    <3>2. scenarios[o.id] = [o.old EXCEPT !.repeat = scenarios[o.id].repeat] /\ scenarios[o.id] # None
      BY <1>1, <3>1 DEF Position
    <3>3. scenarios[o.id].name = o.old.name
      BY <1>2, <3>2 DEF Scenario
    <3> QED BY <3>1, <3>2, <3>3
  <2>2. n.pc \in {"idle", "evaluate"}
    BY <1>1, <2>1, DonePlain DEF Plain
  <2>3. ~Saved(proc[p])' /\ ~HoldsOld(proc[p])' /\ \A i : ~Pending(proc[p], i)'
    BY <2>2 DEF Saved, InGroups, HoldsOld, Pending
  <2>4. Schedules(m, carry[p].old)
    BY <1>5, <2>1 DEF RollbackAdjusted, Rollback, Restored
  <2>5. Ticking(proc[p], carry[p])'
    <3>1. ASSUME NEW i \in Ids, Runs(scenarios[i])'
          PROVE  jobClock'[scenarios'[i].name] = clock'[i]
      <4>1. Runs(scenarios[i]) /\ scenarios[i] # None
        BY <2>1, <3>1 DEF Runs, Scheduled, HasCron
      <4>2. scenarios[i].name \in Names /\ jobs'[scenarios[i].name] = i /\ i # None
        BY <2>1, <2>3, <3>1, TurnPartsNext, JobNamedNext, NoneAssumption
      <4>3. jobClock'[scenarios[i].name] =
              IF scenarios[i].name = m THEN carry[p].old ELSE jobClock[scenarios[i].name]
        BY <2>4, <4>2 DEF Schedules
      <4>4. CASE i = o.id
        <5>1. Registered(o, i) = None
          BY <2>1, <4>4 DEF Registered
        <5>2. jobs[scenarios[i].name] # i
          BY <1>1, <4>2, <5>1 DEF Registry, Runs, Scheduled
        <5>3. scenarios[i].name = m
          BY <2>1, <4>2, <4>4, <5>2
        <5>4. clock'[i] = carry[p].old
          BY <1>1, <2>1, <4>4 DEF Ticking
        <5> QED BY <2>1, <4>3, <5>3, <5>4
      <4>5. CASE i # o.id
        <5>1. scenarios[i].name # m
          BY <1>2, <4>1, <4>2, <4>5, NoneAssumption DEF NameTaken
        <5>2. jobClock[scenarios[i].name] = clock[i]
          BY <1>1, <4>1, <4>5 DEF Ticking, Pending
        <5> QED BY <2>1, <4>3, <5>1, <5>2
      <4> QED BY <4>4, <4>5
    <3> QED BY <2>2, <2>3, <3>1 DEF Ticking
  <2>6. Nightly(proc[p], carry[p])'
    <3>1. \A i : Due(i)' = Due(i) /\ Adjusts(scenarios[i])' = Adjusts(scenarios[i])
      BY <1>3, <2>1 DEF Due, Adjusts
    <3> QED BY <1>1, <1>3, <2>1, <2>2, <2>3, <3>1 DEF Nightly, Adjusted
  <2> QED BY <2>5, <2>6 DEF DayOf
<1> QED BY <1>4, <1>5 DEF RollbackAdjusted

-----------------------------------------------------------------------------
(* The theorems.                                                           *)

\* The strings at boot are those of the documents.
LEMMA InitDay == DayInit => DayTyped /\ \A p \in Procs : DayOf(p)
<1> SUFFICES ASSUME DayInit PROVE DayTyped /\ \A p \in Procs : DayOf(p)
  OBVIOUS
<1>1. Typed /\ TurnInv
  BY InitTyped, InitTurn DEF DayInit
<1>2. /\ day = 0 /\ night = Asleep
      /\ clock = [i \in Ids |-> IF Adjusts(scenarios[i]) THEN 0 ELSE Fixed]
      /\ jobClock = [n \in Names |-> IF jobs[n] = None THEN Fixed ELSE clock[jobs[n]]]
      /\ carry = [p \in Procs |-> Nothing] /\ proc = [p \in Procs |-> Idle]
  BY DEF DayInit, Init
<1>3. clock \in [Ids -> Int]
  BY <1>2 DEF Fixed
<1>4. DayTyped
  <2>1. jobClock \in [Names -> Int]
    BY <1>1, <1>2, <1>3 DEF Fixed, Typed, TypeOK
  <2>2. Nothing \in [old : Int, new : Int]
    BY DEF Nothing, Fixed
  <2>3. Asleep \in [pc : {"off", "loop", "await"}, todo : SUBSET [id : Ids, trig : AdjustTo \cup NullAdjust]]
    BY DEF Asleep
  <2> QED BY <1>2, <1>3, <2>1, <2>2, <2>3 DEF DayTyped
<1>5. ASSUME NEW p \in Procs PROVE DayOf(p)
  <2>1. proc[p].pc = "idle"
    BY <1>2 DEF Idle
  <2>2. ~Saved(proc[p]) /\ \A i : ~Pending(proc[p], i)
    BY <2>1 DEF Saved, InGroups, Pending
  <2>3. ASSUME NEW i \in Ids, Runs(scenarios[i]) PROVE jobClock[scenarios[i].name] = clock[i]
    <3>1. Registry(proc[p])
      BY <1>1, TurnParts
    <3>2. scenarios[i].name \in Names /\ jobs[scenarios[i].name] = i
      BY <1>1, <2>2, <2>3, <3>1, JobNamed
    <3> QED BY <1>2, <3>2, NoneAssumption
  <2>4. night.pc = "off"
    BY <1>2 DEF Asleep
  <2> QED BY <2>1, <2>2, <2>3, <2>4 DEF DayOf, Ticking, Nightly
<1> QED BY <1>4, <1>5

\* Every step keeps the strings right.
LEMMA NextDay ==
  ASSUME Turns, Typed, TurnInv, DayTyped, \A p \in Procs : DayOf(p), [DayNext]_dayVars
  PROVE  \A p \in Procs : DayOf(p)'
<1>1. Typed' /\ TurnInv'
  BY DayTurn
<1>2. PICK p : Procs = {p}
  BY DEF Turns
<1>3. p \in Procs /\ DayOf(p)
  BY <1>2
<1>4. CASE Nightfall
  BY <1>2, <1>3, <1>4, NightfallDay
<1>5. CASE RemoveDevice \/ AlterDevice \/ UNCHANGED dayVars
  BY <1>2, <1>3, <1>5, SameDay DEF RemoveDevice, AlterDevice, dayVars
<1>6. ASSUME NEW e \in night.todo, AdjustNext(p, e) PROVE DayOf(p)'
  BY <1>3, <1>6, AdjustNextDay
<1>7. ASSUME StartAdjusted(p) PROVE DayOf(p)'
  BY <1>3, <1>7, StartDay
<1>8. ASSUME ContinueAdjusted(p) PROVE DayOf(p)'
  <2>1. Awaits(p) /\ UNCHANGED day
    BY <1>8 DEF ContinueAdjusted
  <2>2. CASE Elsewhere(p)
    BY <1>3, <2>1, <2>2, ElsewhereDay
  <2>3. CASE CountAdjusted(p)
    BY <1>3, <2>1, <2>3, CountDay
  <2>4. CASE InsertAdjusted(p)
    BY <1>3, <2>1, <2>4, InsertDay
  <2>5. CASE SaveAdjusted(p)
    BY <1>3, <2>1, <2>5, SaveDay
  <2>6. CASE ScheduleAdjusted(p)
    BY <1>1, <1>3, <2>1, <2>6, ScheduleDay
  <2>7. CASE RollbackAdjusted(p)
    BY <1>1, <1>3, <2>1, <2>7, RollbackDay
  <2> QED BY <1>8, <2>2, <2>3, <2>4, <2>5, <2>6, <2>7 DEF ContinueAdjusted
<1>9. DayOf(p)'
  BY <1>2, <1>4, <1>5, <1>6, <1>7, <1>8 DEF DayNext
<1> QED BY <1>2, <1>9

\* The strings are right in every state.
LEMMA AlwaysDay == ASSUME Turns PROVE DaySpec => [](Typed /\ DayInv)
<1>1. DayInit => Typed /\ DayInv
  BY InitTyped, InitTurn, InitDay DEF DayInit, DayInv, DayOf
<1>2. Typed /\ DayInv /\ [DayNext]_dayVars => (Typed /\ DayInv)'
  <2> SUFFICES ASSUME Typed, DayInv, [DayNext]_dayVars PROVE (Typed /\ DayInv)'
    OBVIOUS
  <2>1. DayTyped /\ TurnInv /\ \A p \in Procs : DayOf(p)
    BY DEF DayInv, DayOf
  <2>2. Typed' /\ TurnInv' /\ DayTyped'
    BY <2>1, DayTurn, DayTypes
  <2>3. \A p \in Procs : DayOf(p)'
    BY <2>1, NextDay
  <2> QED BY <2>2, <2>3 DEF DayInv, DayOf
<1> QED BY <1>1, <1>2, PTL DEF DaySpec

\* The nightly update that is awaited is saved, and its job is created anew.
LEMMA AwaitedReturns ==
  ASSUME Typed, DayInv, NEW p \in Procs, ContinueAdjusted(p), night.pc = "await",
         proc'[p].pc = "idle"
  PROVE  ~Throws(p) /\ UNCHANGED <<scenarios, clock>>
         /\ \A i \in Ids : Adjusted(scenarios[i], clock[i], i)
<1> DEFINE o == proc[p]
           n == proc'[p]
<1>1. /\ Position(o) /\ o \in Op /\ Shape(o) /\ Nightly(o, carry[p])
  BY TurnParts DEF DayInv
<1>2. o.pc \in {"save", "job"} /\ o.kind = "count"
  BY <1>1 DEF Nightly
<1>3. o.pc # "save"
  <2> SUFFICES ASSUME o.pc = "save" PROVE FALSE
    OBVIOUS
  <2>1. SaveUpdate(p)
    BY DEF ContinueAdjusted, Elsewhere, CountAdjusted, InsertAdjusted, SaveAdjusted,
           ScheduleAdjusted, RollbackAdjusted, RemoveAdded, Delete, GroupRead, GroupSave,
           ClearGroup, DropGroup, Execute, SkipExecution, ReadCounted, Insert, ScheduleAdded,
           Unschedule, Reschedule, Rollback, RescheduleOld
  <2>2. scenarios[o.id] = o.old /\ o.old # None /\ o.new.name = o.old.name
    BY <1>1, <1>2, NoneAssumption DEF Position, Shape, HoldsOld, CountsDown
  <2>3. n = [o EXCEPT !.pc = "job"]
        \/ n = [o EXCEPT !.pc = "groupRead", !.leave = o.old.group, !.join = o.new.group]
    BY <2>1, <2>2 DEF SaveUpdate, Goto, Typed, TypeOK
  <2>4. n.pc \in {"job", "groupRead"}
    BY <1>1, <2>3 DEF Op
  <2> QED BY <2>4
<1>4. o.pc = "job"
  BY <1>2, <1>3
<1>5. ScheduleAdjusted(p) /\ Reschedule(p)
  BY <1>2, <1>4
     DEF ContinueAdjusted, Elsewhere, CountAdjusted, InsertAdjusted, SaveAdjusted,
         ScheduleAdjusted, RollbackAdjusted, RemoveAdded, Delete, GroupRead, GroupSave,
         ClearGroup, DropGroup, Execute, SkipExecution, ReadCounted, Insert, ScheduleAdded,
         Unschedule, Reschedule, Rollback, RescheduleOld, SaveUpdate
<1>6. ~Throws(p)
  BY <1>2, <1>4, NeverThrows DEF DayInv
<1>7. UNCHANGED <<scenarios, clock>>
  BY <1>5 DEF ScheduleAdjusted, Reschedule
<1>8. \A i \in Ids : Adjusted(scenarios[i], clock[i], i)
  BY <1>1, <1>4 DEF Nightly
<1> QED BY <1>6, <1>7, <1>8

\* The job of a scheduled scenario ticks at the time its document says: addScenario,
\* updateScenario, its rollback, and handleDayTimeAdjustments at night, whatever
\* fails, as long as handlers take turns.
THEOREM AdjustedSchedules == ASSUME Turns PROVE DaySpec => []ScheduleCurrent
<1>1. Typed /\ DayInv => ScheduleCurrent
  <2> SUFFICES ASSUME Typed, DayInv, Quiet, NEW i \in Ids, Scheduled(scenarios[i])
               PROVE  jobClock[scenarios[i].name] = clock[i]
    BY DEF ScheduleCurrent
  <2>1. PICK p \in Procs : proc[p].pc = "idle"
    BY DEF Turns, Quiet
  <2>2. ~Pending(proc[p], i)
    BY <2>1 DEF Pending, Saved, InGroups
  <2>3. Runs(scenarios[i])
    BY QuietRested DEF DayInv, Rested, Refused, Runs
  <2> QED BY <2>2, <2>3 DEF DayInv, Ticking
<1> QED BY <1>1, AlwaysDay, PTL

\* A night that ends leaves out only scenarios it had still to come to when it came to
\* one at which it fails: adjustTo null, a scenario that was removed, a device that was
\* removed or refuses the conditions.  What users do to scenarios and groups between
\* two of its updates neither ends it nor takes a scenario away from it.
THEOREM AdjustedNights == ASSUME Turns PROVE DaySpec => NightReaches
<1> DEFINE Excused(i) == /\ night.pc = "loop" /\ \E e \in night.todo : e.id = i
                         /\ \E e \in night.todo : Fails(e)
           Reaches ==
             night.pc # "off" /\ night'.pc = "off" =>
               \A i \in Ids : Adjusts(scenarios'[i]) /\ clock'[i] # day => Excused(i)
<1>1. Typed /\ DayInv /\ [DayNext]_dayVars => Reaches
  <2> SUFFICES ASSUME Typed, DayInv, [DayNext]_dayVars, night.pc # "off", night'.pc = "off",
                      NEW i \in Ids, Adjusts(scenarios'[i]), clock'[i] # day
               PROVE  Excused(i)
    OBVIOUS
  <2>1. ~(Nightfall \/ RemoveDevice \/ AlterDevice \/ UNCHANGED dayVars)
    BY DEF Nightfall, RemoveDevice, AlterDevice, dayVars
  <2>2. ASSUME NEW p \in Procs, NEW e \in night.todo, AdjustNext(p, e) PROVE Excused(i)
    <3>1. Fails(e)
      BY <2>2 DEF AdjustNext, DayInv, DayTyped
    <3>2. night.pc = "loop" /\ UNCHANGED <<scenarios, clock>>
      BY <2>2, <3>1 DEF AdjustNext, vars
    <3>3. Adjusted(scenarios[i], clock[i], i)
      BY <3>2 DEF DayInv, Nightly
    <3>4. Due(i)
      BY <3>2, <3>3 DEF Adjusted, Adjusts
    <3> QED BY <3>1, <3>2, <3>4 DEF Due
  <2>3. ASSUME NEW p \in Procs, StartAdjusted(p) PROVE FALSE
    BY <2>3 DEF StartAdjusted
  <2>4. ASSUME NEW p \in Procs, ContinueAdjusted(p) PROVE FALSE
    <3>1. night.pc = "await" /\ proc'[p].pc = "idle" /\ (Throws(p) \/ night.todo = {})
      BY <2>4 DEF ContinueAdjusted, Awaits
    <3>2. /\ ~Throws(p) /\ UNCHANGED <<scenarios, clock>> /\ Adjusted(scenarios[i], clock[i], i)
      BY <2>4, <3>1, AwaitedReturns
    <3> QED BY <3>1, <3>2 DEF Adjusted, Adjusts, Due
  <2> QED BY <2>1, <2>2, <2>3, <2>4 DEF DayNext
<1>2. NightReaches <=> [][Reaches]_dayVars
  BY DEF NightReaches
<1> QED BY <1>1, <1>2, AlwaysDay, PTL DEF DaySpec

\* The nightly adjustment leaves the registry and the counts as right as requests
\* alone do: every schedule has its job, no job is left over, counts are exact.
THEOREM AdjustedRegistry ==
  ASSUME Turns PROVE DaySpec => [](NoMissedSchedule /\ NoZombieJob /\ CountsExact)
  BY QuietCorrect, AlwaysDay, PTL DEF DayInv
===============================================================================
