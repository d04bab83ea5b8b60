-------------------------- MODULE Scenarios_proofs --------------------------
(***************************************************************************)
(* Theorems about Scenarios, for every number of handlers, scenarios and   *)
(* names: first of handlers that interrupt each other, then (from Turns    *)
(* on) of handlers that take turns.                                        *)
(***************************************************************************)
EXTENDS Scenarios, FiniteSetTheorems, TLAPS

-----------------------------------------------------------------------------
(* Type correctness.  Which fields of a handler are filled in depends on   *)
(* where it stands, so the type invariant is strengthened by Shape.        *)

InGroups(o) == o.pc \in {"groupRead", "groupSave"}

Shape(o) ==
  /\ o.pc \in {"insert", "read", "save", "rollback", "reschedule", "removeRead",
               "delete", "job"} => o.id \in Ids
  /\ InGroups(o) /\ o.kind # "createGroup" => o.id \in Ids
  /\ o.pc = "insert" => o.kind = "add" /\ o.new \in Scenario
  /\ o.pc = "read" => o.dto \in UpdateDto
  /\ o.pc \in {"save", "rollback", "reschedule"} =>
       o.kind \in {"update", "count"} /\ o.old \in Scenario /\ o.new \in Scenario
  /\ o.pc = "delete" => o.kind = "remove" /\ o.old \in Scenario
  /\ o.pc = "job" \/ InGroups(o) =>
       /\ o.kind = "add" => o.new \in Scenario
       /\ o.kind \in {"update", "count"} => o.old \in Scenario /\ o.new \in Scenario
       /\ o.kind = "remove" => o.old \in Scenario
       /\ o.kind \in {"add", "update", "count", "remove", "createGroup"}
  /\ InGroups(o) => Target(o) \in Groups
  /\ o.pc \in {"clear", "drop"} => o.leave \in Groups

\* Type correctness and, for each handler, the fields its position requires.
Typed == TypeOK /\ \A p \in Procs : Shape(proc[p])

\* What has been read from a document and what is submitted is assigned to a
\* document of the schema.
LEMMA AssignType ==
  ASSUME NEW s \in Scenario, NEW d \in UpdateDto
  PROVE  Assign(s, d) \in Scenario
  BY NoneAssumption DEF Assign, Scenario, UpdateDto

\* A save leaves a document of the schema, whatever its three versions are.
LEMMA MergeType ==
  ASSUME NEW a \in Scenario, NEW b \in Scenario, NEW c \in Scenario
  PROVE  Merge(a, b, c) \in Scenario
  BY DEF Merge, Scenario

\* The state between two handlers, and the next scenario of a device event.
LEMMA IdleType == Idle \in Op /\ Shape(Idle)
<1>1. Idle \in Op
  BY DEF Idle, Op, Missing
<1>2. Shape(Idle)
  BY DEF Idle, Shape, InGroups
<1>3. QED BY <1>1, <1>2

\* What is left of a handler that ends is well formed.
LEMMA DoneType ==
  ASSUME NEW o \in Op
  PROVE  Done(o) \in Op /\ Shape(Done(o))
<1>1. CASE o.queue = {}
  BY <1>1, IdleType DEF Done
<1>2. CASE o.queue # {}
  <2> DEFINE r == [Idle EXCEPT !.pc = "evaluate", !.queue = o.queue]
  <2>1. Done(o) = r
    BY <1>2 DEF Done
  <2>2. o.queue \in SUBSET Entry
    BY DEF Op
  <2>3. r \in Op
    BY <2>2, IdleType DEF Op, Idle
  <2>4. Shape(r)
    BY DEF Shape, InGroups, Idle
  <2>5. QED BY <2>1, <2>3, <2>4
<1>3. QED BY <1>1, <1>2

\* The decrement an execution submits is an UpdateScenarioDto.
LEMMA DecrementType ==
  ASSUME NEW s \in Scenario, s.repeat \in 1..MaxRepeat
  PROVE  Decrement(s) \in UpdateDto
<1>1. KeepAll \in UpdateDto
  BY DEF KeepAll, UpdateDto, Repeats
<1>2. CASE s.repeat = 1
  <2>1. [KeepAll EXCEPT !.active = "off", !.repeat = Null] \in UpdateDto
    BY <1>1 DEF KeepAll, UpdateDto, Repeats
  <2>2. QED BY <1>2, <2>1 DEF Decrement
<1>3. CASE s.repeat # 1
  <2>1. s.repeat - 1 \in Repeats
    BY <1>3, BoundAssumption DEF Repeats
  <2>2. [KeepAll EXCEPT !.repeat = s.repeat - 1] \in UpdateDto
    BY <1>1, <2>1 DEF KeepAll, UpdateDto
  <2>3. QED BY <1>3, <2>2 DEF Decrement
<1>4. QED BY <1>2, <1>3

\* The quota a document grants is a number.
LEMMA QuotaType ==
  ASSUME NEW s \in Scenario
  PROVE  QuotaOf(s) \in Int
  BY BoundAssumption DEF QuotaOf, Unlimited, Scenario, Repeats

\* Reading a document for an update yields a handler that can save it.
LEMMA ReadForUpdateType ==
  ASSUME scenarios \in [Ids -> Scenario \cup {None}],
         NEW o \in Op, o.kind \in {"update", "count"},
         NEW i \in Ids, NEW d \in UpdateDto
  PROVE  ReadForUpdate(o, i, d) \in Op /\ Shape(ReadForUpdate(o, i, d))
<1>1. CASE scenarios[i] = None
  BY <1>1, DoneType DEF ReadForUpdate
<1>2. CASE scenarios[i] # None
  <2>1. scenarios[i] \in Scenario /\ Assign(scenarios[i], d) \in Scenario
    BY <1>2, AssignType
  <2> DEFINE r == [o EXCEPT !.pc = "save", !.id = i, !.dto = None,
                            !.old = scenarios[i], !.new = Assign(scenarios[i], d)]
  <2>2. r \in Op
    BY <2>1 DEF Op
  <2>3. /\ r.pc = "save" /\ r.kind = o.kind /\ r.id = i
        /\ r.old = scenarios[i] /\ r.new = Assign(scenarios[i], d)
    BY DEF Op
  <2>4. Shape(r)
    BY <2>1, <2>3 DEF Shape, InGroups
  <2>5. QED BY <1>2, <2>2, <2>4 DEF ReadForUpdate
<1>3. QED BY <1>1, <1>2

\* Reading a document for a removal yields a handler that can delete it.
LEMMA ReadForRemoveType ==
  ASSUME scenarios \in [Ids -> Scenario \cup {None}], NEW o \in Op, NEW i \in Ids
  PROVE  ReadForRemove(o, i) \in Op /\ Shape(ReadForRemove(o, i))
<1>1. CASE scenarios[i] = None
  BY <1>1, DoneType DEF ReadForRemove
<1>2. CASE scenarios[i] # None
  <2>1. scenarios[i] \in Scenario
    BY <1>2
  <2> DEFINE r == [o EXCEPT !.pc = "delete", !.kind = "remove", !.id = i,
                            !.old = scenarios[i], !.new = None]
  <2>2. r \in Op
    BY <2>1 DEF Op
  <2>3. r.pc = "delete" /\ r.kind = "remove" /\ r.id = i /\ r.old = scenarios[i]
    BY DEF Op
  <2>4. Shape(r)
    BY <2>1, <2>3 DEF Shape, InGroups
  <2>5. QED BY <1>2, <2>2, <2>4 DEF ReadForRemove
<1>3. QED BY <1>1, <1>2

\* A handler that moves to a well-formed position leaves all handlers typed.
LEMMA GotoType ==
  ASSUME Typed, NEW p \in Procs, NEW o \in Op, Shape(o), Goto(p, o)
  PROVE  proc' \in [Procs -> Op] /\ \A q \in Procs : Shape(proc'[q])
  BY DEF Typed, TypeOK, Goto

\* The registry after a restart.
LEMMA JobsOfType ==
  ASSUME NEW docs
  PROVE  JobsOf(docs) \in [Names -> Ids \cup {None}]
<1>1. ASSUME NEW n \in Names, \E i \in Ids : Scheduled(docs[i]) /\ docs[i].name = n
      PROVE  (CHOOSE i \in Ids : Scheduled(docs[i]) /\ docs[i].name = n) \in Ids
  BY <1>1
<1>2. QED BY <1>1 DEF JobsOf

\* The hub boots in a typed state.
LEMMA InitTyped == Init => Typed
<1> SUFFICES ASSUME Init PROVE Typed
  OBVIOUS
<1>1. scenarios \in [Ids -> Scenario \cup {None}]
  BY InputAssumption DEF Init
<1>2. groups \in [Groups -> Int]
  <2>1. ASSUME NEW g \in Groups PROVE Cardinality(Members(g)) \in Int
    <3>1. Members(g) \subseteq Ids
      BY DEF Members
    <3>2. IsFiniteSet(Members(g))
      BY <3>1, FiniteAssumption, FS_Subset
    <3>3. QED BY <3>2, FS_CardinalityType
  <2>2. QED BY <2>1 DEF Init, Missing
<1>3. jobs \in [Names -> Ids \cup {None}]
  BY JobsOfType DEF Init
<1>4. proc \in [Procs -> Op] /\ \A p \in Procs : Shape(proc[p])
  BY IdleType DEF Init
<1>5. quota \in [Ids -> Int]
  BY <1>1, QuotaType, BoundAssumption DEF Init, Unlimited
<1>6. QED BY <1>1, <1>2, <1>3, <1>4, <1>5 DEF Typed, TypeOK

-----------------------------------------------------------------------------
(* Every step keeps the state typed: one lemma per operation.              *)

\* The steps of an addition.
LEMMA AddTyped ==
  ASSUME Typed, NEW p \in Procs,
         \/ \E i \in Ids, s \in Creations : StartAdd(p, i, s)
         \/ Insert(p) \/ ScheduleAdded(p)
  PROVE  Typed'
<1> USE DEF Typed, TypeOK
<1>0. proc[p] \in Op /\ Shape(proc[p])
  OBVIOUS
<1>1. CASE \E i \in Ids, s \in Creations : StartAdd(p, i, s)
  <2> PICK i \in Ids, s \in Creations : StartAdd(p, i, s)
    BY <1>1
  <2> DEFINE o == [Idle EXCEPT !.pc = "insert", !.kind = "add", !.id = i, !.new = s]
  <2>1. s \in Scenario
    BY InputAssumption
  <2>2. o \in Op
    BY <2>1, IdleType DEF Op, Idle
  <2>3. Shape(o)
    BY <2>1 DEF Shape, InGroups, Idle
  <2>4. Goto(p, o)
    BY DEF StartAdd
  <2>5. proc' \in [Procs -> Op] /\ \A q \in Procs : Shape(proc'[q])
    BY <2>2, <2>3, <2>4, GotoType
  <2>6. QED BY <2>5 DEF StartAdd
<1>2. CASE Insert(p)
  <2> DEFINE o == proc[p]
             pc == IF o.new.group = None THEN "job" ELSE "groupRead"
             r == [o EXCEPT !.join = o.new.group, !.pc = pc]
  <2>1. o.pc = "insert" /\ o.kind = "add" /\ o.new \in Scenario /\ o.id \in Ids
    BY <1>0, <1>2 DEF Insert, Shape
  <2>2. o.new.group \in Groups \cup {None}
    BY <2>1 DEF Scenario
  <2>3. r \in Op
    <3>1. pc \in {"job", "groupRead"}
      OBVIOUS
    <3> HIDE DEF pc
    <3>2. QED BY <1>0, <2>2, <3>1 DEF Op
  <2>4. /\ r.kind = "add" /\ r.new = o.new /\ r.id = o.id /\ r.join = o.new.group
        /\ r.leave = o.leave
        /\ r.pc = IF o.new.group = None THEN "job" ELSE "groupRead"
    BY <1>0, <2>1 DEF Op
  <2>5. Shape(r)
    BY <1>0, <2>1, <2>2, <2>4 DEF Shape, InGroups, Target, Op
  <2>6. Done(o) \in Op /\ Shape(Done(o))
    BY <1>0, DoneType
  <2>7. Goto(p, Done(o)) \/ Goto(p, r)
    BY <1>2 DEF Insert
  <2>8. proc' \in [Procs -> Op] /\ \A q \in Procs : Shape(proc'[q])
    BY <2>3, <2>5, <2>6, <2>7, GotoType
  <2>9. scenarios' \in [Ids -> Scenario \cup {None}] /\ quota' \in [Ids -> Int]
    BY <1>2, <2>1, QuotaType DEF Insert
  <2>10. QED BY <1>2, <2>8, <2>9 DEF Insert
<1>3. CASE ScheduleAdded(p)
  <2> DEFINE o == proc[p]
             r == [o EXCEPT !.pc = "removeRead", !.kind = "remove"]
  <2>1. o.pc = "job" /\ o.kind = "add" /\ o.new \in Scenario /\ o.id \in Ids
    BY <1>0, <1>3 DEF ScheduleAdded, Shape
  <2>2. r \in Op /\ r.pc = "removeRead" /\ r.id = o.id
    BY <1>0 DEF Op
  <2>3. Shape(r)
    BY <2>1, <2>2 DEF Shape, InGroups
  <2>4. Done(o) \in Op /\ Shape(Done(o))
    BY <1>0, DoneType
  <2>5. Goto(p, Done(o)) \/ Goto(p, r)
    BY <1>3 DEF ScheduleAdded
  <2>6. proc' \in [Procs -> Op] /\ \A q \in Procs : Shape(proc'[q])
    BY <2>2, <2>3, <2>4, <2>5, GotoType
  <2>7. jobs' \in [Names -> Ids \cup {None}]
    BY <1>3, <2>1 DEF ScheduleAdded
  <2>8. QED BY <1>3, <2>6, <2>7 DEF ScheduleAdded
<1>4. QED BY <1>1, <1>2, <1>3

\* The steps of an update up to the save, for a user or for an execution.
LEMMA UpdateTyped ==
  ASSUME Typed, NEW p \in Procs,
         \/ \E i \in Ids, d \in Updates : StartUpdate(p, i, d)
         \/ ReadCounted(p) \/ SaveUpdate(p)
  PROVE  Typed'
<1> USE DEF Typed, TypeOK
<1>0. proc[p] \in Op /\ Shape(proc[p])
  OBVIOUS
<1>1. CASE \E i \in Ids, d \in Updates : StartUpdate(p, i, d)
  <2> PICK i \in Ids, d \in Updates : StartUpdate(p, i, d)
    BY <1>1
  <2> DEFINE o == [Idle EXCEPT !.kind = "update"]
  <2>1. o \in Op /\ o.kind = "update"
    BY IdleType DEF Op, Idle
  <2>2. d \in UpdateDto
    BY InputAssumption
  <2>3. ReadForUpdate(o, i, d) \in Op /\ Shape(ReadForUpdate(o, i, d))
    BY <2>1, <2>2, ReadForUpdateType
  <2>4. Goto(p, ReadForUpdate(o, i, d))
    BY DEF StartUpdate
  <2>5. proc' \in [Procs -> Op] /\ \A q \in Procs : Shape(proc'[q])
    BY <2>3, <2>4, GotoType
  <2>6. QED BY <2>5 DEF StartUpdate
<1>2. CASE ReadCounted(p)
  <2> DEFINE o == proc[p]
             c == [o EXCEPT !.kind = "count"]
  <2>1. o.id \in Ids /\ o.dto \in UpdateDto
    BY <1>0, <1>2 DEF ReadCounted, Shape
  <2>2. c \in Op /\ c.kind = "count"
    BY <1>0 DEF Op
  <2>3. /\ ReadForUpdate(c, o.id, o.dto) \in Op
        /\ Shape(ReadForUpdate(c, o.id, o.dto))
    BY <2>1, <2>2, ReadForUpdateType
  <2>4. Goto(p, ReadForUpdate(c, o.id, o.dto))
    BY <1>2 DEF ReadCounted
  <2>5. proc' \in [Procs -> Op] /\ \A q \in Procs : Shape(proc'[q])
    BY <2>3, <2>4, GotoType
  <2>6. QED BY <1>2, <2>5 DEF ReadCounted
<1>3. CASE SaveUpdate(p)
  <2> DEFINE o == proc[p]
             j == [o EXCEPT !.pc = "job"]
             from == o.old.group
             to == o.new.group
             g == [o EXCEPT !.pc = "groupRead", !.leave = from, !.join = to]
  <2>1. /\ o.pc = "save" /\ o.kind \in {"update", "count"} /\ o.id \in Ids
        /\ o.old \in Scenario /\ o.new \in Scenario
    BY <1>0, <1>3 DEF SaveUpdate, Shape
  <2>2. o.old.group \in Groups \cup {None} /\ o.new.group \in Groups \cup {None}
    BY <2>1 DEF Scenario
  <2>3. j \in Op /\ Shape(j)
    <3>1. j \in Op /\ j.pc = "job" /\ j.kind = o.kind /\ j.id = o.id
          /\ j.old = o.old /\ j.new = o.new
      BY <1>0 DEF Op
    <3>2. QED BY <2>1, <3>1 DEF Shape, InGroups
  <2>4. o.old.group # o.new.group => g \in Op /\ Shape(g)
    <3>1. g \in Op /\ g.pc = "groupRead" /\ g.kind = o.kind /\ g.id = o.id
          /\ g.old = o.old /\ g.new = o.new
          /\ g.leave = from /\ g.join = to
      <4> HIDE DEF g
      <4>1. g = [o EXCEPT !.pc = "groupRead", !.leave = from, !.join = to]
        BY DEF g
      <4>2. o \in Op /\ from \in Groups \cup {None} /\ to \in Groups \cup {None}
        BY <1>0, <2>2
      <4> HIDE DEF from, to, o
      <4>3. g \in Op
        BY <4>1, <4>2 DEF Op
      <4>4. QED BY <4>1, <4>2, <4>3 DEF Op
    <3>2. QED BY <2>1, <2>2, <3>1 DEF Shape, InGroups, Target
  <2>5. Done(o) \in Op /\ Shape(Done(o))
    BY <1>0, DoneType
  <2>6. \/ Goto(p, Done(o)) \/ Goto(p, j)
        \/ o.old.group # o.new.group /\ Goto(p, g)
    BY <1>3 DEF SaveUpdate
  <2>7. proc' \in [Procs -> Op] /\ \A q \in Procs : Shape(proc'[q])
    BY <2>3, <2>4, <2>5, <2>6, GotoType
  <2>8. scenarios' \in [Ids -> Scenario \cup {None}] /\ quota' \in [Ids -> Int]
    <3> DEFINE s == Merge(scenarios[o.id], o.old, o.new)
    <3>1. scenarios[o.id] # None => s \in Scenario /\ QuotaOf(s) \in Int
      BY <2>1, MergeType, QuotaType
    <3> HIDE DEF s
    <3>2. QED BY <1>3, <2>1, <3>1 DEF SaveUpdate, s
  <2>9. QED BY <1>3, <2>7, <2>8 DEF SaveUpdate
<1>4. QED BY <1>1, <1>2, <1>3

\* The steps of an update that deal with the registry, and its rollback.
LEMMA RescheduleTyped ==
  ASSUME Typed, NEW p \in Procs,
         Reschedule(p) \/ Rollback(p) \/ RescheduleOld(p)
  PROVE  Typed'
<1> USE DEF Typed, TypeOK
<1> DEFINE o == proc[p]
<1>0. o \in Op /\ Shape(o) /\ Done(o) \in Op /\ Shape(Done(o))
  BY DoneType
<1>1. CASE Reschedule(p)
  <2> DEFINE freed == IF Scheduled(o.old) THEN [jobs EXCEPT ![o.old.name] = None]
                      ELSE jobs
             r == [o EXCEPT !.pc = "rollback"]
  <2>1. /\ o.pc = "job" /\ o.kind \in {"update", "count"} /\ o.id \in Ids
        /\ o.old \in Scenario /\ o.new \in Scenario
    BY <1>0, <1>1 DEF Reschedule, Shape
  <2>2. r \in Op /\ Shape(r)
    <3>1. r \in Op /\ r.pc = "rollback" /\ r.kind = o.kind /\ r.id = o.id
          /\ r.old = o.old /\ r.new = o.new
      BY <1>0 DEF Op
    <3>2. QED BY <2>1, <3>1 DEF Shape, InGroups
  <2>3. freed \in [Names -> Ids \cup {None}]
    OBVIOUS
  <2>4. jobs' = jobs \/ jobs' = freed \/ jobs' = [freed EXCEPT ![o.new.name] = o.id]
    BY <1>1 DEF Reschedule
  <2>5. jobs' \in [Names -> Ids \cup {None}]
    <3> HIDE DEF freed
    <3>1. QED BY <2>1, <2>3, <2>4
  <2>6. Goto(p, Done(o)) \/ Goto(p, r)
    BY <1>1 DEF Reschedule
  <2>7. proc' \in [Procs -> Op] /\ \A q \in Procs : Shape(proc'[q])
    BY <1>0, <2>2, <2>6, GotoType
  <2>8. QED BY <1>1, <2>5, <2>7 DEF Reschedule
<1>2. CASE Rollback(p)
  <2> DEFINE s == scenarios[o.id]
             b == [o.old EXCEPT
                    !.group = IF o.old.group = None THEN s.group ELSE o.old.group,
                    !.repeat = IF o.old.repeat = Unset THEN s.repeat ELSE o.old.repeat]
             r == [o EXCEPT !.pc = "reschedule"]
  <2>1. /\ o.pc = "rollback" /\ o.kind \in {"update", "count"} /\ o.id \in Ids
        /\ o.old \in Scenario /\ o.new \in Scenario
    BY <1>0, <1>2 DEF Rollback, Shape
  <2>2. r \in Op /\ Shape(r)
    <3>1. r \in Op /\ r.pc = "reschedule" /\ r.kind = o.kind /\ r.id = o.id
          /\ r.old = o.old /\ r.new = o.new
      BY <1>0 DEF Op
    <3>2. QED BY <2>1, <3>1 DEF Shape, InGroups
  <2>3. s # None => b \in Scenario
    <3>1. s # None => s \in Scenario
      BY <2>1
    <3> HIDE DEF s
    <3>2. QED BY <2>1, <3>1 DEF Scenario
  <2>4. scenarios' = scenarios \/ (s # None /\ scenarios' = [scenarios EXCEPT ![o.id] = b])
    BY <1>2 DEF Rollback
  <2>5. scenarios' \in [Ids -> Scenario \cup {None}]
    <3> HIDE DEF b
    <3>1. QED BY <2>3, <2>4
  <2>6. quota' \in [Ids -> Int]
    <3>1. s # None /\ scenarios' = [scenarios EXCEPT ![o.id] = b]
            => QuotaOf(scenarios'[o.id]) \in Int
      <4> HIDE DEF b
      <4>1. QED BY <2>1, <2>3, QuotaType
    <3>2. \/ quota' = quota
          \/ /\ s # None /\ scenarios' = [scenarios EXCEPT ![o.id] = b]
             /\ quota' = [quota EXCEPT ![o.id] = QuotaOf(scenarios'[o.id])]
      BY <1>2 DEF Rollback
    <3> HIDE DEF b, s
    <3>3. QED BY <3>1, <3>2
  <2>7. Goto(p, Done(o)) \/ Goto(p, r)
    BY <1>2 DEF Rollback
  <2>8. proc' \in [Procs -> Op] /\ \A q \in Procs : Shape(proc'[q])
    BY <1>0, <2>2, <2>7, GotoType
  <2>9. QED BY <1>2, <2>5, <2>6, <2>8 DEF Rollback
<1>3. CASE RescheduleOld(p)
  <2>1. o.id \in Ids /\ Goto(p, Done(o))
    BY <1>0, <1>3 DEF RescheduleOld, Shape
  <2>2. proc' \in [Procs -> Op] /\ \A q \in Procs : Shape(proc'[q])
    BY <1>0, <2>1, GotoType
  <2>3. jobs' \in [Names -> Ids \cup {None}]
    BY <1>3, <2>1 DEF RescheduleOld
  <2>4. QED BY <1>3, <2>2, <2>3 DEF RescheduleOld
<1>4. QED BY <1>1, <1>2, <1>3

\* The steps of a removal.
LEMMA RemoveTyped ==
  ASSUME Typed, NEW p \in Procs,
         \/ \E i \in Ids : StartRemove(p, i)
         \/ RemoveAdded(p) \/ Delete(p) \/ Unschedule(p)
  PROVE  Typed'
<1> USE DEF Typed, TypeOK
<1> DEFINE o == proc[p]
<1>0. o \in Op /\ Shape(o) /\ Done(o) \in Op /\ Shape(Done(o))
  BY DoneType
<1>1. CASE \E i \in Ids : StartRemove(p, i)
  <2> PICK i \in Ids : StartRemove(p, i)
    BY <1>1
  <2>1. ReadForRemove(Idle, i) \in Op /\ Shape(ReadForRemove(Idle, i))
    BY IdleType, ReadForRemoveType
  <2>2. proc' \in [Procs -> Op] /\ \A q \in Procs : Shape(proc'[q])
    BY <2>1, GotoType DEF StartRemove
  <2>3. QED BY <2>2 DEF StartRemove
<1>2. CASE RemoveAdded(p)
  <2>1. o.id \in Ids
    BY <1>0, <1>2 DEF RemoveAdded, Shape
  <2>2. ReadForRemove(o, o.id) \in Op /\ Shape(ReadForRemove(o, o.id))
    BY <1>0, <2>1, ReadForRemoveType
  <2>3. proc' \in [Procs -> Op] /\ \A q \in Procs : Shape(proc'[q])
    BY <1>2, <2>2, GotoType DEF RemoveAdded
  <2>4. QED BY <1>2, <2>3 DEF RemoveAdded
<1>3. CASE Delete(p)
  <2> DEFINE from == o.old.group
             pc == IF from = None THEN "job" ELSE "groupRead"
             r == [o EXCEPT !.leave = from, !.pc = pc]
  <2>1. o.pc = "delete" /\ o.kind = "remove" /\ o.old \in Scenario /\ o.id \in Ids
    BY <1>0, <1>3 DEF Delete, Shape
  <2>2. from \in Groups \cup {None} /\ pc \in {"job", "groupRead"}
    BY <2>1 DEF Scenario
  <2>3. pc = "groupRead" => from \in Groups
    BY <2>2
  <2>4. Goto(p, r)
    BY <1>3 DEF Delete
  <2> HIDE DEF pc, from
  <2>5. r \in Op /\ r.pc = pc /\ r.kind = o.kind /\ r.id = o.id /\ r.old = o.old
        /\ r.leave = from
    <3>1. r \in Op
      BY <1>0, <2>2 DEF Op
    <3>2. QED BY <1>0, <3>1 DEF Op
  <2>6. Shape(r)
    BY <2>1, <2>2, <2>3, <2>5, NoneAssumption DEF Shape, InGroups, Target
  <2>7. proc' \in [Procs -> Op] /\ \A q \in Procs : Shape(proc'[q])
    BY <2>4, <2>5, <2>6, GotoType
  <2>8. scenarios' \in [Ids -> Scenario \cup {None}]
    BY <1>3 DEF Delete
  <2>9. QED BY <1>3, <2>7, <2>8 DEF Delete
<1>4. CASE Unschedule(p)
  <2>1. proc' \in [Procs -> Op] /\ \A q \in Procs : Shape(proc'[q])
    BY <1>0, <1>4, GotoType DEF Unschedule
  <2>2. jobs' \in [Names -> Ids \cup {None}]
    BY <1>4 DEF Unschedule
  <2>3. QED BY <1>4, <2>1, <2>2 DEF Unschedule
<1>5. QED BY <1>1, <1>2, <1>3, <1>4

\* The steps that create a group or count its scenarios.
LEMMA GroupsTyped ==
  ASSUME Typed, NEW p \in Procs,
         \/ \E g \in Groups : StartCreateGroup(p, g)
         \/ GroupRead(p) \/ GroupSave(p)
  PROVE  Typed'
<1> USE DEF Typed, TypeOK
<1> DEFINE o == proc[p]
<1>0. o \in Op /\ Shape(o) /\ Done(o) \in Op /\ Shape(Done(o))
  BY DoneType
<1>1. CASE \E g \in Groups : StartCreateGroup(p, g)
  <2> PICK g \in Groups : StartCreateGroup(p, g)
    BY <1>1
  <2> DEFINE r == [Idle EXCEPT !.pc = "groupRead", !.kind = "createGroup", !.join = g]
  <2>1. r \in Op
    BY IdleType DEF Op, Idle
  <2>2. Shape(r)
    BY DEF Shape, InGroups, Target, Idle
  <2>3. proc' \in [Procs -> Op] /\ \A q \in Procs : Shape(proc'[q])
    BY <2>1, <2>2, GotoType DEF StartCreateGroup
  <2>4. QED BY <2>3 DEF StartCreateGroup
<1>2. CASE GroupRead(p)
  <2> DEFINE n == groups[Target(o)]
             r == [o EXCEPT !.pc = "groupSave", !.count = n]
  <2>1. o.pc = "groupRead" /\ Target(o) \in Groups /\ n \in Int /\ Goto(p, r)
    BY <1>0, <1>2 DEF GroupRead, Shape, InGroups
  <2> HIDE DEF n
  <2>2. r \in Op /\ r = [o EXCEPT !.pc = "groupSave", !.count = n]
    BY <1>0, <2>1 DEF Op
  <2>3. /\ r.pc = "groupSave" /\ r.kind = o.kind /\ r.id = o.id /\ r.old = o.old
        /\ r.new = o.new /\ r.leave = o.leave /\ r.join = o.join
    BY <1>0 DEF Op
  <2>4. Shape(r)
    BY <1>0, <2>1, <2>3 DEF Shape, InGroups, Target
  <2>5. proc' \in [Procs -> Op] /\ \A q \in Procs : Shape(proc'[q])
    BY <2>1, <2>2, <2>4, GotoType
  <2>6. QED BY <1>2, <2>5 DEF GroupRead
<1>3. CASE GroupSave(p)
  <2> DEFINE j == IF o.leave = None THEN None ELSE o.join
             left == [o EXCEPT !.leave = None, !.join = j, !.count = Missing]
             pc == AfterGroups(left)
             r == [left EXCEPT !.pc = pc]
             n == IF o.count = Missing THEN Increment(o) ELSE o.count + Increment(o)
  <2>1. o.pc = "groupSave" /\ Target(o) \in Groups
    BY <1>0, <1>3 DEF GroupSave, Shape, InGroups
  <2>2. j \in Groups \cup {None} /\ n \in Int
    BY <1>0 DEF Op, Increment
  <2>3. \/ Goto(p, Done(o))
        \/ o.kind # "createGroup" /\ Goto(p, r)
    BY <1>3 DEF GroupSave
  <2>4. groups' = groups \/ groups' = [groups EXCEPT ![Target(o)] = n]
    BY <1>3 DEF GroupSave
  <2>5. groups' \in [Groups -> Int]
    <3> HIDE DEF n
    <3>1. QED BY <2>1, <2>2, <2>4
  <2>6. left \in Op /\ left.leave = None /\ left.join = j
        /\ left.kind = o.kind /\ left.id = o.id /\ left.old = o.old /\ left.new = o.new
    <3>1. left = [o EXCEPT !.leave = None, !.join = j, !.count = Missing]
      OBVIOUS
    <3>2. Missing \in Int
      BY DEF Missing
    <3>3. o \in Op /\ j \in Groups \cup {None}
      BY <1>0, <2>2
    <3> HIDE DEF left, j, o
    <3>4. left \in Op
      BY <3>1, <3>2, <3>3 DEF Op
    <3>5. QED BY <3>1, <3>2, <3>3, <3>4 DEF Op
  <2>7. pc = IF j # None THEN "groupRead" ELSE "job"
    BY <2>6 DEF AfterGroups
  <2>8. r \in Op /\ r.pc = pc /\ r.leave = None /\ r.join = j
        /\ r.kind = o.kind /\ r.id = o.id /\ r.old = o.old /\ r.new = o.new
    <3>1. pc \in {"groupRead", "job"}
      BY <2>7
    <3> HIDE DEF pc, left, j, o
    <3>2. r \in Op
      BY <2>6, <3>1 DEF Op
    <3>3. QED BY <2>6, <3>2 DEF Op
  <2>9. o.kind # "createGroup" => Shape(r)
    <3> HIDE DEF r, pc, left, j
    <3>1. QED BY <1>0, <2>1, <2>2, <2>7, <2>8 DEF Shape, InGroups, Target
  <2>10. proc' \in [Procs -> Op] /\ \A q \in Procs : Shape(proc'[q])
    <3> HIDE DEF r
    <3>1. QED BY <1>0, <2>3, <2>8, <2>9, GotoType
  <2>11. QED BY <1>3, <2>5, <2>10 DEF GroupSave
<1>4. QED BY <1>1, <1>2, <1>3

\* The steps of the deletion of a group.
LEMMA DeleteGroupTyped ==
  ASSUME Typed, NEW p \in Procs,
         \/ \E g \in Groups, k \in {"unlinkGroup", "purgeGroup", "deleteEmptyGroup"} :
              StartDeleteGroup(p, g, k)
         \/ ClearGroup(p) \/ DropGroup(p)
  PROVE  Typed'
<1> USE DEF Typed, TypeOK
<1> DEFINE o == proc[p]
<1>0. o \in Op /\ Shape(o) /\ Done(o) \in Op /\ Shape(Done(o))
  BY DoneType
<1>1. CASE \E g \in Groups, k \in {"unlinkGroup", "purgeGroup", "deleteEmptyGroup"} :
              StartDeleteGroup(p, g, k)
  <2> PICK g \in Groups, k \in {"unlinkGroup", "purgeGroup", "deleteEmptyGroup"} :
             StartDeleteGroup(p, g, k)
    BY <1>1
  <2> DEFINE n == groups[g]
             pc == IF n > 0 THEN "clear" ELSE "drop"
             r == [Idle EXCEPT !.kind = k, !.leave = g, !.count = n, !.pc = pc]
  <2>1. n \in Int /\ pc \in {"clear", "drop"} /\ Goto(p, r)
    BY DEF StartDeleteGroup
  <2> HIDE DEF n, pc
  <2>2. r \in Op
    BY <2>1, IdleType DEF Op, Idle
  <2>3. Shape(r)
    BY <2>1 DEF Shape, InGroups, Idle
  <2>4. proc' \in [Procs -> Op] /\ \A q \in Procs : Shape(proc'[q])
    BY <2>1, <2>2, <2>3, GotoType
  <2>5. QED BY <2>4 DEF StartDeleteGroup
<1>2. CASE ClearGroup(p)
  <2> DEFINE r == [o EXCEPT !.pc = "drop"]
  <2>1. o.pc = "clear" /\ o.leave \in Groups /\ Goto(p, r)
    BY <1>0, <1>2 DEF ClearGroup, Shape
  <2>2. r \in Op /\ r.pc = "drop" /\ r.leave = o.leave
    BY <1>0 DEF Op
  <2>3. Shape(r)
    BY <2>1, <2>2 DEF Shape, InGroups
  <2>4. proc' \in [Procs -> Op] /\ \A q \in Procs : Shape(proc'[q])
    BY <2>1, <2>2, <2>3, GotoType
  <2>5. ASSUME NEW i \in Ids, i \in Members(o.leave)
        PROVE  [scenarios[i] EXCEPT !.group = None] \in Scenario
    BY <2>5 DEF Members, Scenario
  <2>6. scenarios' \in [Ids -> Scenario \cup {None}]
    BY <1>2, <2>5 DEF ClearGroup
  <2>7. QED BY <1>2, <2>4, <2>6 DEF ClearGroup
<1>3. CASE DropGroup(p)
  <2>1. o.leave \in Groups
    BY <1>0, <1>3 DEF DropGroup, Shape
  <2>2. groups' \in [Groups -> Int]
    BY <1>3, <2>1 DEF DropGroup, Missing
  <2>3. ASSUME NEW q \in Procs
        PROVE  proc'[q] \in Op /\ Shape(proc'[q])
    <3> DEFINE oq == proc[q]
               r == [oq EXCEPT !.count = Stale]
    <3>1. proc'[q] \in {Done(o), r, oq}
      BY <1>3 DEF DropGroup
    <3>2. r \in Op /\ r.pc = oq.pc /\ r.kind = oq.kind /\ r.id = oq.id
          /\ r.old = oq.old /\ r.new = oq.new /\ r.dto = oq.dto
          /\ r.leave = oq.leave /\ r.join = oq.join
      BY DEF Op, Stale
    <3>3. Shape(oq)
      OBVIOUS
    <3>4. Shape(r)
      BY <3>2, <3>3 DEF Shape, InGroups, Target
    <3>5. QED BY <1>0, <3>1, <3>2, <3>3, <3>4
  <2>4. proc' \in [Procs -> Op]
    BY <1>3, <2>3 DEF DropGroup
  <2>5. QED BY <1>3, <2>2, <2>3, <2>4 DEF DropGroup
<1>4. QED BY <1>1, <1>2, <1>3

\* Ticks, device events and executions.
LEMMA ExecutionTyped ==
  ASSUME Typed, NEW p \in Procs,
         \/ \E n \in Names : Fire(p, n)
         \/ DeviceEvent(p)
         \/ \E e \in proc[p].queue : Execute(p, e) \/ SkipExecution(p, e)
  PROVE  Typed'
<1> USE DEF Typed, TypeOK
<1> DEFINE o == proc[p]
           Served(Q) == [Idle EXCEPT !.pc = "evaluate", !.queue = Q]
<1>0. o \in Op /\ Shape(o)
  OBVIOUS
<1>1. ASSUME NEW Q \in SUBSET Entry
      PROVE  Served(Q) \in Op /\ Shape(Served(Q))
  <2>1. Served(Q) \in Op
    BY <1>1, IdleType DEF Op, Idle
  <2>2. Shape(Served(Q))
    BY DEF Shape, InGroups, Idle
  <2>3. QED BY <2>1, <2>2
<1>2. CASE \E n \in Names : Fire(p, n)
  <2> PICK n \in Names : Fire(p, n)
    BY <1>2
  <2> DEFINE Q == {[id |-> jobs[n], doc |-> scenarios[jobs[n]]]}
  <2>1. jobs[n] \in Ids /\ scenarios[jobs[n]] \in Scenario
    BY DEF Fire
  <2>2. Q \in SUBSET Entry
    BY <2>1 DEF Entry
  <2>3. Goto(p, Served(Q))
    BY DEF Fire
  <2>4. proc' \in [Procs -> Op] /\ \A q \in Procs : Shape(proc'[q])
    <3> HIDE DEF Q, Served
    <3>1. QED BY <1>1, <2>2, <2>3, GotoType
  <2>5. QED BY <2>4 DEF Fire
<1>3. CASE DeviceEvent(p)
  <2> DEFINE T == {i \in Ids : /\ scenarios[i] # None
                               /\ scenarios[i].active /\ HasDevice(scenarios[i])}
             Q == {[id |-> i, doc |-> scenarios[i]] : i \in T}
  <2>1. Q \in SUBSET Entry
    BY DEF Entry
  <2>2. Goto(p, Served(Q))
    BY <1>3 DEF DeviceEvent
  <2>3. proc' \in [Procs -> Op] /\ \A q \in Procs : Shape(proc'[q])
    <3> HIDE DEF Q, Served
    <3>1. QED BY <1>1, <2>1, <2>2, GotoType
  <2>4. QED BY <1>3, <2>3 DEF DeviceEvent
<1>4. CASE \E e \in o.queue : Execute(p, e) \/ SkipExecution(p, e)
  <2> PICK e \in o.queue : Execute(p, e) \/ SkipExecution(p, e)
    BY <1>4
  <2> DEFINE rest == [o EXCEPT !.queue = @ \ {e}]
  <2>1. e \in Entry /\ e.id \in Ids /\ e.doc \in Scenario
    BY <1>0 DEF Op, Entry
  <2>2. rest \in Op
    BY <1>0 DEF Op
  <2>3. Done(rest) \in Op /\ Shape(Done(rest))
    BY <2>2, DoneType
  <2>4. ASSUME e.doc.repeat \in 1..MaxRepeat
        PROVE  LET r == [rest EXCEPT !.pc = "read", !.id = e.id, !.dto = Decrement(e.doc)]
               IN  r \in Op /\ Shape(r)
    <3> DEFINE d == Decrement(e.doc)
               i == e.id
               r == [rest EXCEPT !.pc = "read", !.id = i, !.dto = d]
    <3>1. d \in UpdateDto /\ i \in Ids
      BY <2>1, <2>4, DecrementType
    <3> HIDE DEF d, i, rest
    <3>2. r \in Op
      BY <2>2, <3>1 DEF Op
    <3>3. r.pc = "read" /\ r.id = i /\ r.dto = d
      BY <2>2 DEF Op
    <3>4. Shape(r)
      BY <3>1, <3>3 DEF Shape, InGroups
    <3>5. QED BY <3>2, <3>4 DEF d, i
  <2>5. CASE Execute(p, e)
    <3>1. quota' \in [Ids -> Int]
      <4> DEFINE n == IF quota[e.id] = Unlimited THEN Unlimited
                      ELSE IF quota[e.id] <= 0 THEN Exceeded ELSE quota[e.id] - 1
      <4>1. n \in Int
        BY <2>1, BoundAssumption DEF Unlimited, Exceeded
      <4>2. quota' = [quota EXCEPT ![e.id] = n]
        BY <2>5 DEF Execute
      <4> HIDE DEF n
      <4>3. QED BY <2>1, <4>1, <4>2
    <3>2. proc' \in [Procs -> Op] /\ \A q \in Procs : Shape(proc'[q])
      <4> DEFINE r == [rest EXCEPT !.pc = "read", !.id = e.id, !.dto = Decrement(e.doc)]
      <4>1. \/ e.doc.repeat \in 1..MaxRepeat /\ Goto(p, r)
            \/ Goto(p, Done(rest))
        BY <2>5 DEF Execute
      <4>2. e.doc.repeat \in 1..MaxRepeat => r \in Op /\ Shape(r)
        BY <2>4
      <4> HIDE DEF r, rest
      <4>3. QED BY <2>3, <4>1, <4>2, GotoType
    <3>3. QED BY <2>5, <3>1, <3>2 DEF Execute
  <2>6. CASE SkipExecution(p, e)
    <3>1. Goto(p, Done(rest))
      BY <2>6 DEF SkipExecution
    <3>2. proc' \in [Procs -> Op] /\ \A q \in Procs : Shape(proc'[q])
      BY <2>3, <3>1, GotoType
    <3>3. QED BY <2>6, <3>2 DEF SkipExecution
  <2>7. QED BY <2>5, <2>6
<1>5. QED BY <1>2, <1>3, <1>4

\* A restart interrupts every handler and rebuilds the registry.
LEMMA RestartTyped ==
  ASSUME Typed, Restart
  PROVE  Typed'
  BY JobsOfType, IdleType DEF Typed, TypeOK, Restart

\* Every step keeps the state typed.
LEMMA NextTyped == Typed /\ [Next]_vars => Typed'
<1> SUFFICES ASSUME Typed, [Next]_vars PROVE Typed'
  OBVIOUS
<1>1. CASE Restart
  BY <1>1, RestartTyped
<1>2. ASSUME NEW p \in Procs, Start(p) PROVE Typed'
  BY <1>2, AddTyped, UpdateTyped, RemoveTyped, GroupsTyped, DeleteGroupTyped,
     ExecutionTyped DEF Start
<1>3. ASSUME NEW p \in Procs, Continue(p) PROVE Typed'
  BY <1>3, AddTyped, UpdateTyped, RescheduleTyped, RemoveTyped, GroupsTyped,
     DeleteGroupTyped, ExecutionTyped DEF Continue
<1>4. CASE UNCHANGED vars
  BY <1>4 DEF vars, Typed, TypeOK
<1>5. QED BY <1>1, <1>2, <1>3, <1>4 DEF Next

\* In every behaviour, with any number of handlers interleaved and interrupted
\* by restarts, the collections, the registry and the handlers keep their type:
\* in particular a handler that resumes finds the documents its code uses.
THEOREM TypeCorrect == Spec => []TypeOK
<1>1. Spec => []Typed
  BY InitTyped, NextTyped, PTL DEF Spec
<1>2. Typed => TypeOK
  BY DEF Typed
<1>3. QED BY <1>1, <1>2, PTL

-----------------------------------------------------------------------------
(* The registry stays right under any number of overlapping handlers, as   *)
(* long as activity only ever ends (Calm).  CalmInv, with the types the    *)
(* handlers need, is inductive.                                            *)

\* Submitting an update that only deactivates yields a weaker document.
LEMMA AssignWeaker ==
  ASSUME NEW s \in Scenario, NEW d \in UpdateDto, OnlyDeactivates(d)
  PROVE  Weaker(Assign(s, d), s)
<1>1. d.active = "keep" \/ d.active = "off"
  BY DEF UpdateDto, OnlyDeactivates
<1>2. Assign(s, d).name = s.name /\ Assign(s, d).trig = s.trig
  BY DEF Assign, OnlyDeactivates
<1>3. d.active = "keep" => Assign(s, d).active = s.active
  BY DEF Assign
<1>4. d.active = "off" => Assign(s, d).active = FALSE
  BY DEF Assign
<1>5. QED BY <1>1, <1>2, <1>3, <1>4 DEF Weaker

\* The decrement an execution submits only deactivates.
LEMMA DecrementOnlyDeactivates ==
  ASSUME NEW s \in Scenario
  PROVE  OnlyDeactivates(Decrement(s))
<1>1. CASE s.repeat = 1
  BY <1>1 DEF Decrement, KeepAll, OnlyDeactivates
<1>2. CASE s.repeat # 1
  BY <1>2 DEF Decrement, KeepAll, OnlyDeactivates
<1>3. QED BY <1>1, <1>2

\* Names and ids still correspond when a step makes no new pair known.
LEMMA NamesStayFixed ==
  ASSUME NamesFixed,
         \A i \in Ids : \A n \in Names : Known(i, n)' => Known(i, n)
  PROVE  NamesFixed'
  BY DEF NamesFixed

\* A handler that goes on without having anything left to say to the registry,
\* and that holds at most a document it has just read.
LEMMA MoveCalm ==
  ASSUME Typed, CalmInv, NEW p \in Procs, NEW r \in Op, Goto(p, r),
         UNCHANGED <<scenarios, jobs>>,
         \A n \in Names : jobs[n] # None => ~Owes(p, jobs[n]),
         r.pc \in {"idle", "read", "save", "delete", "evaluate"},
         r.pc = "read" => OnlyDeactivates(r.dto),
         r.pc \in {"save", "delete"} =>
           r.id \in Ids /\ scenarios[r.id] # None /\ r.old = scenarios[r.id],
         r.pc = "save" => Weaker(r.new, r.old)
  PROVE  CalmInv'
<1>1. /\ proc' = [proc EXCEPT ![p] = r] /\ scenarios' = scenarios /\ jobs' = jobs
      /\ proc'[p] = r /\ \A q \in Procs : q # p => proc'[q] = proc[q]
  BY DEF Goto, Typed, TypeOK
<1>2. NamesFixed'
  <2>1. ASSUME NEW i \in Ids, NEW n \in Names, Known(i, n)' PROVE Known(i, n)
    BY <1>1, <2>1 DEF Known
  <2>2. QED BY <2>1, NamesStayFixed DEF CalmInv
<1>3. HandlerCalm(r)
  <2>1. r.pc \in {"save", "delete"} =>
          ~Refused(r.old) /\ (scenarios[r.id] # None => Weaker(scenarios[r.id], r.old))
    BY DEF CalmInv, Refused, Weaker
  <2>2. QED BY <2>1 DEF HandlerCalm
<1>4. ASSUME NEW q \in Procs PROVE HandlerCalm(proc[q])' 
  BY <1>1, <1>3 DEF CalmInv, HandlerCalm
<1>5. ASSUME NEW i \in Ids, Scheduled(scenarios'[i])
      PROVE  OwnsJob(i)' /\ ~Refused(scenarios'[i])
  BY <1>1, <1>5 DEF CalmInv, OwnsJob
<1>6. ASSUME NEW n \in Names, jobs'[n] # None
      PROVE  Scheduled(scenarios'[jobs'[n]]) \/ \E q \in Procs : Owes(q, jobs[n])'
  <2>1. Scheduled(scenarios[jobs[n]]) \/ \E q \in Procs : Owes(q, jobs[n])
    BY <1>1, <1>6 DEF CalmInv
  <2>2. ASSUME NEW q \in Procs, Owes(q, jobs[n]) PROVE Owes(q, jobs[n])'
    BY <1>1, <1>6, <2>2 DEF Owes
  <2>3. QED BY <1>1, <2>1, <2>2
<1>7. QED BY <1>1, <1>2, <1>4, <1>5, <1>6 DEF CalmInv
\* The same when the handler ends.
LEMMA EndCalm ==
  ASSUME Typed, CalmInv, NEW p \in Procs, NEW o \in Op, Goto(p, Done(o)),
         UNCHANGED <<scenarios, jobs>>,
         \A n \in Names : jobs[n] # None => ~Owes(p, jobs[n])
  PROVE  CalmInv'
<1>1. Done(o) \in Op
  BY DoneType
<1>2. Done(o).pc \in {"idle", "evaluate"}
  <2>1. CASE o.queue = {}
    BY <2>1 DEF Done, Idle
  <2>2. CASE o.queue # {}
    BY <2>2 DEF Done, Idle
  <2>3. QED BY <2>1, <2>2
<1>3. QED BY <1>1, <1>2, MoveCalm

\* A handler reads the document it is going to update, or ends.
LEMMA ReadForUpdateCalm ==
  ASSUME Typed, CalmInv, NEW p \in Procs, proc[p].pc # "job",
         NEW o \in Op, o.kind \in {"update", "count"}, NEW i \in Ids,
         NEW d \in UpdateDto, OnlyDeactivates(d),
         Goto(p, ReadForUpdate(o, i, d)), UNCHANGED <<scenarios, jobs>>
  PROVE  CalmInv'
<1>1. \A n \in Names : ~Owes(p, jobs[n])
  BY DEF Owes
<1>2. CASE scenarios[i] = None
  BY <1>1, <1>2, EndCalm DEF ReadForUpdate
<1>3. CASE scenarios[i] # None
  <2> DEFINE r == [o EXCEPT !.pc = "save", !.id = i, !.dto = None,
                            !.old = scenarios[i], !.new = Assign(scenarios[i], d)]
  <2>1. scenarios[i] \in Scenario
    BY <1>3 DEF Typed, TypeOK
  <2>2. r \in Op
    BY <2>1, AssignType DEF Op
  <2>3. /\ r.pc = "save" /\ r.id = i /\ r.old = scenarios[i]
        /\ r.new = Assign(scenarios[i], d)
    BY DEF Op
  <2>4. Goto(p, r)
    BY <1>3 DEF ReadForUpdate
  <2>5. Weaker(r.new, r.old)
    BY <2>1, <2>3, AssignWeaker
  <2> HIDE DEF r
  <2>6. QED BY <1>1, <1>3, <2>2, <2>3, <2>4, <2>5, MoveCalm
<1>4. QED BY <1>2, <1>3

\* Reading for an update, by a user or by an execution that counts down.
LEMMA ReadsCalm ==
  ASSUME Calm, Typed, CalmInv, NEW p \in Procs,
         (\E i \in Ids, d \in Updates : StartUpdate(p, i, d)) \/ ReadCounted(p)
  PROVE  CalmInv'
<1>1. ASSUME NEW i \in Ids, NEW d \in Updates, StartUpdate(p, i, d) PROVE CalmInv'
  <2>1. d \in UpdateDto /\ OnlyDeactivates(d)
    BY InputAssumption DEF Calm, OnlyDeactivates
  <2> DEFINE r == [Idle EXCEPT !.kind = "update"]
  <2>2. r \in Op /\ r.kind = "update"
    BY IdleType DEF Op
  <2>3. Goto(p, ReadForUpdate(r, i, d)) /\ proc[p].pc # "job"
        /\ UNCHANGED <<scenarios, jobs>>
    BY <1>1 DEF StartUpdate
  <2> HIDE DEF r
  <2>4. QED BY <2>1, <2>2, <2>3, ReadForUpdateCalm
<1>2. ASSUME ReadCounted(p) PROVE CalmInv'
  <2> DEFINE o == proc[p]
             r == [o EXCEPT !.kind = "count"]
  <2>1. o \in Op /\ o.pc = "read" /\ o.id \in Ids /\ o.dto \in UpdateDto
    BY <1>2 DEF ReadCounted, Typed, TypeOK, Shape
  <2>2. OnlyDeactivates(o.dto)
    BY <2>1 DEF CalmInv, HandlerCalm
  <2>3. r \in Op /\ r.kind = "count"
    BY <2>1 DEF Op
  <2>4. Goto(p, ReadForUpdate(r, o.id, o.dto)) /\ UNCHANGED <<scenarios, jobs>>
    BY <1>2 DEF ReadCounted
  <2> HIDE DEF r
  <2>5. QED BY <2>1, <2>2, <2>3, <2>4, ReadForUpdateCalm
<1>3. QED BY <1>1, <1>2

\* A user asks for a removal.
LEMMA StartRemoveCalm ==
  ASSUME Typed, CalmInv, NEW p \in Procs, NEW i \in Ids, StartRemove(p, i)
  PROVE  CalmInv'
<1>1. /\ proc[p].pc # "job" /\ Goto(p, ReadForRemove(Idle, i))
      /\ UNCHANGED <<scenarios, jobs>> /\ \A n \in Names : ~Owes(p, jobs[n])
  BY DEF StartRemove, Owes
<1>2. CASE scenarios[i] = None
  BY <1>1, <1>2, EndCalm, IdleType DEF ReadForRemove
<1>3. CASE scenarios[i] # None
  <2> DEFINE r == [Idle EXCEPT !.pc = "delete", !.kind = "remove", !.id = i,
                               !.old = scenarios[i], !.new = None]
  <2>1. scenarios[i] \in Scenario
    BY <1>3 DEF Typed, TypeOK
  <2>2. r \in Op
    BY <2>1, IdleType DEF Op
  <2>3. r.pc = "delete" /\ r.id = i /\ r.old = scenarios[i]
    BY DEF Idle
  <2>4. Goto(p, r)
    BY <1>1, <1>3 DEF ReadForRemove
  <2> HIDE DEF r
  <2>5. QED BY <1>1, <1>3, <2>2, <2>3, <2>4, MoveCalm
<1>4. QED BY <1>2, <1>3

\* Ticks, device events and executions.
LEMMA ExecutionCalm ==
  ASSUME Typed, CalmInv, NEW p \in Procs,
         \/ \E n \in Names : Fire(p, n)
         \/ DeviceEvent(p)
         \/ \E e \in proc[p].queue : Execute(p, e) \/ SkipExecution(p, e)
  PROVE  CalmInv'
<1>0. proc[p] \in Op /\ scenarios \in [Ids -> Scenario \cup {None}]
      /\ jobs \in [Names -> Ids \cup {None}]
  BY DEF Typed, TypeOK
<1>1. /\ UNCHANGED <<scenarios, jobs>>
      /\ \A n \in Names : ~Owes(p, jobs[n])
  BY DEF Fire, DeviceEvent, Execute, SkipExecution, Owes
<1>2. ASSUME NEW q \in SUBSET Entry, Goto(p, [Idle EXCEPT !.pc = "evaluate", !.queue = q])
      PROVE  CalmInv'
  <2> DEFINE r == [Idle EXCEPT !.pc = "evaluate", !.queue = q]
  <2>1. r \in Op /\ r.pc = "evaluate"
    BY <1>2, IdleType DEF Op
  <2>2. Goto(p, r)
    BY <1>2
  <2> HIDE DEF r
  <2>3. QED BY <1>1, <2>1, <2>2, MoveCalm
<1>3. ASSUME NEW n \in Names, Fire(p, n) PROVE CalmInv'
  <2>1. {[id |-> jobs[n], doc |-> scenarios[jobs[n]]]} \in SUBSET Entry
    <3>1. jobs[n] \in Ids /\ scenarios[jobs[n]] \in Scenario
      BY <1>0, <1>3 DEF Fire
    <3>2. [id |-> jobs[n], doc |-> scenarios[jobs[n]]] \in Entry
      BY <3>1 DEF Entry
    <3>3. QED BY <3>2
  <2>2. QED BY <1>2, <1>3, <2>1 DEF Fire
<1>4. CASE DeviceEvent(p)
  <2> DEFINE T == {i \in Ids : /\ scenarios[i] # None
                                /\ scenarios[i].active /\ HasDevice(scenarios[i])}
  <2>1. {[id |-> i, doc |-> scenarios[i]] : i \in T} \in SUBSET Entry
    BY <1>0 DEF Entry
  <2>2. Goto(p, [Idle EXCEPT !.pc = "evaluate",
                             !.queue = {[id |-> i, doc |-> scenarios[i]] : i \in T}])
    BY <1>4 DEF DeviceEvent
  <2>3. QED BY <1>2, <2>1, <2>2
<1>5. ASSUME NEW e \in proc[p].queue, Execute(p, e) \/ SkipExecution(p, e)
      PROVE  CalmInv'
  <2> DEFINE rest == [proc[p] EXCEPT !.queue = @ \ {e}]
             r == [rest EXCEPT !.pc = "read", !.id = e.id, !.dto = Decrement(e.doc)]
  <2>1. rest \in Op /\ e.id \in Ids /\ e.doc \in Scenario
    BY <1>0 DEF Op, Entry
  <2>2. CASE Goto(p, Done(rest))
    <3> HIDE DEF rest
    <3>1. QED BY <1>1, <2>1, <2>2, EndCalm
  <2>3. CASE e.doc.repeat \in 1..MaxRepeat /\ Goto(p, r)
    <3>1. Decrement(e.doc) \in UpdateDto
      BY <2>1, <2>3, DecrementType
    <3> HIDE DEF rest
    <3>2. r \in Op
      BY <2>1, <3>1 DEF Op
    <3>3. r.pc = "read" /\ r.dto = Decrement(e.doc)
      BY <2>1 DEF Op
    <3>4. OnlyDeactivates(r.dto)
      BY <2>1, <3>3, DecrementOnlyDeactivates
    <3> HIDE DEF r
    <3>5. QED BY <1>1, <2>3, <3>2, <3>3, <3>4, MoveCalm
  <2>4. QED BY <1>5, <2>2, <2>3 DEF Execute, SkipExecution
<1>6. QED BY <1>3, <1>4, <1>5

-----------------------------------------------------------------------------
(* Steps that end the activity of a scenario, and those that tell the      *)
(* registry.                                                               *)

\* A handler changes a document it has read, so that the stored one is weaker
\* than before, and goes on to the registry.
LEMMA WeakenCalm ==
  ASSUME Typed, CalmInv, NEW p \in Procs, proc[p].pc \in {"save", "delete"},
         NEW i \in Ids, i = proc[p].id,
         NEW s, scenarios' = [scenarios EXCEPT ![i] = s], UNCHANGED jobs,
         s # None => s \in Scenario /\ scenarios[i] # None /\ Weaker(s, scenarios[i]),
         NEW r \in Op, Goto(p, r), r.pc = "job", r.id = i, r.old = proc[p].old,
         r.kind = proc[p].kind, r.kind \in {"update", "count", "remove"},
         r.kind = "remove" => s = None,
         r.kind # "remove" => Weaker(r.new, r.old),
         r.kind # "remove" /\ ~r.new.active => s = None \/ ~s.active,
         r.kind # "remove" /\ ~Scheduled(s) /\ Scheduled(scenarios[i]) => ~r.new.active
  PROVE  CalmInv'
<1>1. /\ proc'[p] = r /\ \A q \in Procs : q # p => proc'[q] = proc[q]
      /\ jobs' = jobs
      /\ scenarios'[i] = s /\ \A j \in Ids : j # i => scenarios'[j] = scenarios[j]
  BY DEF Goto, Typed, TypeOK
<1>2. /\ ~Refused(r.old) /\ HandlerCalm(proc[p])
      /\ scenarios[i] # None => Weaker(scenarios[i], r.old)
  BY DEF CalmInv, HandlerCalm
<1>3. NamesFixed'
  <2>1. ASSUME NEW j \in Ids, NEW n \in Names, Known(j, n)' PROVE Known(j, n)
    <3>1. CASE scenarios'[j] # None /\ scenarios'[j].name = n
      BY <1>1, <3>1 DEF Known, Weaker
    <3>2. ASSUME NEW q \in Procs, proc'[q].pc \in {"save", "delete", "job"},
                 proc'[q].id = j, proc'[q].old.name = n
          PROVE  Known(j, n)
      BY <1>1, <3>2 DEF Known
    <3>3. CASE jobs'[n] = j
      BY <1>1, <3>3 DEF Known
    <3>4. QED BY <2>1, <3>1, <3>2, <3>3 DEF Known
  <2>2. QED BY <2>1, NamesStayFixed DEF CalmInv
<1>4. HandlerCalm(proc[p])'
  <2>1. s # None => Weaker(s, r.old)
    BY <1>2 DEF Weaker
  <2>2. QED BY <1>1, <1>2, <2>1 DEF HandlerCalm
<1>5. ASSUME NEW q \in Procs, q # p PROVE HandlerCalm(proc[q])'
  <2>1. HandlerCalm(proc[q]) /\ proc'[q] = proc[q]
    BY <1>1, <1>5 DEF CalmInv
  <2>2. CASE proc[q].id = i
    <3>1. /\ scenarios'[proc[q].id] = s
          /\ s # None => /\ scenarios[proc[q].id] # None
                         /\ Weaker(s, scenarios[proc[q].id])
      BY <1>1, <2>2
    <3>2. QED BY <2>1, <3>1 DEF HandlerCalm, Weaker
  <2>3. CASE proc[q].id # i
    <3>1. proc[q].pc \in {"save", "delete", "job"} => proc[q].id \in Ids
      BY DEF Typed, Shape
    <3>2. proc[q].pc \in {"save", "delete", "job"} =>
            scenarios'[proc[q].id] = scenarios[proc[q].id]
      BY <1>1, <2>3, <3>1
    <3>3. CASE proc[q].pc \in {"save", "delete", "job"}
      BY <2>1, <3>2, <3>3 DEF HandlerCalm
    <3>4. CASE proc[q].pc \notin {"save", "delete", "job"}
      <4>1. proc[q].pc \in {"idle", "read", "evaluate"}
        BY <2>1, <3>4 DEF HandlerCalm
      <4>2. proc'[q].pc = proc[q].pc /\ proc'[q].dto = proc[q].dto
        BY <2>1
      <4>3. proc[q].pc = "read" => OnlyDeactivates(proc[q].dto)
        BY <2>1 DEF HandlerCalm
      <4>4. QED BY <4>1, <4>2, <4>3 DEF HandlerCalm, OnlyDeactivates
    <3>5. QED BY <3>3, <3>4
  <2>4. QED BY <2>2, <2>3
<1>6. ASSUME NEW j \in Ids, Scheduled(scenarios'[j])
      PROVE  OwnsJob(j)' /\ ~Refused(scenarios'[j])
  <2>1. CASE j # i
    BY <1>1, <1>6, <2>1 DEF CalmInv, OwnsJob
  <2>2. CASE j = i
    <3>1. s # None /\ Weaker(s, scenarios[i]) /\ Scheduled(s)
      BY <1>1, <1>6, <2>2 DEF Scheduled
    <3>2. Scheduled(scenarios[i])
      BY <3>1 DEF Scheduled, Weaker, HasCron
    <3>3. OwnsJob(i) /\ ~Refused(scenarios[i])
      BY <3>2 DEF CalmInv
    <3>4. QED BY <1>1, <2>2, <3>1, <3>2, <3>3 DEF OwnsJob, Refused, Weaker
  <2>3. QED BY <2>1, <2>2
<1>7. ASSUME NEW n \in Names, jobs'[n] # None
      PROVE  Scheduled(scenarios'[jobs'[n]]) \/ \E q \in Procs : Owes(q, jobs[n])'
  <2>1. jobs[n] \in Ids /\ jobs[n] # None
    BY <1>1, <1>7 DEF Typed, TypeOK
  <2>2. ASSUME NEW q \in Procs, Owes(q, jobs[n])
        PROVE  \E q1 \in Procs : Owes(q1, jobs[n])'
    <3>1. q # p
      BY <2>2 DEF Owes
    <3>2. QED BY <1>1, <2>2, <3>1 DEF Owes
  <2>3. CASE Scheduled(scenarios[jobs[n]]) /\ jobs[n] = i /\ ~Scheduled(s)
    <3>1. Scheduled(r.old)
      <4>1. r.old # None
        BY NoneAssumption DEF Typed, Shape
      <4>2. QED BY <1>2, <2>3, <4>1 DEF Scheduled, Weaker, HasCron
    <3>2. r.kind = "remove" \/ ~r.new.active
      BY <2>3
    <3>3. Owes(p, jobs[n])'
      BY <1>1, <2>3, <3>1, <3>2 DEF Owes
    <3>4. QED BY <3>3
  <2>4. CASE Scheduled(scenarios[jobs[n]]) /\ (jobs[n] # i \/ Scheduled(s))
    BY <1>1, <2>1, <2>4
  <2>5. QED BY <2>1, <2>2, <2>3, <2>4 DEF CalmInv
<1>8. QED BY <1>1, <1>3, <1>4, <1>5, <1>6, <1>7 DEF CalmInv

\* What a save stores is weaker than what was stored, and inactive when the
\* update ends the activity.
LEMMA MergeWeaker ==
  ASSUME NEW db \in Scenario, NEW old \in Scenario, NEW new \in Scenario,
         Weaker(db, old), Weaker(new, old)
  PROVE  /\ Weaker(Merge(db, old, new), db)
         /\ ~new.active => ~Merge(db, old, new).active
         /\ new.active => Merge(db, old, new).active = db.active
<1>1. Merge(db, old, new).name = db.name /\ Merge(db, old, new).trig = db.trig
  BY DEF Merge, Weaker
<1>2. Merge(db, old, new).active =
        IF new.active = old.active THEN db.active ELSE new.active
  BY DEF Merge
<1>3. new.active \in BOOLEAN /\ old.active \in BOOLEAN /\ db.active \in BOOLEAN
  BY DEF Scenario
<1>4. (db.active => old.active) /\ (new.active => old.active)
  BY DEF Weaker
<1>5. QED BY <1>1, <1>2, <1>3, <1>4 DEF Weaker

\* A save that ends activity, or that only counts down.
LEMMA SaveUpdateCalm ==
  ASSUME Calm, Typed, CalmInv, NEW p \in Procs, SaveUpdate(p)
  PROVE  CalmInv'
<1> DEFINE o == proc[p]
           i == o.id
           s == Merge(scenarios[i], o.old, o.new)
           r == [o EXCEPT !.pc = "job"]
<1>1. /\ o \in Op /\ o.pc = "save" /\ i \in Ids /\ o.kind \in {"update", "count"}
      /\ o.old \in Scenario /\ o.new \in Scenario /\ HandlerCalm(o)
  BY DEF SaveUpdate, Typed, TypeOK, Shape, CalmInv
<1>2. CASE Goto(p, Done(o)) /\ UNCHANGED scenarios
  <2>1. \A n \in Names : ~Owes(p, jobs[n])
    BY <1>1 DEF Owes
  <2>2. QED BY <1>1, <1>2, <2>1, EndCalm DEF SaveUpdate
<1>3. CASE scenarios[i] # None /\ scenarios' = [scenarios EXCEPT ![i] = s] /\ Goto(p, r)
  <2>1. /\ scenarios[i] \in Scenario /\ Weaker(scenarios[i], o.old)
        /\ Weaker(o.new, o.old)
    BY <1>1, <1>3 DEF Typed, TypeOK, HandlerCalm
  <2>2. s \in Scenario
    BY <1>1, <2>1, MergeType
  <2>3. /\ Weaker(s, scenarios[i])
        /\ ~o.new.active => ~s.active
        /\ o.new.active => s.active = scenarios[i].active
    BY <1>1, <2>1, MergeWeaker
  <2>4. r \in Op
    BY <1>1 DEF Op
  <2>5. /\ r.pc = "job" /\ r.id = i /\ r.old = o.old /\ r.new = o.new
        /\ r.kind = o.kind
    BY <1>1 DEF Op
  <2>6. Goto(p, r)
    BY <1>3
  <2>7. ~Scheduled(s) /\ Scheduled(scenarios[i]) => ~o.new.active
    <3>1. s # None /\ s.trig = scenarios[i].trig
      BY <2>2, <2>3, NoneAssumption DEF Weaker
    <3>2. QED BY <2>3, <3>1 DEF Scheduled, HasCron
  <2>8. UNCHANGED jobs
    BY DEF SaveUpdate
  <2> HIDE DEF s, r
  <2>9. QED BY <1>1, <1>3, <2>1, <2>2, <2>3, <2>4, <2>5, <2>6, <2>7, <2>8,
            WeakenCalm
<1>4. o.old.group = o.new.group
  <2>1. o.old.group \in {None} /\ o.new.group \in {None}
    BY <1>1 DEF Calm, Scenario
  <2>2. QED BY <2>1
<1>5. QED BY <1>2, <1>3, <1>4 DEF SaveUpdate

\* A removal deletes the document.
LEMMA DeleteCalm ==
  ASSUME Calm, Typed, CalmInv, NEW p \in Procs, Delete(p)
  PROVE  CalmInv'
<1> DEFINE o == proc[p]
           i == o.id
           r == [o EXCEPT !.leave = None, !.pc = "job"]
<1>1. /\ o \in Op /\ o.pc = "delete" /\ i \in Ids /\ o.kind = "remove"
      /\ o.old \in Scenario
  BY DEF Delete, Typed, TypeOK, Shape
<1>2. o.old.group = None
  <2>1. o.old.group \in {None}
    BY <1>1 DEF Calm, Scenario
  <2>2. QED BY <2>1
<1>3. r \in Op
  BY <1>1 DEF Op
<1>4. r.pc = "job" /\ r.id = i /\ r.old = o.old /\ r.kind = o.kind
  BY <1>1 DEF Op
<1>5. Goto(p, r) /\ UNCHANGED jobs /\ scenarios' = [scenarios EXCEPT ![i] = None]
  BY <1>2 DEF Delete
<1> HIDE DEF r
<1>6. QED BY <1>1, <1>3, <1>4, <1>5, WeakenCalm

\* A handler deletes the job of a scenario whose activity has ended: it deletes
\* no other scenario's job, and owes nothing afterwards.
LEMMA ReleaseCalm ==
  ASSUME Typed, CalmInv, NEW p \in Procs, NEW o, o = proc[p], o.pc = "job",
         scenarios[o.id] = None \/ ~scenarios[o.id].active,
         jobs' = [jobs EXCEPT ![o.old.name] = None],
         Goto(p, Done(o)), UNCHANGED scenarios,
         o.id \in Ids, o.old \in Scenario
  PROVE  CalmInv'
<1>1. o \in Op /\ Done(o) \in Op
  BY DoneType DEF Typed, TypeOK
<1>2. Done(o).pc \in {"idle", "evaluate"}
  <2>1. CASE o.queue = {}
    BY <2>1 DEF Done, Idle
  <2>2. CASE o.queue # {}
    BY <2>2 DEF Done, Idle
  <2>3. QED BY <2>1, <2>2
<1>3. /\ proc'[p] = Done(o) /\ \A q \in Procs : q # p => proc'[q] = proc[q]
      /\ scenarios' = scenarios /\ o.old.name \in Names
      /\ \A n \in Names : jobs'[n] = IF n = o.old.name THEN None ELSE jobs[n]
  BY DEF Goto, Typed, TypeOK, Scenario
<1>4. Known(o.id, o.old.name)
  BY DEF Known
<1>5. NamesFixed'
  <2>1. ASSUME NEW j \in Ids, NEW n \in Names, Known(j, n)' PROVE Known(j, n)
    BY <1>2, <1>3, <2>1, NoneAssumption DEF Known
  <2>2. QED BY <2>1, NamesStayFixed DEF CalmInv
<1>6. ASSUME NEW q \in Procs PROVE HandlerCalm(proc[q])'
  <2>1. CASE q = p
    BY <1>2, <1>3, <2>1 DEF HandlerCalm
  <2>2. CASE q # p
    <3>1. HandlerCalm(proc[q])
      BY DEF CalmInv
    <3>2. QED BY <1>3, <2>2, <3>1 DEF HandlerCalm, OnlyDeactivates
  <2>3. QED BY <2>1, <2>2
<1>7. ASSUME NEW j \in Ids, Scheduled(scenarios[j])
      PROVE  OwnsJob(j)' /\ ~Refused(scenarios'[j])
  <2>1. OwnsJob(j) /\ ~Refused(scenarios[j]) /\ scenarios[j] \in Scenario
    BY <1>7 DEF CalmInv, Scheduled, Typed, TypeOK
  <2>2. scenarios[j].name \in Names /\ Known(j, scenarios[j].name)
    BY <2>1 DEF Scenario, OwnsJob, Known
  <2>3. scenarios[j].name # o.old.name
    BY <1>3, <1>4, <1>7, <2>2 DEF CalmInv, NamesFixed, Scheduled
  <2>4. QED BY <1>3, <2>1, <2>2, <2>3 DEF OwnsJob
<1>8. ASSUME NEW n \in Names, jobs'[n] # None
      PROVE  Scheduled(scenarios'[jobs'[n]]) \/ \E q \in Procs : Owes(q, jobs[n])'
  <2>1. jobs'[n] = jobs[n] /\ n # o.old.name /\ jobs[n] \in Ids
    BY <1>3, <1>8 DEF Typed, TypeOK
  <2>2. jobs[n] # o.id
    <3>1. Known(jobs[n], n)
      BY DEF Known
    <3>2. QED BY <1>3, <1>4, <2>1, <3>1 DEF CalmInv, NamesFixed
  <2>3. ASSUME NEW q \in Procs, Owes(q, jobs[n]) PROVE Owes(q, jobs[n])'
    <3>1. q # p
      BY <2>2, <2>3 DEF Owes
    <3>2. QED BY <1>3, <2>1, <2>3, <3>1 DEF Owes
  <2>4. QED BY <1>3, <1>8, <2>1, <2>3 DEF CalmInv
<1>9. QED BY <1>3, <1>5, <1>6, <1>7, <1>8 DEF CalmInv

\* An update reaches the registry: it deletes its own job, or leaves it.
LEMMA RescheduleCalm ==
  ASSUME Typed, CalmInv, NEW p \in Procs, Reschedule(p)
  PROVE  CalmInv'
<1> DEFINE o == proc[p]
           n == o.old.name
           freed == IF Scheduled(o.old) THEN [jobs EXCEPT ![n] = None] ELSE jobs
<1>1. /\ o \in Op /\ o.pc = "job" /\ o.kind \in {"update", "count"} /\ o.id \in Ids
      /\ o.old \in Scenario /\ o.new \in Scenario /\ n \in Names
      /\ UNCHANGED scenarios
  BY DEF Reschedule, Typed, TypeOK, Shape, Scenario
<1>2. /\ ~Refused(o.old) /\ Weaker(o.new, o.old)
      /\ ~o.new.active => scenarios[o.id] = None \/ ~scenarios[o.id].active
  BY <1>1 DEF CalmInv, HandlerCalm
<1>3. o.old # None /\ o.new # None
  BY <1>1, NoneAssumption
<1>4. Scheduled(o.new) => Scheduled(o.old)
  BY <1>2, <1>3 DEF Scheduled, Weaker, HasCron
<1>5. jobs[n] = o.id \/ jobs[n] = None
  <2>1. Known(o.id, n) /\ (jobs[n] # None => jobs[n] \in Ids /\ Known(jobs[n], n))
    BY <1>1 DEF Known, Typed, TypeOK
  <2>2. QED BY <1>1, <2>1 DEF CalmInv, NamesFixed
<1>6. ASSUME NEW m \in Names, jobs[m] # None, Owes(p, jobs[m])
      PROVE  jobs[m] = o.id /\ m = n /\ Scheduled(o.old) /\ ~o.new.active
  <2>1. jobs[m] = o.id /\ Scheduled(o.old) /\ ~o.new.active
    BY <1>1, <1>6 DEF Owes
  <2>2. Known(o.id, n) /\ Known(o.id, m)
    BY <1>1, <2>1 DEF Known
  <2>3. QED BY <1>1, <2>1, <2>2 DEF CalmInv, NamesFixed
<1>7. CASE Scheduled(o.old) /\ jobs[n] = None
  <2>1. Goto(p, Done(o)) /\ UNCHANGED jobs
    BY <1>7 DEF Reschedule
  <2>2. QED BY <1>1, <1>6, <1>7, <2>1, EndCalm
<1>8. CASE (Scheduled(o.old) => jobs[n] # None) /\ ~Scheduled(o.new)
  <2>1. Goto(p, Done(o)) /\ jobs' = freed
    BY <1>8 DEF Reschedule
  <2>2. CASE Scheduled(o.old)
    <3>1. scenarios[o.id] = None \/ ~scenarios[o.id].active
      BY <1>2, <1>3, <1>8, <2>2 DEF Scheduled, Weaker, HasCron
    <3>2. QED BY <1>1, <2>1, <2>2, <3>1, ReleaseCalm
  <2>3. CASE ~Scheduled(o.old)
    BY <1>1, <1>6, <2>1, <2>3, EndCalm
  <2>4. QED BY <2>2, <2>3
<1>9. CASE (Scheduled(o.old) => jobs[n] # None) /\ Scheduled(o.new)
  <2>1. Scheduled(o.old) /\ o.new.name = n /\ o.new.trig # "bad" /\ o.new.active
    BY <1>2, <1>4, <1>9 DEF Weaker, Refused, Scheduled
  <2>2. freed = [jobs EXCEPT ![n] = None] /\ freed[n] = None /\ jobs[n] = o.id
    BY <1>1, <1>5, <1>9, <2>1 DEF Typed, TypeOK
  <2>3. Goto(p, Done(o)) /\ jobs' = [freed EXCEPT ![n] = o.id]
    BY <1>9, <2>1, <2>2 DEF Reschedule
  <2>4. jobs' = jobs
    BY <1>1, <2>2, <2>3 DEF Typed, TypeOK
  <2>5. QED BY <1>1, <1>6, <2>1, <2>3, <2>4, EndCalm
<1>10. QED BY <1>7, <1>8, <1>9

\* A removal reaches the registry.
LEMMA UnscheduleCalm ==
  ASSUME Typed, CalmInv, NEW p \in Procs, Unschedule(p)
  PROVE  CalmInv'
<1> DEFINE o == proc[p]
<1>1. /\ o \in Op /\ o.pc = "job" /\ o.kind = "remove" /\ o.id \in Ids
      /\ o.old \in Scenario /\ UNCHANGED scenarios /\ Goto(p, Done(o))
  BY DEF Unschedule, Typed, TypeOK, Shape
<1>2. scenarios[o.id] = None
  BY <1>1 DEF CalmInv, HandlerCalm
<1>3. CASE o.old.active
  BY <1>1, <1>2, <1>3, ReleaseCalm DEF Unschedule
<1>4. CASE ~o.old.active
  <2>1. \A i \in Ids : ~Owes(p, i)
    BY <1>4 DEF Owes, Scheduled
  <2>2. jobs' = jobs /\ \A m \in Names : jobs[m] # None => ~Owes(p, jobs[m])
    BY <1>4, <2>1 DEF Unschedule, Typed, TypeOK
  <2>3. QED BY <1>1, <2>2, EndCalm
<1>5. QED BY <1>3, <1>4

-----------------------------------------------------------------------------
(* The registry as it is built at boot, and the theorems.                  *)

\* No two documents have one name.
DistinctNames == \A i \in Ids : scenarios[i] # None => ~NameTaken(scenarios[i].name, i)

\* When ids and names correspond, the registry built from the documents holds
\* the job of every scheduled scenario and no other.
LEMMA JobsOfExact ==
  ASSUME scenarios \in [Ids -> Scenario \cup {None}],
         DistinctNames
  PROVE  /\ \A i \in Ids : Scheduled(scenarios[i]) =>
                JobsOf(scenarios)[scenarios[i].name] = i
         /\ \A n \in Names : JobsOf(scenarios)[n] # None =>
                /\ JobsOf(scenarios)[n] \in Ids
                /\ Scheduled(scenarios[JobsOf(scenarios)[n]])
                /\ scenarios[JobsOf(scenarios)[n]].name = n
<1> DEFINE P(i, n) == Scheduled(scenarios[i]) /\ scenarios[i].name = n
<1>1. ASSUME NEW n \in Names, NEW i \in Ids, P(i, n)
      PROVE  JobsOf(scenarios)[n] = i
  <2>1. P(CHOOSE j \in Ids : P(j, n), n) /\ (CHOOSE j \in Ids : P(j, n)) \in Ids
    BY <1>1
  <2>2. (CHOOSE j \in Ids : P(j, n)) = i
    BY <1>1, <2>1 DEF Scheduled, DistinctNames, NameTaken
  <2>3. QED BY <1>1, <2>2 DEF JobsOf
<1>2. ASSUME NEW i \in Ids, Scheduled(scenarios[i])
      PROVE  JobsOf(scenarios)[scenarios[i].name] = i
  <2>1. scenarios[i].name \in Names
    BY <1>2 DEF Scheduled, Scenario
  <2>2. QED BY <1>1, <1>2, <2>1
<1>3. ASSUME NEW n \in Names, JobsOf(scenarios)[n] # None
      PROVE  /\ JobsOf(scenarios)[n] \in Ids
             /\ Scheduled(scenarios[JobsOf(scenarios)[n]])
             /\ scenarios[JobsOf(scenarios)[n]].name = n
  <2>1. PICK i \in Ids : P(i, n)
    BY <1>3 DEF JobsOf
  <2>2. JobsOf(scenarios)[n] = i
    BY <1>1, <2>1
  <2>3. QED BY <2>1, <2>2
<1>4. QED BY <1>2, <1>3

\* The hub has just booted on documents with distinct names that it can schedule.
Booted ==
  /\ scenarios \in [Ids -> Scenario \cup {None}]
  /\ DistinctNames
  /\ \A i \in Ids : ~Refused(scenarios[i])
  /\ jobs = JobsOf(scenarios) /\ proc = [p \in Procs |-> Idle]

\* With no handler in progress and the registry just built, all is well.
LEMMA BootCalm == Booted => CalmInv
<1> SUFFICES ASSUME Booted PROVE CalmInv
  OBVIOUS
<1> USE DEF Booted
<1>1. NamesFixed
  <2>1. ASSUME NEW i \in Ids, NEW n \in Names, Known(i, n)
        PROVE  scenarios[i] # None /\ scenarios[i].name = n
    <3>1. \A p \in Procs : proc[p].pc = "idle"
      BY DEF Idle
    <3>2. CASE jobs[n] = i
      <4>1. Scheduled(scenarios[i]) /\ scenarios[i].name = n
        BY <3>2, JobsOfExact, NoneAssumption
      <4>2. QED BY <4>1 DEF Scheduled
    <3>3. QED BY <2>1, <3>1, <3>2 DEF Known
  <2>2. QED BY <2>1 DEF NamesFixed, DistinctNames, NameTaken
<1>2. \A p \in Procs : HandlerCalm(proc[p])
  BY DEF HandlerCalm, Idle
<1>3. QED BY <1>1, <1>2, JobsOfExact DEF CalmInv, OwnsJob

\* The hub boots with the right registry.
LEMMA InitCalm == Init => CalmInv
<1> SUFFICES ASSUME Init PROVE CalmInv
  OBVIOUS
<1>1. scenarios \in [Ids -> Scenario \cup {None}]
  BY InitTyped DEF Typed, TypeOK
<1>2. \A i \in Ids : ~Refused(scenarios[i])
  BY DEF Init, Refused, Scheduled
<1>3. DistinctNames
  BY DEF Init, DistinctNames
<1>4. jobs = JobsOf(scenarios) /\ proc = [p \in Procs |-> Idle]
  BY DEF Init
<1>5. Booted
  BY <1>1, <1>2, <1>3, <1>4 DEF Booted
<1>6. QED BY <1>5, BootCalm

\* A restart rebuilds it from documents whose names are still distinct.
LEMMA RestartCalm ==
  ASSUME Typed, CalmInv, Restart
  PROVE  CalmInv'
<1>1. scenarios' \in [Ids -> Scenario \cup {None}]
  BY DEF Restart, Typed, TypeOK
<1>2. \A i \in Ids : ~Refused(scenarios[i])'
  BY DEF Restart, Refused, Scheduled, HasCron
<1>3. DistinctNames'
  <2>1. ASSUME NEW i \in Ids, scenarios[i] # None
        PROVE  scenarios[i].name \in Names /\ Known(i, scenarios[i].name)
    BY <2>1 DEF Typed, TypeOK, Scenario, Known
  <2>2. QED BY <2>1 DEF CalmInv, NamesFixed, Restart, DistinctNames, NameTaken
<1>4. jobs' = JobsOf(scenarios)'
  BY DEF Restart, JobsOf
<1>5. proc' = [p \in Procs |-> Idle]
  BY DEF Restart
<1>6. Booted'
  <2>1. (scenarios \in [Ids -> Scenario \cup {None}])'
    BY <1>1
  <2>2. (jobs = JobsOf(scenarios))'
    BY <1>4
  <2>3. QED BY <1>2, <1>3, <1>5, <2>1, <2>2 DEF Booted
<1>7. QED BY <1>6, BootCalm, PTL

\* Every step of a calm system keeps the invariant: the others are not taken.
LEMMA NextCalm == Calm /\ Typed /\ CalmInv /\ [Next]_vars => CalmInv'
<1> SUFFICES ASSUME Calm, Typed, CalmInv, [Next]_vars PROVE CalmInv'
  OBVIOUS
<1>1. CASE Restart
  BY <1>1, RestartCalm
<1>2. ASSUME NEW p \in Procs, Start(p) PROVE CalmInv'
  <2>1. /\ \A i \in Ids, s \in Creations : ~StartAdd(p, i, s)
        /\ \A g \in Groups : ~StartCreateGroup(p, g)
        /\ \A g \in Groups, k \in {"unlinkGroup", "purgeGroup", "deleteEmptyGroup"} :
             ~StartDeleteGroup(p, g, k)
    BY DEF Calm, StartAdd
  <2>2. QED BY <1>2, <2>1, ReadsCalm, StartRemoveCalm, ExecutionCalm DEF Start
<1>3. ASSUME NEW p \in Procs, Continue(p) PROVE CalmInv'
  <2>1. /\ proc[p].pc \in {"idle", "read", "save", "delete", "job", "evaluate"}
        /\ proc[p].pc = "job" => proc[p].kind \in {"update", "count", "remove"}
    BY DEF CalmInv, HandlerCalm
  <2>2. /\ ~Insert(p) /\ ~ScheduleAdded(p) /\ ~Rollback(p) /\ ~RescheduleOld(p)
        /\ ~RemoveAdded(p) /\ ~GroupRead(p) /\ ~GroupSave(p) /\ ~ClearGroup(p)
        /\ ~DropGroup(p)
    BY <2>1 DEF Insert, ScheduleAdded, Rollback, RescheduleOld, RemoveAdded,
                GroupRead, GroupSave, ClearGroup, DropGroup
  <2>3. QED BY <1>3, <2>2, ReadsCalm, SaveUpdateCalm, RescheduleCalm, DeleteCalm,
                UnscheduleCalm, ExecutionCalm DEF Continue
<1>4. CASE UNCHANGED vars
  BY <1>4 DEF vars, CalmInv, NamesFixed, Known, HandlerCalm, Owes, OwnsJob
<1>5. QED BY <1>1, <1>2, <1>3, <1>4 DEF Next

\* The inductive invariant holds in every calm behaviour.
LEMMA AlwaysCalm == ASSUME Calm PROVE Spec => [](Typed /\ CalmInv)
<1>1. Init => Typed /\ CalmInv
  BY InitTyped, InitCalm
<1>2. Typed /\ CalmInv /\ [Next]_vars => (Typed /\ CalmInv)'
  BY NextTyped, NextCalm
<1>3. QED BY <1>1, <1>2, PTL DEF Spec

\* Under the same conditions names and ids correspond, what handlers have read
\* is at least as active as what is stored, every scheduled scenario has its
\* job, and whoever made a job superfluous is still going to delete it.
THEOREM CalmInvariant == ASSUME Calm PROVE Spec => []CalmInv
BY AlwaysCalm, PTL

\* When nothing is added, activated, renamed or retriggered and groups are not
\* used, then however many executions, deactivations, removals and restarts
\* overlap, no active scenario is left without its job.
THEOREM CalmSchedules == ASSUME Calm PROVE Spec => []NoMissedSchedule
<1>1. Typed /\ CalmInv => NoMissedSchedule
  BY DEF CalmInv, NoMissedSchedule
<1>2. QED BY <1>1, AlwaysCalm, PTL

\* Under the same conditions nothing that was deactivated or deleted keeps
\* ticking once the handlers are done.
THEOREM CalmNoZombies == ASSUME Calm PROVE Spec => []NoZombieJob
<1>1. Typed /\ CalmInv => NoZombieJob
  <2> SUFFICES ASSUME Typed, CalmInv, Quiet, NEW n \in Names, jobs[n] # None
               PROVE  Scheduled(scenarios[jobs[n]]) /\ scenarios[jobs[n]].name = n
    BY DEF NoZombieJob
  <2>1. Scheduled(scenarios[jobs[n]])
    BY DEF CalmInv, Quiet, Owes
  <2>2. jobs[n] \in Ids /\ scenarios[jobs[n]].name \in Names
    BY <2>1 DEF Typed, TypeOK, Scheduled, Scenario
  <2>3. Known(jobs[n], n) /\ Known(jobs[n], scenarios[jobs[n]].name)
    BY <2>1 DEF Known, Scheduled
  <2>4. QED BY <2>1, <2>2, <2>3 DEF CalmInv, NamesFixed
<1>2. QED BY <1>1, AlwaysCalm, PTL

-----------------------------------------------------------------------------
(* What handlers that take turns guarantee: every schedule has its job and no  *)
(* job is left over, scenariosCount is exact, repeatTimes is never exceeded,   *)
(* and a refused update leaves nothing behind.                                 *)


\* One handler at a time, none of them interrupted; no group is deleted
\* together with its scenarios, behind the back of ScenariosService.  And no update
\* submits a cron expression that CronJob refuses together with a group, or with the
\* activation, or moves and activates a scenario that may hold such an expression:
\* the rollback would leave the groups out of step, or schedule an inactive scenario.
Turns ==
  /\ \E p \in Procs : Procs = {p}
  /\ "restart" \notin Requests /\ "purgeGroup" \notin Requests
  /\ \A d \in Updates :
       /\ d.group # None => d.trig # "bad" /\ (d.active = "on" => d.trig # None)
       /\ ~(d.active = "on" /\ d.trig = "bad")

\* Nor together with repeatTimes, which the rollback leaves at the new value
\* where the old document had none.
RefusedAlone == \A d \in Updates : d.trig = "bad" => d.repeat = Unset

-----------------------------------------------------------------------------
(* The inductive invariant: what a handler o at an await has established.  *)

\* The document has been written, the groups or the registry are still to come.
Saved(o) == InGroups(o) \/ o.pc = "job"

\* The document the registry was last told of.
Registered(o, i) ==
  IF o.id # i \/ ~(Saved(o) \/ o.pc = "reschedule") THEN scenarios[i]
  ELSE IF o.kind = "add" \/ o.pc = "reschedule" THEN None ELSE o.old

Runs(s) == Scheduled(s) /\ s.trig # "bad"

\* The jobs are those of the documents the registry was told of.
Registry(o) ==
  \A n \in Names, i \in Ids :
    jobs[n] = i <=> Runs(Registered(o, i)) /\ Registered(o, i).name = n

NamesUnique ==
  \A i, j \in Ids : scenarios[i] # None /\ scenarios[j] # None
                    /\ scenarios[i].name = scenarios[j].name => i = j

\* What an update may make of a document: if the new schedule is refused, then
\* the groups are left alone, and the old document was active or had a schedule
\* that would have been refused.
Revises(old, new) ==
  /\ ~Refused(old)
  /\ Refused(new) => /\ new.group = old.group
                     /\ old.active \/ old.trig = "bad"
                     /\ RefusedAlone /\ old.active => new.repeat = old.repeat

\* What an execution makes of it.
CountsDown(old, new) ==
  /\ ~Refused(old) /\ ~Refused(new)
  /\ new.name = old.name /\ new.group = old.group
  /\ new.active => old.active

HoldsOld(o) ==
  \/ o.pc \in {"save", "delete", "rollback", "reschedule"}
  \/ Saved(o) /\ o.kind \in {"update", "count", "remove"}

\* What is stored is what the handler has read, or what it has written.
Position(o) ==
  LET s == scenarios[o.id] IN
  /\ o.pc \in {"idle", "evaluate", "clear", "drop"} => o.id = None
  /\ o.pc = "insert" => s = None /\ ~NameTaken(o.new.name, o.id)
  /\ o.pc = "read" => /\ s # None /\ s.active /\ s.repeat \in 1..MaxRepeat
                      /\ o.dto = Decrement(s)
  /\ o.pc \in {"save", "delete"} => s = o.old
  /\ o.pc \in {"removeRead", "rollback"} => s = o.new
  /\ o.pc \in {"removeRead", "rollback", "reschedule"} => Refused(o.new)
  /\ o.pc = "reschedule" =>
       /\ s # None /\ s = [o.old EXCEPT !.repeat = s.repeat]
       /\ RefusedAlone /\ o.old.active => s = o.old
  /\ Saved(o) /\ o.kind \in {"add", "update", "count"} => s = o.new
  /\ Saved(o) /\ o.kind = "remove" => s = None
  /\ o.pc \in {"rollback", "reschedule"} => o.kind = "update"
  /\ HoldsOld(o) => ~NameTaken(o.old.name, o.id)
  /\ HoldsOld(o) /\ o.kind = "update" => Revises(o.old, o.new)
  /\ HoldsOld(o) /\ o.kind = "count" => CountsDown(o.old, o.new)

\* A schedule that CronJob refuses is on its way out.
NoneRefused(o) ==
  \A i \in Ids : Refused(scenarios[i]) =>
    i = o.id /\ (Saved(o) \/ o.pc \in {"rollback", "removeRead", "delete"})

\* The groups a handler has still to count, or the one it deletes.
Moves(o) ==
  /\ InGroups(o) => o.leave # o.join
  /\ InGroups(o) /\ o.kind = "createGroup" =>
       o.leave = None /\ o.id = None /\ groups[o.join] = Missing
  /\ o.pc = "groupSave" => o.count = groups[Target(o)]
  /\ o.pc \in {"clear", "drop"} => /\ o.kind # "purgeGroup" /\ o.queue = {}
                                   /\ o.count = groups[o.leave] /\ o.count # Missing
  /\ o.pc = "drop" => Members(o.leave) = {}
  /\ ~InGroups(o) /\ o.pc \notin {"clear", "drop"} => o.leave = None /\ o.join = None

Owed(o, g) == IF ~InGroups(o) \/ o.kind = "createGroup" THEN 0
              ELSE IF g = o.leave THEN 1 ELSE IF g = o.join THEN -1 ELSE 0
Stored(g) == IF groups[g] = Missing THEN 0 ELSE groups[g]

\* Counts are exact, up to the steps the handler still owes.
Counted(o) ==
  \A g \in Groups :
    /\ groups[g] >= Missing
    /\ ~(o.pc = "drop" /\ g = o.leave) => Stored(g) = Cardinality(Members(g)) + Owed(o, g)

Counting(o) == o.pc = "read" \/ (o.pc = "save" /\ o.kind = "count")

\* The executions left are those the document says, up to the one that has taken
\* place and is not yet counted.
Quotas(o) ==
  \A i \in Ids :
    /\ quota[i] >= 0
    /\ scenarios[i] # None /\ scenarios[i].active =>
         IF i # o.id \/ ~Counting(o) THEN quota[i] = QuotaOf(scenarios[i])
         ELSE IF o.pc = "read" THEN quota[i] = scenarios[i].repeat - 1
         ELSE o.new.active => quota[i] = QuotaOf(o.new)

\* What was fetched and is still to be executed is what is stored.
Fetched(o) ==
  \A e \in o.queue : /\ scenarios[e.id] = e.doc /\ e.doc.active
                     /\ o.pc # "evaluate" => e.id # o.id

Turn(o) == /\ Registry(o) /\ Position(o) /\ NoneRefused(o)
           /\ Moves(o) /\ Counted(o) /\ Quotas(o) /\ Fetched(o)

TurnInv == NamesUnique /\ \A p \in Procs : Turn(proc[p])

-----------------------------------------------------------------------------
(* Counting the scenarios of a group.                                      *)

In(s, g) == IF s # None /\ s.group = g THEN 1 ELSE 0

\* The scenarios of a group are finitely many.
LEMMA MembersFinite ==
  ASSUME NEW g
  PROVE  IsFiniteSet(Members(g)) /\ Cardinality(Members(g)) \in Nat
<1>1. Members(g) \in SUBSET Ids
  BY DEF Members
<1>2. IsFiniteSet(Members(g))
  BY <1>1, FiniteAssumption, FS_Subset
<1>3. QED BY <1>2, FS_CardinalityType

\* One document written, the number of members changes by what it joins and leaves.
LEMMA MembersMove ==
  ASSUME scenarios \in [Ids -> Scenario \cup {None}], NEW i \in Ids, NEW s, NEW g,
         scenarios' = [scenarios EXCEPT ![i] = s]
  PROVE  Cardinality(Members(g)') = Cardinality(Members(g)) + In(s, g) - In(scenarios[i], g)
<1> DEFINE M == Members(g)
<1>0. IsFiniteSet(M) /\ Cardinality(M) \in Nat
  BY MembersFinite
<1>1. CASE In(s, g) = 1
  <2>1. Members(g)' = M \cup {i}
    BY <1>1 DEF Members, In
  <2>2. i \in M <=> In(scenarios[i], g) = 1
    BY DEF Members, In
  <2>3. Cardinality(M \cup {i}) = IF i \in M THEN Cardinality(M) ELSE Cardinality(M) + 1
    BY <1>0, FS_AddElement
  <2> HIDE DEF M
  <2>4. QED BY <1>0, <1>1, <2>1, <2>2, <2>3 DEF In, M
<1>2. CASE In(s, g) = 0
  <2>1. Members(g)' = M \ {i}
    BY <1>2 DEF Members, In
  <2>2. i \in M <=> In(scenarios[i], g) = 1
    BY DEF Members, In
  <2>3. Cardinality(M \ {i}) = IF i \in M THEN Cardinality(M) - 1 ELSE Cardinality(M)
    BY <1>0, FS_RemoveElement
  <2> HIDE DEF M
  <2>4. QED BY <1>0, <1>2, <2>1, <2>2, <2>3 DEF In, M
<1>3. QED BY <1>1, <1>2 DEF In

\* Documents that keep their groups keep the members.
LEMMA MembersStay ==
  ASSUME UNCHANGED scenarios, NEW g
  PROVE  Members(g)' = Members(g)
  BY DEF Members

-----------------------------------------------------------------------------
(* Between two operations: the collections and the registry agree.         *)

Agreed ==
  /\ NamesUnique
  /\ \A n \in Names, i \in Ids : jobs[n] = i <=> Runs(scenarios[i]) /\ scenarios[i].name = n
  /\ \A g \in Groups : groups[g] >= Missing /\ Stored(g) = Cardinality(Members(g))
  /\ \A i \in Ids :
       /\ quota[i] >= 0
       /\ scenarios[i] # None /\ scenarios[i].active => quota[i] = QuotaOf(scenarios[i])
Rested == Agreed /\ \A i \in Ids : ~Refused(scenarios[i])

\* The entries Q that were fetched are still what is stored.
Current(Q) == \A e \in Q : scenarios[e.id] = e.doc /\ e.doc.active

\* A handler that holds nothing but the rest of its queue.
Plain(o) == /\ o.pc \in {"idle", "evaluate"} /\ o.id = None
            /\ o.leave = None /\ o.join = None /\ o.queue \in SUBSET Entry

\* A plain handler says that the state is at rest.
LEMMA PlainTurn ==
  ASSUME NEW o, Plain(o), NamesUnique
  PROVE  Turn(o) <=> Rested /\ Current(o.queue)
<1> USE DEF Plain
<1>1. ~InGroups(o) /\ ~Saved(o) /\ ~HoldsOld(o) /\ ~Counting(o)
  BY DEF InGroups, Saved, HoldsOld, Counting
<1>2. \A i \in Ids : i # o.id /\ Registered(o, i) = scenarios[i]
  BY <1>1, NoneAssumption DEF Registered
<1>3. Registry(o) <=> \A n \in Names, i \in Ids :
                        jobs[n] = i <=> Runs(scenarios[i]) /\ scenarios[i].name = n
  BY <1>2 DEF Registry
<1>4. Position(o) /\ Moves(o)
  BY <1>1 DEF Position, Moves
<1>5. NoneRefused(o) <=> \A i \in Ids : ~Refused(scenarios[i])
  BY <1>2 DEF NoneRefused
<1>6. ASSUME NEW g \in Groups PROVE Cardinality(Members(g)) + Owed(o, g) = Cardinality(Members(g))
  BY <1>1, MembersFinite DEF Owed
<1>7. Counted(o) <=> \A g \in Groups : groups[g] >= Missing /\ Stored(g) = Cardinality(Members(g))
  BY <1>6 DEF Counted
<1>8. Quotas(o) <=> \A i \in Ids :
       /\ quota[i] >= 0
       /\ scenarios[i] # None /\ scenarios[i].active => quota[i] = QuotaOf(scenarios[i])
  BY <1>2 DEF Quotas
<1>9. Fetched(o) <=> Current(o.queue)
  <2>1. \A e \in o.queue : e.id # o.id
    BY NoneAssumption DEF Entry
  <2>2. QED BY <2>1 DEF Fetched, Current
<1>10. QED BY <1>3, <1>4, <1>5, <1>7, <1>8, <1>9 DEF Turn, Rested, Agreed

\* A handler that has ended is plain.
LEMMA DonePlain ==
  ASSUME NEW o \in Op
  PROVE  Plain(Done(o)) /\ Done(o).queue = o.queue
<1>0. o.queue \in SUBSET Entry
  BY DEF Op
<1>1. CASE o.queue = {}
  BY <1>1 DEF Done, Plain, Idle
<1>2. CASE o.queue # {}
  <2> DEFINE r == [Idle EXCEPT !.pc = "evaluate", !.queue = o.queue]
  <2>1. Done(o) = r
    BY <1>2 DEF Done
  <2>2. r.pc = "evaluate" /\ r.id = None /\ r.leave = None /\ r.join = None /\ r.queue = o.queue
    BY DEF Idle
  <2>3. QED BY <1>0, <2>1, <2>2 DEF Plain
<1>3. QED BY <1>1, <1>2

\* The same of the state after a step.
LEMMA PlainTurnNext ==
  ASSUME NEW p \in Procs
  PROVE  (Plain(proc[p]) /\ NamesUnique => (Turn(proc[p]) <=> Rested /\ Current(proc[p].queue)))'
<1>1. Plain(proc[p]) /\ NamesUnique => (Turn(proc[p]) <=> Rested /\ Current(proc[p].queue))
  BY PlainTurn
<1>2. QED BY <1>1, PTL

\* A step after which the state is at rest, and the handler plain.
LEMMA EndTurn ==
  ASSUME NEW p \in Procs, Plain(proc'[p]), Rested',
         \A e \in proc'[p].queue : scenarios'[e.id] = e.doc /\ e.doc.active
  PROVE  NamesUnique' /\ Turn(proc[p])'
<1>1. Plain(proc[p])' /\ NamesUnique' /\ Current(proc[p].queue)'
  BY DEF Plain, Rested, Agreed, Current
<1>2. QED BY <1>1, PlainTurnNext

\* What a handler that has ended knows.
LEMMA RestingPlain ==
  ASSUME NEW o \in Op, o.pc \in {"idle", "evaluate"}, NamesUnique, Turn(o)
  PROVE  Plain(o) /\ Rested /\ Current(o.queue)
<1>1. Plain(o)
  BY DEF Turn, Position, Moves, InGroups, Plain, Op
<1>2. QED BY <1>1, PlainTurn

-----------------------------------------------------------------------------
(* Handlers that have read and not yet written.                            *)

Reading(o) == o.pc \in {"insert", "save", "delete"} /\ ~Counting(o)

\* A handler that has only read leaves the collections and the registry agreed.
LEMMA ReadingTurn ==
  ASSUME NEW o, Reading(o), Position(o), NoneRefused(o), Fetched(o), Agreed,
         o.leave = None, o.join = None
  PROVE  Turn(o)
<1> USE DEF Reading
<1>1. ~InGroups(o) /\ ~Saved(o) /\ ~Counting(o)
  BY DEF InGroups, Saved
<1>2. \A i \in Ids : Registered(o, i) = scenarios[i]
  BY <1>1 DEF Registered
<1>3. Registry(o)
  BY <1>2 DEF Registry, Agreed
<1>4. Moves(o)
  BY <1>1 DEF Moves
<1>5. ASSUME NEW g \in Groups PROVE Cardinality(Members(g)) + Owed(o, g) = Cardinality(Members(g))
  BY <1>1, MembersFinite DEF Owed
<1>6. Counted(o)
  BY <1>5 DEF Counted, Agreed
<1>7. Quotas(o)
  BY <1>1 DEF Quotas, Agreed
<1>8. QED BY <1>3, <1>4, <1>6, <1>7 DEF Turn

\* The same of the state after a step that stores nothing.
LEMMA ReadingTurnNext ==
  ASSUME NEW p \in Procs
  PROVE  (Reading(proc[p]) /\ Position(proc[p]) /\ NoneRefused(proc[p]) /\ Fetched(proc[p])
            /\ Agreed /\ proc[p].leave = None /\ proc[p].join = None
          => Turn(proc[p]))'
<1>1. Reading(proc[p]) /\ Position(proc[p]) /\ NoneRefused(proc[p]) /\ Fetched(proc[p])
        /\ Agreed /\ proc[p].leave = None /\ proc[p].join = None
      => Turn(proc[p])
  BY ReadingTurn
<1>2. QED BY <1>1, PTL

\* What agrees stays agreed when nothing is stored.
LEMMA AgreedStays ==
  ASSUME Agreed, UNCHANGED <<scenarios, groups, jobs, quota>>
  PROVE  Agreed' /\ (Rested => Rested')
<1>1. ASSUME NEW g \in Groups
      PROVE  Stored(g)' = Stored(g) /\ Cardinality(Members(g))' = Cardinality(Members(g))
  BY DEF Stored, Members
<1>2. NamesUnique' = NamesUnique
  BY DEF NamesUnique
<1>3. \A i \in Ids : Refused(scenarios[i])' = Refused(scenarios[i])
  BY DEF Refused, Scheduled, HasCron
<1>4. \A i \in Ids : Runs(scenarios[i])' = Runs(scenarios[i])
  BY DEF Runs, Scheduled, HasCron
<1>5. \A i \in Ids : QuotaOf(scenarios[i])' = QuotaOf(scenarios[i])
  BY DEF QuotaOf
<1>6. Agreed'
  BY <1>1, <1>2, <1>4, <1>5 DEF Agreed
<1>7. QED BY <1>3, <1>6 DEF Rested

\* An update of the kind that is submitted revises the document it is applied to.
LEMMA AssignRevises ==
  ASSUME Turns, NEW s \in Scenario, NEW d \in Updates, ~Refused(s)
  PROVE  Revises(s, Assign(s, d))
<1>1. Assign(s, d) \in Scenario /\ s # None /\ Assign(s, d) # None
  BY AssignType, InputAssumption, NoneAssumption
<1>2. /\ Assign(s, d).group = IF d.group = None THEN s.group ELSE d.group
      /\ Assign(s, d).active = IF d.active = "keep" THEN s.active ELSE d.active = "on"
      /\ Assign(s, d).trig = IF d.trig = None THEN s.trig ELSE d.trig
      /\ Assign(s, d).repeat = IF d.repeat = Unset THEN s.repeat ELSE d.repeat
  BY DEF Assign
<1>3. /\ d.group # None => d.trig # "bad" /\ (d.active = "on" => d.trig # None)
      /\ ~(d.active = "on" /\ d.trig = "bad")
  BY DEF Turns
<1>4. s.active \in BOOLEAN /\ d.active \in {"keep", "on", "off"}
  BY InputAssumption DEF Scenario, UpdateDto
<1> DEFINE n == Assign(s, d)
<1>5. ASSUME Refused(n)
      PROVE  /\ n.group = s.group
             /\ s.active \/ s.trig = "bad"
             /\ RefusedAlone /\ s.active => n.repeat = s.repeat
  <2>1. n.active = TRUE /\ n.trig = "bad"
    BY <1>5, <1>1, <1>4 DEF Refused, Scheduled, Scenario
  <2>2. s.active # TRUE => d.active = "on"
    BY <1>2, <1>4, <2>1
  <2>3. d.group # None => s.active = TRUE /\ s.trig = "bad"
    <3>1. d.group # None => d.trig = None
      BY <1>2, <1>3, <2>1
    <3> QED BY <1>2, <1>3, <2>1, <2>2, <3>1
  <2>4. ~(s.active = TRUE /\ s.trig = "bad")
    BY <1>1 DEF Refused, Scheduled, HasCron
  <2>5. s.active \/ s.trig = "bad"
    BY <1>2, <1>3, <2>1, <2>2
  <2>6. ASSUME RefusedAlone, s.active PROVE n.repeat = s.repeat
    <3>1. s.trig # "bad"
      BY <1>4, <2>4, <2>6
    <3>2. d.trig = "bad"
      BY <1>2, <2>1, <3>1
    <3>3. d.repeat = Unset
      BY <2>6, <3>2 DEF RefusedAlone
    <3> QED BY <1>2, <3>3
  <2>7. QED BY <1>2, <2>3, <2>4, <2>5, <2>6
<1>6. QED BY <1>5 DEF Revises

\* The decrement of an active document counts down.
LEMMA DecrementCountsDown ==
  ASSUME NEW s \in Scenario, ~Refused(s), s.active, s.repeat \in 1..MaxRepeat
  PROVE  LET n == Assign(s, Decrement(s)) IN
         /\ n \in Scenario /\ CountsDown(s, n)
         /\ n.active => QuotaOf(n) = s.repeat - 1
<1> DEFINE d == Decrement(s)
           n == Assign(s, d)
<1>1. d \in UpdateDto /\ n \in Scenario /\ s # None /\ n # None
  BY DecrementType, AssignType, NoneAssumption
<1>2. d.name = None /\ d.group = None /\ d.trig = None
  BY DEF Decrement, KeepAll
<1>3. s.repeat = 1 => d.active = "off"
  BY DEF Decrement, KeepAll
<1>4. s.repeat # 1 => d.active = "keep" /\ d.repeat = s.repeat - 1
  BY DEF Decrement, KeepAll
<1>5. n.name = s.name /\ n.group = s.group /\ n.trig = s.trig
  BY <1>2 DEF Assign
<1>6. s.repeat = 1 => n.active = FALSE
  BY <1>3 DEF Assign
<1>7. s.repeat # 1 => n.active = s.active /\ n.repeat = s.repeat - 1
  <2>1. s.repeat # 1 => s.repeat - 1 # Unset
    BY BoundAssumption DEF Unset
  <2> QED BY <1>4, <2>1 DEF Assign
<1> HIDE DEF n, d
<1>8. CountsDown(s, n)
  BY <1>1, <1>5, <1>6, <1>7 DEF CountsDown, Refused, Scheduled, HasCron
<1>9. n.active => QuotaOf(n) = s.repeat - 1
  <2>1. s.repeat # 1 => s.repeat - 1 \in 1..MaxRepeat
    BY BoundAssumption
  <2> QED BY <1>6, <1>7, <2>1 DEF QuotaOf
<1>10. QED BY <1>1, <1>8, <1>9 DEF n, d

-----------------------------------------------------------------------------
(* Every step keeps the invariant: one lemma per operation.                *)

\* A request to add a scenario is accepted.
LEMMA StartAddTurn ==
  ASSUME Typed, Typed', TurnInv, NEW p \in Procs, NEW i \in Ids, NEW s \in Creations,
         StartAdd(p, i, s)
  PROVE  NamesUnique' /\ Turn(proc[p])'
<1> DEFINE o == proc[p]
           n == proc'[p]
<1>1. Rested /\ Rested' /\ Agreed' /\ NamesUnique'
  BY RestingPlain, AgreedStays DEF Typed, TypeOK, TurnInv, StartAdd, Rested, Agreed
<1>2. /\ n.pc = "insert" /\ n.kind = "add" /\ n.id = i /\ n.new = s
      /\ n.leave = None /\ n.join = None /\ n.queue = {}
  <2>1. n = [Idle EXCEPT !.pc = "insert", !.kind = "add", !.id = i, !.new = s]
    BY DEF StartAdd, Goto, Typed, TypeOK
  <2> QED BY <2>1 DEF Idle
<1>3. Position(proc[p])'
  BY <1>2 DEF StartAdd, Fresh, Position, NameTaken, HoldsOld, Saved, InGroups
<1>4. Reading(proc[p])' /\ NoneRefused(proc[p])' /\ Fetched(proc[p])'
  BY <1>1, <1>2 DEF Reading, Counting, NoneRefused, Rested, Fetched
<1>5. QED BY <1>1, <1>2, <1>3, <1>4, ReadingTurnNext

\* A user's update reads its document.
LEMMA StartUpdateTurn ==
  ASSUME Turns, Typed, Typed', TurnInv, NEW p \in Procs, NEW i \in Ids, NEW d \in Updates,
         StartUpdate(p, i, d)
  PROVE  NamesUnique' /\ Turn(proc[p])'
<1> DEFINE o == proc[p]
           n == proc'[p]
           c == [Idle EXCEPT !.kind = "update"]
<1>1. Rested /\ Rested' /\ Agreed' /\ NamesUnique /\ NamesUnique'
  BY RestingPlain, AgreedStays DEF Typed, TypeOK, TurnInv, StartUpdate, Rested, Agreed
<1>2. n = ReadForUpdate(c, i, d) /\ c \in Op /\ c.queue = {} /\ c.leave = None /\ c.join = None
      /\ c.kind = "update"
  BY IdleType DEF StartUpdate, Goto, Typed, TypeOK, Op, Idle
<1>3. CASE scenarios[i] = None
  <2>1. n = Done(c)
    BY <1>2, <1>3 DEF ReadForUpdate
  <2>2. Plain(n) /\ n.queue = {}
    BY <1>2, <2>1, DonePlain
  <2> QED BY <1>1, <2>2, EndTurn
<1>4. CASE scenarios[i] # None
  <2> DEFINE s == scenarios[i]
  <2>1. s \in Scenario /\ ~Refused(s) /\ scenarios' = scenarios
    BY <1>1, <1>4 DEF Typed, TypeOK, Rested, StartUpdate
  <2>2. /\ n.pc = "save" /\ n.kind = "update" /\ n.id = i /\ n.old = s
        /\ n.new = Assign(s, d)
        /\ n.leave = None /\ n.join = None /\ n.queue = {}
    BY <1>2, <1>4 DEF ReadForUpdate, Op
  <2>3. Revises(s, Assign(s, d))
    BY <2>1, AssignRevises
  <2>4. ~NameTaken(s.name, i)
    BY <1>1, <1>4 DEF NamesUnique, NameTaken
  <2>5. Position(proc[p])'
    <3>1. ~NameTaken(proc[p].old.name, proc[p].id)'
      BY <2>1, <2>2, <2>4 DEF NameTaken
    <3>2. Revises(n.old, n.new)
      BY <2>2, <2>3
    <3> QED BY <2>1, <2>2, <3>1, <3>2 DEF Position, HoldsOld, Saved, InGroups
  <2>6. Reading(proc[p])' /\ NoneRefused(proc[p])' /\ Fetched(proc[p])'
    BY <1>1, <2>2 DEF Reading, Counting, NoneRefused, Rested, Fetched
  <2>7. QED BY <1>1, <2>2, <2>5, <2>6, ReadingTurnNext
<1>5. QED BY <1>3, <1>4

\* A removal reads its document.
LEMMA StartRemoveTurn ==
  ASSUME Typed, Typed', TurnInv, NEW p \in Procs, NEW i \in Ids, StartRemove(p, i)
  PROVE  NamesUnique' /\ Turn(proc[p])'
<1> DEFINE n == proc'[p]
<1>1. Rested /\ Rested' /\ Agreed' /\ NamesUnique /\ NamesUnique'
  BY RestingPlain, AgreedStays DEF Typed, TypeOK, TurnInv, StartRemove, Rested, Agreed
<1>2. n = ReadForRemove(Idle, i) /\ Idle \in Op
  BY IdleType DEF StartRemove, Goto, Typed, TypeOK
<1>3. CASE scenarios[i] = None
  <2>1. Plain(n) /\ n.queue = {}
    BY <1>2, <1>3, DonePlain DEF ReadForRemove, Idle
  <2> QED BY <1>1, <2>1, EndTurn
<1>4. CASE scenarios[i] # None
  <2>1. /\ n.pc = "delete" /\ n.kind = "remove" /\ n.id = i /\ n.old = scenarios[i]
        /\ n.leave = None /\ n.join = None /\ n.queue = {}
    BY <1>2, <1>4 DEF ReadForRemove, Op, Idle
  <2>2. Position(proc[p])'
    <3>1. ~NameTaken(proc[p].old.name, proc[p].id)' /\ scenarios' = scenarios
      BY <1>1, <1>4, <2>1 DEF NameTaken, NamesUnique, StartRemove
    <3> QED BY <2>1, <3>1 DEF Position, HoldsOld, Saved, InGroups
  <2>3. Reading(proc[p])' /\ NoneRefused(proc[p])' /\ Fetched(proc[p])'
    BY <1>1, <2>1 DEF Reading, Counting, NoneRefused, Rested, Fetched
  <2>4. QED BY <1>1, <2>1, <2>2, <2>3, ReadingTurnNext
<1>5. QED BY <1>3, <1>4

\* The addition that could not be scheduled reads its document for the removal.
LEMMA RemoveAddedTurn ==
  ASSUME Typed, Typed', TurnInv, NEW p \in Procs, RemoveAdded(p)
  PROVE  NamesUnique' /\ Turn(proc[p])'
<1> DEFINE o == proc[p]
           n == proc'[p]
<1>1. /\ NamesUnique /\ Registry(o) /\ Position(o) /\ NoneRefused(o) /\ Moves(o)
      /\ Counted(o) /\ Quotas(o) /\ Fetched(o) /\ o \in Op /\ Shape(o)
  BY DEF TurnInv, Turn, Typed, TypeOK
<1>2. o.pc = "removeRead" /\ o.id \in Ids /\ Refused(o.new) /\ scenarios[o.id] = o.new
      /\ UNCHANGED <<scenarios, groups, jobs, quota>> /\ n = ReadForRemove(o, o.id)
  BY <1>1 DEF RemoveAdded, Shape, Position, Goto, Typed, TypeOK
<1>3. Agreed
  <2>1. \A i \in Ids : Registered(o, i) = scenarios[i]
    BY <1>2 DEF Registered, Saved, InGroups
  <2>2. ASSUME NEW g \in Groups PROVE Cardinality(Members(g)) + Owed(o, g) = Cardinality(Members(g))
    BY <1>2, MembersFinite DEF Owed, InGroups
  <2>3. \A g \in Groups : groups[g] >= Missing /\ Stored(g) = Cardinality(Members(g))
    BY <1>1, <1>2, <2>2 DEF Counted
  <2>4. ~Counting(o)
    BY <1>2 DEF Counting
  <2>5. QED BY <1>1, <2>1, <2>3, <2>4 DEF Agreed, Registry, Quotas
<1>4. Agreed' /\ NamesUnique'
  BY <1>2, <1>3, AgreedStays DEF Agreed
<1>5. scenarios[o.id] # None
  BY <1>2 DEF Refused, Scheduled
<1>6. /\ n.pc = "delete" /\ n.kind = "remove" /\ n.id = o.id /\ n.old = scenarios[o.id]
      /\ n.leave = None /\ n.join = None /\ n.queue = o.queue
  BY <1>1, <1>2, <1>5 DEF ReadForRemove, Op, Moves, InGroups
<1>7. Position(proc[p])'
  <2>1. ~NameTaken(proc[p].old.name, proc[p].id)'
    BY <1>1, <1>2, <1>5, <1>6 DEF NameTaken, NamesUnique
  <2> QED BY <1>2, <1>6, <2>1 DEF Position, HoldsOld, Saved, InGroups
<1>8. NoneRefused(proc[p])'
  BY <1>1, <1>2, <1>6 DEF NoneRefused
<1>9. Reading(proc[p])' /\ Fetched(proc[p])'
  BY <1>1, <1>2, <1>6 DEF Reading, Counting, Fetched
<1>10. QED BY <1>4, <1>6, <1>7, <1>8, <1>9, ReadingTurnNext

\* The parts of the invariant that a handler's step starts from.
LEMMA TurnParts ==
  ASSUME Typed, TurnInv, NEW p \in Procs
  PROVE  LET o == proc[p] IN
         /\ NamesUnique /\ Registry(o) /\ Position(o) /\ NoneRefused(o) /\ Moves(o)
         /\ Counted(o) /\ Quotas(o) /\ Fetched(o) /\ o \in Op /\ Shape(o)
  BY DEF TurnInv, Turn, Typed, TypeOK

\* An execution that is counted reads its document again.
LEMMA ReadCountedTurn ==
  ASSUME Typed, Typed', TurnInv, NEW p \in Procs, ReadCounted(p)
  PROVE  NamesUnique' /\ Turn(proc[p])'
<1> DEFINE o == proc[p]
           n == proc'[p]
           s == scenarios[o.id]
           c == [o EXCEPT !.kind = "count"]
<1>1. /\ NamesUnique /\ Registry(o) /\ Position(o) /\ NoneRefused(o) /\ Moves(o)
      /\ Counted(o) /\ Quotas(o) /\ Fetched(o) /\ o \in Op /\ Shape(o)
  BY TurnParts
<1>2. /\ o.pc = "read" /\ o.id \in Ids /\ o.dto = Decrement(s) /\ s # None /\ s.active
      /\ s.repeat \in 1..MaxRepeat /\ s \in Scenario
      /\ scenarios' = scenarios /\ groups' = groups /\ jobs' = jobs /\ quota' = quota
      /\ n = ReadForUpdate(c, o.id, o.dto)
  BY <1>1 DEF ReadCounted, Shape, Position, Goto, Typed, TypeOK
<1>3. ~Refused(s)
  BY <1>1, <1>2 DEF NoneRefused, Saved, InGroups
<1> DEFINE w == Assign(s, Decrement(s))
<1>4. w \in Scenario /\ CountsDown(s, w) /\ (w.active => QuotaOf(w) = s.repeat - 1)
  BY <1>2, <1>3, DecrementCountsDown
<1> HIDE DEF w
<1>5. /\ n.pc = "save" /\ n.kind = "count" /\ n.id = o.id /\ n.old = s /\ n.new = w
      /\ n.leave = None /\ n.join = None /\ n.queue = o.queue
  BY <1>1, <1>2 DEF ReadForUpdate, Op, Moves, InGroups, w
<1>6. Position(proc[p])'
  <2>1. ~NameTaken(proc[p].old.name, proc[p].id)'
    BY <1>1, <1>2, <1>5 DEF NameTaken, NamesUnique
  <2>2. scenarios'[n.id] = n.old
    BY <1>2, <1>5
  <2>3. CountsDown(n.old, n.new)
    BY <1>4, <1>5
  <2> HIDE DEF s
  <2> QED BY <1>5, <2>1, <2>2, <2>3 DEF Position, HoldsOld, Saved, InGroups
<1>7. Registry(proc[p])'
  <2>1. \A i \in Ids : Registered(proc[p], i) = scenarios[i] /\ Registered(proc[p], i)' = scenarios[i]
    BY <1>2, <1>5 DEF Registered, Saved, InGroups
  <2> QED BY <1>1, <1>2, <2>1 DEF Registry
<1>8. NoneRefused(proc[p])'
  BY <1>1, <1>2, <1>5 DEF NoneRefused, Saved, InGroups
<1>9. Moves(proc[p])'
  BY <1>5 DEF Moves, InGroups
<1>10. Counted(proc[p])'
  <2>1. ASSUME NEW g \in Groups
        PROVE  /\ Owed(proc[p], g) = 0 /\ Owed(proc[p], g)' = 0
               /\ Stored(g)' = Stored(g) /\ Members(g)' = Members(g)
    BY <1>2, <1>5 DEF Owed, InGroups, Stored, Members
  <2> QED BY <1>1, <1>2, <1>5, <2>1 DEF Counted
<1>11. Quotas(proc[p])'
  BY <1>1, <1>2, <1>4, <1>5 DEF Quotas, Counting
<1>12. Fetched(proc[p])'
  BY <1>1, <1>2, <1>5 DEF Fetched
<1>13. NamesUnique'
  BY <1>1, <1>2 DEF NamesUnique
<1>14. QED BY <1>6, <1>7, <1>8, <1>9, <1>10, <1>11, <1>12, <1>13 DEF Turn

\* The step that writes the document: what the registry was told and the counts
\* stay as they are, and the handler owes what the document left and joined.
LEMMA WriteTurn ==
  ASSUME Typed, TurnInv, NEW p \in Procs, NEW w \in Scenario \cup {None},
         proc[p].pc \in {"insert", "save", "delete"}, proc[p].id \in Ids,
         scenarios' = [scenarios EXCEPT ![proc[p].id] = w],
         groups' = groups, jobs' = jobs,
         proc'[p].pc \in {"groupRead", "job"},
         proc'[p].kind # "createGroup", proc'[p].kind = proc[p].kind,
         proc'[p].id = proc[p].id, proc'[p].queue = proc[p].queue,
         proc[p].kind = "add" => scenarios[proc[p].id] = None,
         proc[p].kind # "add" => scenarios[proc[p].id] = proc[p].old,
         proc[p].kind # "add" => proc'[p].old = proc[p].old,
         \A g \in Groups : In(w, g) + Owed(proc'[p], g) = In(scenarios[proc[p].id], g)
  PROVE  /\ Registry(proc[p])' /\ NoneRefused(proc[p])' /\ Counted(proc[p])'
         /\ Fetched(proc[p])'
<1> DEFINE o == proc[p]
           n == proc'[p]
<1>1. /\ NamesUnique /\ Registry(o) /\ Position(o) /\ NoneRefused(o) /\ Moves(o)
      /\ Counted(o) /\ Quotas(o) /\ Fetched(o) /\ o \in Op /\ Shape(o)
  BY TurnParts
<1>2. Registry(proc[p])'
  <2>1. \A i \in Ids : Registered(proc[p], i)' = Registered(proc[p], i)
    BY DEF Registered, Saved, InGroups, Typed, TypeOK
  <2> QED BY <1>1, <2>1 DEF Registry
<1>3. NoneRefused(proc[p])'
  BY <1>1 DEF NoneRefused, Saved, InGroups, Typed, TypeOK
<1>4. Counted(proc[p])'
  <2> SUFFICES ASSUME NEW g \in Groups
               PROVE  groups[g] >= Missing
                      /\ Stored(g)' = Cardinality(Members(g)') + Owed(proc'[p], g)
    BY DEF Counted, Owed, InGroups
  <2>1. groups[g] >= Missing /\ Stored(g)' = Cardinality(Members(g))
    <3>1. Owed(o, g) = 0 /\ ~(o.pc = "drop" /\ g = o.leave)
      BY DEF Owed, InGroups
    <3>2. Stored(g)' = Stored(g)
      BY DEF Stored
    <3> QED BY <1>1, <3>1, <3>2, MembersFinite DEF Counted
  <2>2. Cardinality(Members(g)') = Cardinality(Members(g)) + In(w, g) - In(scenarios[o.id], g)
    BY MembersMove DEF Typed, TypeOK
  <2>3. In(w, g) + Owed(n, g) = In(scenarios[o.id], g)
    OBVIOUS
  <2>4. /\ Cardinality(Members(g)) \in Nat /\ In(w, g) \in Int
        /\ In(scenarios[o.id], g) \in Int /\ Owed(n, g) \in Int
    BY MembersFinite DEF In, Owed
  <2> QED BY <2>1, <2>2, <2>3, <2>4
<1>5. Fetched(proc[p])'
  <2>1. ASSUME NEW e \in o.queue PROVE scenarios'[e.id] = scenarios[e.id]
    BY <1>1 DEF Fetched, Typed, TypeOK, Op, Entry
  <2> QED BY <1>1, <2>1 DEF Fetched
<1>6. QED BY <1>2, <1>3, <1>4, <1>5

\* A document grants executions.
LEMMA QuotaPositive ==
  ASSUME NEW s
  PROVE  QuotaOf(s) \in Int /\ QuotaOf(s) >= 1
  BY BoundAssumption DEF QuotaOf, Unlimited

\* Names stay unique when a document is written whose name nobody else has.
LEMMA NamesStayUnique ==
  ASSUME NamesUnique, scenarios \in [Ids -> Scenario \cup {None}], NEW i \in Ids, NEW w,
         w # None => ~NameTaken(w.name, i),
         scenarios' = [scenarios EXCEPT ![i] = w]
  PROVE  NamesUnique'
  BY DEF NamesUnique, NameTaken

\* The document of an addition is inserted.
LEMMA InsertTurn ==
  ASSUME Typed, Typed', TurnInv, NEW p \in Procs, Insert(p)
  PROVE  NamesUnique' /\ Turn(proc[p])'
<1> DEFINE o == proc[p]
           n == proc'[p]
           w == o.new
<1>1. /\ NamesUnique /\ Registry(o) /\ Position(o) /\ NoneRefused(o) /\ Moves(o)
      /\ Counted(o) /\ Quotas(o) /\ Fetched(o) /\ o \in Op /\ Shape(o)
  BY TurnParts
<1>2. /\ o.pc = "insert" /\ o.kind = "add" /\ o.id \in Ids /\ w \in Scenario
      /\ scenarios[o.id] = None /\ ~NameTaken(w.name, o.id)
  BY <1>1 DEF Insert, Shape, Position
<1>3. /\ scenarios' = [scenarios EXCEPT ![o.id] = w]
      /\ quota' = [quota EXCEPT ![o.id] = QuotaOf(w)]
      /\ groups' = groups /\ jobs' = jobs
      /\ n = [o EXCEPT !.join = w.group, !.pc = IF w.group = None THEN "job" ELSE "groupRead"]
  BY <1>2 DEF Insert, Goto, Typed, TypeOK
<1>4. /\ n.kind = "add" /\ n.id = o.id /\ n.new = w /\ n.queue = o.queue
      /\ n.leave = None /\ n.join = w.group /\ n.count = o.count
      /\ n.pc = IF w.group = None THEN "job" ELSE "groupRead"
  BY <1>1, <1>2, <1>3 DEF Op, Moves, InGroups
<1>5. w # None /\ w.group \in Groups \cup {None} /\ scenarios'[o.id] = w
  BY <1>2, <1>3, NoneAssumption DEF Scenario, Typed, TypeOK
<1> HIDE DEF w
<1>6. \A g \in Groups : In(w, g) + Owed(n, g) = In(scenarios[o.id], g)
  BY <1>2, <1>4, <1>5, NoneAssumption DEF In, Owed, InGroups
<1>7. Registry(proc[p])' /\ NoneRefused(proc[p])' /\ Counted(proc[p])' /\ Fetched(proc[p])'
  <2>1. w \in Scenario \cup {None}
    BY <1>2
  <2>2. proc[p].pc \in {"insert", "save", "delete"} /\ proc[p].id \in Ids
    BY <1>2
  <2>3. scenarios' = [scenarios EXCEPT ![proc[p].id] = w] /\ groups' = groups /\ jobs' = jobs
    BY <1>3
  <2>4. /\ proc'[p].pc \in {"groupRead", "job"} /\ proc'[p].kind # "createGroup"
        /\ proc'[p].kind = proc[p].kind /\ proc'[p].id = proc[p].id
        /\ proc'[p].queue = proc[p].queue
    BY <1>2, <1>4
  <2>5. /\ proc[p].kind = "add" => scenarios[proc[p].id] = None
        /\ proc[p].kind # "add" => scenarios[proc[p].id] = proc[p].old
        /\ proc[p].kind # "add" => proc'[p].old = proc[p].old
    BY <1>2, <1>4
  <2>6. \A g \in Groups : In(w, g) + Owed(proc'[p], g) = In(scenarios[proc[p].id], g)
    BY <1>6
  <2> HIDE DEF o, n
  <2> QED BY <2>1, <2>2, <2>3, <2>4, <2>5, <2>6, WriteTurn
<1>8. NamesUnique'
  BY <1>1, <1>2, <1>3, NamesStayUnique DEF Typed, TypeOK
<1>9. Position(proc[p])'
  BY <1>4, <1>5 DEF Position, HoldsOld, Saved, InGroups
<1>10. Moves(proc[p])'
  BY <1>4, <1>5 DEF Moves, InGroups
<1>11. Quotas(proc[p])'
  <2>1. ~Counting(o) /\ ~Counting(n)
    BY <1>2, <1>4 DEF Counting
  <2> QED BY <1>1, <1>2, <1>3, <1>5, <2>1, QuotaPositive DEF Quotas, Typed, TypeOK
<1>12. QED BY <1>7, <1>8, <1>9, <1>10, <1>11 DEF Turn

\* A save that finds what was read writes what the handler holds.
LEMMA MergeCurrent ==
  ASSUME NEW old \in Scenario, NEW new \in Scenario
  PROVE  Merge(old, old, new) = new
<1>1. Merge(old, old, new) \in Scenario
  BY MergeType
<1>2. /\ Merge(old, old, new).name = new.name /\ Merge(old, old, new).group = new.group
      /\ Merge(old, old, new).active = new.active
      /\ Merge(old, old, new).repeat = new.repeat /\ Merge(old, old, new).trig = new.trig
  BY DEF Merge
<1> QED BY <1>1, <1>2 DEF Scenario

\* The document of an update is saved.
LEMMA SaveUpdateTurn ==
  ASSUME Typed, Typed', TurnInv, NEW p \in Procs, SaveUpdate(p)
  PROVE  NamesUnique' /\ Turn(proc[p])'
<1> DEFINE o == proc[p]
           n == proc'[p]
           w == o.new
<1>1. /\ NamesUnique /\ Registry(o) /\ Position(o) /\ NoneRefused(o) /\ Moves(o)
      /\ Counted(o) /\ Quotas(o) /\ Fetched(o) /\ o \in Op /\ Shape(o)
  BY TurnParts
<1>2. /\ o.pc = "save" /\ o.kind \in {"update", "count"} /\ o.id \in Ids
      /\ w \in Scenario /\ o.old \in Scenario /\ scenarios[o.id] = o.old
      /\ ~NameTaken(o.old.name, o.id)
      /\ o.kind = "update" => Revises(o.old, w)
      /\ o.kind = "count" => CountsDown(o.old, w)
      /\ o.leave = None /\ o.join = None
  BY <1>1 DEF SaveUpdate, Shape, Position, HoldsOld, Moves, InGroups
<1>3. Merge(scenarios[o.id], o.old, w) = w /\ o.old # None /\ w # None
  BY <1>2, MergeCurrent, NoneAssumption
<1>4. CASE o.new.name # o.old.name /\ NameTaken(o.new.name, o.id)
  <2>1. n = Done(o) /\ UNCHANGED <<scenarios, groups, jobs, quota>>
    BY <1>3, <1>2, <1>4 DEF SaveUpdate, Goto, Typed, TypeOK
  <2>2. o.kind = "update"
    BY <1>2, <1>4 DEF CountsDown
  <2>3. Rested
    <3>1. \A i \in Ids : Registered(o, i) = scenarios[i]
      BY <1>2 DEF Registered, Saved, InGroups
    <3>2. ASSUME NEW g \in Groups PROVE Cardinality(Members(g)) + Owed(o, g) = Cardinality(Members(g))
      BY <1>2, MembersFinite DEF Owed, InGroups
    <3>3. \A g \in Groups : groups[g] >= Missing /\ Stored(g) = Cardinality(Members(g))
      BY <1>1, <1>2, <3>2 DEF Counted
    <3>4. ~Counting(o)
      BY <1>2, <2>2 DEF Counting
    <3>5. \A i \in Ids : ~Refused(scenarios[i])
      BY <1>1, <1>2 DEF NoneRefused, Saved, InGroups
    <3>6. QED BY <1>1, <3>1, <3>3, <3>4, <3>5 DEF Agreed, Rested, Registry, Quotas
  <2>4. Rested'
    BY <2>1, <2>3, AgreedStays DEF Rested
  <2>5. Plain(n) /\ n.queue = o.queue
    BY <1>1, <2>1, DonePlain
  <2>6. QED BY <1>1, <2>1, <2>4, <2>5, EndTurn DEF Fetched
<1>5. CASE ~(o.new.name # o.old.name /\ NameTaken(o.new.name, o.id))
  <2>1. /\ scenarios' = [scenarios EXCEPT ![o.id] = w]
        /\ quota' = IF o.kind = "update" THEN [quota EXCEPT ![o.id] = QuotaOf(w)] ELSE quota
        /\ groups' = groups /\ jobs' = jobs
        /\ n = IF o.old.group = w.group THEN [o EXCEPT !.pc = "job"]
               ELSE [o EXCEPT !.pc = "groupRead", !.leave = o.old.group, !.join = w.group]
    BY <1>2, <1>3, <1>5 DEF SaveUpdate, Goto, Typed, TypeOK
  <2>2. /\ n.kind = o.kind /\ n.id = o.id /\ n.old = o.old /\ n.new = w /\ n.queue = o.queue
        /\ o.old.group = w.group => n.pc = "job" /\ n.leave = None /\ n.join = None
        /\ o.old.group # w.group => n.pc = "groupRead" /\ n.leave = o.old.group /\ n.join = w.group
    BY <1>1, <1>2, <2>1 DEF Op
  <2>3. scenarios'[o.id] = w /\ w.group \in Groups \cup {None} /\ o.old.group \in Groups \cup {None}
    BY <1>2, <2>1 DEF Scenario, Typed, TypeOK
  <2> HIDE DEF w
  <2>4. \A g \in Groups : In(w, g) + Owed(n, g) = In(scenarios[o.id], g)
    BY <1>2, <1>3, <2>2, <2>3, NoneAssumption DEF In, Owed, InGroups
  <2>5. Registry(proc[p])' /\ NoneRefused(proc[p])' /\ Counted(proc[p])' /\ Fetched(proc[p])'
    <3>1. w \in Scenario \cup {None}
      BY <1>2
    <3>2. proc[p].pc \in {"insert", "save", "delete"} /\ proc[p].id \in Ids
      BY <1>2
    <3>3. scenarios' = [scenarios EXCEPT ![proc[p].id] = w] /\ groups' = groups /\ jobs' = jobs
      BY <2>1
    <3>4. /\ proc'[p].pc \in {"groupRead", "job"} /\ proc'[p].kind # "createGroup"
          /\ proc'[p].kind = proc[p].kind /\ proc'[p].id = proc[p].id
          /\ proc'[p].queue = proc[p].queue
      BY <1>2, <2>2
    <3>5. /\ proc[p].kind = "add" => scenarios[proc[p].id] = None
          /\ proc[p].kind # "add" => scenarios[proc[p].id] = proc[p].old
          /\ proc[p].kind # "add" => proc'[p].old = proc[p].old
      BY <1>2, <2>2
    <3>6. \A g \in Groups : In(w, g) + Owed(proc'[p], g) = In(scenarios[proc[p].id], g)
      BY <2>4
    <3> HIDE DEF o, n
    <3> QED BY <3>1, <3>2, <3>3, <3>4, <3>5, <3>6, WriteTurn
  <2>6. ~NameTaken(w.name, o.id)
    BY <1>2, <1>5 DEF w
  <2>7. NamesUnique'
    BY <1>1, <1>2, <2>1, <2>6, NamesStayUnique DEF Typed, TypeOK
  <2>8. Position(proc[p])'
    <3>1. ~NameTaken(proc[p].old.name, proc[p].id)'
      BY <1>2, <2>1, <2>2 DEF NameTaken, Typed, TypeOK
    <3>2. n.kind = "update" => Revises(n.old, n.new)
      BY <1>2, <2>2
    <3>3. n.kind = "count" => CountsDown(n.old, n.new)
      BY <1>2, <2>2
    <3>4. n.pc \in {"groupRead", "job"} /\ scenarios'[n.id] = n.new /\ n.kind \in {"update", "count"}
      BY <1>2, <2>2, <2>3
    <3> QED BY <3>1, <3>2, <3>3, <3>4 DEF Position, HoldsOld, Saved, InGroups
  <2>9. Moves(proc[p])'
    BY <1>2, <2>2 DEF Moves, InGroups
  <2>10. Quotas(proc[p])'
    <3>1. ~Counting(n) /\ (o.kind = "update" => ~Counting(o)) /\ (o.kind = "count" => Counting(o))
      BY <1>2, <2>2 DEF Counting
    <3>2. CASE o.kind = "update"
      BY <1>1, <1>2, <2>1, <2>3, <3>1, <3>2, QuotaPositive DEF Quotas, Typed, TypeOK
    <3>3. CASE o.kind = "count"
      <4>1. w.active => o.old.active
        BY <1>2, <3>3 DEF CountsDown
      <4>2. quota' = quota /\ o.pc # "read" /\ w = o.new
        BY <1>2, <2>1, <3>3 DEF w
      <4>3. ASSUME NEW i \in Ids, scenarios'[i] # None, scenarios'[i].active
            PROVE  quota[i] = QuotaOf(scenarios'[i])
        <5>1. CASE i = o.id
          BY <1>1, <1>2, <1>3, <2>3, <3>1, <3>3, <4>1, <4>2, <4>3, <5>1 DEF Quotas
        <5>2. CASE i # o.id
          <6>1. scenarios'[i] = scenarios[i]
            BY <1>2, <2>1, <5>2 DEF Typed, TypeOK
          <6> QED BY <1>1, <4>3, <5>2, <6>1 DEF Quotas
        <5> QED BY <5>1, <5>2
      <4> QED BY <1>1, <3>1, <4>2, <4>3 DEF Quotas
    <3> QED BY <1>2, <3>2, <3>3
  <2>11. QED BY <2>5, <2>7, <2>8, <2>9, <2>10 DEF Turn
<1>6. QED BY <1>4, <1>5

\* The document of a removal is deleted.
LEMMA DeleteTurn ==
  ASSUME Typed, Typed', TurnInv, NEW p \in Procs, Delete(p)
  PROVE  NamesUnique' /\ Turn(proc[p])'
<1> DEFINE o == proc[p]
           n == proc'[p]
<1>1. /\ NamesUnique /\ Registry(o) /\ Position(o) /\ NoneRefused(o) /\ Moves(o)
      /\ Counted(o) /\ Quotas(o) /\ Fetched(o) /\ o \in Op /\ Shape(o)
  BY TurnParts
<1>2. /\ o.pc = "delete" /\ o.kind = "remove" /\ o.id \in Ids /\ o.old \in Scenario
      /\ scenarios[o.id] = o.old /\ ~NameTaken(o.old.name, o.id)
      /\ o.leave = None /\ o.join = None
  BY <1>1 DEF Delete, Shape, Position, HoldsOld, Moves, InGroups
<1>3. /\ scenarios' = [scenarios EXCEPT ![o.id] = None]
      /\ groups' = groups /\ jobs' = jobs /\ quota' = quota
      /\ n = [o EXCEPT !.leave = o.old.group,
                       !.pc = IF o.old.group = None THEN "job" ELSE "groupRead"]
  BY DEF Delete, Goto, Typed, TypeOK
<1>4. /\ n.kind = "remove" /\ n.id = o.id /\ n.old = o.old /\ n.queue = o.queue
      /\ n.leave = o.old.group /\ n.join = None
      /\ n.pc = IF o.old.group = None THEN "job" ELSE "groupRead"
  BY <1>1, <1>2, <1>3 DEF Op
<1>5. /\ o.old # None /\ o.old.group \in Groups \cup {None} /\ scenarios'[o.id] = None
  BY <1>2, <1>3, NoneAssumption DEF Scenario, Typed, TypeOK
<1>6. \A g \in Groups : In(None, g) + Owed(n, g) = In(scenarios[o.id], g)
  BY <1>2, <1>4, <1>5, NoneAssumption DEF In, Owed, InGroups
<1>7. Registry(proc[p])' /\ NoneRefused(proc[p])' /\ Counted(proc[p])' /\ Fetched(proc[p])'
  <2>1. None \in Scenario \cup {None}
    BY <1>2
  <2>2. proc[p].pc \in {"insert", "save", "delete"} /\ proc[p].id \in Ids
    BY <1>2
  <2>3. scenarios' = [scenarios EXCEPT ![proc[p].id] = None] /\ groups' = groups /\ jobs' = jobs
    BY <1>3
  <2>4. /\ proc'[p].pc \in {"groupRead", "job"} /\ proc'[p].kind # "createGroup"
        /\ proc'[p].kind = proc[p].kind /\ proc'[p].id = proc[p].id
        /\ proc'[p].queue = proc[p].queue
    BY <1>2, <1>4
  <2>5. /\ proc[p].kind = "add" => scenarios[proc[p].id] = None
        /\ proc[p].kind # "add" => scenarios[proc[p].id] = proc[p].old
        /\ proc[p].kind # "add" => proc'[p].old = proc[p].old
    BY <1>2, <1>4
  <2>6. \A g \in Groups : In(None, g) + Owed(proc'[p], g) = In(scenarios[proc[p].id], g)
    BY <1>6
  <2> HIDE DEF o, n
  <2> QED BY <2>1, <2>2, <2>3, <2>4, <2>5, <2>6, WriteTurn
<1>8. NamesUnique'
  BY <1>1, <1>2, <1>3, NamesStayUnique DEF Typed, TypeOK
<1>9. Position(proc[p])'
  <2>1. ~NameTaken(proc[p].old.name, proc[p].id)'
    BY <1>2, <1>3, <1>4 DEF NameTaken, Typed, TypeOK
  <2> QED BY <1>4, <1>5, <2>1 DEF Position, HoldsOld, Saved, InGroups
<1>10. Moves(proc[p])'
  BY <1>4, <1>5 DEF Moves, InGroups
<1>11. Quotas(proc[p])'
  <2>1. ~Counting(o) /\ ~Counting(n)
    BY <1>2, <1>4 DEF Counting
  <2> QED BY <1>1, <1>2, <1>3, <1>5, <2>1 DEF Quotas, Typed, TypeOK
<1>12. QED BY <1>7, <1>8, <1>9, <1>10, <1>11 DEF Turn

\* The jobs J are those of the stored documents, x apart.
JobsExcept(J, x) ==
  \A n \in Names, i \in Ids :
    J[n] = i <=> i # x /\ Runs(scenarios[i]) /\ scenarios[i].name = n

\* The name of a document that has no job is free, and scheduling the document
\* makes the registry complete.
LEMMA ScheduleOne ==
  ASSUME scenarios \in [Ids -> Scenario \cup {None}], NamesUnique,
         NEW J \in [Names -> Ids \cup {None}], NEW x \in Ids,
         JobsExcept(J, x), scenarios[x] # None
  PROVE  /\ J[scenarios[x].name] = None
         /\ Runs(scenarios[x]) =>
              \A n \in Names, i \in Ids :
                [J EXCEPT ![scenarios[x].name] = x][n] = i
                  <=> Runs(scenarios[i]) /\ scenarios[i].name = n
         /\ ~Runs(scenarios[x]) =>
              \A n \in Names, i \in Ids :
                J[n] = i <=> Runs(scenarios[i]) /\ scenarios[i].name = n
<1> DEFINE m == scenarios[x].name
<1>1. m \in Names
  BY DEF Scenario
<1>2. J[m] = None
  <2>1. SUFFICES ASSUME J[m] # None PROVE FALSE
    OBVIOUS
  <2>2. J[m] \in Ids
    BY <1>1, <2>1
  <2>3. J[m] # x /\ Runs(scenarios[J[m]]) /\ scenarios[J[m]].name = m
    BY <1>1, <2>2 DEF JobsExcept
  <2>4. scenarios[J[m]] # None
    BY <2>3 DEF Runs, Scheduled
  <2> QED BY <2>2, <2>3, <2>4 DEF NamesUnique
<1>3. ASSUME Runs(scenarios[x]), NEW n \in Names, NEW i \in Ids
      PROVE  [J EXCEPT ![m] = x][n] = i <=> Runs(scenarios[i]) /\ scenarios[i].name = n
  <2>1. CASE n = m
    <3>1. Runs(scenarios[i]) /\ scenarios[i].name = m => i = x
      BY DEF NamesUnique, Runs, Scheduled
    <3> QED BY <1>1, <1>3, <2>1, <3>1
  <2>2. CASE n # m
    BY <1>1, <2>2 DEF JobsExcept
  <2> QED BY <2>1, <2>2
<1>4. ~Runs(scenarios[x]) => \A n \in Names, i \in Ids :
        J[n] = i <=> Runs(scenarios[i]) /\ scenarios[i].name = n
  BY DEF JobsExcept
<1> QED BY <1>2, <1>3, <1>4

\* A handler that has counted its groups leaves the counts exact.
LEMMA CountsSettled ==
  ASSUME NEW o, Counted(o), ~InGroups(o), o.pc # "drop"
  PROVE  \A g \in Groups : groups[g] >= Missing /\ Stored(g) = Cardinality(Members(g))
<1>1. ASSUME NEW g \in Groups
      PROVE  Owed(o, g) = 0 /\ Cardinality(Members(g)) + 0 = Cardinality(Members(g))
  BY MembersFinite DEF Owed
<1> QED BY <1>1 DEF Counted

\* The same of the state after a step that stores nothing.
LEMMA CountsStay ==
  ASSUME UNCHANGED <<scenarios, groups>>,
         \A g \in Groups : groups[g] >= Missing /\ Stored(g) = Cardinality(Members(g))
  PROVE  (\A g \in Groups : groups[g] >= Missing /\ Stored(g) = Cardinality(Members(g)))'
<1>1. \A g \in Groups : Stored(g)' = Stored(g) /\ Members(g)' = Members(g)
  BY DEF Stored, Members
<1> QED BY <1>1

\* A step that only touches the registry and completes it.
LEMMA RegistryRests ==
  ASSUME Typed, TurnInv, NEW p \in Procs, proc[p].pc \in {"job", "reschedule"},
         UNCHANGED <<scenarios, groups, quota>>,
         ~Refused(scenarios[proc[p].id]),
         \A n \in Names, i \in Ids : jobs'[n] = i <=> Runs(scenarios[i]) /\ scenarios[i].name = n
  PROVE  Rested'
<1> DEFINE o == proc[p]
<1>1. /\ NamesUnique /\ Registry(o) /\ Position(o) /\ NoneRefused(o) /\ Moves(o)
      /\ Counted(o) /\ Quotas(o) /\ Fetched(o) /\ o \in Op /\ Shape(o)
  BY TurnParts
<1>2. NamesUnique'
  BY <1>1 DEF NamesUnique
<1>3. \A i \in Ids : ~Refused(scenarios'[i])
  BY <1>1 DEF NoneRefused
<1>4. (\A g \in Groups : groups[g] >= Missing /\ Stored(g) = Cardinality(Members(g)))'
  <2>1. \A g \in Groups : groups[g] >= Missing /\ Stored(g) = Cardinality(Members(g))
    BY <1>1, CountsSettled DEF InGroups
  <2> QED BY <2>1, CountsStay
<1>5. \A i \in Ids : /\ quota'[i] >= 0
                     /\ scenarios'[i] # None /\ scenarios'[i].active
                          => quota'[i] = QuotaOf(scenarios'[i])
  <2>1. ~Counting(o)
    BY DEF Counting
  <2> QED BY <1>1, <2>1 DEF Quotas
<1>6. QED BY <1>2, <1>3, <1>4, <1>5 DEF Rested, Agreed

\* An addition is scheduled, or has to be removed again.
LEMMA ScheduleAddedTurn ==
  ASSUME Typed, Typed', TurnInv, NEW p \in Procs, ScheduleAdded(p)
  PROVE  NamesUnique' /\ Turn(proc[p])'
<1> DEFINE o == proc[p]
           n == proc'[p]
           s == scenarios[o.id]
<1>1. /\ NamesUnique /\ Registry(o) /\ Position(o) /\ NoneRefused(o) /\ Moves(o)
      /\ Counted(o) /\ Quotas(o) /\ Fetched(o) /\ o \in Op /\ Shape(o)
  BY TurnParts
<1>2. /\ o.pc = "job" /\ o.kind = "add" /\ o.id \in Ids /\ o.new \in Scenario
      /\ s = o.new /\ s # None /\ UNCHANGED <<scenarios, groups, quota>>
  BY <1>1, NoneAssumption DEF ScheduleAdded, Shape, Position, Saved
<1>3. JobsExcept(jobs, o.id)
  <2>1. Registered(o, o.id) = None /\ ~Runs(None)
    BY <1>2 DEF Registered, Saved, Runs, Scheduled
  <2>2. \A i \in Ids : i # o.id => Registered(o, i) = scenarios[i]
    BY DEF Registered
  <2> QED BY <1>1, <2>1, <2>2 DEF Registry, JobsExcept
<1>4. /\ jobs[s.name] = None
      /\ Runs(s) => \A m \in Names, i \in Ids :
           [jobs EXCEPT ![s.name] = o.id][m] = i <=> Runs(scenarios[i]) /\ scenarios[i].name = m
      /\ ~Runs(s) => \A m \in Names, i \in Ids :
           jobs[m] = i <=> Runs(scenarios[i]) /\ scenarios[i].name = m
  BY <1>1, <1>2, <1>3, ScheduleOne DEF Typed, TypeOK
<1>5. CASE ~Refused(s)
  <2>1. n = Done(o) /\ jobs' = IF Runs(s) THEN [jobs EXCEPT ![s.name] = o.id] ELSE jobs
    BY <1>2, <1>4, <1>5 DEF ScheduleAdded, Refused, Runs, Goto, Typed, TypeOK
  <2>2. \A m \in Names, i \in Ids : jobs'[m] = i <=> Runs(scenarios[i]) /\ scenarios[i].name = m
    BY <1>4, <2>1
  <2>3. Rested'
    BY <1>2, <1>5, <2>2, RegistryRests
  <2>4. Plain(n) /\ n.queue = o.queue
    BY <1>1, <2>1, DonePlain
  <2> QED BY <1>1, <1>2, <2>3, <2>4, EndTurn DEF Fetched
<1>6. CASE Refused(s)
  <2>1. jobs' = jobs /\ n = [o EXCEPT !.pc = "removeRead", !.kind = "remove"]
    BY <1>2, <1>6 DEF ScheduleAdded, Refused, Goto, Typed, TypeOK
  <2>2. /\ n.pc = "removeRead" /\ n.kind = "remove" /\ n.id = o.id /\ n.new = o.new
        /\ n.leave = None /\ n.join = None /\ n.queue = o.queue
    BY <1>1, <1>2, <2>1 DEF Op, Moves, InGroups
  <2>3. ~Saved(n) /\ ~InGroups(n) /\ ~HoldsOld(n) /\ ~Counting(n) /\ ~Counting(o) /\ ~InGroups(o)
    BY <1>2, <2>2 DEF Saved, InGroups, HoldsOld, Counting
  <2>4. Registry(proc[p])'
    <3>1. \A i \in Ids : Registered(proc[p], i)' = scenarios[i]
      BY <1>2, <2>2, <2>3 DEF Registered, Saved, InGroups
    <3>2. ~Runs(s)
      BY <1>6 DEF Refused, Runs
    <3> QED BY <1>4, <2>1, <3>1, <3>2 DEF Registry
  <2>5. Position(proc[p])'
    BY <1>2, <1>6, <2>2, <2>3 DEF Position
  <2>6. NoneRefused(proc[p])' /\ NamesUnique' /\ Fetched(proc[p])'
    BY <1>1, <1>2, <2>2 DEF NoneRefused, NamesUnique, Fetched
  <2>7. Moves(proc[p])'
    BY <2>2, <2>3 DEF Moves
  <2>8. Counted(proc[p])'
    <3>1. \A g \in Groups : groups[g] >= Missing /\ Stored(g) = Cardinality(Members(g))
      BY <1>1, <1>2, <2>3, CountsSettled
    <3>2. ASSUME NEW g \in Groups
          PROVE  /\ groups'[g] >= Missing /\ Stored(g)' = Cardinality(Members(g)')
                 /\ Cardinality(Members(g)') \in Nat
      <4>1. Stored(g)' = Stored(g) /\ Members(g)' = Members(g)
        BY <1>2 DEF Stored, Members
      <4> QED BY <1>2, <3>1, <4>1, MembersFinite
    <3>3. \A g \in Groups : Owed(proc[p], g)' = 0
      BY <2>2 DEF Owed, InGroups
    <3> QED BY <3>2, <3>3 DEF Counted
  <2>9. Quotas(proc[p])'
    BY <1>1, <1>2, <2>2, <2>3 DEF Quotas
  <2> QED BY <2>4, <2>5, <2>6, <2>7, <2>8, <2>9 DEF Turn
<1>7. QED BY <1>5, <1>6

\* Deleting the job of the old document leaves the jobs of the others.
LEMMA ReleaseOne ==
  ASSUME Typed, TurnInv, NEW p \in Procs, proc[p].pc = "job",
         proc[p].kind \in {"update", "count", "remove"}
  PROVE  LET o == proc[p] IN
         /\ JobsExcept([jobs EXCEPT ![o.old.name] = None], o.id)
         /\ ~Runs(o.old) => JobsExcept(jobs, o.id)
         /\ Runs(o.old) => jobs[o.old.name] = o.id
<1> DEFINE o == proc[p]
<1>1. /\ NamesUnique /\ Registry(o) /\ Position(o) /\ NoneRefused(o) /\ Moves(o)
      /\ Counted(o) /\ Quotas(o) /\ Fetched(o) /\ o \in Op /\ Shape(o)
  BY TurnParts
<1>2. o.id \in Ids /\ o.old \in Scenario /\ o.old.name \in Names /\ ~NameTaken(o.old.name, o.id)
  BY <1>1 DEF Shape, Position, HoldsOld, Saved, Scenario
<1>3. Registered(o, o.id) = o.old
  BY DEF Registered, Saved
<1>4. \A i \in Ids : i # o.id => Registered(o, i) = scenarios[i]
  BY DEF Registered
<1>5. ASSUME NEW n \in Names, NEW i \in Ids
      PROVE  [jobs EXCEPT ![o.old.name] = None][n] = i
               <=> i # o.id /\ Runs(scenarios[i]) /\ scenarios[i].name = n
  <2>1. CASE n = o.old.name
    <3>1. i # o.id /\ Runs(scenarios[i]) => scenarios[i].name # n
      BY <1>2, <2>1 DEF NameTaken, Runs, Scheduled
    <3>2. [jobs EXCEPT ![o.old.name] = None][n] = None
      BY <1>2, <2>1 DEF Typed, TypeOK
    <3> QED BY <3>1, <3>2, NoneAssumption
  <2>2. CASE n # o.old.name
    <3>1. [jobs EXCEPT ![o.old.name] = None][n] = jobs[n]
      BY <1>2, <2>2 DEF Typed, TypeOK
    <3> QED BY <1>1, <1>3, <1>4, <2>2, <3>1 DEF Registry
  <2> QED BY <2>1, <2>2
<1>6. ~Runs(o.old) => JobsExcept(jobs, o.id)
  BY <1>1, <1>2, <1>3, <1>4 DEF Registry, JobsExcept
<1>7. Runs(o.old) => jobs[o.old.name] = o.id
  BY <1>1, <1>2, <1>3 DEF Registry
<1> QED BY <1>5, <1>6, <1>7 DEF JobsExcept

\* The job of a removed scenario is deleted.
LEMMA UnscheduleTurn ==
  ASSUME Typed, Typed', TurnInv, NEW p \in Procs, Unschedule(p)
  PROVE  NamesUnique' /\ Turn(proc[p])'
<1> DEFINE o == proc[p]
           n == proc'[p]
<1>1. /\ NamesUnique /\ Registry(o) /\ Position(o) /\ NoneRefused(o) /\ Moves(o)
      /\ Counted(o) /\ Quotas(o) /\ Fetched(o) /\ o \in Op /\ Shape(o)
  BY TurnParts
<1>2. /\ o.pc = "job" /\ o.kind = "remove" /\ o.id \in Ids /\ scenarios[o.id] = None
      /\ UNCHANGED <<scenarios, groups, quota>> /\ n = Done(o)
      /\ jobs' = IF o.old.active THEN [jobs EXCEPT ![o.old.name] = None] ELSE jobs
  BY <1>1 DEF Unschedule, Shape, Position, Saved, Goto, Typed, TypeOK
<1>3. JobsExcept(jobs', o.id)
  <2>1. CASE o.old.active
    BY <1>2, <2>1, ReleaseOne
  <2>2. CASE ~o.old.active
    BY <1>2, <2>2, ReleaseOne DEF Runs, Scheduled
  <2> QED BY <2>1, <2>2
<1>4. ~Runs(scenarios[o.id]) /\ ~Refused(scenarios[o.id])
  BY <1>2 DEF Runs, Refused, Scheduled
<1>5. \A m \in Names, i \in Ids : jobs'[m] = i <=> Runs(scenarios[i]) /\ scenarios[i].name = m
  BY <1>3, <1>4 DEF JobsExcept
<1>6. Rested'
  BY <1>2, <1>4, <1>5, RegistryRests
<1>7. Plain(n) /\ n.queue = o.queue
  BY <1>1, <1>2, DonePlain
<1> QED BY <1>1, <1>2, <1>6, <1>7, EndTurn DEF Fetched

\* An updated scenario is rescheduled, or has to be rolled back.
LEMMA RescheduleTurn ==
  ASSUME Typed, Typed', TurnInv, NEW p \in Procs, Reschedule(p)
  PROVE  NamesUnique' /\ Turn(proc[p])'
<1> DEFINE o == proc[p]
           n == proc'[p]
           s == scenarios[o.id]
           freed == IF Scheduled(o.old) THEN [jobs EXCEPT ![o.old.name] = None] ELSE jobs
<1>1. /\ NamesUnique /\ Registry(o) /\ Position(o) /\ NoneRefused(o) /\ Moves(o)
      /\ Counted(o) /\ Quotas(o) /\ Fetched(o) /\ o \in Op /\ Shape(o)
  BY TurnParts
<1>2. /\ o.pc = "job" /\ o.kind \in {"update", "count"} /\ o.id \in Ids
      /\ o.new \in Scenario /\ o.old \in Scenario
      /\ s = o.new /\ s # None /\ UNCHANGED <<scenarios, groups, quota>>
      /\ ~NameTaken(o.old.name, o.id) /\ ~Refused(o.old)
      /\ o.kind = "update" => Revises(o.old, o.new)
      /\ o.kind = "count" => ~Refused(o.new)
  BY <1>1, NoneAssumption DEF Reschedule, Shape, Position, HoldsOld, Saved, Revises, CountsDown
<1>3. /\ JobsExcept(freed, o.id) /\ freed \in [Names -> Ids \cup {None}]
      /\ Scheduled(o.old) => jobs[o.old.name] # None
  <2>1. Scheduled(o.old) => Runs(o.old)
    BY <1>2 DEF Refused, Runs
  <2>2. ~Scheduled(o.old) => ~Runs(o.old)
    BY DEF Runs
  <2>3. o.old.name \in Names
    BY <1>2 DEF Scenario
  <2> QED BY <1>2, <2>1, <2>2, <2>3, ReleaseOne, NoneAssumption DEF Typed, TypeOK
<1>4. /\ freed[s.name] = None
      /\ Runs(s) => \A m \in Names, i \in Ids :
           [freed EXCEPT ![s.name] = o.id][m] = i <=> Runs(scenarios[i]) /\ scenarios[i].name = m
      /\ ~Runs(s) => \A m \in Names, i \in Ids :
           freed[m] = i <=> Runs(scenarios[i]) /\ scenarios[i].name = m
  <2> HIDE DEF freed
  <2> QED BY <1>1, <1>2, <1>3, ScheduleOne DEF Typed, TypeOK
<1>5. CASE ~Refused(s)
  <2>1. n = Done(o) /\ jobs' = IF Runs(s) THEN [freed EXCEPT ![s.name] = o.id] ELSE freed
    BY <1>2, <1>3, <1>4, <1>5 DEF Reschedule, Refused, Runs, Goto, Typed, TypeOK
  <2> HIDE DEF freed
  <2>2. \A m \in Names, i \in Ids : jobs'[m] = i <=> Runs(scenarios[i]) /\ scenarios[i].name = m
    BY <1>4, <2>1
  <2>3. Rested'
    BY <1>2, <1>5, <2>2, RegistryRests
  <2>4. Plain(n) /\ n.queue = o.queue
    BY <1>1, <2>1, DonePlain
  <2> QED BY <1>1, <1>2, <2>3, <2>4, EndTurn DEF Fetched
<1>6. CASE Refused(s)
  <2>1. jobs' = freed /\ n = [o EXCEPT !.pc = "rollback"]
    BY <1>2, <1>3, <1>6 DEF Reschedule, Refused, Goto, Typed, TypeOK
  <2> HIDE DEF freed
  <2>2. /\ n.pc = "rollback" /\ n.kind = o.kind /\ n.id = o.id /\ n.new = o.new /\ n.old = o.old
        /\ n.leave = None /\ n.join = None /\ n.queue = o.queue /\ o.kind = "update"
    BY <1>1, <1>2, <1>6, <2>1 DEF Op, Moves, InGroups
  <2>3. ~Saved(n) /\ ~InGroups(n) /\ ~Counting(n) /\ ~Counting(o) /\ ~InGroups(o)
    BY <1>2, <2>2 DEF Saved, InGroups, HoldsOld, Counting
  <2>4. Registry(proc[p])'
    <3>1. \A i \in Ids : Registered(proc[p], i)' = scenarios[i]
      BY <1>2, <2>2, <2>3 DEF Registered, Saved, InGroups
    <3>2. ~Runs(s)
      BY <1>6 DEF Refused, Runs
    <3> QED BY <1>4, <2>1, <3>1, <3>2 DEF Registry
  <2>5. Position(proc[p])'
    <3>1. ~NameTaken(proc[p].old.name, proc[p].id)'
      BY <1>2, <2>2 DEF NameTaken
    <3>2. Revises(n.old, n.new)
      BY <1>2, <2>2
    <3>3. scenarios'[n.id] = n.new /\ Refused(n.new)
      BY <1>2, <1>6, <2>2
    <3> QED BY <2>2, <2>3, <3>1, <3>2, <3>3 DEF Position
  <2>6. NoneRefused(proc[p])' /\ NamesUnique' /\ Fetched(proc[p])'
    BY <1>1, <1>2, <2>2 DEF NoneRefused, NamesUnique, Fetched
  <2>7. Moves(proc[p])'
    BY <2>2, <2>3 DEF Moves
  <2>8. Counted(proc[p])'
    <3>1. \A g \in Groups : groups[g] >= Missing /\ Stored(g) = Cardinality(Members(g))
      BY <1>1, <1>2, <2>3, CountsSettled
    <3>2. ASSUME NEW g \in Groups
          PROVE  /\ groups'[g] >= Missing /\ Stored(g)' = Cardinality(Members(g)')
                 /\ Cardinality(Members(g)') \in Nat
      <4>1. Stored(g)' = Stored(g) /\ Members(g)' = Members(g)
        BY <1>2 DEF Stored, Members
      <4> QED BY <1>2, <3>1, <4>1, MembersFinite
    <3>3. \A g \in Groups : Owed(proc[p], g)' = 0
      BY <2>2 DEF Owed, InGroups
    <3> QED BY <3>2, <3>3 DEF Counted
  <2>9. Quotas(proc[p])'
    BY <1>1, <1>2, <2>2, <2>3 DEF Quotas
  <2> QED BY <2>4, <2>5, <2>6, <2>7, <2>8, <2>9 DEF Turn
<1>7. QED BY <1>5, <1>6

\* The old document is written back.
LEMMA RollbackTurn ==
  ASSUME Typed, Typed', TurnInv, NEW p \in Procs, Rollback(p)
  PROVE  NamesUnique' /\ Turn(proc[p])'
<1> DEFINE o == proc[p]
           n == proc'[p]
           s == scenarios[o.id]
           w == [o.old EXCEPT
                  !.group = IF o.old.group = None THEN s.group ELSE o.old.group,
                  !.repeat = IF o.old.repeat = Unset THEN s.repeat ELSE o.old.repeat]
<1>1. /\ NamesUnique /\ Registry(o) /\ Position(o) /\ NoneRefused(o) /\ Moves(o)
      /\ Counted(o) /\ Quotas(o) /\ Fetched(o) /\ o \in Op /\ Shape(o)
  BY TurnParts
<1>2. /\ o.pc = "rollback" /\ o.kind = "update" /\ o.id \in Ids
      /\ o.new \in Scenario /\ o.old \in Scenario
      /\ s = o.new /\ s # None /\ Refused(s)
      /\ ~NameTaken(o.old.name, o.id) /\ Revises(o.old, o.new)
  BY <1>1, NoneAssumption DEF Rollback, Shape, Position, HoldsOld
<1>3. /\ scenarios' = [scenarios EXCEPT ![o.id] = w]
      /\ quota' = [quota EXCEPT ![o.id] = QuotaOf(scenarios'[o.id])]
      /\ UNCHANGED <<groups, jobs>> /\ n = [o EXCEPT !.pc = "reschedule"]
  BY <1>2 DEF Rollback, Goto, Typed, TypeOK
<1>4. /\ n.pc = "reschedule" /\ n.kind = "update" /\ n.id = o.id /\ n.new = o.new
      /\ n.old = o.old /\ n.leave = None /\ n.join = None /\ n.queue = o.queue
  BY <1>1, <1>2, <1>3 DEF Op, Moves, InGroups
<1>5. /\ w \in Scenario /\ w.name = o.old.name /\ w.group = o.old.group
      /\ w.active = o.old.active /\ w.trig = o.old.trig
      /\ w.repeat = IF o.old.repeat = Unset THEN s.repeat ELSE o.old.repeat
  BY <1>2 DEF Revises, Scenario
<1>6. w = [o.old EXCEPT !.repeat = w.repeat]
  <2>1. \A r, q : r \in Scenario /\ q \in Scenario /\ q.name = r.name /\ q.group = r.group
                  /\ q.active = r.active /\ q.trig = r.trig => q = [r EXCEPT !.repeat = q.repeat]
    BY DEF Scenario
  <2> HIDE DEF w
  <2> QED BY <1>2, <1>5, <2>1
<1> HIDE DEF w
<1>7. scenarios'[o.id] = w /\ w # None /\ \A i \in Ids : i # o.id => scenarios'[i] = scenarios[i]
  BY <1>2, <1>3, <1>5, NoneAssumption DEF Typed, TypeOK
<1>8. RefusedAlone /\ o.old.active => w = o.old
  <2>1. RefusedAlone /\ o.old.active => w.repeat = o.old.repeat
    BY <1>2, <1>5 DEF Revises
  <2>2. \A r \in Scenario : [r EXCEPT !.repeat = r.repeat] = r
    BY DEF Scenario
  <2> QED BY <1>2, <1>6, <2>1, <2>2
<1>9. ~Refused(w)
  BY <1>2, <1>5, <1>7, NoneAssumption DEF Revises, Refused, Scheduled, HasCron
<1>10. ~Saved(o) /\ ~Saved(n) /\ ~InGroups(o) /\ ~InGroups(n) /\ ~Counting(o) /\ ~Counting(n)
  BY <1>2, <1>4 DEF Saved, InGroups, Counting
<1>11. Registry(proc[p])'
  <2>1. ~Runs(Registered(o, o.id))
    BY <1>2, <1>10 DEF Registered, Refused, Runs
  <2>2. ~Runs(Registered(proc[p], o.id)')
    BY <1>4 DEF Registered, Runs, Scheduled
  <2>3. \A i \in Ids : i # o.id => /\ Registered(o, i) = scenarios[i]
                                   /\ Registered(proc[p], i)' = scenarios[i]
    BY <1>4, <1>7 DEF Registered
  <2>4. \A m \in Names, i \in Ids :
          jobs'[m] = i <=> Runs(Registered(proc[p], i)') /\ Registered(proc[p], i)'.name = m
    BY <1>1, <1>3, <2>1, <2>2, <2>3 DEF Registry
  <2> QED BY <2>4 DEF Registry
<1>12. NoneRefused(proc[p])'
  BY <1>1, <1>2, <1>4, <1>7, <1>9 DEF NoneRefused
<1>13. NamesUnique'
  BY <1>1, <1>2, <1>3, <1>5, NamesStayUnique DEF Typed, TypeOK
<1>14. Position(proc[p])'
  <2>1. ~NameTaken(proc[p].old.name, proc[p].id)'
    BY <1>2, <1>4, <1>7 DEF NameTaken
  <2>2. Revises(n.old, n.new) /\ Refused(n.new)
    BY <1>2, <1>4
  <2>3. scenarios'[n.id] # None /\ scenarios'[n.id] = [n.old EXCEPT !.repeat = scenarios'[n.id].repeat]
    BY <1>4, <1>6, <1>7
  <2>4. RefusedAlone /\ n.old.active => scenarios'[n.id] = n.old
    BY <1>4, <1>7, <1>8
  <2> QED BY <1>4, <1>10, <2>1, <2>2, <2>3, <2>4 DEF Position
<1>15. Moves(proc[p])'
  BY <1>4, <1>10 DEF Moves
<1>16. Counted(proc[p])'
  <2>1. \A g \in Groups : groups[g] >= Missing /\ Stored(g) = Cardinality(Members(g))
    BY <1>1, <1>2, <1>10, CountsSettled
  <2>2. ASSUME NEW g \in Groups
        PROVE  /\ groups'[g] >= Missing /\ Stored(g)' = Cardinality(Members(g)')
               /\ Cardinality(Members(g)') \in Nat
    <3>1. Stored(g)' = Stored(g)
      BY <1>3 DEF Stored
    <3>2. Cardinality(Members(g)') = Cardinality(Members(g)) + In(w, g) - In(s, g)
      <4>1. /\ o.id \in Ids /\ scenarios' = [scenarios EXCEPT ![o.id] = w]
            /\ scenarios \in [Ids -> Scenario \cup {None}]
        BY <1>2, <1>3 DEF Typed, TypeOK
      <4> QED BY <4>1, MembersMove
    <3>3. In(w, g) = In(s, g) /\ In(s, g) \in Int
      <4>1. s.group = o.old.group
        BY <1>2 DEF Revises
      <4> HIDE DEF s, o
      <4> QED BY <1>2, <1>5, <1>7, <4>1 DEF In
    <3>4. Cardinality(Members(g)) \in Nat
      BY MembersFinite
    <3>5. Cardinality(Members(g)') = Cardinality(Members(g))
      BY <3>2, <3>3, <3>4
    <3> QED BY <1>3, <2>1, <3>1, <3>4, <3>5
  <2>3. \A g \in Groups : Owed(proc[p], g)' = 0
    BY <1>4 DEF Owed, InGroups
  <2> QED BY <2>2, <2>3 DEF Counted
<1>17. Quotas(proc[p])'
  BY <1>1, <1>2, <1>3, <1>7, <1>10, QuotaPositive DEF Quotas, Typed, TypeOK
<1>18. Fetched(proc[p])'
  <2>1. ASSUME NEW e \in o.queue PROVE scenarios'[e.id] = scenarios[e.id]
    BY <1>1, <1>2, <1>7 DEF Fetched, Op, Entry
  <2> QED BY <1>1, <1>2, <1>4, <2>1 DEF Fetched
<1> QED BY <1>11, <1>12, <1>13, <1>14, <1>15, <1>16, <1>17, <1>18 DEF Turn

\* The old schedule is restored.
LEMMA RescheduleOldTurn ==
  ASSUME Typed, Typed', TurnInv, NEW p \in Procs, RescheduleOld(p)
  PROVE  /\ NamesUnique' /\ Turn(proc[p])'
         /\ RefusedAlone /\ proc[p].old.active => scenarios'[proc[p].id] = proc[p].old
         /\ Scheduled(proc[p].old) => jobs'[proc[p].old.name] = proc[p].id
<1> DEFINE o == proc[p]
           n == proc'[p]
           s == scenarios[o.id]
<1>1. /\ NamesUnique /\ Registry(o) /\ Position(o) /\ NoneRefused(o) /\ Moves(o)
      /\ Counted(o) /\ Quotas(o) /\ Fetched(o) /\ o \in Op /\ Shape(o)
  BY TurnParts
<1>2. /\ o.pc = "reschedule" /\ o.kind = "update" /\ o.id \in Ids
      /\ o.new \in Scenario /\ o.old \in Scenario /\ s # None /\ s = [o.old EXCEPT !.repeat = s.repeat]
      /\ Revises(o.old, o.new) /\ Refused(o.new)
      /\ RefusedAlone /\ o.old.active => s = o.old
      /\ UNCHANGED <<scenarios, groups, quota>>
  BY <1>1 DEF RescheduleOld, Shape, Position, HoldsOld
<1>3. s # None /\ o.old # None /\ o.old.name \in Names
      /\ s.name = o.old.name /\ s.active = o.old.active /\ s.trig = o.old.trig
  <2>1. s.name = o.old.name /\ s.active = o.old.active /\ s.trig = o.old.trig
    BY <1>2 DEF Scenario
  <2> QED BY <1>2, <2>1, NoneAssumption DEF Scenario
<1>4. JobsExcept(jobs, o.id)
  <2>1. Registered(o, o.id) = None /\ ~Runs(None)
    BY <1>2 DEF Registered, Saved, Runs, Scheduled
  <2>2. \A i \in Ids : i # o.id => Registered(o, i) = scenarios[i]
    BY DEF Registered
  <2> QED BY <1>1, <2>1, <2>2 DEF Registry, JobsExcept
<1>5. /\ jobs[s.name] = None
      /\ Runs(s) => \A m \in Names, i \in Ids :
           [jobs EXCEPT ![s.name] = o.id][m] = i <=> Runs(scenarios[i]) /\ scenarios[i].name = m
      /\ ~Runs(s) => \A m \in Names, i \in Ids :
           jobs[m] = i <=> Runs(scenarios[i]) /\ scenarios[i].name = m
  BY <1>1, <1>2, <1>3, <1>4, ScheduleOne DEF Typed, TypeOK
<1>6. HasCron(o.old) /\ o.old.trig # "bad" <=> Runs(s)
  BY <1>2, <1>3 DEF Revises, Runs, Scheduled, HasCron
<1>7. n = Done(o) /\ jobs' = IF Runs(s) THEN [jobs EXCEPT ![s.name] = o.id] ELSE jobs
  BY <1>3, <1>5, <1>6 DEF RescheduleOld, Goto, Typed, TypeOK
<1>8. \A m \in Names, i \in Ids : jobs'[m] = i <=> Runs(scenarios[i]) /\ scenarios[i].name = m
  BY <1>5, <1>7
<1>9. ~Refused(s)
  BY <1>2, <1>3 DEF Revises, Refused, Scheduled, HasCron
<1>10. Rested'
  BY <1>2, <1>8, <1>9, RegistryRests
<1>11. Plain(n) /\ n.queue = o.queue
  BY <1>1, <1>7, DonePlain
<1>12. NamesUnique' /\ Turn(proc[p])'
  BY <1>1, <1>2, <1>10, <1>11, EndTurn DEF Fetched
<1>13. Scheduled(o.old) => jobs'[o.old.name] = o.id
  BY <1>2, <1>3, <1>8, <1>9 DEF Runs, Refused, Scheduled, HasCron
<1> QED BY <1>2, <1>12, <1>13

-----------------------------------------------------------------------------
(* The groups.                                                             *)

\* A handler that counts its groups keeps everything but the counts.
LEMMA CountingGroups ==
  ASSUME Typed, TurnInv, NEW p \in Procs, UNCHANGED <<scenarios, jobs, quota>>,
         InGroups(proc[p]), proc'[p].pc \in {"groupRead", "groupSave", "job"},
         proc'[p].id = proc[p].id, proc'[p].kind = proc[p].kind,
         proc'[p].old = proc[p].old, proc'[p].new = proc[p].new,
         proc'[p].queue = proc[p].queue
  PROVE  /\ NamesUnique' /\ Registry(proc[p])' /\ Position(proc[p])'
         /\ NoneRefused(proc[p])' /\ Quotas(proc[p])' /\ Fetched(proc[p])'
<1> DEFINE o == proc[p]
           n == proc'[p]
<1>1. /\ NamesUnique /\ Registry(o) /\ Position(o) /\ NoneRefused(o) /\ Moves(o)
      /\ Counted(o) /\ Quotas(o) /\ Fetched(o) /\ o \in Op /\ Shape(o)
  BY TurnParts
<1>2. Saved(o) /\ Saved(n) /\ ~Counting(o) /\ ~Counting(n)
  BY DEF Saved, InGroups, Counting
<1>3. Registry(proc[p])'
  <2>1. \A i \in Ids : Registered(proc[p], i)' = Registered(proc[p], i)
    BY <1>2 DEF Registered, InGroups
  <2> QED BY <1>1, <2>1 DEF Registry
<1>4. Position(proc[p])'
  <2>1. o.pc \in {"groupRead", "groupSave"}
    BY DEF InGroups
  <2>2. NameTaken(proc[p].old.name, proc[p].id)' = NameTaken(o.old.name, o.id)
    BY DEF NameTaken
  <2>3. /\ HoldsOld(o) <=> o.kind \in {"update", "count", "remove"}
        /\ HoldsOld(n) <=> n.kind \in {"update", "count", "remove"}
    BY <1>2, <2>1 DEF HoldsOld
  <2> QED BY <1>1, <1>2, <2>1, <2>2, <2>3 DEF Position
<1>5. NoneRefused(proc[p])'
  BY <1>1, <1>2 DEF NoneRefused
<1>6. Quotas(proc[p])' /\ Fetched(proc[p])' /\ NamesUnique'
  BY <1>1, <1>2 DEF Quotas, Fetched, NamesUnique, InGroups
<1> QED BY <1>3, <1>4, <1>5, <1>6

\* The count of a group is read.
LEMMA GroupReadTurn ==
  ASSUME Typed, Typed', TurnInv, NEW p \in Procs, GroupRead(p)
  PROVE  NamesUnique' /\ Turn(proc[p])'
<1> DEFINE o == proc[p]
           n == proc'[p]
           c == groups[Target(o)]
<1>1. /\ NamesUnique /\ Registry(o) /\ Position(o) /\ NoneRefused(o) /\ Moves(o)
      /\ Counted(o) /\ Quotas(o) /\ Fetched(o) /\ o \in Op /\ Shape(o)
  BY TurnParts
<1>2. /\ o.pc = "groupRead" /\ UNCHANGED <<scenarios, groups, jobs, quota>>
      /\ n = [o EXCEPT !.pc = "groupSave", !.count = c]
  BY <1>1 DEF GroupRead, Goto, Typed, TypeOK
<1> HIDE DEF c
<1>3. /\ n.pc = "groupSave" /\ n.kind = o.kind /\ n.id = o.id /\ n.new = o.new /\ n.old = o.old
      /\ n.leave = o.leave /\ n.join = o.join /\ n.queue = o.queue /\ n.count = c
  BY <1>1, <1>2 DEF Op
<1>4. InGroups(o) /\ InGroups(n)
  BY <1>2, <1>3 DEF InGroups
<1>5. /\ NamesUnique' /\ Registry(proc[p])' /\ Position(proc[p])'
      /\ NoneRefused(proc[p])' /\ Quotas(proc[p])' /\ Fetched(proc[p])'
  BY <1>2, <1>3, <1>4, CountingGroups
<1>6. Moves(proc[p])'
  BY <1>1, <1>2, <1>3, <1>4 DEF Moves, Target, c
<1>7. Counted(proc[p])'
  <2>1. ASSUME NEW g \in Groups
        PROVE  Owed(proc[p], g)' = Owed(o, g) /\ Stored(g)' = Stored(g) /\ Members(g)' = Members(g)
    BY <1>2, <1>3, <1>4 DEF Owed, Stored, Members
  <2> QED BY <1>1, <1>2, <1>3, <2>1 DEF Counted
<1> QED BY <1>5, <1>6, <1>7 DEF Turn

\* The count of a group is saved: nothing can be in the way of it.
LEMMA GroupSaves ==
  ASSUME Typed, TurnInv, NEW p \in Procs, GroupSave(p)
  PROVE  LET o == proc[p]
             n == proc'[p]
             g == Target(o)
             c == Stored(g) + Increment(o)
             j == IF o.leave = None THEN None ELSE o.join IN
         /\ InGroups(o) /\ g \in Groups /\ o.leave # o.join
         /\ o.leave \in Groups \cup {None} /\ o.join \in Groups \cup {None}
         /\ c \in Nat /\ groups' = [groups EXCEPT ![g] = c]
         /\ o.kind = "createGroup" =>
              o.leave = None /\ o.id = None /\ groups[g] = Missing /\ n = Done(o)
         /\ o.kind # "createGroup" =>
              /\ n.pc = (IF j = None THEN "job" ELSE "groupRead")
              /\ n.leave = None /\ n.join = j /\ n.kind = o.kind /\ n.id = o.id
              /\ n.new = o.new /\ n.old = o.old /\ n.queue = o.queue
<1> DEFINE o == proc[p]
           n == proc'[p]
           g == Target(o)
           c == IF o.count = Missing THEN Increment(o) ELSE o.count + Increment(o)
           j == IF o.leave = None THEN None ELSE o.join
           left == [o EXCEPT !.leave = None, !.join = j, !.count = Missing]
<1>1. /\ NamesUnique /\ Registry(o) /\ Position(o) /\ NoneRefused(o) /\ Moves(o)
      /\ Counted(o) /\ Quotas(o) /\ Fetched(o) /\ o \in Op /\ Shape(o)
  BY TurnParts
<1>2. /\ o.pc = "groupSave" /\ InGroups(o) /\ g \in Groups /\ o.count = groups[g]
      /\ o.leave \in Groups \cup {None} /\ o.join \in Groups \cup {None}
      /\ o.leave # o.join
      /\ o.kind = "createGroup" => o.leave = None /\ o.id = None /\ groups[g] = Missing
  BY <1>1 DEF GroupSave, InGroups, Shape, Moves, Op, Target
<1>3. /\ groups[g] >= Missing /\ groups[g] \in Int
      /\ Stored(g) = Cardinality(Members(g)) + Owed(o, g) /\ Cardinality(Members(g)) \in Nat
  BY <1>1, <1>2, MembersFinite DEF Counted, Typed, TypeOK
<1>4. o.count # Stale /\ c \in Nat /\ c = Stored(g) + Increment(o)
  <2>1. o.count # Stale /\ Stored(g) \in Int /\ Stored(g) >= 0 /\ Increment(o) \in {-1, 0, 1}
    BY <1>2, <1>3 DEF Stale, Missing, Stored, Increment
  <2>2. c = Stored(g) + Increment(o)
    BY <1>2, <2>1 DEF Stored
  <2>3. o.leave # None => Owed(o, g) = 1
    BY <1>2 DEF Owed, Target
  <2>4. o.leave = None => Increment(o) # -1
    BY DEF Increment
  <2> HIDE DEF c, g
  <2> QED BY <1>3, <2>1, <2>2, <2>3, <2>4
<1>5. groups' = [groups EXCEPT ![g] = c]
  <2>1. o.count # Missing => Increment(o) # 0
    BY <1>2 DEF Increment
  <2> QED BY <1>2, <1>4, <2>1 DEF GroupSave
<1>6. /\ o.kind = "createGroup" => n = Done(o)
      /\ o.kind # "createGroup" => n = [left EXCEPT !.pc = AfterGroups(left)]
  BY <1>2, <1>4 DEF GroupSave, Goto, Typed, TypeOK
<1>7. CASE o.kind # "createGroup"
  <2>1. left = [o EXCEPT !.leave = None, !.join = j, !.count = Missing] /\ o \in Op
    BY <1>1
  <2>2. n = [left EXCEPT !.pc = AfterGroups(left)]
    BY <1>6, <1>7
  <2> HIDE DEF j, o, left
  <2>3. /\ left.leave = None /\ left.join = j /\ left.kind = o.kind /\ left.id = o.id
        /\ left.new = o.new /\ left.old = o.old /\ left.queue = o.queue
    BY <2>1 DEF Op
  <2>4. AfterGroups(left) = IF j = None THEN "job" ELSE "groupRead"
    BY <2>3 DEF AfterGroups
  <2>5. /\ n.pc = (IF j = None THEN "job" ELSE "groupRead")
        /\ n.leave = None /\ n.join = j /\ n.kind = o.kind /\ n.id = o.id
        /\ n.new = o.new /\ n.old = o.old /\ n.queue = o.queue
    BY <2>1, <2>2, <2>3, <2>4 DEF Op
  <2> QED BY <1>2, <1>4, <1>5, <1>7, <2>5 DEF j, o
<1> HIDE DEF c, left
<1> QED BY <1>2, <1>4, <1>5, <1>6, <1>7

\* The handler then owes one step less.
LEMMA GroupSaveTurn ==
  ASSUME Typed, Typed', TurnInv, NEW p \in Procs, GroupSave(p)
  PROVE  NamesUnique' /\ Turn(proc[p])'
<1> DEFINE o == proc[p]
           n == proc'[p]
           g == Target(o)
           c == Stored(g) + Increment(o)
           j == IF o.leave = None THEN None ELSE o.join
<1>1. /\ NamesUnique /\ Registry(o) /\ Position(o) /\ NoneRefused(o) /\ Moves(o)
      /\ Counted(o) /\ Quotas(o) /\ Fetched(o) /\ o \in Op /\ Shape(o)
  BY TurnParts
<1>2. /\ InGroups(o) /\ g \in Groups /\ o.leave # o.join
      /\ o.leave \in Groups \cup {None} /\ o.join \in Groups \cup {None}
      /\ c \in Nat /\ groups' = [groups EXCEPT ![g] = c]
      /\ o.kind = "createGroup" =>
           o.leave = None /\ o.id = None /\ groups[g] = Missing /\ n = Done(o)
      /\ o.kind # "createGroup" =>
           /\ n.pc = (IF j = None THEN "job" ELSE "groupRead")
           /\ n.leave = None /\ n.join = j /\ n.kind = o.kind /\ n.id = o.id
           /\ n.new = o.new /\ n.old = o.old /\ n.queue = o.queue
      /\ UNCHANGED <<scenarios, jobs, quota>>
  BY GroupSaves DEF GroupSave
<1>3. \A h \in Groups : /\ groups[h] >= Missing /\ groups[h] \in Int
                        /\ Stored(h) = Cardinality(Members(h)) + Owed(o, h)
                        /\ Cardinality(Members(h)) \in Nat /\ Members(h)' = Members(h)
  BY <1>1, <1>2, MembersFinite DEF Counted, Typed, TypeOK, InGroups, Members
<1>4. \A h \in Groups : /\ groups'[h] >= Missing
                        /\ Stored(h)' = IF h = g THEN Stored(g) + Increment(o) ELSE Stored(h)
  <2>1. \A h \in Groups : groups'[h] = IF h = g THEN c ELSE groups[h]
    BY <1>2 DEF Typed, TypeOK
  <2>2. c = Stored(g) + Increment(o)
    OBVIOUS
  <2> HIDE DEF c
  <2> QED BY <1>2, <1>3, <2>1, <2>2 DEF Stored, Missing
<1>5. CASE o.kind = "createGroup"
  <2>1. n = Done(o)
    BY <1>2, <1>5
  <2>2. Plain(n) /\ n.queue = o.queue
    BY <1>1, <2>1, DonePlain
  <2>3. \A h \in Groups : Stored(h)' = Stored(h) /\ Owed(o, h) = 0
    BY <1>2, <1>3, <1>4, <1>5 DEF Increment, Owed, Stored
  <2>4. \A h \in Groups : groups'[h] >= Missing /\ Stored(h)' = Cardinality(Members(h)')
    BY <1>3, <1>4, <2>3
  <2>5. \A i \in Ids : Registered(o, i) = scenarios[i] /\ i # o.id
    BY <1>2, <1>5, NoneAssumption DEF Registered
  <2>6. Rested'
    <3>1. \A m \in Names, i \in Ids : jobs[m] = i <=> Runs(scenarios[i]) /\ scenarios[i].name = m
      BY <1>1, <2>5 DEF Registry
    <3>2. \A i \in Ids : ~Refused(scenarios[i])
      BY <1>1, <2>5 DEF NoneRefused
    <3>3. \A i \in Ids : /\ quota[i] >= 0
                         /\ scenarios[i] # None /\ scenarios[i].active
                              => quota[i] = QuotaOf(scenarios[i])
      BY <1>1, <2>5 DEF Quotas
    <3>4. NamesUnique'
      BY <1>1, <1>2 DEF NamesUnique
    <3> QED BY <1>2, <2>4, <3>1, <3>2, <3>3, <3>4 DEF Rested, Agreed
  <2> QED BY <1>1, <1>2, <2>2, <2>6, EndTurn DEF Fetched
<1>6. CASE o.kind # "createGroup"
  <2>4. /\ n.pc = (IF j = None THEN "job" ELSE "groupRead")
        /\ n.leave = None /\ n.join = j /\ n.kind = o.kind /\ n.id = o.id
        /\ n.new = o.new /\ n.old = o.old /\ n.queue = o.queue
    BY <1>2, <1>6
  <2>5. n.pc \in {"groupRead", "groupSave", "job"}
    BY <2>4
  <2>6. /\ NamesUnique' /\ Registry(proc[p])' /\ Position(proc[p])'
        /\ NoneRefused(proc[p])' /\ Quotas(proc[p])' /\ Fetched(proc[p])'
    BY <1>2, <2>4, <2>5, CountingGroups
  <2>7. InGroups(n) <=> j # None
    BY <2>4 DEF InGroups
  <2>8. Moves(proc[p])'
    BY <1>6, <2>4, <2>7 DEF Moves
  <2>9. Counted(proc[p])'
    <3>1. ASSUME NEW h \in Groups
          PROVE  Stored(h)' = Cardinality(Members(h)') + Owed(proc'[p], h)
      <4> DEFINE k == Cardinality(Members(h))
      <4>0. /\ Stored(h) = k + Owed(o, h) /\ k \in Nat /\ Cardinality(Members(h)') = k
            /\ Stored(h)' = IF h = g THEN Stored(h) + Increment(o) ELSE Stored(h)
        BY <1>3, <1>4
      <4> HIDE DEF k
      <4>1. CASE o.leave = None
        <5>1. Owed(n, h) = 0 /\ Increment(o) = 1 /\ g = o.join
          BY <1>6, <2>7, <4>1 DEF Owed, Increment, Target
        <5>2. Owed(o, h) = IF h = g THEN -1 ELSE 0
          BY <1>2, <1>6, <4>1, <5>1, NoneAssumption DEF Owed
        <5> HIDE DEF g
        <5> QED BY <4>0, <5>1, <5>2
      <4>2. CASE o.leave # None
        <5>1. Increment(o) = -1 /\ g = o.leave /\ j = o.join
          BY <4>2 DEF Increment, Target
        <5>2. Owed(o, h) = IF h = g THEN 1 ELSE IF h = o.join THEN -1 ELSE 0
          BY <1>2, <1>6, <4>2, <5>1 DEF Owed
        <5>3. Owed(n, h) = IF h = o.join THEN -1 ELSE 0
          <6>1. n.kind # "createGroup" /\ n.leave = None /\ n.join = o.join /\ h # None
            BY <1>6, <2>4, <5>1, NoneAssumption
          <6>2. InGroups(n) <=> o.join # None
            BY <2>7, <5>1
          <6> HIDE DEF n, o, j
          <6> QED BY <6>1, <6>2 DEF Owed
        <5>4. g # o.join
          BY <1>2, <5>1
        <5> HIDE DEF g
        <5> QED BY <4>0, <5>1, <5>2, <5>3, <5>4
      <4> QED BY <4>1, <4>2
    <3>2. \A h \in Groups : Owed(proc[p], h)' = Owed(n, h)
      BY DEF Owed, InGroups
    <3> QED BY <1>4, <3>1, <3>2 DEF Counted
  <2> QED BY <2>6, <2>8, <2>9 DEF Turn
<1> QED BY <1>5, <1>6

\* A handler of the groups service holds no document.
ServesGroup(o) == o.id = None /\ (o.pc \in {"clear", "drop"} \/ (InGroups(o) /\ o.kind = "createGroup"))

\* All that a handler at rest says, but for the counts.
AtRest ==
  /\ NamesUnique
  /\ \A n \in Names, i \in Ids : jobs[n] = i <=> Runs(scenarios[i]) /\ scenarios[i].name = n
  /\ \A i \in Ids :
       /\ ~Refused(scenarios[i])
       /\ quota[i] >= 0
       /\ scenarios[i] # None /\ scenarios[i].active => quota[i] = QuotaOf(scenarios[i])

\* What the invariant says while a group is created or deleted.
LEMMA GroupHandlerTurn ==
  ASSUME NEW o, ServesGroup(o), NamesUnique
  PROVE  Turn(o) <=> AtRest /\ Moves(o) /\ Counted(o) /\ Fetched(o)
<1>1. /\ o.id = None /\ o.pc \in {"clear", "drop", "groupRead", "groupSave"}
      /\ Saved(o) => o.kind = "createGroup"
      /\ ~HoldsOld(o) /\ ~Counting(o)
  BY DEF ServesGroup, InGroups, Saved, HoldsOld, Counting
<1>2. \A i \in Ids : i # o.id /\ Registered(o, i) = scenarios[i]
  BY <1>1, NoneAssumption DEF Registered
<1>3. Position(o)
  BY <1>1 DEF Position
<1>4. Registry(o) <=> \A n \in Names, i \in Ids :
                        jobs[n] = i <=> Runs(scenarios[i]) /\ scenarios[i].name = n
  BY <1>2 DEF Registry
<1>5. NoneRefused(o) <=> \A i \in Ids : ~Refused(scenarios[i])
  BY <1>2 DEF NoneRefused
<1>6. Quotas(o) <=> \A i \in Ids :
       /\ quota[i] >= 0
       /\ scenarios[i] # None /\ scenarios[i].active => quota[i] = QuotaOf(scenarios[i])
  BY <1>2 DEF Quotas
<1> QED BY <1>3, <1>4, <1>5, <1>6 DEF Turn, AtRest

\* The same of the state after a step.
LEMMA GroupHandlerTurnNext ==
  ASSUME NEW p \in Procs
  PROVE  (ServesGroup(proc[p]) /\ AtRest /\ Moves(proc[p]) /\ Counted(proc[p]) /\ Fetched(proc[p])
            => NamesUnique /\ Turn(proc[p]))'
<1>1. ServesGroup(proc[p]) /\ AtRest /\ Moves(proc[p]) /\ Counted(proc[p]) /\ Fetched(proc[p])
        => NamesUnique /\ Turn(proc[p])
  BY GroupHandlerTurn DEF AtRest
<1>2. QED BY <1>1, PTL

\* A group is created or deleted at a user's request.
LEMMA StartGroupTurn ==
  ASSUME Turns, Typed, Typed', TurnInv, NEW p \in Procs,
         \/ \E g \in Groups : StartCreateGroup(p, g)
         \/ \E g \in Groups, k \in {"unlinkGroup", "purgeGroup", "deleteEmptyGroup"} :
              StartDeleteGroup(p, g, k)
  PROVE  NamesUnique' /\ Turn(proc[p])'
<1> DEFINE n == proc'[p]
<1>1. Rested /\ Rested'
  <2>1. proc[p].pc = "idle" /\ UNCHANGED <<scenarios, groups, jobs, quota>>
    BY DEF StartCreateGroup, StartDeleteGroup
  <2>2. Rested
    BY <2>1, RestingPlain DEF Typed, TypeOK, TurnInv
  <2> QED BY <2>1, <2>2, AgreedStays DEF Rested
<1>2. AtRest'
  BY <1>1 DEF Rested, Agreed, AtRest
<1>3. \A g \in Groups : /\ groups[g] >= Missing /\ groups[g] \in Int
                        /\ Stored(g) = Cardinality(Members(g))
  BY <1>1 DEF Rested, Agreed, Typed, TypeOK
<1>4. \A g \in Groups : /\ groups'[g] >= Missing
                        /\ Stored(g)' = Cardinality(Members(g)') + 0
                        /\ Cardinality(Members(g)') \in Nat
  <2>1. \A g \in Groups : groups'[g] = groups[g] /\ Stored(g)' = Stored(g) /\ Members(g)' = Members(g)
    BY DEF StartCreateGroup, StartDeleteGroup, Stored, Members
  <2> QED BY <1>3, <2>1, MembersFinite
<1>5. ASSUME NEW g \in Groups, StartCreateGroup(p, g)
      PROVE  ServesGroup(n) /\ Moves(proc[p])' /\ Counted(proc[p])' /\ Fetched(proc[p])'
  <2>1. /\ n.pc = "groupRead" /\ n.kind = "createGroup" /\ n.id = None
        /\ n.leave = None /\ n.join = g /\ n.queue = {}
    <3>1. n = [Idle EXCEPT !.pc = "groupRead", !.kind = "createGroup", !.join = g]
      BY <1>5 DEF StartCreateGroup, Goto, Typed, TypeOK
    <3> QED BY <3>1 DEF Idle
  <2>2. ServesGroup(n) /\ InGroups(n)
    BY <2>1 DEF ServesGroup, InGroups
  <2>3. Moves(proc[p])'
    BY <1>5, <2>1, NoneAssumption DEF Moves, InGroups, StartCreateGroup
  <2>4. \A h \in Groups : Owed(proc[p], h)' = 0
    BY <2>1 DEF Owed
  <2>5. Counted(proc[p])' /\ Fetched(proc[p])'
    BY <1>4, <2>1, <2>4 DEF Counted, Fetched
  <2> QED BY <2>2, <2>3, <2>5
<1>6. ASSUME NEW g \in Groups, NEW k \in {"unlinkGroup", "purgeGroup", "deleteEmptyGroup"},
             StartDeleteGroup(p, g, k)
      PROVE  ServesGroup(n) /\ Moves(proc[p])' /\ Counted(proc[p])' /\ Fetched(proc[p])'
  <2> DEFINE pc == IF groups[g] > 0 THEN "clear" ELSE "drop"
  <2>1. /\ n.pc = pc /\ n.kind = k /\ n.id = None
        /\ n.leave = g /\ n.join = None /\ n.queue = {} /\ n.count = groups[g]
    <3>1. n = [Idle EXCEPT !.kind = k, !.leave = g, !.count = groups[g], !.pc = pc]
      BY <1>6 DEF StartDeleteGroup, Goto, Typed, TypeOK
    <3> HIDE DEF pc
    <3> QED BY <3>1 DEF Idle
  <2>2. ServesGroup(n) /\ ~InGroups(n)
    BY <2>1 DEF ServesGroup, InGroups
  <2>3. k # "purgeGroup" /\ groups[g] # Missing /\ scenarios' = scenarios /\ groups' = groups
    BY <1>6 DEF StartDeleteGroup, Turns
  <2>4. n.pc = "drop" => Members(g)' = {}
    <3>1. n.pc = "drop" => Cardinality(Members(g)) = 0
      BY <1>3, <2>1, <2>3 DEF Missing, Stored
    <3>2. Members(g)' = Members(g)
      BY <2>3 DEF Members
    <3> QED BY <3>1, <3>2, MembersFinite, FS_EmptySet
  <2>5. Moves(proc[p])'
    <3>1. n.pc = "drop" => Members(proc[p].leave)' = {}
      BY <2>1, <2>4 DEF Members
    <3> QED BY <2>1, <2>2, <2>3, <3>1 DEF Moves
  <2>6. \A h \in Groups : Owed(proc[p], h)' = 0
    BY <2>2 DEF Owed, InGroups
  <2>7. Counted(proc[p])' /\ Fetched(proc[p])'
    BY <1>4, <2>1, <2>6 DEF Counted, Fetched
  <2> QED BY <2>2, <2>5, <2>7
<1>7. ServesGroup(proc[p])' /\ Moves(proc[p])' /\ Counted(proc[p])' /\ Fetched(proc[p])'
  BY <1>5, <1>6 DEF ServesGroup, InGroups
<1> QED BY <1>2, <1>7, GroupHandlerTurnNext

\* The scenarios of a group that is deleted leave it.
LEMMA ClearGroupTurn ==
  ASSUME Typed, Typed', TurnInv, NEW p \in Procs, ClearGroup(p)
  PROVE  NamesUnique' /\ Turn(proc[p])'
<1> DEFINE o == proc[p]
           n == proc'[p]
           g == o.leave
<1>1. /\ NamesUnique /\ Registry(o) /\ Position(o) /\ NoneRefused(o) /\ Moves(o)
      /\ Counted(o) /\ Quotas(o) /\ Fetched(o) /\ o \in Op /\ Shape(o)
  BY TurnParts
<1>2. /\ o.pc = "clear" /\ o.id = None /\ g \in Groups /\ o.kind # "purgeGroup"
      /\ o.queue = {} /\ o.count = groups[g] /\ o.count # Missing
      /\ n = [o EXCEPT !.pc = "drop"] /\ UNCHANGED <<groups, jobs, quota>>
  BY <1>1 DEF ClearGroup, Goto, Typed, TypeOK, Position, Shape, Moves
<1>3. /\ n.pc = "drop" /\ n.id = None /\ n.kind = o.kind /\ n.leave = g /\ n.join = o.join
      /\ n.queue = {} /\ n.count = o.count
  BY <1>1, <1>2 DEF Op
<1>4. AtRest
  <2>1. ServesGroup(o)
    BY <1>2 DEF ServesGroup
  <2> QED BY <1>1, <2>1, GroupHandlerTurn DEF Turn
<1>5. ASSUME NEW i \in Ids
      PROVE  /\ scenarios'[i] = None <=> scenarios[i] = None
             /\ scenarios[i] # None =>
                  /\ scenarios[i] \in Scenario
                  /\ scenarios'[i].group = IF scenarios[i].group = g THEN None ELSE scenarios[i].group
                  /\ scenarios'[i].name = scenarios[i].name
                  /\ scenarios'[i].active = scenarios[i].active
                  /\ scenarios'[i].repeat = scenarios[i].repeat
                  /\ scenarios'[i].trig = scenarios[i].trig
  <2>1. CASE i \notin Members(g)
    <3>1. scenarios'[i] = scenarios[i]
      BY <2>1 DEF ClearGroup
    <3> QED BY <2>1, <3>1 DEF Members, Typed, TypeOK
  <2>2. CASE i \in Members(g)
    <3>1. scenarios'[i] = [scenarios[i] EXCEPT !.group = None]
      BY <1>2, <2>2 DEF ClearGroup
    <3>2. scenarios[i] \in Scenario /\ scenarios[i] # None /\ scenarios[i].group = g
      BY <2>2 DEF Members, Typed, TypeOK
    <3>3. scenarios'[i] \in Scenario
      BY <3>1, <3>2 DEF Scenario
    <3> QED BY <3>1, <3>2, <3>3, NoneAssumption DEF Scenario
  <2> QED BY <2>1, <2>2
<1>6. ASSUME NEW i \in Ids
      PROVE  /\ Runs(scenarios'[i]) <=> Runs(scenarios[i])
             /\ Refused(scenarios'[i]) <=> Refused(scenarios[i])
             /\ scenarios[i] # None => QuotaOf(scenarios'[i]) = QuotaOf(scenarios[i])
  BY <1>5 DEF Runs, Refused, Scheduled, HasCron, QuotaOf
<1>7. AtRest'
  <2>1. \A i \in Ids : Runs(scenarios[i])' <=> Runs(scenarios[i])
    BY <1>6 DEF Runs, Scheduled, HasCron
  <2>2. \A i \in Ids : Refused(scenarios[i])' <=> Refused(scenarios[i])
    BY <1>6 DEF Refused, Scheduled, HasCron
  <2>3. \A i \in Ids : scenarios[i] # None => QuotaOf(scenarios[i])' = QuotaOf(scenarios[i])
    BY <1>6 DEF QuotaOf
  <2>4. \A i \in Ids : Runs(scenarios[i]) => scenarios[i] # None
    BY DEF Runs, Scheduled
  <2>5. NamesUnique'
    BY <1>4, <1>5 DEF AtRest, NamesUnique
  <2>6. \A m \in Names, i \in Ids :
          jobs'[m] = i <=> Runs(scenarios[i])' /\ scenarios'[i].name = m
    BY <1>2, <1>4, <1>5, <2>1, <2>4 DEF AtRest
  <2>7. \A i \in Ids :
          /\ ~Refused(scenarios[i])'
          /\ quota'[i] >= 0
          /\ scenarios'[i] # None /\ scenarios'[i].active => quota'[i] = QuotaOf(scenarios[i])'
    BY <1>2, <1>4, <1>5, <2>2, <2>3 DEF AtRest
  <2> QED BY <2>5, <2>6, <2>7 DEF AtRest
<1>8. \A h \in Groups : Members(h)' = IF h = g THEN {} ELSE Members(h)
  <2>1. ASSUME NEW h \in Groups, NEW i \in Ids
        PROVE  (i \in Members(h))' <=> h # g /\ i \in Members(h)
    BY <1>5, <2>1, NoneAssumption DEF Members
  <2> QED BY <2>1 DEF Members
<1>9. Moves(proc[p])'
  <2>1. Members(proc[p].leave)' = {}
    BY <1>2, <1>3, <1>8 DEF Members
  <2> QED BY <1>2, <1>3, <2>1 DEF Moves, InGroups
<1>10. Counted(proc[p])'
  <2>1. \A h \in Groups : groups[h] >= Missing /\ Stored(h) = Cardinality(Members(h))
    BY <1>1, <1>2, CountsSettled DEF InGroups
  <2>2. ASSUME NEW h \in Groups
        PROVE  /\ groups'[h] >= Missing
               /\ h # g => Stored(h)' = Cardinality(Members(h)') + 0
    BY <1>2, <1>8, <2>1, MembersFinite DEF Stored
  <2>3. \A h \in Groups : Owed(proc[p], h)' = 0
    BY <1>3 DEF Owed, InGroups
  <2> QED BY <1>3, <2>2, <2>3 DEF Counted
<1>11. ServesGroup(proc[p])' /\ Fetched(proc[p])'
  BY <1>3 DEF ServesGroup, Fetched
<1> QED BY <1>7, <1>9, <1>10, <1>11, GroupHandlerTurnNext

\* The group that is left without scenarios is deleted.
LEMMA DropGroupTurn ==
  ASSUME Typed, Typed', TurnInv, NEW p \in Procs, DropGroup(p)
  PROVE  NamesUnique' /\ Turn(proc[p])'
<1> DEFINE o == proc[p]
           n == proc'[p]
           g == o.leave
<1>1. /\ NamesUnique /\ Registry(o) /\ Position(o) /\ NoneRefused(o) /\ Moves(o)
      /\ Counted(o) /\ Quotas(o) /\ Fetched(o) /\ o \in Op /\ Shape(o)
  BY TurnParts
<1>2. /\ o.pc = "drop" /\ o.id = None /\ g \in Groups /\ o.queue = {}
      /\ o.count = groups[g] /\ Members(g) = {} /\ n = Done(o) /\ UNCHANGED <<scenarios, jobs, quota>>
  BY <1>1 DEF DropGroup, Typed, TypeOK, Position, Shape, Moves
<1>3. groups' = [groups EXCEPT ![g] = Missing]
  BY <1>1, <1>2 DEF DropGroup, Counted, Stale, Missing
<1>4. AtRest
  <2>1. ServesGroup(o)
    BY <1>2 DEF ServesGroup
  <2> QED BY <1>1, <2>1, GroupHandlerTurn DEF Turn
<1>5. \A h \in Groups : groups'[h] >= Missing /\ Stored(h)' = Cardinality(Members(h)')
  <2>1. \A h \in Groups : Owed(o, h) = 0 /\ Members(h)' = Members(h)
    BY <1>2 DEF Owed, InGroups, Members
  <2>2. ASSUME NEW h \in Groups, h # g
        PROVE  groups'[h] >= Missing /\ Stored(h)' = Cardinality(Members(h)')
    <3>1. groups'[h] = groups[h] /\ Stored(h)' = Stored(h)
      BY <1>3, <2>2 DEF Stored, Typed, TypeOK
    <3>2. groups[h] >= Missing /\ Stored(h) = Cardinality(Members(h)) + 0
      BY <1>1, <2>1, <2>2 DEF Counted
    <3> QED BY <2>1, <3>1, <3>2, MembersFinite
  <2>3. \A h \in Groups : h = g => groups'[h] = Missing /\ Stored(h)' = 0
    BY <1>2, <1>3 DEF Stored, Typed, TypeOK
  <2>4. \A h \in Groups : h = g => Cardinality(Members(h)') = 0
    BY <1>2, <2>1, FS_EmptySet
  <2> QED BY <2>2, <2>3, <2>4 DEF Missing
<1>6. Rested'
  <2>1. NamesUnique'
    BY <1>1, <1>2 DEF NamesUnique
  <2> QED BY <1>2, <1>4, <1>5, <2>1 DEF AtRest, Rested, Agreed
<1>7. Plain(n) /\ n.queue = o.queue
  BY <1>1, <1>2, DonePlain
<1> QED BY <1>2, <1>6, <1>7, EndTurn

-----------------------------------------------------------------------------
(* Executions.                                                             *)

\* A tick or a device event fetches active scenarios, a condition is not met.
LEMMA FetchTurn ==
  ASSUME Typed, Typed', TurnInv, NEW p \in Procs,
         \/ \E m \in Names : Fire(p, m)
         \/ DeviceEvent(p)
         \/ \E e \in proc[p].queue : SkipExecution(p, e)
  PROVE  NamesUnique' /\ Turn(proc[p])'
<1> DEFINE o == proc[p]
           n == proc'[p]
<1>1. /\ o.pc \in {"idle", "evaluate"} /\ UNCHANGED <<scenarios, groups, jobs, quota>>
      /\ o \in Op /\ n \in Op
  BY DEF Fire, DeviceEvent, SkipExecution, Typed, TypeOK
<1>2. Plain(o) /\ Rested /\ Current(o.queue)
  BY <1>1, RestingPlain DEF TurnInv
<1>3. Rested'
  BY <1>1, <1>2, AgreedStays DEF Rested
<1>4. ASSUME NEW m \in Names, Fire(p, m)
      PROVE  Plain(n) /\ \A e \in n.queue : scenarios[e.id] = e.doc /\ e.doc.active
  <2> DEFINE e == [id |-> jobs[m], doc |-> scenarios[jobs[m]]]
  <2>1. jobs[m] \in Ids /\ Runs(scenarios[jobs[m]])
    <3>1. jobs[m] \in Ids
      BY <1>4 DEF Fire, Typed, TypeOK
    <3> QED BY <1>2, <3>1 DEF Rested, Agreed
  <2>2. n = [Idle EXCEPT !.pc = "evaluate", !.queue = {e}]
    BY <1>4 DEF Fire, Goto, Typed, TypeOK
  <2>3. e.id = jobs[m] /\ e.doc = scenarios[jobs[m]]
    OBVIOUS
  <2> HIDE DEF e
  <2>4. n.pc = "evaluate" /\ n.id = None /\ n.leave = None /\ n.join = None /\ n.queue = {e}
    BY <2>2 DEF Idle
  <2>5. n.queue \in SUBSET Entry
    BY <1>1 DEF Op
  <2> QED BY <2>1, <2>3, <2>4, <2>5 DEF Plain, Runs, Scheduled
<1>5. ASSUME DeviceEvent(p)
      PROVE  Plain(n) /\ \A e \in n.queue : scenarios[e.id] = e.doc /\ e.doc.active
  <2> DEFINE T == {i \in Ids : scenarios[i] # None /\ scenarios[i].active /\ HasDevice(scenarios[i])}
             Q == {[id |-> i, doc |-> scenarios[i]] : i \in T}
  <2>1. n = [Idle EXCEPT !.pc = "evaluate", !.queue = Q]
    BY <1>5 DEF DeviceEvent, Goto, Typed, TypeOK
  <2>2. \A e \in Q : scenarios[e.id] = e.doc /\ e.doc.active
    OBVIOUS
  <2> HIDE DEF Q
  <2>3. n.pc = "evaluate" /\ n.id = None /\ n.leave = None /\ n.join = None /\ n.queue = Q
    BY <2>1 DEF Idle
  <2>4. n.queue \in SUBSET Entry
    BY <1>1 DEF Op
  <2> QED BY <2>2, <2>3, <2>4 DEF Plain
<1>6. ASSUME NEW e \in o.queue, SkipExecution(p, e)
      PROVE  Plain(n) /\ \A f \in n.queue : scenarios[f.id] = f.doc /\ f.doc.active
  <2> DEFINE Q == o.queue \ {e}
             r == [o EXCEPT !.queue = Q]
  <2>1. n = Done(r)
    BY <1>6 DEF SkipExecution, Goto, Typed, TypeOK
  <2>2. Q \in SUBSET Entry /\ Q \subseteq o.queue
    BY <1>1 DEF Op
  <2> HIDE DEF Q
  <2>3. r \in Op /\ r.queue = Q
    BY <1>1, <2>2 DEF Op
  <2>4. Plain(n) /\ n.queue = Q
    BY <2>1, <2>3, DonePlain
  <2> QED BY <1>2, <2>2, <2>4 DEF Current
<1>7. Plain(n) /\ \A e \in n.queue : scenarios'[e.id] = e.doc /\ e.doc.active
  BY <1>1, <1>4, <1>5, <1>6
<1> QED BY <1>3, <1>7, EndTurn

\* A triggered scenario is executed; the execution is still to be counted.
LEMMA ExecuteTurn ==
  ASSUME Typed, Typed', TurnInv, NEW p \in Procs, NEW e \in proc[p].queue, Execute(p, e)
  PROVE  NamesUnique' /\ Turn(proc[p])'
<1> DEFINE o == proc[p]
           n == proc'[p]
           s == scenarios[e.id]
           Q == o.queue \ {e}
           rest == [o EXCEPT !.queue = Q]
<1>1. o.pc = "evaluate" /\ UNCHANGED <<scenarios, groups, jobs>> /\ o \in Op /\ n \in Op
  BY DEF Execute, Typed, TypeOK
<1>2. Plain(o) /\ Rested /\ Current(o.queue) /\ NamesUnique
  BY <1>1, RestingPlain DEF TurnInv
<1>3. /\ e \in Entry /\ e.id \in Ids /\ s = e.doc /\ s \in Scenario /\ s # None /\ s.active
      /\ quota[e.id] = QuotaOf(s) /\ \A i \in Ids : quota[i] >= 0
  <2>1. e \in Entry
    BY <1>1 DEF Op
  <2> QED BY <1>2, <2>1, NoneAssumption DEF Current, Entry, Rested, Agreed
<1>4. Q \in SUBSET Entry /\ \A f \in Q : f \in o.queue /\ f # e
  BY <1>1 DEF Op
<1>5. \A f \in Q : scenarios'[f.id] = f.doc /\ f.doc.active /\ f.id # e.id
  <2>1. \A f \in Q : f.id = e.id => f = e
    BY <1>2, <1>3, <1>4 DEF Current, Entry
  <2> QED BY <1>1, <1>2, <1>4, <2>1 DEF Current
<1> HIDE DEF Q
<1>6. rest \in Op /\ rest.queue = Q /\ rest.leave = o.leave /\ rest.join = o.join
  BY <1>1, <1>4 DEF Op
<1>7. CASE e.doc.repeat \notin 1..MaxRepeat
  <2>1. n = Done(rest)
    BY <1>7 DEF Execute, Goto, Typed, TypeOK, Q
  <2>2. quota' = quota
    <3>1. quota[e.id] = Unlimited
      BY <1>3, <1>7 DEF QuotaOf
    <3> QED BY <1>3, <3>1 DEF Execute, Typed, TypeOK
  <2>3. Rested'
    BY <1>1, <1>2, <2>2, AgreedStays DEF Rested
  <2>4. Plain(n) /\ n.queue = Q
    BY <1>6, <2>1, DonePlain
  <2> QED BY <1>5, <2>3, <2>4, EndTurn
<1>8. CASE e.doc.repeat \in 1..MaxRepeat
  <2> DEFINE d == Decrement(e.doc)
             k == s.repeat - 1
  <2>1. n = [rest EXCEPT !.pc = "read", !.id = e.id, !.dto = d]
    BY <1>8 DEF Execute, Goto, Typed, TypeOK, Q
  <2> HIDE DEF d
  <2>2. /\ n.pc = "read" /\ n.id = e.id /\ n.dto = d /\ n.leave = None /\ n.join = None
        /\ n.queue = Q
    <3>1. o.leave = None /\ o.join = None
      BY <1>2 DEF Plain
    <3> HIDE DEF rest
    <3> QED BY <1>6, <2>1, <3>1 DEF Op
  <2>3. quota' = [quota EXCEPT ![e.id] = k] /\ k \in Int /\ k >= 0
    <3>1. quota[e.id] = s.repeat /\ s.repeat \in 1..MaxRepeat
      BY <1>3, <1>8 DEF QuotaOf
    <3>2. s.repeat # Unlimited /\ ~(s.repeat <= 0) /\ k \in Int /\ k >= 0
      BY <3>1, BoundAssumption DEF Unlimited
    <3> QED BY <3>1, <3>2 DEF Execute
  <2>4. ~InGroups(n) /\ ~Saved(n) /\ ~HoldsOld(n) /\ Counting(n)
    BY <2>2 DEF InGroups, Saved, HoldsOld, Counting
  <2>5. Registry(proc[p])'
    <3>1. \A i \in Ids : Registered(proc[p], i)' = scenarios[i]
      BY <1>1, <2>2 DEF Registered, Saved, InGroups
    <3> QED BY <1>1, <1>2, <3>1 DEF Registry, Rested, Agreed
  <2>6. Position(proc[p])'
    BY <1>1, <1>3, <1>8, <2>2, <2>4 DEF Position, d
  <2>7. NoneRefused(proc[p])' /\ NamesUnique'
    BY <1>1, <1>2 DEF NoneRefused, NamesUnique, Rested
  <2>8. Moves(proc[p])'
    BY <2>2 DEF Moves, InGroups
  <2>9. Counted(proc[p])'
    <3>1. \A g \in Groups : /\ groups[g] >= Missing
                            /\ Stored(g) = Cardinality(Members(g)) + 0
      BY <1>2, MembersFinite DEF Rested, Agreed
    <3>2. ASSUME NEW g \in Groups
          PROVE  /\ Stored(g)' = Stored(g) /\ Members(g)' = Members(g) /\ groups'[g] = groups[g]
                 /\ Owed(proc[p], g)' = 0
      BY <1>1, <2>2 DEF Stored, Members, Owed, InGroups
    <3> QED BY <3>1, <3>2 DEF Counted
  <2>10. Quotas(proc[p])'
    <3>1. Counting(proc[p])' /\ n.pc = "read" /\ n.id = e.id
      BY <2>2, <2>4 DEF Counting
    <3>2. \A i \in Ids : quota'[i] = IF i = e.id THEN k ELSE quota[i]
      BY <2>3 DEF Typed, TypeOK
    <3>3. \A i \in Ids : /\ quota[i] >= 0 /\ scenarios'[i] = scenarios[i]
                         /\ scenarios[i] # None /\ scenarios[i].active => quota[i] = QuotaOf(scenarios[i])
      BY <1>1, <1>2 DEF Rested, Agreed
    <3>4. \A i \in Ids : i = e.id => scenarios'[i].repeat - 1 = k
      BY <1>1
    <3> HIDE DEF k
    <3> QED BY <2>3, <3>1, <3>2, <3>3, <3>4 DEF Quotas
  <2>11. Fetched(proc[p])'
    BY <1>5, <2>2 DEF Fetched
  <2> QED BY <2>5, <2>6, <2>7, <2>8, <2>9, <2>10, <2>11 DEF Turn
<1> QED BY <1>7, <1>8

-----------------------------------------------------------------------------
(* The theorems.                                                           *)

\* The hub boots at rest.
LEMMA InitTurn == Init => TurnInv
<1> SUFFICES ASSUME Init PROVE TurnInv
  OBVIOUS
<1>1. scenarios \in [Ids -> Scenario \cup {None}]
  BY InitTyped DEF Typed, TypeOK
<1>2. \A i \in Ids : ~Refused(scenarios[i])
  BY DEF Init, Refused, Scheduled
<1>3. DistinctNames /\ NamesUnique
  BY DEF Init, DistinctNames, NameTaken, NamesUnique
<1>4. \A m \in Names, i \in Ids : jobs[m] = i <=> Runs(scenarios[i]) /\ scenarios[i].name = m
  <2>1. /\ \A i \in Ids : Scheduled(scenarios[i]) => jobs[scenarios[i].name] = i
        /\ \A m \in Names : jobs[m] # None =>
             /\ jobs[m] \in Ids /\ Scheduled(scenarios[jobs[m]]) /\ scenarios[jobs[m]].name = m
    BY <1>1, <1>3, JobsOfExact DEF Init
  <2>2. \A i \in Ids : Runs(scenarios[i]) <=> Scheduled(scenarios[i])
    BY <1>2 DEF Runs, Refused
  <2> QED BY <2>1, <2>2, NoneAssumption
<1>5. ASSUME NEW g \in Groups
      PROVE  groups[g] >= Missing /\ Stored(g) = Cardinality(Members(g))
  <2>1. groups[g] = IF Members(g) = {} THEN Missing ELSE Cardinality(Members(g))
    BY DEF Init
  <2>2. Cardinality(Members(g)) \in Nat /\ (Members(g) = {} => Cardinality(Members(g)) = 0)
    BY MembersFinite, FS_EmptySet
  <2> QED BY <2>1, <2>2 DEF Missing, Stored
<1>6. ASSUME NEW i \in Ids
      PROVE  /\ quota[i] >= 0
             /\ scenarios[i] # None /\ scenarios[i].active => quota[i] = QuotaOf(scenarios[i])
  <2>1. quota[i] = IF scenarios[i] = None THEN Unlimited ELSE QuotaOf(scenarios[i])
    BY DEF Init
  <2> QED BY <2>1, QuotaPositive, BoundAssumption DEF Unlimited
<1>7. Rested
  BY <1>2, <1>3, <1>4, <1>5, <1>6 DEF Rested, Agreed
<1>8. ASSUME NEW p \in Procs PROVE Turn(proc[p])
  <2>1. Plain(proc[p]) /\ proc[p].queue = {}
    BY DEF Init, Plain, Idle
  <2> QED BY <1>3, <1>7, <2>1, PlainTurn DEF Current
<1> QED BY <1>3, <1>8 DEF TurnInv

\* Every step of the one handler keeps the invariant.
LEMMA NextTurn == Turns /\ Typed /\ TurnInv /\ [Next]_vars => TurnInv'
<1> SUFFICES ASSUME Turns, Typed, TurnInv, [Next]_vars PROVE TurnInv'
  OBVIOUS
<1>1. Typed'
  BY NextTyped
<1>2. PICK p : Procs = {p}
  BY DEF Turns
<1>3. ~Restart
  BY DEF Turns, Restart
<1>4. CASE Start(p)
  BY <1>1, <1>2, <1>4, StartAddTurn, StartUpdateTurn, StartRemoveTurn, StartGroupTurn,
     FetchTurn DEF Start, TurnInv
<1>5. CASE Continue(p)
  BY <1>1, <1>2, <1>5, InsertTurn, ScheduleAddedTurn, ReadCountedTurn, SaveUpdateTurn,
     RescheduleTurn, RollbackTurn, RescheduleOldTurn, RemoveAddedTurn, DeleteTurn,
     UnscheduleTurn, GroupReadTurn, GroupSaveTurn, ClearGroupTurn, DropGroupTurn,
     ExecuteTurn, FetchTurn DEF Continue, TurnInv
<1>6. CASE UNCHANGED vars
  <2>1. UNCHANGED <<scenarios, groups, jobs, proc, quota>>
    BY <1>6 DEF vars
  <2>2. \A o, i : Registered(o, i)' = Registered(o, i)
    BY <2>1 DEF Registered
  <2>3. \A g : Members(g)' = Members(g) /\ Stored(g)' = Stored(g)
    BY <2>1 DEF Members, Stored
  <2>4. \A m, i : NameTaken(m, i)' = NameTaken(m, i)
    BY <2>1 DEF NameTaken
  <2>5. NamesUnique' = NamesUnique
    BY <2>1 DEF NamesUnique
  <2>6. ASSUME NEW q \in Procs PROVE Turn(proc[q])'
    <3> DEFINE o == proc[q]
    <3>1. /\ NamesUnique /\ Registry(o) /\ Position(o) /\ NoneRefused(o) /\ Moves(o)
          /\ Counted(o) /\ Quotas(o) /\ Fetched(o) /\ o \in Op /\ Shape(o)
      BY TurnParts
    <3>2. Registry(proc[q])' /\ NoneRefused(proc[q])' /\ Quotas(proc[q])' /\ Fetched(proc[q])'
      BY <2>1, <2>2, <3>1 DEF Registry, NoneRefused, Quotas, Fetched
    <3>3. Position(proc[q])'
      BY <2>1, <2>4, <3>1 DEF Position
    <3>4. Moves(proc[q])' /\ Counted(proc[q])'
      BY <2>1, <2>3, <3>1 DEF Moves, Counted, Owed
    <3> QED BY <3>2, <3>3, <3>4 DEF Turn
  <2> QED BY <2>5, <2>6 DEF TurnInv
<1> QED BY <1>2, <1>3, <1>4, <1>5, <1>6 DEF Next

\* The inductive invariant holds in every behaviour of handlers that take turns.
LEMMA AlwaysTurn == ASSUME Turns PROVE Spec => [](Typed /\ TurnInv)
<1>1. Init => Typed /\ TurnInv
  BY InitTyped, InitTurn
<1>2. Typed /\ TurnInv /\ [Next]_vars => (Typed /\ TurnInv)'
  BY NextTyped, NextTurn
<1>3. QED BY <1>1, <1>2, PTL DEF Spec

\* What the invariant says when no handler is in progress.
LEMMA QuietRested == Turns /\ Typed /\ TurnInv /\ Quiet => Rested
<1> SUFFICES ASSUME Turns, Typed, TurnInv, Quiet PROVE Rested
  OBVIOUS
<1>1. PICK p \in Procs : proc[p] \in Op /\ proc[p].pc = "idle" /\ NamesUnique /\ Turn(proc[p])
  BY DEF Turns, Typed, TypeOK, TurnInv, Quiet
<1> QED BY <1>1, RestingPlain

\* What follows for schedules, jobs and counts.
LEMMA QuietCorrect == Turns /\ Typed /\ TurnInv => NoMissedSchedule /\ NoZombieJob /\ CountsExact
<1> SUFFICES ASSUME Turns, Typed, TurnInv PROVE NoMissedSchedule /\ NoZombieJob /\ CountsExact
  OBVIOUS
<1>1. ASSUME Quiet, NEW i \in Ids, Scheduled(scenarios[i]) PROVE OwnsJob(i)
  <2>1. Rested
    BY <1>1, QuietRested
  <2>2. Runs(scenarios[i]) /\ scenarios[i].name \in Names
    BY <1>1, <2>1 DEF Rested, Refused, Runs, Scheduled, Typed, TypeOK, Scenario
  <2> QED BY <2>1, <2>2 DEF Rested, Agreed, OwnsJob
<1>2. ASSUME Quiet, NEW n \in Names, jobs[n] # None
      PROVE  Scheduled(scenarios[jobs[n]]) /\ scenarios[jobs[n]].name = n
  <2>1. Rested /\ jobs[n] \in Ids
    BY <1>2, QuietRested DEF Typed, TypeOK
  <2> QED BY <2>1 DEF Rested, Agreed, Runs
<1>3. ASSUME Quiet, NEW g \in Groups
      PROVE  IF groups[g] = Missing THEN Members(g) = {} ELSE groups[g] = Cardinality(Members(g))
  <2>1. Stored(g) = Cardinality(Members(g))
    BY <1>3, QuietRested DEF Rested, Agreed
  <2>2. groups[g] = Missing => Cardinality(Members(g)) = 0
    BY <2>1 DEF Stored
  <2> QED BY <2>1, <2>2, MembersFinite, FS_EmptySet DEF Stored
<1> QED BY <1>1, <1>2, <1>3 DEF NoMissedSchedule, NoZombieJob, CountsExact

\* However users add, rename, retrigger, activate and remove scenarios, whatever
\* schedules are refused and whatever groups they move between: when handlers
\* take turns, every active scenario with a schedule has its job.
THEOREM TurnsSchedule == ASSUME Turns PROVE Spec => []NoMissedSchedule
  BY QuietCorrect, AlwaysTurn, PTL

\* Under the same conditions no job is left over: each belongs to an active
\* scenario of that name with a schedule.
THEOREM TurnsNoZombies == ASSUME Turns PROVE Spec => []NoZombieJob
  BY QuietCorrect, AlwaysTurn, PTL

\* Under the same conditions scenariosCount is exact for every group, and a group
\* without a document has no scenarios, through every move, refusal and deletion.
THEOREM TurnsCount == ASSUME Turns PROVE Spec => []CountsExact
  BY QuietCorrect, AlwaysTurn, PTL

\* Under the same conditions a scenario with repeatTimes is executed at most that
\* many times before a user grants more, by ticks and by device events together.
THEOREM TurnsQuota == ASSUME Turns PROVE Spec => []QuotaRespected
<1>1. Turns /\ TurnInv => QuotaRespected
  BY DEF Turns, TurnInv, Turn, Quotas, QuotaRespected, Exceeded
<1>2. QED BY <1>1, AlwaysTurn, PTL

\* Under the same conditions whatever is fetched for an execution is active: no
\* job ticks for a scenario that was deactivated, and none refetches it.
THEOREM TurnsFetch == ASSUME Turns PROVE Spec => []FetchedActive
<1>1. TurnInv => FetchedActive
  BY DEF TurnInv, Turn, Fetched, FetchedActive
<1>2. QED BY <1>1, AlwaysTurn, PTL

\* Under the same conditions an update whose schedule is refused leaves an active
\* scenario as it was, document and job, if it submits no repeatTimes with it.
THEOREM TurnsRollback == ASSUME Turns, RefusedAlone PROVE Spec => RollbackRestores
<1> DEFINE Restores == \A p \in Procs :
       proc[p].pc = "reschedule" /\ proc'[p].pc = "idle" /\ proc[p].old.active =>
         /\ scenarios'[proc[p].id] = proc[p].old
         /\ Scheduled(proc[p].old) => jobs'[proc[p].old.name] = proc[p].id
<1>1. Typed /\ TurnInv /\ [Next]_vars => [Restores]_vars
  <2> SUFFICES ASSUME Typed, TurnInv, Next, NEW p \in Procs,
                      proc[p].pc = "reschedule", proc'[p].pc = "idle", proc[p].old.active
               PROVE  /\ scenarios'[proc[p].id] = proc[p].old
                      /\ Scheduled(proc[p].old) => jobs'[proc[p].old.name] = proc[p].id
    OBVIOUS
  <2>1. Typed'
    BY NextTyped
  <2>2. Procs = {p} /\ ~Restart
    BY DEF Turns, Restart
  <2>3. Start(p) \/ Continue(p)
    BY <2>2 DEF Next
  <2>4. RescheduleOld(p)
    BY <2>3 DEF Start, Continue, StartAdd, StartUpdate, StartRemove, StartCreateGroup,
                StartDeleteGroup, Fire, DeviceEvent, Insert, ScheduleAdded, ReadCounted,
                SaveUpdate, Reschedule, Rollback, RemoveAdded, Delete, Unschedule,
                GroupRead, GroupSave, ClearGroup, DropGroup, Execute, SkipExecution
  <2> QED BY <2>1, <2>4, RescheduleOldTurn
<1>2. Spec => [](Typed /\ TurnInv)
  BY AlwaysTurn
<1> QED BY <1>1, <1>2, PTL DEF Spec, RollbackRestores
===============================================================================
