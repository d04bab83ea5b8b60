------------------------- MODULE DeviceConfigs_proofs -------------------------
(* Proofs about DeviceConfigs: type correctness for any number of overlapping  *)
(* synchronisations, and, when they do not overlap, that the stored            *)
(* configurations are those of the files once every edit has been handled.     *)
EXTENDS DeviceConfigs, TLAPS

\* The constant synchronisation records are of the right type.
LEMMA ConstantRecords ==
    /\ Nothing \in [Keys -> Docs]
    /\ Idle \in SyncState /\ Starting \in SyncState
    /\ Idle.pc = "idle" /\ Starting.pc = "list" /\ NoLookup.pc = "idle"
    /\ EmptyCache \in [Keys -> Docs \cup {NotCached}]
    /\ NoLookup \in [pc : {"idle", "find", "set"}, key : Keys \cup {NoDoc}, val : Docs]
  BY DEF Nothing, Idle, Starting, SyncState, Docs, EmptyCache, NoLookup

\* A parsed file is a document or none.
LEMMA ParsedType == ASSUME NEW f PROVE Parsed(f) \in Docs
  BY DEF Parsed, Docs

\* A step keeps the types.
LEMMA TypeStep == TypeOK /\ [Next]_vars => TypeOK'
<1> SUFFICES ASSUME TypeOK, [Next]_vars PROVE TypeOK'
  OBVIOUS
<1> USE Bounds, ConstantRecords
<1>1. ASSUME NEW k \in Keys, NEW file \in Files, Edit(k, file) PROVE TypeOK'
  BY <1>1 DEF TypeOK, Edit, Files
<1>2. CASE Restart
  <2>1. sync' \in [Tasks -> SyncState]
    BY <1>2 DEF Restart
  <2>2. \A t \in Tasks : sync'[t].pc \notin {"upsert", "abandoned"}
    BY <1>2 DEF Restart
  <2>3. reader' \in [Readers -> [pc : {"idle", "find", "set"}, key : Keys \cup {NoDoc}, val : Docs]]
    BY <1>2 DEF Restart
  <2>4. \A t \in Tasks : sync'[t].pc \in {"upsert", "abandoned"} =>
            \A k \in sync'[t].todo : sync'[t].got[k] # NoDoc
    BY <2>2
  <2>5. cache' \in [Keys -> Docs \cup {NotCached}] /\ crashes' \in 0 .. MaxCrashes
    BY <1>2 DEF TypeOK, Restart
  <2>6. \A r \in Readers : reader'[r].pc = "idle"
    BY <1>2 DEF Restart, NoLookup
  <2> QED BY <1>2, <2>1, <2>3, <2>4, <2>5, <2>6 DEF TypeOK, Restart
<1>3. ASSUME NEW t \in Tasks, TimerFires(t) PROVE TypeOK'
  <2>1. sync' \in [Tasks -> SyncState]
    BY <1>3 DEF TypeOK, TimerFires
  <2>2. \A u \in Tasks : sync'[u].pc \in {"upsert", "abandoned"} => sync'[u] = sync[u]
    BY <1>3 DEF TypeOK, TimerFires
  <2> QED BY <1>3, <2>1, <2>2 DEF TypeOK, TimerFires, bounds
<1>4. ASSUME NEW t \in Tasks, List(t) PROVE TypeOK'
  BY <1>4 DEF TypeOK, List, bounds, SyncState
<1>5. ASSUME NEW t \in Tasks, NEW k \in Keys, Read(t, k) PROVE TypeOK'
  <2> DEFINE left == sync[t].todo \ {k}
             got == [sync[t].got EXCEPT ![k] = Parsed(disk[k])]
             todo == IF left # {} THEN left ELSE {j \in Keys : got[j] # NoDoc}
             pc == IF left # {} THEN "read" ELSE AfterReads(got)
  <2>1. got \in [Keys -> Docs]
    BY ParsedType DEF TypeOK, SyncState
  <2>2. todo \in SUBSET Keys /\ pc \in {"read", "delete", "upsert"}
    BY DEF TypeOK, SyncState, AfterReads
  <2>3. pc = "upsert" => \A j \in todo : got[j] # NoDoc
    BY DEF AfterReads
  <2>4. sync' = [sync EXCEPT ![t] = [pc |-> pc, todo |-> todo, got |-> got]]
    BY <1>5 DEF Read
  <2> HIDE DEF left, got, todo, pc
  <2>5. sync' \in [Tasks -> SyncState]
    BY <2>1, <2>2, <2>4 DEF TypeOK, SyncState
  <2>6. \A u \in Tasks : sync'[u].pc \in {"upsert", "abandoned"} =>
            \A j \in sync'[u].todo : sync'[u].got[j] # NoDoc
    BY <2>1, <2>2, <2>3, <2>4 DEF TypeOK
  <2> QED BY <1>5, <2>5, <2>6 DEF TypeOK, Read, bounds
<1>6. ASSUME NEW t \in Tasks, NEW k \in Keys, Upsert(t, k) PROVE TypeOK'
  BY <1>6 DEF TypeOK, Upsert, bounds, SyncState, AfterUpsert
<1>7. ASSUME NEW t \in Tasks, RemoveStale(t) PROVE TypeOK'
  <2>1. db' \in [Keys -> Docs]
    BY <1>7 DEF TypeOK, RemoveStale, Docs
  <2>2. sync' \in [Tasks -> SyncState]
    BY <1>7 DEF TypeOK, RemoveStale, SyncState
  <2>3. \A u \in Tasks : sync'[u].pc \in {"upsert", "abandoned"} => sync'[u] = sync[u]
    BY <1>7 DEF TypeOK, RemoveStale, SyncState
  <2> QED BY <1>7, <2>1, <2>2, <2>3 DEF TypeOK, RemoveStale, bounds
<1>8. ASSUME NEW t \in Tasks, Finish(t) PROVE TypeOK'
  <2>1. sync' \in [Tasks -> SyncState]
    BY <1>8 DEF TypeOK, Finish
  <2>2. \A u \in Tasks : sync'[u].pc \in {"upsert", "abandoned"} => sync'[u] = sync[u]
    BY <1>8 DEF TypeOK, Finish
  <2> QED BY <1>8, <2>1, <2>2 DEF TypeOK, Finish, bounds
<1>9. ASSUME NEW t \in Tasks, Fail(t) PROVE TypeOK'
  <2>1. CASE /\ sync[t].pc \in {"list", "delete"}
             /\ sync' = [sync EXCEPT ![t] = Idle]
    <3>1. sync' \in [Tasks -> SyncState]
      BY <2>1 DEF TypeOK
    <3>2. \A u \in Tasks : sync'[u].pc \in {"upsert", "abandoned"} => sync'[u] = sync[u]
      BY <2>1 DEF TypeOK
    <3> QED BY <1>9, <3>1, <3>2 DEF TypeOK, Fail
  <2>2. ASSUME sync[t].pc = "upsert", NEW k \in sync[t].todo,
               sync' = [sync EXCEPT ![t] = [pc |-> AfterUpsert("abandoned", sync[t].todo \ {k}),
                                            todo |-> sync[t].todo \ {k}, got |-> sync[t].got]]
        PROVE TypeOK'
    <3>1. AfterUpsert("abandoned", sync[t].todo \ {k}) \in {"abandoned", "idle"}
      BY DEF AfterUpsert
    <3>2. sync' \in [Tasks -> SyncState]
      BY <2>2, <3>1 DEF TypeOK, SyncState
    <3>3. \A u \in Tasks : sync'[u].pc \in {"upsert", "abandoned"} =>
              \A j \in sync'[u].todo : sync'[u].got[j] # NoDoc
      BY <2>2, <3>1 DEF TypeOK, SyncState
    <3> QED BY <1>9, <3>2, <3>3 DEF TypeOK, Fail
  <2> QED BY <1>9, <2>1, <2>2 DEF Fail
<1>10. ASSUME NEW r \in Readers, LookupStep(r) \/ \E k \in Keys : Lookup(r, k) PROVE TypeOK'
  <2>1. CASE \E k \in Keys : Lookup(r, k)
    BY <2>1 DEF TypeOK, Lookup, bounds, Docs
  <2>2. CASE Find(r)
    <3>1. reader[r].key \in Keys /\ db[reader[r].key] \in Docs
      BY <2>2 DEF TypeOK, Find
    <3> QED BY <2>2, <3>1 DEF TypeOK, Find, bounds, Docs
  <2>3. CASE Store(r)
    BY <2>3 DEF TypeOK, Store, bounds
  <2> QED BY <1>10, <2>1, <2>2, <2>3 DEF LookupStep
<1>11. CASE UNCHANGED vars
  BY <1>11 DEF TypeOK, vars
<1> QED BY <1>1, <1>2, <1>3, <1>4, <1>5, <1>6, <1>7, <1>8, <1>9, <1>10, <1>11 DEF Next, SyncStep

\* Whatever overlaps, every variable keeps its type and nothing that failed to
\* parse is upserted (syncToDatabase).
THEOREM TypeCorrect == Spec => []TypeOK
<1>1. Init => TypeOK
  <2> SUFFICES ASSUME Init PROVE TypeOK
    OBVIOUS
  <2>1. sync \in [Tasks -> SyncState]
    BY ConstantRecords DEF Init
  <2>2. \A t \in Tasks : sync[t].pc \notin {"upsert", "abandoned"}
    BY ConstantRecords DEF Init
  <2>3. \A t \in Tasks : sync[t].pc \in {"upsert", "abandoned"} =>
            \A k \in sync[t].todo : sync[t].got[k] # NoDoc
    BY <2>2
  <2>4. reader \in [Readers -> [pc : {"idle", "find", "set"}, key : Keys \cup {NoDoc}, val : Docs]]
    BY ConstantRecords DEF Init
  <2>5. cache \in [Keys -> Docs \cup {NotCached}]
    BY ConstantRecords DEF Init
  <2>6. edits \in 0 .. MaxEdits /\ failures \in 0 .. MaxFailures /\ crashes \in 0 .. MaxCrashes
    BY Bounds DEF Init
  <2>7. \A r \in Readers : reader[r].pc = "idle"
    BY DEF Init, NoLookup
  <2> QED BY <2>1, <2>3, <2>4, <2>5, <2>6, <2>7 DEF Init, TypeOK
<1> QED BY <1>1, TypeStep, PTL DEF Spec

(* --------------------- Synchronisations one at a time --------------------- *)

\* Synchronisation t has yet to read k's file, or carries what the file holds
\* towards the database, or has stored it.
Covered(t, k) ==
    LET s == sync[t] IN
    /\ s.pc = "read" => k \in s.todo \/ s.got[k] = Parsed(disk[k])
    /\ s.pc \in {"upsert", "delete"} => s.got[k] = Parsed(disk[k])
    /\ s.pc = "upsert" => k \in s.todo \/ s.got[k] = NoDoc \/ db[k] = s.got[k]
    /\ s.pc = "delete" => s.got[k] = NoDoc \/ db[k] = s.got[k]
    /\ s.pc \in {"idle", "clear"} => db[k] = Parsed(disk[k])

\* The synchronisation in charge: the boot's until the watcher runs.
InCharge(t) == t \in Tasks /\ (t = Boot <=> ~watching)

\* Only the synchronisation in charge runs, and unless it was given up or a
\* timer promises another one, it covers every key.
Serial ==
    /\ timer => watching
    /\ watching => dir
    /\ \A t \in Tasks : ~InCharge(t) => sync[t].pc = "idle"
    /\ ~dir => \A t \in Tasks : sync[t].pc = "idle"
    /\ \A t \in Tasks : sync[t].pc = "list" => sync[t].got = Nothing
    /\ \A t \in Tasks : sync[t].pc = "abandoned" => missed
    /\ dir /\ ~timer /\ ~missed =>
           \A t \in Tasks : InCharge(t) => \A k \in Keys : Covered(t, k)

\* The boot's synchronisation and the watcher's do not overlap, and with one
\* slot neither do the watcher's: the invariant holds initially and is kept.
LEMMA SerialInit == Init => Serial
<1> SUFFICES ASSUME Init PROVE Serial
  OBVIOUS
<1>1. \A t \in Tasks : sync[t] = IF t = Boot /\ dir THEN Starting ELSE Idle
  BY DEF Init
<1>2. Starting.pc = "list" /\ Starting.got = Nothing /\ Idle.pc = "idle"
  BY DEF Starting, Idle
<1>3. \A t \in Tasks : sync[t].pc = "list" => sync[t].got = Nothing
  BY <1>1, <1>2
<1>4. \A t \in Tasks : sync[t].pc \in {"idle", "list"}
  BY <1>1, <1>2
<1>5. \A t \in Tasks : ~InCharge(t) => sync[t].pc = "idle"
  BY <1>1, <1>2 DEF Init, InCharge
<1>6. ~dir => \A t \in Tasks : sync[t].pc = "idle"
  BY <1>1, <1>2
<1>7. dir => \A t \in Tasks : InCharge(t) => \A k \in Keys : Covered(t, k)
  BY <1>1, <1>2 DEF Init, InCharge, Covered
<1> QED BY <1>3, <1>4, <1>5, <1>6, <1>7 DEF Init, Serial

\* With one slot there is one synchronisation in charge.
LEMMA OneInCharge ==
    ASSUME NEW s, Syncs = {s}, NEW t \in Tasks, NEW u \in Tasks, InCharge(t), InCharge(u)
    PROVE t = u
  BY DEF Tasks, InCharge

\* A synchronisation that runs is the one in charge, and the directory exists.
LEMMA RunningInCharge ==
    ASSUME Serial, NEW t \in Tasks, sync[t].pc # "idle"
    PROVE InCharge(t) /\ dir
  BY DEF Serial

\* A step of the synchronisation in charge that leaves the watcher, the timer
\* and the files alone keeps the invariant if it keeps the coverage.
LEMMA InChargeStep ==
    ASSUME NEW s, Syncs = {s}, TypeOK, Serial, NEW t \in Tasks, sync[t].pc # "idle",
           UNCHANGED <<dir, disk, watching, timer, missed>>,
           NEW r, sync' = [sync EXCEPT ![t] = r],
           r.pc = "list" => r.got = Nothing,
           r.pc = "abandoned" => missed,
           ~timer /\ ~missed => \A k \in Keys : Covered(t, k)'
    PROVE Serial'
<1>1. InCharge(t) /\ dir
  BY RunningInCharge
<1>2. \A u \in Tasks : u # t => sync'[u] = sync[u]
  BY DEF TypeOK
<1>3. sync'[t] = r
  BY DEF TypeOK
<1>4. \A u \in Tasks : InCharge(u)' <=> InCharge(u)
  BY DEF InCharge
<1>5. \A u \in Tasks : InCharge(u)' => u = t
  BY <1>1, <1>4, OneInCharge
<1>6. \A u \in Tasks : ~InCharge(u)' => sync'[u].pc = "idle"
  BY <1>1, <1>2, <1>4 DEF Serial
<1>7. \A u \in Tasks : sync'[u].pc = "list" => sync'[u].got = Nothing
  BY <1>2, <1>3 DEF Serial
<1>8. \A u \in Tasks : sync'[u].pc = "abandoned" => missed'
  BY <1>2, <1>3 DEF Serial
<1>9. ~timer' /\ ~missed' => \A u \in Tasks : InCharge(u)' => \A k \in Keys : Covered(u, k)'
  BY <1>5
<1> QED BY <1>1, <1>6, <1>7, <1>8, <1>9 DEF Serial

\* Every step keeps the invariant when the watcher has one slot.
LEMMA SerialStep ==
    ASSUME NEW s, Syncs = {s}
    PROVE TypeOK /\ Serial /\ [Next]_vars => Serial'
<1> SUFFICES ASSUME TypeOK, Serial, [Next]_vars PROVE Serial'
  OBVIOUS
<1>1. ASSUME NEW k \in Keys, NEW file \in Files, Edit(k, file) PROVE Serial'
  <2>1. \A t \in Tasks : InCharge(t)' <=> InCharge(t)
    BY <1>1 DEF Edit, InCharge
  <2>2. ASSUME dir', ~timer', ~missed', NEW t \in Tasks, InCharge(t), NEW j \in Keys
        PROVE Covered(t, j)'
    <3>1. ~watching /\ ~timer /\ ~missed /\ BootReads(k)
      BY <1>1, <2>2 DEF Edit, Serial
    <3>2. t = Boot /\ Covered(t, j)
      BY <1>1, <2>2, <3>1 DEF InCharge, Serial, Edit
    <3>3. CASE j = k
      BY <1>1, <3>1, <3>2, <3>3 DEF Edit, BootReads, Covered
    <3>4. CASE j # k
      <4>1. disk'[j] = disk[j]
        BY <1>1, <3>4 DEF Edit, TypeOK
      <4> QED BY <1>1, <3>2, <4>1 DEF Edit, Covered
    <3> QED BY <3>3, <3>4
  <2>3. timer' => watching'
    BY <1>1 DEF Edit
  <2> QED BY <1>1, <2>1, <2>2, <2>3 DEF Edit, Serial
<1>2. CASE Restart
  <2>1. \A t \in Tasks : sync'[t] = IF t = Boot /\ dir THEN Starting ELSE Idle
    BY <1>2 DEF Restart
  <2>2. ~watching' /\ ~timer' /\ dir' = dir
    BY <1>2 DEF Restart
  <2>3. Starting.pc = "list" /\ Starting.got = Nothing /\ Idle.pc = "idle"
    BY DEF Starting, Idle
  <2>4. \A t \in Tasks : /\ sync'[t].pc = "list" => sync'[t].got = Nothing
                         /\ sync'[t].pc # "abandoned"
                         /\ ~InCharge(t)' => sync'[t].pc = "idle"
                         /\ ~dir' => sync'[t].pc = "idle"
    BY <2>1, <2>2, <2>3 DEF InCharge
  <2>5. dir' => \A t \in Tasks : InCharge(t)' => \A k \in Keys : Covered(t, k)'
    BY <2>1, <2>2, <2>3 DEF InCharge, Covered
  <2> QED BY <2>2, <2>4, <2>5 DEF Serial
<1>3. ASSUME NEW t \in Tasks, TimerFires(t) PROVE Serial'
  <2>1. watching /\ dir /\ InCharge(t) /\ t # Boot /\ t \in Syncs
    BY <1>3, BootApart DEF TimerFires, Serial, InCharge
  <2>2. \A u \in Tasks : InCharge(u)' <=> InCharge(u)
    BY <1>3 DEF TimerFires, InCharge
  <2>3. \A u \in Tasks : u # t => ~InCharge(u)' /\ sync'[u] = sync[u] /\ sync[u].pc = "idle"
    BY <1>3, <2>1, <2>2, OneInCharge DEF TimerFires, TypeOK, Serial
  <2>4. sync'[t] = Starting /\ Starting.pc = "list" /\ Starting.got = Nothing
    BY <1>3 DEF TimerFires, TypeOK, Starting
  <2>5. \A k \in Keys : Covered(t, k)'
    BY <2>4 DEF Covered
  <2> QED BY <1>3, <2>1, <2>2, <2>3, <2>4, <2>5 DEF TimerFires, Serial
<1>4. ASSUME NEW t \in Tasks, List(t) PROVE Serial'
  <2> DEFINE listed == {k \in Keys : disk[k] # NoFile}
             r == [sync[t] EXCEPT !.pc = IF listed = {} THEN "delete" ELSE "read",
                                  !.todo = listed]
  <2>1. sync[t] \in SyncState /\ sync[t].got = Nothing
    BY <1>4 DEF List, TypeOK, Serial
  <2>2. r.todo = listed /\ r.got = Nothing /\ r.pc = IF listed = {} THEN "delete" ELSE "read"
    BY <2>1 DEF SyncState
  <2>3. sync' = [sync EXCEPT ![t] = r]
    BY <1>4 DEF List, TypeOK
  <2>4. \A k \in Keys : k \notin listed => Nothing[k] = Parsed(disk[k])
    BY Sentinels DEF Nothing, Parsed
  <2> HIDE DEF listed, r
  <2>5. sync'[t] = r
    BY <2>3 DEF TypeOK
  <2>6. \A k \in Keys : listed = {} => k \notin listed
    OBVIOUS
  <2>7. \A k \in Keys : Nothing[k] = NoDoc
    BY DEF Nothing
  <2>8. disk' = disk
    BY <1>4 DEF List
  <2>9. \A k \in Keys : Covered(t, k)'
    BY <2>2, <2>4, <2>5, <2>6, <2>7, <2>8 DEF Covered
  <2> QED BY <1>4, <2>2, <2>3, <2>9, InChargeStep DEF List
<1>5. ASSUME NEW t \in Tasks, NEW k \in Keys, Read(t, k) PROVE Serial'
  <2> DEFINE left == sync[t].todo \ {k}
             got == [sync[t].got EXCEPT ![k] = Parsed(disk[k])]
             todo == IF left # {} THEN left ELSE {j \in Keys : got[j] # NoDoc}
             pc == IF left # {} THEN "read" ELSE AfterReads(got)
             r == [pc |-> pc, todo |-> todo, got |-> got]
  <2>1. sync[t] \in SyncState
    BY DEF TypeOK
  <2>2. \A j \in Keys : got[j] = IF j = k THEN Parsed(disk[k]) ELSE sync[t].got[j]
    BY <2>1 DEF SyncState
  <2>3. sync' = [sync EXCEPT ![t] = r]
    BY <1>5 DEF Read
  <2>4. pc \in {"read", "upsert", "delete"} /\ (pc = "read" => left # {})
    BY DEF AfterReads
  <2>5. pc = "delete" => \A j \in Keys : got[j] = NoDoc
    BY DEF AfterReads, Nothing
  <2>6. pc = "upsert" => \A j \in Keys : j \in todo \/ got[j] = NoDoc
    BY DEF AfterReads
  <2>7. pc = "read" => todo = sync[t].todo \ {k}
    BY <2>4
  <2>8. pc # "read" => \A j \in Keys : j = k \/ j \notin sync[t].todo
    BY DEF AfterReads
  <2>9. ASSUME ~timer, ~missed, NEW j \in Keys PROVE Covered(t, j)'
    <3>1. sync'[t] = r /\ r.pc = pc /\ r.todo = todo /\ r.got = got
      BY <2>3 DEF TypeOK
    <3>2. Covered(t, j)
      BY <1>5, <2>9, RunningInCharge DEF Read, Serial
    <3> HIDE DEF left, got, todo, pc, r
    <3>3. j \in sync[t].todo \/ sync[t].got[j] = Parsed(disk[j])
      BY <1>5, <3>2 DEF Read, Covered
    <3>4. disk' = disk /\ db' = db
      BY <1>5 DEF Read
    <3>5. pc # "read" => got[j] = Parsed(disk[j])
      BY <2>2, <2>8, <3>3
    <3>6. pc = "read" => j \in todo \/ got[j] = Parsed(disk[j])
      BY <2>2, <2>7, <3>3
    <3> QED BY <2>4, <2>5, <2>6, <3>1, <3>4, <3>5, <3>6 DEF Covered
  <2>10. r.pc \in {"read", "upsert", "delete"}
    BY <2>4
  <2> HIDE DEF r
  <2> QED BY <1>5, <2>3, <2>9, <2>10, InChargeStep DEF Read
<1>6. ASSUME NEW t \in Tasks, NEW k \in Keys, Upsert(t, k) PROVE Serial'
  <2> DEFINE left == sync[t].todo \ {k}
             r == [sync[t] EXCEPT !.todo = left, !.pc = AfterUpsert(sync[t].pc, left)]
  <2>1. sync[t] \in SyncState
    BY DEF TypeOK
  <2>2. r.todo = left /\ r.got = sync[t].got /\ r.pc = AfterUpsert(sync[t].pc, left)
    BY <2>1 DEF SyncState
  <2>3. sync' = [sync EXCEPT ![t] = r]
    BY <1>6 DEF Upsert, TypeOK
  <2> HIDE DEF r
  <2>4. r.pc \in {"upsert", "abandoned", "delete", "idle"}
    BY <1>6, <2>2 DEF AfterUpsert, Upsert
  <2>5. r.pc = "abandoned" => missed
    BY <1>6, <2>2 DEF AfterUpsert, Upsert, Serial
  <2>6. ASSUME ~timer, ~missed, NEW j \in Keys PROVE Covered(t, j)'
    <3>1. sync'[t] = r
      BY <2>3 DEF TypeOK
    <3>2. Covered(t, j) /\ sync[t].pc = "upsert"
      BY <1>6, <2>6, RunningInCharge DEF Upsert, Serial
    <3>3. r.pc = IF left # {} THEN "upsert" ELSE "delete"
      BY <2>2, <3>2 DEF AfterUpsert
    <3>4. db'[k] = sync[t].got[k] /\ (j # k => db'[j] = db[j])
      BY <1>6 DEF Upsert, TypeOK
    <3>5. disk' = disk
      BY <1>6 DEF Upsert
    <3> QED BY <2>2, <3>1, <3>2, <3>3, <3>4, <3>5 DEF Covered
  <2> QED BY <1>6, <2>3, <2>4, <2>5, <2>6, InChargeStep DEF Upsert
<1>7. ASSUME NEW t \in Tasks, RemoveStale(t) PROVE Serial'
  <2> DEFINE r == [sync[t] EXCEPT !.pc = "clear"]
  <2>1. r.pc = "clear"
    BY DEF TypeOK, SyncState
  <2>2. sync' = [sync EXCEPT ![t] = r]
    BY <1>7 DEF RemoveStale, TypeOK
  <2>3. ASSUME ~timer, ~missed, NEW j \in Keys PROVE Covered(t, j)'
    <3>1. sync'[t].pc = "clear"
      BY <2>1, <2>2 DEF TypeOK
    <3>2. Covered(t, j) /\ sync[t].pc = "delete"
      BY <1>7, <2>3, RunningInCharge DEF RemoveStale, Serial
    <3>3. db'[j] = IF sync[t].got[j] = NoDoc THEN NoDoc ELSE db[j]
      BY <1>7 DEF RemoveStale
    <3>4. disk' = disk
      BY <1>7 DEF RemoveStale
    <3> QED BY <3>1, <3>2, <3>3, <3>4 DEF Covered
  <2> HIDE DEF r
  <2> QED BY <1>7, <2>1, <2>2, <2>3, InChargeStep DEF RemoveStale
<1>8. ASSUME NEW t \in Tasks, Finish(t) PROVE Serial'
  <2>1. InCharge(t) /\ dir /\ sync[t].pc = "clear"
    BY <1>8, RunningInCharge DEF Finish
  <2>2. sync'[t].pc = "idle" /\ \A u \in Tasks : u # t => sync'[u] = sync[u] /\ sync[u].pc = "idle"
    BY <1>8, <2>1, OneInCharge, ConstantRecords DEF Finish, TypeOK, Serial
  <2>3. \A u \in Tasks : sync'[u].pc = "idle"
    BY <2>2
  <2>4. ASSUME ~timer', ~missed' PROVE \A u \in Tasks : \A k \in Keys : Covered(u, k)'
    <3>1. \A k \in Keys : Covered(t, k)
      BY <1>8, <2>1, <2>4 DEF Finish, Serial
    <3>2. \A k \in Keys : db'[k] = Parsed(disk'[k])
      BY <1>8, <2>1, <3>1 DEF Finish, Covered
    <3> QED BY <2>3, <3>2 DEF Covered
  <2>5. timer' => watching'
    BY <1>8 DEF Finish, Serial
  <2>6. dir'
    BY <1>8, <2>1 DEF Finish
  <2> QED BY <2>3, <2>4, <2>5, <2>6 DEF Serial
<1>9. ASSUME NEW t \in Tasks, Fail(t) PROVE Serial'
  <2>1. /\ missed' /\ UNCHANGED <<dir, watching, timer>>
        /\ sync[t].pc # "idle"
    BY <1>9 DEF Fail
  <2>2. \A u \in Tasks : InCharge(u)' <=> InCharge(u)
    BY <2>1 DEF InCharge
  <2>3. \A u \in Tasks : u # t => sync'[u] = sync[u]
    BY <1>9 DEF Fail, TypeOK
  <2>4. sync'[t].pc # "list"
    BY <1>9, ConstantRecords DEF Fail, TypeOK, AfterUpsert
  <2>5. InCharge(t) /\ dir
    BY <2>1, RunningInCharge
  <2> QED BY <2>1, <2>2, <2>3, <2>4, <2>5 DEF Serial
<1>10. ASSUME NEW r \in Readers, LookupStep(r) \/ \E k \in Keys : Lookup(r, k) PROVE Serial'
  <2>1. UNCHANGED <<dir, disk, watching, timer, sync, db, missed>>
    BY <1>10 DEF LookupStep, Lookup, Find, Store
  <2> QED BY <2>1 DEF Serial, InCharge, Covered
<1>11. CASE UNCHANGED vars
  BY <1>11 DEF vars, Serial, InCharge, Covered
<1> QED BY <1>1, <1>2, <1>3, <1>4, <1>5, <1>6, <1>7, <1>8, <1>9, <1>10, <1>11 DEF Next, SyncStep

\* When the watcher's synchronisations do not overlap, the stored
\* configurations are those of the files whenever none is under way, unless an
\* edit fell between a boot's reading and the start of the watcher, or one was
\* given up (syncFromDisk, syncToDatabase, scheduleSync).
THEOREM SerialSyncsReflectDisk ==
    ASSUME NEW s, Syncs = {s}
    PROVE Spec => []DiskReflected
<1>1. TypeOK /\ Serial => DiskReflected
  <2> SUFFICES ASSUME TypeOK, Serial, Quiet, ~missed, NEW k \in Keys
               PROVE db[k] = Parsed(disk[k])
    BY DEF DiskReflected
  <2>1. s \in Tasks /\ s # Boot
    BY BootApart DEF Tasks
  <2>2. InCharge(s) /\ sync[s].pc = "idle" /\ dir /\ ~timer
    BY <2>1 DEF InCharge, Quiet, Serial
  <2>3. Covered(s, k)
    BY <2>1, <2>2 DEF Serial
  <2> QED BY <2>2, <2>3 DEF Covered
<1>2. Spec => []TypeOK
  BY TypeCorrect
<1>3. TypeOK /\ Serial /\ [Next]_vars => Serial'
  BY SerialStep
<1> QED BY <1>1, <1>2, <1>3, SerialInit, PTL DEF Spec

(* ----------------------------- The cache --------------------------------- *)

\* A reply that is about to be stored is what the database holds.
RepliesCurrent == \A r \in Readers : reader[r].pc = "set" => reader[r].val = db[reader[r].key]

\* Synchronisation t will clear the cache, or be given up.
WillClear(t) == sync[t].pc \notin {"idle", "abandoned"}

\* Upserts still arrive of a synchronisation that was given up.
AbandonedMissed ==
    \A t \in Tasks : sync[t].pc = "abandoned" => t \in Syncs /\ missed /\ failures > 0

Fresh == missed \/ (\E t \in Tasks : WillClear(t))
             \/ \A k \in Keys : cache[k] \in {NotCached, db[k]}

LEMMA RepliesStep ==
    ASSUME PromptReplies = TRUE
    PROVE  TypeOK /\ RepliesCurrent /\ [Next]_vars => RepliesCurrent'
<1> SUFFICES ASSUME TypeOK, RepliesCurrent, [Next]_vars PROVE RepliesCurrent'
  OBVIOUS
<1>1. CASE UNCHANGED <<reader, db>>
  BY <1>1 DEF RepliesCurrent
<1>2. CASE Restart
  BY <1>2 DEF Restart, RepliesCurrent, NoLookup
<1>3. ASSUME NEW t \in Tasks, RemoveStale(t) \/ \E k \in Keys : Upsert(t, k)
      PROVE  RepliesCurrent'
  BY <1>3 DEF RemoveStale, Upsert, RepliesHandled, RepliesCurrent
<1>4. ASSUME NEW r \in Readers, LookupStep(r) \/ \E k \in Keys : Lookup(r, k)
      PROVE  RepliesCurrent'
  <2>1. db' = db /\ \A q \in Readers : q # r => reader'[q] = reader[q]
    BY <1>4 DEF LookupStep, Find, Store, Lookup, TypeOK
  <2>2. reader'[r].pc = "set" => reader'[r].val = db'[reader'[r].key]
    BY <1>4 DEF LookupStep, Find, Store, Lookup, TypeOK, NoLookup
  <2> QED BY <2>1, <2>2 DEF RepliesCurrent
<1>5. ASSUME \/ \E k \in Keys, file \in Files : Edit(k, file)
             \/ \E t \in Tasks : TimerFires(t) \/ List(t) \/ Finish(t) \/ Fail(t)
             \/ \E t \in Tasks, k \in Keys : Read(t, k)
             \/ UNCHANGED vars
      PROVE  UNCHANGED <<reader, db>>
  BY <1>5 DEF Edit, TimerFires, List, Finish, Fail, Read, vars
<1> QED BY <1>1, <1>2, <1>3, <1>4, <1>5 DEF Next, SyncStep

\* What one step makes of a synchronisation: it ends by clearing the cache, or is
\* given up.
LEMMA FreshStep ==
    ASSUME MaxFailures = 0 \/ \E s : Syncs = {s}
    PROVE  TypeOK /\ RepliesCurrent /\ AbandonedMissed /\ Fresh /\ [Next]_vars
               => AbandonedMissed' /\ Fresh'
<1> SUFFICES ASSUME TypeOK, RepliesCurrent, AbandonedMissed, Fresh, [Next]_vars
             PROVE  AbandonedMissed' /\ Fresh'
  OBVIOUS
<1> USE ConstantRecords
<1>1. ASSUME NEW k \in Keys, NEW file \in Files, Edit(k, file) PROVE AbandonedMissed' /\ Fresh'
  BY <1>1 DEF Edit, AbandonedMissed, Fresh, WillClear
<1>2. CASE Restart
  <2>1. \A k \in Keys : cache'[k] = NotCached
    BY <1>2 DEF Restart, EmptyCache
  <2> QED BY <1>2, <2>1 DEF Restart, AbandonedMissed, Fresh
<1>3. ASSUME NEW t \in Tasks, TimerFires(t) PROVE AbandonedMissed' /\ Fresh'
  <2>1. sync'[t].pc = "list" /\ \A u \in Tasks : u # t => sync'[u] = sync[u]
    BY <1>3 DEF TimerFires, TypeOK
  <2>2. \A u \in Tasks : sync[u].pc # "abandoned"
    BY <1>3, Bounds DEF TimerFires, AbandonedMissed, TypeOK
  <2> QED BY <2>1, <2>2 DEF AbandonedMissed, Fresh, WillClear
<1>4. ASSUME NEW t \in Tasks, NEW pc, pc \notin {"idle", "abandoned"},
             sync[t].pc \notin {"idle", "abandoned"}, sync'[t].pc = pc,
             \A u \in Tasks : u # t => sync'[u] = sync[u],
             UNCHANGED <<missed, failures>>
      PROVE  AbandonedMissed' /\ Fresh'
  BY <1>4 DEF AbandonedMissed, Fresh, WillClear
<1>5. ASSUME NEW t \in Tasks, List(t) PROVE AbandonedMissed' /\ Fresh'
  <2>1. sync'[t].pc \in {"delete", "read"} /\ \A u \in Tasks : u # t => sync'[u] = sync[u]
    BY <1>5 DEF List, TypeOK, SyncState
  <2> QED BY <1>4, <1>5, <2>1 DEF List, bounds
<1>6. ASSUME NEW t \in Tasks, NEW k \in Keys, Read(t, k) PROVE AbandonedMissed' /\ Fresh'
  <2>1. sync'[t].pc \in {"delete", "read", "upsert"} /\ \A u \in Tasks : u # t => sync'[u] = sync[u]
    BY <1>6 DEF Read, TypeOK, AfterReads
  <2> QED BY <1>4, <1>6, <2>1 DEF Read, bounds
<1>7. ASSUME NEW t \in Tasks, NEW k \in Keys, Upsert(t, k) PROVE AbandonedMissed' /\ Fresh'
  <2>1. sync'[t].pc = AfterUpsert(sync[t].pc, sync[t].todo \ {k})
           /\ \A u \in Tasks : u # t => sync'[u] = sync[u]
    BY <1>7 DEF Upsert, TypeOK, SyncState
  <2>2. CASE sync[t].pc = "upsert"
    <3>1. sync'[t].pc \in {"upsert", "delete"}
      BY <2>1, <2>2 DEF AfterUpsert
    <3> QED BY <1>4, <1>7, <2>1, <2>2, <3>1 DEF Upsert, bounds
  <2>3. CASE sync[t].pc = "abandoned"
    <3>1. missed /\ failures > 0 /\ t \in Syncs
      BY <2>3 DEF AbandonedMissed
    <3> QED BY <1>7, <2>1, <3>1 DEF Upsert, bounds, AbandonedMissed, Fresh
  <2> QED BY <1>7, <2>2, <2>3 DEF Upsert
<1>8. ASSUME NEW t \in Tasks, RemoveStale(t) PROVE AbandonedMissed' /\ Fresh'
  <2>1. sync'[t].pc = "clear" /\ \A u \in Tasks : u # t => sync'[u] = sync[u]
    BY <1>8 DEF RemoveStale, TypeOK, SyncState
  <2> QED BY <1>4, <1>8, <2>1 DEF RemoveStale, bounds
<1>9. ASSUME NEW t \in Tasks, Finish(t) PROVE AbandonedMissed' /\ Fresh'
  <2>1. sync'[t].pc = "idle" /\ \A u \in Tasks : u # t => sync'[u] = sync[u]
    BY <1>9 DEF Finish, TypeOK
  <2>2. \A k \in Keys : cache'[k] = NotCached
    BY <1>9 DEF Finish, EmptyCache
  <2> QED BY <1>9, <2>1, <2>2 DEF Finish, bounds, AbandonedMissed, Fresh
<1>10. ASSUME NEW t \in Tasks, Fail(t) PROVE AbandonedMissed' /\ Fresh'
  <2>1. missed' /\ failures' > 0 /\ t \in Syncs
    BY <1>10, Bounds DEF Fail, TypeOK
  <2>2. \A u \in Tasks : u # t => sync'[u] = sync[u]
    BY <1>10 DEF Fail, TypeOK
  <2> QED BY <2>1, <2>2 DEF AbandonedMissed, Fresh
<1>11. ASSUME NEW r \in Readers, LookupStep(r) \/ \E k \in Keys : Lookup(r, k)
       PROVE  AbandonedMissed' /\ Fresh'
  <2>1. UNCHANGED <<sync, db, missed, failures>>
    BY <1>11 DEF LookupStep, Find, Store, Lookup, bounds
  <2>2. ASSUME \A k \in Keys : cache[k] \in {NotCached, db[k]}, NEW j \in Keys
        PROVE  cache'[j] \in {NotCached, db[j]}
    BY <1>11, <2>2 DEF LookupStep, Find, Store, Lookup, RepliesCurrent, TypeOK
  <2> QED BY <2>1, <2>2 DEF AbandonedMissed, Fresh, WillClear
<1>12. CASE UNCHANGED vars
  BY <1>12 DEF vars, bounds, AbandonedMissed, Fresh, WillClear
<1> QED
  BY <1>1, <1>2, <1>3, <1>5, <1>6, <1>7, <1>8, <1>9, <1>10, <1>11, <1>12 DEF Next, SyncStep

\* When no synchronisation runs, the cache answers what the database would:
\* however many of them, lookups, edits and crashes overlapped, each one that
\* changed a document has cleared the cache since, or was given up (getConfig,
\* syncToDatabase). A synchronisation that is given up must not overlap another.
THEOREM CacheStaysFresh ==
    ASSUME PromptReplies = TRUE, MaxFailures = 0 \/ \E s : Syncs = {s}
    PROVE  Spec => []CacheFresh
<1>1. Init => RepliesCurrent /\ AbandonedMissed /\ Fresh
  <2> SUFFICES ASSUME Init PROVE RepliesCurrent /\ AbandonedMissed /\ Fresh
    OBVIOUS
  <2>1. \A t \in Tasks : sync[t].pc # "abandoned"
    BY ConstantRecords DEF Init
  <2>2. \A r \in Readers : reader[r].pc = "idle"
    BY ConstantRecords DEF Init
  <2> QED BY <2>1, <2>2 DEF Init, RepliesCurrent, AbandonedMissed, Fresh, EmptyCache
<1>2. TypeOK /\ RepliesCurrent /\ [Next]_vars => RepliesCurrent'
  BY RepliesStep
<1>3. TypeOK /\ RepliesCurrent /\ AbandonedMissed /\ Fresh /\ [Next]_vars
          => AbandonedMissed' /\ Fresh'
  BY FreshStep
<1>4. Fresh => CacheFresh
  BY DEF Fresh, WillClear, CacheFresh
<1>5. Spec => []TypeOK
  BY TypeCorrect
<1> QED BY <1>1, <1>2, <1>3, <1>4, <1>5, PTL DEF Spec

=============================================================================
