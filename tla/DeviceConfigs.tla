---------------------------- MODULE DeviceConfigs ----------------------------
(* The device configurations: YAML files on disk, their copies in the          *)
(* database, the cache in front of the database, and the synchronisation that  *)
(* carries an edited file to both (device-configs/device-configs.service.ts).  *)
(*                                                                             *)
(* A synchronisation is a chain of awaits: list the directory, read every file *)
(* (in any order), upsert every parsed configuration (in any order), delete    *)
(* the others, and then, in one continuation, clear the cache and announce the *)
(* change.  Everything else may run between two of these steps: an edit, the   *)
(* watcher's timer, another synchronisation, a lookup.                         *)
EXTENDS Naturals, FiniteSets

CONSTANTS
    Keys,           \* configuration keys; a file holds the block of one key
    Versions,       \* the blocks a file can hold
    NoFile,         \* no such file in the directory
    Broken,         \* a file that cannot be read or parsed
    NoDoc,          \* no document in the database, or a cached miss
    NotCached,      \* no cache entry
    Syncs,          \* slots for synchronisations the watcher started
    Boot,           \* the synchronisation of the application's start
    Readers,        \* slots for getConfig calls in flight
    PromptReplies,  \* TRUE: a lookup stores its reply before a document changes
    MaxEdits,       \* bound on edits of files
    MaxFailures,    \* bound on database and directory errors
    MaxCrashes      \* bound on crashes of the hub

ASSUME Sentinels == /\ {NoFile, Broken, NoDoc, NotCached} \cap Versions = {}
                    /\ NoFile # Broken
                    /\ NoDoc # NotCached
ASSUME BootApart == Boot \notin Syncs
ASSUME Bounds == MaxEdits \in Nat /\ MaxFailures \in Nat /\ MaxCrashes \in Nat

VARIABLES
    dir,        \* the configured directory exists
    disk,       \* what each file holds
    watching,   \* the directory watcher is running
    timer,      \* the debounce timer is set
    sync,       \* the synchronisations in flight
    db,         \* the stored configurations
    cache,      \* configsCache
    reader,     \* the lookups in flight
    missed,     \* an edit or an error that no running synchronisation makes up for
    edits, failures, crashes

vars == <<dir, disk, watching, timer, sync, db, cache, reader, missed, edits, failures, crashes>>
bounds == <<edits, failures, crashes>>

Files == Versions \cup {NoFile, Broken}
Docs == Versions \cup {NoDoc}
Tasks == Syncs \cup {Boot}

\* A file that is missing, unreadable or invalid contributes no configuration.
Parsed(file) == IF file \in Versions THEN file ELSE NoDoc
Nothing == [k \in Keys |-> NoDoc]
Idle == [pc |-> "idle", todo |-> {}, got |-> Nothing]
Starting == [pc |-> "list", todo |-> {}, got |-> Nothing]
NoLookup == [pc |-> "idle", key |-> NoDoc, val |-> NoDoc]
EmptyCache == [k \in Keys |-> NotCached]

\* A synchronisation that parses nothing goes on to the deletion at once.
AfterReads(got) == IF got = Nothing THEN "delete" ELSE "upsert"
AfterUpsert(pc, left) == IF left # {} THEN pc
                         ELSE IF pc = "upsert" THEN "delete" ELSE "idle"
\* The replies to lookups that precede a change of the database were handled.
RepliesHandled == PromptReplies => \A r \in Readers : reader[r].pc # "set"

Init ==
    /\ dir \in BOOLEAN
    /\ disk \in [Keys -> Files]
    /\ db \in [Keys -> Docs]
    /\ watching = FALSE /\ timer = FALSE /\ missed = FALSE
    /\ sync = [t \in Tasks |-> IF t = Boot /\ dir THEN Starting ELSE Idle]
    /\ cache = EmptyCache
    /\ reader = [r \in Readers |-> NoLookup]
    /\ edits = 0 /\ failures = 0 /\ crashes = 0

(* ------------------------------- Environment ------------------------------ *)

\* The boot synchronisation will still read k's file.
BootReads(k) == \/ sync[Boot].pc = "list"
                \/ sync[Boot].pc = "read" /\ k \in sync[Boot].todo

\* Fault: an edit made while a synchronisation runs is taken to be covered by it.
EditUnseen(k, file) ==
    /\ dir /\ edits < MaxEdits /\ disk[k] # file
    /\ disk' = [disk EXCEPT ![k] = file]
    /\ edits' = edits + 1
    /\ timer' = (watching /\ (timer \/ \A t \in Tasks : sync[t].pc = "idle"))
    /\ missed' = (missed \/ (~watching /\ ~BootReads(k)))
    /\ UNCHANGED <<dir, watching, sync, db, cache, reader, failures, crashes>>

\* A file is written, truncated, repaired or removed; the watcher, once it
\* runs, rearms the timer.
Edit(k, file) ==
    /\ dir /\ edits < MaxEdits /\ disk[k] # file
    /\ disk' = [disk EXCEPT ![k] = file]
    /\ edits' = edits + 1
    /\ timer' = watching
    /\ missed' = (missed \/ (~watching /\ ~BootReads(k)))
    /\ UNCHANGED <<dir, watching, sync, db, cache, reader, failures, crashes>>

\* The hub stops (a boot that fails stops it too) and starts again: what was
\* in memory is gone, and so are the requests the database had not served.
Restart ==
    /\ crashes < MaxCrashes
    /\ crashes' = crashes + 1
    /\ watching' = FALSE /\ timer' = FALSE /\ missed' = FALSE
    /\ sync' = [t \in Tasks |-> IF t = Boot /\ dir THEN Starting ELSE Idle]
    /\ cache' = EmptyCache
    /\ reader' = [r \in Readers |-> NoLookup]
    /\ UNCHANGED <<dir, disk, db, edits, failures>>

(* ----------------------------- Synchronisation ---------------------------- *)

\* The timer runs out and starts a synchronisation, whatever others are doing.
TimerFires(t) ==
    /\ timer /\ t \in Syncs /\ sync[t].pc = "idle"
    /\ timer' = FALSE /\ missed' = FALSE
    /\ sync' = [sync EXCEPT ![t] = Starting]
    /\ UNCHANGED <<dir, disk, watching, db, cache, reader, bounds>>

List(t) ==
    LET listed == {k \in Keys : disk[k] # NoFile} IN
    /\ sync[t].pc = "list"
    /\ sync' = [sync EXCEPT ![t].pc = IF listed = {} THEN "delete" ELSE "read",
                            ![t].todo = listed]
    /\ UNCHANGED <<dir, disk, watching, timer, db, cache, reader, missed, bounds>>

\* Fault: every listed file is upserted, parsed or not.
ReadBlindly(t, k) ==
    LET left == sync[t].todo \ {k}
        got == [sync[t].got EXCEPT ![k] = Parsed(disk[k])]
    IN  /\ sync[t].pc = "read" /\ k \in sync[t].todo
        /\ sync' = [sync EXCEPT ![t] =
               [pc |-> IF left # {} THEN "read" ELSE "upsert",
                todo |-> IF left # {} THEN left ELSE Keys,
                got |-> got]]
        /\ UNCHANGED <<dir, disk, watching, timer, db, cache, reader, missed, bounds>>

Read(t, k) ==
    LET left == sync[t].todo \ {k}
        got == [sync[t].got EXCEPT ![k] = Parsed(disk[k])]
    IN  /\ sync[t].pc = "read" /\ k \in sync[t].todo
        /\ sync' = [sync EXCEPT ![t] =
               [pc |-> IF left # {} THEN "read" ELSE AfterReads(got),
                todo |-> IF left # {} THEN left ELSE {j \in Keys : got[j] # NoDoc},
                got |-> got]]
        /\ UNCHANGED <<dir, disk, watching, timer, db, cache, reader, missed, bounds>>

Upsert(t, k) ==
    LET left == sync[t].todo \ {k} IN
    /\ sync[t].pc \in {"upsert", "abandoned"} /\ k \in sync[t].todo
    /\ RepliesHandled
    /\ db' = [db EXCEPT ![k] = sync[t].got[k]]
    /\ sync' = [sync EXCEPT ![t].todo = left, ![t].pc = AfterUpsert(sync[t].pc, left)]
    /\ UNCHANGED <<dir, disk, watching, timer, cache, reader, missed, bounds>>

\* Fault: stale configurations are kept when no file could be parsed.
RemoveSomeStale(t) ==
    /\ sync[t].pc = "delete"
    /\ RepliesHandled
    /\ db' = [k \in Keys |-> IF sync[t].got[k] = NoDoc /\ sync[t].got # Nothing
                             THEN NoDoc ELSE db[k]]
    /\ sync' = [sync EXCEPT ![t].pc = "clear"]
    /\ UNCHANGED <<dir, disk, watching, timer, cache, reader, missed, bounds>>

\* deleteMany with $nor of the upserted keys, or of everything when there is none.
RemoveStale(t) ==
    /\ sync[t].pc = "delete"
    /\ RepliesHandled
    /\ db' = [k \in Keys |-> IF sync[t].got[k] = NoDoc THEN NoDoc ELSE db[k]]
    /\ sync' = [sync EXCEPT ![t].pc = "clear"]
    /\ UNCHANGED <<dir, disk, watching, timer, cache, reader, missed, bounds>>

\* Fault: only the keys that were upserted lose their cache entries.
FinishKeepsMisses(t) ==
    /\ sync[t].pc = "clear"
    /\ cache' = [k \in Keys |-> IF sync[t].got[k] # NoDoc THEN NotCached ELSE cache[k]]
    /\ sync' = [sync EXCEPT ![t] = Idle]
    /\ watching' = (watching \/ t = Boot)
    /\ UNCHANGED <<dir, disk, timer, db, reader, missed, bounds>>

\* The continuation after the deletion; at the application's start the watcher
\* is started only now.
Finish(t) ==
    /\ sync[t].pc = "clear"
    /\ cache' = EmptyCache
    /\ sync' = [sync EXCEPT ![t] = Idle]
    /\ watching' = (watching \/ t = Boot)
    /\ UNCHANGED <<dir, disk, timer, db, reader, missed, bounds>>

\* The directory or the database refuses a request: the synchronisation is
\* given up and the error logged.  Promise.all rejects with the first failing
\* upsert, but the others are on their way and still arrive.
Fail(t) ==
    /\ t \in Syncs /\ failures < MaxFailures
    /\ failures' = failures + 1 /\ missed' = TRUE
    /\ \/ /\ sync[t].pc \in {"list", "delete"}
          /\ sync' = [sync EXCEPT ![t] = Idle]
       \/ /\ sync[t].pc = "upsert"
          /\ \E k \in sync[t].todo :
                LET left == sync[t].todo \ {k} IN
                sync' = [sync EXCEPT ![t] = [pc |-> AfterUpsert("abandoned", left),
                                             todo |-> left, got |-> sync[t].got]]
    /\ UNCHANGED <<dir, disk, watching, timer, db, cache, reader, edits, crashes>>

(* --------------------------------- Lookups -------------------------------- *)

\* getConfig on a key the cache does not hold; a hit changes nothing.
Lookup(r, k) ==
    /\ reader[r].pc = "idle" /\ cache[k] = NotCached
    /\ reader' = [reader EXCEPT ![r] = [pc |-> "find", key |-> k, val |-> NoDoc]]
    /\ UNCHANGED <<dir, disk, watching, timer, sync, db, cache, missed, bounds>>

Find(r) ==
    /\ reader[r].pc = "find"
    /\ reader' = [reader EXCEPT ![r] =
           [pc |-> "set", key |-> reader[r].key, val |-> db[reader[r].key]]]
    /\ UNCHANGED <<dir, disk, watching, timer, sync, db, cache, missed, bounds>>

Store(r) ==
    /\ reader[r].pc = "set"
    /\ cache' = [cache EXCEPT ![reader[r].key] = reader[r].val]
    /\ reader' = [reader EXCEPT ![r] = NoLookup]
    /\ UNCHANGED <<dir, disk, watching, timer, sync, db, missed, bounds>>

SyncStep(t) == \/ TimerFires(t) \/ List(t) \/ RemoveStale(t) \/ Finish(t)
               \/ \E k \in Keys : Read(t, k) \/ Upsert(t, k)
LookupStep(r) == Find(r) \/ Store(r)

Next == \/ \E k \in Keys, file \in Files : Edit(k, file)
        \/ Restart
        \/ \E t \in Tasks : SyncStep(t) \/ Fail(t)
        \/ \E r \in Readers : LookupStep(r) \/ \E k \in Keys : Lookup(r, k)

Spec == Init /\ [][Next]_vars

\* A timer that is set fires, and a request to the directory or to the database
\* is answered and its continuation run: the hub's event loop does both.
FairSpec == /\ Spec
            /\ \A t \in Tasks : WF_vars(SyncStep(t))
            /\ \A r \in Readers : WF_vars(LookupStep(r))

(* -------------------------------- Properties ------------------------------ *)

SyncState == [pc : {"idle", "list", "read", "upsert", "abandoned", "delete", "clear"},
              todo : SUBSET Keys, got : [Keys -> Docs]]

\* Every variable keeps its type, and only a parsed configuration is upserted.
TypeOK ==
    /\ dir \in BOOLEAN /\ watching \in BOOLEAN /\ timer \in BOOLEAN /\ missed \in BOOLEAN
    /\ disk \in [Keys -> Files]
    /\ db \in [Keys -> Docs]
    /\ cache \in [Keys -> Docs \cup {NotCached}]
    /\ sync \in [Tasks -> SyncState]
    /\ reader \in [Readers -> [pc : {"idle", "find", "set"}, key : Keys \cup {NoDoc}, val : Docs]]
    /\ edits \in 0 .. MaxEdits /\ failures \in 0 .. MaxFailures /\ crashes \in 0 .. MaxCrashes
    /\ \A r \in Readers : reader[r].pc # "idle" => reader[r].key \in Keys
    /\ \A t \in Tasks : sync[t].pc \in {"upsert", "abandoned"} =>
                            \A k \in sync[t].todo : sync[t].got[k] # NoDoc

\* Nothing is under way that could still change the stored configurations.
Quiet == watching /\ ~timer /\ \A t \in Tasks : sync[t].pc = "idle"

\* Once the synchronisations an edit caused are over, the stored configurations
\* are those of the files (syncFromDisk, scheduleSync): an edit made while one
\* runs causes another.
DiskReflected == Quiet /\ ~missed => \A k \in Keys : db[k] = Parsed(disk[k])

\* When no synchronisation runs, the cache answers what the database would
\* (getConfig, syncToDatabase), unless one was given up before its clearing.
CacheFresh == (\A t \in Tasks : sync[t].pc = "idle") /\ ~missed =>
                  \A k \in Keys : cache[k] \in {NotCached, db[k]}

\* Files that are no longer edited reach the database, however the edits fell
\* among the steps of a running synchronisation.
EditsReachStore ==
    <>[](~dir \/ missed \/ \A k \in Keys : db[k] = Parsed(disk[k]))
=============================================================================
