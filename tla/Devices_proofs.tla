---------------------------- MODULE Devices_proofs ----------------------------
(* Theorems about Devices, for any number of devices, entries, configurations  *)
(* and handlers: type correctness, which handlers may overlap freely for; that *)
(* handlers which take turns at a section implement DeviceStore; and that then *)
(* devices keep to what their strict configurations declare, and the hub to    *)
(* the controls its devices have.                                              *)
(*                                                                             *)
(* A handler computes what it will save from what it read.  The proof carries, *)
(* from await to await, how the one relates to the other (Shaped), and, where  *)
(* handlers take turns, that what was read is still what is stored (Fresh).    *)
EXTENDS Devices, SequenceTheorems, TLAPS

Kinds == {"none", "update", "add", "remove", "reconcile"}
\* The awaits between reading a document and saving it.
Computing == {"merge", "defaults", "send", "save"}
Items2 == [Items -> Values \cup {Null, Undeclared}]
Ops == [set : SUBSET Items, unset : SUBSET Items]

Handlers ==
    [pc : Pcs, kind : Kinds, id : Ids \cup {NoProc.id}, pay : Payloads, override : BOOLEAN,
     key : CKeys \cup {NoKey}, propagate : BOOLEAN, origin : {"api", "device"}, pair : BOOLEAN,
     sent : BOOLEAN, old : Doc, new : Doc, reply : [Items -> Entries \cup {Undeclared}],
     parsed : SUBSET [key : CKeys, cfg : Configs \ {NoConfig}], ops : [Ids -> {NoDevice} \cup Ops]]

NoBad(val) == \A i \in Controls : val[i] # Bad

\* What DeviceStore calls a merge, of a request as a handler holds it.
Merges(new, val, pay, override, origin) ==
    \E taken \in SUBSET Named(pay) :
        /\ origin = "device" \/ taken = Named(pay)
        /\ \A i \in Items :
               \/ i \in taken /\ new[i] = pay[i]
               \/ i \notin taken /\ val[i] # Absent /\ new[i] = val[i] /\
                      ~(override = TRUE /\ i \in Touched(pay))
               \/ i \notin taken /\ override = TRUE /\ i \in Touched(pay)
               \/ i \notin taken /\ val[i] = Absent

\* What a handler has computed is a merge of its payload into what it read.
Effect(r) == Merges(r.new.val, r.old.val, r.pay, r.override, r.origin)

\* Only a new device, or a new key, gets defaults; otherwise a handler leaves
\* alone the sections its payload does not touch.
Limited(r) ==
    /\ r.pc = "defaults" => r.kind = "add" \/ r.new.key # r.old.key
    /\ r.kind = "update" /\ r.new.key = r.old.key
           => \A i \in Items \ Touched(r.pay) : r.new.val[i] = r.old.val[i]

\* What a handler holds where it stands.
Shaped(r) ==
    /\ r.kind = "none" <=> r.pc = "idle"
    /\ r.kind = "reconcile" <=> r.pc \in {"find", "bulk"}
    /\ r.kind \in {"update", "add", "remove"} => r.id \in Ids
    /\ r.kind = "add" => r.key \in CKeys /\ r.old = Blank
    /\ r.kind = "remove" => r.pc \in {"read", "delete"}
    /\ r.pc = "delete" => r.kind = "remove"
    /\ r.pc = "ip" => r.kind = "update" /\ r.pair = TRUE /\ r.key \in CKeys
                      /\ r.old = Blank
    /\ r.pc = "name" => r.kind = "add"
    /\ r.pc = "read" => r.kind \in {"update", "remove"}
    /\ r.pc \in Computing => /\ r.kind \in {"update", "add"} /\ r.new.key \in CKeys
                             /\ r.new.key # r.old.key /\ r.kind = "update" => r.key # NoKey
                             /\ NoBad(r.new.val) /\ Limited(r)
                             /\ IF r.pc = "merge" THEN r.new.val = r.old.val ELSE Effect(r)
    /\ r.pc = "bulk" => /\ r.reply \in Items2
                        /\ \A id \in Ids : r.ops[id] = NoDevice \/
                               /\ \A i \in r.ops[id].set : r.reply[i] # Undeclared
                               /\ \A i \in r.ops[id].unset : r.reply[i] = Undeclared

DocsTyped == /\ docs \in [Ids -> Doc \cup {NoDevice}]
             /\ \A id \in Ids : docs[id] = NoDevice \/
                    (docs[id] \in Doc /\ docs[id].key \in CKeys /\ NoBad(docs[id].val))
WorldTyped == /\ config \in [CKeys -> Configs \cup {NoConfig}]
              /\ device \in [Ids -> [Controls -> Values]]
              /\ reports \in [Ids -> Seq([Controls -> Values])]
FlagsTyped == astray \in [Ids -> BOOLEAN] /\ loose \in [Ids -> BOOLEAN]
BoundsTyped == lost \in 0 .. MaxSends /\ calls \in 0 .. MaxCalls
ProcTyped == proc \in [Procs -> Handlers] /\ \A p \in Procs : Shaped(proc[p])
Typed == DocsTyped /\ WorldTyped /\ FlagsTyped /\ BoundsTyped /\ ProcTyped

LEMMA TypedSuffices == Typed => TypeOK
<1> SUFFICES ASSUME Typed PROVE TypeOK
  OBVIOUS
<1>1. ASSUME NEW id \in Ids
      PROVE  docs[id] = NoDevice
                 \/ (docs[id].key \in CKeys /\ docs[id].val \in Payloads
                     /\ \A i \in Controls : docs[id].val[i] # Bad)
  BY DEF Typed, DocsTyped, Doc, NoBad
<1>2. ASSUME NEW p \in Procs
      PROVE  proc[p].pc \in Pcs /\ proc[p].old \in Doc /\ proc[p].pay \in Payloads
  BY DEF Typed, ProcTyped, Handlers
<1>3. QED BY <1>1, <1>2 DEF Typed, TypeOK, WorldTyped, FlagsTyped, BoundsTyped

(* ------------------------------ Small facts -------------------------------- *)

LEMMA NothingTyped ==
    /\ Nothing \in Payloads /\ Blank \in Doc /\ Blank.val = Nothing
    /\ Blank.key = NoKey
    /\ \A i \in Items : Nothing[i] = Absent
BY DEF Nothing, Payloads, Entries, Blank, Doc

LEMMA OnlyTyped ==
    ASSUME NEW i \in Items, NEW v \in Values \cup {Bad} PROVE Only(i, v) \in Payloads
BY DEF Only, Nothing, Payloads, Entries

LEMMA NoProcTyped ==
    /\ NoProc \in Handlers /\ Shaped(NoProc)
    /\ NoProc.pc = "idle" /\ NoProc.kind = "none" /\ NoProc.pay = Nothing
    /\ NoProc.key = NoKey /\ NoProc.override = FALSE /\ NoProc.origin = "api"
    /\ NoProc.pair = FALSE /\ NoProc.old = Blank /\ NoProc.new = Blank
<1>1. NoProc \in Handlers
  BY NothingTyped DEF NoProc, Handlers, Pcs, Kinds, Payloads
<1>2. QED BY <1>1 DEF NoProc, Shaped, Computing

\* The words of the abstract specification.
LEMMA StoreWords ==
    /\ Store!Items = Items
    /\ \A i : Store!SectionOf(i) = SectionOf(i)
    /\ \A pay : Store!Named(pay) = Named(pay)
    /\ \A pay : Store!Touched(pay) = Touched(pay)
<1>1. Store!Items = Items
  BY DEF Store!Items, Items
<1>2. \A i : Store!SectionOf(i) = SectionOf(i)
  BY DEF Store!SectionOf, SectionOf
<1>3. \A pay : Store!Named(pay) = Named(pay)
  BY <1>1 DEF Store!Named, Named
<1>4. ASSUME NEW pay PROVE Store!Touched(pay) = Touched(pay)
  BY <1>2, <1>3 DEF Store!Touched, Touched
<1>5. QED BY <1>1, <1>2, <1>3, <1>4

\* Sections do not overlap: an entry is touched with its section.
LEMMA SectionTouched ==
    ASSUME NEW pay, NEW i \in Items, NEW j \in Items, j \in SectionOf(i)
    PROVE  /\ SectionOf(j) = SectionOf(i) /\ i \in SectionOf(i) /\ SectionOf(i) \subseteq Items
           /\ i \in Touched(pay) <=> j \in Touched(pay)
           /\ i \in Named(pay) => i \in Touched(pay)
<1>1. SectionOf(j) = SectionOf(i) /\ i \in SectionOf(i) /\ SectionOf(i) \subseteq Items
  BY Sections DEF SectionOf, Items
<1>2. ASSUME NEW k \in Named(pay)
      PROVE  i \in SectionOf(k) <=> j \in SectionOf(k)
  BY <1>1, Sections DEF SectionOf, Items, Named
<1>3. QED BY <1>1, <1>2 DEF Touched

(* ----------------------------- What is computed ---------------------------- *)

\* A payload that is merged, or as much of it as is accepted, and nothing else.
LEMMA MergedMerges ==
    ASSUME NEW val \in Payloads, NEW pay \in Payloads, NEW some \in Payloads,
           NEW override \in BOOLEAN, NEW origin,
           \A i \in Items : some[i] \in {pay[i], Absent},
           origin = "device" \/ some = pay
    PROVE  /\ Merged(val, some, Touched(pay), override) \in Payloads
           /\ Merges(Merged(val, some, Touched(pay), override), val, pay, override, origin)
<1> DEFINE new == Merged(val, some, Touched(pay), override)
           taken == Named(some)
<1>1. new \in Payloads
  BY DEF Merged, Payloads, Entries
<1>2. taken \in SUBSET Named(pay) /\ (origin = "device" \/ taken = Named(pay))
  BY DEF Named
<1>3. ASSUME NEW i \in Items
      PROVE  \/ i \in taken /\ new[i] = pay[i]
             \/ i \notin taken /\ val[i] # Absent /\ new[i] = val[i] /\
                    ~(override = TRUE /\ i \in Touched(pay))
             \/ i \notin taken /\ override = TRUE /\ i \in Touched(pay)
             \/ i \notin taken /\ val[i] = Absent
  <2>1. new[i] = IF some[i] # Absent THEN some[i]
                 ELSE IF override /\ i \in Touched(pay) THEN Absent ELSE val[i]
    BY DEF Merged
  <2>2. i \in taken <=> some[i] # Absent
    BY DEF Named
  <2> HIDE DEF new, taken
  <2>3. QED BY <2>1, <2>2
<1> HIDE DEF new, taken
<1>4. Merges(new, val, pay, override, origin)
  BY <1>2, <1>3 DEF Merges
<1>5. QED BY <1>1, <1>4 DEF new

LEMMA UnchangedMerges ==
    ASSUME NEW val, NEW pay, NEW override, NEW origin, Named(pay) = {}
    PROVE  Merges(val, val, pay, override, origin)
<1>1. Touched(pay) = {}
  BY DEF Touched
<1>2. QED BY <1>1 DEF Merges

\* Defaults only fill in what a merge left without an entry.
LEMMA DefaultsMerge ==
    ASSUME NEW new \in Payloads, NEW val, NEW pay, NEW override, NEW origin,
           NEW c \in Configs \cup {NoConfig}, Merges(new, val, pay, override, origin)
    PROVE  /\ WithDefaults(new, c) \in Payloads
           /\ NoBad(new) => NoBad(WithDefaults(new, c))
           /\ Merges(WithDefaults(new, c), val, pay, override, origin)
<1> DEFINE filled == WithDefaults(new, c)
<1>1. ASSUME NEW i \in Items PROVE Declares(c, i) => c.item[i] \in Values \cup {Null}
  BY ConfigShape DEF Declares
<1>2. \A i \in Items : filled[i] = IF new[i] = Absent /\ Declares(c, i) THEN c.item[i] ELSE new[i]
  BY DEF WithDefaults
<1>3. filled \in Payloads
  BY <1>1 DEF WithDefaults, Payloads, Entries
<1>4. NoBad(new) => NoBad(filled)
  <2>1. Controls \subseteq Items
    BY DEF Items
  <2> HIDE DEF filled
  <2>2. QED BY <1>1, <1>2, <2>1, Sentinels DEF NoBad
<1>5. \A i \in Named(pay) : pay[i] # Absent
  BY DEF Named
<1> HIDE DEF filled
<1>6. Merges(filled, val, pay, override, origin)
  BY <1>2, <1>5 DEF Merges
<1>7. QED BY <1>3, <1>4, <1>6 DEF filled

(* ---------------------------- Steps of a handler --------------------------- *)

\* A handler goes on with the request it has taken on.
Keeps(r, n) == /\ n.id = r.id /\ n.kind = r.kind /\ n.pay = r.pay /\ n.override = r.override
               /\ n.key = r.key /\ n.origin = r.origin /\ n.pair = r.pair
               /\ n.propagate = r.propagate

LEMMA PcMoved ==
    ASSUME NEW r \in Handlers, NEW q \in Pcs
    PROVE  LET n == [r EXCEPT !.pc = q] IN
           /\ n \in Handlers /\ Keeps(r, n) /\ n.pc = q
           /\ n.old = r.old /\ n.new = r.new /\ n.reply = r.reply /\ n.ops = r.ops
           /\ n.parsed = r.parsed
BY DEF Handlers, Keeps

LEMMA AfterPcs ==
    \A r : AfterDefaults(r) \in {"send", "save"} /\ AfterMerge(r) \in {"defaults", "send", "save"}
BY DEF AfterDefaults, AfterMerge

\* Being where a document has been computed.
LEMMA ComputedShaped ==
    ASSUME NEW n \in Handlers, n.pc \in Computing, n.kind \in {"update", "add"}, n.id \in Ids,
           n.kind = "add" => n.key \in CKeys /\ n.old = Blank,
           n.new.key \in CKeys, n.new.key # n.old.key /\ n.kind = "update" => n.key # NoKey,
           NoBad(n.new.val), Limited(n), IF n.pc = "merge" THEN n.new.val = n.old.val ELSE Effect(n)
    PROVE  Shaped(n)
BY DEF Shaped, Computing

LEMMA LoadedTyped ==
    ASSUME NEW r \in Handlers, Shaped(r), r.pc \in {"read", "name"}, NEW d \in Doc, NoBad(d.val),
           \/ r.kind = "update" /\ d.key \in CKeys
           \/ r.kind = "add" /\ d = Blank
    PROVE  LET n == Loaded(r, d) IN
           n \in Handlers /\ Shaped(n) /\ Keeps(r, n) /\ n.old = d /\ n.pc \in Computing
<1> DEFINE new == [key |-> IF r.key = NoKey THEN d.key ELSE r.key, val |-> d.val]
           m == [r EXCEPT !.old = d, !.new = new]
           q == IF Named(m.pay) # {} THEN "merge" ELSE AfterMerge(m)
           n == [m EXCEPT !.pc = q]
<1>1. new \in Doc
  BY DEF Doc, Handlers
<1>2. m \in Handlers /\ Keeps(r, m) /\ m.old = d /\ m.new = new
  <2> HIDE DEF new
  <2>1. QED BY <1>1 DEF Handlers, Keeps
<1>3. q \in Computing /\ q \in Pcs
  BY AfterPcs DEF Computing, Pcs
<1>4. /\ Named(m.pay) # {} => q = "merge"
      /\ q = "defaults" => m.kind = "add" \/ m.new.key # m.old.key
  BY DEF AfterMerge, AfterDefaults
<1>5. Loaded(r, d) = n
  BY DEF Loaded
<1> HIDE DEF m, q
<1>6. n \in Handlers /\ Keeps(m, n) /\ n.pc = q /\ n.old = m.old /\ n.new = m.new
  BY <1>2, <1>3, PcMoved
<1> HIDE DEF n
<1>7. new.key \in CKeys /\ (new.key # d.key /\ r.kind = "update" => r.key # NoKey)
  <2>1. new.key = IF r.key = NoKey THEN d.key ELSE r.key
    OBVIOUS
  <2>2. r.key \in CKeys \cup {NoKey}
    BY DEF Handlers
  <2>3. CASE r.kind = "update"
    BY <2>1, <2>2, <2>3
  <2>4. CASE r.kind = "add" /\ d = Blank
    BY <2>1, <2>4, NothingTyped DEF Shaped
  <2>5. QED BY <2>3, <2>4
<1>8. Keeps(r, n)
  BY <1>2, <1>6 DEF Keeps
<1>9. n.new.val = n.old.val /\ n.old = d
  BY <1>2, <1>6
<1>10. ASSUME n.pc # "merge" PROVE Effect(n)
  <2>1. Named(n.pay) = {}
    BY <1>4, <1>6, <1>10, <1>2 DEF Keeps
  <2>2. QED BY <1>9, <2>1, UnchangedMerges DEF Effect
<1>11. Shaped(n)
  <2>1. n.kind = r.kind /\ n.key = r.key /\ n.id = r.id /\ r.id \in Ids
    BY <1>8 DEF Keeps, Shaped
  <2>2. n.kind \in {"update", "add"} /\ (n.kind = "add" => n.key \in CKeys /\ n.old = Blank)
    BY <2>1, <1>9 DEF Shaped
  <2>3. n.new = new
    BY <1>2, <1>6
  <2>4. n.new.key \in CKeys /\ (n.new.key # n.old.key /\ n.kind = "update" => n.key # NoKey)
    BY <1>7, <1>9, <2>1, <2>3
  <2>5. Limited(n)
    BY <1>4, <1>6, <1>9 DEF Limited, Keeps
  <2>6. QED BY <1>3, <1>6, <1>9, <1>10, <2>1, <2>2, <2>4, <2>5, ComputedShaped
<1>12. QED BY <1>3, <1>5, <1>6, <1>8, <1>9, <1>11

\* What Merge, and Defaults, make of a handler.
LEMMA ComputedTyped ==
    ASSUME NEW r, Shaped(r), r.pc \in Computing, NEW n \in Handlers, Keeps(r, n),
           n.old = r.old, n.new.key = r.new.key, NoBad(n.new.val), Limited(n),
           n.pc \in {"defaults", "send", "save"}, Effect(n)
    PROVE  Shaped(n)
<1>1. n.kind = r.kind /\ n.key = r.key /\ n.id = r.id
  BY DEF Keeps
<1>2. QED BY <1>1, ComputedShaped DEF Shaped, Computing

\* What a handler has read of the entries it may write is still stored: those
\* of the document it updates, those it is going to add.
UpToDate(r, ds) ==
    /\ r.kind = "update" /\ r.pc \in Computing /\ ds[r.id] # NoDevice
           => /\ \A i \in Writes(r) : ds[r.id].val[i] = r.old.val[i]
              /\ Writes(r) # {} => ds[r.id].key = r.old.key
    /\ r.pc = "bulk"
           => \A id \in Ids : r.ops[id] # NoDevice /\ ds[id] # NoDevice
                  => \A i \in r.ops[id].set : ds[id].val[i] = Absent

\* A handler in flight writes the same sections of the same device to its end.
Continues(r, n) ==
    /\ r.pc # "idle"
    /\ \/ n.pc = "idle"
       \/ /\ n.id = r.id
          /\ Writes(n) = Writes(r)
          /\ n.kind = "reconcile" <=> r.kind = "reconcile"

Advances(p, n) == /\ proc' = [proc EXCEPT ![p] = n]
                  /\ Shaped(n) /\ Continues(proc[p], n)
                  /\ proc[p].pc = "ip" \/ n.pc = "idle" \/ Keeps(proc[p], n)
                  /\ UpToDate(proc[p], docs) => UpToDate(n, docs')

LEMMA FinishAdvances ==
    ASSUME NEW p \in Procs, proc[p].pc # "idle", Finish(p)
    PROVE  \E n \in Handlers : Advances(p, n)
<1>1. UpToDate(NoProc, docs')
  BY NoProcTyped DEF UpToDate
<1>2. Advances(p, NoProc)
  BY <1>1, NoProcTyped DEF Advances, Continues, Finish
<1>3. QED BY <1>2, NoProcTyped

LEMMA KeptWrites ==
    ASSUME NEW r, NEW n, Keeps(r, n) PROVE Writes(n) = Writes(r)
BY DEF Keeps, Writes

LEMMA GoAdvances ==
    ASSUME NEW p \in Procs, proc[p].pc # "idle", NEW n \in Handlers, Shaped(n), Go(p, n),
           Keeps(proc[p], n), UpToDate(proc[p], docs) => UpToDate(n, docs')
    PROVE  \E m \in Handlers : Advances(p, m)
<1>1. Continues(proc[p], n)
  BY KeptWrites DEF Continues, Keeps
<1>2. Advances(p, n)
  BY <1>1 DEF Advances, Go
<1>3. QED BY <1>2

\* A handler that has computed more of its document holds the one it read.
LEMMA StillUpToDate ==
    ASSUME NEW r, NEW n, Keeps(r, n), n.old = r.old, r.pc \in Computing, n.pc \in Computing,
           UpToDate(r, docs), docs' = docs
    PROVE  UpToDate(n, docs')
<1>1. Writes(n) = Writes(r)
  BY KeptWrites
<1>2. QED BY <1>1 DEF UpToDate, Keeps, Computing

LEMMA LookupsAdvance ==
    ASSUME Typed, NEW p \in Procs, LookupByIp(p) \/ LookupName(p) \/ ReadDoc(p)
    PROVE  \E n \in Handlers : Advances(p, n)
<1> DEFINE r == proc[p]
<1>1. r \in Handlers /\ Shaped(r)
  BY DEF Typed, ProcTyped
<1>2. CASE LookupByIp(p)
  <2>1. r.pc = "ip" /\ r.kind = "update" /\ r.pair = TRUE /\ r.key \in CKeys /\ r.id \in Ids
        /\ r.old = Blank
    BY <1>1, <1>2 DEF LookupByIp, Shaped
  <2>2. Writes(r) = Items
    BY <2>1 DEF Writes
  <2>3. CASE docs[r.id] = NoDevice
    <3> DEFINE n == [r EXCEPT !.pc = "name", !.kind = "add"]
    <3>1. n \in Handlers /\ n.pc = "name" /\ n.kind = "add" /\ n.id = r.id /\ n.key = r.key
          /\ n.old = r.old
      BY <1>1 DEF Handlers, Pcs, Kinds
    <3>2. proc' = [proc EXCEPT ![p] = n]
      BY <1>2, <2>3 DEF LookupByIp, Go
    <3> HIDE DEF n
    <3>3. Shaped(n)
      BY <2>1, <3>1 DEF Shaped, Computing
    <3>4. Writes(n) = Items
      BY <3>1 DEF Writes
    <3>5. UpToDate(n, docs')
      BY <3>1 DEF UpToDate
    <3>6. Advances(p, n)
      BY <2>1, <2>2, <3>1, <3>2, <3>3, <3>4, <3>5 DEF Advances, Continues
    <3>7. QED BY <3>1, <3>6
  <2>4. CASE docs[r.id] # NoDevice
    <3> DEFINE n == [r EXCEPT !.pc = "read", !.key = NoKey, !.reply = docs[r.id].val]
    <3>1. docs[r.id].val \in [Items -> Entries \cup {Undeclared}]
      BY <2>1, <2>4 DEF Typed, DocsTyped, Doc, Payloads
    <3>2. n \in Handlers /\ n.pc = "read" /\ n.kind = "update" /\ n.id = r.id /\ n.pair = TRUE
      BY <1>1, <2>1, <3>1 DEF Handlers, Pcs
    <3>3. proc' = [proc EXCEPT ![p] = n]
      BY <1>2, <2>4 DEF LookupByIp, Go
    <3> HIDE DEF n
    <3>4. Shaped(n)
      BY <2>1, <3>2 DEF Shaped, Computing
    <3>5. Writes(n) = Items
      BY <3>2 DEF Writes
    <3>6. UpToDate(n, docs')
      BY <3>2 DEF UpToDate, Computing
    <3>7. Advances(p, n)
      BY <2>1, <2>2, <3>2, <3>3, <3>4, <3>5, <3>6 DEF Advances, Continues
    <3>8. QED BY <3>2, <3>7
  <2>5. QED BY <2>3, <2>4
<1>3. CASE LookupName(p)
  <2>1. r.pc = "name" /\ r.kind = "add"
    BY <1>1, <1>3 DEF LookupName, Shaped
  <2>2. CASE docs[r.id] # NoDevice
    BY <1>3, <2>1, <2>2, FinishAdvances DEF LookupName
  <2>3. CASE docs[r.id] = NoDevice
    <3> DEFINE n == Loaded(r, Blank)
    <3>1. NoBad(Blank.val)
      BY NothingTyped, Sentinels DEF NoBad, Items
    <3>2. n \in Handlers /\ Shaped(n) /\ Keeps(r, n)
      BY <1>1, <2>1, <3>1, LoadedTyped, NothingTyped
    <3>3. Go(p, n)
      BY <1>3, <2>3 DEF LookupName
    <3> HIDE DEF n
    <3>4. UpToDate(n, docs')
      BY <2>1, <3>2 DEF UpToDate, Keeps, Shaped
    <3>5. QED BY <2>1, <3>2, <3>3, <3>4, GoAdvances
  <2>4. QED BY <2>2, <2>3
<1>4. CASE ReadDoc(p)
  <2>1. r.pc = "read" /\ r.kind \in {"update", "remove"} /\ r.id \in Ids
    BY <1>1, <1>4 DEF ReadDoc, Shaped
  <2>2. CASE docs[r.id] = NoDevice
    BY <1>4, <2>1, <2>2, FinishAdvances DEF ReadDoc
  <2>3. CASE docs[r.id] # NoDevice /\ r.kind = "remove"
    <3> DEFINE n == [r EXCEPT !.pc = "delete"]
    <3>1. n \in Handlers /\ Keeps(r, n) /\ n.pc = "delete" /\ n.old = r.old
      BY <1>1, PcMoved DEF Pcs
    <3>2. Go(p, n)
      BY <1>4, <2>3 DEF ReadDoc
    <3> HIDE DEF n
    <3>3. Shaped(n) /\ UpToDate(n, docs')
      BY <2>1, <2>3, <3>1 DEF UpToDate, Keeps, Shaped, Computing
    <3>4. QED BY <2>1, <3>1, <3>2, <3>3, GoAdvances
  <2>4. CASE docs[r.id] # NoDevice /\ r.kind = "update"
    <3> DEFINE n == Loaded(r, docs[r.id])
    <3>1. docs[r.id] \in Doc /\ docs[r.id].key \in CKeys /\ NoBad(docs[r.id].val)
      BY <2>1, <2>4 DEF Typed, DocsTyped
    <3>2. n \in Handlers /\ Shaped(n) /\ Keeps(r, n) /\ n.old = docs[r.id] /\ n.pc \in Computing
      BY <1>1, <2>1, <2>4, <3>1, LoadedTyped
    <3>3. Go(p, n) /\ docs' = docs
      BY <1>4, <2>4 DEF ReadDoc
    <3> HIDE DEF n
    <3>4. UpToDate(n, docs')
      BY <3>2, <3>3 DEF UpToDate, Keeps, Computing
    <3>5. QED BY <2>1, <3>2, <3>3, <3>4, GoAdvances
  <2>5. QED BY <2>1, <2>2, <2>3, <2>4
<1>5. QED BY <1>2, <1>3, <1>4

LEMMA MergeAdvances ==
    ASSUME Typed, NEW p \in Procs, Merge(p)
    PROVE  \E n \in Handlers : Advances(p, n)
<1> DEFINE r == proc[p]
           c == config[r.new.key]
           pay == IF r.origin = "device" THEN Sanitized(c, r.pay) ELSE r.pay
           val == Merged(r.old.val, pay, Touched(r.pay), r.override)
           n == [r EXCEPT !.new.val = val]
<1>1. r \in Handlers /\ Shaped(r) /\ r.pc = "merge"
  BY DEF Typed, ProcTyped, Merge
<1>2. CASE Finish(p)
  BY <1>1, <1>2, FinishAdvances DEF Merge
<1>3. CASE ~Refused(r, c, val) /\ Go(p, [n EXCEPT !.pc = AfterMerge(n)])
  <2>1. r.old.val \in Payloads /\ r.pay \in Payloads /\ r.override \in BOOLEAN
    BY <1>1 DEF Handlers, Doc
  <2>2. pay \in Payloads /\ \A i \in Items : pay[i] \in {r.pay[i], Absent}
    BY <2>1 DEF Sanitized, Payloads, Entries
  <2>3. r.origin = "device" \/ pay = r.pay
    OBVIOUS
  <2>4. val \in Payloads /\ Merges(val, r.old.val, r.pay, r.override, r.origin)
    <3> HIDE DEF pay, r
    <3>1. QED BY <2>1, <2>2, <2>3, MergedMerges
  <2>5. NoBad(val)
    BY <1>3 DEF Refused, NoBad
  <2>6. AfterMerge(n) \in {"defaults", "send", "save"}
    BY AfterPcs
  <2> DEFINE q == AfterMerge(n)
             m == [n EXCEPT !.pc = q]
  <2>7. Go(p, m) /\ docs' = docs
    BY <1>3 DEF Merge
  <2> HIDE DEF val, q
  <2>8. m \in Handlers /\ Shaped(m) /\ Keeps(r, m) /\ m.old = r.old /\ m.pc = q
    <3>1. r.pc \in Computing /\ q \in {"defaults", "send", "save"} /\ q \in Pcs
      BY <1>1, <2>6 DEF Computing, Pcs, q
    <3>2. /\ m \in Handlers /\ Keeps(r, m) /\ m.pc = q
          /\ m.old = r.old /\ m.new = [key |-> r.new.key, val |-> val]
      <4>1. /\ n \in Handlers /\ Keeps(r, n)
            /\ n.old = r.old /\ n.new = [key |-> r.new.key, val |-> val]
        <5> HIDE DEF r, q
        <5>1. QED BY <1>1, <2>4 DEF Handlers, Keeps, Doc
      <4> HIDE DEF r, n
      <4>2. m \in Handlers /\ Keeps(n, m) /\ m.pc = q /\ m.old = n.old /\ m.new = n.new
        BY <3>1, <4>1, PcMoved
      <4>3. QED BY <4>1, <4>2 DEF Keeps
    <3>3. q = "defaults" => r.kind = "add" \/ r.new.key # r.old.key
      <4>1. n.kind = r.kind /\ n.old = r.old /\ n.new.key = r.new.key
        <5> HIDE DEF r, val
        <5>1. QED BY <1>1 DEF Handlers, Doc
      <4> HIDE DEF r, n
      <4>2. QED BY <4>1 DEF q, AfterMerge, AfterDefaults
    <3>4. \A i \in Items \ Touched(r.pay) : val[i] = r.old.val[i]
      <4>1. \A i \in Items \ Touched(r.pay) : r.pay[i] = Absent
        BY DEF Touched, Named, SectionOf, Items
      <4>2. QED BY <2>2, <4>1 DEF val, Merged
    <3> HIDE DEF r, m
    <3>5. Limited(m)
      BY <3>2, <3>3, <3>4 DEF Limited, Keeps
    <3>6. Effect(m)
      BY <2>4, <3>2 DEF Effect, Keeps
    <3>7. QED BY <1>1, <2>5, <3>1, <3>2, <3>5, <3>6, ComputedTyped
  <2> HIDE DEF m
  <2>9. UpToDate(r, docs) => UpToDate(m, docs')
    BY <1>1, <2>6, <2>7, <2>8, StillUpToDate DEF Computing, q
  <2>10. QED BY <1>1, <2>7, <2>8, <2>9, GoAdvances
<1>4. QED BY <1>2, <1>3 DEF Merge

LEMMA DefaultsAdvance ==
    ASSUME Typed, NEW p \in Procs, Defaults(p)
    PROVE  \E n \in Handlers : Advances(p, n)
<1> DEFINE r == proc[p]
           c == config[r.new.key]
           val == WithDefaults(r.new.val, c)
           n == [r EXCEPT !.new.val = val]
           q == AfterDefaults(n)
           m == [n EXCEPT !.pc = q]
<1>1. r \in Handlers /\ Shaped(r) /\ r.pc = "defaults"
  BY DEF Typed, ProcTyped, Defaults
<1>2. r.new.key \in CKeys /\ Effect(r) /\ NoBad(r.new.val)
  BY <1>1 DEF Shaped, Computing
<1>3. c \in Configs \cup {NoConfig}
  BY <1>2 DEF Typed, WorldTyped
<1>4. /\ r.new.val \in Payloads /\ r.old.val \in Payloads /\ r.pay \in Payloads
      /\ r.override \in BOOLEAN
  BY <1>1 DEF Handlers, Doc
<1>5. val \in Payloads /\ NoBad(val) /\ Merges(val, r.old.val, r.pay, r.override, r.origin)
  <2> HIDE DEF c
  <2>1. QED BY <1>2, <1>3, <1>4, DefaultsMerge DEF Effect
<1>6. Go(p, m) /\ docs' = docs
  BY DEF Defaults
<1>7. q \in {"defaults", "send", "save"}
  BY AfterPcs
<1> HIDE DEF val, q
<1>8. m \in Handlers /\ Shaped(m) /\ Keeps(r, m) /\ m.old = r.old /\ m.pc = q
  <2>1. r.pc \in Computing /\ q \in Pcs
    BY <1>1, <1>7 DEF Computing, Pcs
  <2>2. /\ m \in Handlers /\ Keeps(r, m) /\ m.pc = q
        /\ m.old = r.old /\ m.new = [key |-> r.new.key, val |-> val]
    <3>1. /\ n \in Handlers /\ Keeps(r, n)
          /\ n.old = r.old /\ n.new = [key |-> r.new.key, val |-> val]
      <4> HIDE DEF r, q
      <4>1. QED BY <1>1, <1>5 DEF Handlers, Keeps, Doc
    <3> HIDE DEF r, n
    <3>2. m \in Handlers /\ Keeps(n, m) /\ m.pc = q /\ m.old = n.old /\ m.new = n.new
      BY <2>1, <3>1, PcMoved
    <3>3. QED BY <3>1, <3>2 DEF Keeps
  <2> HIDE DEF r, m
  <2>3. Effect(m)
    BY <1>5, <2>2 DEF Effect, Keeps
  <2>4. q \in {"send", "save"}
    BY AfterPcs DEF q
  <2>7. r.kind = "add" \/ r.new.key # r.old.key
    BY <1>1 DEF Shaped, Limited, Computing
  <2>5. Limited(m)
    BY <2>2, <2>4, <2>7 DEF Limited, Keeps
  <2>6. QED BY <1>1, <1>5, <1>7, <2>1, <2>2, <2>3, <2>5, ComputedTyped
<1> HIDE DEF m
<1>9. UpToDate(r, docs) => UpToDate(m, docs')
  BY <1>1, <1>6, <1>7, <1>8, StillUpToDate DEF Computing
<1>10. QED BY <1>1, <1>6, <1>8, <1>9, GoAdvances

\* The message changes nothing but the position and whether it was sent.
LEMMA SendAdvances ==
    ASSUME Typed, NEW p \in Procs, Send(p)
    PROVE  \E n \in Handlers : Advances(p, n)
<1> DEFINE r == proc[p]
<1>1. r \in Handlers /\ Shaped(r) /\ r.pc = "send"
  BY DEF Typed, ProcTyped, Send
<1>2. ASSUME NEW n \in Handlers, Keeps(r, n), n.old = r.old, n.new = r.new, n.pc = "save", Go(p, n)
      PROVE  \E m \in Handlers : Advances(p, m)
  <2>1. Effect(r) /\ NoBad(r.new.val) /\ Limited(r) /\ r.pc \in Computing
    BY <1>1 DEF Shaped, Computing
  <2>2. Effect(n) /\ Limited(n)
    BY <1>2, <2>1 DEF Effect, Limited, Keeps
  <2>3. Shaped(n)
    BY <1>1, <1>2, <2>1, <2>2, ComputedTyped
  <2>4. UpToDate(r, docs) => UpToDate(n, docs')
    BY <1>2, <2>1, StillUpToDate DEF Send, Computing
  <2>5. QED BY <1>1, <1>2, <2>3, <2>4, GoAdvances
<1>3. CASE Go(p, [r EXCEPT !.pc = "save", !.sent = TRUE])
  <2> DEFINE n == [r EXCEPT !.pc = "save", !.sent = TRUE]
  <2>1. n \in Handlers /\ Keeps(r, n) /\ n.old = r.old /\ n.new = r.new /\ n.pc = "save"
    <3> HIDE DEF r
    <3>1. QED BY <1>1 DEF Handlers, Keeps, Pcs
  <2>2. QED BY <1>2, <1>3, <2>1
<1>4. CASE Go(p, [r EXCEPT !.pc = "save"])
  <2> DEFINE n == [r EXCEPT !.pc = "save"]
  <2>1. n \in Handlers /\ Keeps(r, n) /\ n.old = r.old /\ n.new = r.new /\ n.pc = "save"
    <3> HIDE DEF r
    <3>1. QED BY <1>1 DEF Handlers, Keeps, Pcs
  <2>2. QED BY <1>2, <1>4, <2>1
<1>5. QED BY <1>3, <1>4 DEF Send

\* A handler that has saved has nothing left to compute.
LEMMA RepliedAdvances ==
    ASSUME NEW p \in Procs, proc[p] \in Handlers, Shaped(proc[p]), proc[p].pc = "save",
           NEW r \in Handlers, Keeps(proc[p], r), r.old = proc[p].old, Replied(p, r)
    PROVE  \E n \in Handlers : Advances(p, n)
<1>1. CASE Finish(p)
  BY <1>1, FinishAdvances
<1>2. CASE Go(p, [r EXCEPT !.pc = "reply"])
  <2> DEFINE n == [r EXCEPT !.pc = "reply"]
  <2>1. n \in Handlers /\ Keeps(r, n) /\ n.pc = "reply" /\ n.old = r.old
    BY PcMoved DEF Pcs
  <2> HIDE DEF n
  <2>2. Keeps(proc[p], n)
    BY <2>1 DEF Keeps
  <2>3. Shaped(n)
    BY <2>1, <2>2 DEF Shaped, Keeps, Computing
  <2>4. UpToDate(n, docs')
    BY <2>1 DEF UpToDate, Computing
  <2>5. QED BY <1>2, <2>1, <2>2, <2>3, <2>4, GoAdvances DEF n
<1>3. QED BY <1>1, <1>2 DEF Replied

LEMMA SavesAdvance ==
    ASSUME Typed, NEW p \in Procs, Save(p) \/ SaveRefused(p) \/ Insert(p) \/ Reply(p) \/ Delete(p)
    PROVE  \E n \in Handlers : Advances(p, n)
<1> DEFINE r == proc[p]
<1>1. r \in Handlers /\ Shaped(r) /\ r.pc \in {"save", "reply", "delete"}
  BY DEF Typed, ProcTyped, Save, SaveRefused, Insert, Reply, Delete
<1>2. CASE Finish(p)
  BY <1>1, <1>2, FinishAdvances
<1>3. CASE Save(p) /\ Replied(p, r)
  <2>1. Keeps(r, r) /\ r.pc = "save"
    BY <1>3 DEF Keeps, Save
  <2>2. QED BY <1>1, <1>3, <2>1, RepliedAdvances
<1>4. CASE Insert(p) /\ Replied(p, [r EXCEPT !.reply = r.new.val])
  <2> DEFINE n == [r EXCEPT !.reply = r.new.val]
  <2>1. n \in Handlers /\ Keeps(r, n) /\ n.old = r.old
    <3> HIDE DEF r
    <3>1. r.new.val \in [Items -> Entries \cup {Undeclared}]
      BY <1>1 DEF Handlers, Doc, Payloads
    <3>2. QED BY <1>1, <3>1 DEF Handlers, Keeps
  <2>2. r.pc = "save"
    BY <1>4 DEF Insert
  <2> HIDE DEF n
  <2>3. QED BY <1>1, <1>4, <2>1, <2>2, RepliedAdvances DEF n
<1>5. QED BY <1>2, <1>3, <1>4 DEF Save, SaveRefused, Insert, Reply, Delete

LEMMA ReconcileAdvances ==
    ASSUME Typed, NEW p \in Procs,
           (\E e \in proc[p].parsed : FindDevices(p, e)) \/ BulkWrite(p) \/ ReconcileEnds(p)
    PROVE  \E n \in Handlers : Advances(p, n)
<1> DEFINE r == proc[p]
<1>1. r \in Handlers /\ Shaped(r)
  BY DEF Typed, ProcTyped
<1>2. ASSUME NEW e \in r.parsed, FindDevices(p, e) PROVE \E n \in Handlers : Advances(p, n)
  <2> DEFINE ops == [id \in Ids |-> IF docs[id] # NoDevice /\ docs[id].key = e.key
                                    THEN [set |-> ToSet(docs[id].val, e.cfg),
                                          unset |-> ToUnset(docs[id].val, e.cfg)]
                                    ELSE NoDevice]
             n == [r EXCEPT !.pc = "bulk", !.ops = ops, !.parsed = @ \ {e},
                            !.new.key = e.key, !.reply = e.cfg.item]
  <2>1. e.key \in CKeys /\ e.cfg \in Configs \ {NoConfig} /\ r.pc = "find" /\ r.kind = "reconcile"
    BY <1>1, <1>2 DEF FindDevices, Handlers, Shaped
  <2>2. e.cfg.item \in Items2 /\ Items2 \subseteq [Items -> Entries \cup {Undeclared}]
    <3>1. e.cfg.item \in Items2
      BY <2>1, ConfigShape DEF Items2
    <3>2. Items2 \subseteq [Items -> Entries \cup {Undeclared}]
      BY DEF Items2, Entries
    <3>3. QED BY <3>1, <3>2
  <2>3. ASSUME NEW id \in Ids
        PROVE  /\ [set |-> ToSet(docs[id].val, e.cfg), unset |-> ToUnset(docs[id].val, e.cfg)] \in Ops
               /\ \A i \in ToSet(docs[id].val, e.cfg) :
                      e.cfg.item[i] # Undeclared /\ docs[id].val[i] = Absent
               /\ \A i \in ToUnset(docs[id].val, e.cfg) : e.cfg.item[i] = Undeclared
    BY <2>1 DEF ToSet, ToUnset, Ops, Declared, Declares, Described, SectionOf, Items
  <2>4. ops \in [Ids -> {NoDevice} \cup Ops]
    BY <2>3
  <2>5. \A id \in Ids : \/ ops[id] = NoDevice
                        \/ /\ \A i \in ops[id].set : e.cfg.item[i] # Undeclared
                           /\ \A i \in ops[id].set : docs[id].val[i] = Absent
                           /\ \A i \in ops[id].unset : e.cfg.item[i] = Undeclared
    BY <2>3
  <2>6. Go(p, n) /\ docs' = docs
    BY <1>2 DEF FindDevices
  <2>7. /\ n \in Handlers /\ Keeps(r, n) /\ n.pc = "bulk" /\ n.old = r.old
        /\ n.ops = ops /\ n.reply = e.cfg.item
    <3> HIDE DEF r, ops
    <3>1. r.parsed \ {e} \in SUBSET [key : CKeys, cfg : Configs \ {NoConfig}]
      BY <1>1 DEF Handlers
    <3>2. QED BY <1>1, <2>1, <2>2, <2>4, <3>1 DEF Handlers, Keeps, Pcs, Doc
  <2> HIDE DEF n, ops
  <2>8. n.kind = "reconcile"
    BY <2>1, <2>7 DEF Keeps
  <2>9. Shaped(n)
    BY <2>2, <2>5, <2>7, <2>8 DEF Shaped, Computing
  <2>10. UpToDate(n, docs')
    BY <2>5, <2>6, <2>7, <2>8 DEF UpToDate
  <2>11. QED BY <2>1, <2>6, <2>7, <2>9, <2>10, GoAdvances
<1>3. CASE BulkWrite(p)
  <2> DEFINE n == [r EXCEPT !.pc = "find", !.ops = NoProc.ops, !.reply = Nothing, !.new = Blank]
  <2>1. r.pc = "bulk" /\ r.kind = "reconcile" /\ Go(p, n)
    BY <1>1, <1>3 DEF BulkWrite, Shaped
  <2>2. NoProc.ops \in [Ids -> {NoDevice} \cup Ops]
    BY NoProcTyped DEF Handlers
  <2>3. Nothing \in [Items -> Entries \cup {Undeclared}] /\ Blank \in Doc
    BY NothingTyped DEF Payloads
  <2>4. n \in Handlers /\ Keeps(r, n) /\ n.pc = "find" /\ n.old = r.old
    <3> HIDE DEF r
    <3>1. QED BY <1>1, <2>2, <2>3 DEF Handlers, Keeps, Pcs
  <2> HIDE DEF n
  <2>5. n.kind = "reconcile"
    BY <2>1, <2>4 DEF Keeps
  <2>6. Shaped(n) /\ UpToDate(n, docs')
    BY <2>4, <2>5 DEF Shaped, UpToDate, Computing
  <2>7. QED BY <2>1, <2>4, <2>6, GoAdvances
<1>4. CASE ReconcileEnds(p)
  BY <1>4, FinishAdvances DEF ReconcileEnds
<1>5. QED BY <1>2, <1>3, <1>4

\* Every step of a handler takes it on with what it has taken on, or ends it.
LEMMA StepAdvances ==
    ASSUME Typed, NEW p \in Procs, Step(p)
    PROVE  \E n \in Handlers : Advances(p, n)
BY LookupsAdvance, MergeAdvances, DefaultsAdvance, SendAdvances, SavesAdvance, ReconcileAdvances
   DEF Step

(* ------------------------------- What is stored ---------------------------- *)

LEMMA WrittenTyped ==
    ASSUME NEW r \in Handlers, r.new.key \in CKeys, NoBad(r.new.val),
           NEW d \in Doc, d.key \in CKeys, NoBad(d.val)
    PROVE  Written(r, d) \in Doc /\ Written(r, d).key \in CKeys /\ NoBad(Written(r, d).val)
<1>1. r.new.val \in Payloads /\ d.val \in Payloads
  BY DEF Handlers, Doc
<1>2. Controls \subseteq Items
  BY DEF Items
<1>3. QED BY <1>1, <1>2 DEF Written, Doc, Payloads, NoBad

LEMMA TidiedTyped ==
    ASSUME NEW r \in Handlers, Shaped(r), r.pc = "bulk", DocsTyped, NEW id \in Ids,
           r.ops[id] # NoDevice, docs[id] # NoDevice
    PROVE  Tidied(r, id) \in Payloads /\ NoBad(Tidied(r, id))
<1>1. r.ops[id].set \subseteq Items /\ \A i \in r.ops[id].set : r.reply[i] \in Values \cup {Null}
  BY DEF Shaped, Handlers, Ops, Items2
<1>2. docs[id].val \in Payloads /\ NoBad(docs[id].val)
  BY DEF DocsTyped, Doc
<1>3. Controls \subseteq Items
  BY DEF Items
<1>4. ASSUME NEW i \in Items
      PROVE  Tidied(r, id)[i] = IF i \in r.ops[id].set THEN r.reply[i]
                                ELSE IF i \in r.ops[id].unset THEN Absent ELSE docs[id].val[i]
  BY DEF Tidied
<1>5. Tidied(r, id) \in Payloads
  BY <1>1, <1>2 DEF Tidied, Payloads, Entries
<1>6. NoBad(Tidied(r, id))
  BY <1>1, <1>2, <1>3, <1>4, Sentinels DEF NoBad
<1>7. QED BY <1>5, <1>6

\* The documents keep their shape when one is replaced.
LEMMA OneDocTyped ==
    ASSUME DocsTyped, NEW id \in Ids, NEW d \in Doc \cup {NoDevice}, docs' = [docs EXCEPT ![id] = d],
           d = NoDevice \/ (d \in Doc /\ d.key \in CKeys /\ NoBad(d.val))
    PROVE  DocsTyped'
BY DEF DocsTyped

LEMMA DocsStepTyped == ASSUME Typed, NEW p \in Procs, Step(p) PROVE DocsTyped'
<1> DEFINE r == proc[p]
<1>1. r \in Handlers /\ Shaped(r)
  BY DEF Typed, ProcTyped
<1>2. CASE UNCHANGED docs
  BY <1>2 DEF Typed, DocsTyped
<1>3. CASE Save(p) /\ docs[r.id] # NoDevice /\ docs' = [docs EXCEPT ![r.id] = Written(r, @)]
  <2>1. r.id \in Ids /\ r.new.key \in CKeys /\ NoBad(r.new.val)
    BY <1>1, <1>3 DEF Save, Shaped, Computing
  <2>2. docs[r.id] \in Doc /\ docs[r.id].key \in CKeys /\ NoBad(docs[r.id].val)
    BY <1>3, <2>1 DEF Typed, DocsTyped
  <2> DEFINE d == Written(r, docs[r.id])
  <2>3. d \in Doc /\ d.key \in CKeys /\ NoBad(d.val)
    BY <1>1, <2>1, <2>2, WrittenTyped
  <2>4. docs' = [docs EXCEPT ![r.id] = d]
    BY <1>3
  <2> HIDE DEF d
  <2>5. QED BY <2>1, <2>3, <2>4, OneDocTyped DEF Typed
<1>4. CASE Insert(p) /\ docs' = [docs EXCEPT ![r.id] = r.new]
  <2>1. r.id \in Ids /\ r.new \in Doc /\ r.new.key \in CKeys /\ NoBad(r.new.val)
    BY <1>1, <1>4 DEF Insert, Shaped, Computing, Handlers
  <2>2. QED BY <1>4, <2>1, OneDocTyped DEF Typed
<1>5. CASE Delete(p)
  <2>1. r.id \in Ids /\ docs' = [docs EXCEPT ![r.id] = NoDevice]
    BY <1>1, <1>5 DEF Delete, Shaped
  <2>2. QED BY <2>1, OneDocTyped DEF Typed
<1>6. CASE BulkWrite(p)
  <2> DEFINE hit == {id \in Ids : r.ops[id] # NoDevice /\ docs[id] # NoDevice}
  <2>1. /\ r.pc = "bulk"
        /\ docs' = [id \in Ids |-> IF id \in hit THEN [docs[id] EXCEPT !.val = Tidied(r, id)]
                                   ELSE docs[id]]
    BY <1>6 DEF BulkWrite
  <2>2. ASSUME NEW id \in hit
        PROVE  LET d == [docs[id] EXCEPT !.val = Tidied(r, id)] IN
               d \in Doc /\ d.key \in CKeys /\ NoBad(d.val)
    <3>1. Tidied(r, id) \in Payloads /\ NoBad(Tidied(r, id))
      BY <1>1, <2>1, TidiedTyped DEF Typed
    <3>2. docs[id] \in Doc /\ docs[id].key \in CKeys
      BY DEF Typed, DocsTyped
    <3>3. QED BY <3>1, <3>2 DEF Doc
  <2> HIDE DEF hit
  <2>3. docs' \in [Ids -> Doc \cup {NoDevice}]
    BY <2>1, <2>2 DEF Typed, DocsTyped
  <2>4. QED BY <2>1, <2>2, <2>3 DEF Typed, DocsTyped
<1>7. UNCHANGED docs \/ Save(p) \/ Insert(p) \/ Delete(p) \/ BulkWrite(p)
  BY DEF Step, LookupByIp, LookupName, ReadDoc, Merge, Defaults, Send, SaveRefused, Reply,
         FindDevices, ReconcileEnds
<1>8. QED BY <1>2, <1>3, <1>4, <1>5, <1>6, <1>7 DEF Save, Insert

LEMMA ReceivedTyped ==
    ASSUME WorldTyped, NEW id \in Ids, NEW val, Received(id, val)
    PROVE  device' \in [Ids -> [Controls -> Values]]
           /\ reports' \in [Ids -> Seq([Controls -> Values])]
<1>1. device[id] \in [Controls -> Values]
  BY DEF WorldTyped
<1>2. Applied(device[id], val) \in [Controls -> Values]
  BY <1>1 DEF Applied
<1>3. Append(reports[id], Applied(device[id], val)) \in Seq([Controls -> Values])
  BY <1>2 DEF WorldTyped
<1>4. device' \in [Ids -> [Controls -> Values]]
  BY <1>2 DEF Received, WorldTyped
<1>5. reports' \in [Ids -> Seq([Controls -> Values])]
  BY <1>3 DEF Received, WorldTyped
<1>6. QED BY <1>4, <1>5

LEMMA WorldStepTyped == ASSUME Typed, NEW p \in Procs, Step(p) PROVE WorldTyped'
<1>1. proc[p].pc \in {"send", "reply"} => proc[p].id \in Ids
  <2>1. proc[p] \in Handlers /\ Shaped(proc[p])
    BY DEF Typed, ProcTyped
  <2>2. proc[p].kind \in Kinds
    BY <2>1 DEF Handlers
  <2>3. QED BY <2>1, <2>2 DEF Shaped, Computing, Kinds
<1>2. CASE UNCHANGED <<config, device, reports>>
  BY <1>2 DEF Typed, WorldTyped
<1>3. CASE Send(p) /\ Received(proc[p].id, Message(proc[p]))
  BY <1>1, <1>3, ReceivedTyped DEF Send, Typed, WorldTyped
<1>4. CASE Reply(p)
  BY <1>1, <1>4, ReceivedTyped DEF Reply, Typed, WorldTyped
<1>5. QED BY <1>2, <1>3, <1>4
          DEF Step, LookupByIp, LookupName, ReadDoc, Merge, Defaults, Send, Save, SaveRefused,
              Insert, Delete, FindDevices, BulkWrite, ReconcileEnds

LEMMA FlagsStepTyped == ASSUME Typed, NEW p \in Procs, Step(p) PROVE (FlagsTyped /\ BoundsTyped)'
<1> USE DEF Typed, FlagsTyped, BoundsTyped
<1>1. CASE UNCHANGED <<astray, loose, lost, calls>>
  BY <1>1
<1>2. CASE Merge(p)
  <2>1. PICK dropped \in BOOLEAN :
            astray' = [astray EXCEPT ![proc[p].id] = astray[proc[p].id] \/ dropped]
    BY <1>2 DEF Merge
  <2>2. astray' \in [Ids -> BOOLEAN]
    BY <2>1
  <2>3. QED BY <1>2, <2>2 DEF Merge
<1>3. CASE Send(p)
  <2>1. astray' \in [Ids -> BOOLEAN]
    BY <1>3 DEF Send
  <2>2. lost' \in 0 .. MaxSends
    BY <1>3, Bounds DEF Send
  <2>3. QED BY <1>3, <2>1, <2>2 DEF Send
<1>4. CASE Save(p)
  <2>1. astray' \in [Ids -> BOOLEAN]
    BY <1>4 DEF Save
  <2>2. loose' \in [Ids -> BOOLEAN]
    BY <1>4 DEF Save
  <2>3. QED BY <1>4, <2>1, <2>2 DEF Save
<1>5. CASE Insert(p)
  <2>1. astray' \in [Ids -> BOOLEAN]
    BY <1>5 DEF Insert, Filled
  <2>2. loose' \in [Ids -> BOOLEAN]
    BY <1>5 DEF Insert
  <2>3. QED BY <1>5, <2>1, <2>2 DEF Insert
<1>6. CASE BulkWrite(p)
  <2>1. astray' \in [Ids -> BOOLEAN]
    BY <1>6 DEF BulkWrite
  <2>2. loose' \in [Ids -> BOOLEAN]
    BY <1>6 DEF BulkWrite
  <2>3. QED BY <1>6, <2>1, <2>2 DEF BulkWrite
<1>7. QED BY <1>1, <1>2, <1>3, <1>4, <1>5, <1>6
          DEF Step, LookupByIp, LookupName, ReadDoc, Defaults, SaveRefused, Reply, Delete,
              FindDevices, ReconcileEnds

(* ------------------------------ New requests ------------------------------- *)

\* A handler at one of its first awaits has read nothing yet.
\* Where a handler takes on its request.
Starts == {"ip", "name", "read", "find"}

LEMMA StartShaped ==
    ASSUME NEW r \in Handlers,
           \/ r.pc = "read" /\ r.kind \in {"update", "remove"} /\ r.id \in Ids
           \/ r.pc = "name" /\ r.kind = "add" /\ r.id \in Ids /\ r.key \in CKeys /\ r.old = Blank
           \/ /\ r.pc = "ip" /\ r.kind = "update" /\ r.pair = TRUE /\ r.id \in Ids
              /\ r.key \in CKeys /\ r.old = Blank
           \/ r.pc = "find" /\ r.kind = "reconcile"
    PROVE  Shaped(r) /\ r.pc \in Starts /\ \A ds : UpToDate(r, ds)
BY DEF Starts, Shaped, UpToDate, Computing

Begins(p, r) == r \in Handlers /\ Start(p, r) /\ Shaped(r) /\ r.pc \in Starts
                /\ UpToDate(r, docs)

LEMMA RequestBegins ==
    ASSUME Typed, NEW p \in Procs, Request(p) \/
           \E k \in CKeys, c \in Configs \cup {NoConfig} : ConfigsChanged(p, k, c)
    PROVE  (\E r : Begins(p, r)) /\ UNCHANGED docs
<1>1. ASSUME NEW id \in Ids, NEW i \in Items, NEW v \in Values \cup {Bad}, NEW ov \in BOOLEAN,
             ApiUpdate(p, id, i, v, ov)
      PROVE  (\E r : Begins(p, r)) /\ UNCHANGED docs
  <2> DEFINE pay == Only(i, v)
             u == UpdateOf(id, pay, TRUE, "api")
             r == [u EXCEPT !.override = ov]
  <2>1. u \in Handlers /\ u.pc = "read" /\ u.kind = "update" /\ u.id = id
    <3>1. pay \in Payloads
      BY OnlyTyped
    <3> HIDE DEF pay
    <3>2. QED BY <3>1, NoProcTyped DEF UpdateOf, Handlers, Pcs, Kinds
  <2>2. Start(p, r) /\ UNCHANGED docs
    BY <1>1 DEF ApiUpdate
  <2> HIDE DEF u
  <2>3. r \in Handlers /\ r.pc = "read" /\ r.kind = "update" /\ r.id = id
    BY <2>1 DEF Handlers
  <2> HIDE DEF r
  <2>4. QED BY <2>2, <2>3, StartShaped DEF Begins
<1>2. ASSUME NEW id \in Ids, NEW k \in CKeys, ApiRekey(p, id, k)
      PROVE  (\E r : Begins(p, r)) /\ UNCHANGED docs
  <2> DEFINE pay == Nothing
             u == UpdateOf(id, pay, TRUE, "api")
             r == [u EXCEPT !.key = k]
  <2>1. u \in Handlers /\ u.pc = "read" /\ u.kind = "update" /\ u.id = id
    <3>1. pay \in Payloads
      BY NothingTyped
    <3> HIDE DEF pay
    <3>2. QED BY <3>1, NoProcTyped DEF UpdateOf, Handlers, Pcs, Kinds
  <2>2. Start(p, r) /\ UNCHANGED docs
    BY <1>2 DEF ApiRekey
  <2> HIDE DEF u
  <2>3. r \in Handlers /\ r.pc = "read" /\ r.kind = "update" /\ r.id = id
    BY <2>1 DEF Handlers
  <2> HIDE DEF r
  <2>4. QED BY <2>2, <2>3, StartShaped DEF Begins
<1>3. ASSUME NEW id \in Ids, NEW k \in CKeys, ApiAdd(p, id, k)
      PROVE  (\E r : Begins(p, r)) /\ UNCHANGED docs
  <2> DEFINE r == [NoProc EXCEPT !.pc = "name", !.kind = "add", !.id = id, !.key = k]
  <2>1. r \in Handlers /\ r.pc = "name" /\ r.kind = "add" /\ r.id = id /\ r.key = k
        /\ r.old = NoProc.old
    BY NoProcTyped DEF Handlers, Pcs, Kinds
  <2>2. Start(p, r) /\ UNCHANGED docs
    BY <1>3 DEF ApiAdd
  <2> HIDE DEF r
  <2>3. QED BY <2>1, <2>2, NoProcTyped, StartShaped DEF Begins
<1>4. ASSUME NEW id \in Ids, NEW k \in CKeys, NEW v \in Values \cup {Absent}, PairRequest(p, id, k, v)
      PROVE  (\E r : Begins(p, r)) /\ UNCHANGED docs
  <2> DEFINE pay == [i \in Items |-> IF i \in Controls THEN device[id][i] ELSE v]
             r == [NoProc EXCEPT !.pc = "ip", !.id = id, !.kind = "update", !.pair = TRUE,
                                 !.key = k, !.origin = "device", !.pay = pay]
  <2>1. pay \in Payloads
    BY DEF Typed, WorldTyped, Payloads, Entries
  <2>2. Start(p, r) /\ UNCHANGED docs
    BY <1>4 DEF PairRequest
  <2> HIDE DEF pay
  <2>3. r \in Handlers /\ r.pc = "ip" /\ r.kind = "update" /\ r.id = id /\ r.key = k
        /\ r.pair = TRUE /\ r.old = NoProc.old
    BY <2>1, NoProcTyped DEF Handlers, Pcs, Kinds
  <2> HIDE DEF r
  <2>4. QED BY <2>2, <2>3, NoProcTyped, StartShaped DEF Begins
<1>5. ASSUME NEW id \in Ids, ApiRemove(p, id)
      PROVE  (\E r : Begins(p, r)) /\ UNCHANGED docs
  <2> DEFINE r == [NoProc EXCEPT !.pc = "read", !.kind = "remove", !.id = id]
  <2>1. r \in Handlers /\ r.pc = "read" /\ r.kind = "remove" /\ r.id = id
    BY NoProcTyped DEF Handlers, Pcs, Kinds
  <2>2. Start(p, r) /\ UNCHANGED docs
    BY <1>5 DEF ApiRemove
  <2> HIDE DEF r
  <2>3. QED BY <2>1, <2>2, StartShaped DEF Begins
<1>6. ASSUME NEW id \in Ids, Report(p, id)
      PROVE  (\E r : Begins(p, r)) /\ UNCHANGED docs
  <2> DEFINE state == Head(reports[id])
             pay == [i \in Items |-> IF i \in Controls THEN state[i] ELSE Absent]
             r == UpdateOf(id, pay, FALSE, "device")
  <2>1. state \in [Controls -> Values]
    BY <1>6, HeadTailProperties DEF Report, Typed, WorldTyped
  <2>2. pay \in Payloads
    <3> HIDE DEF state
    <3>1. QED BY <2>1 DEF Payloads, Entries
  <2>3. Start(p, r) /\ UNCHANGED docs
    BY <1>6 DEF Report
  <2> HIDE DEF pay
  <2>4. r \in Handlers /\ r.pc = "read" /\ r.kind = "update" /\ r.id = id
    BY <2>2, NoProcTyped DEF UpdateOf, Handlers, Pcs, Kinds
  <2> HIDE DEF r
  <2>5. QED BY <2>3, <2>4, StartShaped DEF Begins
<1>7. ASSUME NEW id \in Ids, NEW i \in Measurements, NEW v \in Values \cup {Bad},
             Measure(p, id, i, v)
      PROVE  (\E r : Begins(p, r)) /\ UNCHANGED docs
  <2> DEFINE pay == Only(i, v)
             r == UpdateOf(id, pay, TRUE, "device")
  <2>1. i \in Items
    BY DEF Items
  <2>2. r \in Handlers /\ r.pc = "read" /\ r.kind = "update" /\ r.id = id
    <3>1. pay \in Payloads
      BY <2>1, OnlyTyped
    <3> HIDE DEF pay
    <3>2. QED BY <3>1, NoProcTyped DEF UpdateOf, Handlers, Pcs, Kinds
  <2>3. Start(p, r) /\ UNCHANGED docs
    BY <1>7 DEF Measure
  <2> HIDE DEF r
  <2>4. QED BY <2>2, <2>3, StartShaped DEF Begins
<1>8. ASSUME NEW k \in CKeys, NEW c \in Configs \cup {NoConfig}, ConfigsChanged(p, k, c)
      PROVE  (\E r : Begins(p, r)) /\ UNCHANGED docs
  <2> DEFINE parsed == [config EXCEPT ![k] = c]
             news == {[key |-> j, cfg |-> parsed[j]] : j \in {l \in CKeys : parsed[l] # NoConfig}}
             r == [NoProc EXCEPT !.pc = "find", !.kind = "reconcile", !.parsed = news]
  <2>1. \A j \in CKeys : parsed[j] \in Configs \cup {NoConfig}
    BY DEF Typed, WorldTyped
  <2>2. Start(p, r) /\ UNCHANGED docs
    BY <1>8 DEF ConfigsChanged
  <2> HIDE DEF parsed
  <2>3. news \subseteq [key : CKeys, cfg : Configs \ {NoConfig}]
    BY <2>1
  <2> HIDE DEF news
  <2>4. r \in Handlers /\ r.pc = "find" /\ r.kind = "reconcile"
    BY <2>3, NoProcTyped DEF Handlers, Pcs, Kinds
  <2> HIDE DEF r
  <2>5. QED BY <2>2, <2>4, StartShaped DEF Begins
<1>9. QED BY <1>1, <1>2, <1>3, <1>4, <1>5, <1>6, <1>7, <1>8 DEF Request

LEMMA RequestTyped ==
    ASSUME Typed, NEW p \in Procs, Request(p) \/
           \E k \in CKeys, c \in Configs \cup {NoConfig} : ConfigsChanged(p, k, c)
    PROVE  Typed'
<1>1. PICK r : Begins(p, r)
  BY RequestBegins
<1>2. ProcTyped'
  BY <1>1 DEF Begins, Start, Typed, ProcTyped
<1>3. DocsTyped'
  BY RequestBegins DEF Typed, DocsTyped
<1>4. WorldTyped'
  <2>1. CASE UNCHANGED <<config, device, reports>>
    BY <2>1 DEF Typed, WorldTyped
  <2>2. ASSUME NEW id \in Ids, Report(p, id) PROVE WorldTyped'
    <3>1. Tail(reports[id]) \in Seq([Controls -> Values])
      BY <2>2, HeadTailProperties DEF Report, Typed, WorldTyped
    <3>2. QED BY <2>2, <3>1 DEF Report, Typed, WorldTyped
  <2>3. ASSUME NEW k \in CKeys, NEW c \in Configs \cup {NoConfig}, ConfigsChanged(p, k, c)
        PROVE  WorldTyped'
    BY <2>3 DEF ConfigsChanged, Typed, WorldTyped
  <2>4. QED BY <2>1, <2>2, <2>3
            DEF Request, ApiUpdate, ApiRekey, ApiAdd, PairRequest, ApiRemove, Measure
<1>5. UNCHANGED <<astray, loose, lost>>
  BY DEF Request, ApiUpdate, ApiRekey, ApiAdd, PairRequest, ApiRemove, Report, Measure,
         ConfigsChanged
<1>6. FlagsTyped' /\ BoundsTyped'
  BY <1>1, <1>5, Bounds DEF Begins, Start, Typed, FlagsTyped, BoundsTyped
<1>7. QED BY <1>2, <1>3, <1>4, <1>6 DEF Typed

LEMMA DeviceActsTyped ==
    ASSUME Typed, NEW id \in Ids, NEW i \in Controls, NEW v \in Values, DeviceActs(id, i, v)
    PROVE  Typed'
<1>1. device[id] \in [Controls -> Values]
  BY DEF Typed, WorldTyped
<1>2. [device[id] EXCEPT ![i] = v] \in [Controls -> Values]
  BY <1>1
<1>3. device' \in [Ids -> [Controls -> Values]]
  BY <1>2 DEF DeviceActs, Typed, WorldTyped
<1>4. Append(reports[id], [device[id] EXCEPT ![i] = v]) \in Seq([Controls -> Values])
  BY <1>2 DEF Typed, WorldTyped
<1>5. reports' \in [Ids -> Seq([Controls -> Values])]
  BY <1>4 DEF DeviceActs, Typed, WorldTyped
<1>6. calls' \in 0 .. MaxCalls
  BY Bounds DEF DeviceActs, Typed, BoundsTyped
<1>7. QED BY <1>3, <1>5, <1>6
          DEF DeviceActs, Typed, DocsTyped, WorldTyped, FlagsTyped, BoundsTyped, ProcTyped

LEMMA StepTyped == ASSUME Typed, NEW p \in Procs, Step(p) PROVE Typed'
<1>1. PICK n \in Handlers : Advances(p, n)
  BY StepAdvances
<1>2. ProcTyped'
  BY <1>1 DEF Advances, Typed, ProcTyped
<1>3. QED BY <1>2, DocsStepTyped, WorldStepTyped, FlagsStepTyped DEF Typed

LEMMA InitTyped == Init => Typed
<1> SUFFICES ASSUME Init PROVE Typed
  OBVIOUS
<1>1. DocsTyped
  <2>1. ASSUME NEW id \in Ids, docs[id] # NoDevice
        PROVE  docs[id] \in Doc /\ docs[id].key \in CKeys /\ NoBad(docs[id].val)
    <3>1. PICK k \in CKeys : docs[id] = [key |-> k, val |-> Nothing]
      BY <2>1 DEF Init
    <3>2. NoBad(Nothing)
      BY NothingTyped, Sentinels DEF NoBad, Items
    <3>3. QED BY <3>1, <3>2, NothingTyped DEF Doc
  <2>2. docs \in [Ids -> Doc \cup {NoDevice}]
    BY <2>1 DEF Init
  <2>3. QED BY <2>1, <2>2 DEF DocsTyped
<1>2. WorldTyped /\ FlagsTyped /\ BoundsTyped
  BY Bounds DEF Init, WorldTyped, FlagsTyped, BoundsTyped
<1>3. ProcTyped
  BY NoProcTyped DEF Init, ProcTyped
<1>4. QED BY <1>1, <1>2, <1>3 DEF Typed

LEMMA NextTyped == Typed /\ [Next]_vars => Typed'
<1> SUFFICES ASSUME Typed, [Next]_vars PROVE Typed'
  OBVIOUS
<1>1. CASE UNCHANGED vars
  BY <1>1 DEF vars, Typed, DocsTyped, WorldTyped, FlagsTyped, BoundsTyped, ProcTyped
<1>2. CASE Next
  BY <1>2, StepTyped, RequestTyped, DeviceActsTyped DEF Next
<1>3. QED BY <1>1, <1>2

LEMMA AlwaysTyped == Spec => []Typed
BY InitTyped, NextTyped, PTL DEF Spec

\* However requests, reports, pairings, changed configurations and lost messages
\* overlap, every stored device has a configuration key, and no control that the
\* brand's validation refuses is ever stored: not by a merge, not by a default,
\* not by a reconciliation, not by a save over a document that changed meanwhile.
THEOREM TypeCorrect == Spec => []TypeOK
BY AlwaysTyped, TypedSuffices, PTL

(* ---------------------------- Handlers take turns --------------------------- *)

\* No two handlers that may write the same entries are in flight at once.
Apart == \A p, q \in Procs : p # q => ~Conflict(proc[p], proc[q])
Fresh == \A p \in Procs : UpToDate(proc[p], docs)

\* What a step of a handler stores stays within what the handler writes.
Within(r) ==
    \A id \in Ids :
        \/ docs'[id] = docs[id]
        \/ /\ id = r.id \/ r.kind = "reconcile"
           /\ \/ Writes(r) = Items
              \/ /\ docs[id] # NoDevice /\ docs'[id] # NoDevice
                 /\ docs'[id].key = docs[id].key
                 /\ \A i \in Items \ Writes(r) : docs'[id].val[i] = docs[id].val[i]

LEMMA WritesItems == \A r : Writes(r) \subseteq Items
BY DEF Writes, Touched, SectionOf, Items

\* Whoever takes turns with the handler that stores has still what is stored.
LEMMA OthersUpToDate ==
    ASSUME NEW r, NEW q \in Handlers, ~Conflict(r, q), r.pc # "idle", Within(r), Shaped(q),
           UpToDate(q, docs)
    PROVE  UpToDate(q, docs')
<1>1. ASSUME q.kind = "update", q.pc \in Computing, docs'[q.id] # NoDevice,
             NEW i \in Writes(q)
      PROVE  docs'[q.id].val[i] = q.old.val[i]
  <2>1. q.id \in Ids /\ q.pc # "idle" /\ i \in Items
    BY <1>1, WritesItems DEF Shaped, Computing
  <2>2. CASE docs'[q.id] = docs[q.id]
    BY <1>1, <2>2 DEF UpToDate
  <2>3. CASE docs'[q.id] # docs[q.id]
    <3>1. (r.id = q.id \/ r.kind = "reconcile") /\ i \notin Writes(r)
      BY <1>1, <2>1, <2>3 DEF Within, Conflict
    <3>2. docs[q.id] # NoDevice /\ docs'[q.id].val[i] = docs[q.id].val[i]
      BY <2>1, <2>3, <3>1 DEF Within
    <3>3. QED BY <1>1, <3>2 DEF UpToDate
  <2>4. QED BY <2>2, <2>3
<1>2. ASSUME q.pc = "bulk", NEW id \in Ids, q.ops[id] # NoDevice, docs'[id] # NoDevice,
             NEW i \in q.ops[id].set
      PROVE  docs'[id].val[i] = Absent
  <2>1. q.kind = "reconcile" /\ i \in Items
    BY <1>2 DEF Shaped, Handlers, Ops
  <2>2. Writes(q) = Items
    BY <2>1 DEF Writes
  <2>3. i \notin Writes(r)
    BY <1>2, <2>1, <2>2 DEF Conflict
  <2>4. docs[id] # NoDevice /\ docs'[id].val[i] = docs[id].val[i]
    BY <1>2, <2>1, <2>3 DEF Within
  <2>5. QED BY <1>2, <2>4 DEF UpToDate
<1>3. ASSUME q.kind = "update", q.pc \in Computing, docs'[q.id] # NoDevice, Writes(q) # {}
      PROVE  docs'[q.id].key = q.old.key
  <2>1. q.id \in Ids /\ q.pc # "idle"
    BY <1>3 DEF Shaped, Computing
  <2>2. CASE docs'[q.id] = docs[q.id]
    BY <1>3, <2>2 DEF UpToDate
  <2>3. CASE docs'[q.id] # docs[q.id]
    <3>1. (r.id = q.id \/ r.kind = "reconcile") /\ Writes(r) \cap Writes(q) = {}
      BY <2>1, <2>3 DEF Within, Conflict
    <3>2. Writes(r) # Items
      BY <1>3, <3>1, WritesItems
    <3>3. docs[q.id] # NoDevice /\ docs'[q.id].key = docs[q.id].key
      BY <2>1, <2>3, <3>2 DEF Within
    <3>4. QED BY <1>3, <3>3 DEF UpToDate
  <2>4. QED BY <2>2, <2>3
<1>4. QED BY <1>1, <1>2, <1>3 DEF UpToDate

LEMMA StepWithin == ASSUME Typed, NEW p \in Procs, Step(p) PROVE Within(proc[p])
<1> DEFINE r == proc[p]
<1>1. r \in Handlers /\ Shaped(r)
  BY DEF Typed, ProcTyped
<1>2. CASE UNCHANGED docs
  BY <1>2 DEF Within
<1>3. CASE Save(p) /\ docs[r.id] # NoDevice /\ docs' = [docs EXCEPT ![r.id] = Written(r, @)]
  <2>1. r.kind = "update" /\ r.pc \in Computing /\ Limited(r) /\ r.id \in Ids
        /\ (r.new.key # r.old.key => r.key # NoKey)
    BY <1>1, <1>3 DEF Save, Shaped, Computing
  <2>2. CASE Writes(r) = Items
    BY <1>3, <2>2 DEF Within, Typed, DocsTyped
  <2>3. CASE Writes(r) # Items
    <3>1. Writes(r) = Touched(r.pay) /\ r.new.key = r.old.key
      BY <2>1, <2>3 DEF Writes
    <3>2. ASSUME NEW i \in Items \ Writes(r), NEW j \in Items, i \in SectionOf(j)
          PROVE  r.new.val[j] = r.old.val[j]
      <4>1. j \notin Touched(r.pay)
        BY <3>1, <3>2, SectionTouched
      <4>2. QED BY <2>1, <3>1, <4>1 DEF Limited
    <3>3. ASSUME NEW i \in Items \ Writes(r)
          PROVE  Written(r, docs[r.id]).val[i] = docs[r.id].val[i]
      BY <3>2 DEF Written
    <3>6. Written(r, docs[r.id]).key = docs[r.id].key
      BY <3>1 DEF Written
    <3>4. docs'[r.id] = Written(r, docs[r.id]) /\ \A id \in Ids \ {r.id} : docs'[id] = docs[id]
      BY <1>3, <2>1 DEF Typed, DocsTyped
    <3>7. Written(r, docs[r.id]) # NoDevice
      <4>1. /\ r.new.key \in CKeys /\ NoBad(r.new.val)
            /\ docs[r.id] \in Doc /\ docs[r.id].key \in CKeys /\ NoBad(docs[r.id].val)
        BY <1>1, <1>3, <2>1 DEF Shaped, Typed, DocsTyped
      <4>2. Written(r, docs[r.id]) \in Doc
        BY <1>1, <4>1, WrittenTyped
      <4>3. QED BY <4>2, NoSuch
    <3>5. QED BY <1>3, <3>3, <3>4, <3>6, <3>7 DEF Within
  <2>4. QED BY <2>2, <2>3
<1>4. CASE Insert(p) /\ docs' = [docs EXCEPT ![r.id] = r.new]
  <2>1. Writes(r) = Items
    BY <1>4 DEF Insert, Writes
  <2>2. QED BY <1>4, <2>1 DEF Within, Typed, DocsTyped
<1>5. CASE Delete(p)
  <2>1. Writes(r) = Items /\ docs' = [docs EXCEPT ![r.id] = NoDevice]
    BY <1>1, <1>5 DEF Delete, Writes, Shaped
  <2>2. QED BY <2>1 DEF Within, Typed, DocsTyped
<1>6. CASE BulkWrite(p)
  <2>1. r.kind = "reconcile" /\ Writes(r) = Items
    BY <1>1, <1>6 DEF BulkWrite, Writes, Shaped
  <2>2. QED BY <2>1 DEF Within
<1>7. UNCHANGED docs \/ Save(p) \/ Insert(p) \/ Delete(p) \/ BulkWrite(p)
  BY DEF Step, LookupByIp, LookupName, ReadDoc, Merge, Defaults, Send, SaveRefused, Reply,
         FindDevices, ReconcileEnds
<1>8. QED BY <1>2, <1>3, <1>4, <1>5, <1>6, <1>7 DEF Save, Insert

LEMMA ConflictSymmetric == \A r, q : Conflict(r, q) => Conflict(q, r)
BY DEF Conflict

InTurn == Typed /\ Apart /\ Fresh

LEMMA InitInTurn == Init => InTurn
<1> SUFFICES ASSUME Init PROVE InTurn
  OBVIOUS
<1>1. \A p \in Procs : proc[p] = NoProc
  BY DEF Init
<1>2. QED BY <1>1, InitTyped, NoProcTyped DEF InTurn, Apart, Fresh, Conflict, UpToDate

LEMMA StepInTurn == ASSUME InTurn, NEW p \in Procs, Step(p) PROVE InTurn'
<1>1. Typed /\ Typed' /\ proc \in [Procs -> Handlers]
  BY StepTyped DEF InTurn, Typed, ProcTyped
<1>2. PICK n \in Handlers : Advances(p, n)
  BY <1>1, StepAdvances
<1>3. proc'[p] = n /\ \A q \in Procs \ {p} : proc'[q] = proc[q]
  BY <1>1, <1>2 DEF Advances
<1>4. ASSUME NEW q \in Procs \ {p} PROVE ~Conflict(n, proc[q])
  <2>1. ~Conflict(proc[p], proc[q]) /\ Continues(proc[p], n)
    BY <1>2 DEF InTurn, Apart, Advances
  <2>2. CASE n.pc = "idle"
    BY <2>2 DEF Conflict
  <2>3. CASE n.pc # "idle"
    <3>1. /\ n.id = proc[p].id /\ Writes(n) = Writes(proc[p]) /\ proc[p].pc # "idle"
          /\ n.kind = "reconcile" <=> proc[p].kind = "reconcile"
      BY <2>1, <2>3 DEF Continues
    <3>2. QED BY <2>1, <2>3, <3>1 DEF Conflict
  <2>4. QED BY <2>2, <2>3
<1>5. Apart'
  <2>1. ASSUME NEW a \in Procs, NEW b \in Procs, a # b PROVE ~Conflict(proc'[a], proc'[b])
    <3>1. CASE a # p /\ b # p
      BY <1>3, <2>1, <3>1 DEF InTurn, Apart
    <3>2. CASE a = p
      BY <1>3, <1>4, <2>1, <3>2
    <3>3. CASE b = p
      BY <1>3, <1>4, <2>1, <3>3, ConflictSymmetric
    <3>4. QED BY <3>1, <3>2, <3>3
  <2>2. QED BY <2>1 DEF Apart
<1>6. Fresh'
  <2>1. UpToDate(n, docs')
    BY <1>2 DEF Advances, InTurn, Fresh
  <2>2. ASSUME NEW q \in Procs \ {p} PROVE UpToDate(proc[q], docs')
    <3>1. ~Conflict(proc[p], proc[q]) /\ UpToDate(proc[q], docs) /\ proc[p].pc # "idle"
      BY <1>2 DEF InTurn, Apart, Fresh, Advances, Continues
    <3>2. Within(proc[p]) /\ Shaped(proc[q]) /\ proc[q] \in Handlers
      BY <1>1, StepWithin DEF Typed, ProcTyped
    <3>3. QED BY <3>1, <3>2, OthersUpToDate
  <2>3. QED BY <1>3, <2>1, <2>2 DEF Fresh
<1>7. QED BY <1>1, <1>5, <1>6 DEF InTurn

LEMMA RequestInTurn ==
    ASSUME Exclusive = TRUE, InTurn, NEW p \in Procs, Request(p) \/
           \E k \in CKeys, c \in Configs \cup {NoConfig} : ConfigsChanged(p, k, c)
    PROVE  InTurn'
<1>1. Typed /\ Typed' /\ proc \in [Procs -> Handlers]
  BY RequestTyped DEF InTurn, Typed, ProcTyped
<1>2. PICK r : Begins(p, r)
  BY <1>1, RequestBegins
<1>3. proc'[p] = r /\ \A q \in Procs \ {p} : proc'[q] = proc[q]
  BY <1>1, <1>2 DEF Begins, Start
<1>4. \A q \in Procs : ~Conflict(r, proc[q])
  BY <1>2 DEF Begins, Start
<1>5. Apart'
  <2>1. ASSUME NEW a \in Procs, NEW b \in Procs, a # b PROVE ~Conflict(proc'[a], proc'[b])
    <3>1. CASE a # p /\ b # p
      BY <1>3, <2>1, <3>1 DEF InTurn, Apart
    <3>2. CASE a = p
      BY <1>3, <1>4, <2>1, <3>2
    <3>3. CASE b = p
      BY <1>3, <1>4, <2>1, <3>3, ConflictSymmetric
    <3>4. QED BY <3>1, <3>2, <3>3
  <2>2. QED BY <2>1 DEF Apart
<1>6. Fresh'
  <2>1. docs' = docs
    BY <1>1, RequestBegins
  <2>2. QED BY <1>2, <1>3, <2>1 DEF Fresh, InTurn, Begins
<1>7. QED BY <1>1, <1>5, <1>6 DEF InTurn

LEMMA NextInTurn == Exclusive = TRUE /\ InTurn /\ [Next]_vars => InTurn'
<1> SUFFICES ASSUME Exclusive = TRUE, InTurn, [Next]_vars PROVE InTurn'
  OBVIOUS
<1>1. CASE UNCHANGED <<docs, proc>>
  <2>1. Typed'
    BY NextTyped DEF InTurn
  <2>2. QED BY <1>1, <2>1 DEF InTurn, Apart, Fresh
<1>2. CASE Next
  BY <1>1, <1>2, StepInTurn, RequestInTurn DEF Next, DeviceActs
<1>3. QED BY <1>1, <1>2 DEF vars

(* ----------------------------- Refining DeviceStore ------------------------- *)

Simulated == Store!StoreNext \/ UNCHANGED Store!storeVars

\* Where a handler has a request that has not taken effect.
Open(r) == r.pc \notin {"idle", "ip", "reply"}

LEMMA RequestsTyped ==
    ASSUME NEW r \in Handlers, Shaped(r)
    PROVE  RequestOf(r) # NoRequest <=> Open(r)
<1>1. CASE ~Open(r)
  BY <1>1 DEF RequestOf, Open
<1>2. CASE Open(r) /\ r.kind = "reconcile"
  <2> DEFINE found == IF r.pc = "bulk" THEN {{i \in Items : r.reply[i] # Undeclared}} ELSE {}
             all == {Declared(e.cfg) : e \in r.parsed} \cup found
  <2>1. \A e : Declared(e.cfg) \in SUBSET Items
    BY DEF Declared
  <2>2. all \in SUBSET SUBSET Items
    BY <2>1
  <2>3. RequestOf(r) = [kind |-> "reconcile", declarations |-> all]
    BY <1>2 DEF RequestOf, Open
  <2> HIDE DEF all
  <2>4. QED BY <1>2, <2>2, <2>3, NoSuch
<1>3. CASE Open(r) /\ r.kind # "reconcile"
  <2> DEFINE part == r.origin = "device"
  <2>1. r.kind \in {"update", "add", "remove"} /\ r.id \in Ids
    BY <1>3 DEF Shaped, Open, Handlers, Kinds
  <2>2. r.pay \in Payloads /\ r.override \in BOOLEAN /\ part \in BOOLEAN
    BY DEF Handlers
  <2>3. RequestOf(r) = [kind |-> r.kind, id |-> r.id, pay |-> r.pay, override |-> r.override,
                        part |-> part]
    BY <1>3 DEF RequestOf, Open
  <2> HIDE DEF part
  <2>4. QED BY <1>3, <2>1, <2>2, <2>3, NoSuch
<1>4. QED BY <1>1, <1>2, <1>3

LEMMA RequestKept ==
    ASSUME NEW r, NEW n, Keeps(r, n), Open(r), Open(n), r.kind # "reconcile"
    PROVE  RequestOf(n) = RequestOf(r)
BY DEF RequestOf, Keeps, Open

\* The variables of DeviceStore.
LEMMA StoreTerms ==
    ASSUME NEW p \in Procs, NEW n, Typed, proc' = [proc EXCEPT ![p] = n]
    PROVE  /\ Store!OthersWait(p)
           /\ Store!Done(p) <=> RequestOf(n) = NoRequest
BY DEF Store!OthersWait, Store!Done, Typed, ProcTyped

LEMMA Stutters ==
    ASSUME Typed, NEW p \in Procs, NEW n, proc' = [proc EXCEPT ![p] = n], docs' = docs,
           RequestOf(n) = RequestOf(proc[p])
    PROVE  Simulated
<1>1. \A q \in Procs : RequestOf(proc'[q]) = RequestOf(proc[q])
  BY DEF Typed, ProcTyped
<1>2. QED BY <1>1 DEF Simulated, Store!storeVars

LEMMA Submits ==
    ASSUME Typed, NEW p \in Procs, NEW n, proc' = [proc EXCEPT ![p] = n], docs' = docs,
           RequestOf(proc[p]) = NoRequest, RequestOf(n) # NoRequest
    PROVE  Simulated
<1>1. Store!Submit(p)
  <2>1. ~Store!Done(p)
    BY StoreTerms
  <2>2. QED BY <2>1 DEF Store!Submit
<1>2. QED BY <1>1, StoreTerms DEF Simulated, Store!StoreNext

LEMMA Refuses ==
    ASSUME Typed, NEW p \in Procs, NEW n, proc' = [proc EXCEPT ![p] = n], docs' = docs,
           RequestOf(proc[p]) # NoRequest, RequestOf(n) = NoRequest
    PROVE  Simulated
<1>1. Store!Refuse(p)
  <2>1. Store!Done(p)
    BY StoreTerms
  <2>2. QED BY <2>1 DEF Store!Refuse
<1>2. QED BY <1>1, StoreTerms DEF Simulated, Store!StoreNext

\* A step that stores nothing takes a request on, gives it up, or goes on with it.
LEMMA SilentSimulated ==
    ASSUME Typed, NEW p \in Procs, Step(p), proc[p].kind # "reconcile", docs' = docs
    PROVE  Simulated
<1>1. PICK n \in Handlers : Advances(p, n)
  BY StepAdvances
<1>2. proc[p] \in Handlers /\ Shaped(proc[p]) /\ Shaped(n) /\ proc' = [proc EXCEPT ![p] = n]
  BY <1>1 DEF Typed, ProcTyped, Advances
<1>3. /\ RequestOf(proc[p]) # NoRequest <=> Open(proc[p])
      /\ RequestOf(n) # NoRequest <=> Open(n)
  BY <1>2, RequestsTyped
<1>4. CASE Open(proc[p]) /\ Open(n)
  <2>1. Keeps(proc[p], n)
    BY <1>1, <1>4 DEF Advances, Open
  <2>2. RequestOf(n) = RequestOf(proc[p])
    BY <1>4, <2>1, RequestKept
  <2>3. QED BY <1>2, <2>2, Stutters
<1>5. CASE ~Open(proc[p]) /\ ~Open(n)
  BY <1>2, <1>3, <1>5, Stutters
<1>6. CASE Open(proc[p]) /\ ~Open(n)
  BY <1>2, <1>3, <1>6, Refuses
<1>7. CASE ~Open(proc[p]) /\ Open(n)
  BY <1>2, <1>3, <1>7, Submits
<1>8. QED BY <1>4, <1>5, <1>6, <1>7

\* A request is taken on when its handler starts; a pair request, when it is
\* known whether it adds or updates.
LEMMA StartSimulated ==
    ASSUME Typed, NEW p \in Procs, Request(p) \/
           \E k \in CKeys, c \in Configs \cup {NoConfig} : ConfigsChanged(p, k, c)
    PROVE  Simulated
<1>1. PICK r : Begins(p, r)
  BY RequestBegins
<1>2. docs' = docs
  BY RequestBegins
<1>3. /\ r \in Handlers /\ Shaped(r) /\ proc' = [proc EXCEPT ![p] = r]
      /\ proc[p].pc = "idle"
  BY <1>1 DEF Begins, Start
<1>4. RequestOf(proc[p]) = NoRequest
  BY <1>3 DEF RequestOf
<1>5. CASE RequestOf(r) = NoRequest
  BY <1>2, <1>3, <1>4, <1>5, Stutters
<1>6. CASE RequestOf(r) # NoRequest
  BY <1>2, <1>3, <1>4, <1>6, Submits
<1>7. QED BY <1>5, <1>6

\* What a save writes, entry by entry.
LEMMA WrittenEntries ==
    ASSUME NEW r \in Handlers, Shaped(r), r.pc = "save", r.kind = "update", NEW d \in Doc,
           \A i \in Writes(r) : d.val[i] = r.old.val[i], NEW i \in Items
    PROVE  \/ Written(r, d).val[i] = r.new.val[i] /\ d.val[i] = r.old.val[i]
           \/ Written(r, d).val[i] = d.val[i] /\ i \notin Touched(r.pay)
<1> DEFINE new == Written(r, d).val
           modified == UNION {SectionOf(j) : j \in {k \in Items : r.new.val[k] # r.old.val[k]}}
<1>1. Limited(r) /\ (r.new.key # r.old.key => r.key # NoKey)
  BY DEF Shaped, Computing
<1>2. Writes(r) = Items \/ (Writes(r) = Touched(r.pay) /\ r.new.key = r.old.key)
  BY <1>1 DEF Writes
<1>3. CASE i \in modified
  <2>1. PICK j \in Items : r.new.val[j] # r.old.val[j] /\ i \in SectionOf(j)
    BY <1>3
  <2>2. i \in Writes(r)
    <3>1. CASE Writes(r) = Items
      BY <3>1
    <3>2. CASE Writes(r) # Items
      <4>1. j \in Touched(r.pay)
        BY <1>1, <1>2, <2>1, <3>2 DEF Limited
      <4>2. QED BY <1>2, <2>1, <3>2, <4>1, SectionTouched
    <3>3. QED BY <3>1, <3>2
  <2>3. new[i] = r.new.val[i]
    BY <1>3 DEF Written
  <2>4. QED BY <2>2, <2>3
<1>4. CASE i \notin modified
  <2>1. i \in SectionOf(i)
    BY DEF SectionOf, Items
  <2>2. r.new.val[i] = r.old.val[i]
    BY <1>4, <2>1
  <2>3. new[i] = d.val[i]
    BY <1>4 DEF Written
  <2> HIDE DEF new
  <2>4. CASE i \in Writes(r)
    BY <2>2, <2>3, <2>4 DEF new
  <2>5. CASE i \notin Writes(r)
    BY <1>2, <2>3, <2>5 DEF new
  <2>6. QED BY <2>4, <2>5
<1>5. QED BY <1>3, <1>4

\* What a save writes is a merge into what is stored.
LEMMA WrittenMerges ==
    ASSUME NEW r \in Handlers, Shaped(r), r.pc = "save", r.kind = "update", NEW d \in Doc,
           \A i \in Writes(r) : d.val[i] = r.old.val[i]
    PROVE  Merges(Written(r, d).val, d.val, r.pay, r.override, r.origin)
<1> DEFINE new == Written(r, d).val
<1>1. Effect(r)
  BY DEF Shaped, Computing
<1>2. ASSUME NEW i \in Items
      PROVE  \/ new[i] = r.new.val[i] /\ d.val[i] = r.old.val[i]
             \/ new[i] = d.val[i] /\ i \notin Touched(r.pay)
  BY WrittenEntries
<1> HIDE DEF new
<1>3. PICK taken \in SUBSET Named(r.pay) :
          /\ r.origin = "device" \/ taken = Named(r.pay)
          /\ \A i \in Items :
                 \/ i \in taken /\ r.new.val[i] = r.pay[i]
                 \/ i \notin taken /\ r.old.val[i] # Absent /\ r.new.val[i] = r.old.val[i] /\
                        ~(r.override = TRUE /\ i \in Touched(r.pay))
                 \/ i \notin taken /\ r.override = TRUE /\ i \in Touched(r.pay)
                 \/ i \notin taken /\ r.old.val[i] = Absent
  BY <1>1 DEF Effect, Merges
<1>4. ASSUME NEW i \in Items
      PROVE  \/ i \in taken /\ new[i] = r.pay[i]
             \/ i \notin taken /\ d.val[i] # Absent /\ new[i] = d.val[i] /\
                    ~(r.override = TRUE /\ i \in Touched(r.pay))
             \/ i \notin taken /\ r.override = TRUE /\ i \in Touched(r.pay)
             \/ i \notin taken /\ d.val[i] = Absent
  <2>1. CASE new[i] = r.new.val[i] /\ d.val[i] = r.old.val[i]
    BY <1>3, <2>1
  <2>2. CASE new[i] = d.val[i] /\ i \notin Touched(r.pay)
    <3>1. i \notin taken
      <4>1. i \in SectionOf(i)
        BY DEF SectionOf, Items
      <4>2. QED BY <2>2, <4>1, SectionTouched
    <3>2. QED BY <2>2, <3>1
  <2>3. QED BY <1>2, <2>1, <2>2
<1>5. QED BY <1>3, <1>4 DEF Merges, new

LEMMA MergesIsMerge ==
    ASSUME NEW new, NEW val, NEW pay, NEW override \in BOOLEAN, NEW origin, NEW part,
           part = (origin = "device"), Merges(new, val, pay, override, origin)
    PROVE  Store!IsMerge(new, val, pay, override, part)
<1>1. PICK taken \in SUBSET Named(pay) :
          /\ origin = "device" \/ taken = Named(pay)
          /\ \A i \in Items :
                 \/ i \in taken /\ new[i] = pay[i]
                 \/ i \notin taken /\ val[i] # Absent /\ new[i] = val[i] /\
                        ~(override = TRUE /\ i \in Touched(pay))
                 \/ i \notin taken /\ override = TRUE /\ i \in Touched(pay)
                 \/ i \notin taken /\ val[i] = Absent
  BY DEF Merges
<1>2. QED BY <1>1, StoreWords DEF Store!IsMerge

LEMMA SavedEnds ==
    ASSUME Typed, NEW p \in Procs, NEW r \in Handlers, Replied(p, r)
    PROVE  \E n : proc' = [proc EXCEPT ![p] = n] /\ RequestOf(n) = NoRequest
<1>1. CASE Finish(p)
  BY <1>1, NoProcTyped DEF Finish, RequestOf
<1>2. CASE Go(p, [r EXCEPT !.pc = "reply"])
  <2>1. RequestOf([r EXCEPT !.pc = "reply"]) = NoRequest
    BY DEF RequestOf, Handlers
  <2>2. QED BY <1>2, <2>1 DEF Go
<1>3. QED BY <1>1, <1>2 DEF Replied

\* An operation of DeviceStore, from what its request and its document are.
StoredAs(ds, id) == IF ds[id] = NoDevice THEN NoDevice ELSE ds[id].val
OthersAlone(id) == \A j \in Ids \ {id} : docs'[j] = docs[j]

LEMMA UpdateHolds ==
    ASSUME NEW p \in Procs, NEW u, RequestOf(proc[p]) = u, u # NoRequest, u.kind = "update",
           u.id \in Ids, StoredAs(docs, u.id) # NoDevice, StoredAs(docs', u.id) # NoDevice,
           Store!IsMerge(StoredAs(docs', u.id), StoredAs(docs, u.id), u.pay, u.override, u.part),
           Store!Done(p), OthersAlone(u.id)
    PROVE  Store!Update(p)
BY DEF Store!Update, StoredAs, OthersAlone, Store!OnlyChanges

LEMMA AddHolds ==
    ASSUME NEW p \in Procs, NEW u, RequestOf(proc[p]) = u, u # NoRequest, u.kind = "add",
           u.id \in Ids, StoredAs(docs, u.id) = NoDevice, StoredAs(docs', u.id) # NoDevice,
           Store!IsMerge(StoredAs(docs', u.id), Nothing, u.pay, u.override, u.part),
           Store!Done(p), OthersAlone(u.id)
    PROVE  Store!Add(p)
<1>1. Nothing = [i \in Store!Items |-> Absent]
  BY StoreWords DEF Nothing
<1>2. QED BY <1>1 DEF Store!Add, StoredAs, OthersAlone, Store!OnlyChanges

LEMMA RemoveHolds ==
    ASSUME NEW p \in Procs, NEW u, RequestOf(proc[p]) = u, u # NoRequest, u.kind = "remove",
           u.id \in Ids, StoredAs(docs', u.id) = NoDevice, Store!Done(p), OthersAlone(u.id)
    PROVE  Store!Remove(p)
BY DEF Store!Remove, StoredAs, OthersAlone, Store!OnlyChanges

LEMMA SaveSimulated ==
    ASSUME InTurn, NEW p \in Procs, Save(p)
    PROVE  Simulated
<1> DEFINE r == proc[p]
           d == docs[r.id]
           w == Written(r, d)
           part == r.origin = "device"
<1>1. Typed /\ r \in Handlers /\ Shaped(r) /\ UpToDate(r, docs) /\ r.pc = "save" /\ r.kind = "update"
  BY DEF InTurn, Typed, ProcTyped, Fresh, Save
<1>2. CASE docs' = docs
  BY <1>1, <1>2, SilentSimulated DEF Step
<1>3. CASE d # NoDevice /\ docs' = [docs EXCEPT ![r.id] = w] /\ Replied(p, r)
  <2>1. r.id \in Ids /\ d \in Doc /\ d.key \in CKeys /\ NoBad(d.val) /\ r.new.key \in CKeys
        /\ NoBad(r.new.val)
    BY <1>1, <1>3 DEF Typed, DocsTyped, Shaped, Computing
  <2>2. w \in Doc
    BY <1>1, <2>1, WrittenTyped
  <2>3. \A i \in Writes(r) : d.val[i] = r.old.val[i]
    BY <1>1, <1>3 DEF UpToDate, Computing
  <2>4. Merges(w.val, d.val, r.pay, r.override, r.origin)
    BY <1>1, <2>1, <2>3, WrittenMerges
  <2>5. r.override \in BOOLEAN
    BY <1>1 DEF Handlers
  <2>6. Store!IsMerge(w.val, d.val, r.pay, r.override, part)
    BY <2>4, <2>5, MergesIsMerge
  <2>7. RequestOf(r) = [kind |-> "update", id |-> r.id, pay |-> r.pay, override |-> r.override,
                        part |-> part]
    BY <1>1 DEF RequestOf
  <2>8. RequestOf(r) # NoRequest
    BY <1>1, RequestsTyped DEF Open
  <2>9. w # NoDevice /\ w.val # NoDevice /\ d.val # NoDevice
    BY <2>1, <2>2, NoSuch DEF Doc
  <2>10. PICK n : proc' = [proc EXCEPT ![p] = n] /\ RequestOf(n) = NoRequest
    BY <1>1, <1>3, SavedEnds
  <2>11. Store!Done(p) /\ Store!OthersWait(p)
    BY <1>1, <2>10, StoreTerms
  <2>12. docs'[r.id] = w /\ \A id \in Ids \ {r.id} : docs'[id] = docs[id]
    BY <1>1, <1>3, <2>1 DEF Typed, DocsTyped
  <2>13. OthersAlone(r.id)
    BY <2>12 DEF OthersAlone
  <2> HIDE DEF w, part
  <2>14. Store!Update(p)
    <3>1. StoredAs(docs, r.id) = d.val /\ StoredAs(docs', r.id) = w.val
      BY <1>3, <2>9, <2>12 DEF StoredAs
    <3> HIDE DEF r, d
    <3>2. QED BY <2>1, <2>6, <2>7, <2>8, <2>9, <2>11, <2>13, <3>1, UpdateHolds DEF r
  <2>15. QED BY <2>11, <2>14 DEF Simulated, Store!StoreNext
<1>4. QED BY <1>2, <1>3 DEF Save

LEMMA InsertSimulated ==
    ASSUME InTurn, NEW p \in Procs, Insert(p)
    PROVE  Simulated
<1> DEFINE r == proc[p]
           part == r.origin = "device"
<1>1. Typed /\ r \in Handlers /\ Shaped(r) /\ r.pc = "save" /\ r.kind = "add"
  BY DEF InTurn, Typed, ProcTyped, Insert
<1>2. CASE docs' = docs
  BY <1>1, <1>2, SilentSimulated DEF Step
<1>3. CASE docs[r.id] = NoDevice /\ docs' = [docs EXCEPT ![r.id] = r.new]
           /\ Replied(p, [r EXCEPT !.reply = r.new.val])
  <2>1. r.id \in Ids /\ r.old = Blank /\ Effect(r) /\ r.new \in Doc /\ r.override \in BOOLEAN
    BY <1>1 DEF Shaped, Computing, Handlers
  <2>2. Store!IsMerge(r.new.val, Nothing, r.pay, r.override, part)
    BY <2>1, NothingTyped, MergesIsMerge DEF Effect
  <2>3. RequestOf(r) = [kind |-> "add", id |-> r.id, pay |-> r.pay, override |-> r.override,
                        part |-> part]
    BY <1>1 DEF RequestOf
  <2>4. RequestOf(r) # NoRequest
    BY <1>1, RequestsTyped DEF Open
  <2>5. r.new # NoDevice /\ r.new.val # NoDevice
    BY <2>1, NoSuch DEF Doc
  <2>6. PICK n : proc' = [proc EXCEPT ![p] = n] /\ RequestOf(n) = NoRequest
    <3> DEFINE m == [r EXCEPT !.reply = r.new.val]
    <3>1. m \in Handlers
      <4> HIDE DEF r
      <4>1. r.new.val \in [Items -> Entries \cup {Undeclared}]
        BY <2>1 DEF Doc, Payloads
      <4>2. QED BY <1>1, <4>1 DEF Handlers
    <3> HIDE DEF m
    <3>2. QED BY <1>1, <1>3, <3>1, SavedEnds DEF m
  <2>7. Store!Done(p) /\ Store!OthersWait(p)
    BY <1>1, <2>6, StoreTerms
  <2>8. docs'[r.id] = r.new /\ \A id \in Ids \ {r.id} : docs'[id] = docs[id]
    BY <1>1, <1>3, <2>1 DEF Typed, DocsTyped
  <2>9. OthersAlone(r.id)
    BY <2>8 DEF OthersAlone
  <2> HIDE DEF part
  <2>11. Store!Add(p)
    <3>1. StoredAs(docs, r.id) = NoDevice /\ StoredAs(docs', r.id) = r.new.val
      BY <1>3, <2>5, <2>8 DEF StoredAs
    <3> HIDE DEF r
    <3>2. QED BY <2>1, <2>2, <2>3, <2>4, <2>5, <2>7, <2>9, <3>1, AddHolds DEF r
  <2>12. QED BY <2>7, <2>11 DEF Simulated, Store!StoreNext
<1>4. QED BY <1>2, <1>3 DEF Insert

LEMMA DeleteSimulated ==
    ASSUME InTurn, NEW p \in Procs, Delete(p)
    PROVE  Simulated
<1> DEFINE r == proc[p]
<1>1. Typed /\ r \in Handlers /\ Shaped(r) /\ r.pc = "delete" /\ r.kind = "remove"
  BY DEF InTurn, Typed, ProcTyped, Delete, Shaped
<1>2. r.id \in Ids /\ docs' = [docs EXCEPT ![r.id] = NoDevice]
  BY <1>1 DEF Delete, Shaped
<1>3. RequestOf(r) # NoRequest /\ RequestOf(r).kind = "remove" /\ RequestOf(r).id = r.id
  <2>1. RequestOf(r) # NoRequest
    BY <1>1, RequestsTyped DEF Open
  <2>2. QED BY <1>1, <2>1 DEF RequestOf
<1>4. Store!Done(p) /\ Store!OthersWait(p)
  <2>1. proc' = [proc EXCEPT ![p] = NoProc]
    BY DEF Delete, Finish
  <2>2. RequestOf(NoProc) = NoRequest
    BY NoProcTyped DEF RequestOf
  <2>3. QED BY <1>1, <2>1, <2>2, StoreTerms
<1>5. docs'[r.id] = NoDevice /\ \A id \in Ids \ {r.id} : docs'[id] = docs[id]
  BY <1>1, <1>2 DEF Typed, DocsTyped
<1>6. OthersAlone(r.id)
  BY <1>5 DEF OthersAlone
<1>7. Store!Remove(p)
  <2>1. StoredAs(docs', r.id) = NoDevice
    BY <1>5 DEF StoredAs
  <2>2. QED BY <1>2, <1>3, <1>4, <1>6, <2>1, RemoveHolds
<1>8. QED BY <1>4, <1>7 DEF Simulated, Store!StoreNext

\* What a bulk write makes of a document tidies what is stored.
LEMMA TidiedTidies ==
    ASSUME NEW r, r.pc = "bulk", Shaped(r), UpToDate(r, docs), NEW id \in Ids,
           r.ops[id] # NoDevice, docs[id] # NoDevice
    PROVE  Store!IsTidied(Tidied(r, id), docs[id].val, {i \in Items : r.reply[i] # Undeclared})
<1> DEFINE new == Tidied(r, id)
           declared == {i \in Items : r.reply[i] # Undeclared}
<1>1. ASSUME NEW i \in Items
      PROVE  \/ new[i] = docs[id].val[i]
             \/ i \in declared /\ docs[id].val[i] = Absent
             \/ i \notin declared /\ new[i] = Absent
  <2>1. CASE i \in r.ops[id].set
    BY <2>1 DEF Shaped, UpToDate
  <2>2. CASE i \notin r.ops[id].set /\ i \in r.ops[id].unset
    BY <2>2 DEF Shaped, Tidied
  <2>3. CASE i \notin r.ops[id].set /\ i \notin r.ops[id].unset
    BY <2>3 DEF Tidied
  <2>4. QED BY <2>1, <2>2, <2>3
<1> HIDE DEF new, declared
<1>2. Store!IsTidied(new, docs[id].val, declared)
  BY <1>1, StoreWords DEF Store!IsTidied
<1>3. QED BY <1>2 DEF new, declared

LEMMA TidyHolds ==
    ASSUME NEW p \in Procs, NEW u, NEW n, RequestOf(proc[p]) = u, u # NoRequest,
           u.kind = "reconcile", proc' = [proc EXCEPT ![p] = n], proc \in [Procs -> Handlers],
           RequestOf(n).kind = "reconcile", RequestOf(n).declarations \subseteq u.declarations,
           NEW declared \in u.declarations,
           \A id \in Ids : \/ docs'[id] = docs[id]
                           \/ /\ StoredAs(docs, id) # NoDevice /\ StoredAs(docs', id) # NoDevice
                              /\ Store!IsTidied(StoredAs(docs', id), StoredAs(docs, id), declared)
    PROVE  Store!Tidy(p)
<1>1. proc'[p] = n
  OBVIOUS
<1>2. QED BY <1>1 DEF Store!Tidy, Store!Done, StoredAs

LEMMA ReconcileSimulated ==
    ASSUME InTurn, NEW p \in Procs, Step(p), proc[p].kind = "reconcile"
    PROVE  Simulated
<1> DEFINE r == proc[p]
           found == {i \in Items : r.reply[i] # Undeclared}
           rest == {Declared(e.cfg) : e \in r.parsed}
<1>1. Typed /\ r \in Handlers /\ Shaped(r) /\ UpToDate(r, docs) /\ r.pc \in {"find", "bulk"}
      /\ proc \in [Procs -> Handlers] /\ r.kind = "reconcile"
  BY DEF InTurn, Typed, ProcTyped, Fresh, Shaped
<1>2. RequestOf(r) # NoRequest
  BY <1>1, RequestsTyped DEF Open
<1>3. RequestOf(r) = [kind |-> "reconcile",
                      declarations |-> rest \cup (IF r.pc = "bulk" THEN {found} ELSE {})]
  BY <1>1 DEF RequestOf
<1>4. CASE ReconcileEnds(p)
  <2>1. RequestOf(NoProc) = NoRequest
    BY NoProcTyped DEF RequestOf
  <2>2. QED BY <1>1, <1>2, <1>4, <2>1, Refuses DEF ReconcileEnds, Finish
<1>5. ASSUME NEW e \in r.parsed, FindDevices(p, e) PROVE Simulated
  <2> DEFINE ops == [id \in Ids |-> IF docs[id] # NoDevice /\ docs[id].key = e.key
                                    THEN [set |-> ToSet(docs[id].val, e.cfg),
                                          unset |-> ToUnset(docs[id].val, e.cfg)]
                                    ELSE NoDevice]
             n == [r EXCEPT !.pc = "bulk", !.ops = ops, !.parsed = @ \ {e},
                            !.new.key = e.key, !.reply = e.cfg.item]
  <2>1. e.cfg # NoConfig /\ r.pc = "find"
    BY <1>1, <1>5 DEF Handlers, FindDevices
  <2>2. proc' = [proc EXCEPT ![p] = n] /\ docs' = docs
    BY <1>5 DEF FindDevices, Go
  <2>3. n.pc = "bulk" /\ n.kind = "reconcile" /\ n.parsed = r.parsed \ {e} /\ n.reply = e.cfg.item
    <3> HIDE DEF r, ops
    <3>1. QED BY <1>1 DEF Handlers
  <2> HIDE DEF n
  <2>4. Declared(e.cfg) = {i \in Items : n.reply[i] # Undeclared}
    BY <2>1, <2>3 DEF Declared, Declares
  <2>5. RequestOf(n) = [kind |-> "reconcile",
                        declarations |-> {Declared(f.cfg) : f \in r.parsed \ {e}} \cup {Declared(e.cfg)}]
    BY <2>3, <2>4 DEF RequestOf
  <2>6. {Declared(f.cfg) : f \in r.parsed \ {e}} \cup {Declared(e.cfg)} = rest
    OBVIOUS
  <2>7. RequestOf(n) = RequestOf(r)
    BY <1>3, <2>1, <2>5, <2>6
  <2>8. QED BY <1>1, <2>2, <2>7, Stutters
<1>6. CASE BulkWrite(p)
  <2> DEFINE hit == {id \in Ids : r.ops[id] # NoDevice /\ docs[id] # NoDevice}
             n == [r EXCEPT !.pc = "find", !.ops = NoProc.ops, !.reply = Nothing, !.new = Blank]
  <2>1. /\ r.pc = "bulk" /\ proc' = [proc EXCEPT ![p] = n]
        /\ docs' = [id \in Ids |-> IF id \in hit THEN [docs[id] EXCEPT !.val = Tidied(r, id)]
                                   ELSE docs[id]]
    BY <1>6 DEF BulkWrite, Go
  <2>2. n.pc = "find" /\ n.kind = "reconcile" /\ n.parsed = r.parsed
    <3> HIDE DEF r
    <3>1. QED BY <1>1 DEF Handlers
  <2> HIDE DEF n
  <2>3. RequestOf(n) = [kind |-> "reconcile", declarations |-> rest \cup {}]
    BY <2>2 DEF RequestOf
  <2>4. ASSUME NEW id \in Ids
        PROVE  \/ docs'[id] = docs[id]
               \/ /\ StoredAs(docs, id) # NoDevice /\ StoredAs(docs', id) # NoDevice
                  /\ Store!IsTidied(StoredAs(docs', id), StoredAs(docs, id), found)
    <3>1. CASE id \notin hit
      BY <2>1, <3>1
    <3>2. CASE id \in hit
      <4>1. docs[id] \in Doc /\ docs[id] # NoDevice /\ r.ops[id] # NoDevice
        BY <1>1, <3>2 DEF Typed, DocsTyped
      <4>2. docs'[id] = [docs[id] EXCEPT !.val = Tidied(r, id)]
        BY <2>1, <3>2
      <4>3. Tidied(r, id) \in Payloads
        BY <1>1, <2>1, <4>1, TidiedTyped DEF Typed
      <4>4. docs'[id] \in Doc /\ docs'[id].val = Tidied(r, id)
        BY <4>1, <4>2, <4>3 DEF Doc
      <4>5. StoredAs(docs, id) = docs[id].val /\ StoredAs(docs', id) = Tidied(r, id)
        BY <4>1, <4>4, NoSuch DEF StoredAs
      <4>6. docs[id].val # NoDevice /\ Tidied(r, id) # NoDevice
        BY <4>1, <4>3, NoSuch DEF Doc
      <4>7. Store!IsTidied(Tidied(r, id), docs[id].val, found)
        BY <1>1, <2>1, <4>1, TidiedTidies
      <4>8. QED BY <4>5, <4>6, <4>7
    <3>3. QED BY <3>1, <3>2
  <2> HIDE DEF found, rest
  <2>5. Store!Tidy(p)
    <3> DEFINE u == RequestOf(r)
    <3>1. u.kind = "reconcile" /\ u.declarations = rest \cup {found}
      BY <1>3, <2>1
    <3>2. RequestOf(n).kind = "reconcile" /\ RequestOf(n).declarations \subseteq u.declarations
          /\ found \in u.declarations
      BY <2>3, <3>1
    <3>3. RequestOf(proc[p]) = u /\ u # NoRequest
      BY <1>2
    <3> HIDE DEF u, r
    <3>4. QED BY <1>1, <2>1, <2>4, <3>1, <3>2, <3>3, TidyHolds
  <2>6. Store!OthersWait(p)
    BY <1>1, <2>1, StoreTerms
  <2>7. QED BY <2>5, <2>6 DEF Simulated, Store!StoreNext
<1>7. ReconcileEnds(p) \/ BulkWrite(p) \/ \E e \in r.parsed : FindDevices(p, e)
  BY <1>1 DEF Step, LookupByIp, LookupName, ReadDoc, Merge, Defaults, Send, Save, SaveRefused,
              Insert, Reply, Delete
<1>8. QED BY <1>4, <1>5, <1>6, <1>7

LEMMA NextSimulated == InTurn /\ [Next]_vars => Simulated
<1> SUFFICES ASSUME InTurn, [Next]_vars PROVE Simulated
  OBVIOUS
<1>1. CASE UNCHANGED <<docs, proc>>
  BY <1>1 DEF Simulated, Store!storeVars
<1>2. ASSUME NEW p \in Procs, Step(p) PROVE Simulated
  <2>1. CASE proc[p].kind = "reconcile"
    BY <1>2, <2>1, ReconcileSimulated
  <2>2. CASE proc[p].kind # "reconcile" /\ docs' = docs
    BY <1>2, <2>2, SilentSimulated DEF InTurn
  <2>3. CASE Save(p) \/ Insert(p) \/ Delete(p)
    BY <2>3, SaveSimulated, InsertSimulated, DeleteSimulated
  <2>4. BulkWrite(p) => proc[p].kind = "reconcile"
    BY DEF BulkWrite, InTurn, Typed, ProcTyped, Shaped
  <2>5. docs' = docs \/ Save(p) \/ Insert(p) \/ Delete(p) \/ BulkWrite(p)
    BY <1>2 DEF Step, LookupByIp, LookupName, ReadDoc, Merge, Defaults, Send, SaveRefused, Reply,
                FindDevices, ReconcileEnds
  <2>6. QED BY <2>1, <2>2, <2>3, <2>4, <2>5
<1>3. CASE Next
  BY <1>1, <1>2, <1>3, StartSimulated DEF Next, DeviceActs, InTurn
<1>4. QED BY <1>1, <1>3 DEF vars

LEMMA InitSimulated == Init => Store!StoreInit
<1> SUFFICES ASSUME Init PROVE Store!StoreInit
  OBVIOUS
<1>1. RequestOf(NoProc) = NoRequest
  BY NoProcTyped DEF RequestOf
<1>2. QED BY <1>1 DEF Init, Store!StoreInit

\* Where handlers that write the same section of a device take turns, the
\* devices service implements DeviceStore: every update, insertion, removal and
\* reconciliation takes effect at one instant, on the document stored at that
\* instant, and changes nothing it does not name, whatever was awaited between
\* reading the document and saving it.
THEOREM ImplementsStore == ASSUME Exclusive = TRUE PROVE Spec => UpdatesAtomic
<1>1. Simulated => [Store!StoreNext]_(Store!storeVars)
  BY DEF Simulated
<1>2. QED BY <1>1, InitInTurn, NextInTurn, NextSimulated, InitSimulated, PTL
          DEF Spec, UpdatesAtomic, Store!StoreSpec

(* ----------------------- What configurations declare ------------------------ *)

Strict(c) == c # NoConfig /\ c.strict = TRUE

\* The entries of a described section are the declared ones.
Fits(val, c) == Strict(c) => \A i \in Described(c) : val[i] # Absent <=> Declares(c, i)

\* A reconciliation has still to look after the devices of a key.
Due(r, k) == r.kind = "reconcile" /\ ((\E e \in r.parsed : e.key = k) \/
                                      (r.pc = "bulk" /\ r.new.key = k))

\* A merged payload has no entry more that is not declared, an added one has all
\* that are.
Fitting(r, cf) ==
    r.pc \in {"defaults", "send", "save"} /\ r.kind \in {"update", "add"} /\ Strict(cf[r.new.key])
        => /\ r.kind = "add" \/ r.new.key = r.old.key
                  => \A i \in Items : r.new.val[i] # Absent /\ r.old.val[i] = Absent
                                          => Declares(cf[r.new.key], i)
           /\ r.kind = "add" /\ r.pc # "defaults"
                  => \A i \in Declared(cf[r.new.key]) : r.new.val[i] # Absent

\* The operations of a bulk write are those that its configuration asks for.
Asked(r, ds, c, id) ==
    IF ds[id] # NoDevice /\ ds[id].key = r.new.key
    THEN r.ops[id] = [set |-> ToSet(ds[id].val, c), unset |-> ToUnset(ds[id].val, c)]
    ELSE r.ops[id] = NoDevice

Converting(r, ds, cf) ==
    r.kind = "reconcile"
        => /\ \A e \in r.parsed : e.cfg = cf[e.key]
           /\ r.pc = "bulk" => /\ r.new.key \in CKeys /\ cf[r.new.key] # NoConfig
                               /\ r.reply = cf[r.new.key].item
                               /\ \A id \in Ids : Asked(r, ds, cf[r.new.key], id)

Conforming ==
    /\ \A p \in Procs : Fitting(proc[p], config) /\ Converting(proc[p], docs, config)
    /\ \A id \in Ids : docs[id] # NoDevice /\ loose[id] # TRUE
           => \/ Fits(docs[id].val, config[docs[id].key])
              \/ \E p \in Procs : Due(proc[p], docs[id].key)

LEMMA ConformingConforms == Typed /\ Conforming => Conforms
<1> SUFFICES ASSUME Typed, Conforming, NEW id \in Ids, Settled(id), loose[id] # TRUE
             PROVE  LET c == config[docs[id].key] IN
                    c # NoConfig /\ c.strict
                        => \A i \in Described(c) : docs[id].val[i] # Absent <=> Declares(c, i)
  BY DEF Conforms, Typed, FlagsTyped
<1>1. \A p \in Procs : ~Due(proc[p], docs[id].key)
  BY DEF Settled, Typed, ProcTyped, Shaped, Due
<1>2. Fits(docs[id].val, config[docs[id].key])
  BY <1>1 DEF Conforming, Settled
<1>3. config[docs[id].key] # NoConfig /\ config[docs[id].key].strict => Strict(config[docs[id].key])
  <2>1. config[docs[id].key] # NoConfig => config[docs[id].key].strict \in BOOLEAN
    <3>1. docs[id].key \in CKeys
      BY DEF Settled, Typed, DocsTyped
    <3>2. config[docs[id].key] \in Configs \cup {NoConfig}
      BY <3>1 DEF Typed, WorldTyped
    <3>3. QED BY <3>2, ConfigShape
  <2>2. QED BY <2>1 DEF Strict
<1>4. QED BY <1>2, <1>3 DEF Fits

\* Without an item there is nothing to declare.
LEMMA NoItemsConform == Items = {} => Conforms
<1>1. ASSUME Items = {}, NEW c PROVE Described(c) = {}
  BY <1>1 DEF Described, Declared
<1>2. QED BY <1>1 DEF Conforms

\* A handler that writes nothing, as any that runs beside a reconciliation.
LEMMA BesideReconcile ==
    ASSUME InTurn, Items # {}, NEW p \in Procs, Step(p), NEW q \in Procs \ {p},
           proc[q].kind = "reconcile"
    PROVE  docs' = docs
<1>1. Typed /\ Typed' /\ Within(proc[p])
  BY StepTyped, StepWithin DEF InTurn
<1>2. Writes(proc[p]) = {}
  <2>1. proc[q].pc # "idle" /\ Writes(proc[q]) = Items
    BY <1>1 DEF Typed, ProcTyped, Shaped, Writes
  <2>2. proc[p].pc # "idle"
    BY <1>1, StepAdvances DEF Advances, Continues
  <2>3. QED BY <2>1, <2>2, WritesItems DEF InTurn, Apart, Conflict
<1>3. ASSUME NEW id \in Ids, docs'[id] # docs[id] PROVE FALSE
  <2>1. /\ docs[id] # NoDevice /\ docs'[id] # NoDevice
        /\ docs'[id].key = docs[id].key
        /\ \A i \in Items : docs'[id].val[i] = docs[id].val[i]
    BY <1>2, <1>3, <1>1 DEF Within
  <2>2. docs[id] \in Doc
    BY <1>1, <2>1 DEF Typed, DocsTyped
  <2>3. docs'[id] \in Doc
    BY <1>1, <2>1 DEF Typed, DocsTyped
  <2>4. QED BY <1>3, <2>1, <2>2, <2>3 DEF Doc, Payloads
<1>4. QED BY <1>1, <1>3 DEF Typed, DocsTyped

LEMMA LoadedFitting ==
    ASSUME NEW r \in Handlers, NEW d, NEW cf PROVE Fitting(Loaded(r, d), cf)
<1> DEFINE new == [key |-> IF r.key = NoKey THEN d.key ELSE r.key, val |-> d.val]
           m == [r EXCEPT !.old = d, !.new = new]
           q == IF Named(m.pay) # {} THEN "merge" ELSE AfterMerge(m)
           n == [m EXCEPT !.pc = q]
<1>1. Loaded(r, d) = n
  BY DEF Loaded
<1>2. q \in {"merge", "defaults", "send", "save"} /\ (m.kind = "add" => q \in {"merge", "defaults"})
  BY DEF AfterMerge, AfterDefaults
<1> HIDE DEF q, new
<1>3. n.pc = q /\ n.kind = m.kind /\ n.old = d /\ n.new = new
  BY DEF Handlers
<1> HIDE DEF n, m
<1>4. QED BY <1>1, <1>2, <1>3 DEF Fitting, new

LEMMA MergeFitting ==
    ASSUME Typed, NEW p \in Procs, Merge(p) PROVE Fitting(proc'[p], config)
<1> DEFINE r == proc[p]
           c == config[r.new.key]
           pay == IF r.origin = "device" THEN Sanitized(c, r.pay) ELSE r.pay
           val == Merged(r.old.val, pay, Touched(r.pay), r.override)
           n == [r EXCEPT !.new.val = val]
           q == AfterMerge(n)
           m == [n EXCEPT !.pc = q]
<1>1. r \in Handlers /\ r.pc = "merge" /\ proc \in [Procs -> Handlers]
  BY DEF Typed, ProcTyped, Merge
<1>2. CASE Finish(p)
  <2>1. proc'[p] = NoProc
    BY <1>1, <1>2 DEF Merge, Finish
  <2>2. QED BY <2>1, NoProcTyped DEF Fitting
<1>3. CASE ~Refused(r, c, val) /\ Go(p, m)
  <2>1. proc'[p] = m
    BY <1>1, <1>3 DEF Merge, Go
  <2>2. ASSUME NEW i \in Items, val[i] # Absent, r.old.val[i] = Absent, Strict(c)
        PROVE  Declares(c, i)
    <3>1. pay[i] # Absent
      BY <2>2 DEF Merged
    <3>2. CASE r.origin = "device"
      <4>1. Accepts(c, i, r.pay[i])
        BY <2>2, <3>1, <3>2 DEF Sanitized
      <4>2. QED BY <2>2, <4>1 DEF Accepts, Strict
    <3>3. CASE r.origin = "api"
      <4>1. Valid(c, r.pay) /\ i \in Named(r.pay)
        BY <1>3, <2>2, <3>1, <3>3 DEF Refused, Named
      <4>2. Accepts(c, i, r.pay[i])
        BY <4>1 DEF Valid
      <4>3. QED BY <2>2, <4>2 DEF Accepts, Strict
    <3>4. QED BY <1>1, <3>2, <3>3 DEF Handlers
  <2>3. q \in {"defaults", "send", "save"}
    BY AfterPcs
  <2> HIDE DEF val, q
  <2>4. n.kind = r.kind /\ n.old = r.old /\ n.new = [key |-> r.new.key, val |-> val]
    <3> HIDE DEF r
    <3>1. QED BY <1>1 DEF Handlers, Doc
  <2>5. m.pc = q /\ m.kind = r.kind /\ m.old = r.old /\ m.new = [key |-> r.new.key, val |-> val]
    <3> HIDE DEF r
    <3>1. QED BY <1>1 DEF Handlers, Doc
  <2>6. r.kind = "add" => q = "defaults"
    <3> HIDE DEF r, n
    <3>1. QED BY <2>4 DEF q, AfterMerge
  <2> HIDE DEF m
  <2>7. QED BY <2>1, <2>2, <2>5, <2>6 DEF Fitting
<1>4. QED BY <1>2, <1>3 DEF Merge

LEMMA DefaultsFitting ==
    ASSUME Typed, NEW p \in Procs, Fitting(proc[p], config), Defaults(p)
    PROVE  Fitting(proc'[p], config)
<1> DEFINE r == proc[p]
           c == config[r.new.key]
           val == WithDefaults(r.new.val, c)
           n == [r EXCEPT !.new.val = val]
           q == AfterDefaults(n)
           m == [n EXCEPT !.pc = q]
<1>1. r \in Handlers /\ Shaped(r) /\ r.pc = "defaults" /\ proc \in [Procs -> Handlers]
  BY DEF Typed, ProcTyped, Defaults
<1>2. proc'[p] = m
  BY <1>1 DEF Defaults, Go
<1>3. q \in {"send", "save"}
  BY AfterPcs
<1>4. c \in Configs \cup {NoConfig} /\ r.kind \in {"update", "add"}
  BY <1>1 DEF Shaped, Computing, Typed, WorldTyped
<1>5. ASSUME NEW i \in Items, Strict(c)
      PROVE  /\ val[i] # Absent => r.new.val[i] # Absent \/ Declares(c, i)
             /\ Declares(c, i) => val[i] # Absent
  <2>1. Declares(c, i) => c.item[i] \in Values \cup {Null}
    BY <1>4, ConfigShape DEF Declares
  <2>2. val[i] = IF r.new.val[i] = Absent /\ Declares(c, i) THEN c.item[i] ELSE r.new.val[i]
    BY DEF WithDefaults
  <2> HIDE DEF val, c
  <2>3. QED BY <2>1, <2>2, Sentinels
<1> HIDE DEF val, q
<1>6. m.pc = q /\ m.kind = r.kind /\ m.old = r.old /\ m.new = [key |-> r.new.key, val |-> val]
  <2> HIDE DEF r
  <2>1. QED BY <1>1 DEF Handlers, Doc
<1> HIDE DEF m
<1>7. QED BY <1>1, <1>2, <1>3, <1>4, <1>5, <1>6 DEF Fitting, Declared

LEMMA FittingStep ==
    ASSUME Typed, NEW p \in Procs, Fitting(proc[p], config), Step(p)
    PROVE  Fitting(proc'[p], config)
<1> DEFINE r == proc[p]
<1>1. r \in Handlers /\ Shaped(r) /\ proc \in [Procs -> Handlers]
  BY DEF Typed, ProcTyped
<1>2. CASE proc'[p].pc \notin {"defaults", "send", "save"}
  BY <1>2 DEF Fitting
<1>3. ASSUME NEW d, Go(p, Loaded(r, d)) PROVE Fitting(proc'[p], config)
  <2>1. proc'[p] = Loaded(r, d)
    BY <1>1, <1>3 DEF Go
  <2>2. QED BY <1>1, <2>1, LoadedFitting
<1>4. CASE Merge(p)
  BY <1>4, MergeFitting
<1>5. CASE Defaults(p)
  BY <1>5, DefaultsFitting
<1>6. CASE Send(p)
  <2>1. r.pc = "send"
    BY <1>6 DEF Send
  <2>2. /\ proc'[p].pc = "save" /\ proc'[p].kind = r.kind /\ proc'[p].old = r.old
        /\ proc'[p].new = r.new
    <3>1. CASE Go(p, [r EXCEPT !.pc = "save", !.sent = TRUE])
      BY <1>1, <3>1 DEF Go, Handlers
    <3>2. CASE Go(p, [r EXCEPT !.pc = "save"])
      BY <1>1, <3>2 DEF Go, Handlers
    <3>3. QED BY <1>6, <3>1, <3>2 DEF Send
  <2>3. QED BY <2>1, <2>2 DEF Fitting
<1>7. CASE Finish(p)
  <2>1. proc'[p] = NoProc
    BY <1>1, <1>7 DEF Finish
  <2>2. QED BY <1>2, <2>1, NoProcTyped
<1>8. CASE LookupByIp(p)
  <2>1. proc'[p].pc \in {"name", "read"}
    <3>1. CASE Go(p, [r EXCEPT !.pc = "name", !.kind = "add"])
      BY <1>1, <3>1 DEF Go, Handlers
    <3>2. CASE Go(p, [r EXCEPT !.pc = "read", !.key = NoKey, !.reply = docs[r.id].val])
      BY <1>1, <3>2 DEF Go, Handlers
    <3>3. QED BY <1>8, <3>1, <3>2 DEF LookupByIp
  <2>2. QED BY <1>2, <2>1
<1>9. CASE ReadDoc(p) /\ Go(p, [r EXCEPT !.pc = "delete"])
  <2>1. proc'[p].pc = "delete"
    BY <1>1, <1>9 DEF Go, Handlers
  <2>2. QED BY <1>2, <2>1
<1>10. ASSUME NEW n \in Handlers, Replied(p, n) PROVE Fitting(proc'[p], config)
  <2>1. CASE Go(p, [n EXCEPT !.pc = "reply"])
    <3>1. proc'[p].pc = "reply"
      BY <1>1, <2>1 DEF Go, Handlers
    <3>2. QED BY <1>2, <3>1
  <2>2. QED BY <1>7, <1>10, <2>1 DEF Replied
<1>11. CASE Insert(p) /\ Replied(p, [r EXCEPT !.reply = r.new.val])
  <2> DEFINE n == [r EXCEPT !.reply = r.new.val]
  <2>1. n \in Handlers
    <3> HIDE DEF r
    <3>1. r.new.val \in [Items -> Entries \cup {Undeclared}]
      BY <1>1 DEF Handlers, Doc, Payloads
    <3>2. QED BY <1>1, <3>1 DEF Handlers
  <2> HIDE DEF n
  <2>2. QED BY <1>10, <1>11, <2>1 DEF n
<1>12. CASE r.kind = "reconcile"
  <2>1. PICK n \in Handlers : Advances(p, n)
    BY StepAdvances
  <2>2. proc'[p] = n /\ Shaped(n) /\ (n.pc = "idle" \/ n.kind = "reconcile")
    BY <1>1, <1>12, <2>1 DEF Advances, Continues
  <2>3. n.pc \in {"idle", "find", "bulk"}
    BY <2>2 DEF Shaped
  <2>4. QED BY <1>2, <2>2, <2>3
<1>13. ASSUME r.pc \in {"find", "bulk"} PROVE Fitting(proc'[p], config)
  BY <1>1, <1>12, <1>13 DEF Shaped
<1>14. CASE LookupName(p) \/ ReadDoc(p)
  BY <1>3, <1>7, <1>9, <1>14 DEF LookupName, ReadDoc
<1>15. CASE Save(p) \/ SaveRefused(p) \/ Insert(p) \/ Reply(p) \/ Delete(p)
  BY <1>1, <1>7, <1>10, <1>11, <1>15 DEF Save, SaveRefused, Insert, Reply, Delete
<1>16. QED BY <1>4, <1>5, <1>6, <1>8, <1>13, <1>14, <1>15 DEF Step, FindDevices, BulkWrite, ReconcileEnds

LEMMA FindConverts ==
    ASSUME Typed, NEW p \in Procs, Converting(proc[p], docs, config), NEW e \in proc[p].parsed,
           FindDevices(p, e)
    PROVE  /\ Converting(proc'[p], docs, config)
           /\ \A k \in CKeys : Due(proc[p], k) => Due(proc'[p], k)
<1> DEFINE r == proc[p]
           ops == [id \in Ids |-> IF docs[id] # NoDevice /\ docs[id].key = e.key
                                  THEN [set |-> ToSet(docs[id].val, e.cfg),
                                        unset |-> ToUnset(docs[id].val, e.cfg)]
                                  ELSE NoDevice]
           n == [r EXCEPT !.pc = "bulk", !.ops = ops, !.parsed = @ \ {e},
                          !.new.key = e.key, !.reply = e.cfg.item]
<1>1. r \in Handlers /\ Shaped(r) /\ r.pc = "find" /\ proc \in [Procs -> Handlers]
  BY DEF Typed, ProcTyped, FindDevices
<1>2. r.kind = "reconcile" /\ e \in [key : CKeys, cfg : Configs \ {NoConfig}]
  BY <1>1 DEF Shaped, Handlers
<1>3. proc'[p] = n
  BY <1>1 DEF FindDevices, Go
<1>4. (\A f \in r.parsed : f.cfg = config[f.key]) /\ e.cfg = config[e.key]
  BY <1>2 DEF Converting
<1>5. /\ n.pc = "bulk" /\ n.kind = "reconcile" /\ n.parsed = r.parsed \ {e}
      /\ n.new.key = e.key /\ n.reply = e.cfg.item /\ n.ops = ops
  <2> HIDE DEF r, ops
  <2>1. QED BY <1>1, <1>2 DEF Handlers, Doc
<1> HIDE DEF n
<1>6. ASSUME NEW id \in Ids PROVE Asked(n, docs, config[n.new.key], id)
  BY <1>4, <1>5 DEF Asked
<1>7. e.key \in CKeys /\ e.cfg # NoConfig
  BY <1>2
<1> HIDE DEF ops
<1>8. Converting(n, docs, config)
  BY <1>4, <1>5, <1>6, <1>7 DEF Converting
<1>9. ASSUME NEW k \in CKeys, Due(r, k) PROVE Due(n, k)
  BY <1>1, <1>5, <1>9 DEF Due
<1>10. QED BY <1>3, <1>8, <1>9

LEMMA BulkConverts ==
    ASSUME Typed, NEW p \in Procs, Converting(proc[p], docs, config), BulkWrite(p)
    PROVE  /\ Converting(proc'[p], docs', config)
           /\ \A k \in CKeys : Due(proc[p], k) => Due(proc'[p], k) \/ k = proc[p].new.key
<1> DEFINE r == proc[p]
           n == [r EXCEPT !.pc = "find", !.ops = NoProc.ops, !.reply = Nothing, !.new = Blank]
<1>1. r \in Handlers /\ Shaped(r) /\ r.pc = "bulk" /\ proc \in [Procs -> Handlers]
  BY DEF Typed, ProcTyped, BulkWrite
<1>2. proc'[p] = n /\ r.kind = "reconcile"
  BY <1>1 DEF BulkWrite, Go, Shaped
<1>3. n.pc = "find" /\ n.kind = "reconcile" /\ n.parsed = r.parsed
  <2> HIDE DEF r
  <2>1. QED BY <1>1, <1>2 DEF Handlers
<1> HIDE DEF n
<1>4. QED BY <1>2, <1>3 DEF Converting, Due

\* A bulk write leaves the devices of its configuration with what that declares.
LEMMA BulkFits ==
    ASSUME Typed, NEW p \in Procs, Converting(proc[p], docs, config), BulkWrite(p), NEW id \in Ids,
           docs'[id] # NoDevice
    PROVE  /\ docs[id] # NoDevice /\ docs'[id].key = docs[id].key
           /\ IF docs[id].key = proc[p].new.key
              THEN Fits(docs'[id].val, config[docs[id].key])
              ELSE docs'[id] = docs[id] /\ loose'[id] = loose[id]
<1> DEFINE r == proc[p]
           hit == {j \in Ids : r.ops[j] # NoDevice /\ docs[j] # NoDevice}
           c == config[r.new.key]
           val == docs[id].val
<1>1. /\ r.pc = "bulk" /\ r.kind = "reconcile"
      /\ docs' = [j \in Ids |-> IF j \in hit THEN [docs[j] EXCEPT !.val = Tidied(r, j)]
                                ELSE docs[j]]
      /\ loose' = [j \in Ids |-> loose[j] /\ j \notin hit]
  BY DEF Typed, ProcTyped, Shaped, BulkWrite
<1>2. docs[id] # NoDevice /\ docs[id] \in Doc
  BY <1>1 DEF Typed, DocsTyped
<1>3. Asked(r, docs, c, id) /\ c # NoConfig /\ r.reply = c.item /\ c \in Configs
  BY <1>1 DEF Converting, Typed, WorldTyped
<1>4. CASE docs[id].key # r.new.key
  <2>1. id \notin hit
    BY <1>3, <1>4 DEF Asked
  <2>2. docs'[id] = docs[id] /\ loose'[id] = (loose[id] /\ id \notin hit)
    BY <1>1, <2>1
  <2>3. loose'[id] = loose[id]
    BY <2>1, <2>2 DEF Typed, FlagsTyped
  <2>4. QED BY <1>2, <1>4, <2>2, <2>3
<1>5. CASE docs[id].key = r.new.key
  <2>1. r.ops[id] = [set |-> ToSet(val, c), unset |-> ToUnset(val, c)]
    BY <1>2, <1>3, <1>5 DEF Asked
  <2>2. r.ops[id] # NoDevice
    <3>1. ToSet(val, c) \in SUBSET Items /\ ToUnset(val, c) \in SUBSET Items
      BY DEF ToSet, ToUnset, Declared, Described, SectionOf, Items
    <3>2. QED BY <2>1, <3>1, NoSuch
  <2>3. docs'[id] = [docs[id] EXCEPT !.val = Tidied(r, id)]
    BY <1>1, <1>2, <2>2
  <2>4. docs'[id].key = docs[id].key /\ docs'[id].val = Tidied(r, id)
    BY <1>2, <2>3 DEF Doc
  <2>5. ASSUME NEW i \in Described(c) PROVE docs'[id].val[i] # Absent <=> Declares(c, i)
    <3>1. i \in Items
      BY DEF Described, SectionOf, Items
    <3>2. docs'[id].val[i] = IF i \in ToSet(val, c) THEN c.item[i]
                             ELSE IF i \in ToUnset(val, c) THEN Absent ELSE val[i]
      BY <1>3, <2>1, <2>4, <3>1 DEF Tidied
    <3>3. CASE Declares(c, i)
      <4>1. i \in Declared(c) /\ i \notin ToUnset(val, c) /\ (i \in ToSet(val, c) <=> val[i] = Absent)
        BY <3>1, <3>3 DEF ToSet, ToUnset, Declared
      <4>2. c.item[i] # Absent
        <5>1. c.item[i] \in Values \cup {Null}
          BY <1>3, <3>1, <3>3, ConfigShape DEF Declares
        <5>2. QED BY <5>1, Sentinels
      <4>3. QED BY <3>2, <3>3, <4>1, <4>2
    <3>4. CASE ~Declares(c, i)
      <4>1. i \notin ToSet(val, c) /\ (i \in ToUnset(val, c) <=> val[i] # Absent)
        BY <2>5, <3>4 DEF ToSet, ToUnset, Declared
      <4>2. QED BY <3>2, <3>4, <4>1
    <3>5. QED BY <3>3, <3>4
  <2>6. QED BY <1>2, <1>5, <2>4, <2>5 DEF Fits
<1>6. QED BY <1>4, <1>5

\* A merge without an override drops nothing, and adds what is declared.
LEMMA SaveFits ==
    ASSUME InTurn, NEW p \in Procs, Fitting(proc[p], config), Save(p), docs[proc[p].id] # NoDevice,
           loose'[proc[p].id] # TRUE
    PROVE  LET id == proc[p].id IN
           /\ id \in Ids /\ docs'[id].key = docs[id].key /\ loose[id] # TRUE
           /\ Fits(docs[id].val, config[docs[id].key]) => Fits(docs'[id].val, config[docs[id].key])
           /\ \A j \in Ids \ {id} : docs'[j] = docs[j] /\ loose'[j] = loose[j]
<1> DEFINE r == proc[p]
           d == docs[r.id]
<1>1. /\ r \in Handlers /\ Shaped(r) /\ UpToDate(r, docs)
      /\ docs \in [Ids -> Doc \cup {NoDevice}] /\ loose \in [Ids -> BOOLEAN]
  BY DEF InTurn, Typed, ProcTyped, DocsTyped, FlagsTyped, Fresh
<1>2. r.pc = "save" /\ r.kind = "update" /\ r.id \in Ids /\ r.pc \in Computing
  BY <1>1 DEF Save, Shaped, Computing
<1>3. /\ docs' = [docs EXCEPT ![r.id] = Written(r, @)]
      /\ loose' = [loose EXCEPT ![r.id] = @ \/ r.override \/ r.new.key # r.old.key]
  BY DEF Save
<1>4. d \in Doc /\ docs'[r.id] = Written(r, d)
      /\ \A j \in Ids \ {r.id} : docs'[j] = docs[j] /\ loose'[j] = loose[j]
  BY <1>1, <1>2, <1>3
<1>5. loose[r.id] # TRUE /\ r.override # TRUE /\ r.new.key = r.old.key
  BY <1>1, <1>2, <1>3 DEF Handlers
<1>6. docs'[r.id].key = d.key
  BY <1>4, <1>5 DEF Written
<1>7. ASSUME Fits(d.val, config[d.key]) PROVE Fits(docs'[r.id].val, config[d.key])
  <2>1. \A i \in Writes(r) : d.val[i] = r.old.val[i]
    BY <1>1, <1>2 DEF UpToDate
  <2>2. ASSUME NEW i \in Items
        PROVE  \/ docs'[r.id].val[i] = d.val[i]
               \/ docs'[r.id].val[i] = r.new.val[i] /\ d.val[i] = r.old.val[i]
    BY <1>1, <1>2, <1>4, <2>1, WrittenEntries
  <2>3. CASE Writes(r) = {}
    <3>1. r.new.val = r.old.val
      <4>1. Touched(r.pay) = {} \/ Items = {}
        BY <2>3 DEF Writes
      <4>2. \A i \in Items : r.new.val[i] = r.old.val[i]
        BY <1>1, <1>2, <1>5, <4>1 DEF Shaped, Limited
      <4>3. QED BY <1>1, <4>2 DEF Handlers, Doc, Payloads
    <3>2. \A i \in Items : docs'[r.id].val[i] = d.val[i]
      BY <2>2, <3>1
    <3>3. QED BY <1>7, <3>2 DEF Fits, Described, SectionOf, Items
  <2>4. CASE Writes(r) # {}
    <3>1. d.key = r.new.key
      BY <1>1, <1>2, <1>5, <2>4 DEF UpToDate
    <3>2. ASSUME NEW i \in Items, r.old.val[i] # Absent PROVE r.new.val[i] # Absent
      <4>1. Effect(r)
        BY <1>1, <1>2 DEF Shaped
      <4>2. QED BY <1>5, <3>2, <4>1 DEF Effect, Merges, Named
    <3>3. ASSUME Strict(config[d.key]), NEW i \in Items, r.new.val[i] # Absent, r.old.val[i] = Absent
          PROVE  Declares(config[d.key], i)
      BY <1>2, <1>5, <3>1, <3>3 DEF Fitting
    <3>4. ASSUME Strict(config[d.key]), NEW i \in Described(config[d.key])
          PROVE  docs'[r.id].val[i] # Absent <=> Declares(config[d.key], i)
      <4>1. i \in Items /\ (d.val[i] # Absent <=> Declares(config[d.key], i))
        BY <1>7, <3>4 DEF Fits, Described, SectionOf, Items
      <4>2. QED BY <2>2, <3>2, <3>3, <3>4, <4>1
    <3>5. QED BY <3>4 DEF Fits
  <2>5. QED BY <2>3, <2>4
<1>8. QED BY <1>2, <1>4, <1>5, <1>6, <1>7

LEMMA InsertFits ==
    ASSUME Typed, NEW p \in Procs, Fitting(proc[p], config), Insert(p), docs[proc[p].id] = NoDevice
    PROVE  LET id == proc[p].id IN
           /\ Fits(docs'[id].val, config[docs'[id].key])
           /\ \A j \in Ids \ {id} : docs'[j] = docs[j] /\ loose'[j] = loose[j]
<1> DEFINE r == proc[p]
<1>1. r \in Handlers /\ Shaped(r) /\ r.pc = "save" /\ r.kind = "add" /\ r.id \in Ids
  BY DEF Typed, ProcTyped, Insert, Shaped
<1>2. /\ docs' = [docs EXCEPT ![r.id] = r.new] /\ loose' = [loose EXCEPT ![r.id] = FALSE]
      /\ docs \in [Ids -> Doc \cup {NoDevice}] /\ loose \in [Ids -> BOOLEAN]
  BY DEF Insert, Typed, DocsTyped, FlagsTyped
<1>3. docs'[r.id] = r.new /\ \A j \in Ids \ {r.id} : docs'[j] = docs[j] /\ loose'[j] = loose[j]
  BY <1>1, <1>2
<1>4. ASSUME Strict(config[r.new.key]), NEW i \in Described(config[r.new.key])
      PROVE  r.new.val[i] # Absent <=> Declares(config[r.new.key], i)
  <2>1. i \in Items /\ r.old.val[i] = Absent
    BY <1>1 DEF Shaped, Blank, Nothing, Described, SectionOf, Items
  <2>2. QED BY <1>1, <1>4, <2>1 DEF Fitting, Declared
<1>5. Fits(r.new.val, config[r.new.key])
  BY <1>4 DEF Fits
<1>6. QED BY <1>3, <1>5

LEMMA ConvertingStep ==
    ASSUME InTurn, Conforming, Items # {}, NEW p \in Procs, Step(p)
    PROVE  \A q \in Procs : Fitting(proc'[q], config') /\ Converting(proc'[q], docs', config')
<1>1. Typed /\ config' = config
  BY DEF InTurn, Step, LookupByIp, LookupName, ReadDoc, Merge, Defaults, Send, Save, SaveRefused,
         Insert, Reply, Delete, FindDevices, BulkWrite, ReconcileEnds
<1>2. PICK n \in Handlers : Advances(p, n)
  BY <1>1, StepAdvances
<1>3. /\ proc'[p] = n /\ (\A q \in Procs \ {p} : proc'[q] = proc[q])
      /\ n.pc = "idle" \/ (n.kind = "reconcile" <=> proc[p].kind = "reconcile")
      /\ n.pc = "idle" => n.kind # "reconcile"
  BY <1>1, <1>2 DEF Advances, Continues, Shaped, Typed, ProcTyped
<1>4. ASSUME NEW q \in Procs \ {p}
      PROVE  Fitting(proc'[q], config') /\ Converting(proc'[q], docs', config')
  <2>1. Fitting(proc[q], config) /\ Converting(proc[q], docs, config)
    BY DEF Conforming
  <2>2. proc[q].kind = "reconcile" => docs' = docs
    BY BesideReconcile
  <2>3. CASE proc[q].kind = "reconcile"
    BY <1>1, <1>3, <2>1, <2>2, <2>3
  <2>4. CASE proc[q].kind # "reconcile"
    BY <1>1, <1>3, <2>1, <2>4 DEF Converting
  <2>5. QED BY <2>3, <2>4
<1>5. Fitting(proc'[p], config')
  BY <1>1, FittingStep DEF Conforming
<1>6. Converting(proc'[p], docs', config')
  <2>1. CASE n.kind # "reconcile"
    BY <1>3, <2>1 DEF Converting
  <2>2. ASSUME n.kind = "reconcile" PROVE proc[p].pc \in {"find", "bulk"} /\ n.pc # "idle"
    BY <1>1, <1>3, <2>2 DEF Typed, ProcTyped, Shaped
  <2>3. CASE ReconcileEnds(p)
    <3>1. proc'[p] = NoProc
      BY <1>1, <2>3 DEF ReconcileEnds, Finish, Typed, ProcTyped
    <3>2. QED BY <1>3, <2>2, <3>1, NoProcTyped DEF Converting
  <2>4. ASSUME NEW e \in proc[p].parsed, FindDevices(p, e) PROVE Converting(proc'[p], docs', config')
    <3>1. Converting(proc[p], docs, config) /\ docs' = docs
      BY <2>4 DEF Conforming, FindDevices
    <3>2. QED BY <1>1, <2>4, <3>1, FindConverts
  <2>5. CASE BulkWrite(p)
    BY <1>1, <2>5, BulkConverts DEF Conforming
  <2>6. ASSUME n.kind = "reconcile"
        PROVE  (\E e \in proc[p].parsed : FindDevices(p, e)) \/ BulkWrite(p) \/ ReconcileEnds(p)
    BY <2>2, <2>6, <1>1
       DEF Step, LookupByIp, LookupName, ReadDoc, Merge, Defaults, Send, Save, SaveRefused,
           Insert, Reply, Delete
  <2>7. QED BY <2>1, <2>3, <2>4, <2>5, <2>6
<1>7. QED BY <1>3, <1>4, <1>5, <1>6

\* A step leaves a device with what is declared, or with a reconciliation that
\* will see to it.
LEMMA FitsStep ==
    ASSUME InTurn, Conforming, Items # {}, NEW p \in Procs, Step(p), NEW id \in Ids,
           docs'[id] # NoDevice, loose'[id] # TRUE
    PROVE  \/ Fits(docs'[id].val, config'[docs'[id].key])
           \/ \E q \in Procs : Due(proc'[q], docs'[id].key)
<1> DEFINE Seen(ds, cf, pr) == \/ Fits(ds[id].val, cf[ds[id].key])
                               \/ \E q \in Procs : Due(pr[q], ds[id].key)
<1>1. Typed /\ config' = config /\ proc[p] \in Handlers /\ Shaped(proc[p])
  BY DEF InTurn, Typed, ProcTyped, Step, LookupByIp, LookupName, ReadDoc, Merge, Defaults, Send,
         Save, SaveRefused, Insert, Reply, Delete, FindDevices, BulkWrite, ReconcileEnds
<1>2. PICK n \in Handlers : Advances(p, n)
  BY <1>1, StepAdvances
<1>3. proc'[p] = n /\ \A q \in Procs \ {p} : proc'[q] = proc[q]
  BY <1>1, <1>2 DEF Advances, Typed, ProcTyped
<1>4. docs[id] # NoDevice /\ loose[id] # TRUE => Seen(docs, config, proc)
  BY DEF Conforming
<1>5. docs[id] # NoDevice => docs[id].key \in CKeys
  BY <1>1 DEF Typed, DocsTyped
<1>6. ASSUME docs[id] # NoDevice, loose[id] # TRUE, docs'[id].key = docs[id].key,
             Due(proc[p], docs[id].key) => Due(proc'[p], docs[id].key),
             Fits(docs[id].val, config[docs[id].key]) => Fits(docs'[id].val, config[docs[id].key])
      PROVE  Seen(docs', config', proc')
  <2>1. CASE Fits(docs[id].val, config[docs[id].key])
    BY <1>1, <1>6, <2>1
  <2>2. ASSUME NEW q \in Procs, Due(proc[q], docs[id].key) PROVE Due(proc'[q], docs'[id].key)
    <3>1. CASE q = p
      BY <1>6, <2>2, <3>1
    <3>2. CASE q # p
      BY <1>3, <1>6, <2>2, <3>2
    <3>3. QED BY <3>1, <3>2
  <2>3. QED BY <1>4, <1>6, <2>1, <2>2
<1>7. CASE proc[p].kind = "reconcile"
  <2>1. (\E e \in proc[p].parsed : FindDevices(p, e)) \/ BulkWrite(p) \/ ReconcileEnds(p)
    BY <1>1, <1>7 DEF Step, LookupByIp, LookupName, ReadDoc, Merge, Defaults, Send, Save,
                      SaveRefused, Insert, Reply, Delete, Shaped
  <2>2. ASSUME NEW e \in proc[p].parsed, FindDevices(p, e) PROVE Seen(docs', config', proc')
    <3>1. docs' = docs /\ loose' = loose /\ Converting(proc[p], docs, config)
      BY <2>2 DEF FindDevices, Conforming
    <3>2. Due(proc[p], docs[id].key) => Due(proc'[p], docs[id].key)
      BY <1>1, <1>5, <2>2, <3>1, FindConverts
    <3>3. QED BY <1>6, <3>1, <3>2
  <2>3. CASE BulkWrite(p)
    <3>1. Converting(proc[p], docs, config)
      BY DEF Conforming
    <3>2. /\ docs[id] # NoDevice /\ docs'[id].key = docs[id].key
          /\ IF docs[id].key = proc[p].new.key
             THEN Fits(docs'[id].val, config[docs[id].key])
             ELSE docs'[id] = docs[id] /\ loose'[id] = loose[id]
      BY <1>1, <2>3, <3>1, BulkFits
    <3>3. CASE docs[id].key = proc[p].new.key
      BY <1>1, <3>2, <3>3
    <3>4. CASE docs[id].key # proc[p].new.key
      <4>1. Due(proc[p], docs[id].key) => Due(proc'[p], docs[id].key)
        BY <1>1, <1>5, <2>3, <3>1, <3>2, <3>4, BulkConverts
      <4>2. QED BY <1>6, <3>2, <3>4, <4>1
    <3>5. QED BY <3>3, <3>4
  <2>4. CASE ReconcileEnds(p)
    <3>1. docs' = docs /\ loose' = loose /\ ~Due(proc[p], docs[id].key)
      BY <2>4 DEF ReconcileEnds, Due
    <3>2. QED BY <1>6, <3>1
  <2>5. QED BY <2>1, <2>2, <2>3, <2>4
<1>8. ASSUME proc[p].kind # "reconcile", docs'[id] = docs[id], loose'[id] = loose[id]
      PROVE  Seen(docs', config', proc')
  BY <1>6, <1>8 DEF Due
<1>9. CASE proc[p].kind # "reconcile"
  <2>1. CASE UNCHANGED <<docs, loose>>
    BY <1>8, <1>9, <2>1
  <2>2. CASE Save(p) /\ docs[proc[p].id] # NoDevice
    <3>1. CASE id = proc[p].id
      <4>1. /\ docs'[id].key = docs[id].key /\ loose[id] # TRUE
            /\ Fits(docs[id].val, config[docs[id].key])
                   => Fits(docs'[id].val, config[docs[id].key])
        BY <2>2, <3>1, SaveFits DEF Conforming
      <4>2. QED BY <1>6, <1>9, <2>2, <3>1, <4>1 DEF Due
    <3>2. CASE id # proc[p].id
      <4>1. docs'[id] = docs[id] /\ loose'[id] = loose[id]
        BY <1>1, <2>2, <3>2 DEF Save, Typed, DocsTyped, FlagsTyped
      <4>2. QED BY <1>8, <1>9, <4>1
    <3>3. QED BY <3>1, <3>2
  <2>3. CASE Insert(p) /\ docs[proc[p].id] = NoDevice
    <3>1. /\ Fits(docs'[proc[p].id].val, config[docs'[proc[p].id].key])
          /\ \A j \in Ids \ {proc[p].id} : docs'[j] = docs[j] /\ loose'[j] = loose[j]
      BY <1>1, <2>3, InsertFits DEF Conforming
    <3>2. QED BY <1>1, <1>8, <1>9, <3>1
  <2>4. CASE Delete(p)
    <3>1. docs' = [docs EXCEPT ![proc[p].id] = NoDevice] /\ loose' = loose
      BY <2>4 DEF Delete
    <3>2. docs'[id] = docs[id]
      BY <1>1, <3>1 DEF Typed, DocsTyped
    <3>3. QED BY <1>8, <1>9, <3>1, <3>2
  <2>5. QED BY <1>1, <1>9, <2>1, <2>2, <2>3, <2>4
            DEF Step, LookupByIp, LookupName, ReadDoc, Merge, Defaults, Send, Save, SaveRefused,
                Insert, Reply, Delete, FindDevices, BulkWrite, ReconcileEnds, Shaped
<1>10. QED BY <1>7, <1>9

LEMMA RequestConforming ==
    ASSUME InTurn, Conforming, NEW p \in Procs, Request(p)
    PROVE  Conforming'
<1>1. Typed /\ UNCHANGED <<docs, config, loose>> /\ proc \in [Procs -> Handlers]
  BY DEF InTurn, Typed, ProcTyped, Request, ApiUpdate, ApiRekey, ApiAdd, ApiRemove, Report,
         Measure, PairRequest
<1>2. PICK r \in Handlers : Begins(p, r)
  BY <1>1, RequestBegins DEF Begins
<1>3. proc'[p] = r /\ proc[p].pc = "idle" /\ \A q \in Procs \ {p} : proc'[q] = proc[q]
  BY <1>1, <1>2 DEF Begins, Start
<1>4. proc'[p].pc # "find"
  <2>1. ASSUME NEW n, Start(p, n), n.pc # "find" PROVE proc'[p].pc # "find"
    BY <1>1, <2>1 DEF Start
  <2>2. \A id, pay, propagate, origin :
            LET u == UpdateOf(id, pay, propagate, origin) IN
            /\ u.pc = "read" /\ \A ov : [u EXCEPT !.override = ov].pc = "read"
            /\ \A k : [u EXCEPT !.key = k].pc = "read"
    BY DEF UpdateOf, NoProc
  <2>3. ASSUME NEW id \in Ids, NEW i \in Items, NEW v \in Values \cup {Bad}, NEW ov \in BOOLEAN,
               ApiUpdate(p, id, i, v, ov)
        PROVE  proc'[p].pc # "find"
    BY <2>1, <2>2, <2>3 DEF ApiUpdate
  <2>4. ASSUME NEW id \in Ids, NEW k \in CKeys, ApiRekey(p, id, k) PROVE proc'[p].pc # "find"
    BY <2>1, <2>2, <2>4 DEF ApiRekey
  <2>5. ASSUME NEW id \in Ids, NEW k \in CKeys, ApiAdd(p, id, k) PROVE proc'[p].pc # "find"
    BY <2>1, <2>5 DEF ApiAdd, NoProc
  <2>6. ASSUME NEW id \in Ids, NEW k \in CKeys, NEW v \in Values \cup {Absent}, PairRequest(p, id, k, v) PROVE proc'[p].pc # "find"
    BY <2>1, <2>6 DEF PairRequest, NoProc
  <2>7. ASSUME NEW id \in Ids, ApiRemove(p, id) PROVE proc'[p].pc # "find"
    BY <2>1, <2>7 DEF ApiRemove, NoProc
  <2>8. ASSUME NEW id \in Ids, Report(p, id) PROVE proc'[p].pc # "find"
    BY <2>1, <2>2, <2>8 DEF Report
  <2>9. ASSUME NEW id \in Ids, NEW i \in Measurements, NEW v \in Values \cup {Bad},
               Measure(p, id, i, v)
        PROVE  proc'[p].pc # "find"
    BY <2>1, <2>2, <2>9 DEF Measure
  <2>10. QED BY <2>3, <2>4, <2>5, <2>6, <2>7, <2>8, <2>9 DEF Request
<1>5. Fitting(r, config) /\ Converting(r, docs, config)
  BY <1>2, <1>3, <1>4 DEF Begins, Starts, Shaped, Fitting, Converting
<1>6. ASSUME NEW q \in Procs
      PROVE  Fitting(proc'[q], config') /\ Converting(proc'[q], docs', config')
  BY <1>1, <1>3, <1>5 DEF Conforming
<1>7. ASSUME NEW id \in Ids, docs'[id] # NoDevice, loose'[id] # TRUE
      PROVE  \/ Fits(docs'[id].val, config'[docs'[id].key])
             \/ \E q \in Procs : Due(proc'[q], docs'[id].key)
  <2>1. \A q \in Procs : Due(proc[q], docs[id].key) => q # p
    BY <1>1, <1>3 DEF Typed, ProcTyped, Shaped, Due
  <2>2. QED BY <1>1, <1>3, <1>7, <2>1 DEF Conforming
<1>8. QED BY <1>6, <1>7 DEF Conforming

LEMMA ChangeConforming ==
    ASSUME Exclusive = TRUE, InTurn, Items # {}, NEW p \in Procs, NEW k \in CKeys,
           NEW c \in Configs \cup {NoConfig}, ConfigsChanged(p, k, c)
    PROVE  Conforming'
<1> DEFINE parsed == [config EXCEPT ![k] = c]
           news == {[key |-> j, cfg |-> parsed[j]] : j \in {l \in CKeys : parsed[l] # NoConfig}}
           r == [NoProc EXCEPT !.pc = "find", !.kind = "reconcile", !.parsed = news]
<1>1. /\ Typed /\ proc \in [Procs -> Handlers] /\ (\A q \in Procs : Shaped(proc[q]))
      /\ config' = parsed /\ UNCHANGED <<docs, loose>> /\ Start(p, r)
  BY DEF InTurn, Typed, ProcTyped, ConfigsChanged
<1> HIDE DEF parsed
<1>2. \A j \in CKeys : parsed[j] # NoConfig => [key |-> j, cfg |-> parsed[j]] \in news
  OBVIOUS
<1>3. \A e \in news : e.cfg = parsed[e.key]
  OBVIOUS
<1> HIDE DEF news
<1>4. r.pc = "find" /\ r.kind = "reconcile" /\ r.parsed = news
  BY DEF NoProc
<1> HIDE DEF r
<1>5. proc'[p] = r /\ \A q \in Procs \ {p} : proc'[q] = proc[q]
  BY <1>1 DEF Start
<1>6. Fitting(proc'[p], config') /\ Converting(proc'[p], docs', config')
  BY <1>1, <1>3, <1>4, <1>5 DEF Fitting, Converting
<1>7. ASSUME NEW q \in Procs \ {p}, proc[q].pc # "idle" PROVE Writes(proc[q]) = {}
  <2>1. ~Conflict(r, proc[q])
    BY <1>1 DEF Start
  <2>2. Writes(r) = Items
    BY <1>4 DEF Writes
  <2>3. QED BY <1>4, <1>7, <2>1, <2>2, WritesItems DEF Conflict
<1>8. ASSUME NEW q \in Procs \ {p}
      PROVE  Fitting(proc'[q], config') /\ Converting(proc'[q], docs', config')
  <2>1. proc[q].kind # "reconcile"
    BY <1>1, <1>7 DEF Shaped, Writes
  <2>2. ASSUME proc[q].pc \in {"defaults", "send", "save"}
        PROVE  /\ proc[q].kind # "add" /\ proc[q].new.key = proc[q].old.key
               /\ \A i \in Items : proc[q].new.val[i] = proc[q].old.val[i]
    <3>1. Writes(proc[q]) = {}
      BY <1>7, <2>2
    <3>2. proc[q].kind = "update" /\ proc[q].key = NoKey /\ Touched(proc[q].pay) = {}
      BY <3>1 DEF Writes
    <3>3. proc[q].new.key = proc[q].old.key /\ Limited(proc[q])
      BY <1>1, <2>2, <3>2 DEF Shaped, Computing
    <3>4. QED BY <3>2, <3>3 DEF Limited
  <2>3. QED BY <1>5, <2>1, <2>2 DEF Fitting, Converting
<1>9. ASSUME NEW id \in Ids, docs'[id] # NoDevice
      PROVE  \/ Fits(docs'[id].val, config'[docs'[id].key])
             \/ \E q \in Procs : Due(proc'[q], docs'[id].key)
  <2>1. docs[id].key \in CKeys /\ docs'[id] = docs[id]
    BY <1>1, <1>9 DEF Typed, DocsTyped
  <2>2. CASE parsed[docs[id].key] = NoConfig
    BY <1>1, <2>1, <2>2 DEF Fits, Strict
  <2>3. CASE parsed[docs[id].key] # NoConfig
    <3>1. [key |-> docs[id].key, cfg |-> parsed[docs[id].key]] \in news
      BY <1>2, <2>1, <2>3
    <3>2. Due(r, docs[id].key)
      BY <1>4, <3>1 DEF Due
    <3>3. QED BY <1>5, <2>1, <3>2
  <2>4. QED BY <2>2, <2>3
<1>10. QED BY <1>6, <1>8, <1>9 DEF Conforming

LEMMA InitConforming == Init => Conforming
<1> SUFFICES ASSUME Init PROVE Conforming
  OBVIOUS
<1>1. \A p \in Procs : Fitting(proc[p], config) /\ Converting(proc[p], docs, config)
  BY NoProcTyped DEF Init, Fitting, Converting
<1>2. ASSUME NEW id \in Ids, docs[id] # NoDevice PROVE Fits(docs[id].val, config[docs[id].key])
  <2>1. docs[id].key \in CKeys
    BY <1>2, InitTyped DEF Typed, DocsTyped
  <2>2. QED BY <2>1 DEF Init, Fits, Strict
<1>3. QED BY <1>1, <1>2 DEF Conforming

LEMMA NextConforming ==
    Exclusive = TRUE /\ Items # {} /\ InTurn /\ Conforming /\ [Next]_vars => Conforming'
<1> SUFFICES ASSUME Exclusive = TRUE, Items # {}, InTurn, Conforming, [Next]_vars
             PROVE  Conforming'
  OBVIOUS
<1>1. CASE UNCHANGED <<docs, config, proc, loose>>
  BY <1>1 DEF Conforming
<1>2. ASSUME NEW p \in Procs, Step(p) PROVE Conforming'
  BY <1>2, ConvertingStep, FitsStep DEF Conforming
<1>3. CASE Next
  BY <1>1, <1>2, <1>3, RequestConforming, ChangeConforming DEF Next, DeviceActs
<1>4. QED BY <1>1, <1>3 DEF vars

\* Where handlers that write the same section of a device take turns, a device
\* with nothing under way has the entries its strict configuration declares for
\* each section it describes, and no others, whichever order updates, new
\* devices, pairings and changes of configurations came in; only an override or
\* a new key suspends that, until the next reconciliation.
THEOREM ConfigurationsHold == ASSUME Exclusive = TRUE PROVE Spec => []Conforms
<1>1. CASE Items = {}
  <2>1. Typed => Conforms
    BY <1>1, NoItemsConform
  <2>2. QED BY <2>1, AlwaysTyped, PTL
<1>2. CASE Items # {}
  <2>1. Init => InTurn /\ Conforming
    BY InitInTurn, InitConforming
  <2>2. InTurn /\ Conforming /\ [Next]_vars => (InTurn /\ Conforming)'
    BY <1>2, NextInTurn, NextConforming
  <2>3. InTurn /\ Conforming => Conforms
    BY ConformingConforms DEF InTurn
  <2>4. QED BY <2>1, <2>2, <2>3, PTL DEF Spec
<1>3. QED BY <1>1, <1>2

(* --------------------------- Hub and device agree --------------------------- *)

\* Controls a device has, or that nobody gave a value to.
Agree(val, has) == \A i \in Controls : val[i] \in {Null, Absent, has[i]}
Tells(r) == \E i \in Controls : r.pay[i] # Absent

\* Where handlers come from: a pairing device tells what it has, the API has its
\* controls sent, and only those are sent.
Origins(r) ==
    /\ r.pair = TRUE => r.origin = "device" /\ Tells(r)
    /\ r.kind = "update" /\ r.origin = "api" => r.propagate = TRUE
    /\ r.kind = "add" /\ r.pair # TRUE => ~Tells(r)
    /\ r.pc = "send" => r.kind = "update" /\ r.propagate = TRUE /\ Tells(r)

\* What a device tells it still has, unless it has published another state.
Told(r, dev, rep) ==
    r.kind \in {"update", "add"} /\ r.origin = "device" /\ Tells(r)
        => /\ r.propagate = FALSE /\ r.override = FALSE
           /\ r.kind = "update" /\ r.pc # "ip" => r.key = NoKey
           /\ r.pc # "reply"
                  => \A i \in Controls : /\ r.pay[i] \in Values
                                         /\ rep[r.id] = <<>> => r.pay[i] = dev[r.id][i]

\* What is going to be saved of it.
Taken(r, ast) ==
    r.kind = "update" /\ r.origin = "device" /\ Tells(r) /\ r.pc = "save" /\ ast[r.id] # TRUE
        => Agree(r.new.val, r.pay)

\* The device has what it was sent, unless it has published another state; what
\* it was not sent is known to be missing.
Sent(r, dev, rep) ==
    r.sent = TRUE => /\ r.kind = "update" /\ r.origin = "api" /\ Tells(r) /\ r.pc = "save"
                     /\ rep[r.id] = <<>> => Agree(r.new.val, dev[r.id])
Unsent(r, ast) ==
    r.kind = "update" /\ r.origin = "api" /\ Tells(r) /\ r.pc = "save" /\ r.sent # TRUE
        => ast[r.id] = TRUE

\* The reply to a new device holds what is stored.
Answered(r, ds) ==
    r.kind = "add" /\ r.pc = "reply" /\ ds[r.id] # NoDevice
        => \A i \in Controls : ds[r.id].val[i] \in Values => r.reply[i] = ds[r.id].val[i]

Honest(r, ds, dev, rep, ast) ==
    /\ Origins(r) /\ Told(r, dev, rep) /\ Taken(r, ast) /\ Sent(r, dev, rep) /\ Unsent(r, ast)
    /\ Answered(r, ds)

\* Who is still going to make hub and device agree: a state that was published and
\* received, a reply to a new device.
Carries(r, id) == /\ r.id = id /\ r.kind = "update" /\ r.pair # TRUE /\ r.origin = "device"
                  /\ Tells(r) /\ r.pc \in {"read", "merge", "save"}
Answers(r, id) == r.id = id /\ r.kind = "add" /\ r.pc = "reply"
Mends(r, id) == Carries(r, id) \/ Answers(r, id)

\* The last state a device published is the one it has.
Queued == \A id \in Ids : reports[id] # <<>> => reports[id][Len(reports[id])] = device[id]

Agreeing ==
    /\ \A p \in Procs : Honest(proc[p], docs, device, reports, astray)
    /\ Queued
    /\ \A id \in Ids : docs[id] # NoDevice /\ astray[id] # TRUE /\ reports[id] = <<>>
           => Agree(docs[id].val, device[id]) \/ \E p \in Procs : Mends(proc[p], id)

LEMMA AgreeingAgrees == Typed /\ Agreeing => DeviceAgrees
<1> SUFFICES ASSUME Typed, Agreeing, NEW id \in Ids, Settled(id), astray[id] # TRUE
             PROVE  \A i \in Controls : docs[id].val[i] \in {Null, Absent, device[id][i]}
  BY DEF DeviceAgrees, Typed, FlagsTyped
<1>1. \A p \in Procs : ~Mends(proc[p], id)
  BY DEF Settled, Mends, Carries, Answers
<1>2. QED BY <1>1 DEF Agreeing, Settled, Agree

\* Whoever speaks of a control writes all of them.
Concerned(r) == r.kind = "add" \/ (r.kind = "update" /\ Tells(r))

LEMMA ToldWrites == ASSUME NEW r \in Handlers, Concerned(r) PROVE Controls \subseteq Writes(r)
<1>1. CASE Tells(r)
  <2>1. PICK i \in Controls : r.pay[i] # Absent
    BY <1>1 DEF Tells
  <2>2. Controls \subseteq Touched(r.pay)
    BY <2>1 DEF Touched, Named, SectionOf, Items
  <2>3. QED BY <2>2 DEF Writes, Items
<1>2. CASE r.kind = "add"
  BY <1>2 DEF Writes, Items
<1>3. QED BY <1>1, <1>2 DEF Concerned

\* What leaves the word of a handler good: nothing that was in doubt is taken for
\* settled, and the device has changed only if it says so.
Undisturbed(q) ==
    /\ reports'[q.id] = <<>> => reports[q.id] = <<>> /\ device'[q.id] = device[q.id]
    /\ astray[q.id] = TRUE => astray'[q.id] = TRUE
    /\ docs'[q.id] # NoDevice
           => docs[q.id] # NoDevice /\ \A i \in Controls : docs'[q.id].val[i] = docs[q.id].val[i]

LEMMA UndisturbedHonest ==
    ASSUME NEW q \in Handlers, Honest(q, docs, device, reports, astray),
           Concerned(q) => Undisturbed(q)
    PROVE  Honest(q, docs', device', reports', astray')
BY DEF Honest, Concerned, Undisturbed, Told, Taken, Sent, Unsent, Answered, Tells, Agree, Origins

LEMMA ReceivedQueued ==
    ASSUME WorldTyped, Queued, NEW id \in Ids, NEW val, Received(id, val)
    PROVE  /\ Queued' /\ device'[id] = Applied(device[id], val)
           /\ \A j \in Ids : reports'[j] = <<>> => reports[j] = <<>> /\ device'[j] = device[j]
<1> DEFINE now == Applied(device[id], val)
<1>1. device' = [device EXCEPT ![id] = now] /\ device \in [Ids -> [Controls -> Values]]
  BY DEF Received, WorldTyped
<1>2. device'[id] = now /\ \A j \in Ids \ {id} : device'[j] = device[j]
  BY <1>1
<1>3. reports \in [Ids -> Seq([Controls -> Values])]
  BY DEF WorldTyped
<1>4. now \in [Controls -> Values]
  BY <1>1 DEF Applied
<1>5. CASE now = device[id]
  <2>1. reports' = reports
    BY <1>5 DEF Received
  <2>2. QED BY <1>2, <1>5, <2>1 DEF Queued
<1>6. CASE now # device[id]
  <2> HIDE DEF now
  <2>1. reports' = [reports EXCEPT ![id] = Append(@, now)]
    BY <1>6 DEF Received, now
  <2>2. reports'[id] = Append(reports[id], now) /\ \A j \in Ids \ {id} : reports'[j] = reports[j]
    BY <1>3, <2>1
  <2>3. /\ reports'[id] # <<>>
        /\ reports'[id][Len(reports'[id])] = now
    BY <1>3, <1>4, <2>2
  <2>4. QED BY <1>2, <2>2, <2>3 DEF Queued, now
<1>7. QED BY <1>5, <1>6

\* A device has changed only if it has something to say.
LEMMA StepQueued ==
    ASSUME Typed, Queued, NEW p \in Procs, Step(p)
    PROVE  /\ Queued'
           /\ \A j \in Ids : reports'[j] = <<>> => reports[j] = <<>> /\ device'[j] = device[j]
<1>1. CASE UNCHANGED <<device, reports>>
  BY <1>1 DEF Queued
<1>2. ASSUME Received(proc[p].id, proc[p].new.val), Send(p)
      PROVE  /\ Queued'
             /\ \A j \in Ids : reports'[j] = <<>> => reports[j] = <<>> /\ device'[j] = device[j]
  <2>1. proc[p].id \in Ids
    BY <1>2 DEF Send, Typed, ProcTyped, Shaped, Computing
  <2>2. QED BY <1>2, <2>1, ReceivedQueued DEF Typed
<1>3. CASE Send(p)
  BY <1>1, <1>2, <1>3 DEF Send, Message
<1>4. CASE Reply(p)
  <2>1. proc[p].pc = "reply" /\ Received(proc[p].id, proc[p].reply)
    BY <1>4 DEF Reply
  <2>2. proc[p].kind \in {"update", "add"}
    BY <2>1 DEF Typed, ProcTyped, Shaped, Handlers, Kinds
  <2>3. proc[p].id \in Ids
    BY <2>2 DEF Typed, ProcTyped, Shaped
  <2>4. QED BY <2>1, <2>3, ReceivedQueued DEF Typed
<1>5. QED BY <1>1, <1>3, <1>4
          DEF Step, LookupByIp, LookupName, ReadDoc, Merge, Defaults, Save, SaveRefused, Insert,
              Delete, FindDevices, BulkWrite, ReconcileEnds

\* Doubt about a device is settled only by whoever told it what is saved, or when
\* it is new.
LEMMA StepAstray ==
    ASSUME Typed, NEW p \in Procs, Step(p), NEW id \in Ids, astray[id] = TRUE
    PROVE  \/ astray'[id] = TRUE
           \/ id = proc[p].id /\ ((Save(p) /\ proc[p].sent = TRUE) \/ Insert(p))
<1>1. astray \in [Ids -> BOOLEAN] /\ proc[p] \in Handlers
  BY DEF Typed, FlagsTyped, ProcTyped
<1>2. CASE UNCHANGED astray
  BY <1>2
<1>3. CASE Merge(p)
  <2>1. PICK dropped : astray' = [astray EXCEPT ![proc[p].id] = @ \/ dropped]
    BY <1>3 DEF Merge
  <2>2. QED BY <1>1, <2>1
<1>4. CASE Send(p)
  BY <1>1, <1>2, <1>4 DEF Send
<1>5. CASE Save(p)
  <2>1. CASE id # proc[p].id \/ docs[proc[p].id] = NoDevice
    BY <1>1, <1>5, <2>1 DEF Save
  <2>2. CASE id = proc[p].id /\ docs[proc[p].id] # NoDevice /\ proc[p].sent # TRUE
    <3>1. PICK filled : astray' = [astray EXCEPT ![proc[p].id] = ~proc[p].sent /\ (@ \/ filled)]
      BY <1>5, <2>2 DEF Save
    <3>2. proc[p].sent = FALSE
      BY <1>1, <2>2 DEF Handlers
    <3>3. QED BY <1>1, <2>2, <3>1, <3>2
  <2>3. QED BY <1>5, <2>1, <2>2
<1>6. CASE Insert(p)
  BY <1>1, <1>6 DEF Insert
<1>7. CASE BulkWrite(p)
  BY <1>1, <1>7 DEF BulkWrite
<1>8. QED BY <1>2, <1>3, <1>4, <1>5, <1>6, <1>7
          DEF Step, LookupByIp, LookupName, ReadDoc, Defaults, SaveRefused, Reply, Delete,
              FindDevices, ReconcileEnds

LEMMA OthersHonest ==
    ASSUME InTurn, Agreeing, Controls # {}, NEW p \in Procs, Step(p), NEW q \in Procs \ {p}
    PROVE  Honest(proc[q], docs', device', reports', astray')
<1> DEFINE r == proc[p]
           s == proc[q]
<1>1. /\ Typed /\ r \in Handlers /\ s \in Handlers /\ Shaped(s)
      /\ Honest(s, docs, device, reports, astray) /\ Honest(r, docs, device, reports, astray)
  BY DEF InTurn, Typed, ProcTyped, Agreeing
<1>2. ASSUME Concerned(s) PROVE Undisturbed(s)
  <2>1. s.id \in Ids /\ s.pc # "idle" /\ Controls \subseteq Writes(s) /\ r.pc # "idle"
    <3>1. s.id \in Ids /\ s.pc # "idle"
      BY <1>1, <1>2 DEF Concerned, Shaped
    <3>2. r.pc # "idle"
      BY <1>1, StepAdvances DEF Advances, Continues
    <3>3. QED BY <1>1, <1>2, <3>1, <3>2, ToldWrites
  <2>2. ~Conflict(r, s)
    BY DEF InTurn, Apart
  <2>3. reports'[s.id] = <<>> => reports[s.id] = <<>> /\ device'[s.id] = device[s.id]
    BY <1>1, <2>1, StepQueued DEF Agreeing
  <2>4. ASSUME astray[s.id] = TRUE PROVE astray'[s.id] = TRUE
    <3>1. ASSUME s.id = r.id PROVE ~Concerned(r)
      BY <1>1, <2>1, <2>2, <3>1, ToldWrites DEF Conflict
    <3>2. Save(p) /\ r.sent = TRUE => Concerned(r)
      BY <1>1 DEF Honest, Sent, Concerned
    <3>3. Insert(p) => Concerned(r)
      BY DEF Insert, Concerned
    <3>4. QED BY <1>1, <2>1, <2>4, <3>1, <3>2, <3>3, StepAstray
  <2>5. ASSUME docs'[s.id] # NoDevice, docs'[s.id] # docs[s.id]
        PROVE  docs[s.id] # NoDevice /\ \A i \in Controls : docs'[s.id].val[i] = docs[s.id].val[i]
    <3>1. Within(r)
      BY <1>1, StepWithin
    <3>2. (s.id = r.id \/ r.kind = "reconcile") /\ Writes(r) \cap Writes(s) = {}
      BY <2>1, <2>2, <2>5, <3>1 DEF Within, Conflict
    <3>3. Writes(r) # Items /\ Controls \subseteq Items \ Writes(r)
      BY <2>1, <3>2 DEF Items
    <3>4. QED BY <2>1, <2>5, <3>1, <3>3 DEF Within
  <2>6. QED BY <2>3, <2>4, <2>5 DEF Undisturbed
<1>3. QED BY <1>1, <1>2, UndisturbedHonest

LEMMA NoProcHonest == ASSUME NEW ds, NEW dev, NEW rep, NEW ast PROVE Honest(NoProc, ds, dev, rep, ast)
BY DEF NoProc, Honest, Origins, Told, Taken, Sent, Unsent, Answered

\* A handler that has computed nothing yet, or goes on with it.
LEMMA MovedHonest ==
    ASSUME NEW r, NEW n, NEW ds, NEW dev, NEW rep, NEW ast, Keeps(r, n), n.sent # TRUE,
           r.pc \notin {"ip", "reply"}, n.pc # "reply", Origins(r), Told(r, dev, rep),
           n.pc = "send" => n.kind = "update" /\ n.propagate = TRUE /\ Tells(n),
           n.pc = "save" => Taken(n, ast) /\ Unsent(n, ast)
    PROVE  Honest(n, ds, dev, rep, ast)
<1>1. Tells(n) <=> Tells(r)
  BY DEF Keeps, Tells
<1>2. Origins(n) /\ Told(n, dev, rep)
  BY <1>1 DEF Origins, Told, Keeps
<1>3. QED BY <1>2 DEF Honest, Taken, Sent, Unsent, Answered

LEMMA AfterTells ==
    ASSUME NEW n \in Handlers
    PROVE  /\ AfterDefaults(n) = "send" <=> n.kind = "update" /\ n.propagate = TRUE /\ Tells(n)
           /\ AfterMerge(n) = "send" => n.kind = "update" /\ n.propagate = TRUE /\ Tells(n)
           /\ AfterMerge(n) = "save" => ~(n.kind = "update" /\ n.propagate = TRUE /\ Tells(n))
<1>1. Named(n.pay) \cap Controls # {} <=> Tells(n)
  BY DEF Named, Tells, Items
<1>2. n.propagate <=> n.propagate = TRUE
  BY DEF Handlers
<1>3. QED BY <1>1, <1>2 DEF AfterDefaults, AfterMerge

LEMMA LoadedHonest ==
    ASSUME NEW r \in Handlers, r.pc \in {"read", "name"}, r.sent # TRUE, NEW d,
           NEW ds, NEW dev, NEW rep, NEW ast, Origins(r), Told(r, dev, rep)
    PROVE  /\ Honest(Loaded(r, d), ds, dev, rep, ast)
           /\ Tells(r) => Loaded(r, d).pc = "merge"
           /\ Keeps(r, Loaded(r, d))
<1> DEFINE new == [key |-> IF r.key = NoKey THEN d.key ELSE r.key, val |-> d.val]
           m == [r EXCEPT !.old = d, !.new = new]
           q == IF Named(m.pay) # {} THEN "merge" ELSE AfterMerge(m)
           n == [m EXCEPT !.pc = q]
<1>1. Loaded(r, d) = n
  BY DEF Loaded
<1>2. m.pay = r.pay
  BY DEF Handlers
<1>3. q = "merge" \/ (~Tells(r) /\ q \in {"defaults", "save"})
  <2>1. CASE Named(m.pay) # {}
    BY <2>1
  <2>2. CASE Named(m.pay) = {}
    BY <1>2, <2>2 DEF AfterMerge, AfterDefaults, Named, Tells, Items
  <2>3. QED BY <2>1, <2>2
<1>4. Tells(r) => q = "merge"
  BY <1>3
<1> HIDE DEF q, new
<1>5. Keeps(r, n) /\ n.pc = q /\ n.sent = r.sent
  BY DEF Handlers, Keeps
<1> HIDE DEF n, m
<1>6. Tells(n) <=> Tells(r)
  BY <1>5 DEF Keeps, Tells
<1>7. Honest(n, ds, dev, rep, ast)
  BY <1>3, <1>5, <1>6, MovedHonest DEF Taken, Unsent
<1>8. QED BY <1>1, <1>4, <1>5, <1>7

\* A state of a device is taken over where it is acceptable; where it is not and
\* makes a difference, the device is left in doubt.
LEMMA MergeHonest ==
    ASSUME Typed, NEW p \in Procs, Merge(p), Honest(proc[p], docs, device, reports, astray)
    PROVE  Honest(proc'[p], docs', device', reports', astray')
<1> DEFINE r == proc[p]
           c == config[r.new.key]
           pay == IF r.origin = "device" THEN Sanitized(c, r.pay) ELSE r.pay
           val == Merged(r.old.val, pay, Touched(r.pay), r.override)
           dropped == \E i \in Named(r.pay) \ Named(pay) : r.old.val[i] \in Values
           n == [r EXCEPT !.new.val = val]
           q == AfterMerge(n)
           m == [n EXCEPT !.pc = q]
<1>1. /\ r \in Handlers /\ Shaped(r) /\ r.pc = "merge" /\ proc \in [Procs -> Handlers]
      /\ astray \in [Ids -> BOOLEAN]
  BY DEF Typed, ProcTyped, FlagsTyped, Merge
<1>2. CASE Finish(p)
  <2>1. proc'[p] = NoProc
    BY <1>1, <1>2 DEF Merge, Finish
  <2>2. QED BY <2>1, NoProcHonest
<1>3. CASE ~Refused(r, c, val) /\ Go(p, m)
  <2>1. /\ proc'[p] = m /\ UNCHANGED <<docs, device, reports>>
        /\ astray' = [astray EXCEPT ![r.id] = @ \/ dropped]
    BY <1>1, <1>3 DEF Merge, Go
  <2>2. r.id \in Ids /\ NoBad(r.old.val) /\ r.old \in Doc
    BY <1>1 DEF Shaped, Computing, Handlers
  <2>3. ASSUME r.origin = "device", Tells(r), r.kind = "update", astray'[r.id] # TRUE,
               NEW i \in Controls
        PROVE  val[i] \in {Null, Absent, r.pay[i]}
    <3>1. r.pay[i] \in Values /\ r.override = FALSE
      BY <1>1, <2>3 DEF Honest, Told
    <3>2. ~dropped
      BY <1>1, <2>1, <2>2, <2>3
    <3>3. i \in Named(r.pay) /\ i \in Items
      BY <3>1, Sentinels DEF Named, Items
    <3>4. CASE pay[i] # Absent
      <4>1. pay[i] = r.pay[i]
        BY <2>3, <3>3, <3>4 DEF Sanitized
      <4>2. QED BY <3>3, <3>4, <4>1 DEF Merged
    <3>5. CASE pay[i] = Absent
      <4>1. i \notin Named(pay)
        BY <3>5 DEF Named
      <4>2. r.old.val[i] \notin Values
        BY <3>2, <3>3, <4>1
      <4>3. r.old.val[i] \in {Null, Absent}
        BY <2>2, <2>3, <3>3, <4>2 DEF Doc, Payloads, Entries, NoBad
      <4>4. val[i] = r.old.val[i]
        BY <3>1, <3>3, <3>5 DEF Merged
      <4>5. QED BY <4>3, <4>4
    <3>6. QED BY <3>4, <3>5
  <2>4. n \in Handlers
    <3>1. val \in Payloads
      BY <1>1, <2>2 DEF Merged, Sanitized, Handlers, Doc, Payloads, Entries
    <3> HIDE DEF val, r
    <3>2. QED BY <1>1, <3>1 DEF Handlers, Doc
  <2>5. q \in {"defaults", "send", "save"} /\ q \in Pcs
    BY AfterPcs DEF Pcs
  <2> HIDE DEF val
  <2>6. Keeps(r, n) /\ n.sent = r.sent /\ n.new.val = val
    <3> HIDE DEF r
    <3>1. QED BY <1>1 DEF Handlers, Doc, Keeps
  <2>7. /\ q = "send" => n.kind = "update" /\ n.propagate = TRUE /\ Tells(n)
        /\ q = "save" => ~(n.kind = "update" /\ n.propagate = TRUE /\ Tells(n))
    BY <2>4, AfterTells
  <2> HIDE DEF q, n
  <2>8. Keeps(n, m) /\ m.pc = q /\ m.sent = n.sent /\ m.new = n.new
    BY <2>4 DEF Handlers, Keeps
  <2> HIDE DEF m
  <2>9. /\ Keeps(r, m) /\ m.sent # TRUE /\ m.new.val = val /\ (Tells(m) <=> Tells(r))
        /\ (Tells(n) <=> Tells(r))
    BY <1>1, <2>6, <2>8 DEF Keeps, Tells, Honest, Sent
  <2>10. Taken(m, astray')
    BY <2>3, <2>9 DEF Taken, Keeps, Agree
  <2>11. m.pc = "save" => Unsent(m, astray')
    BY <2>6, <2>7, <2>8, <2>9 DEF Unsent, Keeps, Honest, Origins
  <2>12. m.pc = "send" => m.kind = "update" /\ m.propagate = TRUE /\ Tells(m)
    BY <2>6, <2>7, <2>8, <2>9 DEF Keeps
  <2>13. Origins(r) /\ Told(r, device', reports')
    BY <2>1 DEF Honest
  <2>14. QED BY <1>1, <2>1, <2>5, <2>8, <2>9, <2>10, <2>11, <2>12, <2>13, MovedHonest
<1>4. QED BY <1>2, <1>3 DEF Merge

\* A new key, and a new device, get defaults; a state of a device never does.
LEMMA DefaultsHonest ==
    ASSUME Typed, NEW p \in Procs, Defaults(p), Honest(proc[p], docs, device, reports, astray)
    PROVE  Honest(proc'[p], docs', device', reports', astray')
<1> DEFINE r == proc[p]
           val == WithDefaults(r.new.val, config[r.new.key])
           n == [r EXCEPT !.new.val = val]
           q == AfterDefaults(n)
           m == [n EXCEPT !.pc = q]
<1>1. r \in Handlers /\ Shaped(r) /\ r.pc = "defaults" /\ proc \in [Procs -> Handlers]
  BY DEF Typed, ProcTyped, Defaults
<1>2. proc'[p] = m /\ UNCHANGED <<docs, device, reports, astray>>
  BY <1>1 DEF Defaults, Go
<1>3. val \in Payloads
  <2>1. config[r.new.key] \in Configs \cup {NoConfig}
    BY <1>1 DEF Typed, WorldTyped, Shaped, Computing
  <2>2. r.new.val \in Payloads
    BY <1>1 DEF Handlers, Doc
  <2>3. \A i \in Items : Declares(config[r.new.key], i) => config[r.new.key].item[i] \in Entries
    BY <2>1, ConfigShape DEF Declares, Entries
  <2>4. QED BY <2>2, <2>3 DEF WithDefaults, Payloads
<1>4. q \in {"send", "save"}
  BY AfterPcs
<1> HIDE DEF val
<1>5. n \in Handlers /\ Keeps(r, n) /\ n.sent = r.sent
  <2> HIDE DEF r
  <2>1. QED BY <1>1, <1>3 DEF Handlers, Doc, Keeps
<1>6. q = "send" <=> n.kind = "update" /\ n.propagate = TRUE /\ Tells(n)
  BY <1>5, AfterTells
<1> HIDE DEF q, n
<1>7. Keeps(n, m) /\ m.pc = q /\ m.sent = n.sent
  BY <1>5 DEF Handlers, Keeps
<1> HIDE DEF m
<1>8. Keeps(r, m) /\ m.sent # TRUE /\ (Tells(m) <=> Tells(r)) /\ (Tells(n) <=> Tells(r))
  BY <1>1, <1>5, <1>7 DEF Keeps, Tells, Honest, Sent
<1>9. Taken(m, astray')
  <2>1. r.kind = "update" /\ r.origin = "device" => ~Tells(r)
    BY <1>1 DEF Honest, Told, Shaped, Limited, Computing
  <2>2. QED BY <1>8, <2>1 DEF Taken, Keeps
<1>10. m.pc = "save" => Unsent(m, astray')
  BY <1>4, <1>5, <1>6, <1>7, <1>8 DEF Unsent, Keeps, Honest, Origins
<1>11. m.pc = "send" => m.kind = "update" /\ m.propagate = TRUE /\ Tells(m)
  BY <1>5, <1>6, <1>7, <1>8 DEF Keeps
<1>12. Origins(r) /\ Told(r, device', reports')
  BY <1>2 DEF Honest
<1>13. QED BY <1>1, <1>2, <1>4, <1>7, <1>8, <1>9, <1>10, <1>11, <1>12, MovedHonest

\* A device that gets a message takes over what is going to be saved.
LEMMA SendHonest ==
    ASSUME Typed, NEW p \in Procs, Send(p), Honest(proc[p], docs, device, reports, astray)
    PROVE  Honest(proc'[p], docs', device', reports', astray')
<1> DEFINE r == proc[p]
<1>1. /\ r \in Handlers /\ Shaped(r) /\ r.pc = "send" /\ proc \in [Procs -> Handlers]
      /\ r.id \in Ids /\ NoBad(r.new.val) /\ r.new.val \in Payloads
  BY DEF Typed, ProcTyped, Send, Shaped, Computing, Handlers, Doc
<1>2. r.kind = "update" /\ Tells(r) /\ r.origin = "api" /\ r.pair # TRUE /\ r.sent # TRUE
      /\ r.propagate = TRUE
  BY <1>1 DEF Honest, Origins, Told, Sent, Handlers
<1>3. CASE Received(r.id, r.new.val) /\ Go(p, [r EXCEPT !.pc = "save", !.sent = TRUE])
  <2> DEFINE n == [r EXCEPT !.pc = "save", !.sent = TRUE]
  <2>1. Keeps(r, n) /\ n.new = r.new /\ n.pc = "save" /\ n.sent = TRUE
    <3> HIDE DEF r
    <3>1. QED BY <1>1 DEF Handlers, Keeps
  <2>2. proc'[p] = n
    BY <1>1, <1>3 DEF Go
  <2>3. device'[r.id] = Applied(device[r.id], r.new.val)
    BY <1>1, <1>3 DEF Received, Typed, WorldTyped
  <2>4. Agree(r.new.val, device'[r.id])
    <3>1. ASSUME NEW i \in Controls PROVE r.new.val[i] \in {Null, Absent, device'[r.id][i]}
      <4>1. r.new.val[i] \in Values \cup {Null, Absent}
        BY <1>1 DEF NoBad, Payloads, Entries, Items
      <4>2. r.new.val[i] \in Values => device'[r.id][i] = r.new.val[i]
        BY <2>3 DEF Applied
      <4>3. QED BY <4>1, <4>2
    <3>2. QED BY <3>1 DEF Agree
  <2> HIDE DEF n, r
  <2>5. Tells(n) /\ n.kind = "update" /\ n.origin = "api" /\ n.pair # TRUE /\ n.propagate = TRUE
        /\ n.id = r.id
    BY <1>2, <2>1 DEF Keeps, Tells
  <2>6. Honest(n, docs', device', reports', astray')
    <3>1. Agree(n.new.val, device'[n.id])
      BY <2>1, <2>4, <2>5
    <3>2. Origins(n) /\ Told(n, device', reports') /\ Taken(n, astray') /\ Answered(n, docs')
      BY <2>1, <2>5 DEF Origins, Told, Taken, Answered
    <3>3. n.sent = TRUE
      BY <2>1
    <3>4. Sent(n, device', reports')
      BY <2>1, <2>5, <3>1 DEF Sent
    <3>5. Unsent(n, astray')
      BY <3>3 DEF Unsent
    <3>6. QED BY <3>2, <3>4, <3>5 DEF Honest
  <2>7. QED BY <2>2, <2>6
<1>4. CASE Go(p, [r EXCEPT !.pc = "save"]) /\ astray' = [astray EXCEPT ![r.id] = TRUE]
  <2> DEFINE n == [r EXCEPT !.pc = "save"]
  <2>1. Keeps(r, n) /\ n.sent = r.sent /\ n.pc = "save"
    <3> HIDE DEF r
    <3>1. QED BY <1>1 DEF Handlers, Keeps
  <2>2. proc'[p] = n
    BY <1>1, <1>4 DEF Go
  <2>3. astray'[r.id] = TRUE
    BY <1>1, <1>4 DEF Typed, FlagsTyped
  <2> HIDE DEF n, r
  <2>4. Tells(n) /\ n.kind = "update" /\ n.origin = "api" /\ n.pair # TRUE /\ n.propagate = TRUE
        /\ n.id = r.id
    BY <1>2, <2>1 DEF Keeps, Tells
  <2>5. Honest(n, docs', device', reports', astray')
    BY <1>2, <2>1, <2>3, <2>4 DEF Honest, Origins, Told, Taken, Sent, Unsent, Answered
  <2>6. QED BY <2>2, <2>5
<1>5. QED BY <1>3, <1>4 DEF Send, Message

\* Looking a device up changes nothing about what it told.
LEMMA LookupsHonest ==
    ASSUME Typed, NEW p \in Procs, LookupByIp(p) \/ LookupName(p) \/ ReadDoc(p),
           Honest(proc[p], docs, device, reports, astray)
    PROVE  Honest(proc'[p], docs', device', reports', astray')
<1> DEFINE r == proc[p]
<1>1. /\ r \in Handlers /\ Shaped(r) /\ r.pc \in {"ip", "name", "read"}
      /\ proc \in [Procs -> Handlers] /\ UNCHANGED <<docs, device, reports, astray>>
  BY DEF Typed, ProcTyped, LookupByIp, LookupName, ReadDoc
<1>2. Origins(r) /\ Told(r, device', reports') /\ r.sent # TRUE
  BY <1>1 DEF Honest, Sent
<1>3. CASE Finish(p)
  <2>1. proc'[p] = NoProc
    BY <1>1, <1>3 DEF Finish
  <2>2. QED BY <2>1, NoProcHonest
<1>4. CASE LookupByIp(p) /\ Go(p, [r EXCEPT !.pc = "name", !.kind = "add"])
  <2> DEFINE n == [r EXCEPT !.pc = "name", !.kind = "add"]
  <2>1. r.kind = "update" /\ r.pair = TRUE /\ r.pc = "ip"
    BY <1>1, <1>4 DEF LookupByIp, Shaped
  <2>2. proc'[p] = n
    BY <1>1, <1>4 DEF Go
  <2> HIDE DEF r
  <2>3. /\ n.pc = "name" /\ n.kind = "add" /\ n.pay = r.pay /\ n.origin = r.origin
        /\ n.pair = r.pair /\ n.propagate = r.propagate /\ n.override = r.override
        /\ n.sent = r.sent /\ n.id = r.id
    BY <1>1 DEF Handlers
  <2> HIDE DEF n
  <2>4. Honest(n, docs', device', reports', astray')
    BY <1>2, <2>1, <2>3 DEF Honest, Origins, Told, Taken, Sent, Unsent, Answered, Tells
  <2>5. QED BY <2>2, <2>4
<1>5. CASE LookupByIp(p) /\ Go(p, [r EXCEPT !.pc = "read", !.key = NoKey, !.reply = docs[r.id].val])
  <2> DEFINE n == [r EXCEPT !.pc = "read", !.key = NoKey, !.reply = docs[r.id].val]
  <2>1. r.kind = "update" /\ r.pair = TRUE /\ r.pc = "ip"
    BY <1>1, <1>5 DEF LookupByIp, Shaped
  <2>2. proc'[p] = n
    BY <1>1, <1>5 DEF Go
  <2> HIDE DEF r
  <2>3. /\ n.pc = "read" /\ n.kind = r.kind /\ n.pay = r.pay /\ n.origin = r.origin
        /\ n.pair = r.pair /\ n.propagate = r.propagate /\ n.override = r.override
        /\ n.sent = r.sent /\ n.id = r.id /\ n.key = NoKey
    BY <1>1 DEF Handlers
  <2> HIDE DEF n
  <2>4. Honest(n, docs', device', reports', astray')
    BY <1>2, <2>1, <2>3 DEF Honest, Origins, Told, Taken, Sent, Unsent, Answered, Tells
  <2>5. QED BY <2>2, <2>4
<1>6. ASSUME NEW d, Go(p, Loaded(r, d)), r.pc \in {"name", "read"}
      PROVE  Honest(proc'[p], docs', device', reports', astray')
  <2>1. proc'[p] = Loaded(r, d)
    BY <1>1, <1>6 DEF Go
  <2>2. Honest(Loaded(r, d), docs', device', reports', astray')
    BY <1>1, <1>2, <1>6, LoadedHonest
  <2>3. QED BY <2>1, <2>2
<1>7. CASE ReadDoc(p) /\ Go(p, [r EXCEPT !.pc = "delete"])
  <2> DEFINE n == [r EXCEPT !.pc = "delete"]
  <2>1. r.pc = "read"
    BY <1>7 DEF ReadDoc
  <2>2. proc'[p] = n
    BY <1>1, <1>7 DEF Go
  <2> HIDE DEF r
  <2>3. Keeps(r, n) /\ n.pc = "delete" /\ n.sent = r.sent
    BY <1>1 DEF Handlers, Keeps
  <2> HIDE DEF n
  <2>4. QED BY <1>1, <1>2, <2>1, <2>2, <2>3, MovedHonest
<1>8. CASE LookupByIp(p)
  BY <1>4, <1>5, <1>8 DEF LookupByIp
<1>9. CASE LookupName(p)
  BY <1>3, <1>6, <1>9 DEF LookupName
<1>10. CASE ReadDoc(p)
  BY <1>3, <1>6, <1>7, <1>10 DEF ReadDoc
<1>11. QED BY <1>8, <1>9, <1>10

\* Whoever has saved what a pairing device told owes it a reply.
LEMMA RepliedHonest ==
    ASSUME NEW p \in Procs, proc \in [Procs -> Handlers], NEW r \in Handlers, r.pc = "save",
           Honest(r, docs, device, reports, astray), NEW n \in Handlers, Keeps(r, n), n.sent = r.sent,
           Replied(p, n), r.kind = "add" => n.reply = docs'[r.id].val
    PROVE  Honest(proc'[p], docs', device', reports', astray')
<1>1. CASE Finish(p)
  <2>1. proc'[p] = NoProc
    BY <1>1 DEF Finish
  <2>2. QED BY <2>1, NoProcHonest
<1>2. CASE n.pair = TRUE /\ Go(p, [n EXCEPT !.pc = "reply"])
  <2> DEFINE m == [n EXCEPT !.pc = "reply"]
  <2>1. /\ m.pc = "reply" /\ m.kind = r.kind /\ m.pay = r.pay /\ m.origin = r.origin
        /\ m.pair = TRUE /\ m.propagate = r.propagate /\ m.override = r.override
        /\ m.sent = r.sent /\ m.id = r.id /\ m.key = r.key /\ m.reply = n.reply /\ r.pair = TRUE
    BY <1>2 DEF Handlers, Keeps
  <2>2. proc'[p] = m
    BY <1>2 DEF Go
  <2> HIDE DEF m
  <2>3. m.sent # TRUE
    BY <2>1 DEF Honest, Origins, Sent
  <2>4. Origins(m) /\ Told(m, device', reports')
    BY <2>1 DEF Honest, Origins, Told, Tells
  <2>5. Taken(m, astray') /\ Sent(m, device', reports') /\ Unsent(m, astray') /\ Answered(m, docs')
    BY <2>1, <2>3 DEF Taken, Sent, Unsent, Answered
  <2>6. QED BY <2>2, <2>4, <2>5 DEF Honest
<1>3. QED BY <1>1, <1>2 DEF Replied, Handlers

LEMMA SavesHonest ==
    ASSUME Typed, NEW p \in Procs, Save(p) \/ SaveRefused(p) \/ Insert(p) \/ Reply(p) \/ Delete(p),
           Honest(proc[p], docs, device, reports, astray)
    PROVE  Honest(proc'[p], docs', device', reports', astray')
<1> DEFINE r == proc[p]
<1>1. r \in Handlers /\ Shaped(r) /\ proc \in [Procs -> Handlers]
  BY DEF Typed, ProcTyped
<1>2. CASE Finish(p)
  <2>1. proc'[p] = NoProc
    BY <1>1, <1>2 DEF Finish
  <2>2. QED BY <2>1, NoProcHonest
<1>3. CASE Save(p) /\ Replied(p, r)
  <2>1. Keeps(r, r) /\ r.pc = "save" /\ r.kind = "update"
    BY <1>3 DEF Keeps, Save
  <2>2. QED BY <1>1, <1>3, <2>1, RepliedHonest
<1>4. CASE Insert(p) /\ docs' = [docs EXCEPT ![r.id] = r.new]
           /\ Replied(p, [r EXCEPT !.reply = r.new.val])
  <2> DEFINE n == [r EXCEPT !.reply = r.new.val]
  <2>1. n \in Handlers /\ Keeps(r, n) /\ n.sent = r.sent /\ n.reply = r.new.val
    <3> HIDE DEF r
    <3>1. r.new.val \in [Items -> Entries \cup {Undeclared}]
      BY <1>1 DEF Handlers, Doc, Payloads
    <3>2. QED BY <1>1, <3>1 DEF Handlers, Keeps
  <2>2. r.pc = "save" /\ r.kind = "add" /\ r.id \in Ids
    BY <1>1, <1>4 DEF Insert, Shaped
  <2>3. docs'[r.id] = r.new
    BY <1>4, <2>2 DEF Typed, DocsTyped
  <2>4. Replied(p, n)
    BY <1>4
  <2> HIDE DEF n
  <2>5. QED BY <1>1, <2>1, <2>2, <2>3, <2>4, RepliedHonest
<1>5. QED BY <1>2, <1>3, <1>4 DEF Save, SaveRefused, Insert, Reply, Delete

LEMMA ReconcileHonest ==
    ASSUME Typed, NEW p \in Procs, Honest(proc[p], docs, device, reports, astray),
           (\E e \in proc[p].parsed : FindDevices(p, e)) \/ BulkWrite(p) \/ ReconcileEnds(p)
    PROVE  Honest(proc'[p], docs', device', reports', astray')
<1> DEFINE r == proc[p]
<1>1. r \in Handlers /\ r.kind = "reconcile" /\ proc \in [Procs -> Handlers]
  BY DEF Typed, ProcTyped, Shaped, FindDevices, BulkWrite, ReconcileEnds
<1>2. ASSUME NEW n, Keeps(r, n), n.sent = r.sent, n.pc \in {"find", "bulk"}, Go(p, n)
      PROVE  Honest(proc'[p], docs', device', reports', astray')
  <2>1. proc'[p] = n
    BY <1>1, <1>2 DEF Go
  <2>2. n.kind = "reconcile" /\ n.sent # TRUE
    BY <1>1, <1>2 DEF Keeps, Honest, Sent
  <2>3. Origins(n)
    BY <1>2, <2>2 DEF Honest, Origins, Keeps, Tells
  <2>4. /\ Told(n, device', reports') /\ Taken(n, astray') /\ Sent(n, device', reports')
        /\ Unsent(n, astray') /\ Answered(n, docs')
    BY <2>2 DEF Told, Taken, Sent, Unsent, Answered
  <2>5. QED BY <2>1, <2>3, <2>4 DEF Honest
<1>3. ASSUME NEW e \in r.parsed, FindDevices(p, e)
      PROVE  Honest(proc'[p], docs', device', reports', astray')
  <2> DEFINE ops == [id \in Ids |-> IF docs[id] # NoDevice /\ docs[id].key = e.key
                                    THEN [set |-> ToSet(docs[id].val, e.cfg),
                                          unset |-> ToUnset(docs[id].val, e.cfg)]
                                    ELSE NoDevice]
             n == [r EXCEPT !.pc = "bulk", !.ops = ops, !.parsed = @ \ {e},
                            !.new.key = e.key, !.reply = e.cfg.item]
  <2>1. Go(p, n)
    BY <1>3 DEF FindDevices
  <2>2. Keeps(r, n) /\ n.sent = r.sent /\ n.pc = "bulk"
    <3> HIDE DEF r, ops
    <3>1. QED BY <1>1 DEF Handlers, Keeps
  <2> HIDE DEF n
  <2>3. QED BY <1>2, <2>1, <2>2
<1>4. CASE BulkWrite(p)
  <2> DEFINE n == [r EXCEPT !.pc = "find", !.ops = NoProc.ops, !.reply = Nothing, !.new = Blank]
  <2>1. Go(p, n)
    BY <1>4 DEF BulkWrite
  <2>2. Keeps(r, n) /\ n.sent = r.sent /\ n.pc = "find"
    <3> HIDE DEF r
    <3>1. QED BY <1>1 DEF Handlers, Keeps
  <2> HIDE DEF n
  <2>3. QED BY <1>2, <2>1, <2>2
<1>5. CASE ReconcileEnds(p)
  <2>1. proc'[p] = NoProc
    BY <1>1, <1>5 DEF ReconcileEnds, Finish
  <2>2. QED BY <2>1, NoProcHonest
<1>6. QED BY <1>3, <1>4, <1>5

LEMMA StepHonest ==
    ASSUME InTurn, Agreeing, Controls # {}, NEW p \in Procs, Step(p), NEW q \in Procs
    PROVE  Honest(proc'[q], docs', device', reports', astray')
<1>1. /\ Typed /\ proc \in [Procs -> Handlers]
      /\ Honest(proc[p], docs, device, reports, astray)
  BY DEF InTurn, Typed, ProcTyped, Agreeing
<1>2. CASE q = p
  BY <1>1, <1>2, MergeHonest, DefaultsHonest, SendHonest, LookupsHonest, SavesHonest,
     ReconcileHonest DEF Step
<1>3. CASE q # p
  <2>1. PICK n \in Handlers : Advances(p, n)
    BY <1>1, StepAdvances
  <2>2. proc'[q] = proc[q]
    BY <1>1, <1>3, <2>1 DEF Advances
  <2>3. QED BY <1>3, <2>2, OthersHonest
<1>4. QED BY <1>2, <1>3

\* Nothing keeps a state of a device from being saved: the controls it leaves in
\* place were good when they were stored.
LEMMA CarriesOn ==
    ASSUME Typed, NEW p \in Procs, Step(p), Honest(proc[p], docs, device, reports, astray),
           NEW id \in Ids, Carries(proc[p], id), docs[id] # NoDevice
    PROVE  Carries(proc'[p], id) \/ Save(p)
<1> DEFINE r == proc[p]
<1>1. /\ r \in Handlers /\ Shaped(r) /\ proc \in [Procs -> Handlers] /\ r.id = id
      /\ r.kind = "update" /\ r.pair # TRUE /\ r.origin = "device" /\ Tells(r)
  BY DEF Typed, ProcTyped, Carries
<1>2. /\ r.propagate = FALSE /\ r.override = FALSE /\ (r.pc # "ip" => r.key = NoKey)
      /\ r.pc # "reply" => \A i \in Controls : r.pay[i] \in Values
  BY <1>1 DEF Honest, Told
<1>3. ASSUME NEW n, Keeps(r, n), n.pc \in {"merge", "save"}, proc'[p] = n
      PROVE  Carries(proc'[p], id)
  BY <1>1, <1>3 DEF Keeps, Carries, Tells
<1>4. CASE r.pc = "read"
  <2>1. ReadDoc(p)
    BY <1>1, <1>4 DEF Step, LookupByIp, LookupName, Merge, Defaults, Send, Save, SaveRefused, Insert,
                     Reply, Delete, FindDevices, BulkWrite, ReconcileEnds
  <2>2. proc'[p] = Loaded(r, docs[id])
    BY <1>1, <2>1 DEF ReadDoc, Go
  <2>3. r.sent # TRUE
    BY <1>1 DEF Honest, Sent
  <2>4. Loaded(r, docs[id]).pc = "merge" /\ Keeps(r, Loaded(r, docs[id]))
    BY <1>1, <1>4, <2>3, LoadedHonest DEF Honest
  <2>5. QED BY <1>3, <2>2, <2>4
<1>5. CASE r.pc = "merge"
  <2> DEFINE c == config[r.new.key]
             pay == Sanitized(c, r.pay)
             val == Merged(r.old.val, pay, Touched(r.pay), r.override)
             n == [r EXCEPT !.new.val = val]
             q == AfterMerge(n)
             m == [n EXCEPT !.pc = q]
  <2>1. Merge(p)
    BY <1>1, <1>5 DEF Step, LookupByIp, LookupName, ReadDoc, Defaults, Send, Save, SaveRefused, Insert,
                     Reply, Delete, FindDevices, BulkWrite, ReconcileEnds
  <2>2. NoBad(r.old.val) /\ r.new.key = r.old.key /\ r.old.val \in Payloads
    BY <1>1, <1>2, <1>5 DEF Shaped, Computing, Handlers, Doc
  <2>3. ASSUME NEW i \in Controls PROVE val[i] # Bad
    <3>1. r.pay[i] # Bad /\ r.old.val[i] # Bad /\ i \in Items
      BY <1>2, <1>5, <2>2, Sentinels DEF NoBad, Items
    <3>2. QED BY <1>2, <3>1, Sentinels DEF Merged, Sanitized
  <2>4. ~Refused(r, c, val) /\ ~Unmeasured(r)
    BY <1>1, <2>3 DEF Refused, Unmeasured
  <2>5. proc'[p] = m
    BY <1>1, <2>1, <2>4 DEF Merge, Go
  <2>6. val \in Payloads
    BY <1>1, <2>2 DEF Merged, Sanitized, Handlers, Doc, Payloads, Entries
  <2> HIDE DEF val
  <2>7. n \in Handlers /\ Keeps(r, n) /\ n.new.key = r.new.key /\ n.old = r.old
    <3> HIDE DEF r
    <3>1. QED BY <1>1, <2>6 DEF Handlers, Doc, Keeps
  <2> HIDE DEF n
  <2>8. q = "save"
    BY <1>1, <1>2, <2>2, <2>7 DEF AfterMerge, AfterDefaults, Keeps
  <2> HIDE DEF q
  <2>9. Keeps(n, m) /\ m.pc = q
    BY <2>7 DEF Handlers, Keeps
  <2> HIDE DEF m
  <2>10. Keeps(r, m)
    BY <2>7, <2>9 DEF Keeps
  <2>11. QED BY <1>3, <2>5, <2>8, <2>9, <2>10
<1>6. CASE r.pc = "save"
  BY <1>1, <1>6 DEF Step, LookupByIp, LookupName, ReadDoc, Merge, Defaults, Send, SaveRefused, Insert,
                   Reply, Delete, FindDevices, BulkWrite, ReconcileEnds
<1>7. QED BY <1>4, <1>5, <1>6 DEF Carries

\* Hub and device agree about id, or somebody is still going to see to it.
Agreed(id) == docs[id] # NoDevice /\ astray[id] # TRUE /\ reports[id] = <<>>
                  => Agree(docs[id].val, device[id]) \/ \E p \in Procs : Mends(proc[p], id)

LEMMA StillAgreed ==
    ASSUME Typed, Queued, NEW p \in Procs, Step(p), NEW id \in Ids, Agreed(id),
           docs[id] # NoDevice, astray[id] # TRUE,
           \A i \in Controls : docs'[id].val[i] \in {Null, Absent, docs[id].val[i]},
           Mends(proc[p], id) => Mends(proc'[p], id)
    PROVE  Agreed(id)'
<1> SUFFICES ASSUME reports'[id] = <<>>
             PROVE  Agree(docs'[id].val, device'[id]) \/ \E q \in Procs : Mends(proc'[q], id)
  BY DEF Agreed
<1>1. reports[id] = <<>> /\ device'[id] = device[id]
  BY StepQueued
<1>2. CASE Agree(docs[id].val, device[id])
  BY <1>1, <1>2 DEF Agree
<1>3. ASSUME NEW q \in Procs, Mends(proc[q], id) PROVE Mends(proc'[q], id)
  <2>1. PICK n \in Handlers : Advances(p, n)
    BY StepAdvances
  <2>2. q # p => proc'[q] = proc[q]
    BY <2>1 DEF Advances, Typed, ProcTyped
  <2>3. QED BY <1>3, <2>2
<1>4. QED BY <1>1, <1>2, <1>3 DEF Agreed

LEMMA OwnMends ==
    ASSUME Typed, NEW p \in Procs, Step(p), Honest(proc[p], docs, device, reports, astray),
           NEW id \in Ids, docs[id] # NoDevice, Mends(proc[p], id)
    PROVE  Mends(proc'[p], id) \/ (id = proc[p].id /\ (Save(p) \/ Reply(p)))
<1>1. CASE Carries(proc[p], id)
  BY <1>1, CarriesOn DEF Mends, Carries
<1>2. CASE Answers(proc[p], id)
  BY <1>2 DEF Answers, Step, LookupByIp, LookupName, ReadDoc, Merge, Defaults, Send, Save, SaveRefused,
              Insert, Delete, FindDevices, BulkWrite, ReconcileEnds
<1>3. QED BY <1>1, <1>2 DEF Mends

\* What is saved is what the device was sent, what the device said, or nothing
\* the device has to know.
LEMMA SaveAgrees ==
    ASSUME InTurn, Agreeing, NEW p \in Procs, Save(p), NEW id \in Ids, id = proc[p].id,
           docs[id] # NoDevice, Agreed(id)
    PROVE  Agreed(id)'
<1> DEFINE r == proc[p]
           d == docs[id]
<1> SUFFICES ASSUME reports'[id] = <<>>, astray'[id] # TRUE
             PROVE  Agree(docs'[id].val, device'[id]) \/ \E q \in Procs : Mends(proc'[q], id)
  BY DEF Agreed
<1>1. /\ r \in Handlers /\ Shaped(r) /\ r.pc = "save" /\ r.kind = "update" /\ r.id = id
      /\ Honest(r, docs, device, reports, astray) /\ UpToDate(r, docs)
      /\ Typed /\ UNCHANGED <<device, reports>>
  BY DEF InTurn, Fresh, Agreeing, Typed, ProcTyped, Save
<1>2. /\ d \in Doc /\ NoBad(d.val) /\ \A i \in Writes(r) : d.val[i] = r.old.val[i]
      /\ NoBad(r.new.val) /\ r.new.val \in Payloads /\ Effect(r)
      /\ r.new.key \in CKeys /\ d.key \in CKeys
  BY <1>1 DEF Typed, DocsTyped, UpToDate, Shaped, Computing, Handlers, Doc
<1>3. docs'[id] = Written(r, d)
  BY <1>1 DEF Save, Typed, DocsTyped
<1>4. astray'[id] # TRUE => r.sent = TRUE \/ (astray[id] # TRUE /\ ~Filled(r.old.val, r.new.val, r.pay))
  BY <1>1 DEF Save, Typed, FlagsTyped
<1>5. ASSUME Tells(r), Agree(r.new.val, device[id]) PROVE Agree(docs'[id].val, device'[id])
  <2>1. ASSUME NEW i \in Controls PROVE docs'[id].val[i] = r.new.val[i]
    <3>1. i \in Items /\ i \in Touched(r.pay)
      BY <1>5 DEF Items, Tells, Touched, Named, SectionOf
    <3>2. QED BY <1>1, <1>2, <1>3, <3>1, WrittenEntries
  <2>2. QED BY <1>1, <1>5, <2>1 DEF Agree
<1>6. CASE r.sent = TRUE
  BY <1>1, <1>5, <1>6 DEF Honest, Sent
<1>7. CASE r.sent # TRUE /\ Tells(r)
  <2>1. r.origin = "device"
    BY <1>1, <1>4, <1>7 DEF Honest, Unsent, Handlers
  <2>2. Agree(r.new.val, r.pay)
    BY <1>1, <1>4, <1>7, <2>1 DEF Honest, Taken
  <2>3. \A i \in Controls : r.pay[i] = device[id][i]
    BY <1>1, <1>7, <2>1 DEF Honest, Told
  <2>4. Agree(r.new.val, device[id])
    BY <2>2, <2>3 DEF Agree
  <2>5. QED BY <1>5, <1>7, <2>4
<1>8. CASE r.sent # TRUE /\ ~Tells(r)
  <2>1. ASSUME NEW i \in Controls PROVE docs'[id].val[i] \in {Null, Absent, d.val[i]}
    <3>1. i \in Items /\ r.pay[i] = Absent /\ i \notin Named(r.pay)
      BY <1>8 DEF Items, Tells, Named
    <3>2. CASE docs'[id].val[i] = d.val[i]
      BY <3>2
    <3>3. CASE docs'[id].val[i] = r.new.val[i] /\ d.val[i] = r.old.val[i]
      <4>1. i \notin Touched(r.pay)
        BY <1>8, Sections DEF Tells, Touched, Named, SectionOf, Items
      <4>2. r.new.val[i] = r.old.val[i] \/ r.old.val[i] = Absent
        BY <1>2, <3>1, <4>1 DEF Effect, Merges
      <4>3. ~(r.new.val[i] \in Values /\ r.new.val[i] # r.old.val[i] /\ r.new.val[i] # r.pay[i])
        BY <1>4, <1>8 DEF Filled
      <4>4. r.new.val[i] \in Values \cup {Null, Absent}
        BY <1>2, <3>1 DEF NoBad, Payloads, Entries
      <4>5. r.new.val[i] = r.old.val[i] \/ r.new.val[i] \in {Null, Absent}
        BY <3>1, <4>3, <4>4
      <4>6. QED BY <3>3, <4>5
    <3>4. QED BY <1>1, <1>2, <1>3, <3>1, <3>2, <3>3, WrittenEntries
  <2>2. ~Mends(r, id)
    BY <1>1, <1>8 DEF Mends, Carries, Answers
  <2>3. Agreed(id)'
    BY <1>1, <1>4, <1>8, <2>1, <2>2, StillAgreed DEF Step, Agreeing
  <2>4. docs'[id] # NoDevice
    <3>1. Written(r, d) \in Doc
      BY <1>1, <1>2, WrittenTyped
    <3>2. QED BY <1>3, <3>1, NoSuch
  <2>5. QED BY <2>3, <2>4 DEF Agreed
<1>9. QED BY <1>6, <1>7, <1>8

\* A new device gets a reply, or nothing but defaults it is known to lack.
LEMMA InsertAgrees ==
    ASSUME Typed, Agreeing, NEW p \in Procs, Insert(p), NEW id \in Ids, id = proc[p].id,
           docs[id] = NoDevice
    PROVE  Agreed(id)'
<1> DEFINE r == proc[p]
<1>1. /\ r \in Handlers /\ Shaped(r) /\ r.pc = "save" /\ r.kind = "add" /\ r.id = id
      /\ Honest(r, docs, device, reports, astray) /\ proc \in [Procs -> Handlers]
  BY DEF Agreeing, Typed, ProcTyped, Insert
<1>2. docs'[id] = r.new /\ NoBad(r.new.val) /\ r.new.val \in Payloads
  BY <1>1 DEF Insert, Typed, DocsTyped, Shaped, Computing, Handlers, Doc
<1>3. CASE r.pair = TRUE
  <2> DEFINE n == [r EXCEPT !.reply = r.new.val]
             m == [n EXCEPT !.pc = "reply"]
  <2>1. n.pair = TRUE /\ n.id = id /\ n.kind = "add"
    <3> HIDE DEF r
    <3>1. QED BY <1>1, <1>3 DEF Handlers
  <2>2. Replied(p, n)
    BY <1>1 DEF Insert
  <2>3. n \in [pc : Pcs, kind : Kinds, id : Ids \cup {NoProc.id}, pay : Payloads, override : BOOLEAN,
               key : CKeys \cup {NoKey}, propagate : BOOLEAN, origin : {"api", "device"},
               pair : BOOLEAN, sent : BOOLEAN, old : Doc, new : Doc, reply : {r.new.val},
               parsed : SUBSET [key : CKeys, cfg : Configs \ {NoConfig}],
               ops : [Ids -> {NoDevice} \cup Ops]]
    <3> HIDE DEF r
    <3>1. QED BY <1>1 DEF Handlers
  <2> HIDE DEF n
  <2>4. m.pc = "reply" /\ m.id = id /\ m.kind = "add"
    BY <2>1, <2>3
  <2>5. proc'[p] = m
    BY <1>1, <2>1, <2>2 DEF Replied, Go
  <2>6. Mends(proc'[p], id)
    BY <2>4, <2>5 DEF Mends, Answers
  <2>7. QED BY <2>6 DEF Agreed
<1>4. CASE r.pair # TRUE
  <2>1. ~Tells(r)
    BY <1>1, <1>4 DEF Honest, Origins
  <2>2. PICK pair \in BOOLEAN : r.pair = pair /\ pair = FALSE
    BY <1>1, <1>4 DEF Handlers
  <2>3. astray' = [astray EXCEPT ![id] = ~r.pair /\ Filled(Nothing, r.new.val, r.pay)]
    BY <1>1 DEF Insert
  <2>4. astray'[id] # TRUE => ~Filled(Nothing, r.new.val, r.pay)
    BY <2>2, <2>3 DEF Typed, FlagsTyped
  <2>5. ASSUME astray'[id] # TRUE, NEW i \in Controls PROVE r.new.val[i] \in {Null, Absent}
    <3>1. i \in Items /\ r.pay[i] = Absent /\ Nothing[i] = Absent
      BY <2>1 DEF Items, Tells, Nothing
    <3>2. ~(r.new.val[i] \in Values /\ r.new.val[i] # Nothing[i] /\ r.new.val[i] # r.pay[i])
      BY <2>4, <2>5 DEF Filled
    <3>3. r.new.val[i] \in Values \cup {Null, Absent}
      BY <1>2, <3>1 DEF NoBad, Payloads, Entries
    <3>4. QED BY <3>1, <3>2, <3>3
  <2>6. astray'[id] # TRUE => Agree(docs'[id].val, device'[id])
    BY <1>2, <2>5 DEF Agree
  <2>7. QED BY <2>6 DEF Agreed
<1>5. QED BY <1>3, <1>4

\* A device that gets a reply has what was stored when it was added.
LEMMA ReplyAgrees ==
    ASSUME InTurn, Agreeing, NEW p \in Procs, Reply(p), NEW id \in Ids, id = proc[p].id, Agreed(id)
    PROVE  Agreed(id)'
<1> DEFINE r == proc[p]
<1>1. /\ r \in Handlers /\ Shaped(r) /\ r.pc = "reply" /\ r.id = id /\ Received(id, r.reply)
      /\ Honest(r, docs, device, reports, astray) /\ Typed /\ UNCHANGED <<docs, astray>>
  BY DEF InTurn, Agreeing, Typed, ProcTyped, Reply
<1>2. r.kind \in {"update", "add"}
  BY <1>1 DEF Shaped, Handlers, Kinds
<1>3. reports'[id] = <<>> => reports[id] = <<>>
  BY <1>1, StepQueued DEF Step, Agreeing
<1>4. CASE r.kind = "update" /\ docs[id] # NoDevice /\ astray[id] # TRUE
  <2>1. ~Mends(r, id)
    BY <1>1, <1>4 DEF Mends, Carries, Answers
  <2>2. QED BY <1>1, <1>4, <2>1, StillAgreed DEF Step, Agreeing
<1>5. CASE r.kind = "add" /\ docs[id] # NoDevice
  <2>1. \A i \in Controls : docs[id].val[i] \in Values => r.reply[i] = docs[id].val[i]
    BY <1>1, <1>5 DEF Honest, Answered
  <2>2. device'[id] = Applied(device[id], r.reply)
    BY <1>1 DEF Received, Typed, WorldTyped
  <2>3. ASSUME NEW i \in Controls PROVE docs'[id].val[i] \in {Null, Absent, device'[id][i]}
    <3>1. docs[id].val[i] \in Values \cup {Null, Absent}
      BY <1>1, <1>5 DEF Typed, DocsTyped, NoBad, Doc, Payloads, Entries, Items
    <3>2. docs[id].val[i] \in Values => device'[id][i] = docs[id].val[i]
      BY <2>1, <2>2 DEF Applied
    <3>3. QED BY <1>1, <3>1, <3>2
  <2>4. Agree(docs'[id].val, device'[id])
    BY <2>3 DEF Agree
  <2>5. QED BY <2>4 DEF Agreed
<1>6. CASE docs[id] = NoDevice \/ astray[id] = TRUE
  BY <1>1, <1>6 DEF Agreed
<1>7. QED BY <1>2, <1>4, <1>5, <1>6

\* A reconciliation that gives a control a value leaves the device in doubt.
LEMMA BulkAgrees ==
    ASSUME Typed, Agreeing, NEW p \in Procs, BulkWrite(p), NEW id \in Ids, Agreed(id)
    PROVE  Agreed(id)'
<1> DEFINE r == proc[p]
           hit == {j \in Ids : r.ops[j] # NoDevice /\ docs[j] # NoDevice}
<1>1. /\ Shaped(r) /\ r.pc = "bulk" /\ Honest(r, docs, device, reports, astray)
  BY DEF Agreeing, Typed, ProcTyped, BulkWrite
<1>2. PICK now : now = docs'[id]
  OBVIOUS
<1>3. /\ id \notin hit => docs'[id] = docs[id]
      /\ astray'[id] # TRUE => astray[id] # TRUE
                               /\ (id \in hit => ~Filled(docs[id].val, now.val, Nothing))
  BY <1>2 DEF BulkWrite, Typed, FlagsTyped
<1>4. id \in hit => docs[id] # NoDevice
  OBVIOUS
<1> HIDE DEF hit
<1>5. CASE docs'[id] # NoDevice /\ astray'[id] # TRUE
  <2>1. docs[id] # NoDevice /\ astray[id] # TRUE
    BY <1>3, <1>4, <1>5
  <2>2. now.val \in Payloads /\ NoBad(now.val)
    <3>1. Typed'
      BY StepTyped DEF Step
    <3>2. QED BY <1>2, <1>5, <3>1 DEF Typed, DocsTyped, Doc
  <2>3. ASSUME NEW i \in Controls PROVE docs'[id].val[i] \in {Null, Absent, docs[id].val[i]}
    <3>1. now.val[i] \in Values \cup {Null, Absent} /\ Nothing[i] = Absent
      BY <2>2 DEF NoBad, Payloads, Entries, Items, Nothing
    <3>2. CASE id \notin hit
      BY <1>3, <3>2
    <3>3. CASE id \in hit
      <4>1. ~(now.val[i] \in Values /\ now.val[i] # docs[id].val[i] /\ now.val[i] # Nothing[i])
        BY <1>3, <1>5, <3>3 DEF Filled
      <4>2. now.val[i] \in {Null, Absent, docs[id].val[i]}
        BY <3>1, <4>1, Sentinels
      <4>3. QED BY <1>2, <4>2
    <3>4. QED BY <3>2, <3>3
  <2>4. ~Mends(r, id)
    BY <1>1 DEF Mends, Carries, Answers
  <2>5. QED BY <2>1, <2>3, <2>4, StillAgreed DEF Step, Agreeing
<1>6. CASE docs'[id] = NoDevice \/ astray'[id] = TRUE
  BY <1>6 DEF Agreed
<1>7. QED BY <1>5, <1>6

LEMMA AgreedStep ==
    ASSUME InTurn, Agreeing, NEW p \in Procs, Step(p), NEW id \in Ids
    PROVE  Agreed(id)'
<1> DEFINE r == proc[p]
<1>1. Typed /\ Agreed(id) /\ Honest(r, docs, device, reports, astray)
  BY DEF InTurn, Agreeing, Agreed
<1>2. CASE docs'[id] = NoDevice \/ astray'[id] = TRUE
  BY <1>2 DEF Agreed
<1>3. CASE Save(p) /\ id = r.id /\ docs[id] # NoDevice
  BY <1>1, <1>3, SaveAgrees
<1>4. CASE Insert(p) /\ id = r.id /\ docs[id] = NoDevice
  BY <1>1, <1>4, InsertAgrees
<1>5. CASE Reply(p) /\ id = r.id
  BY <1>1, <1>5, ReplyAgrees
<1>6. CASE BulkWrite(p)
  BY <1>1, <1>6, BulkAgrees
<1>7. ASSUME docs'[id] = docs[id], docs[id] # NoDevice, astray'[id] # TRUE,
             astray[id] # TRUE, ~(id = r.id /\ (Save(p) \/ Reply(p)))
      PROVE  Agreed(id)'
  <2>1. Mends(r, id) => Mends(proc'[p], id)
    BY <1>1, <1>7, OwnMends
  <2>2. QED BY <1>1, <1>7, <2>1, StillAgreed DEF Agreeing
<1>8. CASE /\ docs'[id] # NoDevice /\ astray'[id] # TRUE
           /\ ~(Save(p) /\ id = r.id /\ docs[id] # NoDevice)
           /\ ~(Insert(p) /\ id = r.id /\ docs[id] = NoDevice)
           /\ ~(Reply(p) /\ id = r.id) /\ ~BulkWrite(p)
  <2>1. docs'[id] = docs[id]
    <3>1. CASE UNCHANGED docs
      BY <3>1
    <3>2. CASE Save(p)
      BY <1>1, <1>8, <3>2 DEF Save, Typed, DocsTyped
    <3>3. CASE Insert(p)
      BY <1>1, <1>8, <3>3 DEF Insert, Typed, DocsTyped
    <3>4. CASE Delete(p)
      BY <1>1, <1>8, <3>4 DEF Delete, Typed, DocsTyped
    <3>5. QED BY <1>8, <3>1, <3>2, <3>3, <3>4 DEF Step, LookupByIp, LookupName, ReadDoc, Merge,
                 Defaults, Send, SaveRefused, Reply, FindDevices, ReconcileEnds
  <2>2. docs[id] # NoDevice
    BY <1>8, <2>1
  <2>3. astray[id] # TRUE
    <3>1. CASE Insert(p) /\ id = r.id
      <4>1. astray' = astray
        BY <1>8, <2>2, <3>1 DEF Insert
      <4>2. QED BY <1>8, <4>1
    <3>2. QED BY <1>1, <1>8, <2>2, <3>1, StepAstray
  <2>4. QED BY <1>7, <1>8, <2>1, <2>2, <2>3
<1>9. QED BY <1>2, <1>3, <1>4, <1>5, <1>6, <1>8

LEMMA StepAgreeing ==
    ASSUME InTurn, Agreeing, Controls # {}, NEW p \in Procs, Step(p) PROVE Agreeing'
<1>1. \A q \in Procs : Honest(proc'[q], docs', device', reports', astray')
  BY StepHonest
<1>2. Queued'
  BY StepQueued DEF InTurn, Agreeing
<1>3. \A id \in Ids : Agreed(id)'
  BY AgreedStep
<1>4. QED BY <1>1, <1>2, <1>3 DEF Agreeing, Agreed

LEMMA OriginsHonest ==
    ASSUME NEW r, r.sent = FALSE, r.pc \in Starts, NEW ds, NEW dev, NEW rep, NEW ast,
           Origins(r), Told(r, dev, rep)
    PROVE  Honest(r, ds, dev, rep, ast)
BY DEF Honest, Starts, Taken, Sent, Unsent, Answered

\* A request that takes a published state off the queue carries it on.
LEMMA StartAgreeing ==
    ASSUME Typed, Agreeing, NEW p \in Procs, NEW r, Start(p, r), UNCHANGED <<docs, device, astray>>,
           r.sent = FALSE, r.pc \in Starts, Origins(r), Told(r, device', reports'), Queued',
           \A id \in Ids : reports'[id] # reports[id]
               => Mends(r, id) /\ \A q \in Procs : Concerned(proc[q]) => proc[q].id # id
    PROVE  Agreeing'
<1>1. /\ proc'[p] = r /\ proc[p].pc = "idle" /\ \A q \in Procs \ {p} : proc'[q] = proc[q]
      /\ proc \in [Procs -> Handlers] /\ \A q \in Procs : Shaped(proc[q])
  BY DEF Typed, ProcTyped, Start
<1>2. Honest(r, docs', device', reports', astray')
  BY OriginsHonest
<1>3. ASSUME NEW q \in Procs \ {p} PROVE Honest(proc[q], docs', device', reports', astray')
  <2>1. Honest(proc[q], docs, device, reports, astray) /\ proc[q] \in Handlers
    BY <1>1 DEF Agreeing
  <2>2. Concerned(proc[q]) => Undisturbed(proc[q])
    BY <1>1 DEF Concerned, Undisturbed, Shaped
  <2>3. QED BY <2>1, <2>2, UndisturbedHonest
<1>4. ASSUME NEW id \in Ids, docs'[id] # NoDevice, astray'[id] # TRUE, reports'[id] = <<>>
      PROVE  Agree(docs'[id].val, device'[id]) \/ \E q \in Procs : Mends(proc'[q], id)
  <2>1. CASE reports'[id] # reports[id]
    BY <1>1, <2>1
  <2>2. CASE reports'[id] = reports[id]
    <3>1. \A q \in Procs : Mends(proc[q], id) => q # p
      BY <1>1 DEF Mends, Carries, Answers
    <3>2. Agree(docs[id].val, device[id]) \/ \E q \in Procs : Mends(proc[q], id)
      BY <1>4, <2>2 DEF Agreeing
    <3>3. QED BY <1>1, <3>1, <3>2
  <2>3. QED BY <2>1, <2>2
<1>5. QED BY <1>1, <1>2, <1>3, <1>4 DEF Agreeing

\* A state taken off the queue is the one the device has, unless more wait.
LEMMA ReportTold ==
    ASSUME Typed, Queued, NEW id \in Ids, reports[id] # <<>>,
           reports' = [reports EXCEPT ![id] = Tail(@)], UNCHANGED device
    PROVE  /\ Queued' /\ Head(reports[id]) \in [Controls -> Values]
           /\ reports'[id] = <<>> => Head(reports[id]) = device'[id]
           /\ \A j \in Ids \ {id} : reports'[j] = reports[j]
<1> DEFINE s == reports[id]
<1>1. s \in Seq([Controls -> Values]) /\ s # <<>> /\ s[Len(s)] = device[id]
  BY DEF Typed, WorldTyped, Queued
<1>2. reports'[id] = Tail(s) /\ \A j \in Ids \ {id} : reports'[j] = reports[j]
  BY DEF Typed, WorldTyped
<1> HIDE DEF s
<1> DEFINE S == [Controls -> Values]
<1> HIDE DEF S
<1>3. /\ Head(s) \in S /\ Tail(s) \in Seq(S) /\ Len(Tail(s)) = Len(s) - 1
      /\ \A n \in 1 .. Len(Tail(s)) : Tail(s)[n] = s[n + 1]
      /\ Len(s) \in Nat \ {0} /\ Head(s) = s[1]
  <2>1. s \in Seq(S) /\ s # <<>>
    BY <1>1 DEF S
  <2>2. Len(s) \in Nat \ {0}
    BY <2>1, EmptySeq
  <2>3. Head(s) = s[1]
    BY <2>1
  <2>4. QED BY <2>1, <2>2, <2>3, HeadTailProperties
<1>4. Tail(s) = <<>> => Len(s) = 1
  <2>1. ASSUME NEW t, t = <<>> PROVE Len(t) = 0
    BY <2>1, EmptySeq
  <2>2. Tail(s) = <<>> => Len(Tail(s)) = 0
    BY <2>1
  <2> DEFINE m == Len(Tail(s))
             n == Len(s)
  <2>3. m = n - 1 /\ n \in Nat
    BY <1>3
  <2> HIDE DEF m, n
  <2>4. m = 0 => n = 1
    BY <2>3
  <2>5. QED BY <2>2, <2>4 DEF m, n
<1>5. Tail(s) # <<>> => Tail(s)[Len(Tail(s))] = s[Len(s)]
  <2>1. Tail(s) # <<>> => Len(Tail(s)) \in Nat \ {0}
    BY <1>3, EmptySeq
  <2>2. QED BY <1>3, <2>1
<1>6. Queued'
  BY <1>1, <1>2, <1>5 DEF Queued, s
<1>7. QED BY <1>1, <1>2, <1>3, <1>4, <1>6 DEF s, S

LEMMA DeviceActsAgreeing ==
    ASSUME Typed, Agreeing, NEW id \in Ids, NEW i \in Controls, NEW v \in Values,
           DeviceActs(id, i, v)
    PROVE  Agreeing'
<1> DEFINE now == [device[id] EXCEPT ![i] = v]
<1>1. /\ now \in [Controls -> Values] /\ reports \in [Ids -> Seq([Controls -> Values])]
      /\ reports' = [reports EXCEPT ![id] = Append(@, now)]
      /\ UNCHANGED <<docs, proc, astray>>
      /\ \A q \in Procs : Shaped(proc[q]) /\ proc[q] \in Handlers
  BY DEF DeviceActs, Typed, WorldTyped, ProcTyped
<1>2. device'[id] = now /\ \A j \in Ids \ {id} : device'[j] = device[j]
  BY DEF DeviceActs, Typed, WorldTyped
<1> HIDE DEF now
<1>3. reports'[id] = Append(reports[id], now) /\ \A j \in Ids \ {id} : reports'[j] = reports[j]
  BY <1>1
<1>4. reports'[id] # <<>> /\ reports'[id][Len(reports'[id])] = now
  BY <1>1, <1>3
<1>5. Queued'
  BY <1>2, <1>3, <1>4 DEF Agreeing, Queued
<1>6. ASSUME NEW q \in Procs PROVE Honest(proc'[q], docs', device', reports', astray')
  <2>1. Concerned(proc[q]) => Undisturbed(proc[q])
    BY <1>1, <1>2, <1>3, <1>4 DEF Concerned, Undisturbed, Shaped
  <2>2. QED BY <1>1, <2>1, UndisturbedHonest DEF Agreeing
<1>7. ASSUME NEW j \in Ids, docs'[j] # NoDevice, astray'[j] # TRUE, reports'[j] = <<>>
      PROVE  Agree(docs'[j].val, device'[j]) \/ \E q \in Procs : Mends(proc'[q], j)
  <2>1. j # id
    BY <1>4, <1>7
  <2>2. Agree(docs[j].val, device[j]) \/ \E q \in Procs : Mends(proc[q], j)
    BY <1>1, <1>3, <1>7, <2>1 DEF Agreeing
  <2>3. QED BY <1>1, <1>2, <2>1, <2>2
<1>8. QED BY <1>5, <1>6, <1>7 DEF Agreeing

LEMMA InitAgreeing == Init => Agreeing
<1> SUFFICES ASSUME Init PROVE Agreeing
  OBVIOUS
<1>1. \A p \in Procs : Honest(proc[p], docs, device, reports, astray)
  BY NoProcHonest DEF Init
<1>2. Queued
  BY DEF Init, Queued
<1>3. ASSUME NEW id \in Ids, docs[id] # NoDevice PROVE Agree(docs[id].val, device[id])
  <2>1. docs[id] \in {NoDevice} \cup {[key |-> k, val |-> Nothing] : k \in CKeys}
    BY DEF Init
  <2>2. docs[id].val = Nothing
    BY <1>3, <2>1
  <2>3. QED BY <2>2 DEF Agree, Nothing, Items
<1>4. QED BY <1>1, <1>2, <1>3 DEF Agreeing

LEMMA RequestAgreeing ==
    ASSUME Exclusive = TRUE, InTurn, Agreeing, Controls # {}, NEW p \in Procs, Request(p) \/
           \E k \in CKeys, c \in Configs \cup {NoConfig} : ConfigsChanged(p, k, c)
    PROVE  Agreeing'
<1>1. Typed /\ Queued
  BY DEF InTurn, Agreeing
<1>2. ASSUME NEW r, Start(p, r), UNCHANGED <<docs, device, reports, astray>>, r.sent = FALSE,
             r.pc \in Starts, Origins(r), Told(r, device, reports)
      PROVE  Agreeing'
  <2>1. Told(r, device', reports') /\ Queued'
    BY <1>1, <1>2 DEF Queued
  <2>2. QED BY <1>1, <1>2, <2>1, StartAgreeing
<1>3. /\ NoProc.sent = FALSE /\ NoProc.pair = FALSE /\ NoProc.origin = "api"
      /\ NoProc.propagate = FALSE /\ NoProc.override = FALSE /\ NoProc.pay = Nothing
      /\ NoProc \in Handlers
  BY NoProcTyped DEF NoProc
<1>4. ASSUME NEW id \in Ids, NEW i \in Items, NEW v \in Values \cup {Bad}, NEW ov \in BOOLEAN,
             ApiUpdate(p, id, i, v, ov)
      PROVE  Agreeing'
  <2> DEFINE pay == Only(i, v)
             u == UpdateOf(id, pay, TRUE, "api")
             r == [u EXCEPT !.override = ov]
  <2>1. /\ u.pc = "read" /\ u.kind = "update" /\ u.origin = "api" /\ u.propagate = TRUE
        /\ u.pair = FALSE /\ u.sent = FALSE /\ u \in Handlers
    <3>1. pay \in Payloads
      BY OnlyTyped
    <3> HIDE DEF pay
    <3>2. QED BY <1>3, <3>1 DEF UpdateOf, Handlers, Pcs, Kinds
  <2>2. Start(p, r) /\ UNCHANGED <<docs, device, reports, astray>>
    BY <1>4 DEF ApiUpdate
  <2> HIDE DEF u
  <2>3. /\ r.pc = "read" /\ r.kind = "update" /\ r.origin = "api" /\ r.propagate = TRUE
        /\ r.pair = FALSE /\ r.sent = FALSE
    BY <2>1 DEF Handlers
  <2> HIDE DEF r
  <2>4. QED BY <1>2, <2>2, <2>3 DEF Starts, Origins, Told
<1>5. ASSUME NEW id \in Ids, NEW k \in CKeys, ApiRekey(p, id, k) PROVE Agreeing'
  <2> DEFINE u == UpdateOf(id, Nothing, TRUE, "api")
             r == [u EXCEPT !.key = k]
  <2>1. /\ u.pc = "read" /\ u.kind = "update" /\ u.origin = "api" /\ u.propagate = TRUE
        /\ u.pair = FALSE /\ u.sent = FALSE /\ u \in Handlers
    BY <1>3, NothingTyped DEF UpdateOf, Handlers, Pcs, Kinds
  <2>2. Start(p, r) /\ UNCHANGED <<docs, device, reports, astray>>
    BY <1>5 DEF ApiRekey
  <2> HIDE DEF u
  <2>3. /\ r.pc = "read" /\ r.kind = "update" /\ r.origin = "api" /\ r.propagate = TRUE
        /\ r.pair = FALSE /\ r.sent = FALSE
    BY <2>1 DEF Handlers
  <2> HIDE DEF r
  <2>4. QED BY <1>2, <2>2, <2>3 DEF Starts, Origins, Told
<1>6. ASSUME NEW id \in Ids, NEW k \in CKeys, ApiAdd(p, id, k) PROVE Agreeing'
  <2> DEFINE r == [NoProc EXCEPT !.pc = "name", !.kind = "add", !.id = id, !.key = k]
  <2>1. /\ r.pc = "name" /\ r.kind = "add" /\ r.origin = "api" /\ r.pay = Nothing
        /\ r.pair = FALSE /\ r.sent = FALSE
    BY <1>3 DEF Handlers
  <2>2. Start(p, r) /\ UNCHANGED <<docs, device, reports, astray>>
    BY <1>6 DEF ApiAdd
  <2> HIDE DEF r
  <2>3. ~Tells(r)
    BY <2>1 DEF Tells, Nothing, Items
  <2>4. QED BY <1>2, <2>1, <2>2, <2>3 DEF Starts, Origins, Told
<1>7. ASSUME NEW id \in Ids, ApiRemove(p, id) PROVE Agreeing'
  <2> DEFINE r == [NoProc EXCEPT !.pc = "read", !.kind = "remove", !.id = id]
  <2>1. r.pc = "read" /\ r.kind = "remove" /\ r.pair = FALSE /\ r.sent = FALSE
    BY <1>3 DEF Handlers
  <2>2. Start(p, r) /\ UNCHANGED <<docs, device, reports, astray>>
    BY <1>7 DEF ApiRemove
  <2> HIDE DEF r
  <2>3. QED BY <1>2, <2>1, <2>2 DEF Starts, Origins, Told
<1>8. ASSUME NEW id \in Ids, NEW i \in Measurements, NEW v \in Values \cup {Bad},
             Measure(p, id, i, v)
      PROVE  Agreeing'
  <2> DEFINE pay == Only(i, v)
             r == UpdateOf(id, pay, TRUE, "device")
  <2>1. i \in Items /\ \A j \in Controls : pay[j] = Absent
    BY Sections DEF Items, Only, Nothing
  <2>2. /\ r.pc = "read" /\ r.kind = "update" /\ r.pay = pay /\ r.pair = FALSE /\ r.sent = FALSE
        /\ r.origin = "device"
    <3> HIDE DEF pay
    <3>1. QED BY <1>3 DEF UpdateOf, Handlers
  <2>3. Start(p, r) /\ UNCHANGED <<docs, device, reports, astray>>
    BY <1>8 DEF Measure
  <2> HIDE DEF r, pay
  <2>4. ~Tells(r)
    BY <2>1, <2>2 DEF Tells
  <2>5. QED BY <1>2, <2>2, <2>3, <2>4 DEF Starts, Origins, Told
<1>9. ASSUME NEW id \in Ids, NEW k \in CKeys, NEW v \in Values \cup {Absent}, PairRequest(p, id, k, v) PROVE Agreeing'
  <2> DEFINE pay == [i \in Items |-> IF i \in Controls THEN device[id][i] ELSE v]
             r == [NoProc EXCEPT !.pc = "ip", !.id = id, !.kind = "update", !.pair = TRUE,
                                 !.key = k, !.origin = "device", !.pay = pay]
  <2>1. \A i \in Controls : pay[i] = device[id][i] /\ pay[i] \in Values
    BY <1>1 DEF Typed, WorldTyped, Items
  <2>2. Start(p, r) /\ UNCHANGED <<docs, device, reports, astray>>
    BY <1>9 DEF PairRequest
  <2> HIDE DEF pay
  <2>3. /\ r.pc = "ip" /\ r.kind = "update" /\ r.id = id /\ r.pay = pay /\ r.pair = TRUE
        /\ r.sent = FALSE /\ r.origin = "device" /\ r.propagate = FALSE /\ r.override = FALSE
    BY <1>3 DEF Handlers
  <2> HIDE DEF r
  <2>4. Tells(r)
    BY <2>1, <2>3, Sentinels DEF Tells
  <2>5. Origins(r) /\ Told(r, device, reports)
    BY <2>1, <2>3, <2>4 DEF Origins, Told
  <2>6. QED BY <1>2, <2>2, <2>3, <2>5 DEF Starts
<1>10. ASSUME NEW id \in Ids, Report(p, id) PROVE Agreeing'
  <2> DEFINE state == Head(reports[id])
             pay == [i \in Items |-> IF i \in Controls THEN state[i] ELSE Absent]
             r == UpdateOf(id, pay, FALSE, "device")
  <2>1. /\ Queued' /\ state \in [Controls -> Values]
        /\ reports'[id] = <<>> => state = device'[id]
        /\ \A j \in Ids \ {id} : reports'[j] = reports[j]
    BY <1>1, <1>10, ReportTold DEF Report
  <2>2. Start(p, r) /\ UNCHANGED <<docs, device, astray>>
    BY <1>10 DEF Report
  <2> HIDE DEF state
  <2>3. \A i \in Controls : pay[i] = state[i] /\ pay[i] \in Values
    BY <2>1 DEF Items
  <2>4. pay \in Payloads
    BY <2>1 DEF Payloads, Entries
  <2> HIDE DEF pay
  <2>5. /\ r.pc = "read" /\ r.kind = "update" /\ r.id = id /\ r.pay = pay /\ r.pair = FALSE
        /\ r.sent = FALSE /\ r.origin = "device" /\ r.propagate = FALSE /\ r.override = FALSE
        /\ r.key = NoKey /\ r \in Handlers
    BY <1>3, <2>4 DEF UpdateOf, Handlers, NoProc, Pcs, Kinds
  <2> HIDE DEF r
  <2>6. Tells(r)
    BY <2>3, <2>5, Sentinels DEF Tells
  <2>7. Origins(r) /\ Told(r, device', reports') /\ Mends(r, id)
    BY <2>1, <2>3, <2>5, <2>6 DEF Origins, Told, Mends, Carries
  <2>8. ASSUME NEW q \in Procs, Concerned(proc[q]) PROVE proc[q].id # id
    <3>1. ~Conflict(r, proc[q])
      BY <2>2 DEF Start
    <3>2. Controls \subseteq Writes(r)
      BY <2>5, <2>6, ToldWrites DEF Concerned
    <3>3. proc[q].pc # "idle" /\ Controls \subseteq Writes(proc[q])
      BY <1>1, <2>8, ToldWrites DEF Typed, ProcTyped, Shaped, Concerned
    <3>4. QED BY <2>5, <3>1, <3>2, <3>3 DEF Conflict
  <2>9. QED BY <1>1, <2>1, <2>2, <2>5, <2>7, <2>8, StartAgreeing DEF Starts
<1>11. ASSUME NEW k \in CKeys, NEW c \in Configs \cup {NoConfig}, ConfigsChanged(p, k, c)
       PROVE  Agreeing'
  <2> DEFINE parsed == [config EXCEPT ![k] = c]
             news == {[key |-> j, cfg |-> parsed[j]] : j \in {l \in CKeys : parsed[l] # NoConfig}}
             r == [NoProc EXCEPT !.pc = "find", !.kind = "reconcile", !.parsed = news]
  <2>1. Start(p, r) /\ UNCHANGED <<docs, device, reports, astray>>
    BY <1>11 DEF ConfigsChanged
  <2> HIDE DEF news
  <2>2. r.pc = "find" /\ r.kind = "reconcile" /\ r.pair = FALSE /\ r.sent = FALSE
    BY <1>3 DEF Handlers
  <2> HIDE DEF r
  <2>3. QED BY <1>2, <2>1, <2>2 DEF Starts, Origins, Told
<1>12. QED BY <1>4, <1>5, <1>6, <1>7, <1>8, <1>9, <1>10, <1>11 DEF Request

LEMMA NextAgreeing ==
    Exclusive = TRUE /\ Controls # {} /\ InTurn /\ Agreeing /\ [Next]_vars => Agreeing'
<1> SUFFICES ASSUME Exclusive = TRUE, Controls # {}, InTurn, Agreeing, [Next]_vars
             PROVE  Agreeing'
  OBVIOUS
<1>1. CASE UNCHANGED vars
  BY <1>1 DEF vars, Agreeing, Queued
<1>2. CASE Next
  BY <1>2, StepAgreeing, RequestAgreeing, DeviceActsAgreeing DEF Next, InTurn
<1>3. QED BY <1>1, <1>2

\* Where handlers that write the same section of a device take turns, the hub
\* stores the controls the device has once nothing is under way for it, however
\* API updates, states the device publishes, pairings, new devices and changes
\* of configurations came together: a control may differ only where a message
\* was lost, a state was refused, or a default was filled in that the device was
\* not told of, and the next message the device gets settles that too.
THEOREM HubAndDevicesAgree == ASSUME Exclusive = TRUE PROVE Spec => []DeviceAgrees
<1>1. CASE Controls = {}
  <2>1. Typed => DeviceAgrees
    BY <1>1 DEF DeviceAgrees
  <2>2. QED BY <2>1, AlwaysTyped, PTL
<1>2. CASE Controls # {}
  <2>1. Init => InTurn /\ Agreeing
    BY InitInTurn, InitAgreeing
  <2>2. InTurn /\ Agreeing /\ [Next]_vars => (InTurn /\ Agreeing)'
    BY <1>2, NextInTurn, NextAgreeing
  <2>3. InTurn /\ Agreeing => DeviceAgrees
    BY AgreeingAgrees DEF InTurn
  <2>4. QED BY <2>1, <2>2, <2>3, PTL DEF Spec
<1>3. QED BY <1>1, <1>2
===============================================================================
