----------------------------- MODULE DeviceStore -----------------------------
(* What the devices service promises about the payloads it stores: a request   *)
(* takes effect at one instant, on the document as it is at that instant.  An  *)
(* update is merged into the stored payload (or replaces it, when it says so)  *)
(* and changes nothing it does not name; a reconciliation adds what a          *)
(* configuration declares and removes what it does not.                        *)
EXTENDS FiniteSets

CONSTANTS Ids,          \* devices
          Controls,     \* the items of the controls section
          Measurements, \* the items of the measurements section
          Absent,       \* no entry of that name
          NoDevice,     \* no such document
          Clients,      \* who makes requests
          NoRequest

VARIABLES docs,         \* the stored payloads
          request       \* the requests that have not taken effect

storeVars == <<docs, request>>

Items == Controls \cup Measurements
SectionOf(i) == IF i \in Controls THEN Controls ELSE Measurements
Named(pay) == {i \in Items : pay[i] # Absent}
Touched(pay) == UNION {SectionOf(i) : i \in Named(pay)}

\* What merging pay into val can give: the entries named (all of them, unless
\* the request may be taken in part), and defaults where there was no entry.
IsMerge(new, val, pay, override, part) ==
    \E taken \in SUBSET Named(pay) :
        /\ part \/ taken = Named(pay)
        /\ \A i \in Items :
               \/ i \in taken /\ new[i] = pay[i]
               \/ i \notin taken /\ val[i] # Absent /\ new[i] = val[i] /\
                      ~(override /\ i \in Touched(pay))
               \/ i \notin taken /\ override /\ i \in Touched(pay)
               \/ i \notin taken /\ val[i] = Absent

\* What reconciling val with the set of declared items can give: only entries
\* that were missing are added, and only undeclared ones removed.
IsTidied(new, val, declared) ==
    \A i \in Items : \/ new[i] = val[i]
                     \/ i \in declared /\ val[i] = Absent
                     \/ i \notin declared /\ new[i] = Absent

Done(c) == request'[c] = NoRequest
OthersWait(c) == \A d \in Clients \ {c} : request'[d] = request[d]
OnlyChanges(id) == \A j \in Ids \ {id} : docs'[j] = docs[j]

Submit(c) == request[c] = NoRequest /\ ~Done(c) /\ UNCHANGED docs
Refuse(c) == request[c] # NoRequest /\ Done(c) /\ UNCHANGED docs

Update(c) == LET r == request[c] IN
    /\ r # NoRequest /\ r.kind = "update" /\ Done(c)
    /\ docs[r.id] # NoDevice /\ docs'[r.id] # NoDevice
    /\ IsMerge(docs'[r.id], docs[r.id], r.pay, r.override, r.part)
    /\ OnlyChanges(r.id)

Add(c) == LET r == request[c] IN
    /\ r # NoRequest /\ r.kind = "add" /\ Done(c)
    /\ docs[r.id] = NoDevice /\ docs'[r.id] # NoDevice
    /\ IsMerge(docs'[r.id], [i \in Items |-> Absent], r.pay, r.override, r.part)
    /\ OnlyChanges(r.id)

Remove(c) == LET r == request[c] IN
    /\ r # NoRequest /\ r.kind = "remove" /\ Done(c)
    /\ docs'[r.id] = NoDevice
    /\ OnlyChanges(r.id)

\* A reconciliation with several configurations takes effect one by one.
Tidy(c) == LET r == request[c] IN
    /\ r # NoRequest /\ r.kind = "reconcile"
    /\ Done(c) \/ (request'[c].kind = "reconcile" /\ request'[c].declarations \subseteq r.declarations)
    /\ \E declared \in r.declarations : \A id \in Ids :
           \/ docs'[id] = docs[id]
           \/ /\ docs[id] # NoDevice /\ docs'[id] # NoDevice
              /\ IsTidied(docs'[id], docs[id], declared)

StoreInit == request = [c \in Clients |-> NoRequest]
StoreNext == \E c \in Clients :
    /\ OthersWait(c)
    /\ Submit(c) \/ Refuse(c) \/ Update(c) \/ Add(c) \/ Remove(c) \/ Tidy(c)

StoreSpec == StoreInit /\ [][StoreNext]_storeVars
=============================================================================
