--------------------------- MODULE Accounts_proofs ---------------------------
(* Theorems about Accounts, for any number of addresses, Google accounts,      *)
(* tokens and handlers.                                                        *)
(*                                                                             *)
(* Typed says what a handler holds at each step and what is stored by then:    *)
(* users and requests are never deleted, so a document that a handler read is  *)
(* still there when it saves. The other invariants rest on it.                 *)
EXTENDS Accounts, FiniteSetTheorems, TLAPS

Ops == {"none", "create", "update", "cancel", "register", "totp", "link", "unlink", "google",
        "reset", "change"}
Pcs == {"idle", "request", "save", "approved", "find", "insert", "read", "linked", "reread",
        "byEmail", "owner", "issue", "consume"}
Handlers == [op : Ops, pc : Pcs, email : Emails \cup {NoEmail}, google : Googles \cup {NoGoogle},
             token : Tokens \cup {NoToken}, dto : Dtos, role : Roles,
             old : Requests \cup {NoRequest}, user : Users \cup {NoUser}]

\* What a handler holds.
Shaped(r) ==
    /\ r.op # "none" /\ r.pc # "consume" => r.email \in Emails
    /\ r.op \in {"link", "google"} => r.google \in Googles
    /\ r.op \in {"reset", "change"} => r.token \in Tokens
    /\ r.pc = "consume" => r.op = "change"
    /\ r.pc = "save" /\ r.op \in {"update", "cancel"} => r.old # NoRequest
    /\ r.pc = "save" /\ r.op \in WritesUser => r.user # NoUser

\* What is stored once a handler has got so far.
Backed(r, reqs, us) ==
    /\ r.pc \in {"request", "save"} /\ r.op \in {"update", "cancel"} => reqs[r.email] # NoRequest
    /\ r.pc = "save" /\ r.op \in WritesRequest /\ r.old # NoRequest => reqs[r.email] # NoRequest
    /\ r.op \in {"link", "unlink"} => us[r.email] # NoUser
    /\ r.pc \in {"reread", "save"} /\ r.op \in WritesUser => us[r.email] # NoUser
    /\ r.pc = "save" /\ r.op \in WritesUser /\ r.user.password = TRUE
           => us[r.email].password = TRUE

Stored ==
    /\ requests \in [Emails -> Requests \cup {NoRequest}]
    /\ users \in [Emails -> Users \cup {NoUser}]
    /\ tokens \in [Tokens -> Emails \cup {NoEmail}]
    /\ granted \in [Emails -> SUBSET Roles]
    /\ credit \in [Emails -> Int]
    /\ raced \subseteq Emails

Typed ==
    /\ Stored
    /\ proc \in [Procs -> Handlers]
    /\ \A p \in Procs : Shaped(proc[p]) /\ Backed(proc[p], requests, users)

Kept == /\ \A e \in Emails : requests[e] # NoRequest => requests'[e] # NoRequest
        /\ \A e \in Emails : users[e] # NoUser => users'[e] # NoUser
        /\ \A e \in Emails : users[e] # NoUser /\ users[e].password = TRUE
                                 => users'[e].password = TRUE

\* What was stored when a handler read it is still stored.
LEMMA StillBacked ==
    ASSUME Kept, NEW h \in Handlers, Shaped(h), Backed(h, requests, users)
    PROVE  Backed(h, requests', users')
<1>1. CASE h.email \in Emails
  <2> DEFINE e == h.email
  <2>1. requests[e] # NoRequest => requests'[e] # NoRequest
    BY <1>1 DEF Kept
  <2>2. users[e] # NoUser => users'[e] # NoUser
    BY <1>1 DEF Kept
  <2>3. users[e] # NoUser /\ users[e].password = TRUE => users'[e].password = TRUE
    BY <1>1 DEF Kept
  <2> HIDE DEF e
  <2> QED BY <2>1, <2>2, <2>3 DEF Backed, e, WritesUser, WritesLink, WritesRequest
<1>2. CASE h.email \notin Emails
  <2>1. h.op = "none" \/ (h.op = "change" /\ h.pc = "consume")
    BY <1>2 DEF Shaped
  <2> QED BY <2>1 DEF Backed, WritesUser, WritesLink, WritesRequest
<1> QED BY <1>1, <1>2

LEMMA Moved ==
    ASSUME Typed, Stored', Kept, NEW p \in Procs, NEW r \in Handlers,
           Shaped(r), Backed(r, requests', users'), proc' = [proc EXCEPT ![p] = r]
    PROVE  Typed'
<1>1. proc' \in [Procs -> Handlers]
  BY DEF Typed
<1>2. ASSUME NEW q \in Procs PROVE Shaped(proc'[q]) /\ Backed(proc'[q], requests', users')
  <2>1. CASE q = p
    <3>1. proc'[q] = r
      BY <2>1 DEF Typed
    <3> QED BY <3>1
  <2>2. CASE q # p
    <3>1. proc'[q] = proc[q] /\ proc[q] \in Handlers /\ Shaped(proc[q])
             /\ Backed(proc[q], requests, users)
      BY <2>2 DEF Typed
    <3>2. Backed(proc[q], requests', users')
      BY <3>1, StillBacked
    <3> QED BY <3>1, <3>2
  <2> QED BY <2>1, <2>2
<1> QED BY <1>1, <1>2 DEF Typed

LEMMA IdleHandler == Idle \in Handlers /\ Shaped(Idle) /\ \A x, y : Backed(Idle, x, y)
<1>1. NoDto \in Dtos
  BY DEF NoDto, Dtos
<1>2. Idle \in Handlers
  BY <1>1, RolesKnown DEF Idle, Handlers, Ops, Pcs
<1> QED
  BY <1>2 DEF Idle, Shaped, Backed, WritesRequest, WritesLink, WritesUser

LEMMA Started ==
    ASSUME Typed, NEW p \in Procs, NEW r \in Handlers, Shaped(r), Backed(r, requests, users),
           Start(p, r), granted' \in [Emails -> SUBSET Roles]
    PROVE  Typed'
<1>1. raced' \subseteq Emails
  <2>1. \A q : Races(r, q) => r.email \in Emails
    BY DEF Races, Shaped, WritesRequest, WritesLink
  <2> QED BY <2>1 DEF Start, Typed, Stored
<1>2. Stored' /\ Kept
  BY <1>1 DEF Start, Typed, Stored, Kept
<1>3. proc' = [proc EXCEPT ![p] = r] /\ requests' = requests /\ users' = users
  BY DEF Start
<1>4. Backed(r, requests', users')
  BY <1>3 DEF Backed
<1> QED BY <1>2, <1>3, <1>4, Moved

LEMMA Calls == ASSUME Typed, NEW p \in Procs, Call(p) PROVE Typed'
<1> USE IdleHandler
<1>0. granted \in [Emails -> SUBSET Roles] /\ GuestRole \in Roles /\ AdminRole \in Roles
  BY RolesKnown DEF Typed, Stored
<1>1. ASSUME NEW e \in Emails, StartCreate(p, e) PROVE Typed'
  <2> DEFINE r == [Idle EXCEPT !.op = "create", !.pc = "request", !.email = e]
  <2>1. r \in Handlers
    BY <1>0 DEF Idle, Handlers, Ops, Pcs
  <2>2. Shaped(r) /\ Backed(r, requests, users)
    BY <1>1 DEF StartCreate, Idle, Shaped, Backed, WritesUser, WritesLink,
       WritesRequest
  <2>3. Start(p, r) /\ granted' \in [Emails -> SUBSET Roles]
    BY <1>0, <1>1 DEF StartCreate
  <2> HIDE DEF r
  <2> QED BY <2>1, <2>2, <2>3, Started
<1>2. ASSUME NEW e \in Emails, StartCancel(p, e) PROVE Typed'
  <2> DEFINE r == [Idle EXCEPT !.op = "cancel", !.pc = "request", !.email = e]
  <2>1. r \in Handlers
    BY <1>0 DEF Idle, Handlers, Ops, Pcs
  <2>2. Shaped(r) /\ Backed(r, requests, users)
    BY <1>2 DEF StartCancel, Idle, Shaped, Backed, WritesUser, WritesLink,
       WritesRequest
  <2>3. Start(p, r) /\ granted' \in [Emails -> SUBSET Roles]
    BY <1>0, <1>2 DEF StartCancel
  <2> HIDE DEF r
  <2> QED BY <2>1, <2>2, <2>3, Started
<1>3. ASSUME NEW e \in Emails, StartRegister(p, e) PROVE Typed'
  <2> DEFINE r == [Idle EXCEPT !.op = "register", !.pc = "approved", !.email = e]
  <2>1. r \in Handlers
    BY <1>0 DEF Idle, Handlers, Ops, Pcs
  <2>2. Shaped(r) /\ Backed(r, requests, users)
    BY <1>3 DEF StartRegister, Idle, Shaped, Backed, WritesUser, WritesLink,
       WritesRequest
  <2>3. Start(p, r) /\ granted' \in [Emails -> SUBSET Roles]
    BY <1>0, <1>3 DEF StartRegister
  <2> HIDE DEF r
  <2> QED BY <2>1, <2>2, <2>3, Started
<1>4. ASSUME NEW e \in Emails, StartTotp(p, e) PROVE Typed'
  <2> DEFINE r == [Idle EXCEPT !.op = "totp", !.pc = "find", !.email = e, !.role = AdminRole]
  <2>1. r \in Handlers
    BY <1>0 DEF Idle, Handlers, Ops, Pcs
  <2>2. Shaped(r) /\ Backed(r, requests, users)
    BY <1>4 DEF StartTotp, Idle, Shaped, Backed, WritesUser, WritesLink,
       WritesRequest
  <2>3. Start(p, r) /\ granted' \in [Emails -> SUBSET Roles]
    BY <1>0, <1>4 DEF StartTotp
  <2> HIDE DEF r
  <2> QED BY <2>1, <2>2, <2>3, Started
<1>5. ASSUME NEW e \in Emails, StartUnlink(p, e) PROVE Typed'
  <2> DEFINE r == [Idle EXCEPT !.op = "unlink", !.pc = "read", !.email = e]
  <2>1. r \in Handlers
    BY <1>0 DEF Idle, Handlers, Ops, Pcs
  <2>2. Shaped(r) /\ Backed(r, requests, users)
    BY <1>5 DEF StartUnlink, Idle, Shaped, Backed, WritesUser, WritesLink,
       WritesRequest
  <2>3. Start(p, r) /\ granted' \in [Emails -> SUBSET Roles]
    BY <1>0, <1>5 DEF StartUnlink
  <2> HIDE DEF r
  <2> QED BY <2>1, <2>2, <2>3, Started
<1>6. ASSUME NEW e \in Emails, NEW dto \in Dtos, StartUpdate(p, e, dto) PROVE Typed'
  <2> DEFINE r == [Idle EXCEPT !.op = "update", !.pc = "request", !.email = e, !.dto = dto]
  <2>1. r \in Handlers
    BY <1>0 DEF Idle, Handlers, Ops, Pcs
  <2>2. Shaped(r) /\ Backed(r, requests, users)
    BY <1>6 DEF StartUpdate, Idle, Shaped, Backed, WritesUser, WritesLink,
       WritesRequest
  <2>3. Start(p, r) /\ granted' \in [Emails -> SUBSET Roles]
    BY <1>0, <1>6 DEF StartUpdate
  <2> HIDE DEF r
  <2> QED BY <2>1, <2>2, <2>3, Started
<1>7. ASSUME NEW e \in Emails, NEW g \in Googles, StartLink(p, e, g) PROVE Typed'
  <2> DEFINE r == [Idle EXCEPT !.op = "link", !.pc = "read", !.email = e, !.google = g]
  <2>1. r \in Handlers
    BY <1>0 DEF Idle, Handlers, Ops, Pcs
  <2>2. Shaped(r) /\ Backed(r, requests, users)
    BY <1>7 DEF StartLink, Idle, Shaped, Backed, WritesUser, WritesLink,
       WritesRequest
  <2>3. Start(p, r) /\ granted' \in [Emails -> SUBSET Roles]
    BY <1>0, <1>7 DEF StartLink
  <2> HIDE DEF r
  <2> QED BY <2>1, <2>2, <2>3, Started
<1>8. ASSUME NEW e \in Emails, NEW g \in Googles, StartGoogle(p, e, g) PROVE Typed'
  <2> DEFINE r == [Idle EXCEPT !.op = "google", !.pc = "linked", !.email = e, !.google = g]
  <2>1. r \in Handlers
    BY <1>0 DEF Idle, Handlers, Ops, Pcs
  <2>2. Shaped(r) /\ Backed(r, requests, users)
    BY <1>8 DEF StartGoogle, Idle, Shaped, Backed, WritesUser, WritesLink,
       WritesRequest
  <2>3. Start(p, r) /\ granted' \in [Emails -> SUBSET Roles]
    BY <1>0, <1>8 DEF StartGoogle
  <2> HIDE DEF r
  <2> QED BY <2>1, <2>2, <2>3, Started
<1>9. ASSUME NEW e \in Emails, NEW t \in Tokens, StartReset(p, e, t) PROVE Typed'
  <2> DEFINE r == [Idle EXCEPT !.op = "reset", !.pc = "owner", !.email = e, !.token = t]
  <2>1. r \in Handlers
    BY <1>0 DEF Idle, Handlers, Ops, Pcs
  <2>2. Shaped(r) /\ Backed(r, requests, users)
    BY <1>9 DEF StartReset, Idle, Shaped, Backed, WritesUser, WritesLink,
       WritesRequest
  <2>3. Start(p, r) /\ granted' \in [Emails -> SUBSET Roles]
    BY <1>0, <1>9 DEF StartReset
  <2> HIDE DEF r
  <2> QED BY <2>1, <2>2, <2>3, Started
<1>10. ASSUME NEW t \in Tokens, StartChange(p, t) PROVE Typed'
  <2> DEFINE r == [Idle EXCEPT !.op = "change", !.pc = "consume", !.token = t]
  <2>1. r \in Handlers
    BY <1>0 DEF Idle, Handlers, Ops, Pcs
  <2>2. Shaped(r) /\ Backed(r, requests, users)
    BY <1>10 DEF StartChange, Idle, Shaped, Backed, WritesUser, WritesLink,
       WritesRequest
  <2>3. Start(p, r) /\ granted' \in [Emails -> SUBSET Roles]
    BY <1>0, <1>10 DEF StartChange
  <2> HIDE DEF r
  <2> QED BY <2>1, <2>2, <2>3, Started
<1> QED
  BY <1>1, <1>2, <1>3, <1>4, <1>5, <1>6, <1>7, <1>8, <1>9, <1>10 DEF Call

LEMMA Ended ==
    ASSUME Typed, NEW p \in Procs, Finish(p), Stored', Kept
    PROVE  Typed'
BY Moved, IdleHandler DEF Finish, Go

LEMMA Unmoved == Typed /\ UNCHANGED <<requests, users, tokens, granted, credit, raced>>
                    => Stored' /\ Kept
BY DEF Typed, Stored, Kept

\* The steps that read and decide: they change their handler only.
LEMMA Reads ==
    ASSUME Typed, NEW p \in Procs,
           \/ ReadRequest(p) \/ GetApprovedRequest(p) \/ FindUser(p) \/ ReadUser(p)
           \/ FindLinked(p) \/ FindByEmail(p) \/ Reread(p) \/ FindOwner(p) \/ Fail(p)
    PROVE  Typed'
<1> DEFINE h == proc[p]
<1>0. h \in Handlers /\ Shaped(h) /\ Backed(h, requests, users)
  BY DEF Typed
<1>1. Stored' /\ Kept /\ requests' = requests /\ users' = users
  <2>1. UNCHANGED <<requests, users, tokens, granted, credit, raced>>
    BY DEF ReadRequest, GetApprovedRequest, FindUser, ReadUser, FindLinked, FindByEmail,
           Reread, FindOwner, Fail, Finish, GoTo, Go
  <2> QED BY <2>1, Unmoved
<1>2. CASE ReadRequest(p)
  <2> SUFFICES ASSUME ~Finish(p) PROVE Typed'
    BY <1>1, Ended
  <2> DEFINE r == [h EXCEPT !.pc = "save", !.old = requests[h.email]]
  <2>1. Go(p, r)
    BY <1>2 DEF ReadRequest, GoTo
  <2>2. r \in Handlers
    BY <1>0, <1>2 DEF ReadRequest, At, Handlers, Pcs, Typed, Stored, Shaped, Requests, Approves,
       WritesUser, WritesLink, WritesRequest
  <2>3. Shaped(r) /\ Backed(r, requests', users')
    BY <1>0, <1>1, <1>2 DEF ReadRequest, At, Handlers, Shaped, Backed,
       WritesUser, WritesLink, WritesRequest
  <2> HIDE DEF r
  <2> QED BY <1>1, <2>1, <2>2, <2>3, Moved DEF Go
<1>3. CASE GetApprovedRequest(p)
  <2> SUFFICES ASSUME ~Finish(p) PROVE Typed'
    BY <1>1, Ended
  <2> DEFINE r == [h EXCEPT !.pc = "find", !.role = requests[h.email].role]
  <2>1. Go(p, r)
    BY <1>3 DEF GetApprovedRequest, GoTo
  <2>2. r \in Handlers
    BY <1>0, <1>3 DEF GetApprovedRequest, At, Handlers, Pcs, Typed, Stored, Shaped, Requests, Approves,
       WritesUser, WritesLink, WritesRequest
  <2>3. Shaped(r) /\ Backed(r, requests', users')
    BY <1>0, <1>1, <1>3 DEF GetApprovedRequest, At, Handlers, Shaped, Backed,
       WritesUser, WritesLink, WritesRequest
  <2> HIDE DEF r
  <2> QED BY <1>1, <2>1, <2>2, <2>3, Moved DEF Go
<1>4. CASE FindUser(p)
  <2> SUFFICES ASSUME ~Finish(p) PROVE Typed'
    BY <1>1, Ended
  <2> DEFINE r == [h EXCEPT !.pc = "insert"]
  <2>1. Go(p, r)
    BY <1>4 DEF FindUser, GoTo
  <2>2. r \in Handlers
    BY <1>0, <1>4 DEF FindUser, At, Handlers, Pcs, Typed, Stored, Shaped, Requests, Approves,
       WritesUser, WritesLink, WritesRequest
  <2>3. Shaped(r) /\ Backed(r, requests', users')
    BY <1>0, <1>1, <1>4 DEF FindUser, At, Handlers, Shaped, Backed,
       WritesUser, WritesLink, WritesRequest
  <2> HIDE DEF r
  <2> QED BY <1>1, <2>1, <2>2, <2>3, Moved DEF Go
<1>5. CASE ReadUser(p)
  <2> SUFFICES ASSUME ~Finish(p) PROVE Typed'
    BY <1>1, Ended
  <2>1. CASE GoTo(p, "linked")
    <3> DEFINE r == [h EXCEPT !.pc = "linked"]
    <3>1. r \in Handlers
      BY <1>0 DEF Handlers, Pcs
    <3>2. Shaped(r) /\ Backed(r, requests', users')
      BY <1>0, <1>1, <1>5, <2>1 DEF ReadUser, At, GoTo, Go, Finish, Handlers, Shaped, Backed,
         WritesUser, WritesLink, WritesRequest
    <3>3. Go(p, r)
      BY <2>1 DEF GoTo
    <3> HIDE DEF r
    <3> QED BY <1>1, <3>1, <3>2, <3>3, Moved DEF Go
  <2>2. CASE GoTo(p, "reread")
    <3> DEFINE r == [h EXCEPT !.pc = "reread"]
    <3>1. r \in Handlers
      BY <1>0 DEF Handlers, Pcs
    <3>2. Shaped(r) /\ Backed(r, requests', users')
      BY <1>0, <1>1, <1>5, <2>2 DEF ReadUser, At, GoTo, Go, Finish, Handlers, Shaped, Backed,
         WritesUser, WritesLink, WritesRequest
    <3>3. Go(p, r)
      BY <2>2 DEF GoTo
    <3> HIDE DEF r
    <3> QED BY <1>1, <3>1, <3>2, <3>3, Moved DEF Go
  <2> QED BY <1>5, <2>1, <2>2 DEF ReadUser
<1>6. CASE FindLinked(p)
  <2> SUFFICES ASSUME ~Finish(p) PROVE Typed'
    BY <1>1, Ended
  <2>1. CASE GoTo(p, "reread") /\ h.op = "link"
    <3> DEFINE r == [h EXCEPT !.pc = "reread"]
    <3>1. r \in Handlers
      BY <1>0 DEF Handlers, Pcs
    <3>2. Shaped(r) /\ Backed(r, requests', users')
      BY <1>0, <1>1, <1>6, <2>1 DEF FindLinked, At, GoTo, Go, Finish, Handlers, Shaped, Backed,
         WritesUser, WritesLink, WritesRequest
    <3>3. Go(p, r)
      BY <2>1 DEF GoTo
    <3> HIDE DEF r
    <3> QED BY <1>1, <3>1, <3>2, <3>3, Moved DEF Go
  <2>2. CASE GoTo(p, "byEmail")
    <3> DEFINE r == [h EXCEPT !.pc = "byEmail"]
    <3>1. r \in Handlers
      BY <1>0 DEF Handlers, Pcs
    <3>2. Shaped(r) /\ Backed(r, requests', users')
      BY <1>0, <1>1, <1>6, <2>2 DEF FindLinked, At, GoTo, Go, Finish, Handlers, Shaped, Backed,
         WritesUser, WritesLink, WritesRequest
    <3>3. Go(p, r)
      BY <2>2 DEF GoTo
    <3> HIDE DEF r
    <3> QED BY <1>1, <3>1, <3>2, <3>3, Moved DEF Go
  <2> QED BY <1>6, <2>1, <2>2 DEF FindLinked
<1>7. CASE FindByEmail(p)
  <2> SUFFICES ASSUME ~Finish(p) PROVE Typed'
    BY <1>1, Ended
  <2>1. CASE GoTo(p, "approved")
    <3> DEFINE r == [h EXCEPT !.pc = "approved"]
    <3>1. r \in Handlers
      BY <1>0 DEF Handlers, Pcs
    <3>2. Shaped(r) /\ Backed(r, requests', users')
      BY <1>0, <1>1, <1>7, <2>1 DEF FindByEmail, At, GoTo, Go, Finish, Handlers, Shaped, Backed,
         WritesUser, WritesLink, WritesRequest
    <3>3. Go(p, r)
      BY <2>1 DEF GoTo
    <3> HIDE DEF r
    <3> QED BY <1>1, <3>1, <3>2, <3>3, Moved DEF Go
  <2>2. CASE GoTo(p, "reread") /\ users[h.email] # NoUser
    <3> DEFINE r == [h EXCEPT !.pc = "reread"]
    <3>1. r \in Handlers
      BY <1>0 DEF Handlers, Pcs
    <3>2. Shaped(r) /\ Backed(r, requests', users')
      BY <1>0, <1>1, <1>7, <2>2 DEF FindByEmail, At, GoTo, Go, Finish, Handlers, Shaped, Backed,
         WritesUser, WritesLink, WritesRequest
    <3>3. Go(p, r)
      BY <2>2 DEF GoTo
    <3> HIDE DEF r
    <3> QED BY <1>1, <3>1, <3>2, <3>3, Moved DEF Go
  <2> QED BY <1>7, <2>1, <2>2 DEF FindByEmail
<1>8. CASE Reread(p)
  <2> SUFFICES ASSUME ~Finish(p) PROVE Typed'
    BY <1>1, Ended
  <2> DEFINE r == [h EXCEPT !.pc = "save", !.user = users[h.email]]
  <2>1. Go(p, r)
    BY <1>8 DEF Reread, GoTo
  <2>2. r \in Handlers
    BY <1>0, <1>8 DEF Reread, At, Handlers, Pcs, Typed, Stored, Shaped, Requests, Approves,
       WritesUser, WritesLink, WritesRequest
  <2>3. Shaped(r) /\ Backed(r, requests', users')
    BY <1>0, <1>1, <1>8 DEF Reread, At, Handlers, Shaped, Backed,
       WritesUser, WritesLink, WritesRequest
  <2> HIDE DEF r
  <2> QED BY <1>1, <2>1, <2>2, <2>3, Moved DEF Go
<1>9. CASE FindOwner(p)
  <2> SUFFICES ASSUME ~Finish(p) PROVE Typed'
    BY <1>1, Ended
  <2>1. CASE GoTo(p, "issue")
    <3> DEFINE r == [h EXCEPT !.pc = "issue"]
    <3>1. r \in Handlers
      BY <1>0 DEF Handlers, Pcs
    <3>2. Shaped(r) /\ Backed(r, requests', users')
      BY <1>0, <1>1, <1>9, <2>1 DEF FindOwner, At, GoTo, Go, Finish, Handlers, Shaped, Backed,
         WritesUser, WritesLink, WritesRequest
    <3>3. Go(p, r)
      BY <2>1 DEF GoTo
    <3> HIDE DEF r
    <3> QED BY <1>1, <3>1, <3>2, <3>3, Moved DEF Go
  <2>2. CASE GoTo(p, "reread")
    <3> DEFINE r == [h EXCEPT !.pc = "reread"]
    <3>1. r \in Handlers
      BY <1>0 DEF Handlers, Pcs
    <3>2. Shaped(r) /\ Backed(r, requests', users')
      BY <1>0, <1>1, <1>9, <2>2 DEF FindOwner, At, GoTo, Go, Finish, Handlers, Shaped, Backed,
         WritesUser, WritesLink, WritesRequest
    <3>3. Go(p, r)
      BY <2>2 DEF GoTo
    <3> HIDE DEF r
    <3> QED BY <1>1, <3>1, <3>2, <3>3, Moved DEF Go
  <2> QED BY <1>9, <2>1, <2>2 DEF FindOwner
<1>10. CASE Fail(p)
  BY <1>1, <1>10, Ended DEF Fail
<1> QED
  BY <1>2, <1>3, <1>4, <1>5, <1>6, <1>7, <1>8, <1>9, <1>10

(* ----------------------- The steps that write ---------------------------- *)

LEMMA DecidedType ==
    ASSUME NEW r \in Handlers, NEW q \in Requests, r.op \in WritesRequest
    PROVE  Decided(r, q) \in Requests
<1>1. Judged(q, r.dto) \in Requests
  BY DEF Judged, Handlers, Dtos, Requests, Statuses
<1> QED BY <1>1, RolesKnown DEF Decided, WritesRequest, Requests, Statuses

LEMMA SaveRequestStep == ASSUME Typed, NEW p \in Procs, SaveRequest(p) PROVE Typed'
<1> DEFINE r == proc[p]
           e == r.email
           new == IF r.old = NoRequest THEN NewRequest(r) ELSE Decided(r, r.old)
<1>0. r \in Handlers /\ Shaped(r) /\ Backed(r, requests, users) /\ r.op \in WritesRequest
         /\ r.pc = "save"
  BY DEF Typed, SaveRequest, At
<1>1. e \in Emails
  BY <1>0 DEF Shaped, WritesRequest
<1>2. new \in Requests
  <2>1. NewRequest(r) \in Requests
    BY RolesKnown DEF NewRequest, Requests, Statuses
  <2>2. r.old # NoRequest => Decided(r, r.old) \in Requests
    BY <1>0, DecidedType DEF Handlers
  <2> QED BY <2>1, <2>2
<1>3. r.old # NoRequest /\ requests[e] # NoRequest => Written(requests[e], r.old, new) \in Requests
  <2> SUFFICES ASSUME r.old # NoRequest, requests[e] # NoRequest
               PROVE  Written(requests[e], r.old, new) \in Requests
    OBVIOUS
  <2>1. requests[e] \in Requests /\ DOMAIN requests[e] = {"status", "role", "black"}
    BY <1>1 DEF Typed, Stored, Requests
  <2> HIDE DEF new, e, r
  <2> QED BY <1>2, <2>1 DEF Written, Requests
<1>4. PICK v : /\ requests' = [requests EXCEPT ![e] = v]
               /\ v \in Requests
  <2> HIDE DEF new
  <2>1. requests[e] \in Requests \cup {NoRequest}
    BY <1>1 DEF Typed, Stored
  <2>2. CASE r.old = NoRequest /\ requests[e] # NoRequest
    BY <1>1, <2>1, <2>2 DEF SaveRequest
  <2>3. CASE r.old = NoRequest /\ requests[e] = NoRequest
    BY <1>1, <1>2, <2>3 DEF SaveRequest, new
  <2>4. CASE r.old # NoRequest
    BY <1>0, <1>1, <1>3, <2>1, <2>4 DEF SaveRequest, Backed, new
  <2> QED BY <2>2, <2>3, <2>4
<1>5. granted' \in [Emails -> SUBSET Roles]
  <2>1. new.role \in Roles
    BY <1>2 DEF Requests
  <2> HIDE DEF new
  <2>2. granted' = [granted EXCEPT ![e] = IF r.op = "update" /\ r.dto.approve
                                          THEN @ \cup {new.role} ELSE @]
    BY DEF SaveRequest, new
  <2> QED BY <1>1, <2>1, <2>2 DEF Typed, Stored
<1>6. /\ requests' \in [Emails -> Requests \cup {NoRequest}]
      /\ \A f \in Emails : requests[f] # NoRequest => requests'[f] # NoRequest
  BY <1>1, <1>4, Missing DEF Typed, Stored
<1>7. Stored' /\ Kept
  BY <1>5, <1>6 DEF SaveRequest, Finish, Go, Typed, Stored, Kept
<1> QED BY <1>7, Ended DEF SaveRequest

LEMMA InsertUserStep == ASSUME Typed, NEW p \in Procs, InsertUser(p) PROVE Typed'
<1> DEFINE r == proc[p]
           e == r.email
           new == [role |-> r.role, google |-> r.google, password |-> r.op # "google"]
<1>0. r \in Handlers /\ Shaped(r) /\ r.op \in {"register", "google", "totp"} /\ r.pc = "insert"
  BY DEF Typed, InsertUser, At
<1>1. e \in Emails /\ new \in Users
  BY <1>0 DEF Shaped, Handlers, Users
<1>2. users' = users \/ (users[e] = NoUser /\ users' = [users EXCEPT ![e] = new])
  <2>1. CASE users[e] = NoUser
    BY <2>1 DEF InsertUser
  <2>2. CASE users[e] # NoUser
    BY <2>2 DEF InsertUser
  <2> QED BY <2>1, <2>2
<1>3. Stored' /\ Kept
  <2>1. /\ users' \in [Emails -> Users \cup {NoUser}]
        /\ \A f \in Emails : users[f] # NoUser => users'[f] # NoUser
        /\ \A f \in Emails : users[f] # NoUser /\ users[f].password = TRUE
                                 => users'[f].password = TRUE
    <3> HIDE DEF new
    <3> QED BY <1>1, <1>2, Missing DEF Typed, Stored
  <2> QED BY <2>1 DEF InsertUser, Finish, GoTo, Go, Typed, Stored, Kept
<1>4. CASE Finish(p)
  BY <1>3, <1>4, Ended
<1>5. CASE GoTo(p, "request") /\ r.op = "totp"
  <2> DEFINE h == [r EXCEPT !.pc = "request"]
  <2>1. h \in Handlers
    BY <1>0 DEF Handlers, Pcs
  <2>2. Shaped(h) /\ Backed(h, requests', users')
    BY <1>0, <1>5 DEF Handlers, Shaped, Backed, WritesUser, WritesLink, WritesRequest
  <2>3. Go(p, h)
    BY <1>5 DEF GoTo
  <2> HIDE DEF h
  <2> QED BY <1>3, <2>1, <2>2, <2>3, Moved DEF Go
<1> QED BY <1>4, <1>5 DEF InsertUser

\* What SaveUser stores: the fields that the handler changed.
LEMMA Saved ==
    ASSUME Typed, NEW p \in Procs, SaveUser(p)
    PROVE  \E v \in Users :
             /\ proc[p].email \in Emails
             /\ users[proc[p].email] \in Users /\ proc[p].user \in Users
             /\ users' = [users EXCEPT ![proc[p].email] = v]
             /\ \/ v = users[proc[p].email]
                \/ LET new == Changed(proc[p], proc[p].user)
                   IN  /\ v = Written(users[proc[p].email], proc[p].user, new)
                       /\ Valid(new)
                       /\ new.google # proc[p].user.google => Indexed(new.google, proc[p].email)
<1> DEFINE r == proc[p]
           e == r.email
           u == r.user
           new == Changed(r, u)
<1>0. r \in Handlers /\ Shaped(r) /\ Backed(r, requests, users) /\ r.op \in WritesUser
         /\ r.pc = "save"
  BY DEF Typed, SaveUser, At
<1>1. e \in Emails /\ users[e] \in Users /\ u \in Users
  BY <1>0 DEF Shaped, Backed, Handlers, Typed, Stored, WritesUser, WritesLink
<1>2. new \in Users
  BY <1>0, <1>1 DEF Changed, Handlers, Users
<1>3. Written(users[e], u, new) \in Users
  <2>1. DOMAIN users[e] = {"role", "password", "google"}
    BY <1>1 DEF Users
  <2> HIDE DEF new, e, u
  <2> QED BY <1>1, <1>2, <2>1 DEF Written, Users
<1>4. users' = [users EXCEPT ![e] = IF Valid(new) /\ (new.google # u.google => Indexed(new.google, e))
                                    THEN Written(users[e], u, new) ELSE users[e]]
  BY DEF SaveUser
<1> QED BY <1>1, <1>3, <1>4

\* Saving a user keeps its password, or sets it.
LEMMA PasswordKept ==
    ASSUME NEW r \in Handlers, NEW stored \in Users, NEW u \in Users
    PROVE  LET v == Written(stored, u, Changed(r, u))
           IN  /\ v.password = IF r.op = "change" /\ u.password = FALSE THEN TRUE
                               ELSE stored.password
               /\ v.google = IF Changed(r, u).google # u.google THEN Changed(r, u).google
                             ELSE stored.google
<1> DEFINE new == Changed(r, u)
<1>1. DOMAIN stored = {"role", "password", "google"} /\ stored.password \in BOOLEAN
         /\ u.password \in BOOLEAN
  BY DEF Users
<1>2. CASE r.op = "change"
  <2>1. new.password = TRUE /\ new.google = u.google
    BY <1>2 DEF Changed, Users
  <2> HIDE DEF new
  <2>2. Written(stored, u, new).password = IF u.password = FALSE THEN TRUE ELSE stored.password
    BY <1>1, <2>1 DEF Written
  <2>3. Written(stored, u, new).google = stored.google
    BY <1>1, <2>1 DEF Written
  <2> QED BY <1>2, <2>1, <2>2, <2>3 DEF new
<1>3. CASE r.op # "change"
  <2>1. new.password = u.password
    BY <1>3 DEF Changed, Users
  <2> HIDE DEF new
  <2>2. Written(stored, u, new).password = stored.password
    BY <1>1, <2>1 DEF Written
  <2>3. Written(stored, u, new).google = IF new.google # u.google THEN new.google ELSE stored.google
    BY <1>1 DEF Written
  <2> QED BY <1>1, <1>3, <2>2, <2>3 DEF new
<1> QED BY <1>2, <1>3

LEMMA SaveUserStep == ASSUME Typed, NEW p \in Procs, SaveUser(p) PROVE Typed'
<1> DEFINE e == proc[p].email
<1>1. PICK v \in Users : /\ e \in Emails /\ users[e] \in Users /\ proc[p].user \in Users
                         /\ users' = [users EXCEPT ![e] = v]
                         /\ v = users[e] \/ v = Written(users[e], proc[p].user, Changed(proc[p], proc[p].user))
  BY Saved
<1>2. users[e].password = TRUE => v.password = TRUE
  <2> DEFINE w == Written(users[e], proc[p].user, Changed(proc[p], proc[p].user))
  <2>1. proc[p] \in Handlers
    BY DEF Typed
  <2>2. users[e].password = TRUE => w.password = TRUE
    BY <1>1, <2>1, PasswordKept
  <2> HIDE DEF w
  <2>3. v = users[e] \/ v = w
    BY <1>1 DEF w
  <2> QED BY <2>2, <2>3
<1>a. /\ users' \in [Emails -> Users \cup {NoUser}]
      /\ \A f \in Emails : users[f] # NoUser => users'[f] # NoUser
      /\ \A f \in Emails : users[f] # NoUser /\ users[f].password = TRUE
                               => users'[f].password = TRUE
  BY <1>1, <1>2, Missing DEF Typed, Stored
<1>3. credit' \in [Emails -> Int]
  BY <1>1 DEF SaveUser, Typed, Stored
<1>4. Stored' /\ Kept
  BY <1>a, <1>3 DEF SaveUser, Finish, Go, Typed, Stored, Kept
<1> QED BY <1>4, Ended DEF SaveUser

LEMMA TokenSteps == ASSUME Typed, NEW p \in Procs, Issue(p) \/ Consume(p) PROVE Typed'
<1> DEFINE r == proc[p]
<1>0. r \in Handlers /\ Shaped(r) /\ Backed(r, requests, users)
  BY DEF Typed
<1>1. CASE Issue(p)
  <2>1. r.token \in Tokens /\ r.email \in Emails
    BY <1>0, <1>1 DEF Issue, At, Shaped
  <2>2. tokens' \in [Tokens -> Emails \cup {NoEmail}] /\ credit' \in [Emails -> Int]
    BY <1>1, <2>1 DEF Issue, Typed, Stored
  <2>3. Stored' /\ Kept
    BY <1>1, <2>2 DEF Issue, Finish, Go, Typed, Stored, Kept
  <2> QED BY <1>1, <2>3, Ended DEF Issue
<1>2. CASE Consume(p)
  <2>1. r.token \in Tokens
    BY <1>0, <1>2 DEF Consume, At, Shaped
  <2>2. tokens' \in [Tokens -> Emails \cup {NoEmail}]
    BY <1>2 DEF Consume, Typed, Stored
  <2>3. Stored' /\ Kept
    BY <1>2, <2>2 DEF Consume, Finish, Go, Typed, Stored, Kept
  <2>4. CASE Finish(p)
    BY <2>3, <2>4, Ended
  <2>5. CASE tokens[r.token] # NoEmail /\ Go(p, [r EXCEPT !.pc = "owner", !.email = tokens[r.token]])
    <3> DEFINE h == [r EXCEPT !.pc = "owner", !.email = tokens[r.token]]
    <3>1. tokens[r.token] \in Emails
      BY <2>1, <2>5 DEF Typed, Stored
    <3>2. h \in Handlers
      BY <1>0, <3>1 DEF Handlers, Pcs
    <3>3. Shaped(h) /\ Backed(h, requests', users')
      BY <1>0, <1>2, <3>1 DEF Consume, At, Handlers, Shaped, Backed, WritesUser, WritesLink, WritesRequest
    <3> HIDE DEF h
    <3> QED BY <2>3, <2>5, <3>2, <3>3, Moved DEF Go, h
  <2> QED BY <1>2, <2>4, <2>5 DEF Consume
<1> QED BY <1>1, <1>2

LEMMA Expiry == ASSUME Typed, NEW t \in Tokens, Expire(t) PROVE Typed'
<1>1. tokens' \in [Tokens -> Emails \cup {NoEmail}]
  BY DEF Expire, Typed, Stored
<1>2. UNCHANGED <<requests, users, proc, granted, credit, raced>>
  BY DEF Expire
<1> QED BY <1>1, <1>2 DEF Typed, Stored

(* ------------------------------- Theorems -------------------------------- *)

LEMMA TypedInitially == Init => Typed
<1> SUFFICES ASSUME Init PROVE Typed
  OBVIOUS
<1>1. Stored
  BY DEF Init, Stored
<1>2. proc \in [Procs -> Handlers] /\ \A p \in Procs : proc[p] = Idle
  BY IdleHandler DEF Init
<1> QED BY <1>1, <1>2, IdleHandler DEF Typed

LEMMA TypedStep == Typed /\ [Next]_vars => Typed'
<1> SUFFICES ASSUME Typed, [Next]_vars PROVE Typed'
  OBVIOUS
<1>1. ASSUME NEW p \in Procs, Call(p) PROVE Typed'
  BY <1>1, Calls
<1>2. ASSUME NEW p \in Procs, Step(p) PROVE Typed'
  BY <1>2, Reads, SaveRequestStep, InsertUserStep, SaveUserStep, TokenSteps DEF Step
<1>3. ASSUME NEW t \in Tokens, Expire(t) PROVE Typed'
  BY <1>3, Expiry
<1>4. CASE UNCHANGED vars
  BY <1>4 DEF vars, Typed, Stored
<1> QED BY <1>1, <1>2, <1>3, <1>4 DEF Next

LEMMA AlwaysTyped == Spec => []Typed
BY TypedInitially, TypedStep, PTL DEF Spec

(* Every variable keeps its type, and a handler that saves a user has one: the  *)
(* services never work on a document that is missing.                           *)
THEOREM TypeCorrect == Spec => []TypeOK
<1>1. Typed => TypeOK
  BY DEF Typed, Stored, TypeOK, Handlers, Shaped
<1> QED BY <1>1, AlwaysTyped, PTL

\* Only these two steps write a user.
LEMMA UsersWrites ==
    ASSUME [Next]_vars
    PROVE  users' = users \/ \E p \in Procs : InsertUser(p) \/ SaveUser(p)
<1>1. ASSUME NEW p \in Procs, Call(p) PROVE users' = users
  BY <1>1 DEF Call, StartCreate, StartCancel, StartRegister, StartTotp, StartUnlink,
     StartUpdate, StartLink, StartGoogle, StartReset, StartChange, Start
<1>2. ASSUME NEW p \in Procs, Step(p), ~InsertUser(p), ~SaveUser(p) PROVE users' = users
  BY <1>2 DEF Step, ReadRequest, SaveRequest, GetApprovedRequest, FindUser, ReadUser,
     FindLinked, FindByEmail, Reread, FindOwner, Issue, Consume, Fail
<1>3. ASSUME NEW t \in Tokens, Expire(t) PROVE users' = users
  BY <1>3 DEF Expire
<1>4. CASE UNCHANGED vars
  BY <1>4 DEF vars
<1> QED BY <1>1, <1>2, <1>3, <1>4 DEF Next

(* A Google account signs in to one user at most, however many requests link    *)
(* accounts, sign in with them and register at once: the unique index is what   *)
(* keeps them apart, not the look-ups.                                          *)
THEOREM GoogleAccountsUnique == Spec => []OneUserPerGoogle
<1>1. Init => OneUserPerGoogle
  BY DEF Init, OneUserPerGoogle
<1>2. Typed /\ OneUserPerGoogle /\ [Next]_vars => OneUserPerGoogle'
  <2> SUFFICES ASSUME Typed, OneUserPerGoogle, [Next]_vars PROVE OneUserPerGoogle'
    OBVIOUS
  <2>0. users \in [Emails -> Users \cup {NoUser}]
    BY DEF Typed, Stored
  <2>1. CASE users' = users
    BY <2>1 DEF OneUserPerGoogle
  <2>2. ASSUME NEW e \in Emails, NEW v \in Users, users' = [users EXCEPT ![e] = v],
               v.google = NoGoogle \/ LinkedTo(v.google) \subseteq {e}
        PROVE  OneUserPerGoogle'
    <3> SUFFICES ASSUME NEW f \in Emails, NEW g \in Emails, users'[f] # NoUser, users'[g] # NoUser,
                        users'[f].google = users'[g].google, users'[f].google # NoGoogle
                 PROVE  f = g
      BY DEF OneUserPerGoogle
    <3>1. \A h \in Emails : users'[h] = IF h = e THEN v ELSE users[h]
      BY <2>0, <2>2
    <3>2. CASE f # e /\ g # e
      BY <3>1, <3>2 DEF OneUserPerGoogle
    <3>3. CASE f = e \/ g = e
      BY <2>2, <3>1, <3>3 DEF LinkedTo
    <3> QED BY <3>2, <3>3
  <2>3. ASSUME NEW p \in Procs, InsertUser(p) PROVE OneUserPerGoogle'
    <3> DEFINE r == proc[p]
               new == [role |-> r.role, google |-> r.google, password |-> r.op # "google"]
    <3>1. r.email \in Emails /\ new \in Users /\ new.google = r.google
      BY <2>3 DEF InsertUser, At, Typed, Shaped, Handlers, Users
    <3>2. \/ users' = users
          \/ users' = [users EXCEPT ![r.email] = new] /\ Indexed(r.google, r.email)
      BY <2>3 DEF InsertUser
    <3> HIDE DEF new
    <3> QED BY <2>1, <2>2, <3>1, <3>2 DEF Indexed
  <2>4. ASSUME NEW p \in Procs, SaveUser(p) PROVE OneUserPerGoogle'
    <3> DEFINE e == proc[p].email
               u == proc[p].user
               new == Changed(proc[p], u)
    <3>1. PICK v \in Users :
             /\ e \in Emails /\ users[e] \in Users /\ u \in Users
             /\ users' = [users EXCEPT ![e] = v]
             /\ \/ v = users[e]
                \/ /\ v = Written(users[e], u, new)
                   /\ new.google # u.google => Indexed(new.google, e)
      BY <2>4, Saved
    <3>2. v.google = users[e].google \/ (v.google = new.google /\ Indexed(new.google, e))
      <4>1. "google" \in DOMAIN users[e]
        BY <3>1 DEF Users
      <4> HIDE DEF new
      <4> QED BY <3>1, <4>1 DEF Written
    <3>3. v.google = users[e].google /\ v.google # NoGoogle => LinkedTo(v.google) \subseteq {e}
      <4>1. users[e] # NoUser
        BY <3>1, Missing
      <4> QED BY <3>1, <4>1 DEF OneUserPerGoogle, LinkedTo
    <3>4. v.google = NoGoogle \/ LinkedTo(v.google) \subseteq {e}
      BY <3>2, <3>3 DEF Indexed
    <3> HIDE DEF new
    <3> QED BY <2>2, <3>1, <3>4
  <2> QED BY <2>1, <2>3, <2>4, UsersWrites
<1> QED BY <1>1, <1>2, AlwaysTyped, PTL DEF Spec

(* Whatever is linked, unlinked and reset at once, every user keeps a password  *)
(* or a Google account: unlinking is only allowed with a password set,          *)
(* "otherwise there would be no way left to sign in" (google-auth.controller),  *)
(* and passwords are never taken away.                                          *)
CanSignIn == \A e \in Emails : users[e] # NoUser => Valid(users[e])

THEOREM UsersCanSignIn == Spec => []CanSignIn
<1>1. Init => CanSignIn
  BY DEF Init, CanSignIn
<1>2. Typed /\ CanSignIn /\ [Next]_vars => CanSignIn'
  <2> SUFFICES ASSUME Typed, CanSignIn, [Next]_vars PROVE CanSignIn'
    OBVIOUS
  <2>0. users \in [Emails -> Users \cup {NoUser}]
    BY DEF Typed, Stored
  <2>1. CASE users' = users
    BY <2>1 DEF CanSignIn
  <2>2. ASSUME NEW e \in Emails, NEW v, users' = [users EXCEPT ![e] = v], Valid(v)
        PROVE  CanSignIn'
    BY <2>0, <2>2 DEF CanSignIn
  <2>3. ASSUME NEW p \in Procs, InsertUser(p) PROVE CanSignIn'
    <3> DEFINE r == proc[p]
               new == [role |-> r.role, google |-> r.google, password |-> r.op # "google"]
    <3>1. r.email \in Emails
      BY <2>3 DEF InsertUser, At, Typed, Shaped
    <3>2. users' = users \/ (users' = [users EXCEPT ![r.email] = new] /\ Valid(new))
      <4>1. CASE users[r.email] = NoUser
        BY <2>3, <4>1 DEF InsertUser
      <4>2. CASE users[r.email] # NoUser
        BY <2>3, <4>2 DEF InsertUser
      <4> QED BY <4>1, <4>2
    <3> HIDE DEF new
    <3> QED BY <2>1, <2>2, <3>1, <3>2
  <2>4. ASSUME NEW p \in Procs, SaveUser(p) PROVE CanSignIn'
    <3> DEFINE r == proc[p]
               e == r.email
               u == r.user
               new == Changed(r, u)
               w == Written(users[e], u, new)
    <3>0. r \in Handlers /\ Shaped(r) /\ Backed(r, requests, users)
             /\ r.op \in WritesUser /\ r.pc = "save"
      BY <2>4 DEF SaveUser, At, Typed
    <3>1. PICK v \in Users :
             /\ e \in Emails /\ users[e] \in Users /\ u \in Users
             /\ users' = [users EXCEPT ![e] = v]
             /\ v = users[e] \/ (v = w /\ Valid(new))
      BY <2>4, Saved
    <3>2. Valid(users[e])
      <4>1. users[e] # NoUser
        BY <3>1, Missing
      <4> QED BY <3>1, <4>1 DEF CanSignIn
    <3>3. /\ w.password = IF r.op = "change" /\ u.password = FALSE THEN TRUE
                          ELSE users[e].password
          /\ w.google = IF new.google # u.google THEN new.google ELSE users[e].google
      BY <3>0, <3>1, PasswordKept
    <3>4. Valid(new) => Valid(w)
      <4> HIDE DEF w
      <4>1. CASE r.op = "unlink"
        <5>1. new.password = u.password /\ new.google = NoGoogle
          BY <3>1, <4>1 DEF Changed, Users
        <5>2. u.password = TRUE => users[e].password = TRUE
          BY <3>0 DEF Backed
        <5> QED BY <3>1, <3>3, <4>1, <5>1, <5>2 DEF Valid, Users
      <4>2. CASE r.op \in {"link", "google"}
        <5>1. new.google = r.google /\ r.google # NoGoogle
          BY <3>0, <3>1, <4>2, Missing DEF Changed, Users, Shaped, Handlers
        <5> HIDE DEF new
        <5> QED BY <3>2, <3>3, <4>2, <5>1 DEF Valid
      <4>3. CASE r.op = "change"
        <5>1. new.google = u.google
          BY <3>1, <4>3 DEF Changed, Users
        <5> HIDE DEF new
        <5> QED BY <3>2, <3>3, <4>3, <5>1 DEF Valid
      <4> QED BY <3>0, <4>1, <4>2, <4>3 DEF WritesUser, WritesLink
    <3> HIDE DEF new, w
    <3> QED BY <2>2, <3>1, <3>2, <3>4
  <2> QED BY <2>1, <2>3, <2>4, UsersWrites
<1> QED BY <1>1, <1>2, AlwaysTyped, PTL DEF Spec

(* --------------------------- Links that are kept -------------------------- *)

Links(r) == r.op \in WritesLink

\* Two handlers that write the link of one user are counted as a race.
SoleLinks == \A p, q \in Procs :
    p # q /\ Links(proc[p]) /\ Links(proc[q]) /\ proc[p].email = proc[q].email
        => proc[p].email \in raced

\* A handler that is about to link a user to a Google account found it without one.
FoundUnlinked(r, us, ra) ==
    \/ r.op = "link" /\ r.pc \in {"linked", "reread", "save"}
    \/ r.op = "google" /\ r.pc \in {"reread", "save"}
    => r.email \in ra \/ (us[r.email] # NoUser /\ us[r.email].google = NoGoogle)

AllUnlinked == \A p \in Procs : FoundUnlinked(proc[p], users, raced)

\* Races are never taken back, and only handler p may change a link.
OnlyLinks(p) ==
    /\ raced \subseteq raced'
    /\ \A e \in Emails : users[e] # NoUser =>
           /\ users'[e] # NoUser
           /\ users'[e].google # users[e].google => Links(proc[p]) /\ e = proc[p].email

LEMMA LinksAdvanced ==
    ASSUME Typed, SoleLinks, AllUnlinked, NEW p \in Procs, OnlyLinks(p), NEW r,
           proc' = [proc EXCEPT ![p] = r], FoundUnlinked(r, users', raced'),
           Links(r) => \A q \in Procs : q # p /\ Links(proc[q]) /\ proc[q].email = r.email
                           => r.email \in raced'
    PROVE  SoleLinks' /\ AllUnlinked'
<1>1. proc'[p] = r /\ \A q \in Procs : q # p => proc'[q] = proc[q]
  BY DEF Typed
<1>2. SoleLinks'
  <2> SUFFICES ASSUME NEW q \in Procs, NEW s \in Procs, q # s, Links(proc'[q]), Links(proc'[s]),
                      proc'[q].email = proc'[s].email
               PROVE  proc'[q].email \in raced'
    BY DEF SoleLinks, Links
  <2>1. CASE q = p
    BY <1>1, <2>1
  <2>2. CASE s = p
    BY <1>1, <2>2
  <2>3. CASE q # p /\ s # p
    BY <1>1, <2>3 DEF SoleLinks, OnlyLinks
  <2> QED BY <2>1, <2>2, <2>3
<1>3. ASSUME NEW q \in Procs PROVE FoundUnlinked(proc'[q], users', raced')
  <2>1. CASE q = p
    BY <1>1, <2>1
  <2>2. CASE q # p
    <3> DEFINE h == proc[q]
    <3>1. Shaped(h) /\ FoundUnlinked(h, users, raced)
      BY DEF Typed, AllUnlinked
    <3>2. Links(h) => h.email \in Emails
      BY <3>1 DEF Shaped, Links, WritesLink
    <3>3. Links(h) /\ h.email \notin raced' /\ users[h.email] # NoUser
              => users'[h.email] # NoUser /\ users'[h.email].google = users[h.email].google
      BY <2>2, <3>2 DEF SoleLinks, OnlyLinks
    <3>4. h.email \notin raced' => h.email \notin raced
      BY DEF OnlyLinks
    <3>5. proc'[q] = h
      BY <1>1, <2>2
    <3> HIDE DEF h
    <3> QED BY <3>1, <3>3, <3>4, <3>5 DEF FoundUnlinked, Links, WritesLink
  <2> QED BY <2>1, <2>2
<1> QED BY <1>2, <1>3 DEF AllUnlinked

\* A request that begins has found nothing yet.
LEMMA LinksBegin ==
    ASSUME Typed, SoleLinks, AllUnlinked, NEW p \in Procs, Call(p)
    PROVE  SoleLinks' /\ AllUnlinked'
<1>1. ASSUME NEW r, Start(p, r), r.pc # "linked" \/ r.op # "link", r.pc \notin {"reread", "save"}
      PROVE  SoleLinks' /\ AllUnlinked'
  <2>1. OnlyLinks(p) /\ proc' = [proc EXCEPT ![p] = r]
    BY <1>1 DEF Start, OnlyLinks
  <2>2. ASSUME Links(r), NEW q \in Procs, q # p, Links(proc[q]), proc[q].email = r.email
        PROVE  r.email \in raced'
    <3>1. Races(r, proc[q])
      BY <2>2 DEF Races, Links
    <3> QED BY <1>1, <3>1 DEF Start
  <2>3. FoundUnlinked(r, users', raced')
    BY <1>1 DEF FoundUnlinked
  <2> QED BY <2>1, <2>2, <2>3, LinksAdvanced
<1>2. ASSUME NEW e \in Emails,
             \/ StartCreate(p, e) \/ StartCancel(p, e) \/ StartRegister(p, e) \/ StartTotp(p, e)
             \/ StartUnlink(p, e) \/ \E dto \in Dtos : StartUpdate(p, e, dto)
      PROVE  SoleLinks' /\ AllUnlinked'
  BY <1>1, <1>2 DEF StartCreate, StartCancel, StartRegister, StartTotp, StartUnlink,
     StartUpdate, Idle
<1>3. ASSUME NEW e \in Emails, NEW g \in Googles, StartLink(p, e, g) \/ StartGoogle(p, e, g)
      PROVE  SoleLinks' /\ AllUnlinked'
  BY <1>1, <1>3 DEF StartLink, StartGoogle, Idle
<1>4. ASSUME NEW e \in Emails, NEW t \in Tokens, StartReset(p, e, t)
      PROVE  SoleLinks' /\ AllUnlinked'
  BY <1>1, <1>4 DEF StartReset, Idle
<1>5. ASSUME NEW t \in Tokens, StartChange(p, t) PROVE SoleLinks' /\ AllUnlinked'
  BY <1>1, <1>5 DEF StartChange, Idle
<1> QED BY <1>2, <1>3, <1>4, <1>5 DEF Call

\* What saving and inserting do to a link.
LEMMA LinkWrites ==
    ASSUME Typed, NEW p \in Procs, InsertUser(p) \/ SaveUser(p), NEW e \in Emails, users[e] # NoUser,
           users'[e].google # users[e].google
    PROVE  /\ SaveUser(p) /\ Links(proc[p]) /\ e = proc[p].email
           /\ proc[p].op = "unlink" => users'[e].google = NoGoogle
<1> DEFINE h == proc[p]
           u == h.user
           new == Changed(h, u)
<1>1. ~InsertUser(p)
  <2> SUFFICES ASSUME InsertUser(p) PROVE FALSE
    OBVIOUS
  <2>1. h.email # e => users'[e] = users[e]
    BY DEF InsertUser, Typed, Stored
  <2>2. h.email = e => users' = users
    BY DEF InsertUser
  <2> QED BY <2>1, <2>2
<1>2. /\ h \in Handlers /\ h.op \in WritesUser
  BY <1>1 DEF Typed, SaveUser, At
<1>3. PICK v \in Users : /\ h.email \in Emails /\ users[h.email] \in Users /\ u \in Users
                         /\ users' = [users EXCEPT ![h.email] = v]
                         /\ v = users[h.email] \/ v = Written(users[h.email], u, new)
  BY <1>1, Saved
<1>4. e = h.email /\ users'[e] = v /\ v # users[e]
  BY <1>3 DEF Typed, Stored
<1>5. v.google = IF new.google # u.google THEN new.google ELSE users[e].google
  <2>1. users[e] \in Users /\ v = Written(users[e], u, new)
    BY <1>3, <1>4
  <2>2. Written(users[e], u, new).google
            = IF new.google # u.google THEN new.google ELSE users[e].google
    BY <1>2, <1>3, <2>1, PasswordKept
  <2> HIDE DEF new
  <2> QED BY <2>1, <2>2
<1>6. h.op = "change" => new.google = u.google
  BY <1>3 DEF Changed, Users
<1>7. h.op = "unlink" => new.google = NoGoogle
  BY <1>3 DEF Changed, Users
<1> HIDE DEF new
<1> QED BY <1>1, <1>2, <1>4, <1>5, <1>6, <1>7 DEF Links, WritesUser

\* Where a step leads its handler, which keeps its operation and its address.
LEMMA LinksGoOn ==
    ASSUME Typed, AllUnlinked, NEW p \in Procs, Step(p), ~Finish(p)
    PROVE  \E r : /\ Go(p, r) /\ r.op = proc[p].op
                  /\ Links(r) => r.email = proc[p].email
                  /\ FoundUnlinked(r, users', raced')
<1> DEFINE h == proc[p]
<1>0. h \in Handlers /\ FoundUnlinked(h, users, raced)
  BY DEF Typed, AllUnlinked
<1>1. CASE ReadRequest(p)
  <2> WITNESS [h EXCEPT !.pc = "save", !.old = requests[h.email]]
  <2> QED BY <1>0, <1>1 DEF ReadRequest, At, WritesRequest, FoundUnlinked, Handlers
<1>2. CASE GetApprovedRequest(p)
  <2> WITNESS [h EXCEPT !.pc = "find", !.role = requests[h.email].role]
  <2> QED BY <1>0, <1>2 DEF GetApprovedRequest, FoundUnlinked, Handlers
<1>3. CASE Reread(p)
  <2> WITNESS [h EXCEPT !.pc = "save", !.user = users[h.email]]
  <2> QED BY <1>0, <1>3 DEF Reread, At, Go, FoundUnlinked, Handlers
<1>4. CASE Consume(p)
  <2> WITNESS [h EXCEPT !.pc = "owner", !.email = tokens[h.token]]
  <2> QED BY <1>0, <1>4 DEF Consume, At, FoundUnlinked, Links, WritesLink, Handlers
<1>5. ASSUME NEW pc, GoTo(p, pc),
             pc \in {"reread", "linked", "save"} /\ h.op \in {"link", "google"} =>
                 \/ users' = users /\ users[h.email] # NoUser /\ users[h.email].google = NoGoogle
                 \/ h.email \in raced
      PROVE  \E r : /\ Go(p, r) /\ r.op = h.op
                    /\ Links(r) => r.email = h.email
                    /\ FoundUnlinked(r, users', raced')
  <2> DEFINE r == [h EXCEPT !.pc = pc]
  <2>1. Go(p, r) /\ r.op = h.op /\ r.email = h.email /\ r.pc = pc /\ raced' = raced
    BY <1>0, <1>5 DEF GoTo, Go, Handlers
  <2> HIDE DEF r
  <2>2. FoundUnlinked(r, users', raced')
    BY <1>5, <2>1 DEF FoundUnlinked
  <2> QED BY <2>1, <2>2
<1>6. CASE FindUser(p)
  BY <1>5, <1>6 DEF FindUser
<1>7. CASE InsertUser(p)
  BY <1>5, <1>7 DEF InsertUser
<1>8. CASE FindOwner(p)
  BY <1>5, <1>8 DEF FindOwner, At
<1>9. CASE ReadUser(p)
  <2>1. Backed(h, requests, users)
    BY DEF Typed
  <2>2. users[h.email] # NoUser /\ users' = users
    BY <1>9, <2>1 DEF ReadUser, At, Backed
  <2>3. CASE h.op = "link" /\ users[h.email].google = NoGoogle /\ GoTo(p, "linked")
    BY <1>5, <2>2, <2>3
  <2>4. CASE h.op = "unlink" /\ GoTo(p, "reread")
    BY <1>5, <2>4
  <2> QED BY <1>9, <2>3, <2>4 DEF ReadUser
<1>10. CASE FindLinked(p)
  <2>1. h.pc = "linked" /\ users' = users
    BY <1>10 DEF FindLinked, At
  <2>2. CASE h.op = "link" /\ GoTo(p, "reread")
    BY <1>0, <1>5, <2>1, <2>2 DEF FoundUnlinked
  <2>3. CASE h.op = "google" /\ GoTo(p, "byEmail")
    BY <1>5, <2>3
  <2> QED BY <1>10, <2>2, <2>3 DEF FindLinked, At
<1>11. CASE FindByEmail(p)
  <2>1. h.op = "google" /\ users' = users
    BY <1>11 DEF FindByEmail, At
  <2>2. CASE GoTo(p, "approved")
    BY <1>5, <2>2
  <2>3. CASE users[h.email] # NoUser /\ Linkable(users[h.email]) /\ GoTo(p, "reread")
    BY <1>5, <2>1, <2>3 DEF Linkable
  <2> QED BY <1>11, <2>2, <2>3 DEF FindByEmail
<1> QED BY <1>1, <1>2, <1>3, <1>4, <1>6, <1>7, <1>8, <1>9, <1>10, <1>11
        DEF Step, SaveRequest, SaveUser, Issue, Fail

\* A step of handler p, which goes on or ends.
LEMMA LinksMove ==
    ASSUME Typed, SoleLinks, AllUnlinked, NEW p \in Procs, Step(p), OnlyLinks(p)
    PROVE  SoleLinks' /\ AllUnlinked'
<1>1. CASE Finish(p)
  <2>1. ~Links(Idle) /\ FoundUnlinked(Idle, users', raced')
    BY DEF Links, WritesLink, Idle, FoundUnlinked
  <2> QED BY <1>1, <2>1, LinksAdvanced DEF Finish, Go
<1>2. CASE ~Finish(p)
  <2>1. PICK r : /\ Go(p, r) /\ r.op = proc[p].op
                 /\ Links(r) => r.email = proc[p].email
                 /\ FoundUnlinked(r, users', raced')
    BY <1>2, LinksGoOn
  <2>2. Links(r) => \A q \in Procs : q # p /\ Links(proc[q]) /\ proc[q].email = r.email
                        => r.email \in raced'
    BY <2>1 DEF SoleLinks, Links, OnlyLinks
  <2>3. proc' = [proc EXCEPT ![p] = r]
    BY <2>1 DEF Go
  <2> QED BY <2>1, <2>2, <2>3, LinksAdvanced
<1> QED BY <1>1, <1>2

LEMMA LinksStep ==
    ASSUME Typed, SoleLinks, AllUnlinked, [Next]_vars
    PROVE  SoleLinks' /\ AllUnlinked'
<1>1. ASSUME NEW p \in Procs, Step(p) PROVE SoleLinks' /\ AllUnlinked'
  <2>1. raced' = raced
    BY <1>1 DEF Step, ReadRequest, SaveRequest, GetApprovedRequest, FindUser, InsertUser, ReadUser,
       FindLinked, FindByEmail, Reread, SaveUser, FindOwner, Issue, Consume, Fail, Finish, GoTo, Go
  <2>2. CASE InsertUser(p) \/ SaveUser(p)
    <3>1. \A e \in Emails : users[e] # NoUser => users'[e] # NoUser
      <4>1. CASE InsertUser(p)
        BY <4>1, Missing DEF InsertUser, Typed, Stored
      <4>2. CASE SaveUser(p)
        <5>1. PICK v \in Users : /\ proc[p].email \in Emails
                                 /\ users' = [users EXCEPT ![proc[p].email] = v]
          BY <4>2, Saved
        <5> QED BY <5>1, Missing DEF Typed, Stored
      <4> QED BY <2>2, <4>1, <4>2
    <3>2. OnlyLinks(p)
      BY <2>1, <2>2, <3>1, LinkWrites DEF OnlyLinks
    <3> QED BY <1>1, <3>2, LinksMove
  <2>3. CASE ~InsertUser(p) /\ ~SaveUser(p)
    <3>1. users' = users
      BY <1>1, <2>3 DEF Step, ReadRequest, SaveRequest, GetApprovedRequest, FindUser, ReadUser,
         FindLinked, FindByEmail, Reread, FindOwner, Issue, Consume, Fail
    <3>2. OnlyLinks(p)
      BY <2>1, <3>1 DEF OnlyLinks
    <3> QED BY <1>1, <3>2, LinksMove
  <2> QED BY <2>2, <2>3
<1>2. ASSUME NEW t \in Tokens, Expire(t) PROVE SoleLinks' /\ AllUnlinked'
  BY <1>2 DEF Expire, SoleLinks, AllUnlinked
<1>3. CASE UNCHANGED vars
  BY <1>3 DEF vars, SoleLinks, AllUnlinked
<1> QED BY <1>1, <1>2, <1>3, LinksBegin DEF Next

(* A link to a Google account is never replaced by another one, whatever else   *)
(* goes on, unless two requests about the links of one user ran at once: both   *)
(* linkAccount and the sign-in look at the user again only to save it.          *)
THEOREM LinksAreKept == Spec => LinkKept
<1> DEFINE Keeps == \A e \in Emails \ raced' : users[e] # NoUser /\ users[e].google \in Googles =>
                        users'[e].google \in {users[e].google, NoGoogle}
<1>1. Init => SoleLinks /\ AllUnlinked
  BY DEF Init, SoleLinks, AllUnlinked, Links, WritesLink, FoundUnlinked, Idle
<1>2. Typed /\ SoleLinks /\ AllUnlinked /\ [Next]_vars => SoleLinks' /\ AllUnlinked'
  BY LinksStep
<1>3. Typed /\ AllUnlinked /\ [Next]_vars => [Keeps]_vars
  <2> SUFFICES ASSUME Typed, AllUnlinked, [Next]_vars, NEW e \in Emails, e \notin raced',
                      users[e] # NoUser, users[e].google \in Googles,
                      users'[e].google # users[e].google
               PROVE  users'[e].google = NoGoogle
    OBVIOUS
  <2>1. PICK p \in Procs : InsertUser(p) \/ SaveUser(p)
    BY UsersWrites
  <2>2. /\ SaveUser(p) /\ Links(proc[p]) /\ e = proc[p].email
        /\ proc[p].op = "unlink" => users'[e].google = NoGoogle
    BY <2>1, LinkWrites
  <2>3. raced' = raced /\ proc[p].pc = "save" /\ FoundUnlinked(proc[p], users, raced)
    BY <2>2 DEF SaveUser, At, Finish, Go, AllUnlinked
  <2> QED BY <2>2, <2>3, Missing DEF Links, WritesLink, FoundUnlinked
<1> QED BY <1>1, <1>2, <1>3, AlwaysTyped, PTL DEF Spec, LinkKept

-----------------------------------------------------------------------------
(* Who is let in: a role is one that was granted, an address that was shut out *)
(* stays rejected, and a reset token changes one password.                     *)
(*                                                                             *)
(* Of an address whose decisions never overlapped, at most one handler writes   *)
(* the request (Sole), so the document it saves is the one it decided about     *)
(* (Sound); what is stored then follows from what was read (Judgements).        *)

Writes(r) == r.op \in WritesRequest

\* Two handlers that write the request of one address are counted as a race.
Sole == \A p, q \in Procs :
    p # q /\ Writes(proc[p]) /\ Writes(proc[q]) /\ proc[p].email = proc[q].email
        => proc[p].email \in raced

\* What a handler knows of the stored documents, and what let it get so far.
Sound(r, reqs, us, gr, ra) ==
    /\ Writes(r) /\ r.pc = "save" /\ r.email \notin ra => r.old = reqs[r.email]
    /\ r.op = "create" /\ r.pc = "save" /\ r.old # NoRequest => r.old.black = FALSE
    /\ r.op = "cancel" /\ r.pc = "save" => r.old # NoRequest /\ r.old.status = "Pending"
    /\ r.op = "update" => ~(r.dto.approve = TRUE /\ r.dto.black = TRUE)
    /\ r.op = "totp" => r.role = AdminRole /\ AdminRole \in gr[r.email]
    /\ r.op = "totp" /\ r.pc \in {"request", "save"} => us[r.email] # NoUser
    /\ r.op \in {"register", "google"} /\ r.pc \in {"find", "insert"} /\ r.email \notin ra
           => r.role \in gr[r.email]

AllSound == \A p \in Procs : Sound(proc[p], requests, users, granted, raced)

\* What a stored request may say.
Judgement(e) ==
    requests[e] # NoRequest =>
        /\ requests[e].status = "Approved" => requests[e].role \in granted[e]
        /\ requests[e].black = TRUE => requests[e].status = "Rejected" \/ users[e] # NoUser
Judgements == \A e \in Emails \ raced : Judgement(e)

Decisions == Sole /\ AllSound /\ Judgements /\ RoleGranted

\* Races, roles and users are never taken back.
Grown == /\ raced \subseteq raced'
         /\ \A e \in Emails : granted[e] \subseteq granted'[e]
         /\ \A e \in Emails : users[e] # NoUser => users'[e] # NoUser

LEMMA StillSound ==
    ASSUME Typed, Grown, NEW h \in Handlers, Shaped(h), Sound(h, requests, users, granted, raced),
           Writes(h) /\ h.email \notin raced' => requests'[h.email] = requests[h.email]
    PROVE  Sound(h, requests', users', granted', raced')
<1>1. h.op \in {"totp", "register", "google"} => h.email \in Emails
  BY DEF Shaped
<1>2. h.email \notin raced' => h.email \notin raced
  BY DEF Grown
<1>3. h.op \in {"totp", "register", "google"} =>
          /\ granted[h.email] \subseteq granted'[h.email]
          /\ users[h.email] # NoUser => users'[h.email] # NoUser
  BY <1>1 DEF Grown
<1> QED BY <1>2, <1>3 DEF Sound

\* A step of handler p that leaves the others alone.
LEMMA Advanced ==
    ASSUME Typed, Sole, AllSound, Grown, NEW p \in Procs, NEW r,
           proc' = [proc EXCEPT ![p] = r],
           \A e \in Emails : requests'[e] # requests[e] => Writes(proc[p]) /\ e = proc[p].email,
           Sound(r, requests', users', granted', raced'),
           Writes(r) => \A q \in Procs : q # p /\ Writes(proc[q]) /\ proc[q].email = r.email
                            => r.email \in raced'
    PROVE  Sole' /\ AllSound'
<1>1. proc'[p] = r /\ \A q \in Procs : q # p => proc'[q] = proc[q]
  BY DEF Typed
<1>2. Sole'
  <2> SUFFICES ASSUME NEW q \in Procs, NEW s \in Procs, q # s, Writes(proc'[q]), Writes(proc'[s]),
                      proc'[q].email = proc'[s].email
               PROVE  proc'[q].email \in raced'
    BY DEF Sole, Writes
  <2>1. CASE q = p
    BY <1>1, <2>1
  <2>2. CASE s = p
    BY <1>1, <2>2
  <2>3. CASE q # p /\ s # p
    BY <1>1, <2>3 DEF Sole, Grown
  <2> QED BY <2>1, <2>2, <2>3
<1>3. ASSUME NEW q \in Procs PROVE Sound(proc'[q], requests', users', granted', raced')
  <2>1. CASE q = p
    BY <1>1, <2>1
  <2>2. CASE q # p
    <3> DEFINE h == proc[q]
    <3>1. h \in Handlers /\ Shaped(h) /\ Sound(h, requests, users, granted, raced)
      BY DEF Typed, AllSound
    <3>2. Writes(h) => h.email \in Emails
      BY <3>1 DEF Shaped, Writes, WritesRequest
    <3>3. Writes(h) /\ h.email \notin raced' => requests'[h.email] = requests[h.email]
      BY <2>2, <3>2 DEF Sole, Grown
    <3>4. proc'[q] = h
      BY <1>1, <2>2
    <3> HIDE DEF h
    <3> QED BY <3>1, <3>3, <3>4, StillSound
  <2> QED BY <2>1, <2>2
<1> QED BY <1>2, <1>3 DEF AllSound

LEMMA IdleSound == \A x, y, z, w : Sound(Idle, x, y, z, w)
BY DEF Idle, Sound, Writes, WritesRequest

LEMMA Finished ==
    ASSUME Typed, Sole, AllSound, Grown, NEW p \in Procs, Finish(p),
           \A e \in Emails : requests'[e] # requests[e] => Writes(proc[p]) /\ e = proc[p].email
    PROVE  Sole' /\ AllSound'
<1>1. ~Writes(Idle)
  BY DEF Writes, WritesRequest, Idle
<1> QED BY <1>1, IdleSound, Advanced DEF Finish, Go

\* A handler that goes on writes what it wrote.
LEMMA Continued ==
    ASSUME Typed, Sole, AllSound, Grown, NEW p \in Procs, NEW r, Go(p, r),
           requests' = requests, r.email = proc[p].email, Writes(r) => Writes(proc[p]),
           Sound(r, requests', users', granted', raced')
    PROVE  Sole' /\ AllSound'
<1>1. Writes(r) => \A q \in Procs : q # p /\ Writes(proc[q]) /\ proc[q].email = r.email
                       => r.email \in raced'
  BY DEF Sole, Grown
<1> QED BY <1>1, Advanced DEF Go

LEMMA Begun ==
    ASSUME Typed, Decisions, NEW p \in Procs, NEW r, Start(p, r),
           Sound(r, requests, users, granted', raced'),
           \A e \in Emails : granted[e] \subseteq granted'[e]
    PROVE  Decisions'
<1>1. Grown /\ requests' = requests /\ users' = users /\ proc' = [proc EXCEPT ![p] = r]
  BY DEF Start, Grown
<1>2. ASSUME Writes(r), NEW q \in Procs, q # p, Writes(proc[q]), proc[q].email = r.email
      PROVE  r.email \in raced'
  <2>1. Races(r, proc[q])
    BY <1>2 DEF Races, Writes
  <2> QED BY <2>1 DEF Start
<1>3. Sole' /\ AllSound'
  BY <1>1, <1>2, Advanced DEF Decisions
<1>4. Judgements' /\ RoleGranted'
  BY <1>1 DEF Decisions, Judgements, Judgement, RoleGranted, Grown
<1> QED BY <1>3, <1>4 DEF Decisions

\* A handler that neither writes a request nor is about to insert a user.
Aside(r) == ~Writes(r) /\ (r.op \in {"register", "google"} => r.pc \notin {"find", "insert"})

LEMMA AsideSound == \A r : Aside(r) => \A x, y, z, w : Sound(r, x, y, z, w)
BY DEF Aside, Sound, Writes, WritesRequest

(* ------------------------------- The calls ------------------------------- *)

\* The calls of the services that do not decide about a request.
AsideCall(p) ==
    \/ \E e \in Emails : \/ StartRegister(p, e) \/ StartUnlink(p, e)
                         \/ \E g \in Googles : StartLink(p, e, g) \/ StartGoogle(p, e, g)
                         \/ \E t \in Tokens : StartReset(p, e, t)
    \/ \E t \in Tokens : StartChange(p, t)

LEMMA Asides ==
    ASSUME NEW p \in Procs, AsideCall(p)
    PROVE  \E r : Start(p, r) /\ Aside(r) /\ granted' = granted
<1> USE DEF Aside, Writes, WritesRequest, Idle
<1>1. ASSUME NEW e \in Emails, StartRegister(p, e)
      PROVE  \E r : Start(p, r) /\ Aside(r) /\ granted' = granted
  <2> WITNESS [Idle EXCEPT !.op = "register", !.pc = "approved", !.email = e]
  <2> QED BY <1>1 DEF StartRegister
<1>2. ASSUME NEW e \in Emails, StartUnlink(p, e)
      PROVE  \E r : Start(p, r) /\ Aside(r) /\ granted' = granted
  <2> WITNESS [Idle EXCEPT !.op = "unlink", !.pc = "read", !.email = e]
  <2> QED BY <1>2 DEF StartUnlink
<1>3. ASSUME NEW e \in Emails, NEW g \in Googles, StartLink(p, e, g)
      PROVE  \E r : Start(p, r) /\ Aside(r) /\ granted' = granted
  <2> WITNESS [Idle EXCEPT !.op = "link", !.pc = "read", !.email = e, !.google = g]
  <2> QED BY <1>3 DEF StartLink
<1>4. ASSUME NEW e \in Emails, NEW g \in Googles, StartGoogle(p, e, g)
      PROVE  \E r : Start(p, r) /\ Aside(r) /\ granted' = granted
  <2> WITNESS [Idle EXCEPT !.op = "google", !.pc = "linked", !.email = e, !.google = g]
  <2> QED BY <1>4 DEF StartGoogle
<1>5. ASSUME NEW e \in Emails, NEW t \in Tokens, StartReset(p, e, t)
      PROVE  \E r : Start(p, r) /\ Aside(r) /\ granted' = granted
  <2> WITNESS [Idle EXCEPT !.op = "reset", !.pc = "owner", !.email = e, !.token = t]
  <2> QED BY <1>5 DEF StartReset
<1>6. ASSUME NEW t \in Tokens, StartChange(p, t)
      PROVE  \E r : Start(p, r) /\ Aside(r) /\ granted' = granted
  <2> WITNESS [Idle EXCEPT !.op = "change", !.pc = "consume", !.token = t]
  <2> QED BY <1>6 DEF StartChange
<1> HIDE DEF Aside, Writes, WritesRequest, Idle
<1> QED BY <1>1, <1>2, <1>3, <1>4, <1>5, <1>6 DEF AsideCall

LEMMA CallDecides ==
    ASSUME Typed, Decisions, NEW p \in Procs, Call(p)
    PROVE  Decisions'
<1>0. granted \in [Emails -> SUBSET Roles]
  BY DEF Typed, Stored
<1>1. ASSUME NEW r, Start(p, r), Aside(r), granted' = granted PROVE Decisions'
  BY <1>1, AsideSound, Begun
<1>2. ASSUME NEW e \in Emails, StartCreate(p, e) PROVE Decisions'
  <2> DEFINE r == [Idle EXCEPT !.op = "create", !.pc = "request", !.email = e]
  <2>1. Start(p, r) /\ granted' = granted
    BY <1>2 DEF StartCreate
  <2>2. Sound(r, requests, users, granted', raced')
    BY DEF Sound, Idle
  <2> HIDE DEF r
  <2> QED BY <2>1, <2>2, Begun
<1>3. ASSUME NEW e \in Emails, StartCancel(p, e) PROVE Decisions'
  <2> DEFINE r == [Idle EXCEPT !.op = "cancel", !.pc = "request", !.email = e]
  <2>1. Start(p, r) /\ granted' = granted
    BY <1>3 DEF StartCancel
  <2>2. Sound(r, requests, users, granted', raced')
    BY DEF Sound, Idle
  <2> HIDE DEF r
  <2> QED BY <2>1, <2>2, Begun
<1>4. ASSUME NEW e \in Emails, NEW dto \in Dtos, StartUpdate(p, e, dto) PROVE Decisions'
  <2> DEFINE r == [Idle EXCEPT !.op = "update", !.pc = "request", !.email = e, !.dto = dto]
  <2>1. Start(p, r) /\ granted' = granted
    BY <1>4 DEF StartUpdate
  <2>2. ~(dto.approve = TRUE /\ dto.black = TRUE)
    BY <1>4 DEF StartUpdate
  <2>3. Sound(r, requests, users, granted', raced')
    BY <2>2 DEF Sound, Idle
  <2> HIDE DEF r
  <2> QED BY <2>1, <2>3, Begun
<1>5. ASSUME NEW e \in Emails, StartTotp(p, e) PROVE Decisions'
  <2> DEFINE r == [Idle EXCEPT !.op = "totp", !.pc = "find", !.email = e, !.role = AdminRole]
  <2>1. Start(p, r) /\ granted' = [granted EXCEPT ![e] = @ \cup {AdminRole}]
    BY <1>5 DEF StartTotp
  <2>2. AdminRole \in granted'[e] /\ \A f \in Emails : granted[f] \subseteq granted'[f]
    BY <1>0, <2>1
  <2>3. Sound(r, requests, users, granted', raced')
    BY <2>2 DEF Sound, Idle
  <2> HIDE DEF r
  <2> QED BY <2>1, <2>2, <2>3, Begun
<1>6. ASSUME AsideCall(p) PROVE Decisions'
  BY <1>1, <1>6, Asides
<1> QED
  BY <1>2, <1>3, <1>4, <1>5, <1>6 DEF Call, AsideCall

(* ------------------ The steps that read and decide ------------------------ *)

\* A step that changes its handler only.
LEMMA ReadDecides ==
    ASSUME Typed, Decisions, NEW p \in Procs, NEW r, Go(p, r),
           UNCHANGED <<requests, users, granted>>,
           r = Idle \/ (r.email = proc[p].email /\ (Writes(r) => Writes(proc[p]))),
           Sound(r, requests, users, granted, raced)
    PROVE  Decisions'
<1>1. Grown
  BY DEF Go, Grown
<1>2. Judgements' /\ RoleGranted'
  BY DEF Decisions, Judgements, Judgement, RoleGranted, Go
<1>3. Sound(r, requests', users', granted', raced')
  BY DEF Go
<1>4. CASE r = Idle
  BY <1>1, <1>2, <1>4, Finished DEF Finish, Decisions
<1>5. CASE r.email = proc[p].email /\ (Writes(r) => Writes(proc[p]))
  BY <1>1, <1>2, <1>3, <1>5, Continued DEF Decisions
<1> QED BY <1>4, <1>5

LEMMA ReadRequestDecides ==
    ASSUME Typed, Decisions, NEW p \in Procs, ReadRequest(p)
    PROVE  Decisions'
<1> DEFINE h == proc[p]
           e == h.email
           q == requests[e]
           r == [h EXCEPT !.pc = "save", !.old = q]
<1>0. /\ h \in Handlers /\ Shaped(h) /\ h.op \in WritesRequest /\ h.pc = "request"
      /\ Sound(h, requests, users, granted, raced)
  BY DEF Typed, Decisions, AllSound, ReadRequest, At
<1>1. UNCHANGED <<requests, users, granted>>
  BY DEF ReadRequest
<1>2. CASE Finish(p)
  BY <1>1, <1>2, IdleSound, ReadDecides DEF Finish
<1>3. CASE Go(p, r) /\ ~Finish(p)
  <2>1. e \in Emails /\ q \in Requests \cup {NoRequest}
    BY <1>0 DEF Shaped, WritesRequest, Typed, Stored
  <2>2. /\ q = NoRequest => h.op \in {"create", "totp"}
        /\ q # NoRequest /\ h.op = "create" => Reopens(q)
        /\ q # NoRequest /\ h.op = "cancel" => q.status = "Pending"
    BY <1>3 DEF ReadRequest
  <2>3. q # NoRequest /\ h.op = "create" => q.black = FALSE
    BY <2>1, <2>2 DEF Reopens, Requests
  <2>4. /\ r.op = h.op /\ r.pc = "save" /\ r.email = h.email /\ r.dto = h.dto /\ r.role = h.role
        /\ r.old = q
    BY <1>0 DEF Handlers
  <2> HIDE DEF r, q
  <2>5. Sound(r, requests, users, granted, raced)
    BY <1>0, <2>2, <2>3, <2>4 DEF Sound, Writes, WritesRequest, q
  <2> QED BY <1>1, <1>3, <2>4, <2>5, ReadDecides DEF Writes
<1> QED BY <1>2, <1>3 DEF ReadRequest

LEMMA ApprovedDecides ==
    ASSUME Typed, Decisions, NEW p \in Procs, GetApprovedRequest(p)
    PROVE  Decisions'
<1> DEFINE h == proc[p]
           e == h.email
           r == [h EXCEPT !.pc = "find", !.role = requests[e].role]
<1>0. h \in Handlers /\ Shaped(h) /\ h.op \in {"register", "google"}
  BY DEF Typed, GetApprovedRequest, At
<1>1. UNCHANGED <<requests, users, granted>>
  BY DEF GetApprovedRequest
<1>2. CASE Finish(p)
  BY <1>1, <1>2, IdleSound, ReadDecides DEF Finish
<1>3. CASE Go(p, r) /\ Approves(requests[e])
  <2>1. e \in Emails
    BY <1>0 DEF Shaped
  <2>2. e \notin raced => requests[e].role \in granted[e]
    BY <1>3, <2>1 DEF Approves, Decisions, Judgements, Judgement
  <2>3. r.op = h.op /\ r.pc = "find" /\ r.email = e /\ r.role = requests[e].role
    BY <1>0 DEF Handlers
  <2> HIDE DEF r
  <2>4. Sound(r, requests, users, granted, raced) /\ ~Writes(r)
    BY <1>0, <2>2, <2>3 DEF Sound, Writes, WritesRequest
  <2> QED BY <1>1, <1>3, <2>3, <2>4, ReadDecides
<1> QED BY <1>2, <1>3 DEF GetApprovedRequest

LEMMA FindUserDecides ==
    ASSUME Typed, Decisions, NEW p \in Procs, FindUser(p)
    PROVE  Decisions'
<1> DEFINE h == proc[p]
           r == [h EXCEPT !.pc = "insert"]
<1>0. /\ h \in Handlers /\ h.op \in {"register", "google", "totp"} /\ h.pc = "find"
      /\ Sound(h, requests, users, granted, raced)
  BY DEF Typed, Decisions, AllSound, FindUser, At
<1>1. UNCHANGED <<requests, users, granted>>
  BY DEF FindUser
<1>2. CASE Finish(p)
  BY <1>1, <1>2, IdleSound, ReadDecides DEF Finish
<1>3. CASE Go(p, r)
  <2>1. r.op = h.op /\ r.pc = "insert" /\ r.email = h.email /\ r.role = h.role
    BY <1>0 DEF Handlers
  <2> HIDE DEF r
  <2>2. Sound(r, requests, users, granted, raced)
    BY <1>0, <2>1 DEF Sound, Writes, WritesRequest
  <2> QED BY <1>1, <1>3, <2>1, <2>2, ReadDecides DEF Writes
<1> QED BY <1>2, <1>3 DEF FindUser, GoTo

\* The steps of the handlers that only read what these decisions are about.
LEMMA AsideDecides ==
    ASSUME Typed, Decisions, NEW p \in Procs,
           \/ ReadUser(p) \/ FindLinked(p) \/ FindByEmail(p) \/ Reread(p) \/ FindOwner(p)
           \/ Fail(p)
    PROVE  Decisions'
<1> DEFINE h == proc[p]
<1>0. h \in Handlers
  BY DEF Typed
<1>1. UNCHANGED <<requests, users, granted>>
  BY DEF ReadUser, FindLinked, FindByEmail, Reread, FindOwner, Fail
<1>2. CASE Finish(p)
  BY <1>1, <1>2, IdleSound, ReadDecides DEF Finish
<1>3. ASSUME NEW pc \in {"linked", "reread", "byEmail", "approved", "issue"},
             h.op \in {"link", "unlink", "google", "reset", "change"}, GoTo(p, pc)
      PROVE  Decisions'
  <2> DEFINE r == [h EXCEPT !.pc = pc]
  <2>1. r.op = h.op /\ r.pc = pc /\ r.email = h.email /\ Go(p, r)
    BY <1>0, <1>3 DEF Handlers, GoTo
  <2> HIDE DEF r
  <2>2. Aside(r) /\ ~Writes(r)
    BY <1>3, <2>1 DEF Aside, Writes, WritesRequest
  <2> QED BY <1>1, <2>1, <2>2, AsideSound, ReadDecides
<1>4. CASE Reread(p)
  <2> DEFINE r == [h EXCEPT !.pc = "save", !.user = users[h.email]]
  <2>1. r.op = h.op /\ r.pc = "save" /\ r.email = h.email /\ Go(p, r)
    BY <1>0, <1>4 DEF Handlers, Reread
  <2>2. h.op \in WritesUser
    BY <1>4 DEF Reread, At
  <2> HIDE DEF r
  <2>3. Aside(r) /\ ~Writes(r)
    BY <2>1, <2>2 DEF Aside, Writes, WritesRequest, WritesUser, WritesLink
  <2> QED BY <1>1, <2>1, <2>3, AsideSound, ReadDecides
<1>5. CASE ReadUser(p)
  BY <1>2, <1>3, <1>5 DEF ReadUser, At
<1>6. CASE FindLinked(p)
  BY <1>2, <1>3, <1>6 DEF FindLinked, At
<1>7. CASE FindByEmail(p)
  BY <1>2, <1>3, <1>7 DEF FindByEmail, At
<1>8. CASE FindOwner(p)
  BY <1>2, <1>3, <1>8 DEF FindOwner, At
<1> QED BY <1>2, <1>4, <1>5, <1>6, <1>7, <1>8 DEF Fail

(* ------------------------- The steps that write --------------------------- *)

\* What a handler saves that nobody raced with is what it made of the request.
LEMMA Unraced ==
    ASSUME Typed, Decisions, NEW p \in Procs, SaveRequest(p), proc[p].email \notin raced
    PROVE  LET r == proc[p]
               new == IF r.old = NoRequest THEN NewRequest(r) ELSE Decided(r, r.old)
           IN  /\ r.old = requests[r.email]
               /\ requests'[r.email].status = new.status
               /\ requests'[r.email].role = new.role
               /\ requests'[r.email].black = new.black
<1> DEFINE r == proc[p]
           e == r.email
           q == requests[e]
           new == IF r.old = NoRequest THEN NewRequest(r) ELSE Decided(r, r.old)
<1>0. /\ r \in Handlers /\ Shaped(r) /\ r.op \in WritesRequest /\ r.pc = "save"
      /\ Sound(r, requests, users, granted, raced)
  BY DEF Typed, Decisions, AllSound, SaveRequest, At
<1>1. e \in Emails /\ requests \in [Emails -> Requests \cup {NoRequest}]
  BY <1>0 DEF Shaped, WritesRequest, Typed, Stored
<1>2. r.old = q
  BY <1>0 DEF Sound, Writes
<1>3. CASE q = NoRequest
  <2>1. requests'[e] = new
    BY <1>1, <1>2, <1>3 DEF SaveRequest
  <2> QED BY <1>2, <2>1
<1>4. CASE q # NoRequest
  <2>1. requests'[e] = Written(q, q, new)
    BY <1>1, <1>2, <1>4 DEF SaveRequest
  <2>2. DOMAIN q = {"status", "role", "black"}
    BY <1>1, <1>4 DEF Requests
  <2> HIDE DEF q, new
  <2>3. /\ Written(q, q, new).status = new.status /\ Written(q, q, new).role = new.role
        /\ Written(q, q, new).black = new.black
    BY <2>2 DEF Written
  <2> QED BY <1>2, <2>1, <2>3 DEF q, new
<1> QED BY <1>3, <1>4

LEMMA SaveRequestDecides ==
    ASSUME Typed, Decisions, NEW p \in Procs, SaveRequest(p)
    PROVE  Decisions'
<1> DEFINE r == proc[p]
           e == r.email
           q == r.old
           new == IF q = NoRequest THEN NewRequest(r) ELSE Decided(r, q)
<1>0. /\ r \in Handlers /\ Shaped(r) /\ r.op \in WritesRequest /\ r.pc = "save"
      /\ Sound(r, requests, users, granted, raced)
  BY DEF Typed, Decisions, AllSound, SaveRequest, At
<1>1. e \in Emails /\ q \in Requests \cup {NoRequest}
  BY <1>0 DEF Shaped, WritesRequest, Handlers
<1>2. /\ users' = users /\ raced' = raced /\ Finish(p)
      /\ granted' = [granted EXCEPT ![e] = IF r.op = "update" /\ r.dto.approve
                                           THEN @ \cup {new.role} ELSE @]
      /\ \A f \in Emails : f # e => requests'[f] = requests[f]
  BY <1>1 DEF SaveRequest, Finish, Go, Typed, Stored
<1>3. /\ \A f \in Emails : granted[f] \subseteq granted'[f]
      /\ r.op = "update" /\ r.dto.approve = TRUE => new.role \in granted'[e]
  <2> HIDE DEF new
  <2> QED BY <1>1, <1>2 DEF Typed, Stored
<1>4. Grown
  BY <1>2, <1>3 DEF Grown
<1>5. Sole' /\ AllSound'
  BY <1>0, <1>2, <1>4, Finished DEF Decisions, Writes
<1>6. RoleGranted'
  BY <1>2, <1>3 DEF Decisions, RoleGranted
<1>7. ASSUME NEW f \in Emails, f = e, f \notin raced PROVE Judgement(f)'
  <2>1. /\ q = requests[e]
        /\ requests'[e].status = new.status /\ requests'[e].role = new.role
        /\ requests'[e].black = new.black
    BY <1>7, Unraced
  <2>2. Judgement(e)
    BY <1>1, <1>7 DEF Decisions, Judgements
  <2>3. SUFFICES /\ new.status = "Approved" => new.role \in granted'[e]
                 /\ new.black = TRUE => new.status = "Rejected" \/ users[e] # NoUser
    <3> HIDE DEF new
    <3> QED BY <1>2, <1>7, <2>1 DEF Judgement
  <2>4. CASE r.op = "create"
    <3>1. q = NoRequest => new.status = "Pending" /\ new.black = FALSE
      BY <2>4 DEF NewRequest
    <3>2. q # NoRequest => new.status = "Pending" /\ new.black = FALSE
      BY <1>0, <1>1, <2>4 DEF Decided, Requests, Sound
    <3> HIDE DEF new
    <3> QED BY <3>1, <3>2
  <2>5. CASE r.op = "cancel"
    <3>1. q # NoRequest /\ q.status = "Pending"
      BY <1>0, <2>5 DEF Sound
    <3>2. new.status = "Cancelled" /\ new.black = q.black
      BY <1>1, <2>5, <3>1 DEF Decided, Requests
    <3>3. q.black = TRUE => users[e] # NoUser
      BY <2>1, <2>2, <3>1 DEF Judgement
    <3> HIDE DEF new, q
    <3> QED BY <3>2, <3>3
  <2>6. CASE r.op = "totp"
    <3>1. q = NoRequest => new.role = AdminRole
      BY <2>6 DEF NewRequest
    <3>2. q # NoRequest => new.role = AdminRole
      BY <1>1, <2>6 DEF Decided, Requests
    <3>3. AdminRole \in granted[e] /\ users[e] # NoUser
      BY <1>0, <2>6 DEF Sound
    <3> HIDE DEF new, q
    <3> QED BY <1>1, <1>3, <3>1, <3>2, <3>3
  <2>7. CASE r.op = "update"
    <3>1. q # NoRequest
      BY <1>0, <2>7 DEF Shaped
    <3>2. /\ new.status = IF r.dto.approve THEN "Approved" ELSE "Rejected"
          /\ new.black = r.dto.black
      BY <2>7, <3>1 DEF Decided, Judged
    <3>3. ~(r.dto.approve = TRUE /\ r.dto.black = TRUE)
      BY <1>0, <2>7 DEF Sound
    <3>4. r.dto.approve \in BOOLEAN /\ r.dto.black \in BOOLEAN
      BY <1>0 DEF Handlers, Dtos
    <3> HIDE DEF new, q
    <3>5. new.status = "Approved" => r.dto.approve = TRUE
      BY <3>2, <3>4
    <3>6. new.black = TRUE => new.status = "Rejected"
      BY <3>2, <3>3, <3>4
    <3> QED BY <1>3, <2>7, <3>5, <3>6
  <2> QED BY <1>0, <2>4, <2>5, <2>6, <2>7 DEF WritesRequest
<1>8. ASSUME NEW f \in Emails, f # e, f \notin raced PROVE Judgement(f)'
  BY <1>2, <1>3, <1>8 DEF Decisions, Judgements, Judgement
<1>9. Judgements'
  BY <1>2, <1>7, <1>8 DEF Judgements
<1> QED BY <1>5, <1>6, <1>9 DEF Decisions

LEMMA InsertUserDecides ==
    ASSUME Typed, Decisions, NEW p \in Procs, InsertUser(p)
    PROVE  Decisions'
<1> DEFINE r == proc[p]
           e == r.email
           new == [role |-> r.role, google |-> r.google, password |-> r.op # "google"]
<1>0. /\ r \in Handlers /\ Shaped(r) /\ r.op \in {"register", "google", "totp"} /\ r.pc = "insert"
      /\ Sound(r, requests, users, granted, raced)
  BY DEF Typed, Decisions, AllSound, InsertUser, At
<1>1. e \in Emails /\ new \in Users /\ users \in [Emails -> Users \cup {NoUser}]
  BY <1>0 DEF Shaped, Handlers, Users, Typed, Stored
<1>2. UNCHANGED <<requests, granted, raced>>
  BY DEF InsertUser, Finish, GoTo, Go
<1>3. \/ users' = users /\ Finish(p)
      \/ users' = [users EXCEPT ![e] = new] /\ (Finish(p) \/ (r.op = "totp" /\ GoTo(p, "request")))
  BY DEF InsertUser
<1>4. Grown
  BY <1>1, <1>2, <1>3, Missing DEF Grown
<1>5. Sole' /\ AllSound'
  <2>1. CASE Finish(p)
    BY <1>2, <1>4, <2>1, Finished DEF Decisions
  <2>2. CASE r.op = "totp" /\ GoTo(p, "request") /\ users' = [users EXCEPT ![e] = new]
    <3> DEFINE h == [r EXCEPT !.pc = "request"]
    <3>1. h.op = r.op /\ h.pc = "request" /\ h.email = r.email /\ h.role = r.role /\ Go(p, h)
      BY <1>0, <2>2 DEF Handlers, GoTo
    <3>2. users'[e] # NoUser
      BY <1>1, <2>2, Missing
    <3> HIDE DEF h, new
    <3>3. Sound(h, requests', users', granted', raced')
      BY <1>0, <1>2, <2>2, <3>1, <3>2 DEF Sound
    <3> QED BY <1>2, <1>4, <3>1, <3>3, Continued DEF Decisions, Writes
  <2> QED BY <1>3, <2>1, <2>2
<1>6. RoleGranted'
  <2>1. e \notin raced => r.role \in granted[e]
    BY <1>0 DEF Sound
  <2>2. users' = users \/ users' = [users EXCEPT ![e] = new]
    BY <1>3
  <2>3. new.role = r.role
    OBVIOUS
  <2> HIDE DEF new
  <2> QED BY <1>1, <1>2, <2>1, <2>2, <2>3 DEF Decisions, RoleGranted
<1>7. Judgements'
  BY <1>2, <1>4 DEF Decisions, Judgements, Judgement, Grown
<1> QED BY <1>5, <1>6, <1>7 DEF Decisions

\* Saving a user changes its password or its link, never its role.
LEMMA SaveUserDecides ==
    ASSUME Typed, Decisions, NEW p \in Procs, SaveUser(p)
    PROVE  Decisions'
<1> DEFINE e == proc[p].email
           u == proc[p].user
           new == Changed(proc[p], u)
<1>1. PICK v \in Users :
         /\ e \in Emails /\ users[e] \in Users /\ u \in Users
         /\ users' = [users EXCEPT ![e] = v]
         /\ v = users[e] \/ v = Written(users[e], u, new)
  BY Saved
<1>2. v.role = users[e].role
  <2>1. new.role = u.role
    BY <1>1 DEF Changed, Users
  <2>2. "role" \in DOMAIN users[e]
    BY <1>1 DEF Users
  <2> HIDE DEF new
  <2>3. Written(users[e], u, new).role = users[e].role
    BY <2>1, <2>2 DEF Written
  <2> QED BY <1>1, <2>3
<1>3. UNCHANGED <<requests, granted, raced>> /\ Finish(p)
  BY DEF SaveUser, Finish, Go
<1>4. users \in [Emails -> Users \cup {NoUser}] /\ users[e] # NoUser
  BY <1>1, Missing DEF Typed, Stored
<1>5. \A f \in Emails : users[f] # NoUser <=> users'[f] # NoUser
  BY <1>1, <1>4, Missing
<1>6. \A f \in Emails : users[f] # NoUser => users'[f].role = users[f].role
  BY <1>1, <1>2, <1>4
<1>7. Grown
  BY <1>3, <1>5 DEF Grown
<1>8. Sole' /\ AllSound'
  BY <1>3, <1>7, Finished DEF Decisions
<1>9. RoleGranted' /\ Judgements'
  BY <1>3, <1>5, <1>6 DEF Decisions, RoleGranted, Judgements, Judgement
<1> QED BY <1>8, <1>9 DEF Decisions

LEMMA TokensDecide ==
    ASSUME Typed, Decisions, NEW p \in Procs, Issue(p) \/ Consume(p)
    PROVE  Decisions'
<1> DEFINE h == proc[p]
           r == [h EXCEPT !.pc = "owner", !.email = tokens[h.token]]
<1>1. UNCHANGED <<requests, users, granted, raced>> /\ Grown
  BY DEF Issue, Consume, Finish, Go, Grown
<1>2. Judgements' /\ RoleGranted'
  BY <1>1 DEF Decisions, Judgements, Judgement, RoleGranted
<1>3. CASE Finish(p)
  BY <1>1, <1>2, <1>3, Finished DEF Decisions
<1>4. CASE Go(p, r) /\ h.op = "change"
  <2>1. r.op = "change"
    BY <1>4 DEF Typed, Handlers
  <2> HIDE DEF r
  <2>2. Aside(r) /\ ~Writes(r)
    BY <2>1 DEF Aside, Writes, WritesRequest
  <2>3. Sole' /\ AllSound'
    BY <1>1, <1>4, <2>2, AsideSound, Advanced DEF Decisions, Go
  <2> QED BY <1>2, <2>3 DEF Decisions
<1> QED BY <1>3, <1>4 DEF Issue, Consume, At

(* ------------------------------- Theorems -------------------------------- *)

LEMMA DecidedInitially == Init => Decisions
<1> SUFFICES ASSUME Init PROVE Decisions
  OBVIOUS
<1>1. \A p \in Procs : proc[p] = Idle
  BY DEF Init
<1>2. Sole
  BY <1>1 DEF Sole, Writes, WritesRequest, Idle
<1>3. AllSound
  BY <1>1, IdleSound DEF AllSound
<1>4. Judgements /\ RoleGranted
  BY DEF Init, Judgements, Judgement, RoleGranted
<1> QED BY <1>2, <1>3, <1>4 DEF Decisions

LEMMA DecidedStep == Typed /\ Decisions /\ [Next]_vars => Decisions'
<1> SUFFICES ASSUME Typed, Decisions, [Next]_vars PROVE Decisions'
  OBVIOUS
<1>1. ASSUME NEW p \in Procs, Step(p) PROVE Decisions'
  BY <1>1, ReadRequestDecides, ApprovedDecides, FindUserDecides, AsideDecides,
     SaveRequestDecides, InsertUserDecides, SaveUserDecides, TokensDecide DEF Step
<1>2. ASSUME UNCHANGED <<requests, users, proc, granted, raced>> PROVE Decisions'
  BY <1>2 DEF Decisions, Sole, AllSound, Judgements, Judgement, RoleGranted
<1> QED BY <1>1, <1>2, CallDecides DEF Next, Expire, vars

LEMMA AlwaysDecided == Spec => []Decisions
BY DecidedInitially, DecidedStep, AlwaysTyped, PTL DEF Spec

(* Whoever is let in has a role that an administrator approved for that         *)
(* address, or proved to be one: getApprovedRequestByEmail reads what           *)
(* updateRequest saved, and reopening or cancelling a request takes its         *)
(* approval back before anybody registers with it.                              *)
THEOREM RolesAreGranted == Spec => []RoleGranted
<1>1. Decisions => RoleGranted
  BY DEF Decisions
<1> QED BY <1>1, AlwaysDecided, PTL

(* An address that was shut out stays rejected, whoever registers, cancels or   *)
(* asks again, until an administrator decides otherwise (createRequest).        *)
THEOREM ShutOutStays == Spec => []ShutOut
<1>1. Typed /\ Decisions => ShutOut
  BY DEF Typed, Stored, Requests, Decisions, Judgements, Judgement, ShutOut
<1> QED BY <1>1, AlwaysTyped, AlwaysDecided, PTL

(* ------------------------------ Reset tokens ------------------------------- *)
(* A reset token changes one password at most, for any number of tokens and    *)
(* overlapping requests.  GETDEL takes a token out of Redis in the step that    *)
(* reads it, so what was issued to an address and not spent covers the tokens   *)
(* still there and the handlers that go on with one they took (Covered).        *)

\* The handler took a token of this address and has not saved the password.
Charged(r, e) == r.op = "change" /\ r.pc \in {"owner", "reread", "save"} /\ r.email = e
Changers(e) == {p \in Procs : Charged(proc[p], e)}
Holders(e) == {t \in Tokens : tokens[t] = e}

Covered == \A e \in Emails : credit[e] >= Cardinality(Holders(e)) + Cardinality(Changers(e))

LEMMA Counts ==
    ASSUME NEW S, S \subseteq Tokens \/ S \subseteq Procs
    PROVE  IsFiniteSet(S) /\ Cardinality(S) \in Nat
<1>1. IsFiniteSet(S)
  BY Finite, FS_Subset
<1> QED BY <1>1, FS_CardinalityType

LEMMA Smaller ==
    ASSUME NEW S, NEW T, S \subseteq T, T \subseteq Tokens \/ T \subseteq Procs
    PROVE  Cardinality(S) <= Cardinality(T)
BY Counts, FS_Subset

LEMMA Less ==
    ASSUME NEW S, NEW T, NEW x, S \subseteq T \ {x}, x \in T, T \subseteq Tokens \/ T \subseteq Procs
    PROVE  Cardinality(S) <= Cardinality(T) - 1
<1>1. Cardinality(T \ {x}) = Cardinality(T) - 1
  BY Counts, FS_RemoveElement
<1>2. Cardinality(S) <= Cardinality(T \ {x})
  BY Smaller
<1> QED BY <1>1, <1>2

LEMMA More ==
    ASSUME NEW S, NEW T, NEW x, S \subseteq T \cup {x}, T \subseteq Tokens \/ T \subseteq Procs,
           S \subseteq Tokens \/ S \subseteq Procs
    PROVE  Cardinality(S) <= Cardinality(T) + 1
<1>1. IsFiniteSet(T) /\ Cardinality(T) \in Nat
  BY Counts
<1>2. IsFiniteSet(T \cup {x}) /\ Cardinality(T \cup {x}) <= Cardinality(T) + 1
  BY <1>1, FS_AddElement
<1>3. Cardinality(S) <= Cardinality(T \cup {x}) /\ Cardinality(S) \in Nat
          /\ Cardinality(T \cup {x}) \in Nat
  BY <1>2, Counts, FS_Subset, FS_CardinalityType
<1> QED BY <1>1, <1>2, <1>3

\* What one step may do to an address: pay at least for what it adds.
LEMMA StillCovered ==
    ASSUME Typed, Typed', Covered,
           \A e \in Emails :
               credit'[e] - credit[e] >=
                   (Cardinality(Holders(e))' - Cardinality(Holders(e)))
                 + (Cardinality(Changers(e))' - Cardinality(Changers(e)))
    PROVE  Covered'
<1> SUFFICES ASSUME NEW e \in Emails
             PROVE  credit'[e] >= Cardinality(Holders(e))' + Cardinality(Changers(e))'
  BY DEF Covered
<1>1. Holders(e) \subseteq Tokens /\ Changers(e) \subseteq Procs
         /\ Holders(e)' \subseteq Tokens /\ Changers(e)' \subseteq Procs
  BY DEF Holders, Changers
<1>2. /\ Cardinality(Holders(e)) \in Nat /\ Cardinality(Changers(e)) \in Nat
      /\ Cardinality(Holders(e)') \in Nat /\ Cardinality(Changers(e)') \in Nat
  BY <1>1, Counts
<1>3. credit[e] \in Int /\ credit'[e] \in Int
  BY DEF Typed, Stored
<1> QED BY <1>2, <1>3 DEF Covered

\* A step of handler p that owes no more than before.
LEMMA HandlerStep ==
    ASSUME Typed, Typed', Covered, NEW p \in Procs, NEW r, proc' = [proc EXCEPT ![p] = r],
           tokens' = tokens, credit' = credit,
           \A e \in Emails : Charged(r, e) => Charged(proc[p], e)
    PROVE  Covered'
<1>1. ASSUME NEW e \in Emails
      PROVE  credit'[e] - credit[e] >= (Cardinality(Holders(e))' - Cardinality(Holders(e)))
                                     + (Cardinality(Changers(e))' - Cardinality(Changers(e)))
  <2>1. Holders(e)' = Holders(e)
    BY DEF Holders
  <2>2. Changers(e)' \subseteq Changers(e)
    BY DEF Changers, Typed
  <2>3. Cardinality(Changers(e)') <= Cardinality(Changers(e))
    BY <2>2, Smaller DEF Changers
  <2>4. /\ Cardinality(Holders(e)) \in Nat
        /\ Cardinality(Changers(e)) \in Nat /\ Cardinality(Changers(e)') \in Nat
    BY Counts DEF Changers, Holders
  <2>5. credit[e] \in Int
    BY DEF Typed, Stored
  <2> QED BY <2>1, <2>3, <2>4, <2>5
<1> QED BY <1>1, StillCovered

LEMMA CallCovers ==
    ASSUME Typed, Typed', Covered, NEW p \in Procs, Call(p)
    PROVE  Covered'
<1>1. ASSUME NEW r, Start(p, r), r.op # "change" \/ r.pc = "consume" PROVE Covered'
  <2>1. \A e : ~Charged(r, e)
    BY <1>1 DEF Charged
  <2> QED BY <1>1, <2>1, HandlerStep DEF Start
<1>2. ASSUME NEW e \in Emails,
             \/ StartCreate(p, e) \/ StartCancel(p, e) \/ StartRegister(p, e) \/ StartTotp(p, e)
             \/ StartUnlink(p, e) \/ \E dto \in Dtos : StartUpdate(p, e, dto)
      PROVE  Covered'
  BY <1>1, <1>2 DEF StartCreate, StartCancel, StartRegister, StartTotp, StartUnlink,
     StartUpdate, Idle
<1>3. ASSUME NEW e \in Emails, NEW g \in Googles, StartLink(p, e, g) \/ StartGoogle(p, e, g)
      PROVE  Covered'
  BY <1>1, <1>3 DEF StartLink, StartGoogle, Idle
<1>4. ASSUME NEW e \in Emails, NEW t \in Tokens, StartReset(p, e, t) PROVE Covered'
  BY <1>1, <1>4 DEF StartReset, Idle
<1>5. ASSUME NEW t \in Tokens, StartChange(p, t) PROVE Covered'
  BY <1>1, <1>5 DEF StartChange, Idle
<1> QED BY <1>2, <1>3, <1>4, <1>5 DEF Call

LEMMA IdleOwesNothing == \A e : ~Charged(Idle, e)
BY DEF Charged, Idle

\* The steps that neither issue, take nor spend a token.
LEMMA OthersCover ==
    ASSUME Typed, Typed', Covered, NEW p \in Procs,
           \/ ReadRequest(p) \/ SaveRequest(p) \/ GetApprovedRequest(p) \/ FindUser(p)
           \/ InsertUser(p) \/ ReadUser(p) \/ FindLinked(p) \/ FindByEmail(p) \/ Reread(p)
           \/ FindOwner(p) \/ Fail(p)
    PROVE  Covered'
<1> DEFINE h == proc[p]
<1>0. h \in Handlers
  BY DEF Typed
<1>1. tokens' = tokens /\ credit' = credit
  BY DEF ReadRequest, SaveRequest, GetApprovedRequest, FindUser, InsertUser, ReadUser,
     FindLinked, FindByEmail, Reread, FindOwner, Fail
<1>2. CASE Finish(p)
  BY <1>1, <1>2, HandlerStep, IdleOwesNothing DEF Finish, Go
<1>3. ASSUME NEW r, Go(p, r), r.op = h.op, r.email = h.email,
             r.pc \in {"owner", "reread", "save"} => h.op # "change" \/ h.pc \in {"owner", "reread"}
      PROVE  Covered'
  <2>1. \A e : Charged(r, e) => Charged(h, e)
    BY <1>3 DEF Charged
  <2> QED BY <1>1, <1>3, <2>1, HandlerStep DEF Go
<1>4. CASE ReadRequest(p)
  <2> DEFINE r == [h EXCEPT !.pc = "save", !.old = requests[h.email]]
  <2>1. r.op = h.op /\ r.email = h.email /\ h.op # "change"
    BY <1>0, <1>4 DEF Handlers, ReadRequest, At, WritesRequest
  <2>2. Go(p, r) \/ Finish(p)
    BY <1>4 DEF ReadRequest
  <2> HIDE DEF r
  <2> QED BY <1>2, <1>3, <2>1, <2>2
<1>5. CASE GetApprovedRequest(p)
  <2> DEFINE r == [h EXCEPT !.pc = "find", !.role = requests[h.email].role]
  <2>1. r.op = h.op /\ r.email = h.email /\ h.op # "change"
    BY <1>0, <1>5 DEF Handlers, GetApprovedRequest, At
  <2>2. Go(p, r) \/ Finish(p)
    BY <1>5 DEF GetApprovedRequest
  <2> HIDE DEF r
  <2> QED BY <1>2, <1>3, <2>1, <2>2
<1>6. CASE Reread(p)
  <2> DEFINE r == [h EXCEPT !.pc = "save", !.user = users[h.email]]
  <2>1. r.op = h.op /\ r.email = h.email /\ h.pc = "reread" /\ Go(p, r)
    BY <1>0, <1>6 DEF Handlers, Reread, At
  <2> HIDE DEF r
  <2> QED BY <1>3, <2>1
<1>7. ASSUME NEW pc, GoTo(p, pc), h.op # "change" \/ h.pc \in {"owner", "reread"} PROVE Covered'
  <2> DEFINE r == [h EXCEPT !.pc = pc]
  <2>1. r.op = h.op /\ r.email = h.email /\ Go(p, r)
    BY <1>0, <1>7 DEF Handlers, GoTo
  <2> HIDE DEF r
  <2> QED BY <1>3, <1>7, <2>1
<1>8. CASE FindUser(p) \/ InsertUser(p) \/ ReadUser(p) \/ FindLinked(p) \/ FindByEmail(p)
  <2>1. h.op # "change"
    BY <1>8 DEF FindUser, InsertUser, ReadUser, FindLinked, FindByEmail, At
  <2>2. Finish(p) \/ \E pc : GoTo(p, pc)
    BY <1>8 DEF FindUser, InsertUser, ReadUser, FindLinked, FindByEmail
  <2> QED BY <1>2, <1>7, <2>1, <2>2
<1>9. CASE FindOwner(p)
  BY <1>2, <1>7, <1>9 DEF FindOwner, At
<1> QED BY <1>2, <1>4, <1>5, <1>6, <1>8, <1>9 DEF SaveRequest, Fail

LEMMA IssueCovers ==
    ASSUME Typed, Typed', Covered, NEW p \in Procs, Issue(p)
    PROVE  Covered'
<1> DEFINE t == proc[p].token
           a == proc[p].email
<1>0. t \in Tokens /\ a \in Emails /\ tokens[t] = NoEmail
  BY DEF Issue, At, Typed, Shaped
<1>1. /\ tokens' = [tokens EXCEPT ![t] = a] /\ credit' = [credit EXCEPT ![a] = @ + 1]
      /\ proc' = [proc EXCEPT ![p] = Idle]
  BY DEF Issue, Finish, Go
<1>2. ASSUME NEW e \in Emails
      PROVE  credit'[e] - credit[e] >= (Cardinality(Holders(e))' - Cardinality(Holders(e)))
                                     + (Cardinality(Changers(e))' - Cardinality(Changers(e)))
  <2>1. Changers(e)' \subseteq Changers(e)
    BY <1>1, IdleOwesNothing DEF Changers, Typed
  <2>2. Cardinality(Changers(e)') <= Cardinality(Changers(e))
    BY <2>1, Smaller DEF Changers
  <2>3. /\ Cardinality(Holders(e)) \in Nat /\ Cardinality(Holders(e)') \in Nat
        /\ Cardinality(Changers(e)) \in Nat /\ Cardinality(Changers(e)') \in Nat
    BY Counts DEF Changers, Holders
  <2>4. CASE e = a
    <3>1. Holders(e)' \subseteq Holders(e) \cup {t}
      BY <1>0, <1>1 DEF Holders, Typed, Stored
    <3>2. Cardinality(Holders(e)') <= Cardinality(Holders(e)) + 1
      BY <3>1, More DEF Holders
    <3>3. credit'[e] = credit[e] + 1 /\ credit[e] \in Int
      BY <1>0, <1>1, <2>4 DEF Typed, Stored
    <3> QED BY <2>2, <2>3, <3>2, <3>3
  <2>5. CASE e # a
    <3>1. Holders(e)' \subseteq Holders(e)
      BY <1>0, <1>1, <2>5 DEF Holders, Typed, Stored
    <3>2. Cardinality(Holders(e)') <= Cardinality(Holders(e))
      BY <3>1, Smaller DEF Holders
    <3>3. credit'[e] = credit[e] /\ credit[e] \in Int
      BY <1>1, <2>5 DEF Typed, Stored
    <3> QED BY <2>2, <2>3, <3>2, <3>3
  <2> QED BY <2>4, <2>5
<1> QED BY <1>2, StillCovered

LEMMA ConsumeCovers ==
    ASSUME Typed, Typed', Covered, NEW p \in Procs, Consume(p)
    PROVE  Covered'
<1> DEFINE t == proc[p].token
           a == tokens[t]
           r == [proc[p] EXCEPT !.pc = "owner", !.email = a]
<1>0. t \in Tokens /\ proc[p] \in Handlers /\ proc[p].pc = "consume"
  BY DEF Consume, At, Typed, Shaped
<1>1. /\ tokens' = [tokens EXCEPT ![t] = NoEmail] /\ credit' = credit
      /\ \/ proc' = [proc EXCEPT ![p] = Idle]
         \/ proc' = [proc EXCEPT ![p] = r] /\ a # NoEmail
  BY DEF Consume, Finish, Go
<1>2. r.email = a
  BY <1>0 DEF Handlers
<1> HIDE DEF r
<1>3. ASSUME NEW e \in Emails
      PROVE  credit'[e] - credit[e] >= (Cardinality(Holders(e))' - Cardinality(Holders(e)))
                                     + (Cardinality(Changers(e))' - Cardinality(Changers(e)))
  <2>1. Holders(e)' \subseteq Holders(e) \ {t}
    BY <1>0, <1>1, Missing DEF Holders, Typed, Stored
  <2>2. /\ Cardinality(Holders(e)) \in Nat /\ Cardinality(Holders(e)') \in Nat
        /\ Cardinality(Changers(e)) \in Nat /\ Cardinality(Changers(e)') \in Nat
        /\ credit[e] \in Int
    BY Counts DEF Changers, Holders, Typed, Stored
  <2>3. CASE proc' = [proc EXCEPT ![p] = r] /\ a = e
    <3>1. t \in Holders(e)
      BY <1>0, <2>3 DEF Holders
    <3>2. Cardinality(Holders(e)') <= Cardinality(Holders(e)) - 1
      BY <2>1, <3>1, Less DEF Holders
    <3>3. Changers(e)' \subseteq Changers(e) \cup {p}
      BY <2>3 DEF Changers, Typed
    <3>4. Cardinality(Changers(e)') <= Cardinality(Changers(e)) + 1
      BY <3>3, More DEF Changers
    <3> QED BY <1>1, <2>2, <3>2, <3>4
  <2>4. CASE proc' = [proc EXCEPT ![p] = Idle] \/ (proc' = [proc EXCEPT ![p] = r] /\ a # e)
    <3>1. Changers(e)' \subseteq Changers(e)
      BY <1>2, <2>4, IdleOwesNothing DEF Changers, Charged, Typed
    <3>2. Cardinality(Changers(e)') <= Cardinality(Changers(e))
      BY <3>1, Smaller DEF Changers
    <3>3. Cardinality(Holders(e)') <= Cardinality(Holders(e))
      BY <2>1, Smaller DEF Holders
    <3> QED BY <1>1, <2>2, <3>2, <3>3
  <2> QED BY <1>1, <2>3, <2>4
<1> QED BY <1>3, StillCovered

LEMMA SaveUserCovers ==
    ASSUME Typed, Typed', Covered, NEW p \in Procs, SaveUser(p)
    PROVE  Covered'
<1> DEFINE h == proc[p]
           a == h.email
<1>0. h.pc = "save" /\ proc' = [proc EXCEPT ![p] = Idle] /\ tokens' = tokens
  BY DEF SaveUser, At, Finish, Go
<1>1. CASE h.op # "change"
  <2>1. credit' = credit
    BY <1>1 DEF SaveUser, Typed, Stored
  <2> QED BY <1>0, <2>1, HandlerStep, IdleOwesNothing
<1>2. CASE h.op = "change"
  <2>0. a \in Emails /\ credit' = [credit EXCEPT ![a] = @ - 1]
    BY <1>0, <1>2 DEF SaveUser, Typed, Shaped
  <2>1. ASSUME NEW e \in Emails
        PROVE  credit'[e] - credit[e] >= (Cardinality(Holders(e))' - Cardinality(Holders(e)))
                                       + (Cardinality(Changers(e))' - Cardinality(Changers(e)))
    <3>1. Holders(e)' = Holders(e)
      BY <1>0 DEF Holders
    <3>2. /\ Cardinality(Holders(e)) \in Nat
          /\ Cardinality(Changers(e)) \in Nat /\ Cardinality(Changers(e)') \in Nat
          /\ credit[e] \in Int
      BY Counts DEF Changers, Holders, Typed, Stored
    <3>3. CASE e = a
      <4>1. p \in Changers(e) /\ Changers(e)' \subseteq Changers(e) \ {p}
        BY <1>0, <1>2, <3>3, IdleOwesNothing DEF Changers, Charged, Typed
      <4>2. Cardinality(Changers(e)') <= Cardinality(Changers(e)) - 1
        BY <4>1, Less DEF Changers
      <4>3. credit'[e] = credit[e] - 1
        BY <2>0, <3>3 DEF Typed, Stored
      <4> QED BY <3>1, <3>2, <4>2, <4>3
    <3>4. CASE e # a
      <4>1. Changers(e)' \subseteq Changers(e)
        BY <1>0, IdleOwesNothing DEF Changers, Typed
      <4>2. Cardinality(Changers(e)') <= Cardinality(Changers(e))
        BY <4>1, Smaller DEF Changers
      <4>3. credit'[e] = credit[e]
        BY <2>0, <3>4 DEF Typed, Stored
      <4> QED BY <3>1, <3>2, <4>2, <4>3
    <3> QED BY <3>3, <3>4
  <2> QED BY <2>1, StillCovered
<1> QED BY <1>1, <1>2

LEMMA ExpiryCovers ==
    ASSUME Typed, Typed', Covered, NEW t \in Tokens, Expire(t)
    PROVE  Covered'
<1>1. ASSUME NEW e \in Emails
      PROVE  credit'[e] - credit[e] >= (Cardinality(Holders(e))' - Cardinality(Holders(e)))
                                     + (Cardinality(Changers(e))' - Cardinality(Changers(e)))
  <2>1. Holders(e)' \subseteq Holders(e) /\ Changers(e)' = Changers(e) /\ credit' = credit
    BY Missing DEF Expire, Holders, Changers, Typed, Stored
  <2>2. Cardinality(Holders(e)') <= Cardinality(Holders(e))
    BY <2>1, Smaller DEF Holders
  <2>3. /\ Cardinality(Holders(e)) \in Nat /\ Cardinality(Holders(e)') \in Nat
        /\ Cardinality(Changers(e)) \in Nat /\ credit[e] \in Int
    BY Counts DEF Changers, Holders, Typed, Stored
  <2> QED BY <2>1, <2>2, <2>3
<1> QED BY <1>1, StillCovered

LEMMA CoveredInitially == Init => Covered
<1> SUFFICES ASSUME Init, NEW e \in Emails
             PROVE  credit[e] >= Cardinality(Holders(e)) + Cardinality(Changers(e))
  BY DEF Covered
<1>1. Holders(e) = {} /\ Changers(e) = {} /\ credit[e] = 0
  BY Missing, IdleOwesNothing DEF Init, Holders, Changers
<1> QED BY <1>1, FS_EmptySet

LEMMA CoveredStep == Typed /\ Covered /\ [Next]_vars => Covered'
<1> SUFFICES ASSUME Typed, Covered, [Next]_vars PROVE Covered'
  OBVIOUS
<1>0. Typed'
  BY TypedStep
<1>1. ASSUME NEW p \in Procs, Step(p) PROVE Covered'
  BY <1>0, <1>1, OthersCover, IssueCovers, ConsumeCovers, SaveUserCovers DEF Step
<1>2. CASE UNCHANGED vars
  BY <1>2 DEF vars, Covered, Holders, Changers
<1> QED BY <1>0, <1>1, <1>2, CallCovers, ExpiryCovers DEF Next

(* A reset token changes one password at most, even if several requests bring  *)
(* it or it expires meanwhile: whoever goes on with a token has taken it out of *)
(* Redis (PasswordResetTokensService.consume, AuthService.changePassword).      *)
THEOREM ResetsAreOnce == Spec => []ResetOnce
<1>1. Typed /\ Covered => ResetOnce
  <2> SUFFICES ASSUME Typed, Covered, NEW e \in Emails PROVE credit[e] >= 0
    BY DEF ResetOnce
  <2>1. /\ Cardinality(Holders(e)) \in Nat /\ Cardinality(Changers(e)) \in Nat
        /\ credit[e] \in Int
    BY Counts DEF Changers, Holders, Typed, Stored
  <2> QED BY <2>1 DEF Covered
<1> QED BY <1>1, CoveredInitially, CoveredStep, AlwaysTyped, PTL DEF Spec

=============================================================================
