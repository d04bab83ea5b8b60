------------------------------ MODULE Accounts ------------------------------
(* Registration requests, users, Google links and password reset tokens        *)
(* (users/registration-requests.service.ts, users/users.service.ts,            *)
(* auth/auth.service.ts, auth/google-auth.service.ts,                          *)
(* auth/password-reset-tokens.service.ts).                                     *)
(*                                                                             *)
(* Every request to the API is a handler that reads a document, decides, and   *)
(* saves the fields it changed; the handlers of other requests run between its *)
(* steps. What two handlers must not do together is left to the unique indexes *)
(* of the database and to GETDEL, which are modelled as such.                  *)
EXTENDS Integers, FiniteSets

CONSTANTS
    Emails,         \* addresses; a user and a request are found by theirs
    Googles,        \* hashes of Google account ids
    NoGoogle,
    Tokens,         \* password reset tokens
    NoToken,
    NoEmail,        \* a token that was never issued, was used or has expired
    Roles,
    GuestRole,      \* DEFAULT_USER_ROLE
    AdminRole,      \* TOTP_REGISTERED_USER_ROLE
    KeepRole,       \* an update of a request without a role
    NoRequest, NoUser,
    Procs,          \* handlers in flight
    MaxCalls        \* bound on the requests to the API

VARIABLES
    requests,   \* the registration request of each address
    users,      \* the user of each address
    tokens,     \* the owner of each reset token, in Redis
    proc,       \* the handlers
    granted,    \* roles an administrator approved an address for
    credit,     \* reset tokens issued to an address, less the passwords changed
    raced,      \* addresses with two handlers at once that write the same document
    calls

vars == <<requests, users, tokens, proc, granted, credit, raced, calls>>

Statuses == {"Pending", "Approved", "Rejected", "Cancelled"}
Requests == [status : Statuses, role : Roles, black : BOOLEAN]
Users == [role : Roles, password : BOOLEAN, google : Googles \cup {NoGoogle}]
Dtos == [approve : BOOLEAN, black : BOOLEAN, role : Roles \cup {KeepRole}]

ASSUME RolesKnown == {GuestRole, AdminRole} \subseteq Roles /\ KeepRole \notin Roles
ASSUME Finite == IsFiniteSet(Tokens) /\ IsFiniteSet(Procs)
ASSUME Missing == /\ NoRequest \notin Requests /\ NoUser \notin Users
                  /\ NoGoogle \notin Googles /\ NoEmail \notin Emails

(* --------------------------------- Handlers ------------------------------- *)

NoDto == [approve |-> FALSE, black |-> FALSE, role |-> KeepRole]
Idle == [op |-> "none", pc |-> "idle", email |-> NoEmail, google |-> NoGoogle, token |-> NoToken,
         dto |-> NoDto, role |-> GuestRole, old |-> NoRequest, user |-> NoUser]

WritesRequest == {"create", "update", "cancel", "totp"}
WritesLink == {"link", "unlink", "google"}
Races(r, q) == /\ r.email = q.email
               /\ {r.op, q.op} \subseteq WritesRequest \/ {r.op, q.op} \subseteq WritesLink

Start(p, r) ==
    /\ proc[p] = Idle /\ calls < MaxCalls
    /\ proc' = [proc EXCEPT ![p] = r]
    /\ raced' = raced \cup {e \in {r.email} : \E q \in Procs : Races(r, proc[q])}
    /\ calls' = calls + 1
    /\ UNCHANGED <<requests, users, tokens, credit>>

At(p, ops, pc) == proc[p].op \in ops /\ proc[p].pc = pc
Go(p, r) == proc' = [proc EXCEPT ![p] = r] /\ UNCHANGED <<raced, calls>>
GoTo(p, pc) == Go(p, [proc[p] EXCEPT !.pc = pc])
Finish(p) == Go(p, Idle)

\* Mongoose sends the fields whose value differs from the one it read.
Written(stored, old, new) ==
    [f \in DOMAIN stored |-> IF new[f] # old[f] THEN new[f] ELSE stored[f]]

(* --------------------------- Registration requests ------------------------ *)

\* Fault: a cancelled request opens again although the address is shut out.
ReopensAny(q) == q.status \in {"Rejected", "Cancelled"}
Reopens(q) == q.status \in {"Rejected", "Cancelled"} /\ ~q.black
MayUpdate(q, dto) == ~(q.status = "Cancelled" /\ dto.approve)

\* Fault: a role that the administrator left out is stored all the same.
JudgedRoleless(q, dto) ==
    [status |-> IF dto.approve THEN "Approved" ELSE "Rejected",
     black |-> dto.black, role |-> dto.role]
\* updateRequest: a role that is left out stays.
Judged(q, dto) ==
    [status |-> IF dto.approve THEN "Approved" ELSE "Rejected",
     black |-> dto.black,
     role |-> IF dto.role = KeepRole THEN q.role ELSE dto.role]

\* What the handler r makes of the request q it read.
Decided(r, q) ==
    CASE r.op = "create" -> [q EXCEPT !.status = "Pending"]
      [] r.op = "cancel" -> [q EXCEPT !.status = "Cancelled"]
      [] r.op = "totp"   -> [q EXCEPT !.status = "Approved", !.role = AdminRole]
      [] r.op = "update" -> Judged(q, r.dto)

NewRequest(r) == [status |-> IF r.op = "totp" THEN "Approved" ELSE "Pending",
                  role |-> IF r.op = "totp" THEN AdminRole ELSE GuestRole, black |-> FALSE]

StartCreate(p, e) == /\ Start(p, [Idle EXCEPT !.op = "create", !.pc = "request", !.email = e])
                     /\ UNCHANGED granted
StartCancel(p, e) == /\ requests[e] # NoRequest
                     /\ Start(p, [Idle EXCEPT !.op = "cancel", !.pc = "request", !.email = e])
                     /\ UNCHANGED granted
\* Approving and shutting out at once is refused before anything is read.
StartUpdate(p, e, dto) ==
    /\ requests[e] # NoRequest /\ ~(dto.approve /\ dto.black)
    /\ Start(p, [Idle EXCEPT !.op = "update", !.pc = "request", !.email = e, !.dto = dto])
    /\ UNCHANGED granted

\* createRequest, updateRequest, cancelRequest and createAutoApprovedRequest
\* read the request and decide.
ReadRequest(p) ==
    LET r == proc[p]
        q == requests[r.email]
        proceeds == IF q = NoRequest THEN r.op \in {"create", "totp"}
                    ELSE CASE r.op = "create" -> Reopens(q)
                           [] r.op = "update" -> MayUpdate(q, r.dto)
                           [] r.op = "cancel" -> q.status = "Pending"
                           [] r.op = "totp"   -> TRUE
    IN  /\ At(p, WritesRequest, "request")
        /\ IF proceeds THEN Go(p, [r EXCEPT !.pc = "save", !.old = q]) ELSE Finish(p)
        /\ UNCHANGED <<requests, users, tokens, granted, credit>>

\* One request for an address: the unique index refuses a second insertion.
SaveRequest(p) ==
    LET r == proc[p]
        e == r.email
        new == IF r.old = NoRequest THEN NewRequest(r) ELSE Decided(r, r.old)
        refused == r.old = NoRequest /\ requests[e] # NoRequest
    IN  /\ At(p, WritesRequest, "save")
        /\ requests' = [requests EXCEPT ![e] =
               IF refused THEN @ ELSE IF r.old = NoRequest THEN new ELSE Written(@, r.old, new)]
        /\ granted' = [granted EXCEPT ![e] =
               IF r.op = "update" /\ r.dto.approve THEN @ \cup {new.role} ELSE @]
        /\ Finish(p)
        /\ UNCHANGED <<users, tokens, credit>>

(* --------------------------------- Registration --------------------------- *)

StartRegister(p, e) ==
    /\ Start(p, [Idle EXCEPT !.op = "register", !.pc = "approved", !.email = e])
    /\ UNCHANGED granted
\* The administrator's one-time password stands for an approval.
StartTotp(p, e) ==
    /\ Start(p, [Idle EXCEPT !.op = "totp", !.pc = "find", !.email = e, !.role = AdminRole])
    /\ granted' = [granted EXCEPT ![e] = @ \cup {AdminRole}]

\* Fault: the case of a rejected request is left out.
ApprovesRejected(q) == q # NoRequest /\ q.status \in {"Approved", "Rejected"}
Approves(q) == q # NoRequest /\ q.status = "Approved"

GetApprovedRequest(p) ==
    LET q == requests[proc[p].email]
    IN  /\ At(p, {"register", "google"}, "approved")
        /\ IF Approves(q) THEN Go(p, [proc[p] EXCEPT !.pc = "find", !.role = q.role])
                          ELSE Finish(p)
        /\ UNCHANGED <<requests, users, tokens, granted, credit>>

\* UsersService.create looks for a user before it inserts one.
FindUser(p) ==
    /\ At(p, {"register", "google", "totp"}, "find")
    /\ IF users[proc[p].email] = NoUser THEN GoTo(p, "insert") ELSE Finish(p)
    /\ UNCHANGED <<requests, users, tokens, granted, credit>>

LinkedTo(g) == {e \in Emails : users[e] # NoUser /\ users[e].google = g}
\* Fault: the index is missing, as if the preceding look-up were enough.
NotIndexed(g, e) == TRUE
\* The sparse unique index on the Google hash.
Indexed(g, e) == g = NoGoogle \/ LinkedTo(g) \subseteq {e}

\* The schema requires a password of a user without a Google account.
Valid(u) == u.password \/ u.google # NoGoogle

InsertUser(p) ==
    LET r == proc[p]
        e == r.email
        new == [role |-> r.role, google |-> r.google, password |-> r.op # "google"]
    IN  /\ At(p, {"register", "google", "totp"}, "insert")
        /\ IF users[e] = NoUser /\ Valid(new) /\ Indexed(r.google, e)
           THEN /\ users' = [users EXCEPT ![e] = new]
                /\ IF r.op = "totp" THEN GoTo(p, "request") ELSE Finish(p)
           ELSE users' = users /\ Finish(p)
        /\ UNCHANGED <<requests, tokens, granted, credit>>

(* ---------------------------------- Google -------------------------------- *)

StartLink(p, e, g) ==
    /\ users[e] # NoUser
    /\ Start(p, [Idle EXCEPT !.op = "link", !.pc = "read", !.email = e, !.google = g])
    /\ UNCHANGED granted
StartUnlink(p, e) ==
    /\ users[e] # NoUser
    /\ Start(p, [Idle EXCEPT !.op = "unlink", !.pc = "read", !.email = e])
    /\ UNCHANGED granted
\* An ID token names a Google account and its verified address.
StartGoogle(p, e, g) ==
    /\ Start(p, [Idle EXCEPT !.op = "google", !.pc = "linked", !.email = e, !.google = g])
    /\ UNCHANGED granted

\* linkAccount and unlinkAccount.
ReadUser(p) ==
    LET u == users[proc[p].email]
    IN  /\ At(p, {"link", "unlink"}, "read")
        /\ CASE proc[p].op = "link" /\ u.google = NoGoogle -> GoTo(p, "linked")
             [] proc[p].op = "unlink" /\ u.google # NoGoogle /\ u.password -> GoTo(p, "reread")
             [] OTHER -> Finish(p)
        /\ UNCHANGED <<requests, users, tokens, granted, credit>>

\* findByGoogleIdHash: a linked account is signed in, or refused a second link.
FindLinked(p) ==
    /\ At(p, {"link", "google"}, "linked")
    /\ IF LinkedTo(proc[p].google) # {} THEN Finish(p)
       ELSE GoTo(p, IF proc[p].op = "link" THEN "reread" ELSE "byEmail")
    /\ UNCHANGED <<requests, users, tokens, granted, credit>>

\* Fault: signing in replaces the link.
LinkableAgain(u) == TRUE
\* Only a user without a Google account is given one.
Linkable(u) == u.google = NoGoogle

\* resolveUserByGoogleEmail: the user of the address is linked, or registered.
FindByEmail(p) ==
    LET u == users[proc[p].email]
    IN  /\ At(p, {"google"}, "byEmail")
        /\ CASE u = NoUser -> GoTo(p, "approved")
             [] u # NoUser /\ Linkable(u) -> GoTo(p, "reread")
             [] OTHER -> Finish(p)
        /\ UNCHANGED <<requests, users, tokens, granted, credit>>

(* ------------------------------ Password resets --------------------------- *)

StartReset(p, e, t) ==
    /\ tokens[t] = NoEmail
    /\ Start(p, [Idle EXCEPT !.op = "reset", !.pc = "owner", !.email = e, !.token = t])
    /\ UNCHANGED granted
StartChange(p, t) ==
    /\ tokens[t] # NoEmail
    /\ Start(p, [Idle EXCEPT !.op = "change", !.pc = "consume", !.token = t])
    /\ UNCHANGED granted

\* requestPasswordReset and changePassword look for the user.
FindOwner(p) ==
    /\ At(p, {"reset", "change"}, "owner")
    /\ IF users[proc[p].email] = NoUser THEN Finish(p)
       ELSE GoTo(p, IF proc[p].op = "reset" THEN "issue" ELSE "reread")
    /\ UNCHANGED <<requests, users, tokens, granted, credit>>

Issue(p) ==
    LET t == proc[p].token
        e == proc[p].email
    IN  /\ At(p, {"reset"}, "issue") /\ tokens[t] = NoEmail
        /\ tokens' = [tokens EXCEPT ![t] = e]
        /\ credit' = [credit EXCEPT ![e] = @ + 1]
        /\ Finish(p)
        /\ UNCHANGED <<requests, users, granted>>

\* Fault: the token is read, and left for its time to live to remove.
ConsumeKeeps(p) ==
    LET t == proc[p].token
    IN  /\ At(p, {"change"}, "consume")
        /\ IF tokens[t] = NoEmail THEN Finish(p)
           ELSE Go(p, [proc[p] EXCEPT !.pc = "owner", !.email = tokens[t]])
        /\ UNCHANGED <<requests, users, tokens, granted, credit>>
\* GETDEL: the token is gone once it was read.
Consume(p) ==
    LET t == proc[p].token
    IN  /\ At(p, {"change"}, "consume")
        /\ IF tokens[t] = NoEmail THEN Finish(p)
           ELSE Go(p, [proc[p] EXCEPT !.pc = "owner", !.email = tokens[t]])
        /\ tokens' = [tokens EXCEPT ![t] = NoEmail]
        /\ UNCHANGED <<requests, users, granted, credit>>

\* The token's time to live is over.
Expire(t) ==
    /\ tokens[t] # NoEmail
    /\ tokens' = [tokens EXCEPT ![t] = NoEmail]
    /\ UNCHANGED <<requests, users, proc, granted, credit, raced, calls>>

(* ---------------------------- Updates of a user --------------------------- *)

WritesUser == WritesLink \cup {"change"}

\* updatePassword, linkGoogleAccount and unlinkGoogleAccount read the user again.
Reread(p) ==
    /\ At(p, WritesUser, "reread")
    /\ Go(p, [proc[p] EXCEPT !.pc = "save", !.user = users[proc[p].email]])
    /\ UNCHANGED <<requests, users, tokens, granted, credit>>

Changed(r, u) == CASE r.op = "change" -> [u EXCEPT !.password = TRUE]
                   [] r.op = "unlink" -> [u EXCEPT !.google = NoGoogle]
                   [] OTHER           -> [u EXCEPT !.google = r.google]

SaveUser(p) ==
    LET r == proc[p]
        e == r.email
        new == Changed(r, r.user)
        saved == Valid(new) /\ (new.google # r.user.google => Indexed(new.google, e))
    IN  /\ At(p, WritesUser, "save")
        /\ users' = [users EXCEPT ![e] = IF saved THEN Written(@, r.user, new) ELSE @]
        /\ credit' = [credit EXCEPT ![e] = IF r.op = "change" THEN @ - 1 ELSE @]
        /\ Finish(p)
        /\ UNCHANGED <<requests, tokens, granted>>

(* ------------------------------ Specification ----------------------------- *)

\* The database or Redis fails a step, or the hub stops: the handler ends there.
Fail(p) ==
    /\ proc[p] # Idle
    /\ Finish(p)
    /\ UNCHANGED <<requests, users, tokens, granted, credit>>

Init ==
    /\ requests = [e \in Emails |-> NoRequest]
    /\ users = [e \in Emails |-> NoUser]
    /\ tokens = [t \in Tokens |-> NoEmail]
    /\ proc = [p \in Procs |-> Idle]
    /\ granted = [e \in Emails |-> {}]
    /\ credit = [e \in Emails |-> 0]
    /\ raced = {}
    /\ calls = 0

Call(p) ==
    \/ \E e \in Emails : \/ StartCreate(p, e) \/ StartCancel(p, e) \/ StartRegister(p, e)
                         \/ StartTotp(p, e) \/ StartUnlink(p, e)
                         \/ \E dto \in Dtos : StartUpdate(p, e, dto)
                         \/ \E g \in Googles : StartLink(p, e, g) \/ StartGoogle(p, e, g)
                         \/ \E t \in Tokens : StartReset(p, e, t)
    \/ \E t \in Tokens : StartChange(p, t)

Step(p) ==
    \/ ReadRequest(p) \/ SaveRequest(p)
    \/ GetApprovedRequest(p) \/ FindUser(p) \/ InsertUser(p)
    \/ ReadUser(p) \/ FindLinked(p) \/ FindByEmail(p) \/ Reread(p) \/ SaveUser(p)
    \/ FindOwner(p) \/ Issue(p) \/ Consume(p)
    \/ Fail(p)

Next == \/ \E p \in Procs : Call(p) \/ Step(p)
        \/ \E t \in Tokens : Expire(t)

Spec == Init /\ [][Next]_vars

(* -------------------------------- Properties ------------------------------ *)

(* Every variable has its type. *)
TypeOK ==
    /\ requests \in [Emails -> Requests \cup {NoRequest}]
    /\ users \in [Emails -> Users \cup {NoUser}]
    /\ tokens \in [Tokens -> Emails \cup {NoEmail}]
    /\ \A p \in Procs : /\ proc[p].email \in Emails \cup {NoEmail}
                        /\ proc[p].old \in Requests \cup {NoRequest}
                        /\ proc[p].user \in Users \cup {NoUser}
                        /\ proc[p].pc = "save" /\ proc[p].op \in WritesUser =>
                               proc[p].user # NoUser
    /\ granted \in [Emails -> SUBSET Roles]
    /\ credit \in [Emails -> Int]
    /\ raced \subseteq Emails

(* However requests overlap, a Google account signs in to one user, although    *)
(* linkAccount, signing in and registering each look for the hash and save it   *)
(* only later (auth/google-auth.service.ts).                                    *)
OneUserPerGoogle ==
    \A e, f \in Emails :
        /\ users[e] # NoUser /\ users[f] # NoUser
        /\ users[e].google = users[f].google /\ users[e].google # NoGoogle
        => e = f

(* A user has a role that an administrator approved for that address, or the    *)
(* one that comes with the administrator's one-time password: no request that   *)
(* is pending, rejected or cancelled lets anybody in (getApprovedRequestByEmail),*)
(* unless two decisions about the request were under way at once.               *)
RoleGranted ==
    \A e \in Emails \ raced : users[e] # NoUser => users[e].role \in granted[e]

(* An address that was shut out stays rejected until an administrator decides   *)
(* otherwise; only its owner, let in with the one-time password, changes that.  *)
ShutOut ==
    \A e \in Emails \ raced :
        requests[e] # NoRequest /\ requests[e].black =>
            requests[e].status = "Rejected" \/ users[e] # NoUser

(* A reset token changes one password at most, even if two requests bring it.   *)
ResetOnce == \A e \in Emails : credit[e] >= 0

(* A link to a Google account is never replaced by a link to another one: it    *)
(* has to be removed first, unless two such requests ran at once.               *)
LinkKept ==
    [][\A e \in Emails \ raced' : users[e] # NoUser /\ users[e].google \in Googles =>
           users'[e].google \in {users[e].google, NoGoogle}]_vars

=============================================================================
