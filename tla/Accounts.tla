------------------------------ MODULE Accounts ------------------------------
(***************************************************************************)
(* Accounts of users, their passwords and their 1Pass identities           *)
(* (internal/handler/auth.go, auth_1pass.go, auth_external.go,             *)
(* entity_identity.go, admin.go, and their stores).                        *)
(*                                                                         *)
(* A row of entities is always written whole (UpdateEntity ... WherePK),   *)
(* as it was when the request read it but for what the request sets. Rows  *)
(* of credentials have no unique index; names of entities and subjects of  *)
(* identities have one. Passwords are compared, never looked into; emails  *)
(* are checked and indexed like names and are left out.                    *)
(*                                                                         *)
(* An operator named X_Mutant is X with a plausible slip in it. No action  *)
(* uses it; it shows which property would notice.                          *)
(***************************************************************************)
EXTENDS Naturals, FiniteSets

CONSTANTS
  Entity,     \* rows of entities of type user
  Subject,    \* people, as the identity provider names them
  Name,       \* user names
  Prefixed,   \* names that begin with "1pass_"; nobody is kept from choosing one
  NameOf,     \* the name derived from a subject ("1pass_" and a hash)
  Secret,     \* passwords
  CredId,     \* rows of credentials
  IdentId,    \* rows of auth_external_identities
  Worker,     \* goroutines that serve requests, one request at a time
  None,
  MaxFaults   \* bound: statements that fail

ASSUME AccountsAssumption ==
  /\ Prefixed \subseteq Name
  /\ NameOf \in [Subject -> Prefixed]
  /\ \A s, t \in Subject : NameOf[s] = NameOf[t] => s = t
  /\ None \notin Entity \cup Subject \cup Name \cup Secret \cup CredId \cup IdentId
  /\ MaxFaults \in Nat

EntityRow == [status : {"free", "active", "disabled"}, name : Name \cup {None}, tagged : BOOLEAN]
CredRow   == [of : Entity \cup {None}, secret : Secret \cup {None}]
IdentRow  == [of : Entity \cup {None}, subject : Subject \cup {None}]

Registering == {"create", "password"}
Upserting   == {"upsert", "insert", "reload"}
OnePass     == {"entity", "name", "touch", "enroll", "load", "answer"} \cup Upserting
FirstSet    == {"first", "rename", "first_create"}
SetsFirst   == FirstSet \cup {"password"}
Call == [pc : {"ready", "match", "change", "unlink", "write", "attach"}
              \cup Registering \cup OnePass \cup FirstSet,
         kind : {"login", "register", "create", "link", "update", "profile"},
         me : Entity \cup {None}, row : EntityRow, subject : Subject \cup {None},
         id : CredId \cup IdentId \cup {None},
         secret : Secret \cup {None}]

VARIABLES
  entity,   \* entities table; tagged: the metadata holds the public id
  cred,     \* credentials table, type password
  ident,    \* auth_external_identities table; a deleted row keeps its subject
  session,  \* entities whose user holds a token
  call,     \* the request each worker serves
  faults,   \* statements that failed
  stranded, \* history: accounts whose creation, or last login, stored no method
  raced,    \* history: accounts of which two identities were removed at once
  doubled,  \* history: accounts whose first password two requests set at once
  retired   \* history: <<e, p>> where e replaced its password p

tables == <<entity, cred, ident>>
past   == <<stranded, raced, doubled, retired>>
vars   == <<tables, session, call, faults, past>>

FreeRow == [status |-> "free", name |-> None, tagged |-> FALSE]
Ready == [pc |-> "ready", kind |-> "login", me |-> None, row |-> FreeRow, subject |-> None,
          id |-> None, secret |-> None]

HoldsRow(r) ==
  \/ r.pc \in {"create", "password", "match", "touch", "rename", "first_create", "write", "attach"}
  \/ r.pc \in Upserting \cup {"answer"} /\ r.kind = "login"

\* what the request of a worker holds at each of its statements
CallOK(r, rows, creds) ==
  /\ IF r.pc \in {"ready", "create", "name", "enroll", "load"}
     THEN r.me = None ELSE r.me \in Entity /\ rows[r.me].status # "free"
  /\ HoldsRow(r) => r.row.status # "free" /\ r.row.name \in Name
  /\ r.pc \in OnePass => r.subject \in Subject
  /\ r.pc \in Registering \cup FirstSet \cup {"match", "change"} => r.secret \in Secret
  /\ r.pc = "change" => r.id \in CredId /\ creds[r.id].of = r.me
  /\ r.pc = "unlink" => r.id \in IdentId
  /\ r.pc \in Registering => r.kind \in {"register", "create"}
  /\ r.pc \in OnePass => r.kind \in {"login", "link"}

TypeOK ==
  /\ entity \in [Entity -> EntityRow] /\ cred \in [CredId -> CredRow]
  /\ ident \in [IdentId -> IdentRow]
  /\ \A e \in Entity : entity[e] = FreeRow \/ (entity[e].status # "free" /\ entity[e].name \in Name)
  /\ \A d, e \in Entity : entity[d].name = entity[e].name /\ entity[d].name # None => d = e
  /\ \A k \in CredId : cred[k].of # None =>
       entity[cred[k].of].status # "free" /\ cred[k].secret \in Secret
  /\ \A i, j \in IdentId :
       ident[i].of # None /\ ident[j].of # None /\ ident[i].subject = ident[j].subject => i = j
  /\ \A i \in IdentId : ident[i].of # None =>
       entity[ident[i].of].status # "free" /\ ident[i].subject \in Subject
  /\ session \subseteq {e \in Entity : entity[e].status # "free"}
  /\ call \in [Worker -> Call] /\ \A w \in Worker : CallOK(call[w], entity, cred)
  /\ faults \in Nat
  /\ stranded \subseteq Entity /\ raced \subseteq Entity /\ doubled \subseteq Entity
  /\ retired \subseteq Entity \X Secret

Init ==
  /\ entity = [e \in Entity |-> FreeRow]
  /\ cred = [k \in CredId |-> [of |-> None, secret |-> None]]
  /\ ident = [i \in IdentId |-> [of |-> None, subject |-> None]]
  /\ session = {} /\ call = [w \in Worker |-> Ready] /\ faults = 0
  /\ stranded = {} /\ raced = {} /\ doubled = {} /\ retired = {}

Goto(w, r) == call' = [call EXCEPT ![w] = r]
At(w, pc)  == Goto(w, [call[w] EXCEPT !.pc = pc])
Finish(w)  == Goto(w, Ready)
Attaching(w) ==
  Goto(w, [Ready EXCEPT !.pc = "attach", !.me = call[w].me, !.row = call[w].row])
Fault      == faults < MaxFaults /\ faults' = faults + 1
Intact     == UNCHANGED faults

Passwords(e)  == {k \in CredId : cred[k].of = e}
Identities(e) == {i \in IdentId : ident[i].of = e}
IdentOf(s)    == {i \in IdentId : ident[i].of # None /\ ident[i].subject = s}
Named(n)      == {e \in Entity : entity[e].name = n}
HasMethod(e)  == Passwords(e) \cup Identities(e) # {}

\* EntityAuth: a token whose entity is not disabled
Authenticated(e) == e \in session /\ entity[e].status # "disabled"

\* UpdateEntity: the whole row, unless its name was taken meanwhile
WriteRow(e, row) ==
  /\ Named(row.name) \subseteq {e}
  /\ entity' = [entity EXCEPT ![e] = row]

\* CreateEntity: the index on names refuses a second one
CreateRow(e, row) ==
  /\ Named(row.name) = {} /\ entity[e].status = "free"
  /\ entity' = [entity EXCEPT ![e] = row]

\* CreateCredential
CreatePassword(e, p) ==
  /\ \E k \in CredId : cred[k].of = None /\ cred' = [cred EXCEPT ![k] = [of |-> e, secret |-> p]]
  /\ retired' = retired \ {<<e, p>>} /\ stranded' = stranded \ {e}

\* another request is about to store a first password of the same account
Doubled(w, e) ==
  doubled' = IF \E v \in Worker \ {w} : call[v].pc \in SetsFirst /\ call[v].me = e
             THEN doubled \cup {e} ELSE doubled

\* the account is left as it is; nobody can log into it when it has no method
Strand(e) == stranded' = IF HasMethod(e) THEN stranded ELSE stranded \cup {e}

\* A statement fails and the handler answers with an error.
Fails(w) ==
  /\ call[w].pc # "ready" /\ Fault /\ Finish(w)
  /\ IF call[w].pc \in Upserting \cup {"password"} THEN Strand(call[w].me) ELSE UNCHANGED stranded
  /\ UNCHANGED <<tables, session, raced, doubled, retired>>
-----------------------------------------------------------------------------
(* HandleRegister, and HandleCreateUser without the first test and the token *)

RegisterCheck(w, kind, n, p) ==
  /\ call[w].pc = "ready"
  /\ \/ kind = "create" /\ Intact
     \/ kind = "register" /\ Named(n) = {} /\ Intact
     \/ kind = "register" /\ Fault
  /\ Goto(w, [Ready EXCEPT !.pc = "create", !.kind = kind, !.secret = p,
                           !.row = [status |-> "active", name |-> n, tagged |-> FALSE]])
  /\ UNCHANGED <<tables, session, past>>

Register(w) ==
  /\ call[w].pc = "create"
  /\ \/ \E e \in Entity :
          CreateRow(e, call[w].row) /\ Goto(w, [call[w] EXCEPT !.pc = "password", !.me = e])
     \/ Named(call[w].row.name) # {} /\ Finish(w) /\ UNCHANGED entity
  /\ Intact /\ UNCHANGED <<cred, ident, session, past>>

\* the row is there since Register: a 1Pass login may have found it by its name,
\* and its user set a password meanwhile
RegisterPassword(w) ==
  /\ call[w].pc = "password" /\ CreatePassword(call[w].me, call[w].secret)
  /\ Doubled(w, call[w].me)
  /\ session' = IF call[w].kind = "register" THEN session \cup {call[w].me} ELSE session
  /\ Attaching(w) /\ Intact /\ UNCHANGED <<entity, ident, raced>>

\* attachEntityIdentity: a row without its public id in the metadata is written
\* back, as the handler read it; a failure is only logged
Attach(w) ==
  LET r == call[w] IN
  /\ r.pc = "attach" /\ Finish(w)
  /\ \/ ~ r.row.tagged /\ WriteRow(r.me, [r.row EXCEPT !.tagged = TRUE])
     \/ (r.row.tagged \/ ~ Named(r.row.name) \subseteq {r.me}) /\ UNCHANGED entity
  /\ Intact /\ UNCHANGED <<cred, ident, session, past>>

ReadEntity_Mutant(w, e) ==
  /\ call[w].pc = "ready" /\ ~ entity[e].tagged
  /\ Goto(w, [Ready EXCEPT !.pc = "attach", !.me = e, !.row = entity[e]])
  /\ Intact /\ UNCHANGED <<tables, session, past>>

\* HandleMe and every other handler that answers with the entity
ReadEntity(w, e) ==
  /\ call[w].pc = "ready" /\ entity[e].status # "free" /\ ~ entity[e].tagged
  /\ Goto(w, [Ready EXCEPT !.pc = "attach", !.me = e, !.row = entity[e]])
  /\ Intact /\ UNCHANGED <<tables, session, past>>
-----------------------------------------------------------------------------
(* HandleLogin *)

Login(w, e, p) ==
  /\ call[w].pc = "ready" /\ entity[e].status = "active"
  /\ Goto(w, [Ready EXCEPT !.pc = "match", !.me = e, !.row = entity[e], !.secret = p])
  /\ Intact /\ UNCHANGED <<tables, session, past>>

LoginMatch(w) ==
  /\ call[w].pc = "match"
  /\ IF \E k \in Passwords(call[w].me) : cred[k].secret = call[w].secret
     THEN session' = session \cup {call[w].me} /\ Attaching(w)
     ELSE UNCHANGED session /\ Finish(w)
  /\ Intact /\ UNCHANGED <<tables, past>>
-----------------------------------------------------------------------------
(* HandleOnePassLogin and HandleLinkOnePass, once the ticket is exchanged *)

\* findOrCreateOnePassEntity: by identity, by derived name, or a new row; a
\* failed lookup counts as "not found"
OnePassLogin(w, s) ==
  /\ call[w].pc = "ready"
  /\ \/ \E i \in IdentOf(s) :
          Goto(w, [Ready EXCEPT !.pc = "entity", !.me = ident[i].of, !.subject = s]) /\ Intact
     \/ IdentOf(s) = {} /\ Goto(w, [Ready EXCEPT !.pc = "name", !.subject = s]) /\ Intact
     \/ Fault /\ Goto(w, [Ready EXCEPT !.pc = "name", !.subject = s])
  /\ UNCHANGED <<tables, session, past>>

LoadEntity(w) ==
  /\ call[w].pc = "entity"
  /\ Goto(w, [call[w] EXCEPT !.pc = "touch", !.row = entity[call[w].me]])
  /\ Intact /\ UNCHANGED <<tables, session, past>>

FindByName(w) ==
  LET found == Named(NameOf[call[w].subject]) IN
  /\ call[w].pc = "name"
  /\ \/ \E e \in found : Goto(w, [call[w] EXCEPT !.pc = "touch", !.me = e, !.row = entity[e]]) /\ Intact
     \/ found = {} /\ At(w, "enroll") /\ Intact
     \/ Fault /\ At(w, "enroll")
  /\ UNCHANGED <<tables, session, past>>

\* updateEntityFromOnePass writes the row when the profile changed
Touch(w) ==
  LET r == call[w] IN
  /\ r.pc = "touch"
  /\ \/ UNCHANGED entity /\ At(w, "upsert")
     \/ WriteRow(r.me, r.row) /\ At(w, "upsert")
     \/ ~ Named(r.row.name) \subseteq {r.me} /\ UNCHANGED entity /\ Finish(w)
  /\ Intact /\ UNCHANGED <<cred, ident, session, past>>

Enroll(w) ==
  LET row == [status |-> "active", name |-> NameOf[call[w].subject], tagged |-> FALSE] IN
  /\ call[w].pc = "enroll"
  /\ \/ \E e \in Entity :
          CreateRow(e, row) /\ Goto(w, [call[w] EXCEPT !.pc = "upsert", !.me = e, !.row = row])
     \/ Named(row.name) # {} /\ At(w, "load") /\ UNCHANGED entity
  /\ Intact /\ UNCHANGED <<cred, ident, session, past>>

\* "another request created the user concurrently": taken as it is, no upsert
LoadWinner(w) ==
  LET found == Named(NameOf[call[w].subject]) IN
  /\ call[w].pc = "load"
  /\ \/ \E e \in found : Goto(w, [call[w] EXCEPT !.pc = "answer", !.me = e, !.row = entity[e]])
     \/ found = {} /\ Finish(w)
  /\ Intact /\ UNCHANGED <<tables, session, past>>

\* upsertOnePassExternalIdentity: an identity found is refreshed, which no
\* property sees, or belongs to another account, which ends the request
Upsert(w) ==
  LET r == call[w]  found == IdentOf(r.subject) IN
  /\ r.pc = "upsert"
  /\ \/ \E i \in found : ident[i].of = r.me /\ At(w, "answer") /\ Intact /\ UNCHANGED stranded
     \/ \E i \in found : ident[i].of # r.me /\ Finish(w) /\ Intact /\ Strand(r.me)
     \/ found = {} /\ At(w, "insert") /\ Intact /\ UNCHANGED stranded
     \/ Fault /\ At(w, "insert") /\ UNCHANGED stranded
  /\ UNCHANGED <<tables, session, raced, doubled, retired>>

InsertIdentity(w) ==
  LET r == call[w] IN
  /\ r.pc = "insert"
  /\ \/ /\ IdentOf(r.subject) = {}
        /\ \E i \in IdentId : ident[i].subject = None
                           /\ ident' = [ident EXCEPT ![i] = [of |-> r.me, subject |-> r.subject]]
        /\ At(w, "answer") /\ stranded' = stranded \ {r.me}
     \/ IdentOf(r.subject) # {} /\ At(w, "reload") /\ UNCHANGED <<ident, stranded>>
  /\ Intact /\ UNCHANGED <<entity, cred, session, raced, doubled, retired>>

\* "another request linked concurrently": the row is taken, whosever it is
ReloadIdentity(w) ==
  /\ call[w].pc = "reload" /\ Strand(call[w].me)
  /\ IF IdentOf(call[w].subject) # {} THEN At(w, "answer") ELSE Finish(w)
  /\ Intact /\ UNCHANGED <<tables, session, raced, doubled, retired>>

\* a login gives a token, by the status read before; a link answers
OnePassAnswer(w) ==
  LET r == call[w] IN
  /\ r.pc = "answer"
  /\ IF r.kind = "login" /\ r.row.status = "active"
     THEN session' = session \cup {r.me} /\ Attaching(w)
     ELSE UNCHANGED session /\ Finish(w)
  /\ Intact /\ UNCHANGED <<tables, past>>

Link(w, e, s) ==
  /\ call[w].pc = "ready" /\ Authenticated(e)
  /\ (Intact /\ \A i \in IdentOf(s) : ident[i].of = e) \/ Fault
  /\ Goto(w, [Ready EXCEPT !.pc = "upsert", !.kind = "link", !.me = e, !.subject = s])
  /\ UNCHANGED <<tables, session, past>>

UnlinkCheck_Mutant(w, e, i) ==
  /\ call[w].pc = "ready" /\ Authenticated(e) /\ ident[i].of = e
  /\ Passwords(e) # {} \/ Cardinality(Identities(e)) > 0
  /\ Goto(w, [Ready EXCEPT !.pc = "unlink", !.me = e, !.id = i])
  /\ Intact /\ UNCHANGED <<tables, session, past>>

\* HandleUnlinkExternalIdentity: passwords are never removed, so its three reads
\* decide as one does
UnlinkCheck(w, e, i) ==
  /\ call[w].pc = "ready" /\ Authenticated(e) /\ ident[i].of = e
  /\ Passwords(e) # {} \/ Cardinality(Identities(e)) > 1
  /\ Goto(w, [Ready EXCEPT !.pc = "unlink", !.me = e, !.id = i])
  /\ Intact /\ UNCHANGED <<tables, session, past>>

Unlink(w) ==
  LET r == call[w] IN
  /\ r.pc = "unlink" /\ Finish(w)
  /\ ident' = [ident EXCEPT ![r.id].of = None]
  /\ raced' = IF \E v \in Worker \ {w} : call[v].pc = "unlink" /\ call[v].me = r.me
              THEN raced \cup {r.me} ELSE raced
  /\ Intact /\ UNCHANGED <<entity, cred, session, stranded, doubled, retired>>
-----------------------------------------------------------------------------
(* HandleChangePassword *)

PasswordRead_Mutant(w, e, old, new) ==
  /\ call[w].pc = "ready" /\ Authenticated(e)
  /\ \/ /\ \A k \in Passwords(e) : cred[k].secret # old
        /\ Goto(w, [Ready EXCEPT !.pc = "first", !.me = e, !.secret = new])
     \/ \E k \in Passwords(e) :
          /\ cred[k].secret = old
          /\ Goto(w, [Ready EXCEPT !.pc = "change", !.me = e, !.id = k, !.secret = new])
  /\ Intact /\ UNCHANGED <<tables, session, past>>

\* the first password is created, a later one replaces the row that matched
PasswordRead(w, e, old, new) ==
  /\ call[w].pc = "ready" /\ Authenticated(e)
  /\ \/ /\ Passwords(e) = {}
        /\ Goto(w, [Ready EXCEPT !.pc = "first", !.me = e, !.secret = new])
     \/ \E k \in Passwords(e) :
          /\ cred[k].secret = old
          /\ Goto(w, [Ready EXCEPT !.pc = "change", !.me = e, !.id = k, !.secret = new])
  /\ Intact /\ UNCHANGED <<tables, session, past>>

\* updateAccountLoginFields: an account named like one of 1Pass must give a name,
\* be it the one it has
FirstName(w, n) ==
  LET r == call[w]  e == r.me  row == entity[e] IN
  /\ r.pc = "first"
  /\ n = None => row.name \notin Prefixed
  /\ IF n \in {None, row.name}
     THEN Goto(w, [r EXCEPT !.pc = "first_create", !.row = row]) /\ Intact
     ELSE /\ (Named(n) = {} /\ Intact) \/ Fault
          /\ Goto(w, [r EXCEPT !.pc = "rename", !.row = [row EXCEPT !.name = n]])
  /\ UNCHANGED <<tables, session, past>>

Rename(w) ==
  LET r == call[w] IN
  /\ r.pc = "rename"
  /\ \/ WriteRow(r.me, r.row) /\ At(w, "first_create")
     \/ ~ Named(r.row.name) \subseteq {r.me} /\ Finish(w) /\ UNCHANGED entity
  /\ Intact /\ UNCHANGED <<cred, ident, session, past>>

FirstCreate(w) ==
  LET r == call[w] IN
  /\ r.pc = "first_create" /\ CreatePassword(r.me, r.secret)
  /\ Doubled(w, r.me)
  /\ Attaching(w) /\ Intact /\ UNCHANGED <<entity, ident, session, raced>>

\* UpdateCredential: the row by its key, whatever it holds by now
Replace(k, e, p) ==
  /\ cred' = [cred EXCEPT ![k].secret = p]
  /\ retired' = (retired \cup {<<e, cred[k].secret>>}) \ {<<e, p>>}

ChangePassword(w) ==
  LET r == call[w] IN
  /\ r.pc = "change" /\ Replace(r.id, r.me, r.secret) /\ Finish(w)
  /\ Intact /\ UNCHANGED <<entity, ident, session, stranded, raced, doubled>>
-----------------------------------------------------------------------------
(* HandleUpdateProfile, and the administrator, whose own account is another *)

UpdateRead(w, e, kind, status) ==
  /\ call[w].pc = "ready" /\ entity[e].status # "free"
  /\ kind = "profile" => Authenticated(e) /\ status = entity[e].status
  /\ Goto(w, [Ready EXCEPT !.pc = "write", !.kind = kind, !.me = e,
                           !.row = [entity[e] EXCEPT !.status = status]])
  /\ Intact /\ UNCHANGED <<tables, session, past>>

UpdateWrite(w) ==
  LET r == call[w] IN
  /\ r.pc = "write"
  /\ \/ /\ WriteRow(r.me, r.row)
        /\ IF r.kind = "profile" THEN Attaching(w) ELSE Finish(w)
     \/ ~ Named(r.row.name) \subseteq {r.me} /\ Finish(w) /\ UNCHANGED entity
  /\ Intact /\ UNCHANGED <<cred, ident, session, past>>

\* HandleAdminDeleteUser
Disable(e) ==
  /\ entity[e].status = "active"
  /\ entity' = [entity EXCEPT ![e].status = "disabled"]
  /\ UNCHANGED <<cred, ident, session, call, faults, past>>

\* HandleAdminResetPassword replaces the first row found
ResetPassword(w, k, p) ==
  /\ call[w].pc = "ready" /\ cred[k].of # None
  /\ Goto(w, [Ready EXCEPT !.pc = "change", !.me = cred[k].of, !.id = k, !.secret = p])
  /\ Intact /\ UNCHANGED <<tables, session, past>>
-----------------------------------------------------------------------------
Registers(w) ==
  \/ \E kind \in {"register", "create"}, n \in Name, p \in Secret : RegisterCheck(w, kind, n, p)
  \/ Register(w) \/ RegisterPassword(w)

LogsIn(w) == LoginMatch(w) \/ \E e \in Entity, p \in Secret : Login(w, e, p)

Identifies(w) ==
  \/ \E s \in Subject : OnePassLogin(w, s)
  \/ LoadEntity(w) \/ FindByName(w) \/ Touch(w) \/ Enroll(w) \/ LoadWinner(w)
  \/ Upsert(w) \/ InsertIdentity(w) \/ ReloadIdentity(w) \/ OnePassAnswer(w)

Links(w) ==
  \/ \E s \in Subject, e \in Entity : Link(w, e, s)
  \/ \E e \in Entity, i \in IdentId : UnlinkCheck(w, e, i)
  \/ Unlink(w)

SetsPassword(w) ==
  \/ \E e \in Entity, p, q \in Secret : PasswordRead(w, e, p, q)
  \/ \E n \in Name \cup {None} : FirstName(w, n)
  \/ Rename(w) \/ FirstCreate(w) \/ ChangePassword(w)
  \/ \E k \in CredId, p \in Secret : ResetPassword(w, k, p)

Updates(w) ==
  \/ \E e \in Entity, kind \in {"profile", "update"}, status \in {"active", "disabled"} :
       UpdateRead(w, e, kind, status)
  \/ \E e \in Entity : ReadEntity(w, e)
  \/ UpdateWrite(w)

Next ==
  \/ \E w \in Worker :
       \/ Registers(w) \/ LogsIn(w) \/ Identifies(w) \/ Links(w) \/ SetsPassword(w)
       \/ Updates(w) \/ Attach(w) \/ Fails(w)
  \/ \E e \in Entity : Disable(e)

Spec == Init /\ [][Next]_vars
-----------------------------------------------------------------------------
(* Properties *)

\* An account has a method to log in by unless it is being created, or its
\* creation or login ended without one (a failure, or its subject was linked to
\* another account meanwhile), or two of its identities were removed at once.
LoginRemains ==
  \A e \in Entity :
    \/ entity[e].status = "free" \/ HasMethod(e) \/ e \in stranded \cup raced
    \/ \E w \in Worker : call[w].me = e /\ call[w].pc \in Upserting \cup {"password"}

\* A password that was replaced logs in no more, however changes, resets and
\* logins overlap, unless the first password was set by two requests at once, of
\* which one may be the registration: then the account has two rows, and a change
\* replaces one of them.
PasswordReplaced ==
  \A k \in CredId :
    cred[k].of # None /\ <<cred[k].of, cred[k].secret>> \in retired => cred[k].of \in doubled
=============================================================================
