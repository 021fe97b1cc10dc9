--------------------------- MODULE AccountsProofs ---------------------------
(***************************************************************************)
(* Proofs about the accounts of users, for any number of accounts, people, *)
(* requests at once, and failures.                                         *)
(***************************************************************************)
EXTENDS Accounts, FiniteSetTheorems, TLAPS

-----------------------------------------------------------------------------
(* Types *)

\* What TypeOK says of each table
RowsOK ==
  /\ entity \in [Entity -> EntityRow]
  /\ \A e \in Entity : entity[e] = FreeRow \/ (entity[e].status # "free" /\ entity[e].name \in Name)
  /\ \A d, e \in Entity : entity[d].name = entity[e].name /\ entity[d].name # None => d = e

CredsOK ==
  /\ cred \in [CredId -> CredRow]
  /\ \A k \in CredId : cred[k].of # None =>
       entity[cred[k].of].status # "free" /\ cred[k].secret \in Secret

IdentsOK ==
  /\ ident \in [IdentId -> IdentRow]
  /\ \A i, j \in IdentId :
       ident[i].of # None /\ ident[j].of # None /\ ident[i].subject = ident[j].subject => i = j
  /\ \A i \in IdentId : ident[i].of # None =>
       entity[ident[i].of].status # "free" /\ ident[i].subject \in Subject

CallsOK == call \in [Worker -> Call] /\ \A w \in Worker : CallOK(call[w], entity, cred)

HistoryOK ==
  /\ session \subseteq {e \in Entity : entity[e].status # "free"} /\ faults \in Nat
  /\ stranded \subseteq Entity /\ raced \subseteq Entity /\ doubled \subseteq Entity
  /\ retired \subseteq Entity \X Secret

LEMMA TypeParts == TypeOK <=> RowsOK /\ CredsOK /\ IdentsOK /\ CallsOK /\ HistoryOK
BY DEF TypeOK, RowsOK, CredsOK, IdentsOK, CallsOK, HistoryOK

\* No row of entities becomes free again, no password changes its account.
Grown ==
  /\ \A e \in Entity : entity[e].status # "free" => entity'[e].status # "free"
  /\ \A k \in CredId : cred[k].of # None => cred'[k].of = cred[k].of

LEMMA Ordinary ==
  /\ FreeRow \in EntityRow /\ FreeRow.status = "free" /\ FreeRow.name = None
  /\ Ready \in Call /\ Ready.pc = "ready" /\ Ready.me = None /\ Ready.kind = "login"
  /\ CallOK(Ready, entity, cred) /\ CallOK(Ready, entity', cred')
BY DEF FreeRow, EntityRow, Ready, Call, CallOK, HoldsRow, OnePass, Upserting, Registering, FirstSet

LEMMA NamesOK ==
  None \notin Name /\ \A s \in Subject : NameOf[s] \in Name
BY AccountsAssumption

\* What a well-formed request needs stays true while the tables grow.
LEMMA StaysOK ==
  ASSUME NEW r \in Call, CallOK(r, entity, cred), Grown
  PROVE  CallOK(r, entity', cred')
<1>1. r.pc = "change" => r.id \in CredId /\ r.me \in Entity /\ cred[r.id].of = r.me
  BY DEF CallOK
<1>2. None \notin Entity
  BY AccountsAssumption
<1>3. r.pc = "change" => cred'[r.id].of = r.me
  BY <1>1, <1>2 DEF Grown
<1>4. QED
  BY <1>1, <1>3 DEF CallOK, Grown

\* One worker moves to a well-formed request.
LEMMA GotoOK ==
  ASSUME CallsOK, Grown, NEW w \in Worker, NEW r \in Call, CallOK(r, entity', cred'), Goto(w, r)
  PROVE  CallsOK' /\ call'[w] = r /\ \A v \in Worker \ {w} : call'[v] = call[v]
<1>1. call' = [call EXCEPT ![w] = r] /\ call \in [Worker -> Call]
  BY DEF Goto, CallsOK
<1>2. call' \in [Worker -> Call] /\ call'[w] = r /\ \A v \in Worker \ {w} : call'[v] = call[v]
  BY <1>1
<1>3. \A v \in Worker \ {w} : CallOK(call'[v], entity', cred')
  BY <1>1, <1>2, StaysOK DEF CallsOK
<1>4. QED
  BY <1>2, <1>3 DEF CallsOK

\* The row that attachEntityIdentity will write back
LEMMA AttachOK ==
  ASSUME NEW r \in Call, CallOK(r, entity, cred), HoldsRow(r), r.me \in Entity,
         entity'[r.me].status # "free"
  PROVE  LET a == [Ready EXCEPT !.pc = "attach", !.me = r.me, !.row = r.row] IN
         /\ a \in Call /\ a.pc = "attach" /\ a.me = r.me /\ a.row = r.row
         /\ CallOK(a, entity', cred')
<1> DEFINE a == [Ready EXCEPT !.pc = "attach", !.me = r.me, !.row = r.row]
<1>0. r.row \in EntityRow /\ FreeRow \in EntityRow
  BY Ordinary DEF Call
<1>1. a \in Call /\ a.pc = "attach" /\ a.me = r.me /\ a.row = r.row
  BY <1>0, Ordinary DEF Call
<1>2. r.row.status # "free" /\ r.row.name \in Name
  BY DEF CallOK
<1> HIDE DEF a
<1>3. CallOK(a, entity', cred')
  BY <1>1, <1>2 DEF CallOK, OnePass, Registering, FirstSet, Upserting
<1>4. QED
  BY <1>1, <1>3 DEF a

\* UpdateEntity and CreateEntity leave one account to each name.
LEMMA RowWritten ==
  ASSUME RowsOK, NEW e \in Entity, NEW row \in EntityRow,
         row.status # "free", row.name \in Name, WriteRow(e, row)
  PROVE  /\ RowsOK' /\ entity'[e] = row
         /\ \A d \in Entity \ {e} : entity'[d] = entity[d]
         /\ \A d \in Entity : entity[d].status # "free" => entity'[d].status # "free"
<1>1. entity' = [entity EXCEPT ![e] = row] /\ entity \in [Entity -> EntityRow]
  BY DEF WriteRow, RowsOK
<1>2. entity' \in [Entity -> EntityRow] /\ entity'[e] = row /\ \A d \in Entity \ {e} : entity'[d] = entity[d]
  BY <1>1
<1>3. \A d \in Entity \ {e} : entity[d].name # row.name
  BY DEF WriteRow, Named
<1>4. \A d \in Entity : \/ entity'[d] = FreeRow
                        \/ entity'[d].status # "free" /\ entity'[d].name \in Name
  BY <1>2 DEF RowsOK
<1>5. \A c, d \in Entity : entity'[c].name = entity'[d].name /\ entity'[c].name # None => c = d
  BY <1>2, <1>3 DEF RowsOK
<1>6. QED
  BY <1>2, <1>4, <1>5 DEF RowsOK

LEMMA CreateWrites ==
  ASSUME NEW e, NEW row, CreateRow(e, row)
  PROVE  WriteRow(e, row) /\ entity[e].status = "free"
BY DEF CreateRow, WriteRow

LEMMA PasswordCreated ==
  ASSUME RowsOK, CredsOK, HistoryOK, NEW e \in Entity, entity[e].status # "free", NEW p \in Secret,
         CreatePassword(e, p), entity' = entity
  PROVE  /\ CredsOK' /\ Grown
         /\ stranded' = stranded \ {e} /\ retired' = retired \ {<<e, p>>}
         /\ \E k \in CredId : /\ cred[k].of = None /\ cred'[k] = [of |-> e, secret |-> p]
                              /\ \A l \in CredId \ {k} : cred'[l] = cred[l]
<1>1. PICK k \in CredId : cred[k].of = None /\ cred' = [cred EXCEPT ![k] = [of |-> e, secret |-> p]]
  BY DEF CreatePassword
<1>2. [of |-> e, secret |-> p] \in CredRow
  BY DEF CredRow
<1>3. /\ cred' \in [CredId -> CredRow] /\ cred'[k] = [of |-> e, secret |-> p]
      /\ \A l \in CredId \ {k} : cred'[l] = cred[l]
  BY <1>1, <1>2 DEF CredsOK
<1>4. CredsOK'
  BY <1>3 DEF CredsOK
<1>5. QED
  BY <1>1, <1>3, <1>4 DEF Grown, CreatePassword

\* What a request found before it turned to its next statement
Founded(r) ==
  /\ r.pc = "unlink" =>
       ident[r.id].of = r.me /\ Passwords(r.me) \cup (Identities(r.me) \ {r.id}) # {}
  /\ r.pc \in FirstSet => Passwords(r.me) = {}
  /\ r.pc # "password"

Takes(w) == \E r \in Call : Goto(w, r) /\ CallOK(r, entity, cred) /\ Founded(r)

\* The steps that only read: whatever a worker turns to, it holds what its next
\* statement needs.
ReadsFirst(w) ==
  \/ \E kind \in {"register", "create"}, n \in Name, p \in Secret : RegisterCheck(w, kind, n, p)
  \/ \E e \in Entity : ReadEntity(w, e)
  \/ \E e \in Entity, p \in Secret : Login(w, e, p)
  \/ \E s \in Subject : OnePassLogin(w, s)
  \/ \E s \in Subject, e \in Entity : Link(w, e, s)
  \/ \E e \in Entity, i \in IdentId : UnlinkCheck(w, e, i)
  \/ \E e \in Entity, p, q \in Secret : PasswordRead(w, e, p, q)
  \/ \E e \in Entity, kind \in {"profile", "update"}, status \in {"active", "disabled"} :
       UpdateRead(w, e, kind, status)
  \/ \E k \in CredId, p \in Secret : ResetPassword(w, k, p)

ReadsOn(w) ==
  \/ LoadEntity(w) \/ FindByName(w) \/ LoadWinner(w)
  \/ \E n \in Name \cup {None} : FirstName(w, n)

LEMMA ReadsFirstOK ==
  ASSUME TypeOK, NEW w \in Worker, ReadsFirst(w)
  PROVE  /\ call[w].pc = "ready" /\ faults' \in Nat /\ UNCHANGED <<tables, session, past>>
         /\ Takes(w)
<1>0. RowsOK /\ CredsOK /\ IdentsOK /\ HistoryOK
  BY TypeParts
<1> USE AccountsAssumption, Ordinary
<1>1. call[w].pc = "ready" /\ faults' \in Nat /\ UNCHANGED <<tables, session, past>>
  <2>1. call[w].pc = "ready" /\ (Intact \/ Fault) /\ UNCHANGED <<tables, session, past>>
    BY DEF ReadsFirst, RegisterCheck, ReadEntity, Login, OnePassLogin, Link, UnlinkCheck,
           PasswordRead, UpdateRead, ResetPassword
  <2>2. QED
    BY <1>0, <2>1 DEF HistoryOK, Intact, Fault
<1>2. ASSUME NEW kind \in {"register", "create"}, NEW n \in Name, NEW p \in Secret,
             RegisterCheck(w, kind, n, p)
      PROVE  Takes(w)
  <2> DEFINE row == [status |-> "active", name |-> n, tagged |-> FALSE]
             r == [Ready EXCEPT !.pc = "create", !.kind = kind, !.secret = p, !.row = row]
  <2>1. Goto(w, r)
    BY <1>2 DEF RegisterCheck
  <2>2. row \in EntityRow /\ row.status # "free" /\ row.name \in Name /\ row.name = n
    BY DEF EntityRow
  <2> HIDE DEF row
  <2>3. r \in Call /\ r.pc = "create" /\ r.me = None /\ r.row = row /\ r.secret = p /\ r.kind = kind
    BY <2>2 DEF Call, Registering
  <2> HIDE DEF r
  <2>4. CallOK(r, entity, cred)
    BY <2>2, <2>3 DEF CallOK, Registering, OnePass, FirstSet, Upserting
  <2>f. Founded(r)
    BY <2>1, <2>2, <2>3 DEF Founded, FirstSet
  <2>5. QED
    BY <2>1, <2>3, <2>4, <2>f DEF Takes
<1>3. ASSUME NEW e \in Entity, ReadEntity(w, e)
      PROVE  Takes(w)
  <2> DEFINE r == [Ready EXCEPT !.pc = "attach", !.me = e, !.row = entity[e]]
  <2>1. Goto(w, r) /\ entity[e].status # "free"
    BY <1>3 DEF ReadEntity
  <2>2. entity[e] \in EntityRow /\ entity[e].name \in Name
    BY <1>0, <2>1 DEF RowsOK
  <2>3. r \in Call /\ r.pc = "attach" /\ r.row = entity[e] /\ r.me = e
    BY <2>2 DEF Call
  <2> HIDE DEF r
  <2>4. CallOK(r, entity, cred)
    BY <2>1, <2>2, <2>3 DEF CallOK, Registering, OnePass, FirstSet, Upserting
  <2>f. Founded(r)
    BY <2>1, <2>2, <2>3 DEF Founded, FirstSet
  <2>5. QED
    BY <2>1, <2>3, <2>4, <2>f DEF Takes
<1>4. ASSUME NEW e \in Entity, NEW p \in Secret, Login(w, e, p)
      PROVE  Takes(w)
  <2> DEFINE r == [Ready EXCEPT !.pc = "match", !.me = e, !.row = entity[e], !.secret = p]
  <2>1. Goto(w, r) /\ entity[e].status # "free"
    BY <1>4 DEF Login
  <2>2. entity[e] \in EntityRow /\ entity[e].name \in Name
    BY <1>0, <2>1 DEF RowsOK
  <2>3. r \in Call /\ r.pc = "match" /\ r.row = entity[e] /\ r.me = e /\ r.secret = p
    BY <2>2 DEF Call
  <2> HIDE DEF r
  <2>4. CallOK(r, entity, cred)
    BY <2>1, <2>2, <2>3 DEF CallOK, Registering, OnePass, FirstSet, Upserting
  <2>f. Founded(r)
    BY <2>1, <2>2, <2>3 DEF Founded, FirstSet
  <2>5. QED
    BY <2>1, <2>3, <2>4, <2>f DEF Takes
<1>5. ASSUME NEW s \in Subject, OnePassLogin(w, s)
      PROVE  Takes(w)
  <2>1. ASSUME NEW i \in IdentOf(s),
               Goto(w, [Ready EXCEPT !.pc = "entity", !.me = ident[i].of, !.subject = s])
        PROVE  Takes(w)
    <3> DEFINE r == [Ready EXCEPT !.pc = "entity", !.me = ident[i].of, !.subject = s]
    <3>1. ident[i].of \in Entity /\ entity[ident[i].of].status # "free"
      BY <1>0 DEF IdentsOK, IdentOf, IdentRow
    <3>2. r \in Call /\ r.pc = "entity" /\ r.me = ident[i].of /\ r.subject = s /\ r.kind = "login"
      BY <3>1 DEF Call, OnePass
    <3> HIDE DEF r
    <3>3. CallOK(r, entity, cred)
      BY <3>1, <3>2 DEF CallOK, HoldsRow, Registering, OnePass, FirstSet, Upserting
    <3>f. Founded(r)
      BY <3>1, <3>2, <2>1 DEF Founded, FirstSet
    <3>4. QED
      BY <2>1, <3>2, <3>3, <3>f DEF r, Takes
  <2>2. ASSUME Goto(w, [Ready EXCEPT !.pc = "name", !.subject = s])
        PROVE  Takes(w)
    <3> DEFINE r == [Ready EXCEPT !.pc = "name", !.subject = s]
    <3>1. r \in Call /\ r.pc = "name" /\ r.me = None /\ r.subject = s /\ r.kind = "login"
      BY DEF Call, OnePass
    <3> HIDE DEF r
    <3>2. CallOK(r, entity, cred)
      BY <3>1 DEF CallOK, HoldsRow, Registering, OnePass, FirstSet, Upserting
    <3>f. Founded(r)
      BY <3>1 DEF Founded, FirstSet
    <3>3. QED
      BY <2>2, <3>1, <3>2, <3>f DEF r, Takes
  <2>3. QED
    BY <1>5, <2>1, <2>2 DEF OnePassLogin
<1>6. ASSUME NEW s \in Subject, NEW e \in Entity, Link(w, e, s)
      PROVE  Takes(w)
  <2> DEFINE r == [Ready EXCEPT !.pc = "upsert", !.kind = "link", !.me = e, !.subject = s]
  <2>1. Goto(w, r) /\ entity[e].status # "free"
    BY <1>0, <1>6 DEF Link, Authenticated, HistoryOK
  <2>2. r \in Call /\ r.pc = "upsert" /\ r.me = e /\ r.subject = s /\ r.kind = "link"
    BY DEF Call, OnePass, Upserting
  <2> HIDE DEF r
  <2>3. CallOK(r, entity, cred)
    BY <2>1, <2>2 DEF CallOK, HoldsRow, Registering, OnePass, FirstSet, Upserting
  <2>f. Founded(r)
    BY <2>2 DEF Founded, FirstSet
  <2>4. QED
    BY <2>1, <2>2, <2>3, <2>f DEF Takes
<1>7. ASSUME NEW e \in Entity, NEW i \in IdentId, UnlinkCheck(w, e, i)
      PROVE  Takes(w)
  <2> DEFINE r == [Ready EXCEPT !.pc = "unlink", !.me = e, !.id = i]
  <2>1. Goto(w, r) /\ entity[e].status # "free"
    BY <1>0, <1>7 DEF UnlinkCheck, Authenticated, HistoryOK
  <2>2. r \in Call /\ r.pc = "unlink" /\ r.me = e /\ r.id = i
    BY DEF Call
  <2> HIDE DEF r
  <2>3. CallOK(r, entity, cred)
    BY <2>1, <2>2 DEF CallOK, HoldsRow, Registering, OnePass, FirstSet, Upserting
  <2>f. Founded(r)
    <3>1. ident[i].of = e /\ Passwords(e) \cup (Identities(e) \ {i}) # {}
      <4>1. ident[i].of = e /\ (Passwords(e) # {} \/ Cardinality(Identities(e)) > 1)
        BY <1>7 DEF UnlinkCheck
      <4>2. Identities(e) = {i} => Cardinality(Identities(e)) = 1
        BY FS_Singleton
      <4>3. i \in Identities(e)
        BY <4>1 DEF Identities
      <4>4. Passwords(e) # {} \/ Identities(e) # {i}
        BY <4>1, <4>2
      <4>5. QED
        BY <4>1, <4>3, <4>4
    <3>2. QED
      BY <2>2, <3>1 DEF Founded, FirstSet
  <2>4. QED
    BY <2>1, <2>2, <2>3, <2>f DEF Takes
<1>8. ASSUME NEW e \in Entity, NEW p \in Secret, NEW q \in Secret, PasswordRead(w, e, p, q)
      PROVE  Takes(w)
  <2>0. entity[e].status # "free"
    BY <1>0, <1>8 DEF PasswordRead, Authenticated, HistoryOK
  <2>1. ASSUME Goto(w, [Ready EXCEPT !.pc = "first", !.me = e, !.secret = q]), Passwords(e) = {}
        PROVE  Takes(w)
    <3> DEFINE r == [Ready EXCEPT !.pc = "first", !.me = e, !.secret = q]
    <3>1. r \in Call /\ r.pc = "first" /\ r.me = e /\ r.secret = q
      BY DEF Call, FirstSet
    <3> HIDE DEF r
    <3>2. CallOK(r, entity, cred)
      BY <2>0, <3>1 DEF CallOK, HoldsRow, Registering, OnePass, FirstSet, Upserting
    <3>f. Founded(r)
      BY <3>1, <2>1 DEF Founded, FirstSet
    <3>3. QED
      BY <2>1, <3>1, <3>2, <3>f DEF r, Takes
  <2>2. ASSUME NEW k \in Passwords(e),
               Goto(w, [Ready EXCEPT !.pc = "change", !.me = e, !.id = k, !.secret = q])
        PROVE  Takes(w)
    <3> DEFINE r == [Ready EXCEPT !.pc = "change", !.me = e, !.id = k, !.secret = q]
    <3>1. k \in CredId /\ cred[k].of = e
      BY DEF Passwords
    <3>2. r \in Call /\ r.pc = "change" /\ r.me = e /\ r.id = k /\ r.secret = q
      BY <3>1 DEF Call
    <3> HIDE DEF r
    <3>3. CallOK(r, entity, cred)
      BY <2>0, <3>1, <3>2 DEF CallOK, HoldsRow, Registering, OnePass, FirstSet, Upserting
    <3>f. Founded(r)
      BY <3>2 DEF Founded, FirstSet
    <3>4. QED
      BY <2>2, <3>2, <3>3, <3>f DEF r, Takes
  <2>3. QED
    BY <1>8, <2>1, <2>2 DEF PasswordRead
<1>9. ASSUME NEW e \in Entity, NEW kind \in {"profile", "update"},
             NEW status \in {"active", "disabled"}, UpdateRead(w, e, kind, status)
      PROVE  Takes(w)
  <2> DEFINE row == [entity[e] EXCEPT !.status = status]
             r == [Ready EXCEPT !.pc = "write", !.kind = kind, !.me = e, !.row = row]
  <2>1. Goto(w, r) /\ entity[e].status # "free"
    BY <1>9 DEF UpdateRead
  <2>2. entity[e] \in EntityRow /\ entity[e].name \in Name
    BY <1>0, <2>1 DEF RowsOK
  <2>3. row \in EntityRow /\ row.status # "free" /\ row.name \in Name /\ row.name = entity[e].name
    BY <2>2 DEF EntityRow
  <2> HIDE DEF row
  <2>4. r \in Call /\ r.pc = "write" /\ r.row = row /\ r.me = e
    BY <2>3 DEF Call
  <2> HIDE DEF r
  <2>5. CallOK(r, entity, cred)
    BY <2>1, <2>3, <2>4 DEF CallOK, Registering, OnePass, FirstSet, Upserting
  <2>f. Founded(r)
    BY <2>1, <2>3, <2>4 DEF Founded, FirstSet
  <2>6. QED
    BY <2>1, <2>4, <2>5, <2>f DEF Takes
<1>10. ASSUME NEW k \in CredId, NEW p \in Secret, ResetPassword(w, k, p)
       PROVE  Takes(w)
  <2> DEFINE r == [Ready EXCEPT !.pc = "change", !.me = cred[k].of, !.id = k, !.secret = p]
  <2>1. Goto(w, r) /\ cred[k].of # None
    BY <1>10 DEF ResetPassword
  <2>2. cred[k].of \in Entity /\ entity[cred[k].of].status # "free"
    BY <1>0, <2>1 DEF CredsOK, CredRow
  <2>3. r \in Call /\ r.pc = "change" /\ r.me = cred[k].of /\ r.id = k /\ r.secret = p
    BY <2>2 DEF Call
  <2> HIDE DEF r
  <2>4. CallOK(r, entity, cred)
    BY <2>2, <2>3 DEF CallOK, HoldsRow, Registering, OnePass, FirstSet, Upserting
  <2>f. Founded(r)
    BY <2>2, <2>3 DEF Founded, FirstSet
  <2>5. QED
    BY <2>1, <2>3, <2>4, <2>f DEF Takes
<1>11. QED
  BY <1>1, <1>2, <1>3, <1>4, <1>5, <1>6, <1>7, <1>8, <1>9, <1>10 DEF ReadsFirst

-----------------------------------------------------------------------------
(* What a step of a request leaves behind *)

\* An account under way whose method to log in by is still to be stored
Undecided(r) == r.pc \in Upserting \cup {"password"}

\* How a request goes on from one statement to the next
Follows(w, r) ==
  /\ r.pc \notin {"unlink", "create"}
  /\ r.pc \in FirstSet => call[w].pc \in FirstSet /\ r.me = call[w].me
  /\ r.pc = "password" => entity[r.me].status = "free"
  /\ \A e \in Entity : call[w].me = e /\ Undecided(call[w]) =>
       (Undecided(r) /\ r.me = e) \/ HasMethod(e)' \/ e \in stranded'
  /\ \A e \in Entity : entity[e].status = "free" /\ entity'[e].status # "free" =>
       Undecided(r) /\ r.me = e

Advances(w) == \E r \in Call : Goto(w, r) /\ CallOK(r, entity', cred') /\ Follows(w, r)

\* Nothing that an account has is taken from it.
Keeps ==
  /\ Grown
  /\ \A i \in IdentId : ident[i].subject # None => ident'[i] = ident[i]
  /\ raced' = raced /\ \A e \in stranded \ stranded' : HasMethod(e)'

WellKept == RowsOK' /\ CredsOK' /\ IdentsOK' /\ HistoryOK' /\ Keeps

LEMMA WorkerOK ==
  ASSUME TypeOK, NEW w \in Worker
  PROVE  /\ RowsOK /\ CredsOK /\ IdentsOK /\ CallsOK /\ HistoryOK
         /\ call[w] \in Call /\ CallOK(call[w], entity, cred)
BY TypeParts DEF CallsOK

\* A step that writes no table, and gives a token at most to its own account
LEMMA SameTables ==
  ASSUME TypeOK, NEW w \in Worker, UNCHANGED <<tables, raced, doubled, retired>>,
         stranded \subseteq stranded', stranded' \subseteq Entity, faults' \in Nat,
         \/ session' = session
         \/ /\ session' = session \cup {call[w].me}
            /\ call[w].me \in Entity /\ entity[call[w].me].status # "free"
  PROVE  WellKept
<1>1. RowsOK /\ CredsOK /\ IdentsOK /\ HistoryOK
  BY TypeParts
<1>2. UNCHANGED <<entity, cred, ident>>
  BY DEF tables
<1>3. RowsOK' /\ CredsOK' /\ IdentsOK' /\ HistoryOK'
  BY <1>1, <1>2 DEF RowsOK, CredsOK, IdentsOK, HistoryOK
<1>4. Keeps
  BY <1>2 DEF Keeps, Grown
<1>5. QED
  BY <1>3, <1>4 DEF WellKept

\* A step that writes one row of entities
LEMMA OneRowWritten ==
  ASSUME TypeOK, NEW e \in Entity, NEW row \in EntityRow,
         row.status # "free", row.name \in Name, WriteRow(e, row),
         UNCHANGED <<cred, ident, session, past>>, faults' \in Nat
  PROVE  /\ WellKept /\ entity'[e] = row
         /\ \A d \in Entity \ {e} : entity'[d] = entity[d]
<1>1. RowsOK /\ CredsOK /\ IdentsOK /\ HistoryOK
  BY TypeParts
<1>2. /\ RowsOK' /\ entity'[e] = row
      /\ \A d \in Entity \ {e} : entity'[d] = entity[d]
      /\ \A d \in Entity : entity[d].status # "free" => entity'[d].status # "free"
  BY <1>1, RowWritten
<1>3. CredsOK' /\ IdentsOK' /\ HistoryOK'
  <2>1. \A k \in CredId : cred[k].of # None => cred[k].of \in Entity
    BY <1>1 DEF CredsOK, CredRow
  <2>2. \A i \in IdentId : ident[i].of # None => ident[i].of \in Entity
    BY <1>1 DEF IdentsOK, IdentRow
  <2>3. QED
    BY <1>1, <1>2, <2>1, <2>2 DEF CredsOK, IdentsOK, HistoryOK, past
<1>4. Keeps
  BY <1>2 DEF Keeps, Grown, past
<1>5. QED
  BY <1>2, <1>3, <1>4 DEF WellKept

\* The request ends.
LEMMA EndsOK ==
  ASSUME NEW w \in Worker, Goto(w, Ready), entity' = entity,
         \A e \in Entity : call[w].me = e /\ Undecided(call[w]) =>
           HasMethod(e)' \/ e \in stranded'
  PROVE  Advances(w)
<1>1. Follows(w, Ready)
  <2>1. None \notin Entity
    BY AccountsAssumption
  <2>2. QED
    BY <2>1, Ordinary DEF Follows, FirstSet
<1>2. QED
  BY <1>1, Ordinary DEF Advances

\* The answer attaches the public id to the row it was read with.
LEMMA AttachesOK ==
  ASSUME TypeOK, NEW w \in Worker, HoldsRow(call[w]), call[w].me \in Entity,
         entity' = entity, Attaching(w),
         \A e \in Entity : call[w].me = e /\ Undecided(call[w]) => HasMethod(e)'
  PROVE  Advances(w)
<1> DEFINE a == [Ready EXCEPT !.pc = "attach", !.me = call[w].me, !.row = call[w].row]
<1>1. entity'[call[w].me].status # "free"
  BY WorkerOK, AccountsAssumption DEF CallOK
<1>2. a \in Call /\ a.pc = "attach" /\ a.me = call[w].me /\ a.row = call[w].row
      /\ CallOK(a, entity', cred')
  BY <1>1, WorkerOK, AttachOK
<1>3. Goto(w, a)
  BY DEF Attaching
<1> HIDE DEF a
<1>4. Follows(w, a)
  BY <1>2 DEF Follows, FirstSet
<1>5. QED
  BY <1>2, <1>3, <1>4 DEF Advances

LEMMA ReadsOnOK ==
  ASSUME TypeOK, NEW w \in Worker, ReadsOn(w)
  PROVE  WellKept /\ Advances(w)
<1> DEFINE me == call[w].me
<1>0. RowsOK /\ CredsOK /\ IdentsOK /\ HistoryOK /\ call[w] \in Call /\ CallOK(call[w], entity, cred)
  BY WorkerOK
<1>1. UNCHANGED <<tables, session, past>> /\ faults' \in Nat
  <2>1. UNCHANGED <<tables, session, past>> /\ (Intact \/ Fault)
    BY DEF ReadsOn, LoadEntity, FindByName, LoadWinner, FirstName
  <2>2. QED
    BY <1>0, <2>1 DEF HistoryOK, Intact, Fault
<1>2. UNCHANGED <<entity, cred, ident, session, stranded, raced, doubled, retired>>
  BY <1>1 DEF tables, past
<1>3. WellKept
  BY <1>0, <1>1, <1>2, SameTables DEF HistoryOK
<1>5. ~Undecided(call[w])
  BY DEF ReadsOn, LoadEntity, FindByName, LoadWinner, FirstName, Undecided, Upserting
<1>6. ASSUME LoadEntity(w) PROVE Advances(w)
  <2> DEFINE r == [call[w] EXCEPT !.pc = "touch", !.row = entity[me]]
  <2>1. Goto(w, r) /\ call[w].pc = "entity" /\ me \in Entity /\ entity[me].status # "free"
        /\ call[w].subject \in Subject /\ call[w].kind \in {"login", "link"}
    BY <1>0, <1>6 DEF LoadEntity, CallOK, OnePass
  <2>2. entity[me] \in EntityRow /\ entity[me].name \in Name
    BY <1>0, <2>1, Ordinary DEF RowsOK
  <2>3. r \in Call /\ r.pc = "touch" /\ r.me = me /\ r.row = entity[me]
        /\ r.subject = call[w].subject /\ r.kind = call[w].kind
    BY <1>0, <2>2 DEF Call, OnePass
  <2> HIDE DEF r
  <2>4. CallOK(r, entity', cred')
    BY <1>2, <2>1, <2>2, <2>3 DEF CallOK, Registering, OnePass, FirstSet, Upserting
  <2>5. Follows(w, r)
    BY <1>2, <1>5, <2>1, <2>3 DEF Follows, FirstSet
  <2>6. QED
    BY <2>1, <2>3, <2>4, <2>5 DEF Advances
<1>7. ASSUME NEW e \in Named(NameOf[call[w].subject]), NEW pc \in {"touch", "answer"},
             call[w].pc \in {"name", "load"},
             Goto(w, [call[w] EXCEPT !.pc = pc, !.me = e, !.row = entity[e]])
      PROVE  Advances(w)
  <2> DEFINE r == [call[w] EXCEPT !.pc = pc, !.me = e, !.row = entity[e]]
  <2>1. call[w].subject \in Subject /\ call[w].kind \in {"login", "link"}
    BY <1>0, <1>7 DEF CallOK, OnePass
  <2>2. e \in Entity /\ entity[e].name \in Name
    BY <2>1, NamesOK DEF Named
  <2>3. entity[e] \in EntityRow /\ entity[e].status # "free"
    BY <1>0, <2>2, NamesOK, Ordinary DEF RowsOK
  <2>4. r \in Call /\ r.pc = pc /\ r.me = e /\ r.row = entity[e]
        /\ r.subject = call[w].subject /\ r.kind = call[w].kind
    BY <1>0, <2>2, <2>3 DEF Call, OnePass
  <2> HIDE DEF r
  <2>5. CallOK(r, entity', cred')
    BY <1>2, <2>1, <2>2, <2>3, <2>4 DEF CallOK, Registering, OnePass, FirstSet, Upserting
  <2>6. Follows(w, r)
    BY <1>2, <1>5, <1>7, <2>4 DEF Follows, FirstSet
  <2>7. QED
    BY <1>7, <2>4, <2>5, <2>6 DEF Advances, r
<1>8. ASSUME call[w].pc = "name", At(w, "enroll") PROVE Advances(w)
  <2> DEFINE r == [call[w] EXCEPT !.pc = "enroll"]
  <2>1. Goto(w, r) /\ call[w].subject \in Subject /\ call[w].kind \in {"login", "link"} /\ me = None
    BY <1>0, <1>8 DEF At, CallOK, OnePass
  <2>2. r \in Call /\ r.pc = "enroll" /\ r.me = None
        /\ r.subject = call[w].subject /\ r.kind = call[w].kind
    BY <1>0, <2>1 DEF Call, OnePass
  <2> HIDE DEF r
  <2>3. CallOK(r, entity', cred')
    BY <2>1, <2>2 DEF CallOK, HoldsRow, Registering, OnePass, FirstSet, Upserting
  <2>4. Follows(w, r)
    BY <1>2, <1>5, <2>2, AccountsAssumption DEF Follows, FirstSet
  <2>5. QED
    BY <2>1, <2>2, <2>3, <2>4 DEF Advances
<1>9. ASSUME NEW n \in Name \cup {None}, FirstName(w, n) PROVE Advances(w)
  <2>1. call[w].pc = "first" /\ me \in Entity /\ entity[me].status # "free"
        /\ call[w].secret \in Secret
    BY <1>0, <1>9 DEF FirstName, CallOK, FirstSet
  <2>2. entity[me] \in EntityRow /\ entity[me].name \in Name
    BY <1>0, <2>1, Ordinary DEF RowsOK
  <2>3. PICK pc \in {"rename", "first_create"}, row \in EntityRow :
          /\ row.status # "free" /\ row.name \in Name
          /\ Goto(w, [call[w] EXCEPT !.pc = pc, !.row = row])
    <3>1. CASE n \in {None, entity[me].name}
      BY <1>9, <2>1, <2>2, <3>1 DEF FirstName
    <3>2. CASE n \notin {None, entity[me].name}
      <4>1. [entity[me] EXCEPT !.name = n] \in EntityRow
            /\ [entity[me] EXCEPT !.name = n].status = entity[me].status
            /\ [entity[me] EXCEPT !.name = n].name = n /\ n \in Name
        BY <2>2, <3>2 DEF EntityRow
      <4>2. Goto(w, [call[w] EXCEPT !.pc = "rename", !.row = [entity[me] EXCEPT !.name = n]])
        BY <1>9, <3>2 DEF FirstName
      <4>3. QED
        BY <2>1, <4>1, <4>2
    <3>3. QED
      BY <3>1, <3>2
  <2> DEFINE r == [call[w] EXCEPT !.pc = pc, !.row = row]
  <2>4. r \in Call /\ r.pc = pc /\ r.me = me /\ r.row = row /\ r.secret = call[w].secret
    BY <1>0 DEF Call, FirstSet
  <2> HIDE DEF r
  <2>5. CallOK(r, entity', cred')
    BY <1>2, <2>1, <2>3, <2>4 DEF CallOK, Registering, OnePass, FirstSet, Upserting
  <2>6. Follows(w, r)
    BY <1>2, <1>5, <2>1, <2>4 DEF Follows, FirstSet
  <2>7. QED
    BY <2>3, <2>4, <2>5, <2>6 DEF Advances, r
<1>10. ASSUME FindByName(w) PROVE Advances(w)
  BY <1>7, <1>8, <1>10 DEF FindByName
<1>11. ASSUME LoadWinner(w) PROVE Advances(w)
  BY <1>2, <1>5, <1>7, <1>11, EndsOK DEF LoadWinner, Finish
<1>12. QED
  BY <1>3, <1>6, <1>9, <1>10, <1>11 DEF ReadsOn

\* The request goes on about the same account and changes nothing but its place.
LEMMA MovesOK ==
  ASSUME TypeOK, NEW w \in Worker, UNCHANGED <<entity, cred>>, NEW pc \in {"insert", "reload", "answer"},
         At(w, pc), call[w].pc \in Upserting,
         pc = "answer" => \A e \in Entity : call[w].me = e => HasMethod(e)' \/ e \in stranded'
  PROVE  Advances(w)
<1> DEFINE r == [call[w] EXCEPT !.pc = pc]
<1>0. call[w] \in Call /\ CallOK(call[w], entity, cred) /\ call[w].pc \in OnePass
  BY WorkerOK DEF OnePass
<1>1. Goto(w, r)
  BY DEF At
<1>2. r \in Call /\ r.pc = pc /\ r.me = call[w].me /\ r.row = call[w].row
      /\ r.subject = call[w].subject /\ r.kind = call[w].kind
  BY <1>0 DEF Call, OnePass, Upserting
<1>3. HoldsRow(r) => HoldsRow(call[w])
  BY <1>2 DEF HoldsRow
<1> HIDE DEF r
<1>4. CallOK(r, entity', cred')
  BY <1>0, <1>2, <1>3 DEF CallOK, Registering, OnePass, FirstSet, Upserting
<1>5. Follows(w, r)
  BY <1>2 DEF Follows, FirstSet, Undecided, Upserting
<1>6. QED
  BY <1>1, <1>2, <1>4, <1>5 DEF Advances

\* What Upserting and OnePassAnswer know of their account
LEMMA AccountKnown ==
  ASSUME TypeOK, NEW w \in Worker,
         call[w].pc \notin {"ready", "create", "name", "enroll", "load"}
  PROVE  call[w].me \in Entity /\ entity[call[w].me].status # "free"
BY WorkerOK DEF CallOK

LEMMA LoginMatchOK ==
  ASSUME TypeOK, NEW w \in Worker, LoginMatch(w)
  PROVE  WellKept /\ Advances(w)
<1>1. /\ call[w].pc = "match" /\ call[w].me \in Entity /\ entity[call[w].me].status # "free"
      /\ UNCHANGED <<entity, cred, ident, stranded, raced, doubled, retired>>
      /\ faults' \in Nat /\ stranded \subseteq Entity /\ ~Undecided(call[w])
  BY AccountKnown, WorkerOK
     DEF LoginMatch, HistoryOK, Intact, tables, past, Undecided, Upserting
<1>2. CASE \E k \in Passwords(call[w].me) : cred[k].secret = call[w].secret
  <2>1. session' = session \cup {call[w].me} /\ Attaching(w)
    BY <1>2 DEF LoginMatch
  <2>2. QED
    BY <1>1, <2>1, SameTables, AttachesOK DEF HoldsRow, tables
<1>3. CASE ~ \E k \in Passwords(call[w].me) : cred[k].secret = call[w].secret
  BY <1>1, <1>3, SameTables, EndsOK DEF LoginMatch, Finish, tables
<1>4. QED
  BY <1>2, <1>3

LEMMA OnePassAnswerOK ==
  ASSUME TypeOK, NEW w \in Worker, OnePassAnswer(w)
  PROVE  WellKept /\ Advances(w)
<1>1. /\ call[w].pc = "answer" /\ call[w].me \in Entity /\ entity[call[w].me].status # "free"
      /\ UNCHANGED <<entity, cred, ident, stranded, raced, doubled, retired>>
      /\ faults' \in Nat /\ stranded \subseteq Entity /\ ~Undecided(call[w])
  BY AccountKnown, WorkerOK
     DEF OnePassAnswer, HistoryOK, Intact, tables, past, Undecided, Upserting
<1>2. CASE call[w].kind = "login" /\ call[w].row.status = "active"
  <2>1. session' = session \cup {call[w].me} /\ Attaching(w)
    BY <1>2 DEF OnePassAnswer
  <2>2. QED
    BY <1>1, <1>2, <2>1, SameTables, AttachesOK DEF HoldsRow, tables
<1>3. CASE ~(call[w].kind = "login" /\ call[w].row.status = "active")
  BY <1>1, <1>3, SameTables, EndsOK DEF OnePassAnswer, Finish, tables
<1>4. QED
  BY <1>2, <1>3

LEMMA StrandOK ==
  ASSUME TypeOK, NEW e \in Entity, Strand(e), UNCHANGED <<cred, ident>>
  PROVE  /\ stranded \subseteq stranded' /\ stranded' \subseteq Entity
         /\ HasMethod(e)' \/ e \in stranded'
BY DEF TypeOK, Strand, HasMethod, Passwords, Identities

LEMMA UpsertOK ==
  ASSUME TypeOK, NEW w \in Worker, Upsert(w)
  PROVE  WellKept /\ Advances(w)
<1> DEFINE me == call[w].me
           found == IdentOf(call[w].subject)
<1>1. /\ call[w].pc = "upsert" /\ me \in Entity
      /\ UNCHANGED <<entity, cred, ident, session, raced, doubled, retired>> /\ UNCHANGED tables
      /\ faults' \in Nat /\ stranded \subseteq Entity
  <2>1. /\ call[w].pc = "upsert" /\ UNCHANGED <<tables, session, raced, doubled, retired>>
        /\ Intact \/ Fault
    BY DEF Upsert
  <2>2. QED
    BY <2>1, AccountKnown, WorkerOK DEF HistoryOK, Intact, Fault, tables
<1>2. CASE \E i \in found : ident[i].of = me /\ At(w, "answer") /\ UNCHANGED stranded
  <2>1. \A e \in Entity : me = e => HasMethod(e)'
    BY <1>1, <1>2 DEF HasMethod, Identities, IdentOf
  <2>2. QED
    BY <1>1, <1>2, <2>1, SameTables, MovesOK DEF Upserting
<1>3. CASE Finish(w) /\ Strand(me)
  BY <1>1, <1>3, StrandOK, SameTables, EndsOK DEF Finish
<1>4. CASE At(w, "insert") /\ UNCHANGED stranded
  BY <1>1, <1>4, SameTables, MovesOK DEF Upserting
<1>5. QED
  BY <1>2, <1>3, <1>4 DEF Upsert

LEMMA ReloadIdentityOK ==
  ASSUME TypeOK, NEW w \in Worker, ReloadIdentity(w)
  PROVE  WellKept /\ Advances(w)
<1> DEFINE me == call[w].me
<1>1. /\ call[w].pc = "reload" /\ me \in Entity /\ Strand(me)
      /\ UNCHANGED <<entity, cred, ident, session, raced, doubled, retired>> /\ UNCHANGED tables
      /\ faults' \in Nat /\ (At(w, "answer") \/ Finish(w))
  BY AccountKnown, WorkerOK DEF ReloadIdentity, HistoryOK, Intact, tables
<1>2. stranded \subseteq stranded' /\ stranded' \subseteq Entity
  BY <1>1, StrandOK
<1>3. WellKept
  BY <1>1, <1>2, SameTables
<1>4. \A e \in Entity : me = e => HasMethod(e)' \/ e \in stranded'
  BY <1>1, StrandOK
<1>5. CASE At(w, "answer")
  BY <1>1, <1>3, <1>4, <1>5, MovesOK DEF Upserting
<1>6. CASE Finish(w)
  BY <1>1, <1>3, <1>4, <1>6, EndsOK DEF Finish
<1>7. QED
  BY <1>1, <1>5, <1>6

LEMMA FailsOK ==
  ASSUME TypeOK, NEW w \in Worker, Fails(w)
  PROVE  WellKept /\ Advances(w)
<1>1. /\ UNCHANGED <<entity, cred, ident, session, raced, doubled, retired>> /\ UNCHANGED tables
      /\ Finish(w) /\ faults' \in Nat /\ stranded \subseteq Entity
      /\ IF Undecided(call[w]) THEN Strand(call[w].me) ELSE UNCHANGED stranded
  BY WorkerOK DEF Fails, Fault, HistoryOK, tables, Undecided
<1>2. CASE Undecided(call[w])
  <2>1. call[w].me \in Entity
    BY <1>2, AccountKnown DEF Undecided, Upserting
  <2>2. \A e \in Entity : call[w].me = e =>
          /\ stranded \subseteq stranded' /\ stranded' \subseteq Entity
          /\ HasMethod(e)' \/ e \in stranded'
    BY <1>1, <1>2, StrandOK
  <2>3. QED
    BY <1>1, <2>1, <2>2, SameTables, EndsOK DEF Finish
<1>3. CASE ~Undecided(call[w])
  BY <1>1, <1>3, SameTables, EndsOK DEF Finish
<1>4. QED
  BY <1>2, <1>3

\* The steps that write a row of entities
LEMMA RegisterOK ==
  ASSUME TypeOK, NEW w \in Worker, Register(w)
  PROVE  WellKept /\ Advances(w)
<1>0. /\ RowsOK /\ HistoryOK /\ call[w] \in Call /\ CallOK(call[w], entity, cred)
  BY WorkerOK
<1>1. /\ call[w].pc = "create" /\ UNCHANGED <<cred, ident, session, past>> /\ faults' \in Nat
      /\ call[w].row \in EntityRow /\ call[w].row.status # "free" /\ call[w].row.name \in Name
      /\ ~Undecided(call[w])
  BY <1>0 DEF Register, HistoryOK, Intact, CallOK, HoldsRow, Call, Undecided, Upserting
<1>2. ASSUME NEW e \in Entity, CreateRow(e, call[w].row),
             Goto(w, [call[w] EXCEPT !.pc = "password", !.me = e])
      PROVE  WellKept /\ Advances(w)
  <2> DEFINE r == [call[w] EXCEPT !.pc = "password", !.me = e]
  <2>1. WriteRow(e, call[w].row) /\ entity[e].status = "free"
    BY <1>2, CreateWrites
  <2>2. /\ WellKept /\ entity'[e] = call[w].row
        /\ \A d \in Entity \ {e} : entity'[d] = entity[d]
    BY <1>1, <2>1, OneRowWritten
  <2>3. r \in Call /\ r.pc = "password" /\ r.me = e /\ r.row = call[w].row
        /\ r.secret = call[w].secret /\ r.kind = call[w].kind
    BY <1>0 DEF Call, Registering
  <2> HIDE DEF r
  <2>4. CallOK(r, entity', cred')
    BY <1>0, <1>1, <2>2, <2>3 DEF CallOK, Registering, OnePass, FirstSet, Upserting
  <2>5. Follows(w, r)
    BY <1>1, <2>1, <2>2, <2>3 DEF Follows, FirstSet, Undecided
  <2>6. QED
    BY <1>2, <2>2, <2>3, <2>4, <2>5 DEF Advances, r
<1>3. CASE Finish(w) /\ UNCHANGED entity
  BY <1>1, <1>3, SameTables, EndsOK, WorkerOK DEF Finish, tables, past, HistoryOK
<1>4. QED
  BY <1>2, <1>3 DEF Register

LEMMA EnrollOK ==
  ASSUME TypeOK, NEW w \in Worker, Enroll(w)
  PROVE  WellKept /\ Advances(w)
<1> DEFINE name == NameOf[call[w].subject]
           row == [status |-> "active", name |-> name, tagged |-> FALSE]
<1>0. /\ RowsOK /\ HistoryOK /\ call[w] \in Call /\ CallOK(call[w], entity, cred)
  BY WorkerOK
<1>1. /\ call[w].pc = "enroll" /\ UNCHANGED <<cred, ident, session, past>> /\ faults' \in Nat
      /\ call[w].subject \in Subject /\ call[w].kind \in {"login", "link"} /\ call[w].me = None
      /\ ~Undecided(call[w])
  BY <1>0 DEF Enroll, HistoryOK, Intact, CallOK, OnePass, Undecided, Upserting
<1>2. name \in Name
  BY <1>1, NamesOK
<1>3. row \in EntityRow /\ row.status # "free" /\ row.name = name
  BY <1>2 DEF EntityRow
<1>4. \/ \E e \in Entity :
           CreateRow(e, row) /\ Goto(w, [call[w] EXCEPT !.pc = "upsert", !.me = e, !.row = row])
      \/ At(w, "load") /\ UNCHANGED entity
  BY DEF Enroll
<1> HIDE DEF row, name
<1>5. ASSUME NEW e \in Entity, CreateRow(e, row),
             Goto(w, [call[w] EXCEPT !.pc = "upsert", !.me = e, !.row = row])
      PROVE  WellKept /\ Advances(w)
  <2> DEFINE r == [call[w] EXCEPT !.pc = "upsert", !.me = e, !.row = row]
  <2>1. WriteRow(e, row) /\ entity[e].status = "free"
    BY <1>5, CreateWrites
  <2>2. /\ WellKept /\ entity'[e] = row
        /\ \A d \in Entity \ {e} : entity'[d] = entity[d]
    BY <1>1, <1>2, <1>3, <2>1, OneRowWritten
  <2>3. r \in Call /\ r.pc = "upsert" /\ r.me = e /\ r.row = row
        /\ r.subject = call[w].subject /\ r.kind = call[w].kind
    BY <1>0, <1>3 DEF Call, OnePass, Upserting
  <2> HIDE DEF r
  <2>4. CallOK(r, entity', cred')
    BY <1>1, <1>2, <1>3, <2>2, <2>3 DEF CallOK, Registering, OnePass, FirstSet, Upserting
  <2>5. Follows(w, r)
    BY <1>1, <2>2, <2>3 DEF Follows, FirstSet, Undecided, Upserting
  <2>6. QED
    BY <1>5, <2>2, <2>3, <2>4, <2>5 DEF Advances, r
<1>6. CASE At(w, "load") /\ UNCHANGED entity
  <2> DEFINE r == [call[w] EXCEPT !.pc = "load"]
  <2>1. Goto(w, r)
    BY <1>6 DEF At
  <2>2. r \in Call /\ r.pc = "load" /\ r.me = None
        /\ r.subject = call[w].subject /\ r.kind = call[w].kind
    BY <1>0, <1>1 DEF Call, OnePass
  <2> HIDE DEF r
  <2>3. CallOK(r, entity', cred')
    BY <1>1, <2>2 DEF CallOK, HoldsRow, Registering, OnePass, FirstSet, Upserting
  <2>4. Follows(w, r)
    BY <1>1, <1>6, <2>2, AccountsAssumption DEF Follows, FirstSet
  <2>5. WellKept
    BY <1>0, <1>1, <1>6, SameTables DEF tables, past, HistoryOK
  <2>6. QED
    BY <2>1, <2>2, <2>3, <2>4, <2>5 DEF Advances
<1>7. QED
  BY <1>4, <1>5, <1>6

\* What the four requests that write a row back hold
LEMMA HeldRow ==
  ASSUME TypeOK, NEW w \in Worker, call[w].pc \in {"touch", "rename", "attach", "write"}
  PROVE  /\ call[w].me \in Entity /\ entity[call[w].me].status # "free"
         /\ call[w].row \in EntityRow /\ call[w].row.status # "free" /\ call[w].row.name \in Name
         /\ ~Undecided(call[w])
BY AccountKnown, WorkerOK DEF CallOK, HoldsRow, Call, Undecided, Upserting

LEMMA AttachStepOK ==
  ASSUME TypeOK, NEW w \in Worker, Attach(w)
  PROVE  WellKept /\ Advances(w)
<1> DEFINE row == [call[w].row EXCEPT !.tagged = TRUE]
<1>1. /\ call[w].pc = "attach" /\ UNCHANGED <<cred, ident, session, past>> /\ faults' \in Nat
      /\ Goto(w, Ready) /\ (WriteRow(call[w].me, row) \/ UNCHANGED entity)
  BY WorkerOK DEF Attach, HistoryOK, Intact, Finish
<1>2. row \in EntityRow /\ row.status # "free" /\ row.name = call[w].row.name
  BY <1>1, HeldRow DEF EntityRow
<1> HIDE DEF row
<1>3. CASE WriteRow(call[w].me, row)
  <2>1. /\ WellKept /\ \A d \in Entity \ {call[w].me} : entity'[d] = entity[d]
    BY <1>1, <1>2, <1>3, HeldRow, OneRowWritten
  <2>2. Follows(w, Ready)
    BY <1>1, <2>1, HeldRow, Ordinary, AccountsAssumption DEF Follows, FirstSet
  <2>3. QED
    BY <1>1, <2>1, <2>2, Ordinary DEF Advances
<1>4. CASE UNCHANGED entity
  BY <1>1, <1>4, HeldRow, SameTables, EndsOK, WorkerOK DEF tables, past, HistoryOK
<1>5. QED
  BY <1>1, <1>3, <1>4

LEMMA TouchOK ==
  ASSUME TypeOK, NEW w \in Worker, Touch(w)
  PROVE  WellKept /\ Advances(w)
<1> DEFINE me == call[w].me
<1>0. /\ HistoryOK /\ call[w] \in Call /\ CallOK(call[w], entity, cred)
  BY WorkerOK
<1>1. /\ call[w].pc = "touch" /\ UNCHANGED <<cred, ident, session, past>> /\ faults' \in Nat
      /\ \/ At(w, "upsert") /\ (UNCHANGED entity \/ WriteRow(me, call[w].row))
         \/ Finish(w) /\ UNCHANGED entity
  BY <1>0 DEF Touch, HistoryOK, Intact
<1>2. CASE Finish(w) /\ UNCHANGED entity
  BY <1>0, <1>1, <1>2, HeldRow, SameTables, EndsOK DEF Finish, tables, past, HistoryOK
<1>3. CASE At(w, "upsert") /\ (UNCHANGED entity \/ WriteRow(me, call[w].row))
  <2> DEFINE r == [call[w] EXCEPT !.pc = "upsert"]
  <2>1. /\ WellKept /\ \A d \in Entity : entity[d].status # "free" <=> entity'[d].status # "free"
    <3>1. CASE UNCHANGED entity
      BY <1>0, <1>1, <3>1, SameTables DEF tables, past, HistoryOK
    <3>2. CASE WriteRow(me, call[w].row)
      <4>1. /\ WellKept /\ entity'[me] = call[w].row
            /\ \A d \in Entity \ {me} : entity'[d] = entity[d]
        BY <1>1, <3>2, HeldRow, OneRowWritten
      <4>2. QED
        BY <1>1, <4>1, HeldRow
    <3>3. QED
      BY <1>3, <3>1, <3>2
  <2>2. Goto(w, r)
    BY <1>3 DEF At
  <2>3. r \in Call /\ r.pc = "upsert" /\ r.me = me /\ r.row = call[w].row
        /\ r.subject = call[w].subject /\ r.kind = call[w].kind
    BY <1>0 DEF Call, OnePass, Upserting
  <2> HIDE DEF r
  <2>4. CallOK(r, entity', cred')
    BY <1>0, <1>1, <2>1, <2>3, HeldRow DEF CallOK, HoldsRow, Registering, OnePass, FirstSet, Upserting
  <2>5. Follows(w, r)
    BY <1>1, <2>1, <2>3, HeldRow DEF Follows, FirstSet
  <2>6. QED
    BY <2>1, <2>2, <2>3, <2>4, <2>5 DEF Advances
<1>4. QED
  BY <1>1, <1>2, <1>3

LEMMA RenameOK ==
  ASSUME TypeOK, NEW w \in Worker, Rename(w)
  PROVE  WellKept /\ Advances(w)
<1> DEFINE me == call[w].me
<1>0. /\ HistoryOK /\ call[w] \in Call /\ CallOK(call[w], entity, cred)
  BY WorkerOK
<1>1. /\ call[w].pc = "rename" /\ UNCHANGED <<cred, ident, session, past>> /\ faults' \in Nat
      /\ \/ At(w, "first_create") /\ WriteRow(me, call[w].row)
         \/ Finish(w) /\ UNCHANGED entity
  BY <1>0 DEF Rename, HistoryOK, Intact
<1>2. CASE Finish(w) /\ UNCHANGED entity
  BY <1>0, <1>1, <1>2, HeldRow, SameTables, EndsOK DEF Finish, tables, past, HistoryOK
<1>3. CASE At(w, "first_create") /\ WriteRow(me, call[w].row)
  <2> DEFINE r == [call[w] EXCEPT !.pc = "first_create"]
  <2>1. /\ WellKept /\ entity'[me] = call[w].row
        /\ \A d \in Entity \ {me} : entity'[d] = entity[d]
    BY <1>1, <1>3, HeldRow, OneRowWritten
  <2>2. Goto(w, r)
    BY <1>3 DEF At
  <2>3. r \in Call /\ r.pc = "first_create" /\ r.me = me /\ r.row = call[w].row
        /\ r.secret = call[w].secret
    BY <1>0 DEF Call, FirstSet
  <2> HIDE DEF r
  <2>4. CallOK(r, entity', cred')
    BY <1>0, <1>1, <2>1, <2>3, HeldRow DEF CallOK, Registering, OnePass, FirstSet, Upserting
  <2>5. Follows(w, r)
    BY <1>1, <2>1, <2>3, HeldRow DEF Follows, FirstSet
  <2>6. QED
    BY <2>1, <2>2, <2>3, <2>4, <2>5 DEF Advances
<1>4. QED
  BY <1>1, <1>2, <1>3

LEMMA UpdateWriteOK ==
  ASSUME TypeOK, NEW w \in Worker, UpdateWrite(w)
  PROVE  WellKept /\ Advances(w)
<1> DEFINE me == call[w].me
<1>0. HistoryOK
  BY WorkerOK
<1>1. /\ call[w].pc = "write" /\ UNCHANGED <<cred, ident, session, past>> /\ faults' \in Nat
      /\ \/ WriteRow(me, call[w].row) /\ (Attaching(w) \/ Finish(w))
         \/ Finish(w) /\ UNCHANGED entity
  BY <1>0 DEF UpdateWrite, HistoryOK, Intact
<1>2. CASE Finish(w) /\ UNCHANGED entity
  BY <1>0, <1>1, <1>2, HeldRow, SameTables, EndsOK DEF Finish, tables, past, HistoryOK
<1>3. CASE WriteRow(me, call[w].row) /\ (Attaching(w) \/ Finish(w))
  <2>1. /\ WellKept /\ entity'[me] = call[w].row
        /\ \A d \in Entity \ {me} : entity'[d] = entity[d]
    BY <1>1, <1>3, HeldRow, OneRowWritten
  <2>2. CASE Finish(w)
    <3>1. Follows(w, Ready)
      BY <1>1, <2>1, HeldRow, Ordinary, AccountsAssumption DEF Follows, FirstSet
    <3>2. QED
      BY <2>1, <2>2, <3>1, Ordinary DEF Advances, Finish
  <2>3. CASE Attaching(w)
    <3> DEFINE a == [Ready EXCEPT !.pc = "attach", !.me = call[w].me, !.row = call[w].row]
    <3>1. a \in Call /\ a.pc = "attach" /\ a.me = me /\ a.row = call[w].row
          /\ CallOK(a, entity', cred')
      BY <1>1, <2>1, HeldRow, WorkerOK, AttachOK DEF HoldsRow
    <3>2. Goto(w, a)
      BY <2>3 DEF Attaching
    <3> HIDE DEF a
    <3>3. Follows(w, a)
      BY <1>1, <2>1, <3>1, HeldRow DEF Follows, FirstSet
    <3>4. QED
      BY <2>1, <3>1, <3>2, <3>3 DEF Advances
  <2>4. QED
    BY <1>3, <2>2, <2>3
<1>4. QED
  BY <1>1, <1>2, <1>3

\* The steps that write a credential or an identity
LEMMA InsertIdentityOK ==
  ASSUME TypeOK, NEW w \in Worker, InsertIdentity(w)
  PROVE  WellKept /\ Advances(w)
<1> DEFINE me == call[w].me
           s == call[w].subject
           row == [of |-> me, subject |-> s]
<1>0. RowsOK /\ CredsOK /\ IdentsOK /\ HistoryOK /\ call[w] \in Call /\ CallOK(call[w], entity, cred)
  BY WorkerOK
<1>1. /\ call[w].pc = "insert" /\ me \in Entity /\ entity[me].status # "free" /\ s \in Subject
      /\ UNCHANGED <<entity, cred, session, raced, doubled, retired>> /\ faults' \in Nat
      /\ stranded \subseteq Entity
  BY <1>0, AccountKnown DEF InsertIdentity, HistoryOK, Intact, CallOK, OnePass, Upserting
<1>2. ASSUME NEW i \in IdentId, IdentOf(s) = {}, ident[i].subject = None,
             ident' = [ident EXCEPT ![i] = row], At(w, "answer"), stranded' = stranded \ {me}
      PROVE  WellKept /\ Advances(w)
  <2>1. row \in IdentRow /\ row.of = me /\ row.subject = s
    BY <1>1 DEF IdentRow
  <2> HIDE DEF row
  <2>2. /\ ident' \in [IdentId -> IdentRow] /\ ident'[i] = row
        /\ \A j \in IdentId \ {i} : ident'[j] = ident[j]
    BY <1>0, <1>2, <2>1 DEF IdentsOK
  <2>3. IdentsOK'
    BY <1>0, <1>1, <1>2, <2>1, <2>2 DEF IdentsOK, IdentOf
  <2>4. \A e \in Entity : me = e => HasMethod(e)'
    BY <2>1, <2>2 DEF HasMethod, Identities
  <2>5. Keeps
    BY <1>1, <1>2, <2>2, <2>4 DEF Keeps, Grown
  <2>6. RowsOK' /\ CredsOK' /\ HistoryOK'
    BY <1>0, <1>1, <1>2 DEF RowsOK, CredsOK, HistoryOK
  <2>7. QED
    BY <1>1, <1>2, <2>3, <2>4, <2>5, <2>6, MovesOK DEF WellKept, Upserting
<1>3. CASE At(w, "reload") /\ UNCHANGED <<ident, stranded>>
  BY <1>1, <1>3, SameTables, MovesOK DEF tables, Upserting
<1>4. QED
  BY <1>2, <1>3 DEF InsertIdentity

\* What HandleRegister and the first password of HandleChangePassword share
LEMMA NewPassword ==
  ASSUME TypeOK, NEW w \in Worker, NEW e \in Entity, call[w].me = e,
         call[w].pc \in {"password", "first_create"}, CreatePassword(e, call[w].secret),
         UNCHANGED <<entity, ident, raced>>, faults' \in Nat,
         session' \in {session, session \cup {e}}, doubled' \in {doubled, doubled \cup {e}},
         Attaching(w)
  PROVE  WellKept /\ Advances(w)
<1> DEFINE p == call[w].secret
<1>0. RowsOK /\ CredsOK /\ IdentsOK /\ HistoryOK /\ call[w] \in Call /\ CallOK(call[w], entity, cred)
  BY WorkerOK
<1>1. entity[e].status # "free" /\ p \in Secret /\ HoldsRow(call[w])
  BY <1>0 DEF CallOK, Registering, FirstSet, HoldsRow
<1>2. /\ CredsOK' /\ Grown
      /\ stranded' = stranded \ {e} /\ retired' = retired \ {<<e, p>>}
      /\ \E k \in CredId : /\ cred[k].of = None /\ cred'[k] = [of |-> e, secret |-> p]
                           /\ \A l \in CredId \ {k} : cred'[l] = cred[l]
  BY <1>0, <1>1, PasswordCreated
<1>3. HasMethod(e)'
  <2>1. PICK k \in CredId : /\ cred[k].of = None /\ cred'[k] = [of |-> e, secret |-> p]
                            /\ \A l \in CredId \ {k} : cred'[l] = cred[l]
    BY <1>2
  <2>2. cred'[k].of = e
    BY <2>1
  <2>3. k \in Passwords(e)'
    BY <2>2 DEF Passwords
  <2>4. QED
    BY <2>3 DEF HasMethod
<1>4. RowsOK' /\ IdentsOK' /\ HistoryOK'
  BY <1>0, <1>1, <1>2 DEF RowsOK, IdentsOK, HistoryOK
<1>5. Keeps
  BY <1>2, <1>3 DEF Keeps
<1>6. Advances(w)
  BY <1>1, <1>3, AttachesOK
<1>7. QED
  BY <1>2, <1>4, <1>5, <1>6 DEF WellKept

LEMMA RegisterPasswordOK ==
  ASSUME TypeOK, NEW w \in Worker, RegisterPassword(w)
  PROVE  WellKept /\ Advances(w)
<1>1. call[w].pc = "password" /\ call[w].me \in Entity /\ faults' \in Nat
  BY AccountKnown, WorkerOK DEF RegisterPassword, HistoryOK, Intact
<1>2. doubled' \in {doubled, doubled \cup {call[w].me}}
  BY DEF RegisterPassword, Doubled
<1>3. QED
  BY <1>1, <1>2, NewPassword DEF RegisterPassword

LEMMA FirstCreateOK ==
  ASSUME TypeOK, NEW w \in Worker, FirstCreate(w)
  PROVE  WellKept /\ Advances(w)
<1>1. call[w].pc = "first_create" /\ call[w].me \in Entity /\ faults' \in Nat
  BY AccountKnown, WorkerOK DEF FirstCreate, HistoryOK, Intact
<1>2. doubled' \in {doubled, doubled \cup {call[w].me}}
  BY DEF FirstCreate, Doubled
<1>3. QED
  BY <1>1, <1>2, NewPassword DEF FirstCreate

\* A password is replaced: the row keeps its account.
LEMMA Replaced ==
  ASSUME TypeOK, NEW w \in Worker, ChangePassword(w)
  PROVE  LET k == call[w].id  e == call[w].me  p == call[w].secret IN
         /\ k \in CredId /\ e \in Entity /\ p \in Secret /\ cred[k].of = e
         /\ cred' \in [CredId -> CredRow] /\ cred'[k] = [of |-> e, secret |-> p]
         /\ \A l \in CredId \ {k} : cred'[l] = cred[l]
         /\ retired' = (retired \cup {<<e, cred[k].secret>>}) \ {<<e, p>>}
<1> DEFINE k == call[w].id
           e == call[w].me
           p == call[w].secret
<1>0. CredsOK /\ CallOK(call[w], entity, cred)
  BY WorkerOK
<1>1. k \in CredId /\ e \in Entity /\ p \in Secret /\ cred[k].of = e
  BY <1>0, AccountKnown DEF ChangePassword, CallOK
<1>2. cred' = [cred EXCEPT ![k].secret = p]
      /\ retired' = (retired \cup {<<e, cred[k].secret>>}) \ {<<e, p>>}
  BY DEF ChangePassword, Replace
<1>3. [cred[k] EXCEPT !.secret = p] = [of |-> e, secret |-> p] /\ [of |-> e, secret |-> p] \in CredRow
  BY <1>0, <1>1 DEF CredsOK, CredRow
<1>4. QED
  BY <1>0, <1>1, <1>2, <1>3 DEF CredsOK

LEMMA ChangePasswordOK ==
  ASSUME TypeOK, NEW w \in Worker, ChangePassword(w)
  PROVE  WellKept /\ Advances(w)
<1> DEFINE k == call[w].id
           e == call[w].me
           p == call[w].secret
<1>0. RowsOK /\ CredsOK /\ IdentsOK /\ HistoryOK
  BY WorkerOK
<1>1. /\ UNCHANGED <<entity, ident, session, stranded, raced, doubled>> /\ faults' \in Nat
      /\ Goto(w, Ready) /\ ~Undecided(call[w])
  BY <1>0 DEF ChangePassword, HistoryOK, Intact, Finish, Undecided, Upserting
<1>2. /\ k \in CredId /\ e \in Entity /\ p \in Secret /\ cred[k].of = e
      /\ cred' \in [CredId -> CredRow] /\ cred'[k] = [of |-> e, secret |-> p]
      /\ \A l \in CredId \ {k} : cred'[l] = cred[l]
      /\ retired' = (retired \cup {<<e, cred[k].secret>>}) \ {<<e, p>>}
  BY Replaced
<1>3. \A l \in CredId : cred'[l].of = cred[l].of
  BY <1>2
<1>4. cred[k].secret \in Secret
  BY <1>0, <1>2, AccountsAssumption DEF CredsOK
<1> HIDE DEF k, e, p
<1>5. CredsOK' /\ RowsOK' /\ IdentsOK' /\ HistoryOK'
  <2>1. CredsOK'
    BY <1>0, <1>1, <1>2, <1>3 DEF CredsOK
  <2>2. RowsOK' /\ IdentsOK'
    BY <1>0, <1>1 DEF RowsOK, IdentsOK
  <2>3. HistoryOK'
    BY <1>0, <1>1, <1>2, <1>4 DEF HistoryOK
  <2>4. QED
    BY <2>1, <2>2, <2>3
<1>6. Keeps
  BY <1>1, <1>3 DEF Keeps, Grown
<1>7. Advances(w)
  BY <1>1, EndsOK
<1>8. QED
  BY <1>5, <1>6, <1>7 DEF WellKept

-----------------------------------------------------------------------------
(* Every step, by what it does *)

\* The statements of a request under way, but for the removal of an identity
Works(w) ==
  \/ ReadsOn(w) \/ Register(w) \/ RegisterPassword(w) \/ LoginMatch(w) \/ Touch(w) \/ Enroll(w)
  \/ Upsert(w) \/ InsertIdentity(w) \/ ReloadIdentity(w) \/ OnePassAnswer(w) \/ Rename(w)
  \/ FirstCreate(w) \/ ChangePassword(w) \/ UpdateWrite(w) \/ Attach(w) \/ Fails(w)

LEMMA StepKinds ==
  ASSUME Next
  PROVE  \/ \E w \in Worker : ReadsFirst(w) \/ Works(w) \/ Unlink(w)
         \/ \E e \in Entity : Disable(e)
<1>1. ASSUME NEW w \in Worker,
             \/ Registers(w) \/ LogsIn(w) \/ Identifies(w) \/ Links(w) \/ SetsPassword(w)
             \/ Updates(w) \/ Attach(w) \/ Fails(w)
      PROVE  ReadsFirst(w) \/ Works(w) \/ Unlink(w)
  <2>1. CASE Registers(w) \/ LogsIn(w)
    BY <2>1 DEF Registers, LogsIn, ReadsFirst, Works
  <2>2. CASE Identifies(w) \/ Links(w)
    BY <2>2 DEF Identifies, Links, ReadsFirst, ReadsOn, Works
  <2>3. CASE SetsPassword(w)
    BY <2>3 DEF SetsPassword, ReadsFirst, ReadsOn, Works
  <2>4. CASE Updates(w) \/ Attach(w) \/ Fails(w)
    BY <2>4 DEF Updates, ReadsFirst, Works
  <2>5. QED
    BY <1>1, <2>1, <2>2, <2>3, <2>4
<1>2. QED
  BY <1>1 DEF Next

LEMMA WorksOK ==
  ASSUME TypeOK, NEW w \in Worker, Works(w)
  PROVE  WellKept /\ Advances(w)
BY ReadsOnOK, RegisterOK, RegisterPasswordOK, LoginMatchOK, TouchOK, EnrollOK, UpsertOK,
   InsertIdentityOK, ReloadIdentityOK, OnePassAnswerOK, RenameOK, FirstCreateOK,
   ChangePasswordOK, UpdateWriteOK, AttachStepOK, FailsOK DEF Works

\* A first statement: nothing changes but what the worker is at.
LEMMA Taken ==
  ASSUME TypeOK, NEW w \in Worker, ReadsFirst(w)
  PROVE  /\ UNCHANGED <<entity, cred, ident, session, stranded, raced, doubled, retired>>
         /\ call[w].pc = "ready" /\ TypeOK'
         /\ Founded(call'[w]) /\ CallOK(call'[w], entity, cred)
         /\ \A v \in Worker \ {w} : call'[v] = call[v]
<1>1. /\ UNCHANGED <<entity, cred, ident, session, stranded, raced, doubled, retired>>
      /\ call[w].pc = "ready" /\ faults' \in Nat /\ Takes(w)
  BY ReadsFirstOK DEF tables, past
<1>2. PICK r \in Call : Goto(w, r) /\ CallOK(r, entity, cred) /\ Founded(r)
  BY <1>1 DEF Takes
<1>3. Grown
  BY <1>1 DEF Grown
<1>4. CallsOK' /\ call'[w] = r /\ \A v \in Worker \ {w} : call'[v] = call[v]
  BY <1>1, <1>2, <1>3, GotoOK, WorkerOK
<1>5. RowsOK' /\ CredsOK' /\ IdentsOK' /\ HistoryOK'
  BY <1>1, WorkerOK DEF RowsOK, CredsOK, IdentsOK, HistoryOK
<1>6. TypeOK'
  BY <1>4, <1>5, TypeParts, PTL
<1>7. QED
  BY <1>1, <1>2, <1>4, <1>6

\* A later statement
LEMMA Worked ==
  ASSUME TypeOK, NEW w \in Worker, Works(w)
  PROVE  /\ WellKept /\ TypeOK' /\ Follows(w, call'[w])
         /\ \A v \in Worker \ {w} : call'[v] = call[v]
<1>1. WellKept /\ Advances(w)
  BY WorksOK
<1>2. PICK r \in Call : Goto(w, r) /\ CallOK(r, entity', cred') /\ Follows(w, r)
  BY <1>1 DEF Advances
<1>3. CallsOK' /\ call'[w] = r /\ \A v \in Worker \ {w} : call'[v] = call[v]
  BY <1>1, <1>2, GotoOK, WorkerOK DEF WellKept, Keeps
<1>4. TypeOK'
  BY <1>1, <1>3, TypeParts, PTL DEF WellKept
<1>5. QED
  BY <1>1, <1>2, <1>3, <1>4

LEMMA Unlinked ==
  ASSUME TypeOK, NEW w \in Worker, Unlink(w)
  PROVE  /\ UNCHANGED <<entity, cred, session, stranded, doubled, retired>>
         /\ call[w].pc = "unlink" /\ call[w].me \in Entity /\ call[w].id \in IdentId
         /\ TypeOK' /\ call'[w] = Ready /\ \A v \in Worker \ {w} : call'[v] = call[v]
         /\ \A j \in IdentId : /\ ident'[j].subject = ident[j].subject
                               /\ j # call[w].id => ident'[j].of = ident[j].of
         /\ ident'[call[w].id].of = None /\ raced \subseteq raced'
         /\ \A v \in Worker \ {w} : call[v].pc = "unlink" /\ call[v].me = call[w].me =>
              call[w].me \in raced'
<1> DEFINE i == call[w].id
<1>0. RowsOK /\ CredsOK /\ IdentsOK /\ HistoryOK /\ CallsOK /\ CallOK(call[w], entity, cred)
  BY WorkerOK
<1>1. /\ UNCHANGED <<entity, cred, session, stranded, doubled, retired>> /\ faults' \in Nat
      /\ call[w].pc = "unlink" /\ call[w].me \in Entity /\ i \in IdentId /\ Goto(w, Ready)
      /\ ident' = [ident EXCEPT ![i].of = None]
      /\ raced' \in {raced, raced \cup {call[w].me}}
  BY <1>0, AccountKnown DEF Unlink, Intact, Finish, CallOK, HistoryOK
<1>2. \A v \in Worker \ {w} : call[v].pc = "unlink" /\ call[v].me = call[w].me => call[w].me \in raced'
  BY DEF Unlink
<1>3. Grown
  BY <1>1 DEF Grown
<1>4. CallsOK' /\ call'[w] = Ready /\ \A v \in Worker \ {w} : call'[v] = call[v]
  BY <1>0, <1>1, <1>3, GotoOK, Ordinary
<1>5. /\ ident' \in [IdentId -> IdentRow] /\ ident'[i].of = None
      /\ \A j \in IdentId : /\ ident'[j].subject = ident[j].subject
                            /\ j # i => ident'[j].of = ident[j].of
  BY <1>0, <1>1 DEF IdentsOK, IdentRow
<1>6. IdentsOK'
  BY <1>0, <1>1, <1>5 DEF IdentsOK
<1>7. RowsOK' /\ CredsOK' /\ HistoryOK'
  BY <1>0, <1>1 DEF RowsOK, CredsOK, HistoryOK
<1>8. TypeOK'
  BY <1>4, <1>6, <1>7, TypeParts, PTL
<1>9. QED
  BY <1>1, <1>2, <1>4, <1>5, <1>8

LEMMA Disabled ==
  ASSUME TypeOK, NEW e \in Entity, Disable(e)
  PROVE  /\ UNCHANGED <<cred, ident, session, call, stranded, raced, doubled, retired>> /\ TypeOK'
         /\ \A d \in Entity : /\ entity'[d].name = entity[d].name
                              /\ entity'[d].status = "free" <=> entity[d].status = "free"
<1>0. RowsOK /\ CredsOK /\ IdentsOK /\ HistoryOK /\ CallsOK
  BY TypeParts
<1>1. /\ UNCHANGED <<cred, ident, session, call, faults, stranded, raced, doubled, retired>>
      /\ entity[e].status = "active" /\ entity' = [entity EXCEPT ![e].status = "disabled"]
  BY DEF Disable, past
<1>2. /\ entity' \in [Entity -> EntityRow]
      /\ entity'[e].status = "disabled" /\ entity'[e].name = entity[e].name
      /\ \A d \in Entity \ {e} : entity'[d] = entity[d]
  BY <1>0, <1>1 DEF RowsOK, EntityRow
<1>3. \A d \in Entity : /\ entity'[d].name = entity[d].name
                        /\ entity'[d].status = "free" <=> entity[d].status = "free"
  BY <1>1, <1>2
<1>4. RowsOK'
  BY <1>0, <1>1, <1>2, <1>3, Ordinary DEF RowsOK
<1>5. CredsOK' /\ IdentsOK' /\ HistoryOK'
  <2>1. /\ \A k \in CredId : cred[k].of # None => cred[k].of \in Entity
        /\ \A i \in IdentId : ident[i].of # None => ident[i].of \in Entity
    BY <1>0 DEF CredsOK, CredRow, IdentsOK, IdentRow
  <2>2. QED
    BY <1>0, <1>1, <1>3, <2>1 DEF CredsOK, IdentsOK, HistoryOK
<1>6. CallsOK'
  <2>1. Grown
    BY <1>1, <1>3 DEF Grown
  <2>2. QED
    BY <1>0, <1>1, <2>1, StaysOK DEF CallsOK
<1>7. TypeOK'
  BY <1>4, <1>5, <1>6, TypeParts, PTL
<1>8. QED
  BY <1>1, <1>3, <1>7

LEMMA InitTypes == Init => TypeOK
<1> SUFFICES ASSUME Init PROVE TypeOK
  OBVIOUS
<1>1. FreeRow \in EntityRow /\ [of |-> None, secret |-> None] \in CredRow
      /\ [of |-> None, subject |-> None] \in IdentRow
  BY Ordinary DEF CredRow, IdentRow
<1>2. RowsOK
  BY <1>1, Ordinary DEF Init, RowsOK
<1>3. CredsOK /\ IdentsOK /\ HistoryOK
  BY <1>1 DEF Init, CredsOK, IdentsOK, HistoryOK
<1>4. CallsOK
  BY Ordinary DEF Init, CallsOK
<1>5. QED
  BY <1>2, <1>3, <1>4, TypeParts

\* Whatever the steps of requests do, and in whichever order, each variable keeps
\* its type, a name belongs to one account and a subject has one identity.
THEOREM AccountsTypes == Spec => []TypeOK
<1>1. TypeOK /\ [Next]_vars => TypeOK'
  <2>1. ASSUME TypeOK, Next PROVE TypeOK'
    BY <2>1, StepKinds, Taken, Worked, Unlinked, Disabled
  <2>2. ASSUME TypeOK, UNCHANGED vars PROVE TypeOK'
    BY <2>2 DEF TypeOK, vars, tables, past, CallOK, HoldsRow
  <2>3. QED
    BY <2>1, <2>2
<1>2. QED
  BY <1>1, InitTypes, PTL DEF Spec

-----------------------------------------------------------------------------
(* A method to log in by remains *)

\* What a request that is about to remove an identity found, and still finds
\* unless another one removes an identity of the same account
OtherMethod(e, i) ==
  /\ ident[i].subject # None /\ ident[i].of \in {e, None}
  /\ e \in raced \/ Passwords(e) \cup (Identities(e) \ {i}) # {}

UnlinkInv == \A w \in Worker : call[w].pc = "unlink" => OtherMethod(call[w].me, call[w].id)

\* A method that is there stays, or its removal is the action Unlink.
LEMMA MethodStays ==
  ASSUME TypeOK, Keeps, NEW e \in Entity
  PROVE  /\ HasMethod(e) => HasMethod(e)'
         /\ \A i \in IdentId : OtherMethod(e, i) => OtherMethod(e, i)'
<1>1. \A k \in Passwords(e) : k \in Passwords(e)'
  BY AccountsAssumption DEF Keeps, Grown, Passwords
<1>2. \A j \in Identities(e) : j \in Identities(e)'
  BY AccountsAssumption DEF TypeOK, Keeps, Identities
<1>3. \A i \in IdentId : OtherMethod(e, i) => ident'[i] = ident[i] /\ raced' = raced
  BY DEF OtherMethod, Keeps
<1>4. QED
  BY <1>1, <1>2, <1>3 DEF HasMethod, OtherMethod

\* The method that remains when an identity is removed
LEMMA UnlinkLeaves ==
  ASSUME TypeOK, UnlinkInv, NEW w \in Worker, Unlink(w), NEW e \in Entity
  PROVE  /\ HasMethod(e) => HasMethod(e)' \/ e \in raced'
         /\ ~HasMethod(e) => ~HasMethod(e)'
         /\ \A v \in Worker \ {w}, i \in IdentId :
              call[v].pc = "unlink" /\ call[v].me = e /\ OtherMethod(e, i) => OtherMethod(e, i)'
<1> DEFINE me == call[w].me
           id == call[w].id
<1>1. /\ call[w].pc = "unlink" /\ me \in Entity /\ id \in IdentId
      /\ UNCHANGED cred /\ raced \subseteq raced'
      /\ \A j \in IdentId : /\ ident'[j].subject = ident[j].subject
                            /\ j # id => ident'[j].of = ident[j].of
      /\ ident'[id].of = None
      /\ \A v \in Worker \ {w} : call[v].pc = "unlink" /\ call[v].me = me => me \in raced'
  BY Unlinked
<1>2. OtherMethod(me, id) /\ e # None
  BY <1>1, AccountsAssumption DEF UnlinkInv
<1>3. Passwords(e)' = Passwords(e) /\ Identities(e)' = Identities(e) \ {id}
  BY <1>1, <1>2 DEF Passwords, Identities
<1>4. e # me => id \notin Identities(e)
  BY <1>2 DEF OtherMethod, Identities
<1>5. HasMethod(e) => HasMethod(e)' \/ e \in raced'
  BY <1>1, <1>2, <1>3, <1>4 DEF HasMethod, OtherMethod
<1>6. ~HasMethod(e) => ~HasMethod(e)'
  BY <1>3 DEF HasMethod
<1>7. ASSUME NEW v \in Worker \ {w}, NEW i \in IdentId,
             call[v].pc = "unlink", call[v].me = e, OtherMethod(e, i)
      PROVE  OtherMethod(e, i)'
  BY <1>1, <1>3, <1>4, <1>7 DEF OtherMethod
<1>8. QED
  BY <1>5, <1>6, <1>7

LEMMA UnlinkStep ==
  ASSUME TypeOK, UnlinkInv, Next
  PROVE  UnlinkInv'
<1>1. ASSUME NEW w \in Worker, ReadsFirst(w) PROVE UnlinkInv'
  <2>1. /\ UNCHANGED <<entity, cred, ident, raced>> /\ Founded(call'[w])
        /\ CallOK(call'[w], entity, cred)
        /\ \A v \in Worker \ {w} : call'[v] = call[v]
    BY <1>1, Taken
  <2>2. \A e \in Entity, i \in IdentId : OtherMethod(e, i) => OtherMethod(e, i)'
    BY <2>1 DEF OtherMethod, Passwords, Identities
  <2>3. \A v \in Worker : call[v].pc = "unlink" => call[v].me \in Entity /\ call[v].id \in IdentId
    BY DEF TypeOK, CallOK
  <2>4. ASSUME NEW e \in Entity, NEW i \in IdentId,
               call'[w].pc = "unlink", call'[w].me = e, call'[w].id = i
        PROVE  OtherMethod(e, i)'
    <3>1. ident[i].of = e /\ Passwords(e) \cup (Identities(e) \ {i}) # {}
      BY <2>1, <2>4 DEF Founded
    <3>2. ident[i].subject # None
      BY <3>1, AccountsAssumption DEF TypeOK
    <3>3. OtherMethod(e, i)
      BY <3>1, <3>2 DEF OtherMethod
    <3>4. QED
      BY <2>2, <3>3
  <2>5. call'[w].pc = "unlink" => call'[w].me \in Entity /\ call'[w].id \in IdentId
    BY <2>1 DEF CallOK
  <2>6. QED
    BY <2>1, <2>2, <2>3, <2>4, <2>5 DEF UnlinkInv
<1>2. ASSUME NEW w \in Worker, Works(w) PROVE UnlinkInv'
  <2>1. /\ Keeps /\ call'[w].pc # "unlink" /\ \A v \in Worker \ {w} : call'[v] = call[v]
    BY <1>2, Worked DEF WellKept, Follows
  <2>2. \A v \in Worker : call[v].pc = "unlink" => call[v].me \in Entity /\ call[v].id \in IdentId
    BY DEF TypeOK, CallOK
  <2>3. QED
    BY <2>1, <2>2, MethodStays DEF UnlinkInv
<1>3. ASSUME NEW w \in Worker, Unlink(w) PROVE UnlinkInv'
  <2>1. call'[w].pc # "unlink" /\ \A v \in Worker \ {w} : call'[v] = call[v]
    BY <1>3, Unlinked, Ordinary
  <2>2. \A v \in Worker : call[v].pc = "unlink" => call[v].me \in Entity /\ call[v].id \in IdentId
    BY DEF TypeOK, CallOK
  <2>3. QED
    BY <1>3, <2>1, <2>2, UnlinkLeaves DEF UnlinkInv
<1>4. ASSUME NEW e \in Entity, Disable(e) PROVE UnlinkInv'
  BY <1>4, Disabled DEF UnlinkInv, OtherMethod, Passwords, Identities
<1>5. QED
  BY <1>1, <1>2, <1>3, <1>4, StepKinds

LEMMA LoginStep ==
  ASSUME TypeOK, UnlinkInv, LoginRemains, Next
  PROVE  LoginRemains'
<1>0. \A e \in Entity :
        \/ entity[e].status = "free" \/ HasMethod(e) \/ e \in stranded \cup raced
        \/ \E v \in Worker : call[v].me = e /\ Undecided(call[v])
  BY DEF LoginRemains, Undecided
<1> SUFFICES ASSUME NEW e \in Entity
             PROVE  \/ entity'[e].status = "free" \/ HasMethod(e)' \/ e \in stranded' \cup raced'
                    \/ \E v \in Worker : call'[v].me = e /\ Undecided(call'[v])
  BY DEF LoginRemains, Undecided
<1>1. ASSUME NEW w \in Worker, ReadsFirst(w)
      PROVE  \/ entity'[e].status = "free" \/ HasMethod(e)' \/ e \in stranded' \cup raced'
             \/ \E v \in Worker : call'[v].me = e /\ Undecided(call'[v])
  <2>1. /\ UNCHANGED <<entity, cred, ident, stranded, raced>> /\ ~Undecided(call[w])
        /\ \A v \in Worker \ {w} : call'[v] = call[v]
    BY <1>1, Taken DEF Undecided, Upserting
  <2>2. HasMethod(e) => HasMethod(e)'
    BY <2>1 DEF HasMethod, Passwords, Identities
  <2>3. QED
    BY <1>0, <2>1, <2>2
<1>2. ASSUME NEW w \in Worker, Works(w)
      PROVE  \/ entity'[e].status = "free" \/ HasMethod(e)' \/ e \in stranded' \cup raced'
             \/ \E v \in Worker : call'[v].me = e /\ Undecided(call'[v])
  <2>1. /\ Keeps /\ Follows(w, call'[w]) /\ \A v \in Worker \ {w} : call'[v] = call[v]
    BY <1>2, Worked DEF WellKept
  <2>2. HasMethod(e) => HasMethod(e)'
    BY <2>1, MethodStays
  <2>3. e \in stranded \cup raced => HasMethod(e)' \/ e \in stranded' \cup raced'
    BY <2>1 DEF Keeps
  <2>4. call[w].me = e /\ Undecided(call[w]) =>
          \/ Undecided(call'[w]) /\ call'[w].me = e
          \/ HasMethod(e)' \/ e \in stranded'
    BY <2>1 DEF Follows
  <2>5. entity[e].status = "free" /\ entity'[e].status # "free" =>
          Undecided(call'[w]) /\ call'[w].me = e
    BY <2>1 DEF Follows
  <2>6. QED
    BY <1>0, <2>1, <2>2, <2>3, <2>4, <2>5
<1>3. ASSUME NEW w \in Worker, Unlink(w)
      PROVE  \/ entity'[e].status = "free" \/ HasMethod(e)' \/ e \in stranded' \cup raced'
             \/ \E v \in Worker : call'[v].me = e /\ Undecided(call'[v])
  <2>1. /\ UNCHANGED <<entity, stranded>> /\ ~Undecided(call[w]) /\ raced \subseteq raced'
        /\ \A v \in Worker \ {w} : call'[v] = call[v]
    BY <1>3, Unlinked DEF Undecided, Upserting
  <2>2. HasMethod(e) => HasMethod(e)' \/ e \in raced'
    BY <1>3, UnlinkLeaves
  <2>3. QED
    BY <1>0, <2>1, <2>2
<1>4. ASSUME NEW d \in Entity, Disable(d)
      PROVE  \/ entity'[e].status = "free" \/ HasMethod(e)' \/ e \in stranded' \cup raced'
             \/ \E v \in Worker : call'[v].me = e /\ Undecided(call'[v])
  <2>1. /\ UNCHANGED <<cred, ident, call, stranded, raced>>
        /\ entity'[e].status = "free" <=> entity[e].status = "free"
    BY <1>4, Disabled
  <2>2. HasMethod(e) => HasMethod(e)'
    BY <2>1 DEF HasMethod, Passwords, Identities
  <2>3. QED
    BY <1>0, <2>1, <2>2
<1>5. QED
  BY <1>1, <1>2, <1>3, <1>4, StepKinds

-----------------------------------------------------------------------------
(* A replaced password logs in no more *)

\* What a request that is about to store a first password found, and still finds
\* unless two of them are under way for the same account
FirstInv ==
  \A w \in Worker : call[w].pc \in SetsFirst =>
    Passwords(call[w].me) = {} \/ call[w].me \in doubled

\* An account has one row of credentials unless its first password was set twice.
OneRow ==
  \A k, l \in CredId :
    cred[k].of # None /\ cred[k].of = cred[l].of => k = l \/ cred[k].of \in doubled

PasswordsInv == FirstInv /\ OneRow /\ PasswordReplaced

\* The statements that write a password, and those that do not
WritesPassword(w) == RegisterPassword(w) \/ FirstCreate(w) \/ ChangePassword(w)

LEMMA OthersKeepPasswords ==
  ASSUME NEW w \in Worker, Works(w), ~WritesPassword(w)
  PROVE  UNCHANGED <<cred, doubled, retired>>
BY DEF Works, WritesPassword, ReadsOn, LoadEntity, FindByName, LoadWinner, FirstName, Register,
       LoginMatch, Touch, Enroll, Upsert, InsertIdentity, ReloadIdentity, OnePassAnswer, Rename,
       UpdateWrite, Attach, Fails, tables, past

LEMMA SamePasswords ==
  ASSUME PasswordsInv, UNCHANGED <<cred, doubled, retired>>,
         \A w \in Worker : call'[w].pc \in SetsFirst =>
           \/ Passwords(call'[w].me) = {}
           \/ call[w].pc \in SetsFirst /\ call'[w].me = call[w].me
  PROVE  PasswordsInv'
<1>1. OneRow' /\ PasswordReplaced'
  BY DEF PasswordsInv, OneRow, PasswordReplaced
<1>2. ASSUME NEW w \in Worker, call'[w].pc \in SetsFirst
      PROVE  {k \in CredId : cred[k].of = call'[w].me} = {} \/ call'[w].me \in doubled
  BY <1>2 DEF PasswordsInv, FirstInv, Passwords
<1>3. FirstInv'
  BY <1>2 DEF FirstInv, FirstSet, SetsFirst, Passwords
<1>4. QED
  BY <1>1, <1>3 DEF PasswordsInv

\* A row is added for an account that had none, or whose first password is being
\* set by another request too.
LEMMA PasswordAdded ==
  ASSUME TypeOK, PasswordsInv, NEW w \in Worker, NEW e \in Entity, NEW p \in Secret, NEW k \in CredId,
         cred[k].of = None, cred'[k] = [of |-> e, secret |-> p],
         \A l \in CredId \ {k} : cred'[l] = cred[l],
         retired' = retired \ {<<e, p>>}, doubled \subseteq doubled',
         Passwords(e) = {} \/ e \in doubled',
         \A v \in Worker \ {w} : call'[v] = call[v], call'[w].pc = "attach",
         \A v \in Worker \ {w} : call[v].pc \in SetsFirst /\ call[v].me = e => e \in doubled'
  PROVE  PasswordsInv'
<1>1. OneRow'
  BY AccountsAssumption DEF PasswordsInv, OneRow, Passwords
<1>2. PasswordReplaced'
  BY DEF PasswordsInv, PasswordReplaced
<1>3. ASSUME NEW v \in Worker, NEW d \in Entity, call'[v].pc \in SetsFirst, call'[v].me = d
      PROVE  Passwords(d)' = {} \/ d \in doubled'
  <2>1. v # w /\ call[v].pc \in SetsFirst /\ call[v].me = d
    BY <1>3 DEF FirstSet, SetsFirst
  <2>2. d # e => Passwords(d)' = Passwords(d)
    BY AccountsAssumption DEF Passwords
  <2>3. QED
    BY <2>1, <2>2 DEF PasswordsInv, FirstInv
<1>4. \A v \in Worker : call'[v].pc \in SetsFirst => call'[v].me \in Entity
  <2>1. call[w] \in Call /\ \A v \in Worker : call[v].pc \in SetsFirst => call[v].me \in Entity
    BY AccountKnown DEF TypeOK, FirstSet, SetsFirst
  <2>2. QED
    BY <2>1 DEF FirstSet, SetsFirst
<1>5. FirstInv'
  BY <1>3, <1>4 DEF FirstInv, FirstSet, SetsFirst
<1>6. QED
  BY <1>1, <1>2, <1>5 DEF PasswordsInv

\* The row that is replaced is the only one, or the account has two of them.
LEMMA PasswordChanged ==
  ASSUME TypeOK, PasswordsInv, NEW w \in Worker, ChangePassword(w)
  PROVE  PasswordsInv'
<1> DEFINE k == call[w].id
           e == call[w].me
           p == call[w].secret
<1>1. /\ k \in CredId /\ e \in Entity /\ p \in Secret /\ cred[k].of = e
      /\ cred'[k] = [of |-> e, secret |-> p]
      /\ \A l \in CredId \ {k} : cred'[l] = cred[l]
      /\ retired' = (retired \cup {<<e, cred[k].secret>>}) \ {<<e, p>>}
  BY Replaced
<1>2. UNCHANGED doubled /\ call'[w] = Ready /\ \A v \in Worker \ {w} : call'[v] = call[v]
  BY DEF ChangePassword, Finish, Goto, TypeOK
<1>3. \A l \in CredId : cred'[l].of = cred[l].of
  BY <1>1
<1> HIDE DEF k, e, p
<1>4. OneRow'
  BY <1>2, <1>3 DEF PasswordsInv, OneRow
<1>5. PasswordReplaced'
  <2>1. ASSUME NEW l \in CredId, cred'[l].of # None, <<cred'[l].of, cred'[l].secret>> \in retired'
        PROVE  cred'[l].of \in doubled
    <3>1. l # k
      BY <1>1, <2>1
    <3>2. CASE cred[l].of = e
      BY <1>1, <1>3, <2>1, <3>1, <3>2 DEF PasswordsInv, OneRow
    <3>3. CASE cred[l].of # e
      <4>1. cred'[l] = cred[l] /\ <<cred[l].of, cred[l].secret>> \in retired
        BY <1>1, <2>1, <3>1, <3>3
      <4>2. QED
        BY <2>1, <4>1 DEF PasswordsInv, PasswordReplaced
    <3>4. QED
      BY <3>2, <3>3
  <2>2. QED
    BY <1>2, <2>1 DEF PasswordReplaced
<1>6. FirstInv'
  <2>1. \A d \in Entity : Passwords(d)' = Passwords(d)
    BY <1>3 DEF Passwords
  <2>2. \A v \in Worker : call'[v].pc \in SetsFirst =>
          call[v].pc \in SetsFirst /\ call'[v] = call[v] /\ call[v].me \in Entity
    BY <1>2, AccountKnown, Ordinary DEF FirstSet, SetsFirst
  <2>3. QED
    BY <1>2, <2>1, <2>2 DEF PasswordsInv, FirstInv, FirstSet, SetsFirst
<1>7. QED
  BY <1>4, <1>5, <1>6 DEF PasswordsInv

LEMMA PasswordsStep ==
  ASSUME TypeOK, PasswordsInv, Next
  PROVE  PasswordsInv'
<1>1. ASSUME NEW w \in Worker, ReadsFirst(w) PROVE PasswordsInv'
  BY <1>1, Taken, SamePasswords DEF Founded, SetsFirst
<1>2. ASSUME NEW w \in Worker, Works(w), ~WritesPassword(w) PROVE PasswordsInv'
  <2>1. /\ Follows(w, call'[w]) /\ TypeOK' /\ \A v \in Worker \ {w} : call'[v] = call[v]
    BY <1>2, Worked
  <2>2. call'[w].pc = "password" => Passwords(call'[w].me) = {}
    <3>1. call'[w].pc = "password" => entity[call'[w].me].status = "free" /\ call'[w].me \in Entity
      BY <2>1 DEF Follows, TypeOK, CallOK
    <3>2. QED
      BY <3>1, AccountsAssumption DEF TypeOK, Passwords
  <2>3. \A v \in Worker : call'[v].pc \in SetsFirst =>
          \/ Passwords(call'[v].me) = {}
          \/ call[v].pc \in SetsFirst /\ call'[v].me = call[v].me
    BY <2>1, <2>2 DEF Follows, SetsFirst
  <2>4. QED
    BY <1>2, <2>3, OthersKeepPasswords, SamePasswords
<1>3. ASSUME NEW w \in Worker, RegisterPassword(w) \/ FirstCreate(w) PROVE PasswordsInv'
  <2> DEFINE e == call[w].me
             p == call[w].secret
  <2>1. /\ call[w].pc \in {"password", "first_create"} /\ e \in Entity /\ p \in Secret
        /\ entity[e].status # "free" /\ CreatePassword(e, p) /\ entity' = entity
    BY <1>3, AccountKnown, WorkerOK DEF RegisterPassword, FirstCreate, CallOK, Registering, FirstSet, SetsFirst
  <2>2. \A v \in Worker \ {w} : call'[v] = call[v]
    BY <1>3, Worked DEF Works
  <2>3. call'[w].pc = "attach"
    BY <1>3 DEF RegisterPassword, FirstCreate, Attaching, Goto, TypeOK, Ready
  <2>4. retired' = retired \ {<<e, p>>}
    BY <2>1 DEF CreatePassword
  <2>5. PICK k \in CredId : /\ cred[k].of = None /\ cred'[k] = [of |-> e, secret |-> p]
                            /\ \A l \in CredId \ {k} : cred'[l] = cred[l]
    BY <2>1, PasswordCreated, WorkerOK
  <2>6. Doubled(w, e) /\ (Passwords(e) = {} \/ e \in doubled)
    BY <1>3, <2>1 DEF RegisterPassword, FirstCreate, PasswordsInv, FirstInv, FirstSet, SetsFirst
  <2>7. /\ doubled \subseteq doubled'
        /\ \A v \in Worker \ {w} : call[v].pc \in SetsFirst /\ call[v].me = e => e \in doubled'
    BY <2>6 DEF Doubled
  <2>8. QED
    BY <2>1, <2>2, <2>3, <2>4, <2>5, <2>6, <2>7, PasswordAdded
<1>4. ASSUME NEW w \in Worker, Unlink(w) PROVE PasswordsInv'
  <2>1. /\ UNCHANGED <<cred, doubled, retired>> /\ call'[w].pc \notin SetsFirst
        /\ \A v \in Worker \ {w} : call'[v] = call[v]
    BY <1>4, Unlinked, Ordinary DEF FirstSet, SetsFirst
  <2>2. QED
    BY <2>1, SamePasswords
<1>5. ASSUME NEW e \in Entity, Disable(e) PROVE PasswordsInv'
  BY <1>5, Disabled, SamePasswords
<1>6. ASSUME NEW w \in Worker, ChangePassword(w) PROVE PasswordsInv'
  BY <1>6, PasswordChanged
<1>7. QED
  BY <1>1, <1>2, <1>3, <1>4, <1>5, <1>6, StepKinds DEF WritesPassword

AccountsInv == TypeOK /\ LoginRemains /\ UnlinkInv /\ PasswordsInv

THEOREM AccountsInvariant == Spec => []AccountsInv
<1>1. Init => AccountsInv
  <2> SUFFICES ASSUME Init PROVE AccountsInv
    OBVIOUS
  <2>1. TypeOK
    BY InitTypes
  <2>2. \A w \in Worker : call[w].pc = "ready"
    BY Ordinary DEF Init
  <2>3. LoginRemains /\ OneRow /\ PasswordReplaced
    BY Ordinary DEF Init, LoginRemains, OneRow, PasswordReplaced
  <2>4. QED
    BY <2>1, <2>2, <2>3
       DEF AccountsInv, UnlinkInv, PasswordsInv, FirstInv, FirstSet, SetsFirst
<1>2. AccountsInv /\ [Next]_vars => AccountsInv'
  <2>1. ASSUME AccountsInv, Next PROVE AccountsInv'
    <3>1. TypeOK'
      BY <2>1, StepKinds, Taken, Worked, Unlinked, Disabled DEF AccountsInv
    <3>2. QED
      BY <2>1, <3>1, LoginStep, UnlinkStep, PasswordsStep DEF AccountsInv
  <2>2. ASSUME AccountsInv, UNCHANGED vars PROVE AccountsInv'
    <3>1. UNCHANGED <<entity, cred, ident, session, call, faults, stranded, raced, doubled, retired>>
      BY <2>2 DEF vars, tables, past
    <3>2. TypeOK'
      BY <2>2, <3>1 DEF AccountsInv, TypeOK, CallOK, HoldsRow
    <3>3. LoginRemains' /\ UnlinkInv'
      BY <2>2, <3>1
         DEF AccountsInv, LoginRemains, UnlinkInv, OtherMethod, HasMethod, Passwords, Identities
    <3>4. PasswordsInv'
      BY <2>2, <3>1
         DEF AccountsInv, PasswordsInv, FirstInv, OneRow, PasswordReplaced, FirstSet, SetsFirst, Passwords
    <3>5. QED
      BY <3>2, <3>3, <3>4 DEF AccountsInv
  <2>3. QED
    BY <2>1, <2>2
<1>3. QED
  BY <1>1, <1>2, PTL DEF Spec

\* However registrations, logins, links, unlinks and failures overlap, an account
\* keeps a method to log in by, but for the cases LoginRemains names.
THEOREM AccountsLogin == Spec => []LoginRemains
BY AccountsInvariant, PTL DEF AccountsInv

\* A password that was replaced matches no login, unless the first one was set by
\* two requests at once, of which one may be the account's registration: a login by
\* 1Pass finds the row that is being registered by its name, whoever chose it.
THEOREM AccountsPasswords == Spec => []PasswordReplaced
BY AccountsInvariant, PTL DEF AccountsInv, PasswordsInv
=============================================================================
