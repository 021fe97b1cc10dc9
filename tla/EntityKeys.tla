----------------------------- MODULE EntityKeys -----------------------------
(***************************************************************************)
(* One bot or service: its permanent API keys, its row in the entities     *)
(* table and its WebSocket connections, under the owner's requests to      *)
(* rotate the key, approve, update, delete and reactivate                  *)
(* (internal/handler/entity.go, ws.go, internal/auth/middleware.go and     *)
(* internal/store/postgres/credential.go, entity.go).                      *)
(*                                                                         *)
(* Keys are numbered in the order in which they are issued. Only rotations *)
(* take the entity's rotation lock. The connections here are the ones of   *)
(* the hub; that a disconnected one leaves the hub is shown in Hub.        *)
(*                                                                         *)
(* An operator named X_Mutant is X with a plausible slip in it. No action  *)
(* uses it; it shows which property would notice.                          *)
(***************************************************************************)
EXTENDS Naturals, FiniteSets

CONSTANTS
  Worker,    \* goroutines that serve the owner's requests, one at a time
  Conn,      \* connection attempts of the entity
  None,      \* no worker
  MaxKeys,   \* bound: keys issued
  MaxFaults  \* bound: statements that fail

ASSUME KeysAssumption ==
  /\ None \notin Worker
  /\ MaxKeys \in Nat \ {0} /\ MaxFaults \in Nat

Key == Nat \ {0}

VARIABLES
  creds,    \* keys in the credentials table
  issued,   \* number of keys issued
  rotated,  \* history: the key of the last rotation that revoked the others
  lock,     \* holder of the entity's lock in RotationLocks
  active,   \* status column: "active", not "disabled"
  req,      \* request of each worker
  conn,     \* connection attempts of HandleWS
  faults    \* statements that failed

keyVars == <<creds, issued, rotated>>
vars    == <<creds, issued, rotated, lock, active, req, conn, faults>>

Steps   == {"ready", "lock", "issue", "revoke", "disconnect", "reactivate", "update"}
Request == [pc : Steps, key : {0} \cup Key, row : BOOLEAN]
ConnState == [at : {"new", "resolved", "admitted", "open", "kicked"}, key : {0} \cup Key]

Ready == [pc |-> "ready", key |-> 0, row |-> FALSE]

TypeOK ==
  /\ issued \in Key /\ creds \subseteq 1..issued /\ rotated \in 0..issued
  /\ lock \in Worker \cup {None}
  /\ active \in BOOLEAN
  /\ req \in [Worker -> Request]
  /\ conn \in [Conn -> ConnState]
  /\ faults \in Nat

\* HandleCreateEntity has issued the first key
Init ==
  /\ creds = {1} /\ issued = 1 /\ rotated = 0
  /\ lock = None
  /\ active = TRUE
  /\ req = [w \in Worker |-> Ready]
  /\ conn = [c \in Conn |-> [at |-> "new", key |-> 0]]
  /\ faults = 0

\* each request under way that will issue a key has room for it within MaxKeys
RoomForKey == issued + Cardinality({w \in Worker : req[w].pc \in {"lock", "issue"}}) < MaxKeys

Goto(w, r) == req' = [req EXCEPT ![w] = r]
Step(w, pc) == Goto(w, [req[w] EXCEPT !.pc = pc])

\* the handler returns; a rotation's defer releases the lock
Return_Mutant(w) == Goto(w, Ready) /\ lock' = IF req[w].pc = "disconnect" /\ lock = w
                                              THEN None ELSE lock
Return(w) == Goto(w, Ready) /\ lock' = IF lock = w THEN None ELSE lock
-----------------------------------------------------------------------------
(* HandleRegenerateEntityToken *)

Regenerate(w) ==
  /\ req[w].pc = "ready"
  /\ RoomForKey
  /\ Step(w, "lock")
  /\ UNCHANGED <<keyVars, lock, active, conn, faults>>

\* lockEntityRotation
LockRotation_Mutant(w) ==
  /\ req[w].pc = "lock"
  /\ Step(w, "issue")
  /\ UNCHANGED <<keyVars, lock, active, conn, faults>>

LockRotation(w) ==
  /\ req[w].pc = "lock"
  /\ lock = None
  /\ lock' = w
  /\ Step(w, "issue")
  /\ UNCHANGED <<keyVars, active, conn, faults>>

\* issuePermanentCredential, with its retries on a collision
Issue(w) ==
  /\ req[w].pc = "issue"
  /\ issued' = issued + 1
  /\ creds' = creds \cup {issued + 1}
  /\ Goto(w, [req[w] EXCEPT !.pc = "revoke", !.key = issued + 1])
  /\ UNCHANGED <<rotated, lock, active, conn, faults>>

\* DeleteCredentialsByTypeExceptHash
Revoke(w) ==
  /\ req[w].pc = "revoke"
  /\ creds' = creds \cap {req[w].key}
  /\ rotated' = req[w].key
  /\ Step(w, "disconnect")
  /\ UNCHANGED <<issued, lock, active, conn, faults>>

\* Hub.DisconnectEntity, the last statement of a rotation and of HandleDeleteEntity
Disconnect(w) ==
  /\ req[w].pc = "disconnect"
  /\ conn' = [c \in Conn |-> IF conn[c].at = "open" THEN [conn[c] EXCEPT !.at = "kicked"]
                                                    ELSE conn[c]]
  /\ Return(w)
  /\ UNCHANGED <<keyVars, active, faults>>

\* a statement that changes a table fails: 500
Fails(w) ==
  /\ req[w].pc \in {"issue", "revoke", "reactivate", "update"}
  /\ faults < MaxFaults
  /\ faults' = faults + 1
  /\ Return(w)
  /\ UNCHANGED <<keyVars, active, conn>>
-----------------------------------------------------------------------------
\* HandleApproveConnection: adds a key and pushes it to the connected entity,
\* without the lock and without revoking any
Approve(w) ==
  /\ req[w].pc = "ready"
  /\ RoomForKey
  /\ issued' = issued + 1
  /\ creds' = creds \cup {issued + 1}
  /\ UNCHANGED <<rotated, lock, active, req, conn, faults>>

\* HandleDeleteEntity: status 'disabled', whatever it was, then DisconnectEntity
DeleteEntity(w) ==
  /\ req[w].pc = "ready"
  /\ active' = FALSE
  /\ Step(w, "disconnect")
  /\ UNCHANGED <<keyVars, lock, conn, faults>>

\* HandleReactivateEntity: the test and the update of status
ReactivateCheck(w) ==
  /\ req[w].pc = "ready"
  /\ ~active
  /\ Step(w, "reactivate")
  /\ UNCHANGED <<keyVars, lock, active, conn, faults>>

Reactivate(w) ==
  /\ req[w].pc = "reactivate"
  /\ active' = TRUE
  /\ Return(w)
  /\ UNCHANGED <<keyVars, conn, faults>>

\* HandleUpdateEntity: reads the row, and UpdateEntity writes all of it back
UpdateRead(w) ==
  /\ req[w].pc = "ready"
  /\ Goto(w, [req[w] EXCEPT !.pc = "update", !.row = active])
  /\ UNCHANGED <<keyVars, lock, active, conn, faults>>

UpdateWrite(w) ==
  /\ req[w].pc = "update"
  /\ active' = req[w].row
  /\ Return(w)
  /\ UNCHANGED <<keyVars, conn, faults>>
-----------------------------------------------------------------------------
(* HandleWS: ResolveAPIKey, the test of the status, Hub.Register *)

ConnResolve(c) ==
  /\ conn[c].at = "new"
  /\ \E k \in creds : conn' = [conn EXCEPT ![c] = [at |-> "resolved", key |-> k]]
  /\ UNCHANGED <<keyVars, lock, active, req, faults>>

ConnAdmit(c) ==
  /\ conn[c].at = "resolved"
  /\ active
  /\ conn' = [conn EXCEPT ![c].at = "admitted"]
  /\ UNCHANGED <<keyVars, lock, active, req, faults>>

ConnRegister(c) ==
  /\ conn[c].at = "admitted"
  /\ conn' = [conn EXCEPT ![c].at = "open"]
  /\ UNCHANGED <<keyVars, lock, active, req, faults>>
-----------------------------------------------------------------------------
Rotate(w)  == LockRotation(w) \/ Issue(w) \/ Revoke(w) \/ Disconnect(w)
Arrives(w) == Regenerate(w) \/ Approve(w) \/ DeleteEntity(w) \/ ReactivateCheck(w) \/ UpdateRead(w)
Serve(w)   == Rotate(w) \/ Fails(w) \/ Reactivate(w) \/ UpdateWrite(w)

Next ==
  \/ \E w \in Worker : Arrives(w) \/ Serve(w)
  \/ \E c \in Conn : ConnResolve(c) \/ ConnAdmit(c) \/ ConnRegister(c)

Spec == Init /\ [][Next]_vars

\* A handler that can go on does. A mutex that is free again and again is
\* acquired by each goroutine that waits for it (sync.Mutex is starvation-free).
FairSpec ==
  /\ Spec
  /\ \A w \in Worker : WF_vars(Serve(w)) /\ SF_vars(LockRotation(w))
-----------------------------------------------------------------------------
(* Properties *)

Rotating(w) == req[w].pc \in {"revoke", "disconnect"} /\ lock = w

\* "Create new credential FIRST, so entity always has at least one valid key":
\* rotations, approvals and failures in any order never leave the entity keyless.
AlwaysHasKey == creds # {}

\* The key a rotation is about to answer is valid until it answers, whatever else
\* is rotated or approved meanwhile.
IssuedKeyKept ==
  \A w \in Worker : req[w].pc \in {"revoke", "disconnect"} /\ req[w].key # 0 => req[w].key \in creds

\* What one rotation revoked never comes back: every key is at least as young as
\* the last key whose rotation revoked the others.
RevokedForGood == \A k \in creds : k >= rotated

\* A rotation that asked for the lock is answered.
RotationEnds == \A w \in Worker : req[w].pc = "lock" ~> req[w].pc = "ready"

\* "disconnects existing sessions" (docs): when a rotation answers, no open
\* connection was admitted with a key it revoked, and none becomes open later.
RevokedKeysDisconnected ==
  (\A w \in Worker : req[w].pc = "ready") =>
    \A c \in Conn : conn[c].at = "open" => conn[c].key >= rotated

\* What is left of it: a connection only ever takes a key that no rotation has
\* revoked, and outlives a rotation only by registering after its
\* DisconnectEntity. So the handshakes that a rotation leaves open are those it
\* overtook: they resolved the key before its revocation and registered after its
\* disconnect. The test of the status may come anywhere between.
Outlives(c) ==
  /\ conn[c].at = "open" /\ conn[c].key < rotated
  /\ \A w \in Worker : ~(req[w].pc = "disconnect" /\ req[w].key # 0)

OutlivesOnlyOvertaken == [][\A c \in Conn :
  /\ conn'[c].key # conn[c].key => ConnResolve(c) /\ conn'[c].key >= rotated'
  /\ Outlives(c)' /\ ~Outlives(c) => ConnRegister(c)]_vars
=============================================================================
