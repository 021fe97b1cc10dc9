----------------------------- MODULE HubProofs -----------------------------
(***************************************************************************)
(* Proofs about the hub, for any number of connections, entities,          *)
(* conversations, requests and disconnect calls.                           *)
(***************************************************************************)
EXTENDS HubProperties, FiniteSetTheorems, TLAPS

\* A connection the hub has ever held is past its registration, so a
\* registration never brings back a connection that was closed.
Placed == \A c \in clients \cup closed : conn[c] \notin {"new", "registering"}

\* The clauses of SendersOpen and AnnouncementIsTrue with what they rest on
TableInv == TypeOK /\ Placed /\ SendersOpen /\ AnnouncementIsTrue

-----------------------------------------------------------------------------
\* The two values Hub.Run's state takes, told apart by their busy field
LEMMA RunStates ==
  /\ Idle \in RunState /\ ~Idle.busy
  /\ \A e \in Entity, on \in BOOLEAN :
       /\ Announcing(e, on) \in RunState /\ Announcing(e, on).busy
       /\ Announcing(e, on).ent = e /\ Announcing(e, on).online = on
  /\ \A r \in RunState : r.busy \in BOOLEAN /\ (r.busy => r.ent \in Entity /\ r.online \in BOOLEAN)
<1>1. Idle \in RunState /\ ~Idle.busy /\ Idle.busy \in BOOLEAN
  BY DEF RunState, Idle
<1>2. ASSUME NEW e \in Entity, NEW on \in BOOLEAN
      PROVE  /\ Announcing(e, on) \in RunState
             /\ Announcing(e, on).busy /\ Announcing(e, on).busy \in BOOLEAN
             /\ Announcing(e, on).ent = e /\ Announcing(e, on).online = on
  <2>1. Announcing(e, on) \in RunState
    BY DEF RunState
  <2>2. QED
    BY <2>1 DEF Announcing
<1>3. ASSUME NEW r \in RunState
      PROVE  r.busy \in BOOLEAN /\ (r.busy => r.ent \in Entity /\ r.online \in BOOLEAN)
  <2>1. r = Idle \/ \E e \in Entity, on \in BOOLEAN : r = Announcing(e, on)
    BY DEF RunState
  <2>2. CASE r = Idle
    BY <1>1, <2>2
  <2>3. ASSUME NEW e \in Entity, NEW on \in BOOLEAN, r = Announcing(e, on)
        PROVE  r.busy \in BOOLEAN /\ r.ent \in Entity /\ r.online \in BOOLEAN
    BY <1>2, <2>3
  <2>4. QED
    BY <2>1, <2>2, <2>3
<1>4. QED
  BY <1>1, <1>2, <1>3

LEMMA InitTable == Init => TableInv
<1> SUFFICES ASSUME Init PROVE TableInv
  OBVIOUS
<1>1. run \in RunState /\ ~run.busy
  BY RunStates DEF Init
<1>2. rest \in [Rest -> RestState] /\ kick \in [Kicker -> KickState]
  BY DEF Init, RestState, KickState
<1>3. TypeOK
  BY <1>1, <1>2 DEF Init, TypeOK, ConnState
<1>4. QED
  BY <1>1, <1>3 DEF Init, TableInv, Placed, SendersOpen, AnnouncementIsTrue

LEMMA TypeStep == TypeOK /\ [Next]_vars => TypeOK'
<1> SUFFICES ASSUME TypeOK, [Next]_vars PROVE TypeOK'
  OBVIOUS
<1>1. ASSUME NEW c \in Client, RegisterFetch(c) PROVE TypeOK'
  <2>1. ConvIDs(EntityOf[c]) \in SUBSET Conv
    BY DEF ConvIDs
  <2>2. fetched' \in [Client -> SUBSET Conv] /\ faults' \in Nat
    <3>1. fetched \in [Client -> SUBSET Conv] /\ faults \in Nat
      BY DEF TypeOK
    <3>2. \/ fetched' = [fetched EXCEPT ![c] = ConvIDs(EntityOf[c])] /\ faults' = faults
          \/ fetched' = fetched /\ faults' = faults + 1
      BY <1>1 DEF RegisterFetch
    <3>3. QED
      BY <2>1, <3>1, <3>2
  <2>3. QED
    BY <1>1, <2>2 DEF RegisterFetch, ConnState, TypeOK, tableVars, countVars, dbVars, runVars
<1>2. ASSUME NEW c \in Client, PumpExit(c) PROVE TypeOK'
  BY <1>2 DEF TypeOK, tableVars, countVars, dbVars, runVars, PumpExit, ConnState
<1>3. ASSUME NEW c \in Client, PumpUnregister(c) PROVE TypeOK'
  BY <1>3 DEF TypeOK, tableVars, countVars, dbVars, runVars, PumpUnregister, ConnState
<1>4. ASSUME NEW c \in Client, RunRegister(c) PROVE TypeOK'
  <2>1. run' \in RunState
    BY HubAssumption, RunStates, <1>4 DEF RunRegister, AfterRegister
  <2>2. QED
    BY <1>4, <2>1 DEF RunRegister, ApplySubscriptions, ConnState, TypeOK, tableVars, countVars, dbVars, runVars
<1>5. ASSUME RunUnregister PROVE TypeOK'
  <2>1. queue' \in Seq(Client) /\ Head(queue) \in Client
    BY <1>5 DEF RunUnregister, TypeOK
  <2>2. CASE Head(queue) \notin clients
    BY <1>5, <2>1, <2>2 DEF RunUnregister, TypeOK, tableVars, countVars, dbVars, runVars
  <2>3. CASE Head(queue) \in clients
    <3>1. RemoveClient(Head(queue))
      BY <1>5, <2>3 DEF RunUnregister
    <3>2. EntityOf[Head(queue)] \in Entity
      BY <2>1, HubAssumption
    <3>3. run' \in RunState
      BY <3>1, <3>2, RunStates DEF RemoveClient, AfterRemoval
    <3>4. forcedCount' \in [Entity -> Nat] /\ disconnectCount' \in [Entity -> Nat]
      BY <3>1, <3>2 DEF RemoveClient, CountDisconnect, TypeOK
    <3>5. convClients' \in [Conv -> SUBSET Client] /\ convKeys' \subseteq Conv
      BY <3>1 DEF RemoveClient, UnsubscribeClient, TypeOK
    <3>6. clients' \subseteq Client /\ closed' \subseteq Client /\ forcedMarked' \subseteq Client
      BY <3>1, <2>1 DEF RemoveClient, CountDisconnect, TypeOK
    <3>7. QED
      BY <1>5, <2>1, <3>3, <3>4, <3>5, <3>6 DEF RunUnregister, TypeOK, tableVars, countVars, dbVars, runVars
  <2>4. QED
    BY <2>2, <2>3
<1>6. ASSUME RunAnnounce PROVE TypeOK'
  <2>1. run' \in RunState /\ run.ent \in Entity /\ run.online \in BOOLEAN
    BY <1>6, RunStates DEF RunAnnounce, TypeOK
  <2>2. QED
    BY <1>6, <2>1 DEF RunAnnounce, TypeOK, tableVars, countVars, dbVars, runVars
<1>7. ASSUME NEW d \in Kicker, NEW ts \in SUBSET Client, Kick(d, ts) PROVE TypeOK'
  BY <1>7 DEF TypeOK, tableVars, countVars, dbVars, runVars, Kick, KickState
<1>8. ASSUME NEW d \in Kicker, NEW c \in Client, KickMark(d, c) PROVE TypeOK'
  <2>1. kick' \in [Kicker -> KickState]
    BY <1>8 DEF KickMark, KickState, TypeOK
  <2>2. QED
    BY <1>8, <2>1 DEF KickMark, TypeOK, tableVars, countVars, dbVars, runVars
<1>9. ASSUME NEW d \in Kicker, NEW c \in Client, KickUnregister(d, c) PROVE TypeOK'
  <2>1. kick' \in [Kicker -> KickState]
    BY <1>9 DEF KickUnregister, KickState, TypeOK
  <2>2. QED
    BY <1>9, <2>1 DEF KickUnregister, TypeOK, tableVars, countVars, dbVars, runVars
<1>10. ASSUME NEW r \in Rest, Request(r) PROVE TypeOK'
  <2>1. ConvOf[r] \in Conv
    BY HubAssumption
  <2>2. ASSUME NEW e \in Entity, RestCreate(r, e) PROVE TypeOK'
    <3>1. rest' \in [Rest -> RestState]
      BY <2>2, ZenonT(40) DEF RestCreate, Continue, RestState, TypeOK
    <3>2. row' \in [Entity -> [Conv -> RowState]]
      BY <2>1, <2>2 DEF RestCreate, InsertRow, RowState, TypeOK
    <3>3. QED
      BY <2>2, <3>1, <3>2 DEF RestCreate, TypeOK, tableVars, countVars, dbVars, runVars
  <2>3. ASSUME NEW e \in Entity, RestAdd(r, e) PROVE TypeOK'
    <3>1. rest' \in [Rest -> RestState]
      BY <2>3, ZenonT(40) DEF RestAdd, Continue, RestState, TypeOK
    <3>2. row' \in [Entity -> [Conv -> RowState]]
      BY <2>1, <2>3 DEF RestAdd, InsertRow, RowState, TypeOK
    <3>3. QED
      BY <2>3, <3>1, <3>2 DEF RestAdd, TypeOK, tableVars, countVars, dbVars, runVars
  <2>4. ASSUME NEW e \in Entity, RestJoin(r, e) PROVE TypeOK'
    <3>1. rest' \in [Rest -> RestState]
      BY <2>4, ZenonT(40) DEF RestJoin, Continue, RestState, TypeOK
    <3>2. row' \in [Entity -> [Conv -> RowState]]
      BY <2>1, <2>4 DEF RestJoin, InsertRow, RowState, TypeOK
    <3>3. QED
      BY <2>4, <3>1, <3>2 DEF RestJoin, TypeOK, tableVars, countVars, dbVars, runVars
  <2>5. ASSUME NEW e \in Entity, RestRemove(r, e) PROVE TypeOK'
    <3>1. rest' \in [Rest -> RestState]
      BY <2>5 DEF RestRemove, Continue, RestState, TypeOK
    <3>2. row' \in [Entity -> [Conv -> RowState]]
      BY <2>1, <2>5 DEF RestRemove, SetLeft, RowState, TypeOK
    <3>3. QED
      BY <2>5, <3>1, <3>2 DEF RestRemove, TypeOK, tableVars, countVars, dbVars, runVars
  <2>6. ASSUME RestCreateFails(r) PROVE TypeOK'
    <3>1. rest' \in [Rest -> RestState]
      BY <2>6, ZenonT(40) DEF RestCreateFails, Continue, RestState, TypeOK
    <3>2. QED
      BY <2>6, <3>1 DEF RestCreateFails, TypeOK, tableVars, countVars, dbVars, runVars
  <2>7. ASSUME RestSubscribe(r) PROVE TypeOK'
    <3>1. PICK pc \in {"notify", "done"} :
            rest' = [rest EXCEPT ![r].pc = pc, ![r].ents = rest[r].ents]
      BY <2>7 DEF RestSubscribe, Continue
    <3>2. rest' \in [Rest -> RestState]
      BY <3>1, ZenonT(40) DEF RestState, TypeOK
    <3>3. convClients' \in [Conv -> SUBSET Client] /\ convKeys' \subseteq Conv
      BY <2>1, <2>7 DEF RestSubscribe, TypeOK
    <3>4. QED
      BY <2>7, <3>2, <3>3 DEF RestSubscribe, TypeOK, tableVars, countVars, dbVars, runVars
  <2>8. ASSUME RestUnsubscribe(r) PROVE TypeOK'
    <3>1. rest' \in [Rest -> RestState]
      BY <2>8, ZenonT(40) DEF RestUnsubscribe, Continue, RestState, TypeOK
    <3>2. convClients' \in [Conv -> SUBSET Client] /\ convKeys' \subseteq Conv
      BY <2>1, <2>8 DEF RestUnsubscribe, TypeOK
    <3>3. QED
      BY <2>8, <3>1, <3>2 DEF RestUnsubscribe, TypeOK, tableVars, countVars, dbVars, runVars
  <2>9. ASSUME RestPanic(r) PROVE TypeOK'
    <3>1. rest' \in [Rest -> RestState]
      BY <2>9, ZenonT(40) DEF RestPanic, Continue, RestState, TypeOK
    <3>2. QED
      BY <2>9, <3>1 DEF RestPanic, TypeOK, tableVars, countVars, dbVars, runVars
  <2>10. QED
    BY <1>10, <2>2, <2>3, <2>4, <2>5, <2>6, <2>7, <2>8, <2>9 DEF Request
<1>12. CASE UNCHANGED vars
  BY <1>12 DEF TypeOK, vars
<1>13. ASSUME NEW d \in Kicker, Kicks(d) PROVE TypeOK'
  <2>1. ASSUME NEW e \in Entity, DisconnectEntity(d, e) PROVE TypeOK'
    <3>1. {c \in clients : EntityOf[c] = e} \in SUBSET Client
      BY DEF TypeOK
    <3>2. QED
      BY <2>1, <3>1, <1>7 DEF DisconnectEntity
  <2>2. ASSUME NEW e \in Entity, NEW v \in Device, DisconnectDevice(d, e, v)
        PROVE  TypeOK'
    <3>1. {c \in clients : EntityOf[c] = e /\ DeviceOf[c] = v} \in SUBSET Client
      BY DEF TypeOK
    <3>2. QED
      BY <2>2, <3>1, <1>7 DEF DisconnectDevice
  <2>3. QED
    BY <1>13, <1>8, <1>9, <2>1, <2>2 DEF Kicks
<1>14. QED
  BY <1>1, <1>2, <1>3, <1>4, <1>5, <1>6, <1>10, <1>12, <1>13
  DEF Next, Run, Connection
-----------------------------------------------------------------------------
\* The tables of the hub: what Hub.Run and the subscription calls preserve
LEMMA TableStep == TableInv /\ [Next]_vars => TableInv'
<1> SUFFICES ASSUME TableInv, [Next]_vars PROVE Placed' /\ SendersOpen' /\ AnnouncementIsTrue'
  BY TypeStep DEF TableInv
<1>1. TypeOK /\ Placed /\ SendersOpen /\ AnnouncementIsTrue
  BY DEF TableInv
<1>2. ASSUME NEW c \in Client, RegisterFetch(c) \/ PumpExit(c) \/ PumpUnregister(c)
      PROVE  Placed' /\ SendersOpen' /\ AnnouncementIsTrue'
  <2>1. clients' = clients /\ closed' = closed /\ conn'[c] # "new"
    BY <1>1, <1>2 DEF RegisterFetch, PumpExit, PumpUnregister, tableVars, TypeOK
  <2>2. Placed'
    BY <1>1, <1>2 DEF RegisterFetch, PumpExit, PumpUnregister, tableVars, TypeOK, Placed
  <2>3. QED
    BY <1>1, <1>2, <2>2 DEF RegisterFetch, PumpExit, PumpUnregister, tableVars, runVars,
                            SendersOpen, AnnouncementIsTrue, Online, OnlineIn
<1>3. ASSUME NEW c \in Client, RunRegister(c)
      PROVE  Placed' /\ SendersOpen' /\ AnnouncementIsTrue'
  <2>1. c \notin clients \cup closed
    BY <1>1, <1>3 DEF RunRegister, Placed
  <2>2. Placed'
    BY <1>1, <1>3 DEF RunRegister, Placed, TypeOK
  <2>3. SendersOpen'
    BY <1>1, <1>3, <2>1 DEF RunRegister, ApplySubscriptions, SendersOpen, TypeOK
  <2>4. AnnouncementIsTrue'
    BY <1>1, <1>3, RunStates, HubAssumption
    DEF RunRegister, AfterRegister, AnnouncementIsTrue, Online, OnlineIn
  <2>5. QED
    BY <2>2, <2>3, <2>4
<1>4. ASSUME RunUnregister PROVE Placed' /\ SendersOpen' /\ AnnouncementIsTrue'
  <2>1. Head(queue) \in Client
    BY <1>1, <1>4 DEF RunUnregister, TypeOK
  <2>2. CASE Head(queue) \notin clients
    BY <1>1, <1>4, <2>2 DEF RunUnregister, tableVars, Placed, SendersOpen, AnnouncementIsTrue,
                            Online, OnlineIn
  <2>3. CASE Head(queue) \in clients
    <3>1. RemoveClient(Head(queue)) /\ conn' = conn
      BY <1>4, <2>3 DEF RunUnregister
    <3>2. Placed'
      BY <1>1, <3>1, <2>3 DEF RemoveClient, Placed
    <3>3. SendersOpen'
      BY <1>1, <3>1, <2>3 DEF RemoveClient, UnsubscribeClient, SendersOpen, TypeOK
    <3>4. AnnouncementIsTrue'
      BY <1>1, <3>1, <2>1, RunStates, HubAssumption
      DEF RemoveClient, AfterRemoval, AnnouncementIsTrue, Online, OnlineIn
    <3>5. QED
      BY <3>2, <3>3, <3>4
  <2>4. QED
    BY <2>2, <2>3
<1>5. ASSUME RunAnnounce PROVE Placed' /\ SendersOpen' /\ AnnouncementIsTrue'
  BY <1>1, <1>5, RunStates
  DEF RunAnnounce, tableVars, Placed, SendersOpen, AnnouncementIsTrue
<1>6. ASSUME NEW d \in Kicker, Kicks(d)
      PROVE  Placed' /\ SendersOpen' /\ AnnouncementIsTrue'
  <2>1. UNCHANGED <<conn, tableVars, runVars>>
    BY <1>6 DEF Kicks, DisconnectEntity, DisconnectDevice, Kick, KickMark, KickUnregister,
                tableVars, runVars
  <2>2. QED
    BY <1>1, <2>1 DEF tableVars, runVars, Placed, SendersOpen, AnnouncementIsTrue, Online, OnlineIn
<1>7. ASSUME NEW r \in Rest, Request(r)
      PROVE  Placed' /\ SendersOpen' /\ AnnouncementIsTrue'
  <2>1. UNCHANGED <<conn, clients, closed, runVars>>
    BY <1>7 DEF Request, RestCreate, RestAdd, RestJoin, RestRemove, RestCreateFails,
                RestSubscribe, RestUnsubscribe, RestPanic, tableVars, runVars
  <2>2. SendersOpen'
    <3>1. ConvOf[r] \in Conv
      BY HubAssumption
    <3>2. CASE RestSubscribe(r)
      BY <1>1, <2>1, <3>1, <3>2 DEF RestSubscribe, SendersOpen, TypeOK
    <3>3. CASE RestUnsubscribe(r)
      BY <1>1, <2>1, <3>1, <3>3 DEF RestUnsubscribe, SendersOpen, TypeOK
    <3>4. CASE UNCHANGED tableVars
      BY <1>1, <3>4 DEF tableVars, SendersOpen
    <3>5. QED
      BY <1>7, <3>2, <3>3, <3>4 DEF Request, RestCreate, RestAdd, RestJoin, RestRemove,
                                    RestCreateFails, RestPanic
  <2>3. QED
    BY <1>1, <2>1, <2>2 DEF runVars, Placed, AnnouncementIsTrue, Online, OnlineIn
<1>8. CASE UNCHANGED vars
  BY <1>1, <1>8 DEF vars, Placed, SendersOpen, AnnouncementIsTrue, Online, OnlineIn
<1>9. QED
  BY <1>2, <1>3, <1>4, <1>5, <1>6, <1>7, <1>8 DEF Next, Run, Connection

\* Every reachable state has the types, no table holds a connection whose channel
\* is closed, and what Hub.Run is about to announce is true.
THEOREM HubTables == Spec => [](TypeOK /\ SendersOpen /\ AnnouncementIsTrue)
<1>1. TableInv => TypeOK /\ SendersOpen /\ AnnouncementIsTrue
  BY DEF TableInv
<1>2. QED
  BY <1>1, InitTable, TableStep, PTL DEF Spec

\* No step brings back a closed connection: close(client.send) happens once.
THEOREM HubNeverReopens == Spec => NeverReopened
<1>1. TableInv /\ [Next]_vars => [closed \subseteq closed' /\ closed \cap clients' = {}]_vars
  <2> SUFFICES ASSUME TableInv, [Next]_vars
               PROVE  closed \subseteq closed' /\ closed \cap clients' = {}
    OBVIOUS
  <2>1. TypeOK /\ Placed /\ SendersOpen
    BY DEF TableInv
  <2>2. ASSUME NEW c \in Client, RunRegister(c)
        PROVE  closed \subseteq closed' /\ closed \cap clients' = {}
    BY <2>1, <2>2 DEF RunRegister, Placed, SendersOpen
  <2>3. CASE RunUnregister
    BY <2>1, <2>3 DEF RunUnregister, RemoveClient, tableVars, SendersOpen
  <2>4. CASE clients' = clients /\ closed' = closed
    BY <2>1, <2>4 DEF SendersOpen
  <2>5. CASE RunAnnounce
    BY <2>4, <2>5 DEF RunAnnounce, tableVars
  <2>6. ASSUME NEW c \in Client, Connection(c) PROVE clients' = clients /\ closed' = closed
    BY <2>6 DEF Connection, RegisterFetch, PumpExit, PumpUnregister, tableVars
  <2>7. ASSUME NEW d \in Kicker, Kicks(d) PROVE clients' = clients /\ closed' = closed
    BY <2>7 DEF Kicks, DisconnectEntity, DisconnectDevice, Kick, KickMark, KickUnregister,
                tableVars
  <2>8. ASSUME NEW r \in Rest, Request(r) PROVE clients' = clients /\ closed' = closed
    BY <2>8 DEF Request, RestCreate, RestAdd, RestJoin, RestRemove, RestCreateFails,
                RestSubscribe, RestUnsubscribe, RestPanic, tableVars
  <2>9. CASE UNCHANGED vars
    BY <2>4, <2>9 DEF vars
  <2>10. QED
    BY <2>2, <2>3, <2>4, <2>5, <2>6, <2>7, <2>8, <2>9 DEF Next, Run
<1>2. QED
  BY <1>1, InitTable, TableStep, PTL DEF Spec, NeverReopened
-----------------------------------------------------------------------------
LEMMA InitPresence == Init => P!Init
BY RunStates DEF Init, P!Init

\* Each case of Hub.Run is one action of Presence; every other step leaves the
\* connections, the pending announcement and the announced presence alone.
LEMMA PresenceStep == TableInv /\ [Next]_vars => [P!Next]_(P!presenceVars)
<1> SUFFICES ASSUME TableInv, [Next]_vars PROVE P!Next \/ UNCHANGED P!presenceVars
  OBVIOUS
<1>1. TypeOK /\ Placed /\ SendersOpen /\ AnnouncementIsTrue
  BY DEF TableInv
<1>2. ASSUME NEW c \in Client, RunRegister(c) PROVE P!Next
  <2>1. c \notin clients /\ EntityOf[c] \in Entity
    BY <1>1, <1>2, HubAssumption DEF RunRegister, Placed
  <2>2. P!Change(clients \cup {c}, c)
    BY <1>2, <2>1, RunStates DEF RunRegister, AfterRegister, Online, OnlineIn, P!Change, P!HasLive
  <2>3. P!Connect(c)
    BY <2>1, <2>2 DEF P!Connect
  <2>4. QED
    BY <2>3 DEF P!Next
<1>3. CASE RunUnregister
  <2>1. CASE Head(queue) \notin clients
    BY <1>3, <2>1 DEF RunUnregister, tableVars, P!presenceVars
  <2>2. CASE Head(queue) \in clients
    <3> DEFINE c == Head(queue)
    <3>1. RemoveClient(c) /\ ~run.busy /\ shown' = shown
      BY <1>3, <2>2 DEF RunUnregister
    <3>2. c \in Client /\ EntityOf[c] \in Entity
      BY <1>1, <2>2, HubAssumption DEF TypeOK
    <3> HIDE DEF c
    <3>3. c \in clients
      BY <2>2 DEF c
    <3>4. P!Change(clients \ {c}, c)
      BY <3>1, <3>2, <3>3, RunStates DEF RemoveClient, AfterRemoval, OnlineIn, P!Change, P!HasLive
    <3>5. P!Disconnect(c)
      BY <3>3, <3>4 DEF P!Disconnect
    <3>6. QED
      BY <3>2, <3>5 DEF P!Next
  <2>3. QED
    BY <2>1, <2>2
<1>4. CASE RunAnnounce
  <2>1. /\ run.busy /\ run.ent \in Entity /\ run.online \in BOOLEAN
        /\ run' = Idle /\ ~Idle.busy /\ clients' = clients
    BY <1>1, <1>4, RunStates DEF RunAnnounce, tableVars, TypeOK
  <2>2. run.online = P!HasLive(clients, run.ent)
    BY <1>1, <2>1 DEF AnnouncementIsTrue, Online, OnlineIn, P!HasLive
  <2>3. CASE shown' = [shown EXCEPT ![run.ent] = run.online]
    BY <2>1, <2>2, <2>3 DEF P!Announce, P!Next
  <2>4. CASE shown' = shown
    BY <2>1, <2>4 DEF P!Lose, P!Next
  <2>5. QED
    BY <1>4, <2>3, <2>4 DEF RunAnnounce
<1>5. CASE UNCHANGED <<clients, run, shown>>
  BY <1>5 DEF P!presenceVars
<1>6. ASSUME NEW c \in Client, Connection(c) PROVE UNCHANGED <<clients, run, shown>>
  BY <1>6 DEF Connection, RegisterFetch, PumpExit, PumpUnregister, tableVars, runVars
<1>7. ASSUME NEW d \in Kicker, Kicks(d) PROVE UNCHANGED <<clients, run, shown>>
  BY <1>7 DEF Kicks, DisconnectEntity, DisconnectDevice, Kick, KickMark, KickUnregister,
              tableVars, runVars
<1>8. ASSUME NEW r \in Rest, Request(r) PROVE UNCHANGED <<clients, run, shown>>
  BY <1>8 DEF Request, RestCreate, RestAdd, RestJoin, RestRemove, RestCreateFails,
              RestSubscribe, RestUnsubscribe, RestPanic, tableVars, runVars
<1>9. CASE UNCHANGED vars
  BY <1>5, <1>9 DEF vars
<1>10. QED
  BY <1>2, <1>3, <1>4, <1>5, <1>6, <1>7, <1>8, <1>9 DEF Next, Run

\* The hub keeps the promise of Presence: announcements alternate, none is stale
\* when it is made, and no change goes by unannounced except by a failed read.
THEOREM HubImplementsPresence == Spec => ImplementsPresence
BY InitTable, TableStep, InitPresence, PresenceStep, PTL DEF Spec, ImplementsPresence, P!Spec
-----------------------------------------------------------------------------
ClosedOf(e) == {c \in closed : EntityOf[c] = e}

CountInv ==
  /\ IsFiniteSet(closed)
  /\ \A e \in Entity : disconnectCount[e] = Cardinality(ClosedOf(e))
  /\ \A e \in Entity : forcedCount[e] <= disconnectCount[e]

LEMMA InitCount == Init => CountInv
<1> SUFFICES ASSUME Init PROVE CountInv
  OBVIOUS
<1>1. \A e \in Entity : ClosedOf(e) = {}
  BY DEF Init, ClosedOf
<1>2. closed = {} /\ \A e \in Entity : disconnectCount[e] = 0 /\ forcedCount[e] = 0
  BY DEF Init
<1>3. QED
  BY <1>1, <1>2, FS_EmptySet DEF CountInv

\* Only RemoveClient counts, and it counts a connection that was not closed yet
LEMMA CountStep == TableInv /\ CountInv /\ [Next]_vars => CountInv'
<1> SUFFICES ASSUME TableInv, CountInv, [Next]_vars PROVE CountInv'
  OBVIOUS
<1>1. TypeOK /\ SendersOpen
  BY DEF TableInv
<1>2. CASE RunUnregister /\ Head(queue) \in clients
  <2> DEFINE c == Head(queue)
             f == EntityOf[c]
  <2>1. RemoveClient(c) /\ c \in clients
    BY <1>2 DEF RunUnregister
  <2>2. c \in Client /\ f \in Entity /\ c \notin closed
    BY <1>1, <2>1, HubAssumption DEF TypeOK, SendersOpen
  <2>3. closed' = closed \cup {c}
    BY <2>1 DEF RemoveClient
  <2>4. /\ disconnectCount' = [disconnectCount EXCEPT ![f] = @ + 1]
        /\ forcedCount' = [forcedCount EXCEPT ![f] = IF c \in forcedMarked THEN @ + 1 ELSE @]
    BY <2>1 DEF RemoveClient, CountDisconnect
  <2> HIDE DEF c
  <2>5. IsFiniteSet(closed')
    BY <2>3, FS_AddElement DEF CountInv
  <2>6. ASSUME NEW e \in Entity PROVE disconnectCount'[e] = Cardinality(ClosedOf(e)')
    <3>1. CASE e = f
      <4>1. ClosedOf(e)' = ClosedOf(e) \cup {c} /\ c \notin ClosedOf(e)
        BY <2>2, <2>3, <3>1 DEF ClosedOf
      <4>2. IsFiniteSet(ClosedOf(e))
        BY FS_Subset DEF ClosedOf, CountInv
      <4>3. Cardinality(ClosedOf(e)') = Cardinality(ClosedOf(e)) + 1
        BY <4>1, <4>2, FS_AddElement
      <4>4. QED
        BY <1>1, <2>4, <3>1, <4>3 DEF CountInv, TypeOK
    <3>2. CASE e # f
      <4>1. ClosedOf(e)' = ClosedOf(e)
        BY <2>3, <3>2 DEF ClosedOf
      <4>2. QED
        BY <1>1, <2>4, <3>2, <4>1 DEF CountInv, TypeOK
    <3>3. QED
      BY <3>1, <3>2
  <2>7. ASSUME NEW e \in Entity PROVE forcedCount'[e] <= disconnectCount'[e]
    <3>1. /\ forcedCount[e] \in Nat /\ disconnectCount[e] \in Nat
          /\ forcedCount[e] <= disconnectCount[e]
      BY <1>1 DEF CountInv, TypeOK
    <3>2. QED
      BY <1>1, <2>4, <3>1 DEF TypeOK
  <2>8. QED
    BY <2>5, <2>6, <2>7 DEF CountInv
<1>3. CASE UNCHANGED <<closed, forcedCount, disconnectCount>>
  BY <1>3 DEF CountInv, ClosedOf
<1>4. CASE RunUnregister /\ Head(queue) \notin clients
  BY <1>3, <1>4 DEF RunUnregister, tableVars, countVars
<1>5. CASE RunAnnounce \/ \E c \in Client : RunRegister(c)
  BY <1>3, <1>5 DEF RunAnnounce, RunRegister, tableVars, countVars
<1>6. ASSUME NEW c \in Client, Connection(c) PROVE CountInv'
  BY <1>3, <1>6 DEF Connection, RegisterFetch, PumpExit, PumpUnregister, tableVars, countVars
<1>7. ASSUME NEW d \in Kicker, Kicks(d) PROVE CountInv'
  BY <1>3, <1>7 DEF Kicks, DisconnectEntity, DisconnectDevice, Kick, KickMark, KickUnregister,
                    tableVars, countVars
<1>8. ASSUME NEW r \in Rest, Request(r) PROVE CountInv'
  BY <1>3, <1>8 DEF Request, RestCreate, RestAdd, RestJoin, RestRemove, RestCreateFails,
                    RestSubscribe, RestUnsubscribe, RestPanic, tableVars, countVars
<1>9. CASE UNCHANGED vars
  BY <1>3, <1>9 DEF vars
<1>10. QED
  BY <1>2, <1>4, <1>5, <1>6, <1>7, <1>8, <1>9 DEF Next, Run

\* DisconnectCount counts each removed connection once, whoever queued it and how
\* often, and ForcedDisconnectCount never exceeds it.
THEOREM HubCountsDisconnects == Spec => []DisconnectsCounted
<1>1. CountInv => DisconnectsCounted
  BY DEF CountInv, DisconnectsCounted, ClosedOf
<1>2. QED
  BY <1>1, InitTable, TableStep, InitCount, CountStep, PTL DEF Spec
-----------------------------------------------------------------------------
\* What FetchedStaysSubscribed rests on: a conversation a Register saw has a row,
\* a pending UnsubscribeEntity names departed participants unless it is stray,
\* and a request that has not started is not stray.
RowsBehind ==
  /\ \A c \in Client, k \in Conv : k \in fetched[c] => row[EntityOf[c]][k] # "none"
  /\ \A r \in Rest : rest[r].pc = "unsubscribe" /\ ~rest[r].stray
       => \A e \in rest[r].ents \cap Entity : row[e][ConvOf[r]] = "left"
  /\ \A r \in Rest : rest[r].pc = "ready" => ~rest[r].stray

SubscriptionInv == RowsBehind /\ FetchedStaysSubscribed

LEMMA InitSubscription == Init => SubscriptionInv
BY DEF Init, SubscriptionInv, RowsBehind, FetchedStaysSubscribed

\* What an insert and a removal do to the rows
LEMMA InsertRowKeeps ==
  ASSUME TypeOK, NEW k \in Conv, NEW e \in Entity, InsertRow(k, e)
  PROVE  \A f \in Entity, m \in Conv :
           /\ row[f][m] # "none" => row'[f][m] = row[f][m]
           /\ row'[f][m] = row[f][m] \/ (row[f][m] = "none" /\ row'[f][m] = "active")
BY DEF InsertRow, TypeOK

LEMMA SetLeftKeeps ==
  ASSUME TypeOK, NEW k \in Conv, NEW e \in Entity, SetLeft(k, e)
  PROVE  /\ \A f \in Entity, m \in Conv :
              row'[f][m] = row[f][m] \/ (row[f][m] # "none" /\ row'[f][m] = "left")
         /\ row[e][k] # "none" => row'[e][k] = "left"
BY DEF SetLeft, TypeOK

LEMMA SubscriptionStep == TableInv /\ SubscriptionInv /\ [Next]_vars => SubscriptionInv'
<1> SUFFICES ASSUME TableInv, SubscriptionInv, [Next]_vars
             PROVE  RowsBehind' /\ FetchedStaysSubscribed'
  BY DEF SubscriptionInv
<1> USE DEF RowsBehind, FetchedStaysSubscribed
<1>1. TypeOK /\ Placed /\ RowsBehind /\ FetchedStaysSubscribed
  BY DEF TableInv, SubscriptionInv
<1>2. \A c \in Client : EntityOf[c] \in Entity
  BY HubAssumption
<1>3. ASSUME NEW c \in Client, RegisterFetch(c)
      PROVE  RowsBehind' /\ FetchedStaysSubscribed'
  <2>1. UNCHANGED <<row, clients, convClients, rest>> /\ c \notin clients
    BY <1>1, <1>3 DEF RegisterFetch, tableVars, Placed
  <2>2. \A d \in Client : d # c => fetched'[d] = fetched[d]
    BY <1>1, <1>3 DEF RegisterFetch, TypeOK
  <2>3. \A k \in fetched'[c] : k \in fetched[c] \/ row[EntityOf[c]][k] = "active"
    BY <1>1, <1>3 DEF RegisterFetch, ConvIDs, TypeOK
  <2>4. clients \subseteq Client
    BY <1>1 DEF TypeOK
  <2>5. RowsBehind'
    BY <1>1, <2>1, <2>2, <2>3
  <2>6. FetchedStaysSubscribed'
    BY <1>1, <2>1, <2>2, <2>4
  <2>7. QED
    BY <2>5, <2>6
<1>4. ASSUME NEW c \in Client, RunRegister(c)
      PROVE  RowsBehind' /\ FetchedStaysSubscribed'
  BY <1>1, <1>4 DEF RunRegister, ApplySubscriptions, dbVars, TypeOK
<1>5. CASE RunUnregister
  <2>1. UNCHANGED <<row, fetched, rest>> /\ clients' \subseteq clients
    BY <1>5 DEF RunUnregister, RemoveClient, tableVars, dbVars
  <2>2. \A c \in clients', k \in Conv : c \in convClients[k] => c \in convClients'[k]
    <3>1. CASE Head(queue) \notin clients
      BY <1>5, <3>1 DEF RunUnregister, tableVars
    <3>2. CASE Head(queue) \in clients
      <4> DEFINE h == Head(queue)
      <4>1. /\ clients' = clients \ {h}
            /\ convClients' = [k \in Conv |-> convClients[k] \ {h}]
        BY <1>5, <3>2 DEF RunUnregister, RemoveClient, UnsubscribeClient
      <4> HIDE DEF h
      <4>2. QED
        BY <4>1
    <3>3. QED
      BY <3>1, <3>2
  <2>3. QED
    BY <1>1, <2>1, <2>2
<1>6. ASSUME NEW r \in Rest, RestSubscribe(r)
      PROVE  RowsBehind' /\ FetchedStaysSubscribed'
  <2>1. UNCHANGED <<row, fetched, clients>>
    BY <1>6 DEF RestSubscribe, dbVars
  <2>2. \A k \in Conv : convClients[k] \subseteq convClients'[k]
    BY <1>1, <1>6 DEF RestSubscribe, TypeOK
  <2>3. \A q \in Rest : /\ rest'[q].ents = rest[q].ents /\ rest'[q].stray = rest[q].stray
                        /\ rest'[q].pc = rest[q].pc \/ rest'[q].pc \in {"notify", "done"}
    BY <1>1, <1>6 DEF RestSubscribe, Continue, TypeOK, RestState
  <2>4. QED
    BY <1>1, <2>1, <2>2, <2>3
<1>7. ASSUME NEW r \in Rest, RestUnsubscribe(r)
      PROVE  RowsBehind' /\ FetchedStaysSubscribed'
  <2>1. UNCHANGED <<row, fetched, clients>> /\ ConvOf[r] \in Conv
    BY <1>7, HubAssumption DEF RestUnsubscribe, dbVars
  <2>2. \A q \in Rest : /\ rest'[q].ents = rest[q].ents /\ rest'[q].stray = rest[q].stray
                        /\ rest'[q].pc = rest[q].pc \/ rest'[q].pc = "done"
    BY <1>1, <1>7 DEF RestUnsubscribe, Continue, TypeOK, RestState
  <2>3. \A c \in Client, k \in Conv : c \in convClients[k] =>
          c \in convClients'[k] \/ (k = ConvOf[r] /\ EntityOf[c] \in rest[r].ents)
    BY <1>1, <1>7, <2>1 DEF RestUnsubscribe, TypeOK
  <2>4. ~rest[r].stray => \A e \in rest[r].ents \cap Entity : row[e][ConvOf[r]] = "left"
    BY <1>1, <1>7 DEF RestUnsubscribe
  <2>5. clients \subseteq Client
    BY <1>1 DEF TypeOK
  <2>6. RowsBehind'
    BY <1>1, <2>1, <2>2
  <2>7. FetchedStaysSubscribed'
    BY <1>1, <1>2, <2>1, <2>2, <2>3, <2>4, <2>5
  <2>8. QED
    BY <2>6, <2>7
<1>8. ASSUME NEW r \in Rest, RestPanic(r) \/ RestCreateFails(r)
      PROVE  RowsBehind' /\ FetchedStaysSubscribed'
  <2>1. UNCHANGED <<row, fetched, clients, convClients>>
    BY <1>8 DEF RestPanic, RestCreateFails, dbVars, tableVars
  <2>2. \A q \in Rest : /\ rest'[q].ents = rest[q].ents /\ rest'[q].stray = rest[q].stray
                        /\ rest'[q].pc = rest[q].pc \/ rest'[q].pc = "done"
    <3>1. Continue(r, rest[r].ents, "done")
      BY <1>8 DEF RestPanic, RestCreateFails
    <3>2. QED
      BY <1>1, <3>1 DEF Continue, TypeOK, RestState
  <2>3. QED
    BY <1>1, <2>1, <2>2
<1>9. ASSUME NEW r \in Rest, NEW e \in Entity, RestCreate(r, e) \/ RestAdd(r, e) \/ RestJoin(r, e)
      PROVE  RowsBehind' /\ FetchedStaysSubscribed'
  <2>1. UNCHANGED <<fetched, clients, convClients>> /\ ConvOf[r] \in Conv /\ InsertRow(ConvOf[r], e)
    BY <1>9, HubAssumption DEF RestCreate, RestAdd, RestJoin, tableVars
  <2>2. \A f \in Entity, m \in Conv :
           /\ row[f][m] # "none" => row'[f][m] = row[f][m]
           /\ row'[f][m] = row[f][m] \/ (row[f][m] = "none" /\ row'[f][m] = "active")
    BY <1>1, <2>1, InsertRowKeeps
  <2>3. /\ \A q \in Rest \ {r} : rest'[q] = rest[q]
        /\ rest'[r].pc \in {"create", "subscribe", "join"} /\ rest'[r].stray = rest[r].stray
        /\ rest[r].pc = "ready" => ~rest[r].stray
        /\ rest[r].pc # "ready" => rest[r].ents \subseteq rest'[r].ents
    BY <1>1, <1>9 DEF RestCreate, RestAdd, RestJoin, Continue, TypeOK, RestState
  <2>4. clients \subseteq Client /\ \A q \in Rest : ConvOf[q] \in Conv
    BY <1>1, HubAssumption DEF TypeOK
  <2>5. RowsBehind'
    BY <1>1, <1>2, <2>1, <2>2, <2>3, <2>4
  <2>6. FetchedStaysSubscribed'
    BY <1>1, <1>2, <2>1, <2>2, <2>3, <2>4
  <2>7. QED
    BY <2>5, <2>6
<1>10. ASSUME NEW r \in Rest, NEW e \in Entity, RestRemove(r, e)
       PROVE  RowsBehind' /\ FetchedStaysSubscribed'
  <2>1. /\ UNCHANGED <<fetched, clients, convClients>> /\ ConvOf[r] \in Conv
        /\ SetLeft(ConvOf[r], e)
    BY <1>10, HubAssumption DEF RestRemove, tableVars
  <2>2. /\ \A f \in Entity, m \in Conv :
             row'[f][m] = row[f][m] \/ (row[f][m] # "none" /\ row'[f][m] = "left")
        /\ row[e][ConvOf[r]] # "none" => row'[e][ConvOf[r]] = "left"
    BY <1>1, <2>1, SetLeftKeeps
  <2>3. /\ \A q \in Rest \ {r} : rest'[q] = rest[q]
        /\ rest'[r].pc = "unsubscribe" /\ rest'[r].ents = {e}
        /\ rest'[r].stray = (row[e][ConvOf[r]] = "none")
        /\ ~rest[r].stray
    BY <1>1, <1>10 DEF RestRemove, TypeOK, RestState
  <2>4. clients \subseteq Client /\ \A q \in Rest : ConvOf[q] \in Conv
    BY <1>1, HubAssumption DEF TypeOK
  <2>5. RowsBehind'
    <3>1. \A c \in Client, k \in Conv : k \in fetched'[c] => row'[EntityOf[c]][k] # "none"
      BY <1>1, <1>2, <2>1, <2>2
    <3>2. \A q \in Rest \ {r} : rest'[q].pc = "unsubscribe" /\ ~rest'[q].stray
            => \A f \in rest'[q].ents \cap Entity : row'[f][ConvOf[q]] = "left"
      BY <1>1, <2>2, <2>3, <2>4
    <3>3. ~rest'[r].stray => \A f \in rest'[r].ents : row'[f][ConvOf[r]] = "left"
      BY <2>2, <2>3
    <3>4. QED
      BY <1>1, <2>3, <3>1, <3>2, <3>3
  <2>6. FetchedStaysSubscribed'
    BY <1>1, <1>2, <2>1, <2>2, <2>3, <2>4
  <2>7. QED
    BY <2>5, <2>6
<1>11. CASE UNCHANGED <<row, fetched, clients, convClients, rest>>
  BY <1>1, <1>11
<1>12. ASSUME NEW c \in Client, PumpExit(c) \/ PumpUnregister(c)
       PROVE  RowsBehind' /\ FetchedStaysSubscribed'
  BY <1>11, <1>12 DEF PumpExit, PumpUnregister, tableVars, dbVars
<1>13. ASSUME NEW d \in Kicker, Kicks(d) PROVE RowsBehind' /\ FetchedStaysSubscribed'
  BY <1>11, <1>13 DEF Kicks, DisconnectEntity, DisconnectDevice, Kick, KickMark,
                      KickUnregister, tableVars, dbVars
<1>14. CASE RunAnnounce \/ UNCHANGED vars
  BY <1>11, <1>14 DEF RunAnnounce, tableVars, vars
<1>15. QED
  BY <1>3, <1>4, <1>5, <1>6, <1>7, <1>8, <1>9, <1>10, <1>12, <1>13, <1>14
  DEF Next, Run, Connection, Request

\* A connection whose Register saw a conversation is subscribed to it while its
\* entity takes part, whatever requests and disconnects run meanwhile, unless a
\* removal named somebody who had no row.
THEOREM HubSubscriptions == Spec => []FetchedStaysSubscribed
<1>1. SubscriptionInv => FetchedStaysSubscribed
  BY DEF SubscriptionInv
<1>2. QED
  BY <1>1, InitTable, TableStep, InitSubscription, SubscriptionStep, PTL DEF Spec
=============================================================================
