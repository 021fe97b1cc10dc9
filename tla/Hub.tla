-------------------------------- MODULE Hub --------------------------------
(***************************************************************************)
(* The WebSocket hub (internal/ws/hub.go, internal/ws/client.go): the life *)
(* of a connection, the single goroutine Hub.Run that owns the table of    *)
(* connections, the subscriptions of connections to conversations, the     *)
(* forced disconnects and the presence announcements.                      *)
(*                                                                         *)
(* Every step below is one critical section of h.mu, one channel operation *)
(* or one database statement; everything else of a handler is local to it. *)
(*                                                                         *)
(* An operator named X_Mutant is X with a plausible slip in it. No action  *)
(* uses it; it shows which property would notice.                          *)
(***************************************************************************)
EXTENDS Naturals, Sequences, FiniteSets

CONSTANTS
  Client,     \* connections; NewClient allocates a fresh one per upgrade
  Entity,     \* users, bots and services
  Device,     \* device identifiers
  Conv,       \* conversations
  EntityOf,   \* the entity a connection authenticated as
  DeviceOf,   \* the device a connection announced
  Rest,       \* REST requests that change the membership of a conversation
  ConvOf,     \* the conversation a request names
  Kicker,     \* calls of DisconnectEntity and DisconnectDevice
  QueueCap,   \* capacity of h.unregister (64 in the code)
  MaxFaults   \* bound: database statements that fail

ASSUME HubAssumption ==
  /\ EntityOf \in [Client -> Entity]
  /\ DeviceOf \in [Client -> Device]
  /\ ConvOf \in [Rest -> Conv]
  /\ QueueCap \in Nat \ {0}
  /\ MaxFaults \in Nat

VARIABLES
  row,             \* participants table: no row, an active one, or left_at set
  conn,            \* where the connection's own goroutines are
  fetched,         \* the conversation ids Register read for the connection
  clients,         \* h.clients
  closed,          \* connections whose send channel is closed
  convKeys,        \* the keys of h.convClients
  convClients,     \* h.convClients, empty where there is no key
  queue,           \* h.unregister
  forcedMarked,    \* h.forcedMarked
  forcedCount,     \* h.forcedCount
  disconnectCount, \* h.disconnectCount
  run,             \* Hub.Run: waiting in select, or about to announce
  shown,           \* the presence last announced for each entity
  faults,          \* database statements that have failed so far
  rest,            \* the REST requests
  kick             \* the disconnect calls

tableVars  == <<clients, closed, convKeys, convClients>>
countVars  == <<forcedCount, disconnectCount>>
dbVars     == <<row, faults>>
runVars    == <<run, shown>>
vars == <<row, conn, fetched, clients, closed, convKeys, convClients, queue,
          forcedMarked, forcedCount, disconnectCount, run, shown, faults,
          rest, kick>>

Idle == [busy |-> FALSE]
Announcing(e, on) == [busy |-> TRUE, ent |-> e, online |-> on]

\* isOnlineLocked over a set of connections
OnlineIn(cs, e) == \E c \in cs : EntityOf[c] = e
Online(e) == OnlineIn(clients, e)

\* GetConversationIDsByEntity: conversations with left_at IS NULL
ConvIDs(e) == {k \in Conv : row[e][k] = "active"}

ConnState == {"new", "registering", "up", "leaving", "gone"}
RowState  == {"none", "active", "left"}
RunState  == {Idle} \cup {Announcing(e, on) : e \in Entity, on \in BOOLEAN}
RestState == [pc : {"ready", "create", "subscribe", "join", "notify", "unsubscribe",
                     "done"},
              ents : SUBSET Entity,
              stray : BOOLEAN]  \* a removal that found no row (history)
KickState == [pc : {"ready", "busy", "done"}, todo : SUBSET Client,
              marked : SUBSET Client]

TypeOK ==
  /\ row \in [Entity -> [Conv -> RowState]]
  /\ conn \in [Client -> ConnState]
  /\ fetched \in [Client -> SUBSET Conv]
  /\ clients \subseteq Client /\ closed \subseteq Client
  /\ convKeys \subseteq Conv
  /\ convClients \in [Conv -> SUBSET Client]
  /\ queue \in Seq(Client)
  /\ forcedMarked \subseteq Client
  /\ forcedCount \in [Entity -> Nat] /\ disconnectCount \in [Entity -> Nat]
  /\ run \in RunState
  /\ shown \in [Entity -> BOOLEAN]
  /\ faults \in Nat
  /\ rest \in [Rest -> RestState]
  /\ kick \in [Kicker -> KickState]

\* NewHub over whatever the database holds when the server starts
Init ==
  /\ row \in [Entity -> [Conv -> RowState]]
  /\ conn = [c \in Client |-> "new"]
  /\ fetched = [c \in Client |-> {}]
  /\ clients = {} /\ closed = {}
  /\ convKeys = {} /\ convClients = [k \in Conv |-> {}]
  /\ queue = <<>>
  /\ forcedMarked = {}
  /\ forcedCount = [e \in Entity |-> 0]
  /\ disconnectCount = [e \in Entity |-> 0]
  /\ run = Idle /\ shown = [e \in Entity |-> FALSE]
  /\ faults = 0
  /\ rest = [r \in Rest |-> [pc |-> "ready", ents |-> {}, stray |-> FALSE]]
  /\ kick = [d \in Kicker |-> [pc |-> "ready", todo |-> {}, marked |-> {}]]
-----------------------------------------------------------------------------
(* A connection's own goroutines *)

\* Register reads the conversations outside the lock and then blocks on
\* h.register; a failed read proceeds with an empty list.
RegisterFetch_Mutant(c) ==
  /\ conn[c] \in {"new", "gone"}
  /\ conn' = [conn EXCEPT ![c] = "registering"]
  /\ fetched' = [fetched EXCEPT ![c] = ConvIDs(EntityOf[c])]
  /\ UNCHANGED <<dbVars, tableVars, queue, forcedMarked, countVars, runVars,
                 rest, kick>>

RegisterFetch(c) ==
  /\ conn[c] = "new"
  /\ conn' = [conn EXCEPT ![c] = "registering"]
  /\ \/ /\ fetched' = [fetched EXCEPT ![c] = ConvIDs(EntityOf[c])]
        /\ UNCHANGED faults
     \/ /\ faults < MaxFaults
        /\ faults' = faults + 1
        /\ UNCHANGED fetched
  /\ UNCHANGED <<row, tableVars, queue, forcedMarked, countVars, runVars,
                 rest, kick>>

\* ReadPump returns: the peer went away, the pong timed out, WritePump closed
\* the socket, or a handler it called panicked.
PumpExit(c) ==
  /\ conn[c] = "up"
  /\ conn' = [conn EXCEPT ![c] = "leaving"]
  /\ UNCHANGED <<dbVars, fetched, tableVars, queue, forcedMarked, countVars,
                 runVars, rest, kick>>

\* ReadPump's deferred h.unregister <- c
PumpUnregister_Mutant(c) ==
  /\ conn[c] = "leaving"
  /\ queue' = IF Len(queue) < QueueCap THEN Append(queue, c) ELSE queue
  /\ conn' = [conn EXCEPT ![c] = "gone"]
  /\ UNCHANGED <<dbVars, fetched, tableVars, forcedMarked, countVars, runVars,
                 rest, kick>>

PumpUnregister(c) ==
  /\ conn[c] = "leaving"
  /\ Len(queue) < QueueCap
  /\ queue' = Append(queue, c)
  /\ conn' = [conn EXCEPT ![c] = "gone"]
  /\ UNCHANGED <<dbVars, fetched, tableVars, forcedMarked, countVars, runVars,
                 rest, kick>>
-----------------------------------------------------------------------------
(* Hub.Run: one goroutine, one case of its select at a time *)

\* The announcement owed after a registration (wasOnline was read before the
\* connection was added) and after a removal (stillOnline is read after it)
AfterRegister_Mutant(c) == Idle

AfterRegister(c) ==
  IF Online(EntityOf[c]) THEN Idle ELSE Announcing(EntityOf[c], TRUE)

AfterRemoval_Mutant(c) == Announcing(EntityOf[c], FALSE)

AfterRemoval(c) ==
  IF OnlineIn(clients \ {c}, EntityOf[c]) THEN Idle ELSE Announcing(EntityOf[c], FALSE)

\* applySubscriptionsLocked
ApplySubscriptions(c, ks) ==
  /\ convKeys' = convKeys \cup ks
  /\ convClients' = [k \in Conv |-> IF k \in ks THEN convClients[k] \cup {c}
                                              ELSE convClients[k]]

\* unsubscribeClientLocked
UnsubscribeClient_Mutant(c) == UNCHANGED <<convKeys, convClients>>

UnsubscribeClient(c) ==
  LET left == [k \in Conv |-> convClients[k] \ {c}]
  IN /\ convClients' = left
     /\ convKeys' = {k \in convKeys : left[k] # {}}

CountDisconnect_Mutant(c) ==
  /\ disconnectCount' = [disconnectCount EXCEPT ![EntityOf[c]] = @ - 1]
  /\ UNCHANGED <<forcedCount, forcedMarked>>

CountDisconnect(c) ==
  LET e == EntityOf[c]
  IN /\ disconnectCount' = [disconnectCount EXCEPT ![e] = @ + 1]
     /\ forcedCount' = [forcedCount EXCEPT ![e] = IF c \in forcedMarked THEN @ + 1 ELSE @]
     /\ forcedMarked' = forcedMarked \ {c}

\* case reg := <-h.register
RunRegister(c) ==
  /\ ~run.busy
  /\ conn[c] = "registering"
  /\ conn' = [conn EXCEPT ![c] = "up"]
  /\ clients' = clients \cup {c}
  /\ ApplySubscriptions(c, fetched[c])
  /\ run' = AfterRegister(c)
  /\ UNCHANGED <<dbVars, fetched, closed, queue, forcedMarked, countVars, shown,
                 rest, kick>>

\* the body of the unregister case for a connection still in h.clients
RemoveClient_Mutant(c) ==
  /\ closed' = closed \cup {c}
  /\ UnsubscribeClient(c)
  /\ CountDisconnect(c)
  /\ run' = AfterRemoval(c)
  /\ UNCHANGED clients

RemoveClient(c) ==
  /\ clients' = clients \ {c}
  /\ closed' = closed \cup {c}
  /\ UnsubscribeClient(c)
  /\ CountDisconnect(c)
  /\ run' = AfterRemoval(c)

\* case client := <-h.unregister; a connection that is no longer in h.clients
\* was already removed and is skipped
RunUnregister ==
  /\ ~run.busy
  /\ queue # <<>>
  /\ queue' = Tail(queue)
  /\ \/ Head(queue) \in clients /\ RemoveClient(Head(queue))
     \/ /\ Head(queue) \notin clients
        /\ UNCHANGED <<tableVars, countVars, forcedMarked, run>>
  /\ UNCHANGED <<dbVars, conn, fetched, shown, rest, kick>>

\* broadcastPresence; when its database read fails nothing is announced
RunAnnounce ==
  /\ run.busy
  /\ run' = Idle
  /\ \/ /\ shown' = [shown EXCEPT ![run.ent] = run.online]
        /\ UNCHANGED faults
     \/ /\ faults < MaxFaults
        /\ faults' = faults + 1
        /\ UNCHANGED shown
  /\ UNCHANGED <<row, conn, fetched, tableVars, queue, forcedMarked, countVars,
                 rest, kick>>
-----------------------------------------------------------------------------
(* DisconnectEntity and DisconnectDevice: snapshot, then mark and queue each *)

Kick(d, targets) ==
  /\ kick[d].pc = "ready"
  /\ kick' = [kick EXCEPT ![d] = [pc |-> IF targets = {} THEN "done" ELSE "busy",
                                  todo |-> targets, marked |-> {}]]
  /\ UNCHANGED <<dbVars, conn, fetched, tableVars, queue, forcedMarked,
                 countVars, runVars, rest>>

DisconnectEntity(d, e) == Kick(d, {c \in clients : EntityOf[c] = e})

DisconnectDevice(d, e, v) ==
  Kick(d, {c \in clients : EntityOf[c] = e /\ DeviceOf[c] = v})

KickMark(d, c) ==
  /\ kick[d].pc = "busy"
  /\ kick[d].marked = {}
  /\ c \in kick[d].todo
  /\ kick' = [kick EXCEPT ![d].marked = {c}]
  /\ forcedMarked' = forcedMarked \cup {c}
  /\ UNCHANGED <<dbVars, conn, fetched, tableVars, queue, countVars, runVars, rest>>

KickUnregister_Mutant(d, c) ==
  /\ kick[d].marked = {c}
  /\ queue' = IF Len(queue) < QueueCap THEN Append(queue, c) ELSE queue
  /\ kick' = [kick EXCEPT ![d] = [pc |-> IF @.todo = {c} THEN "done" ELSE "busy",
                                  todo |-> @.todo \ {c}, marked |-> {}]]
  /\ UNCHANGED <<dbVars, conn, fetched, tableVars, forcedMarked, countVars,
                 runVars, rest>>

KickUnregister(d, c) ==
  /\ kick[d].marked = {c}
  /\ Len(queue) < QueueCap
  /\ queue' = Append(queue, c)
  /\ kick' = [kick EXCEPT ![d] = [pc |-> IF @.todo = {c} THEN "done" ELSE "busy",
                                  todo |-> @.todo \ {c}, marked |-> {}]]
  /\ UNCHANGED <<dbVars, conn, fetched, tableVars, forcedMarked, countVars,
                 runVars, rest>>
-----------------------------------------------------------------------------
(* REST requests: a database statement, then the hub is told *)

Continue(r, es, pc) == rest' = [rest EXCEPT ![r].pc = pc, ![r].ents = es]

\* AddParticipant: INSERT ... ON CONFLICT DO NOTHING
InsertRow_Mutant(k, e) == row' = [row EXCEPT ![e][k] = "active"]

InsertRow(k, e) == row' = [row EXCEPT ![e][k] = IF @ = "none" THEN "active" ELSE @]

\* RemoveParticipant: UPDATE ... SET left_at = NOW()
SetLeft(k, e) ==
  row' = [row EXCEPT ![e][k] = IF @ = "none" THEN "none" ELSE "left"]

\* HandleCreateConversation inserts the participants of a new conversation one
\* statement at a time
RestCreate(r, e) ==
  LET k == ConvOf[r] IN
  /\ \/ rest[r].pc = "ready" /\ \A f \in Entity : row[f][k] = "none"
     \/ rest[r].pc = "create" /\ e \notin rest[r].ents
  /\ InsertRow(k, e)
  /\ Continue(r, rest[r].ents \cup {e}, "create")
  /\ UNCHANGED <<faults, conn, fetched, tableVars, queue, forcedMarked,
                 countVars, runVars, kick>>

\* ... and a failed insert ends the request: the rows stay, nobody is notified
RestCreateFails(r) ==
  /\ rest[r].pc = "create"
  /\ faults < MaxFaults
  /\ faults' = faults + 1
  /\ Continue(r, rest[r].ents, "done")
  /\ UNCHANGED <<row, conn, fetched, tableVars, queue, forcedMarked, countVars,
                 runVars, kick>>

\* HandleAddParticipant; it does not ask whether the target was here before
RestAdd(r, e) ==
  LET k == ConvOf[r] IN
  /\ rest[r].pc = "ready"
  /\ \E caller \in Entity : row[caller][k] = "active"
  /\ InsertRow(k, e)
  /\ Continue(r, {e}, "subscribe")
  /\ UNCHANGED <<faults, conn, fetched, tableVars, queue, forcedMarked,
                 countVars, runVars, kick>>

\* HandleJoinViaInvite, refused to an active participant
RestJoin(r, e) ==
  LET k == ConvOf[r] IN
  /\ rest[r].pc = "ready"
  /\ row[e][k] # "active"
  /\ InsertRow(k, e)
  /\ Continue(r, {e}, "join")
  /\ UNCHANGED <<faults, conn, fetched, tableVars, queue, forcedMarked,
                 countVars, runVars, kick>>

\* HandleRemoveParticipant and HandleLeaveConversation; the former does not ask
\* whether the target is a participant
RestRemove(r, e) ==
  LET k == ConvOf[r] IN
  /\ rest[r].pc = "ready"
  /\ \E caller \in Entity : row[caller][k] = "active"
  /\ SetLeft(k, e)
  /\ rest' = [rest EXCEPT ![r] = [pc |-> "unsubscribe", ents |-> {e},
                                  stray |-> row[e][k] = "none"]]
  /\ UNCHANGED <<faults, conn, fetched, tableVars, queue, forcedMarked,
                 countVars, runVars, kick>>

\* SubscribeEntity and NotifyNewConversation: both create the key and add every
\* connection of the entities
RestSubscribe(r) ==
  LET k == ConvOf[r]
      es == rest[r].ents
  IN /\ rest[r].pc \in {"create", "subscribe", "join", "notify"}
     /\ convKeys' = convKeys \cup {k}
     /\ convClients' = [convClients EXCEPT ![k] =
                          @ \cup {c \in clients : EntityOf[c] \in es}]
     /\ Continue(r, es, IF rest[r].pc = "subscribe" THEN "notify" ELSE "done")
     /\ UNCHANGED <<dbVars, conn, fetched, clients, closed, queue, forcedMarked,
                    countVars, runVars, kick>>

\* UnsubscribeEntity drops the key with the last connection
RestUnsubscribe(r) ==
  LET k == ConvOf[r]
      left == {c \in convClients[k] : EntityOf[c] \notin rest[r].ents}
  IN /\ rest[r].pc = "unsubscribe"
     /\ convClients' = [convClients EXCEPT ![k] = left]
     /\ convKeys' = IF left = {} THEN convKeys \ {k} ELSE convKeys
     /\ Continue(r, rest[r].ents, "done")
     /\ UNCHANGED <<dbVars, conn, fetched, clients, closed, queue, forcedMarked,
                    countVars, runVars, kick>>

\* The system message a removal broadcasts before it tells the hub panics when
\* it meets a closed send channel; the request ends without UnsubscribeEntity.
RestPanic(r) ==
  /\ rest[r].pc = "unsubscribe"
  /\ closed # {}
  /\ Continue(r, rest[r].ents, "done")
  /\ UNCHANGED <<dbVars, conn, fetched, tableVars, queue, forcedMarked,
                 countVars, runVars, kick>>
-----------------------------------------------------------------------------
Run == (\E c \in Client : RunRegister(c)) \/ RunUnregister \/ RunAnnounce

Connection(c) == RegisterFetch(c) \/ PumpExit(c) \/ PumpUnregister(c)

Kicks(d) ==
  \/ \E e \in Entity : DisconnectEntity(d, e)
  \/ \E e \in Entity, v \in Device : DisconnectDevice(d, e, v)
  \/ \E c \in Client : KickMark(d, c) \/ KickUnregister(d, c)

Request(r) ==
  \/ \E e \in Entity : RestCreate(r, e)
  \/ RestCreateFails(r)
  \/ \E e \in Entity : RestAdd(r, e) \/ RestJoin(r, e) \/ RestRemove(r, e)
  \/ RestSubscribe(r) \/ RestUnsubscribe(r) \/ RestPanic(r)

Next ==
  \/ Run
  \/ \E c \in Client : Connection(c)
  \/ \E d \in Kicker : Kicks(d)
  \/ \E r \in Rest : Request(r)

Spec == Init /\ [][Next]_vars

\* The goroutines that are always scheduled: Hub.Run, the deferred send of a
\* ReadPump, the loop of a disconnect call, and the end of a ReadPump whose
\* socket WritePump closed after it saw the closed channel.
Fairness ==
  /\ WF_vars(Run)
  /\ \A c \in Client : WF_vars(PumpUnregister(c))
  /\ \A c \in Client : WF_vars(c \in closed /\ PumpExit(c))
  /\ \A d \in Kicker, c \in Client : WF_vars(KickMark(d, c)) /\ WF_vars(KickUnregister(d, c))

FairSpec == Spec /\ Fairness
=============================================================================
