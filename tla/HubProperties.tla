--------------------------- MODULE HubProperties ---------------------------
(***************************************************************************)
(* What Hub must satisfy, and the mapping under which it implements        *)
(* Presence.                                                               *)
(***************************************************************************)
EXTENDS Hub

\* Whoever holds h.mu and walks h.clients or h.convClients (broadcastPresence,
\* handleStatusUpdate) meets only connections whose send channel is open: a
\* connection leaves both tables in the critical section that closes it, however
\* many times it was queued on h.unregister and whatever stale list of
\* conversations its registration carries.
SendersOpen ==
  /\ clients \cap closed = {}
  /\ \A k \in Conv : convClients[k] \subseteq clients
  /\ \A k \in Conv \ convKeys : convClients[k] = {}

\* A connection is counted as one disconnect when it is removed, although its
\* ReadPump and any number of disconnect calls may queue it, and a forced
\* disconnect is one of them.
DisconnectsCounted ==
  \A e \in Entity :
    /\ disconnectCount[e] = Cardinality({c \in closed : EntityOf[c] = e})
    /\ forcedCount[e] <= disconnectCount[e]

\* broadcastPresence runs after h.mu was released, yet what it announces is still
\* true: only Hub.Run, which is the caller, changes h.clients.
AnnouncementIsTrue == run.busy => (run.online <=> Online(run.ent))

\* A connection whose Register saw a conversation stays subscribed to it while
\* its entity is an active participant there: a removal that unsubscribes late
\* cannot undo a re-add, since the row of a departed participant never becomes
\* active again. The exception is a removal of somebody who never took part: it
\* changes no row, and its late UnsubscribeEntity cuts off an add that overtook it.
FetchedStaysSubscribed ==
  \A c \in clients, k \in Conv :
    /\ k \in fetched[c]
    /\ row[EntityOf[c]][k] = "active"
    /\ \A r \in Rest : ~(ConvOf[r] = k /\ EntityOf[c] \in rest[r].ents /\ rest[r].stray)
    => c \in convClients[k]

\* A removed connection never returns to the hub and its channel stays closed.
NeverReopened ==
  [][closed \subseteq closed' /\ closed \cap clients' = {}]_vars

\* A ReadPump that returned is always taken out of the hub, also when
\* h.unregister is full and disconnect calls queue the same connection.
ExitedIsRemoved == \A c \in Client : conn[c] = "leaving" ~> c \in closed

\* Every connection a disconnect call found is closed and its goroutines end.
KickedIsGone ==
  \A d \in Kicker, c \in Client : c \in kick[d].todo ~> c \in closed /\ conn[c] = "gone"

-----------------------------------------------------------------------------
\* The hub implements Presence: live connections are h.clients, an announcement
\* is due while Hub.Run is between its critical section and broadcastPresence.
P == INSTANCE Presence WITH
       live <- clients,
       due  <- IF run.busy THEN {run.ent} ELSE {},
       told <- shown

ImplementsPresence == P!Spec
=============================================================================
