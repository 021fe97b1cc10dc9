----------------------------- MODULE Presence ------------------------------
(***************************************************************************)
(* What the hub promises about presence: an entity is online while it has  *)
(* a connection, every change of that fact is announced before the next    *)
(* change happens, and an announcement says what is true when it is made.  *)
(* The hub may fail to make an announcement (its database read failed); it *)
(* then never makes it later.                                              *)
(***************************************************************************)
CONSTANTS Client, Entity, EntityOf

VARIABLES
  live,  \* the connections
  due,   \* entities whose last change is not announced yet
  told   \* the last announcement made for each entity

presenceVars == <<live, due, told>>

HasLive(cs, e) == \E c \in cs : EntityOf[c] = e

Init ==
  /\ live = {} /\ due = {}
  /\ told = [e \in Entity |-> FALSE]

\* The set of connections changes by one; the entity is due an announcement
\* exactly when it went online or offline.
Change(cs, c) ==
  LET e == EntityOf[c]
  IN /\ due = {}
     /\ live' = cs
     /\ due' = IF HasLive(live, e) = HasLive(cs, e) THEN {} ELSE {e}
     /\ UNCHANGED told

Connect(c) == c \notin live /\ Change(live \cup {c}, c)

Disconnect(c) == c \in live /\ Change(live \ {c}, c)

Announce(e) ==
  /\ e \in due
  /\ due' = {}
  /\ told' = [told EXCEPT ![e] = HasLive(live, e)]
  /\ UNCHANGED live

Lose(e) ==
  /\ e \in due
  /\ due' = {}
  /\ UNCHANGED <<live, told>>

Next ==
  \/ \E c \in Client : Connect(c) \/ Disconnect(c)
  \/ \E e \in Entity : Announce(e) \/ Lose(e)

Spec == Init /\ [][Next]_presenceVars
=============================================================================
