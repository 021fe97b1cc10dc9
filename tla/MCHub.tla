------------------------------- MODULE MCHub -------------------------------
(* A small instance of the hub for TLC. *)
EXTENDS HubProperties, TLC

CONSTANTS c1, c2, c3, u1, u2, d1, d2, k1, r1, r2

\* two connections of one user on two devices, one of another user
MCEntityOf == (c1 :> u1) @@ (c2 :> u1) @@ (c3 :> u2)
MCDeviceOf == (c1 :> d1) @@ (c2 :> d2) @@ (c3 :> d1)
MCConvOf == (r1 :> k1) @@ (r2 :> k1)

\* What a behaviour is about: connections that come, go and are disconnected, in
\* a database without conversations; or requests that change who takes part in a
\* conversation, beside one connection of each user.
VARIABLE side

MCNext ==
  \/ Run /\ UNCHANGED side
  \/ \E c \in Client : (c = c2 => side = "connections") /\ Connection(c) /\ UNCHANGED side
  \/ \E d \in Kicker : side = "connections" /\ Kicks(d) /\ UNCHANGED side
  \/ \E r \in Rest : side = "subscriptions" /\ Request(r) /\ UNCHANGED side

MCInit ==
  /\ Init
  /\ side \in {"connections", "subscriptions"}
  /\ \A e \in Entity, k \in Conv :
       row[e][k] \in IF side = "connections" THEN {"none"} ELSE {"none", "active"}

MCSpec == MCInit /\ [][MCNext]_<<vars, side>> /\ Fairness
=============================================================================
