----------------------------- MODULE MCMessages -----------------------------
(* Small instances of a conversation's messages for TLC. *)
EXTENDS Messages, TLC

CONSTANTS user, bot, s1, s2, c1, p1, p2

MCMode == (user :> "mention_only") @@ (bot :> "subscribe_all")

\* Two requests of one user at a time; the bot has a connection and two polls.
MCSenderOf == (s1 :> user) @@ (s2 :> user)
MCEntityOf == (c1 :> bot)
MCPollerOf == (p1 :> bot) @@ (p2 :> bot)
NoPollerOf == << >>

\* A message the bot is sent for its mode, so not when its mode cannot be read
MCDraft == {[content |-> "text", assigned |-> {}, handover |-> {}]}

\* One request of the user at a time
OneSenderOf == (s1 :> user)

\* A behaviour in which the recipients are connections, or long polls, or both.
\* They only meet in the senders: the large run takes them one at a time, and
\* lets two changes overlap where long polls may ask in between.
VARIABLE side

Limits == side = "connections" => changes' <= 1

MCNext ==
  \/ \E s \in Sender : Sends(s) /\ UNCHANGED side
  \/ \E c \in Client : side # "polls" /\ Connection(c) /\ UNCHANGED side
  \/ \E p \in Poll : side # "connections" /\ Polls(p) /\ UNCHANGED side

OneSideInit == Init /\ side \in {"connections", "polls"}
BothInit == Init /\ side = "both"

OneSideSpec == OneSideInit /\ [][MCNext /\ Limits]_<<vars, side>>
BothSpec == BothInit /\ [][MCNext]_<<vars, side>>

\* Requests of one user are interchangeable, and so are polls of one bot
Symmetric == Permutations({s1, s2}) \cup Permutations({p1, p2})
=============================================================================
