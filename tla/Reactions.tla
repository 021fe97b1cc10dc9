------------------------------ MODULE Reactions ------------------------------
(***************************************************************************)
(* One emoji on one message (internal/handler/reaction.go,                 *)
(* internal/store/postgres/reaction.go): a toggle adds the reaction or, if *)
(* the insert finds it there, removes it, reads all reactions again and    *)
(* sends them to the participants. No transaction holds the three          *)
(* statements together, and no lock orders two broadcasts. Membership is   *)
(* modelled in Membership.                                                 *)
(*                                                                         *)
(* An operator named X_Mutant is X with a plausible slip in it. No action  *)
(* uses it; it shows which property would notice.                          *)
(***************************************************************************)
EXTENDS Naturals, FiniteSets

CONSTANTS
  Fan,       \* participants that react
  Toggler,   \* goroutines that serve toggles, one at a time
  NoFan,
  MaxBroken  \* bound: statements that fail

ASSUME ReactionsAssumption == NoFan \notin Fan /\ MaxBroken \in Nat

VARIABLES
  reacted,   \* reactions table: who has the reaction
  toggle,    \* the toggle each goroutine serves; seen: the rows it will send
  shown,     \* the rows the clients were sent last
  broken,    \* statements that failed
  odd,       \* history: who toggled an odd number of times, by the answers
  crossed,   \* history: who had two toggles between the insert and the removal
  behind,    \* history: what clients show was read before the latest attempt to read
  outdated   \* history: goroutines about to send what is no longer the latest read

reactVars == <<reacted, toggle, shown, broken, odd, crossed, behind, outdated>>

Toggle == [pc : {"ready", "remove", "fetch", "send"}, by : Fan \cup {NoFan}, seen : SUBSET Fan]

ReactTypeOK ==
  /\ reacted \subseteq Fan /\ shown \subseteq Fan
  /\ toggle \in [Toggler -> Toggle]
  /\ \A w \in Toggler : toggle[w].pc # "ready" => toggle[w].by \in Fan
  /\ broken \in Nat
  /\ odd \subseteq Fan /\ crossed \subseteq Fan
  /\ behind \in BOOLEAN /\ outdated \subseteq Toggler

ReactInit ==
  /\ reacted = {} /\ shown = {} /\ broken = 0
  /\ toggle = [w \in Toggler |-> [pc |-> "ready", by |-> NoFan, seen |-> {}]]
  /\ odd = {} /\ crossed = {} /\ behind = FALSE /\ outdated = {}

Proceed(w, pc, e, S) == toggle' = [toggle EXCEPT ![w] = [pc |-> pc, by |-> e, seen |-> S]]
Rest(w)    == Proceed(w, "ready", NoFan, {})
Break      == broken < MaxBroken /\ broken' = broken + 1
Flip(S, e) == IF e \in S THEN S \ {e} ELSE S \cup {e}
Removes(w, e) == toggle[w].pc = "remove" /\ toggle[w].by = e
-----------------------------------------------------------------------------
AddReaction_Mutant(w, e) ==
  /\ toggle[w].pc = "ready"
  /\ reacted' = reacted \cup {e} /\ odd' = Flip(odd, e)
  /\ Proceed(w, "fetch", e, {})
  /\ UNCHANGED <<shown, broken, crossed, behind, outdated>>

\* HandleToggleReaction up to AddReaction; an insert that fails changes nothing.
\* The row is there when the insert gives no id.
AddReaction(w, e) ==
  /\ toggle[w].pc = "ready"
  /\ \/ /\ e \notin reacted
        /\ reacted' = reacted \cup {e} /\ odd' = Flip(odd, e)
        /\ Proceed(w, "fetch", e, {})
        /\ UNCHANGED crossed
     \/ /\ e \in reacted
        /\ Proceed(w, "remove", e, {})
        /\ crossed' = IF \E v \in Toggler : Removes(v, e) THEN crossed \cup {e} ELSE crossed
        /\ UNCHANGED <<reacted, odd>>
  /\ UNCHANGED <<shown, broken, behind, outdated>>

\* a delete that finds no row succeeds too
RemoveReaction(w) ==
  LET r == toggle[w] IN
  /\ r.pc = "remove"
  /\ \/ /\ reacted' = reacted \ {r.by} /\ odd' = Flip(odd, r.by)
        /\ Proceed(w, "fetch", r.by, {})
        /\ UNCHANGED broken
     \/ Break /\ Rest(w) /\ UNCHANGED <<reacted, odd>>
  /\ UNCHANGED <<shown, crossed, behind, outdated>>

\* GetReactionsByMessages; what others are about to send, and what is shown, is
\* not the latest from now on
FetchReactions(w) ==
  LET r == toggle[w] IN
  /\ r.pc = "fetch"
  /\ \/ Proceed(w, "send", r.by, reacted) /\ UNCHANGED broken
     \/ Break /\ Rest(w)
  /\ outdated' = {v \in Toggler \ {w} : toggle[v].pc = "send"}
  /\ behind' = TRUE
  /\ UNCHANGED <<reacted, shown, odd, crossed>>

\* BroadcastEvent of message.reaction_updated
BroadcastReactions(w) ==
  /\ toggle[w].pc = "send" /\ Rest(w)
  /\ shown' = toggle[w].seen
  /\ behind' = (w \in outdated) /\ outdated' = outdated \ {w}
  /\ UNCHANGED <<reacted, broken, odd, crossed>>

Toggles(w) ==
  \/ \E e \in Fan : AddReaction(w, e)
  \/ RemoveReaction(w) \/ FetchReactions(w) \/ BroadcastReactions(w)

ReactNext == \E w \in Toggler : Toggles(w)
ReactSpec == ReactInit /\ [][ReactNext]_reactVars
-----------------------------------------------------------------------------
(* Properties *)

\* Who toggled an odd number of times has the reaction, and nobody else, although
\* toggles of many participants run at once; only toggles of one participant that
\* both found the reaction and both removed it may miss it.
TogglesCount == \A e \in Fan \ crossed : e \in reacted <=> e \in odd

\* Between toggles the clients show the rows, unless the last broadcast overtook
\* that of a later read, or a later read failed and was told to nobody.
ShownIsStored ==
  (\A w \in Toggler : toggle[w].pc = "ready") /\ ~behind => shown = reacted

ReactionsMatch == TogglesCount /\ ShownIsStored
=============================================================================
