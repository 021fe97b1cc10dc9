----------------------------- MODULE PublicBot -----------------------------
(***************************************************************************)
(* Sessions of visitors with one public bot, opened with an access link or *)
(* without (internal/handler/public_bot.go,                                *)
(* internal/store/postgres/bot_access_link.go).                            *)
(*                                                                         *)
(* A session is built by four statements without a transaction; the link   *)
(* is tested before the first and counted after the last.                  *)
(*                                                                         *)
(* An operator named X_Mutant is X with a plausible slip in it. No action  *)
(* uses it; it shows which property would notice.                          *)
(***************************************************************************)
EXTENDS Naturals, FiniteSets

CONSTANTS
  Link,      \* access links of the bot
  Guest,     \* visitor entities, each with its conversation
  Server,    \* goroutines that serve requests, one request at a time
  NoLink,
  NoGuest,
  MaxUses,   \* the limits links are given (0: none)
  MaxSkips   \* bound: statements that fail

ASSUME PublicAssumption ==
  /\ NoLink \notin Link /\ NoGuest \notin Guest
  /\ MaxUses \subseteq Nat /\ MaxSkips \in Nat
  /\ IsFiniteSet(Server)

Built   == {"none", "entity", "conversation", "owner", "member"}
LinkRow == [stored : BOOLEAN, max : Nat, used : Nat, expired : BOOLEAN]
Opening == [pc : {"ready", "check", "build", "count"}, public : BOOLEAN,
            link : Link \cup {NoLink}, guest : Guest \cup {NoGuest}]

VARIABLES
  bot,       \* the bot's row: active, and external_public
  link,      \* bot_access_links table
  guest,     \* how much of each guest's session is stored
  opening,   \* the request each server goroutine serves
  skips,     \* statements that failed
  opened,    \* history: sessions opened with a link
  uncounted  \* history: those that were not counted

publicVars == <<bot, link, guest, opening, skips, opened, uncounted>>

NoRow     == [stored |-> FALSE, max |-> 0, used |-> 0, expired |-> FALSE]
NoOpening == [pc |-> "ready", public |-> FALSE, link |-> NoLink, guest |-> NoGuest]

OpeningOK(r) ==
  /\ r.pc = "check" => r.guest = NoGuest
  /\ r.pc = "build" => r.guest \in Guest
  /\ r.pc = "count" => r.link \in Link

PublicTypeOK ==
  /\ bot \in [active : BOOLEAN, public : BOOLEAN]
  /\ link \in [Link -> LinkRow]
  /\ guest \in [Guest -> Built]
  /\ opening \in [Server -> Opening] /\ \A s \in Server : OpeningOK(opening[s])
  /\ skips \in Nat /\ opened \in [Link -> Nat] /\ uncounted \in [Link -> Nat]

PublicInit ==
  /\ bot \in [active : {TRUE}, public : BOOLEAN]
  /\ link = [l \in Link |-> NoRow]
  /\ guest = [g \in Guest |-> "none"]
  /\ opening = [s \in Server |-> NoOpening]
  /\ skips = 0
  /\ opened = [l \in Link |-> 0] /\ uncounted = [l \in Link |-> 0]

Open(s, r) == opening' = [opening EXCEPT ![s] = r]
Close(s)   == Open(s, NoOpening)
Skip       == skips < MaxSkips /\ skips' = skips + 1
-----------------------------------------------------------------------------
(* The owner's requests *)

\* HandleCreateBotAccessLink
CreateLink(l, max) ==
  /\ ~ link[l].stored /\ opened[l] = 0
  /\ \A s \in Server : opening[s].link # l
  /\ link' = [link EXCEPT ![l] = [NoRow EXCEPT !.stored = TRUE, !.max = max]]
  /\ UNCHANGED <<bot, guest, opening, skips, opened, uncounted>>

\* HandleDeleteBotAccessLink
DeleteLink(l) ==
  /\ link[l].stored
  /\ link' = [link EXCEPT ![l] = NoRow]
  /\ UNCHANGED <<bot, guest, opening, skips, opened, uncounted>>

\* expires_at passes
ExpireLink(l) ==
  /\ link[l].stored /\ ~ link[l].expired
  /\ link' = [link EXCEPT ![l].expired = TRUE]
  /\ UNCHANGED <<bot, guest, opening, skips, opened, uncounted>>

\* the bot is disabled or reactivated, shown or hidden
ChangeBot ==
  /\ bot' \in [active : BOOLEAN, public : BOOLEAN]
  /\ UNCHANGED <<link, guest, opening, skips, opened, uncounted>>
-----------------------------------------------------------------------------
(* HandleCreatePublicBotSession *)

\* resolvePublicBotCtx; canUsePublicBot tests the bot's row it read
ReadBot(s, l) ==
  /\ opening[s].pc = "ready" /\ bot.active
  /\ Open(s, [NoOpening EXCEPT !.pc = "check", !.public = bot.public, !.link = l])
  /\ UNCHANGED <<bot, link, guest, skips, opened, uncounted>>

\* canUsePublicBot: a link that is stored decides; any other code, or none, counts
\* only for a public bot
Usable_Mutant(l) == ~ link[l].expired /\ (link[l].max > 0 => link[l].used <= link[l].max)
Usable(l) == ~ link[l].expired /\ (link[l].max > 0 => link[l].used < link[l].max)

CheckLink(s) ==
  LET r == opening[s]
      found == r.link \in Link /\ link[r.link].stored
      ok == IF found THEN Usable(r.link) ELSE r.public
  IN
  /\ r.pc = "check"
  /\ IF ok
     THEN \/ \E g \in Guest :
               /\ guest[g] = "none" /\ \A q \in Server : opening[q].guest # g
               /\ Open(s, [r EXCEPT !.pc = "build", !.guest = g,
                                    !.link = IF found THEN r.link ELSE NoLink])
          \/ Close(s) \* the access password is wrong
     ELSE Close(s)
  /\ UNCHANGED <<bot, link, guest, skips, opened, uncounted>>

Following(stage) ==
  CASE stage = "none" -> "entity" [] stage = "entity" -> "conversation"
    [] stage = "conversation" -> "owner" [] OTHER -> "member"

\* createPublicVisitorSession: CreateEntity, CreateConversation, AddParticipant
\* twice; a failure leaves what is stored
Build(s) ==
  LET r == opening[s]  next == Following(guest[r.guest]) IN
  /\ r.pc = "build"
  /\ \/ /\ guest' = [guest EXCEPT ![r.guest] = next]
        /\ IF next # "member" THEN UNCHANGED <<opening, opened>>
           ELSE IF r.link = NoLink THEN Close(s) /\ UNCHANGED opened
           ELSE /\ Open(s, [r EXCEPT !.pc = "count"])
                /\ opened' = [opened EXCEPT ![r.link] = @ + 1]
        /\ UNCHANGED skips
     \/ Skip /\ Close(s) /\ UNCHANGED <<guest, opened>>
  /\ UNCHANGED <<bot, link, uncounted>>

\* IncrementBotAccessLinkUseCount; its failure is ignored
CountUse(s) ==
  LET l == opening[s].link IN
  /\ opening[s].pc = "count" /\ Close(s)
  /\ \/ /\ link[l].stored
        /\ link' = [link EXCEPT ![l].used = @ + 1] /\ UNCHANGED <<skips, uncounted>>
     \/ ~ link[l].stored /\ UNCHANGED <<link, skips, uncounted>>
     \/ Skip /\ UNCHANGED link /\ uncounted' = [uncounted EXCEPT ![l] = @ + 1]
  /\ UNCHANGED <<bot, guest, opened>>
-----------------------------------------------------------------------------
Opens(s) ==
  \/ \E l \in Link \cup {NoLink} : ReadBot(s, l)
  \/ CheckLink(s) \/ Build(s) \/ CountUse(s)
Owns ==
  \/ \E l \in Link : (\E max \in MaxUses : CreateLink(l, max)) \/ DeleteLink(l) \/ ExpireLink(l)
  \/ ChangeBot
PublicNext == (\E s \in Server : Opens(s)) \/ Owns
PublicSpec == PublicInit /\ [][PublicNext]_publicVars
-----------------------------------------------------------------------------
(* Properties *)

\* A link that is limited opens no more sessions than its limit allows, than
\* there were requests at once that found it unused, and than were not counted.
SessionsWithinLimit ==
  \A l \in Link :
    link[l].stored /\ link[l].max > 0 =>
      opened[l] < link[l].max + Cardinality(Server) + uncounted[l]
=============================================================================
