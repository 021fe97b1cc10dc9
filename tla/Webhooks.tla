------------------------------ MODULE Webhooks ------------------------------
(***************************************************************************)
(* Webhooks and their delivery (internal/webhook/deliver.go,               *)
(* internal/handler/webhook.go, internal/store/postgres/webhook.go).       *)
(*                                                                         *)
(* Every message starts a goroutine that lists the active webhooks of the  *)
(* participants once and calls them one after the other, each at most      *)
(* three times with a wait before every retry, all under one deadline.     *)
(* Time is counted from the start of the goroutine, in units of which the  *)
(* code's wait before the first retry is one. URLs, bodies and signatures  *)
(* are left out; the receivers answer as they like.                        *)
(*                                                                         *)
(* An operator named X_Mutant is X with a plausible slip in it. No action  *)
(* uses it; it shows which property would notice.                          *)
(***************************************************************************)
EXTENDS Naturals, Sequences, FiniteSets

CONSTANTS
  Hook,      \* rows of webhooks
  HookOwner, \* the entity of each
  Subscriber,\* entities that may register webhooks and take part
  Sent,      \* messages, each with the goroutine that delivers it
  Delays,    \* waits before the attempts
  Timeout,   \* what the HTTP client waits for an answer
  Deadline,  \* what the context gives the whole delivery
  NoOne

ASSUME WebhooksAssumption ==
  /\ HookOwner \in [Hook -> Subscriber] /\ NoOne \notin Subscriber \cup Hook
  /\ Delays \in Seq(Nat) /\ Len(Delays) > 1
  /\ Timeout \in Nat /\ Deadline \in Nat \ {0}

Attempt == 1 .. Len(Delays)

VARIABLES
  hook,      \* webhooks table
  takesPart, \* participants whose left_at is null
  delivery,  \* the goroutine of each message: where it is, its sender, the rows of
             \* its list it has not come to, the row it calls, the attempt, the time
  refused,   \* history: failed attempts that began before the deadline, per message and row
  accepted,  \* history: <<message, row>> answered 2xx
  turn       \* history: the rows of each list in the order they came up

hookVars == <<hook, takesPart, delivery, refused, accepted, turn>>

Idle == [pc |-> "idle", sender |-> NoOne, left |-> {}, cur |-> NoOne, attempt |-> 1, clock |-> 0]

Delivery ==
  [pc : {"idle", "list", "next", "wait", "call", "done"}, sender : Subscriber \cup {NoOne},
   left : SUBSET Hook, cur : Hook \cup {NoOne}, attempt : Attempt, clock : 0 .. Deadline]

HookTypeOK ==
  /\ hook \in [Hook -> {"none", "active", "disabled"}]
  /\ takesPart \subseteq Subscriber
  /\ delivery \in [Sent -> Delivery]
  /\ \A m \in Sent : delivery[m].pc \in {"wait", "call"} => delivery[m].cur \in Hook
  /\ refused \in [Sent -> [Hook -> Nat]]
  /\ accepted \subseteq Sent \X Hook
  /\ turn \in [Sent -> Seq(Hook)]

HookInit ==
  /\ hook = [h \in Hook |-> "none"] /\ takesPart = Subscriber
  /\ delivery = [m \in Sent |-> Idle]
  /\ refused = [m \in Sent |-> [h \in Hook |-> 0]]
  /\ accepted = {} /\ turn = [m \in Sent |-> <<>>]

Become(m, r) == delivery' = [delivery EXCEPT ![m] = r]
Earliest(s, t) == IF s < t THEN s ELSE t
-----------------------------------------------------------------------------
\* HandleCreateWebhook
CreateWebhook(h) ==
  /\ hook[h] = "none"
  /\ hook' = [hook EXCEPT ![h] = "active"]
  /\ UNCHANGED <<takesPart, delivery, refused, accepted, turn>>

\* HandleDeleteWebhook, by the owner; deleting twice answers the same
DeleteWebhook(h) ==
  /\ hook[h] # "none"
  /\ hook' = [hook EXCEPT ![h] = "disabled"]
  /\ UNCHANGED <<takesPart, delivery, refused, accepted, turn>>

\* a participant leaves (Membership)
Depart(e) ==
  /\ e \in takesPart /\ takesPart' = takesPart \ {e}
  /\ UNCHANGED <<hook, delivery, refused, accepted, turn>>

\* DeliverAsync of a stored message
DeliverAsync(m, e) ==
  /\ delivery[m].pc = "idle" /\ e \in takesPart
  /\ Become(m, [Idle EXCEPT !.pc = "list", !.sender = e])
  /\ UNCHANGED <<hook, takesPart, refused, accepted, turn>>

\* GetWebhooksForConversation, which may fail; its own time is not counted
ListWebhooks(m) ==
  LET r == delivery[m] IN
  /\ r.pc = "list"
  /\ \/ Become(m, [r EXCEPT !.pc = "next",
           !.left = {h \in Hook : hook[h] = "active" /\ HookOwner[h] \in takesPart}])
     \/ Become(m, [r EXCEPT !.pc = "done"])
  /\ UNCHANGED <<hook, takesPart, refused, accepted, turn>>

\* the next row of the list, in any order (the query has none); the sender's own is
\* passed over
NextWebhook_Mutant(m) ==
  LET r == delivery[m] IN
  /\ r.pc = "next"
  /\ \E h \in r.left :
       /\ Become(m, IF HookOwner[h] = r.sender THEN [r EXCEPT !.pc = "done"]
                    ELSE [r EXCEPT !.pc = "call", !.left = r.left \ {h}, !.cur = h,
                                   !.attempt = 1])
       /\ turn' = [turn EXCEPT ![m] = Append(turn[m], h)]
  /\ UNCHANGED <<hook, takesPart, refused, accepted>>

NextWebhook(m) ==
  LET r == delivery[m] IN
  /\ r.pc = "next"
  /\ \/ \E h \in r.left :
          /\ Become(m, IF HookOwner[h] = r.sender THEN [r EXCEPT !.left = r.left \ {h}]
                       ELSE [r EXCEPT !.pc = "call", !.left = r.left \ {h}, !.cur = h,
                                      !.attempt = 1])
          /\ turn' = [turn EXCEPT ![m] = Append(turn[m], h)]
     \/ r.left = {} /\ Become(m, [r EXCEPT !.pc = "done"]) /\ UNCHANGED turn
  /\ UNCHANGED <<hook, takesPart, refused, accepted>>

\* the select before a retry: the wait is over, or the context expires first
WaitForRetry(m) ==
  LET r == delivery[m]  over == r.clock + Delays[r.attempt] IN
  /\ r.pc = "wait"
  /\ \/ over <= Deadline /\ Become(m, [r EXCEPT !.pc = "call", !.clock = over])
     \/ over >= Deadline /\ Become(m, [r EXCEPT !.pc = "next", !.clock = Deadline])
  /\ UNCHANGED <<hook, takesPart, refused, accepted, turn>>

\* what follows a failed attempt: the next, or the next webhook
AfterFailure(r) ==
  IF r.attempt < Len(Delays) THEN [r EXCEPT !.pc = "wait", !.attempt = r.attempt + 1]
  ELSE [r EXCEPT !.pc = "next"]

\* deliver: an answer within the client's timeout, or the timeout, or the end of the
\* context; under an expired context no call is made
CallWebhook(m) ==
  LET r == delivery[m] IN
  /\ r.pc = "call"
  /\ \/ \E d \in 0 .. Timeout :
          /\ r.clock < Deadline /\ r.clock + d <= Deadline
          /\ Become(m, [r EXCEPT !.pc = "next", !.clock = r.clock + d])
          /\ accepted' = accepted \cup {<<m, r.cur>>} /\ UNCHANGED refused
     \/ \E d \in 0 .. Timeout :
          /\ Become(m, AfterFailure([r EXCEPT !.clock = Earliest(r.clock + d, Deadline)]))
          /\ refused' =
               [refused EXCEPT ![m][r.cur] = IF r.clock < Deadline THEN @ + 1 ELSE @]
          /\ UNCHANGED accepted
  /\ UNCHANGED <<hook, takesPart, turn>>

Delivers(m) == ListWebhooks(m) \/ NextWebhook(m) \/ WaitForRetry(m) \/ CallWebhook(m)

HookNext ==
  \/ \E h \in Hook : CreateWebhook(h) \/ DeleteWebhook(h)
  \/ \E e \in Subscriber : Depart(e)
  \/ \E m \in Sent : Delivers(m) \/ \E e \in Subscriber : DeliverAsync(m, e)
HookSpec == HookInit /\ [][HookNext]_hookVars
-----------------------------------------------------------------------------
(* Properties *)

Engaged(m, h) == delivery[m].pc \in {"wait", "call"} /\ delivery[m].cur = h

\* what a webhook that fails once takes at most, and n of them
Patience == 2 * Timeout + Delays[2]
Share(n) == n * Patience

\* The i-th row of the list was not called in time, and a row before it failed
\* twice, or there are so many that one failure of each is enough.
Starved(m, i) ==
  \/ \E j \in 1 .. i - 1 : refused[m][turn[m][j]] > 1
  \/ Deadline <= Share(i - 1)

\* What became of the i-th row, unless it is the sender's own, once the goroutine
\* has passed on: answered 2xx, or tried as often as the schedule says, or cut short
\* by the deadline; it was not even tried only if those before it took the time.
Accounted(m, i) ==
  LET h == turn[m][i]  r == delivery[m] IN
  \/ HookOwner[h] = r.sender \/ Engaged(m, h) \/ <<m, h>> \in accepted
  \/ refused[m][h] = Len(Delays)
  \/ r.clock = Deadline /\ (refused[m][h] > 0 \/ Starved(m, i))

\* Every row of the list comes up and is accounted for: a slow or failing webhook
\* delays the later ones and starves them only as Starved says.
EveryWebhookAccounted ==
  \A m \in Sent :
    /\ delivery[m].pc = "done" => delivery[m].left = {}
    /\ \A i \in 1 .. Len(turn[m]) : Accounted(m, i)
=============================================================================
