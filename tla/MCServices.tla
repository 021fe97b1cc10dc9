----------------------------- MODULE MCServices -----------------------------
(* Seven components that share nothing, checked in one run: a behaviour is   *)
(* about one of them and leaves the others as they began.                    *)
EXTENDS EntityKeys, Work, PublicBot, RateLimit, Reactions, Webhooks, Push, TLC

CONSTANTS w1, w2, h1, h2, h3, a1, b1

\* one webhook of one entity, two of another; units of five seconds
MCHookOwner == (h1 :> a1) @@ (h2 :> b1) @@ (h3 :> b1)
MCDelays == <<0, 1, 5>>

VARIABLE about

messaging == <<reactVars, hookVars, pushVars>>
allVars == <<vars, workVars, publicVars, limitVars, messaging, about>>

\* tasks and settings have no row in common; each behaviour is about one
WorkAbout(w) == (about = "tasks" /\ Tasks(w)) \/ (about = "settings" /\ Changes(w))

\* a delivery looks at the webhooks only until it has its list
Listening == \E m \in Sent : delivery[m].pc \in {"idle", "list"}

MCNext ==
  \/ /\ UNCHANGED <<workVars, publicVars, limitVars, messaging, about>> /\ about = "keys"
     /\ \/ \E w \in Worker : Arrives(w) \/ Serve(w)
        \/ \E c \in Conn : ConnResolve(c) \/ ConnAdmit(c) \/ ConnRegister(c)
  \/ /\ UNCHANGED <<vars, publicVars, limitVars, messaging, about>>
     /\ \/ \E w \in Editor : WorkAbout(w)
        \/ about = "tasks" /\ CreatesTask
        \/ about = "settings" /\ AsksChange
  \/ /\ UNCHANGED <<vars, workVars, limitVars, messaging, about>> /\ about = "public bot"
     /\ (\E s \in Server : Opens(s)) \/ Owns
  \/ /\ UNCHANGED <<vars, workVars, publicVars, messaging, about>> /\ about = "rate limit"
     /\ (\E h \in Handler : Passes(h)) \/ (\E k \in Client : Forget(k)) \/ Tick
  \/ /\ UNCHANGED <<vars, workVars, publicVars, limitVars, hookVars, pushVars, about>>
     /\ about = "reactions" /\ \E w \in Toggler : Toggles(w)
  \/ /\ UNCHANGED <<vars, workVars, publicVars, limitVars, reactVars, pushVars, about>>
     /\ about = "webhooks"
     /\ \/ Listening /\ \E h \in Hook : CreateWebhook(h) \/ DeleteWebhook(h)
        \/ Listening /\ \E e \in Subscriber : Depart(e)
        \/ \E m \in Sent : Delivers(m) \/ \E e \in Subscriber : DeliverAsync(m, e)
  \/ /\ UNCHANGED <<vars, workVars, publicVars, limitVars, reactVars, hookVars, about>>
     /\ about = "push"
     /\ \/ \E d \in Endpoint : RegisterPush(d) \/ UnregisterPush(d)
        \/ \E s \in Notifier : Notifies(s)

MCInit ==
  /\ Init /\ WorkInit /\ PublicInit /\ LimitInit /\ ReactInit /\ HookInit /\ PushInit
  /\ about \in {"keys", "tasks", "settings", "public bot", "rate limit",
               "reactions", "webhooks", "push"}
  /\ bot.public => about = "public bot"

MCSpec ==
  /\ MCInit /\ [][MCNext]_allVars
  /\ \A w \in Worker : WF_vars(Serve(w)) /\ SF_vars(LockRotation(w))
=============================================================================
