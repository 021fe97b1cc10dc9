----------------------------- MODULE RateLimit -----------------------------
(***************************************************************************)
(* One token-bucket rate limiter (internal/middleware/rate_limit.go) under *)
(* concurrent requests. The middleware takes the limiter's mutex twice:    *)
(* once to look up and refill the visitor, once to test and take a token.  *)
(* In between the visitor may be emptied by another request, or dropped    *)
(* from the map by the cleanup goroutine; a dropped one is still used by   *)
(* the requests that hold it.                                              *)
(*                                                                         *)
(* Time is counted in ticks. An operator named X_Mutant is X with a        *)
(* plausible slip in it. No action uses it; it shows which property would  *)
(* notice.                                                                 *)
(***************************************************************************)
EXTENDS Integers, Sequences, FiniteSets

CONSTANTS
  Client,    \* rate limit keys: entities and addresses
  Visitor,   \* visitor objects
  Handler,   \* goroutines that pass the middleware
  NoVisitor,
  Limit,     \* the effective rates: rate and apiRate
  Most,      \* the largest of them
  Interval,  \* ticks of the interval
  IdleFor,   \* ticks after which an unused entry is dropped
  MaxTime    \* bound: ticks

ASSUME LimiterAssumption ==
  /\ NoVisitor \notin Visitor
  /\ Limit \subseteq Nat \ {0} /\ Most \in Nat /\ \A l \in Limit : l <= Most
  /\ Interval \in Nat \ {0} /\ IdleFor \in Nat /\ MaxTime \in Nat

VARIABLES
  visitors,  \* the limiter's map
  tokens,    \* visitor.tokens
  limit,     \* visitor.maxTokens
  last,      \* visitor.lastVisit
  passing,   \* per handler: the visitor it looked up, and when
  now,       \* clock
  born,      \* history: when the visitor was made
  granted    \* history: when it let requests through

limitVars == <<visitors, tokens, limit, last, passing, now, born, granted>>

Outside == [visitor |-> NoVisitor, at |-> 0]

LimitTypeOK ==
  /\ visitors \in [Client -> Visitor \cup {NoVisitor}]
  /\ tokens \in [Visitor -> Int] /\ limit \in [Visitor -> Limit \cup {0}]
  /\ last \in [Visitor -> Nat] /\ born \in [Visitor -> Nat] /\ now \in Nat
  /\ passing \in [Handler -> [visitor : Visitor \cup {NoVisitor}, at : Nat]]
  /\ granted \in [Visitor -> Seq(Nat)]

LimitInit ==
  /\ visitors = [k \in Client |-> NoVisitor]
  /\ tokens = [v \in Visitor |-> 0] /\ limit = [v \in Visitor |-> 0]
  /\ last = [v \in Visitor |-> 0] /\ born = [v \in Visitor |-> 0] /\ now = 0
  /\ passing = [h \in Handler |-> Outside]
  /\ granted = [v \in Visitor |-> << >>]
-----------------------------------------------------------------------------
Held == {passing[h].visitor : h \in Handler}
Free == Visitor \ (Held \cup {visitors[k] : k \in Client})

Enter(h, v) == passing' = [passing EXCEPT ![h] = [visitor |-> v, at |-> now]]
Leave(h)    == passing' = [passing EXCEPT ![h] = Outside]

\* getVisitor of a key that has none: a full bucket
NewVisitor(h, k, l) ==
  /\ passing[h].visitor = NoVisitor /\ visitors[k] = NoVisitor
  /\ \E v \in Free :
       /\ visitors' = [visitors EXCEPT ![k] = v]
       /\ tokens' = [tokens EXCEPT ![v] = l] /\ limit' = [limit EXCEPT ![v] = l]
       /\ last' = [last EXCEPT ![v] = now] /\ born' = [born EXCEPT ![v] = now]
       /\ granted' = [granted EXCEPT ![v] = << >>]
       /\ Enter(h, v)
  /\ UNCHANGED now

Smaller(a, b) == IF a < b THEN a ELSE b
Refill(v) == (now - last[v]) \div Interval

GetVisitor_Mutant(h, k, l) ==
  LET v == visitors[k] IN
  /\ passing[h].visitor = NoVisitor /\ v # NoVisitor
  /\ limit' = [limit EXCEPT ![v] = l]
  /\ tokens' = [tokens EXCEPT ![v] = IF Refill(v) > 0 THEN Smaller(@ + Refill(v), l) ELSE @]
  /\ Enter(h, v) /\ UNCHANGED <<visitors, last, now, born, granted>>

\* getVisitor of a key that has one: one token for each whole interval gone by
GetVisitor(h, k, l) ==
  LET v == visitors[k] IN
  /\ passing[h].visitor = NoVisitor /\ v # NoVisitor
  /\ limit' = [limit EXCEPT ![v] = l]
  /\ IF Refill(v) > 0
     THEN /\ tokens' = [tokens EXCEPT ![v] = Smaller(@ + Refill(v), l)]
          /\ last' = [last EXCEPT ![v] = now]
     ELSE UNCHANGED <<tokens, last>>
  /\ Enter(h, v) /\ UNCHANGED <<visitors, now, born, granted>>

\* the second critical section
Refuse(h) ==
  LET v == passing[h].visitor IN
  /\ v # NoVisitor /\ tokens[v] <= 0
  /\ Leave(h) /\ UNCHANGED <<visitors, tokens, limit, last, now, born, granted>>

Let(h) ==
  LET v == passing[h].visitor IN
  /\ v # NoVisitor /\ tokens[v] > 0
  /\ tokens' = [tokens EXCEPT ![v] = @ - 1]
  /\ granted' = [granted EXCEPT ![v] = Append(@, now)]
  /\ Leave(h) /\ UNCHANGED <<visitors, limit, last, now, born>>

\* cleanupVisitors
Forget(k) ==
  /\ visitors[k] # NoVisitor /\ now - last[visitors[k]] > IdleFor
  /\ visitors' = [visitors EXCEPT ![k] = NoVisitor]
  /\ UNCHANGED <<tokens, limit, last, passing, now, born, granted>>

Tick ==
  /\ now < MaxTime /\ now' = now + 1
  /\ UNCHANGED <<visitors, tokens, limit, last, passing, born, granted>>

Passes(h) ==
  \/ \E k \in Client, l \in Limit : NewVisitor(h, k, l) \/ GetVisitor(h, k, l)
  \/ Refuse(h) \/ Let(h)
LimitNext == (\E h \in Handler : Passes(h)) \/ (\E k \in Client : Forget(k)) \/ Tick
LimitSpec == LimitInit /\ [][LimitNext]_limitVars
-----------------------------------------------------------------------------
(* Properties *)

\* However requests and the cleanup interleave, a visitor never owes tokens, and
\* since it was made it let through no more than a full bucket and one request
\* for each whole interval gone by.
BudgetKept ==
  \A v \in Visitor :
    /\ tokens[v] >= 0
    /\ (Len(granted[v]) + tokens[v] - Most) * Interval <= last[v] - born[v]

\* "Max %d requests per %v": a request is refused only if that many were let
\* through in the interval before it arrived, or since.
Recent(v, at) == Cardinality({i \in 1..Len(granted[v]) : granted[v][i] > at - Interval})
RefusedOverRate ==
  [][\A h \in Handler : LET v == passing[h].visitor IN
        Refuse(h) => Recent(v, passing[h].at) >= limit[v]]_limitVars
=============================================================================
