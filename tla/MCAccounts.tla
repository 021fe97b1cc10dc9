----------------------------- MODULE MCAccounts -----------------------------
(* Instances of Accounts for TLC. *)
EXTENDS Accounts, TLC

CONSTANTS s1, s2, n1, n2, k1, k2, w1, w2, p1, p2

MCNameOf == (s1 :> n1) @@ (s2 :> n2)

\* What a behaviour is about; the number of requests makes the rest too large.
\*   identities: accounts registered, enrolled, linked and unlinked
\*   passwords:  accounts registered and enrolled, with their first and later passwords
\*   rows:       accounts whose rows are read, written back and disabled
VARIABLE about

MCNext ==
  \/ \E w \in Worker :
       /\ UNCHANGED about
       /\ \/ Registers(w)
          \/ about = "rows" /\ LogsIn(w)
          \/ about = "identities" /\ Links(w)
          \/ about = "passwords" /\ SetsPassword(w)
          \/ about = "rows" /\ Updates(w)
          \/ Identifies(w) \/ Attach(w) \/ Fails(w)
  \/ \E e \in Entity : about = "rows" /\ Disable(e) /\ UNCHANGED about

\* Statements fail where accounts may lose their methods. A name of 1Pass accounts
\* is registered where it matters what becomes of such an account, which is then
\* the first one there.
Limits ==
  /\ faults' > 0 => about = "identities"
  /\ \A w \in Worker : call'[w].pc = "create" =>
       IF about = "rows" THEN call'[w].row.name \notin Prefixed
       ELSE /\ call'[w].kind = "register" /\ call'[w].row.name \in Prefixed
            /\ \A e \in Entity : entity[e].status = "free"

MCInit == Init /\ about \in {"identities", "passwords", "rows"}
MCSpec == MCInit /\ [][MCNext /\ Limits]_<<vars, about>>

Symmetric == Permutations({k1, k2}) \cup Permutations({w1, w2}) \cup Permutations({p1, p2})
              \cup {(s1 :> s2) @@ (s2 :> s1) @@ (n1 :> n2) @@ (n2 :> n1)}
=============================================================================
