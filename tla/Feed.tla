-------------------------------- MODULE Feed --------------------------------
(***************************************************************************)
(* What GET /updates promises to readers that ask again and again for what *)
(* follows the last message they were given: an answer is the readable     *)
(* messages behind the reader's mark up to some later one, none left out.  *)
(* A message that is stored only when a mark is past its id is not given.  *)
(***************************************************************************)
EXTENDS Naturals

CONSTANTS Reader, MaxIds

VARIABLES
  stored,     \* messages that are in the table
  withdrawn,  \* those that were revoked
  mark,       \* the largest id each reader was given
  given       \* how often each reader was given each message

feedVars == <<stored, withdrawn, mark, given>>

Id == 1..MaxIds
Readable == stored \ withdrawn
Between(n, top) == {i \in Readable : n < i /\ i <= top}

Init ==
  /\ stored = {} /\ withdrawn = {}
  /\ mark = [p \in Reader |-> 0]
  /\ given = [p \in Reader |-> [i \in Id |-> 0]]

\* In any order of the ids
Store(i) ==
  /\ i \notin stored /\ stored' = stored \cup {i}
  /\ UNCHANGED <<withdrawn, mark, given>>

Withdraw(i) ==
  /\ i \in stored /\ withdrawn' = withdrawn \cup {i}
  /\ UNCHANGED <<stored, mark, given>>

Give(p, top) ==
  /\ top \in Between(mark[p], top)
  /\ mark' = [mark EXCEPT ![p] = top]
  /\ given' = [given EXCEPT ![p] =
       [i \in Id |-> IF i \in Between(mark[p], top) THEN given[p][i] + 1 ELSE given[p][i]]]
  /\ UNCHANGED <<stored, withdrawn>>

Next ==
  \/ \E i \in Id : Store(i) \/ Withdraw(i)
  \/ \E p \in Reader, top \in Id : Give(p, top)

Spec == Init /\ [][Next]_feedVars

\* What a reader has gone past without being given it
Missed(p) == {i \in Readable : i <= mark[p] /\ given[p][i] = 0}

\* A reader misses a message only by its being stored when the mark is past it.
MissedOnlyLate ==
  [][\A p \in Reader : \A i \in Missed(p)' \ Missed(p) : i \notin stored /\ i <= mark[p]]_feedVars

\* No message is given twice to a reader, and none that is past its mark is new.
Once == \A p \in Reader, i \in Id : given[p][i] <= 1 /\ (given[p][i] > 0 => i <= mark[p])
=============================================================================
