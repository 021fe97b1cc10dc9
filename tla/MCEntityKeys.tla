---------------------------- MODULE MCEntityKeys ----------------------------
(* EntityKeys for TLC: workers are interchangeable, and so are connections. *)
EXTENDS EntityKeys, TLC

Symmetric == Permutations(Worker) \cup Permutations(Conn)
=============================================================================
