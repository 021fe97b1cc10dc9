---------------------------- MODULE MCMembership ----------------------------
(* Membership for TLC: entities are interchangeable, and so are workers. *)
EXTENDS Membership, TLC

Symmetric == Permutations(Entity) \cup Permutations(Worker)
=============================================================================
