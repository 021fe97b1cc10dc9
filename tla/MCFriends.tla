----------------------------- MODULE MCFriends -----------------------------
(* Instances of Friends for TLC: one pair and somebody else. *)
EXTENDS Friends, TLC

CONSTANTS ann, bob, eve, w1, w2, r1, r2, c1

MCEntity    == {ann, bob, eve}
MCWorker    == {w1, w2}
MCRequestId == {r1, r2}
MCConvId    == {c1}

\* ann and bob deal with each other; ann is a bot that talks to everybody
MCPeers    == {<<ann, bob>>, <<bob, ann>>}
MCReceives == {ann, bob}
MCOpen     == {<<bob, ann>>, <<eve, ann>>}

Symmetric == Permutations(MCWorker) \cup Permutations(MCRequestId)
=============================================================================
