---------------------------- MODULE MCProjection ----------------------------
(* Small instance of Projection for TLC. *)
EXTENDS Projection

CONSTANTS a1, a2, g1, orch, m1, noAgent, noTeam, free

MCAgent == {a1, a2}
MCTask == 1..MaxTask
MCTeam == {g1}
MCMeta == {m1}

Symmetry == Permutations(MCAgent)
=============================================================================
