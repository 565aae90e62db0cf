------------------------------ MODULE MCWorld ------------------------------
(* Small instance of World for TLC. *)
EXTENDS World, TLC

CONSTANTS a1, a2, g1, orch, m1, noAgent, noTeam, free

MCAgent == {a1, a2}
MCTask == 1..MaxTask
MCTeam == {g1}
MCMeta == {m1}

(* Agents are interchangeable: nothing orders them in World. *)
Symmetry == Permutations(MCAgent)
=============================================================================
