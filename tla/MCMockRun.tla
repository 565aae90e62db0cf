------------------------------ MODULE MCMockRun ------------------------------
(* A small pool under one meta-agent. *)
EXTENDS MockRun

CONSTANTS a1, a2, m1, t1

MCAgent == {a1, a2}
MCTask == 1 .. 3
MCTeam == {t1}
MCMeta == {m1}

Run(agents, metas, budget, serial) ==
  [agents |-> agents, metas |-> metas, budget |-> budget, serial |-> serial]
MCCrew == {Run({a1, a2}, {}, 2, FALSE), Run({a1}, {m1}, 2, FALSE),
           Run({a1, a2}, {m1}, 2, TRUE)}

(* The smallest run of --mock with a meta-agent. *)
SerialCrew == {Run({a1}, {m1}, 1, TRUE)}
=============================================================================
