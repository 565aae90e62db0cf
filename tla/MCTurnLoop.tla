----------------------------- MODULE MCTurnLoop -----------------------------
(* Two team agents and the orchestrator, under a scenario: a script by     *)
(* handle, a wildcard script that ends in a loop, and the arc.             *)
EXTENDS TurnLoop

CONSTANTS a1, a2, gen, rev

MCTeam == {a1, a2}
MCSlug == {gen, rev}

C(v) == [verb |-> v, parses |-> TRUE]
Bad(v) == [verb |-> v, parses |-> FALSE]

\* The wildcard comes first in the file: the handle must still win.
MCScripts ==
  << [agent |-> "team_agent",
      responses |-> <<Response(<<C("claim_task")>>)>>,
      repeat |-> <<Response(<<C("no_such_verb")>>), Response(<<>>)>>],
     [agent |-> a1,
      responses |-> <<Response(<<Bad("claim_task"), C("sleep")>>),
                      [kind |-> Fallthrough], Response(<<>>)>>,
      repeat |-> <<>>] >>

MCArc == {<<>>, <<C("respecialize")>>, <<C("finish_run")>>}
=============================================================================
