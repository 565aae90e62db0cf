------------------------------ MODULE MCContext ------------------------------
(* Small inputs for ContextAssembly, around the budgets of the code. *)
EXTENDS ContextAssembly

L(c) == [cost |-> c, terminal |-> FALSE]
Done(c) == [cost |-> c, terminal |-> TRUE]

MCRole == {"orchestrator", "team", "meta"}
MCPool == {NoPool, 0, 500, 1000}
MCMail == {<<>>, <<L(900), L(10)>>, <<L(300), L(300), L(300)>>, <<L(10), L(900), L(10)>>}

Boards == {<<>>, <<Done(300), L(300), Done(300)>>, <<L(500), L(300), L(20)>>,
           <<Done(10), L(500), Done(400), L(500)>>}
Lists == {<<>>, <<L(250), L(250), L(250)>>, <<L(700), L(10)>>}

(* One list serves as every other section's content. *)
MCView ==
  {[goal |-> <<L(g)>>, board |-> b, health |-> h, retrievals |-> x,
    directives |-> x, claimed |-> <<L(20)>>, activity |-> x, outcomes |-> x,
    digest |-> x, events |-> x] :
      g \in {20, 600}, b \in Boards, h \in {0, 20}, x \in Lists}
=============================================================================
