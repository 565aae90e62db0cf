------------------------------ MODULE MCLedger ------------------------------
(* Small instance of Ledger for TLC. *)
EXTENDS Ledger

CONSTANTS a1, a2, g1

MCAgent == {a1, a2}
MCTeam == {g1}
MCSender == {a1, Orchestrator}
MCMemberList == {<<a1, a2>>, <<a2, a2>>}
=============================================================================
