------------------------------- MODULE Board -------------------------------
(***************************************************************************)
(* The task board and the teams of a run (openteam-core/src/board.rs).     *)
(*                                                                         *)
(* Only the orchestrator authors tasks; team agents pull them, one claim   *)
(* each.  A Rust method that returns Err leaves the board untouched, so a  *)
(* refused call is a stuttering step here and an action's guard is the     *)
(* conjunction of the method's early returns.                              *)
(*                                                                         *)
(* The TaskState enum is split into `status` and `claimant` (the `by` of   *)
(* Claimed).  Titles, results and reasons are not modelled.  `members` is  *)
(* the set of a team's members: the board itself only asks `contains`.     *)
(***************************************************************************)
EXTENDS Naturals

CONSTANTS
  Agent,     \* the pool team agents
  Task,      \* task ids
  Team,      \* team ids
  NoAgent,   \* "nobody claims this task"
  NoTeam     \* the tag of an untagged task

ASSUME BoardAssumption ==
  /\ Task \subseteq Nat
  /\ NoAgent \notin Agent
  /\ NoTeam \notin Team

VARIABLES
  status,    \* Task -> lifecycle position; "absent" before create_task
  claimant,  \* Task -> the `by` of Claimed{by}, NoAgent in every other state
  tag,       \* Task -> the claim-eligibility tag
  phase,     \* Team -> "absent", "live" or "dissolved"
  members    \* Team -> current members

boardVars == <<status, claimant, tag, phase, members>>

Status == {"absent", "Open", "Claimed", "Done", "Cancelled"}
Terminal == {"Done", "Cancelled"}

BoardTypeOK ==
  /\ status \in [Task -> Status]
  /\ claimant \in [Task -> Agent \cup {NoAgent}]
  /\ tag \in [Task -> Team \cup {NoTeam}]
  /\ phase \in [Team -> {"absent", "live", "dissolved"}]
  /\ members \in [Team -> SUBSET Agent]

BoardInit ==
  /\ status = [t \in Task |-> "absent"]
  /\ claimant = [t \in Task |-> NoAgent]
  /\ tag = [t \in Task |-> NoTeam]
  /\ phase = [g \in Team |-> "absent"]
  /\ members = [g \in Team |-> {}]

----------------------------------------------------------------------------
(* Accessors. *)

Claims(a, t) == status[t] = "Claimed" /\ claimant[t] = a

HasClaim(a) == \E t \in Task : Claims(a, t)

(* A dissolved team keeps its members, but no non-terminal task wears its  *)
(* tag (TaggedTeamLive below), so the code does not test for it either.    *)
Eligible(a, t) ==
  \/ tag[t] = NoTeam
  \/ \E g \in Team : tag[t] = g /\ phase[g] # "absent" /\ a \in members[g]

NonTerminal(t) == status[t] \in {"Open", "Claimed"}

FinishBlockers == {t \in Task : NonTerminal(t)}

----------------------------------------------------------------------------
(* Task transitions. *)

(* The early returns that read more than the task itself have names: the   *)
(* replay of the log runs into the same ones.                              *)
MayCreate(t, g) ==
  /\ status[t] = "absent"
  /\ g \in Team => phase[g] = "live"

CreateTask(t, g) ==
  /\ MayCreate(t, g)
  /\ status' = [status EXCEPT ![t] = "Open"]
  /\ tag' = [tag EXCEPT ![t] = g]
  /\ UNCHANGED <<claimant, phase, members>>

(* Mutant: the one-claim rule of `claim` is forgotten. *)
ClaimWhileHolding(a, t) ==
  /\ status[t] = "Open"
  /\ Eligible(a, t)
  /\ status' = [status EXCEPT ![t] = "Claimed"]
  /\ claimant' = [claimant EXCEPT ![t] = a]
  /\ UNCHANGED <<tag, phase, members>>

MayClaim(a, t) ==
  /\ status[t] = "Open"
  /\ ~HasClaim(a)
  /\ Eligible(a, t)

Claim(a, t) ==
  /\ MayClaim(a, t)
  /\ status' = [status EXCEPT ![t] = "Claimed"]
  /\ claimant' = [claimant EXCEPT ![t] = a]
  /\ UNCHANGED <<tag, phase, members>>

(* Leaving Claimed for another state drops the `by` with the variant. *)
LeaveClaimed(t, s) ==
  /\ status' = [status EXCEPT ![t] = s]
  /\ claimant' = [claimant EXCEPT ![t] = NoAgent]
  /\ UNCHANGED <<tag, phase, members>>

Release(a, t) == Claims(a, t) /\ LeaveClaimed(t, "Open")

Unassign(t) == status[t] = "Claimed" /\ LeaveClaimed(t, "Open")

Complete(a, t) == Claims(a, t) /\ LeaveClaimed(t, "Done")

Cancel(t) ==
  /\ status[t] = "Open"
  /\ status' = [status EXCEPT ![t] = "Cancelled"]
  /\ UNCHANGED <<claimant, tag, phase, members>>

----------------------------------------------------------------------------
(* Team transitions. *)

FormTeam(g, ms) ==
  /\ phase[g] = "absent"
  /\ phase' = [phase EXCEPT ![g] = "live"]
  /\ members' = [members EXCEPT ![g] = ms]
  /\ UNCHANGED <<status, claimant, tag>>

(* Mutant: a team is dissolved under its Open tasks. *)
DissolveUnderOpenTasks(g) ==
  /\ phase[g] = "live"
  /\ \A t \in Task : tag[t] = g => status[t] # "Claimed"
  /\ phase' = [phase EXCEPT ![g] = "dissolved"]
  /\ UNCHANGED <<status, claimant, tag, members>>

MayDissolve(g) ==
  /\ phase[g] = "live"
  /\ \A t \in Task : tag[t] = g => ~NonTerminal(t)

DissolveTeam(g) ==
  /\ MayDissolve(g)
  /\ phase' = [phase EXCEPT ![g] = "dissolved"]
  /\ UNCHANGED <<status, claimant, tag, members>>

SetTeamMembers(g, ms) ==
  /\ phase[g] = "live"
  /\ members' = [members EXCEPT ![g] = ms]
  /\ UNCHANGED <<status, claimant, tag, phase>>

----------------------------------------------------------------------------
(* The safety properties of the board alone. *)

(* ADR 0010: at most one claimed task per agent, whatever order claims,    *)
(* releases, unassignments and membership changes come in.                 *)
OneClaimPerAgent ==
  \A t, u \in Task, a \in Agent : Claims(a, t) /\ Claims(a, u) => t = u

(* ADR 0009: a team's scope outlives its non-terminal tasks.  Three        *)
(* methods defend it together: create_task refuses a dead tag,             *)
(* dissolve_team refuses while tagged tasks live, and form_team never      *)
(* reuses an id.  `claim` relies on it: is_eligible does not look at       *)
(* `dissolved`.                                                            *)
TaggedTeamLive ==
  \A t \in Task : NonTerminal(t) /\ tag[t] # NoTeam => phase[tag[t]] = "live"

(* The claimant field and the Claimed variant are one Rust enum value:     *)
(* a claimant exactly while Claimed.                                       *)
ClaimantIffClaimed ==
  \A t \in Task : (claimant[t] # NoAgent) <=> (status[t] = "Claimed")
=============================================================================
