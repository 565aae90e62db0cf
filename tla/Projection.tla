---------------------------- MODULE Projection ----------------------------
(***************************************************************************)
(* The two folds over the event log: Metrics::fold, run by append_event on *)
(* every event (openteam-core/src/metrics.rs), and the stream server's     *)
(* fold_events over events.jsonl (openteam-serve/src/fold.rs).  Both see   *)
(* the log only, never the world; here they consume, step by step, the     *)
(* events World appends.  At most one event of a step moves a fold: the    *)
(* others are turn_completed, the directive events and the run's end.      *)
(***************************************************************************)
EXTENDS World, SequencesExt

VARIABLES
  meter,     \* Metrics: Agent -> MeterState, three states
  wire,      \* server: Agent -> AgentWireState, four states
  fStatus, fClaimant, fTag, fPhase, fMembers  \* server: the replayed Board

foldBoard == <<fStatus, fClaimant, fTag, fPhase, fMembers>>
pvars == <<vars, meter, wire, foldBoard>>

Folded == INSTANCE Board WITH status <- fStatus, claimant <- fClaimant,
            tag <- fTag, phase <- fPhase, members <- fMembers

At(mode, t) == [at |-> mode, task |-> t]
Idle == At("Idle", NoTask)

(* The events appended by this step. *)
NewEvents == ToSet(emitted')

(* Mutant: a wake is folded to Idle, whatever task the event names. *)
FoldWokeToIdle(e, a, old, parked) ==
  CASE e.kind = "TaskClaimed" /\ a = e.src -> At("Working", e.task)
    [] e.kind \in {"TaskReleased", "TaskCompleted"} /\ a = e.src -> Idle
    [] e.kind \in {"TaskUnassigned", "AgentWoke"} /\ a = e.agent -> Idle
    [] e.kind = "AgentSlept" /\ a = e.agent -> At("Asleep", NoTask)
    [] e.kind = "AgentParked" /\ a = e.agent -> At(parked, NoTask)
    [] OTHER -> old

(* Mutant: a sleep is folded like a park. *)
FoldSleptAsParked(e, a, old, parked) ==
  CASE e.kind = "TaskClaimed" /\ a = e.src -> At("Working", e.task)
    [] e.kind \in {"TaskReleased", "TaskCompleted"} /\ a = e.src -> Idle
    [] e.kind = "TaskUnassigned" /\ a = e.agent -> Idle
    [] e.kind \in {"AgentSlept", "AgentParked"} /\ a = e.agent ->
         At(parked, NoTask)
    [] e.kind = "AgentWoke" /\ a = e.agent ->
         IF e.task = NoTask THEN Idle ELSE At("Working", e.task)
    [] OTHER -> old

(* Where one event moves the folded state of agent a; `parked` is what the *)
(* fold calls a parked agent.                                              *)
FoldAgent(e, a, old, parked) ==
  CASE e.kind = "TaskClaimed" /\ a = e.src -> At("Working", e.task)
    [] e.kind \in {"TaskReleased", "TaskCompleted"} /\ a = e.src -> Idle
    [] e.kind = "TaskUnassigned" /\ a = e.agent -> Idle
    [] e.kind = "AgentSlept" /\ a = e.agent -> At("Asleep", NoTask)
    [] e.kind = "AgentParked" /\ a = e.agent -> At(parked, NoTask)
    [] e.kind = "AgentWoke" /\ a = e.agent ->
         IF e.task = NoTask THEN Idle ELSE At("Working", e.task)
    [] OTHER -> old

AgentKinds == {"TaskClaimed", "TaskReleased", "TaskCompleted",
               "TaskUnassigned", "AgentSlept", "AgentParked", "AgentWoke"}

(* The events of this step that move a folded agent. *)
Moves == {e \in NewEvents : e.kind \in AgentKinds}

FoldMeter ==
  \/ Moves = {} /\ UNCHANGED meter
  \/ \E e \in Moves :
       meter' = [a \in Agent |-> FoldAgent(e, a, meter[a], "Asleep")]

ApplyAgentState ==
  \/ Moves = {} /\ UNCHANGED wire
  \/ \E e \in Moves :
       wire' = [a \in Agent |-> FoldAgent(e, a, wire[a], "Parked")]

(* Mutant: the match arm of a completion replays a release. *)
ReplayCompleteAsRelease(e) ==
  CASE e.kind = "TaskCreated"    -> Folded!CreateTask(e.task, e.team)
    [] e.kind = "TaskClaimed"    -> Folded!Claim(e.src, e.task)
    [] e.kind \in {"TaskReleased", "TaskCompleted"} ->
         \E t \in Task : Folded!Release(e.src, t)
    [] e.kind = "TaskUnassigned" -> Folded!Unassign(e.task)
    [] e.kind = "TaskCancelled"  -> Folded!Cancel(e.task)
    [] e.kind = "TeamFormed"     -> Folded!FormTeam(e.team, e.members)
    [] e.kind = "TeamMembersSet" -> Folded!SetTeamMembers(e.team, e.members)
    [] e.kind = "TeamDissolved"  -> Folded!DissolveTeam(e.team)

(* One event through the Board mutators. *)
Replay(e) ==
  CASE e.kind = "TaskCreated"    -> Folded!CreateTask(e.task, e.team)
    [] e.kind = "TaskClaimed"    -> Folded!Claim(e.src, e.task)
    [] e.kind = "TaskReleased"   -> \E t \in Task : Folded!Release(e.src, t)
    [] e.kind = "TaskUnassigned" -> Folded!Unassign(e.task)
    [] e.kind = "TaskCompleted"  -> \E t \in Task : Folded!Complete(e.src, t)
    [] e.kind = "TaskCancelled"  -> Folded!Cancel(e.task)
    [] e.kind = "TeamFormed"     -> Folded!FormTeam(e.team, e.members)
    [] e.kind = "TeamMembersSet" -> Folded!SetTeamMembers(e.team, e.members)
    [] e.kind = "TeamDissolved"  -> Folded!DissolveTeam(e.team)

(* Whether the mutator an event calls returns Ok on the replayed board. *)
Accepts(e) ==
  CASE e.kind = "TaskCreated"    -> Folded!MayCreate(e.task, e.team)
    [] e.kind = "TaskClaimed"    -> Folded!MayClaim(e.src, e.task)
    [] e.kind \in {"TaskReleased", "TaskCompleted"} -> Folded!HasClaim(e.src)
    [] e.kind = "TaskUnassigned" -> fStatus[e.task] = "Claimed"
    [] e.kind = "TaskCancelled"  -> fStatus[e.task] = "Open"
    [] e.kind = "TeamFormed"     -> fPhase[e.team] = "absent"
    [] e.kind = "TeamMembersSet" -> fPhase[e.team] = "live"
    [] e.kind = "TeamDissolved"  -> Folded!MayDissolve(e.team)

BoardKinds == {"TaskCreated", "TaskClaimed", "TaskReleased", "TaskUnassigned",
               "TaskCompleted", "TaskCancelled", "TeamFormed",
               "TeamMembersSet", "TeamDissolved"}

(* The events of this step that move the replayed board: at most one. *)
Mutations == {e \in NewEvents : e.kind \in BoardKinds}

(* An Err is dropped: the replayed board then stays as it was. *)
ApplyBoard ==
  \/ Mutations = {} /\ UNCHANGED foldBoard
  \/ \E e \in Mutations :
       IF Accepts(e) THEN Replay(e) ELSE UNCHANGED foldBoard

PInit ==
  /\ Init
  /\ meter = [a \in Agent |-> Idle]
  /\ wire = [a \in Agent |-> Idle]
  /\ Folded!BoardInit

Fold == FoldMeter /\ ApplyAgentState /\ ApplyBoard

PNext ==
  \/ Next /\ vars' # vars /\ Fold
  \/ Settle /\ UNCHANGED <<meter, wire, foldBoard>>

PSpec == PInit /\ [][PNext]_pvars

----------------------------------------------------------------------------
(* ADR 0028: the folded board is the run's board.  Every event the handlers *)
(* emit replays through the same mutators without a refusal, at every       *)
(* prefix of the log and not only at the end.                               *)
FoldedBoardIsBoard == foldBoard = boardVars

(* Both folds are exact for every agent that is not Asleep, with the task  *)
(* it works on: a live dashboard and the metas' digest never show a        *)
(* working agent as idle, parked or on another task.                       *)
FoldsExactWhenAwake ==
  \A a \in Agent : state[a] # "Asleep" =>
    /\ meter[a] = At(state[a], anchor[a])
    /\ wire[a] = At(state[a], anchor[a])

(* The wire shows "parked" only for an agent that is: Asleep, at the       *)
(* malformed threshold, and not yet woken or unassigned.                   *)
WireParkedIsParked ==
  \A a \in Agent : wire[a].at = "Parked" =>
    state[a] = "Asleep" /\ malformed[a] = ParkK

(* The doc comment of MeterState (metrics.rs:25): the agent's lifecycle    *)
(* position as folded from events.                                         *)
MeterIsLifecyclePosition == \A a \in Agent : meter[a].at = state[a]
=============================================================================
