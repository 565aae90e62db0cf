------------------------------- MODULE World -------------------------------
(***************************************************************************)
(* The coordination verbs of a run over the one write-path mutex           *)
(* (openteam-core/src/runtime.rs: World, ToolRegistry::dispatch, the       *)
(* handle_* functions and the dispatch and finalize parts of turn_body).   *)
(*                                                                         *)
(* A turn takes the mutex once per batch of tool calls and once to         *)
(* finalize.  Between those points other turns run.  `lock` is the mutex:  *)
(* while an actor holds it, it alone acts, one verb per step, as many as   *)
(* it likes; BeginBatch and EndBatch bracket them.                         *)
(*                                                                         *)
(* A call the domain refuses changes nothing but the turn's malformed      *)
(* accounting (OtherCall); one that does not parse is InvalidCall.         *)
(* Which agent is dispatched when, and the permits, are module Scheduler;  *)
(* mailboxes and the knowledge store are not here.                         *)
(***************************************************************************)
EXTENDS Board, Sequences

CONSTANTS
  Meta,          \* the meta-agents
  Orchestrator,  \* the one orchestrator
  Free,          \* "nobody holds the mutex"
  ParkK,         \* MALFORMED_PARK_K
  MaxTask,       \* bound: create_task is called at most this often
  MaxDirective   \* bound: directives issued in a run

ASSUME WorldAssumption ==
  /\ MaxTask \in Nat /\ Task = 1..MaxTask
  /\ MaxDirective \in Nat
  /\ ParkK \in Nat \ {0}
  /\ Agent \cap Meta = {}
  /\ Orchestrator \notin Agent \cup Meta
  /\ Free \notin Agent \cup Meta \cup {Orchestrator}

VARIABLES
  state,      \* Agent -> AgentState without its task
  anchor,     \* Agent -> the task of Working{task}, NoTask otherwise
  malformed,  \* Agent -> consecutive_malformed
  turn,       \* Agent -> "none" when not in flight, else what its calls were
  lock,       \* the actor executing a batch under the mutex, or Free
  nextTask,   \* the 1-based TaskId counter
  directives, \* the directives issued, by id: their state
  finishRequested, \* finish_run was accepted
  finishing,  \* the termination path taken: "no", "clean", "cap", "error"
  emitted     \* the events this step appended to the log, in order

agentVars == <<state, anchor, malformed>>
vars == <<boardVars, agentVars, turn, lock, nextTask, directives,
          finishRequested, finishing, emitted>>

NoTask == 0
NoCite == 0
Control == Meta \cup {Orchestrator}
Actor == Agent \cup Control

Ev(kind, src, a, t) == [kind |-> kind, src |-> src, agent |-> a, task |-> t]
TaskEv(kind, src, t) == Ev(kind, src, NoAgent, t)
AgentEv(kind, src, a) == Ev(kind, src, a, NoTask)
PlainEv(kind, src) == Ev(kind, src, NoAgent, NoTask)

Init ==
  /\ BoardInit
  /\ state = [a \in Agent |-> "Idle"]
  /\ anchor = [a \in Agent |-> NoTask]
  /\ malformed = [a \in Agent |-> 0]
  /\ turn = [a \in Agent |-> "none"]
  /\ lock = Free
  /\ nextTask = 1
  /\ directives = <<>>
  /\ finishRequested = FALSE
  /\ finishing = "no"
  /\ emitted = <<>>

----------------------------------------------------------------------------
(* Turn boundaries and batches. *)

(* A team agent's turn is dispatched: never while one is in flight, never  *)
(* while Asleep, never once the run is finishing.  What else the scheduler *)
(* asks of an Idle agent is left open here (a queued message suffices).    *)
StartTurn(a) ==
  /\ lock = Free /\ finishing = "no"
  /\ turn[a] = "none" /\ state[a] # "Asleep"
  /\ turn' = [turn EXCEPT ![a] = "quiet"]
  /\ emitted' = <<>>
  /\ UNCHANGED <<boardVars, agentVars, lock, nextTask, directives,
                 finishRequested, finishing>>

(* Mutant: the batch does not look at `finishing` again under the mutex. *)
BeginBatchUnchecked(x) ==
  /\ lock = Free
  /\ x \in Agent => turn[x] # "none"
  /\ x = Orchestrator => ~finishRequested
  /\ lock' = x
  /\ emitted' = <<>>
  /\ UNCHANGED <<boardVars, agentVars, turn, nextTask, directives,
                 finishRequested, finishing>>

(* A completion came back with tool calls.  After an accepted finish_run   *)
(* the orchestrator's turn makes no further completion.                    *)
BeginBatch(x) ==
  /\ lock = Free /\ finishing = "no"
  /\ x \in Agent => turn[x] # "none"
  /\ x = Orchestrator => ~finishRequested
  /\ lock' = x
  /\ emitted' = <<>>
  /\ UNCHANGED <<boardVars, agentVars, turn, nextTask, directives,
                 finishRequested, finishing>>

EndBatch ==
  /\ lock # Free
  /\ lock' = Free
  /\ emitted' = <<>>
  /\ UNCHANGED <<boardVars, agentVars, turn, nextTask, directives,
                 finishRequested, finishing>>

(* The malformed accounting of a call: one ok or rejected call makes the   *)
(* turn well-formed, whatever the others are.                              *)
WellFormed(x) ==
  turn' = IF x \in Agent THEN [turn EXCEPT ![x] = "valid"] ELSE turn

(* A call by the actor that holds the mutex. *)
Calls(x) == lock = x /\ WellFormed(x) /\ UNCHANGED <<lock, finishing>>

(* A call that parses and is refused, or one whose effect is not modelled  *)
(* here (post_message, write_knowledge, search_knowledge).                 *)
OtherCall(a) ==
  /\ Calls(a)
  /\ emitted' = <<>>
  /\ UNCHANGED <<boardVars, agentVars, nextTask, directives, finishRequested>>

InvalidCall(a) ==
  /\ lock = a
  /\ turn' = [turn EXCEPT ![a] = IF @ = "valid" THEN "valid" ELSE "invalid"]
  /\ emitted' = <<>>
  /\ UNCHANGED <<boardVars, agentVars, lock, nextTask, directives,
                 finishRequested, finishing>>

----------------------------------------------------------------------------
(* Team-agent verbs. *)

SetIdle(a) ==
  /\ state' = [state EXCEPT ![a] = "Idle"]
  /\ anchor' = [anchor EXCEPT ![a] = NoTask]

(* A claim makes the claimant Working whatever it was before. *)
HandleClaim(a, t) ==
  /\ Calls(a)
  /\ Claim(a, t)
  /\ state' = [state EXCEPT ![a] = "Working"]
  /\ anchor' = [anchor EXCEPT ![a] = t]
  /\ emitted' = <<TaskEv("TaskClaimed", a, t)>>
  /\ UNCHANGED <<malformed, nextTask, directives, finishRequested>>

HandleComplete(a, t) ==
  /\ Calls(a)
  /\ Complete(a, t)
  /\ SetIdle(a)
  /\ emitted' = <<TaskEv("TaskCompleted", a, t)>>
  /\ UNCHANGED <<malformed, nextTask, directives, finishRequested>>

HandleRelease(a, t) ==
  /\ Calls(a)
  /\ Release(a, t)
  /\ SetIdle(a)
  /\ emitted' = <<TaskEv("TaskReleased", a, t)>>
  /\ UNCHANGED <<malformed, nextTask, directives, finishRequested>>

(* Mutant: `sleep` is not refused to a Working agent. *)
SelfSleepOnTheJob(a) ==
  /\ Calls(a)
  /\ state[a] # "Asleep"
  /\ state' = [state EXCEPT ![a] = "Asleep"]
  /\ anchor' = [anchor EXCEPT ![a] = NoTask]
  /\ emitted' = <<AgentEv("AgentSlept", a, a)>>
  /\ UNCHANGED <<boardVars, malformed, nextTask, directives,
                 finishRequested>>

HandleSelfSleep(a) ==
  /\ Calls(a)
  /\ state[a] = "Idle"
  /\ state' = [state EXCEPT ![a] = "Asleep"]
  /\ emitted' = <<AgentEv("AgentSlept", a, a)>>
  /\ UNCHANGED <<boardVars, anchor, malformed, nextTask, directives,
                 finishRequested>>

----------------------------------------------------------------------------
(* Directives and cites. *)

(* Mutant: any directive that exists may be cited. *)
CiteExists(c) == c = NoCite \/ c \in DOMAIN directives

(* An in_response_to cite must name a pending judgment directive, and is   *)
(* validated before the verb acts.                                         *)
ValidCite(c) ==
  \/ c = NoCite
  \/ c \in DOMAIN directives /\ directives[c] = "pending"

Resolve(c, s) ==
  directives' = IF c = NoCite THEN directives ELSE [directives EXCEPT ![c] = s]

FulfilledEvents(c) ==
  IF c = NoCite THEN <<>> ELSE <<PlainEv("DirectiveFulfilled", Orchestrator)>>

HandlePropose(m) ==
  /\ m \in Meta /\ Calls(m)
  /\ Len(directives) < MaxDirective
  /\ directives' = Append(directives, "pending")
  /\ emitted' = <<PlainEv("DirectiveIssued", m)>>
  /\ UNCHANGED <<boardVars, agentVars, nextTask, finishRequested>>

HandleDecline(d) ==
  /\ Calls(Orchestrator)
  /\ directives[d] = "pending"
  /\ Resolve(d, "declined")
  /\ emitted' = <<PlainEv("DirectiveDeclined", Orchestrator)>>
  /\ UNCHANGED <<boardVars, agentVars, nextTask, finishRequested>>

----------------------------------------------------------------------------
(* Orchestrator verbs over the board. *)

HandleCreateTask(g) ==
  /\ Calls(Orchestrator)
  /\ nextTask \in Task
  /\ CreateTask(nextTask, g)
  /\ nextTask' = nextTask + 1
  /\ emitted' = <<[kind |-> "TaskCreated", src |-> Orchestrator,
                   task |-> nextTask, team |-> g]>>
  /\ UNCHANGED <<agentVars, directives, finishRequested>>

HandleCancelTask(t) ==
  /\ Calls(Orchestrator)
  /\ Cancel(t)
  /\ emitted' = <<TaskEv("TaskCancelled", Orchestrator, t)>>
  /\ UNCHANGED <<agentVars, nextTask, directives, finishRequested>>

(* Mutant: unassigning always leaves the claimant Idle, parked or not. *)
UnassignRouses(t, c) ==
  /\ Calls(Orchestrator)
  /\ ValidCite(c)
  /\ Unassign(t)
  /\ SetIdle(claimant[t])
  /\ emitted' = <<Ev("TaskUnassigned", Orchestrator, claimant[t], t)>>
                  \o FulfilledEvents(c)
  /\ Resolve(c, "fulfilled")
  /\ UNCHANGED <<malformed, nextTask, finishRequested>>

(* The previous claimant goes Idle only if it was Working on this very     *)
(* task: a parked claimant stays Asleep.                                   *)
HandleUnassign(t, c) ==
  /\ Calls(Orchestrator)
  /\ ValidCite(c)
  /\ Unassign(t)
  /\ LET a == claimant[t] IN
     /\ IF state[a] = "Working" /\ anchor[a] = t
        THEN SetIdle(a) ELSE UNCHANGED <<state, anchor>>
     /\ emitted' = <<Ev("TaskUnassigned", Orchestrator, a, t)>>
                     \o FulfilledEvents(c)
  /\ Resolve(c, "fulfilled")
  /\ UNCHANGED <<malformed, nextTask, finishRequested>>

HandleFormTeam(g, ms) ==
  /\ Calls(Orchestrator)
  /\ FormTeam(g, ms)
  /\ emitted' = <<[kind |-> "TeamFormed", src |-> Orchestrator, team |-> g,
                   members |-> ms]>>
  /\ UNCHANGED <<agentVars, nextTask, directives, finishRequested>>

HandleDissolveTeam(g) ==
  /\ Calls(Orchestrator)
  /\ DissolveTeam(g)
  /\ emitted' = <<[kind |-> "TeamDissolved", src |-> Orchestrator, team |-> g]>>
  /\ UNCHANGED <<agentVars, nextTask, directives, finishRequested>>

HandleSetTeamMembers(g, ms, c) ==
  /\ Calls(Orchestrator)
  /\ ValidCite(c)
  /\ SetTeamMembers(g, ms)
  /\ Resolve(c, "fulfilled")
  /\ emitted' = <<[kind |-> "TeamMembersSet", src |-> Orchestrator, team |-> g,
                   members |-> ms]>> \o FulfilledEvents(c)
  /\ UNCHANGED <<agentVars, nextTask, finishRequested>>

----------------------------------------------------------------------------
(* Sleep, wake and respecialize. *)

(* The target of an orchestrator or meta sleep, or of a respecialize, must *)
(* be Idle with no turn in flight.                                         *)
Settled(a) == state[a] = "Idle" /\ turn[a] = "none"

Sleeps(a) ==
  /\ Settled(a)
  /\ state' = [state EXCEPT ![a] = "Asleep"]
  /\ UNCHANGED <<boardVars, anchor, malformed, nextTask, finishRequested>>

(* Mutant: a woken agent is Idle even if it still claims a task. *)
WakesToIdle(a) ==
  /\ state[a] = "Asleep"
  /\ SetIdle(a)
  /\ malformed' = [malformed EXCEPT ![a] = 0]
  /\ UNCHANGED <<boardVars, nextTask, finishRequested>>

(* Mutant: a wake leaves the malformed count where it was. *)
WakesStillCounting(a) ==
  /\ state[a] = "Asleep"
  /\ \/ \E t \in Task :
          /\ Claims(a, t)
          /\ state' = [state EXCEPT ![a] = "Working"]
          /\ anchor' = [anchor EXCEPT ![a] = t]
     \/ ~HasClaim(a) /\ SetIdle(a)
  /\ UNCHANGED <<boardVars, malformed, nextTask, finishRequested>>

(* Asleep -> Working with the still-claimed task, else Idle. *)
Wakes(a) ==
  /\ state[a] = "Asleep"
  /\ \/ \E t \in Task :
          /\ Claims(a, t)
          /\ state' = [state EXCEPT ![a] = "Working"]
          /\ anchor' = [anchor EXCEPT ![a] = t]
     \/ ~HasClaim(a) /\ SetIdle(a)
  /\ malformed' = [malformed EXCEPT ![a] = 0]
  /\ UNCHANGED <<boardVars, nextTask, finishRequested>>

WokeEv(src, a) == Ev("AgentWoke", src, a, anchor'[a])

HandleSleepAgent(a) ==
  /\ Calls(Orchestrator)
  /\ Sleeps(a)
  /\ emitted' = <<AgentEv("AgentSlept", Orchestrator, a)>>
  /\ UNCHANGED directives

HandleWakeAgent(a) ==
  /\ Calls(Orchestrator)
  /\ Wakes(a)
  /\ emitted' = <<WokeEv(Orchestrator, a)>>
  /\ UNCHANGED directives

(* A mechanical directive is issued only once its guard has passed, and is *)
(* born fulfilled.                                                         *)
IssueMechanical(m) ==
  /\ m \in Meta /\ Calls(m)
  /\ Len(directives) < MaxDirective
  /\ directives' = Append(directives, "mechanical")

HandleMetaSleepAgent(m, a) ==
  /\ IssueMechanical(m)
  /\ Sleeps(a)
  /\ emitted' = <<PlainEv("DirectiveIssued", m), AgentEv("AgentSlept", m, a)>>

HandleMetaWakeAgent(m, a) ==
  /\ IssueMechanical(m)
  /\ Wakes(a)
  /\ emitted' = <<PlainEv("DirectiveIssued", m), WokeEv(m, a)>>

(* The profile, the activity window and the channel's specialty are the    *)
(* only other things it replaces; none of them is modelled.                *)
HandleRespecialize(a, c) ==
  /\ Calls(Orchestrator)
  /\ ValidCite(c)
  /\ Settled(a)
  /\ Resolve(c, "fulfilled")
  /\ emitted' = <<AgentEv("AgentRespecialized", Orchestrator, a)>>
                  \o FulfilledEvents(c)
  /\ UNCHANGED <<boardVars, agentVars, nextTask, finishRequested>>

----------------------------------------------------------------------------
(* Ending turns and the run. *)

HandleFinishRun ==
  /\ Calls(Orchestrator)
  /\ FinishBlockers = {}
  /\ finishRequested' = TRUE
  /\ emitted' = <<>>
  /\ UNCHANGED <<boardVars, agentVars, nextTask, directives>>

(* The locked finalize of a team agent's turn: an all-invalid turn counts  *)
(* towards the park, which keeps the claim; a turn with a well-formed call *)
(* resets the count; a turn without calls does neither.                    *)
FinalizeTurn(a) ==
  /\ lock = Free /\ finishing = "no"
  /\ turn[a] # "none"
  /\ turn' = [turn EXCEPT ![a] = "none"]
  /\ malformed' = [malformed EXCEPT ![a] =
                     IF turn[a] = "invalid" THEN malformed[a] + 1
                     ELSE IF turn[a] = "valid" THEN 0 ELSE malformed[a]]
  /\ LET done == [kind |-> "TurnCompleted", src |-> a, how |-> turn[a]]
     IN IF turn[a] = "invalid" /\ malformed[a] + 1 >= ParkK
        THEN /\ state' = [state EXCEPT ![a] = "Asleep"]
             /\ anchor' = [anchor EXCEPT ![a] = NoTask]
             /\ emitted' = <<done, AgentEv("AgentParked", a, a)>>
        ELSE /\ emitted' = <<done>>
             /\ UNCHANGED <<state, anchor>>
  /\ UNCHANGED <<boardVars, lock, nextTask, directives, finishRequested,
                 finishing>>

(* Once the run is finishing an in-flight turn ends at its next boundary,  *)
(* with the bookkeeping only.                                              *)
AbortTurn(a) ==
  /\ lock = Free /\ finishing # "no"
  /\ turn[a] # "none"
  /\ turn' = [turn EXCEPT ![a] = "none"]
  /\ emitted' = <<>>
  /\ UNCHANGED <<boardVars, agentVars, lock, nextTask, directives,
                 finishRequested, finishing>>

EndRun(how, events) ==
  /\ lock = Free /\ finishing = "no"
  /\ finishing' = how
  /\ emitted' = events
  /\ UNCHANGED <<boardVars, agentVars, turn, lock, nextTask, directives,
                 finishRequested>>

(* The orchestrator's finalize after its finish_run was accepted. *)
CleanFinish ==
  /\ finishRequested
  /\ EndRun("clean", <<PlainEv("TurnCompleted", Orchestrator),
                       PlainEv("RunFinished", Orchestrator)>>)

(* A cap (duration, ticks, calls) or a harness error; either may come at   *)
(* any point where the mutex is free.                                      *)
ForceTerminate ==
  \/ EndRun("cap", <<PlainEv("CapHit", Free), PlainEv("RunFinished", Free)>>)
  \/ EndRun("error", <<PlainEv("RunFinished", Free)>>)

(* Termination: not an action of the code. *)
Settle ==
  /\ finishing # "no"
  /\ \A a \in Agent : turn[a] = "none"
  /\ UNCHANGED vars

----------------------------------------------------------------------------
AgentVerb(a) ==
  \/ \E t \in Task : HandleClaim(a, t) \/ HandleComplete(a, t)
                       \/ HandleRelease(a, t)
  \/ HandleSelfSleep(a)
  \/ OtherCall(a)
  \/ InvalidCall(a)

CitingVerb(c) ==
  \/ \E t \in Task : HandleUnassign(t, c)
  \/ \E g \in Team, ms \in SUBSET Agent : HandleSetTeamMembers(g, ms, c)
  \/ \E a \in Agent : HandleRespecialize(a, c)

OrchestratorVerb ==
  \/ \E g \in Team \cup {NoTeam} : HandleCreateTask(g)
  \/ \E t \in Task : HandleCancelTask(t)
  \/ \E g \in Team, ms \in SUBSET Agent : HandleFormTeam(g, ms)
  \/ \E g \in Team : HandleDissolveTeam(g)
  \/ \E a \in Agent : HandleSleepAgent(a) \/ HandleWakeAgent(a)
  \/ \E c \in {NoCite} \cup DOMAIN directives : CitingVerb(c)
  \/ \E d \in DOMAIN directives : HandleDecline(d)
  \/ HandleFinishRun

MetaVerb(m) ==
  \/ HandlePropose(m)
  \/ \E a \in Agent : HandleMetaSleepAgent(m, a) \/ HandleMetaWakeAgent(m, a)

TurnStep ==
  \/ \E x \in Actor : BeginBatch(x)
  \/ EndBatch
  \/ \E a \in Agent : StartTurn(a) \/ FinalizeTurn(a) \/ AbortTurn(a)
  \/ CleanFinish
  \/ ForceTerminate

Next ==
  \/ TurnStep
  \/ \E a \in Agent : AgentVerb(a)
  \/ OrchestratorVerb
  \/ \E m \in Meta : MetaVerb(m)
  \/ Settle

Spec == Init /\ [][Next]_vars

----------------------------------------------------------------------------
(* Safety.                                                                 *)

TypeOK ==
  /\ BoardTypeOK
  /\ state \in [Agent -> {"Idle", "Working", "Asleep"}]
  /\ anchor \in [Agent -> Task \cup {NoTask}]
  /\ malformed \in [Agent -> Nat]
  /\ turn \in [Agent -> {"none", "quiet", "invalid", "valid"}]
  /\ lock \in Actor \cup {Free}
  /\ nextTask \in Nat
  /\ directives \in Seq({"mechanical", "pending", "fulfilled", "declined"})
  /\ finishRequested \in BOOLEAN
  /\ finishing \in {"no", "clean", "cap", "error"}

(* The agent slots and the board are two records of one fact, written by   *)
(* different statements of a dozen handlers.  They never disagree: a       *)
(* Working agent's anchor is a task the board says it claims, and an Idle  *)
(* agent claims nothing (CONTEXT.md, Lifecycle state).  An Asleep agent    *)
(* may or may not hold a claim.                                            *)
AgentMatchesBoard ==
  \A a \in Agent :
    /\ state[a] = "Working" => anchor[a] \in Task /\ Claims(a, anchor[a])
    /\ state[a] # "Working" => anchor[a] = NoTask
    /\ state[a] = "Idle" => ~HasClaim(a)

(* An agent that went to sleep inside its own turn holds no claim until    *)
(* the turn ends: only the park, which comes with the end of a turn, puts  *)
(* a claimant to sleep.                                                    *)
SleeperInTurnHoldsNoClaim ==
  \A a \in Agent : state[a] = "Asleep" /\ turn[a] # "none" => ~HasClaim(a)

(* The park is exact: the count never passes K, and an agent whose count   *)
(* has reached K is Asleep and settled until a wake zeroes it, whatever    *)
(* verbs hit it in between.                                                *)
ParkedAtK ==
  \A a \in Agent :
    /\ malformed[a] <= ParkK
    /\ malformed[a] = ParkK => state[a] = "Asleep" /\ turn[a] = "none"

(* While a batch runs its actor is in a turn and the run is not finishing: *)
(* `finishing` is read and the calls dispatched under one acquisition of   *)
(* the mutex (turn_body), and only a free mutex lets a turn end.           *)
HolderInTurn ==
  lock # Free => finishing = "no" /\ (lock \in Agent => turn[lock] # "none")

(* The inductive invariant of the safety proofs (WorldProofs).  Alone,     *)
(* ParkedAtK and AgentMatchesBoard are not inductive: a claim needs        *)
(* HolderInTurn to know its caller is not parked, and an unassign needs    *)
(* ClaimantIffClaimed and OneClaimPerAgent to know whose slot it frees.    *)
IInv ==
  /\ TypeOK
  /\ ClaimantIffClaimed /\ OneClaimPerAgent /\ TaggedTeamLive
  /\ AgentMatchesBoard /\ SleeperInTurnHoldsNoClaim /\ ParkedAtK
  /\ HolderInTurn

(* Once a termination path is taken, nothing a turn still in flight does   *)
(* reaches the world or the log: run_finished stays the last event, which  *)
(* readers of a run directory take as the proof that it ended.             *)
FinishFreezesWorld ==
  [][finishing # "no" =>
       /\ UNCHANGED <<boardVars, agentVars, nextTask, directives, finishing>>
       /\ emitted' # <<>> => emitted' = emitted]_vars

(* A directive is resolved at most once: fulfilled, declined and           *)
(* mechanical directives never change again, though any number of later    *)
(* verbs may cite them.                                                    *)
DirectiveResolvedOnce ==
  [][\A d \in DOMAIN directives :
       directives[d] # "pending" => directives'[d] = directives[d]]_vars

(* The detailed machine implements the abstract one: seen through the      *)
(* board and the slots, every step of a batch, park, wake, unassign or     *)
(* termination is one step of Workforce or none.  In particular a claim    *)
(* survives sleep and park, an unassign does not wake, nobody completes a  *)
(* task while asleep, and nothing moves once the run is over.              *)
HeldBy(a) == IF HasClaim(a) THEN CHOOSE t \in Task : Claims(a, t) ELSE NoTask

Abstract == INSTANCE Workforce WITH
  None <- NoTask,
  pool <- {t \in Task : status[t] = "Open"},
  closed <- {t \in Task : status[t] \in Terminal},
  holds <- [a \in Agent |-> HeldBy(a)],
  resting <- {a \in Agent : state[a] = "Asleep"},
  over <- finishing # "no"

ImplementsWorkforce == Abstract!WFSpec

----------------------------------------------------------------------------
(* What the documents say and the code does not do. *)

(* CONTEXT.md:202 (Wake): always explicit, never automatic and never       *)
(* self-issued: no step of an agent's own turn ends its sleep.             *)
WakeNeverSelfIssued ==
  [][\A a \in Agent : state[a] = "Asleep" /\ lock = a =>
       state'[a] = "Asleep"]_vars

(* ADR 0006: the runtime validates that no open or claimed tasks remain    *)
(* before a clean finish.                                                  *)
CleanFinishHasNoBlockers == finishing = "clean" => FinishBlockers = {}
=============================================================================
