----------------------------- MODULE Scheduler -----------------------------
(***************************************************************************)
(* The reactor of a run (openteam-core/src/runtime.rs: scheduler,          *)
(* plan_dispatches, run_turn, watchdog, the duration timer, and what the   *)
(* turn's start and end do to them), without serial_dispatch.              *)
(*                                                                         *)
(* Tasks that hold the write-path mutex act in one step.  Outside it, and  *)
(* so interleaved with a dispatch pass, are two things: a finished turn    *)
(* gives its permit back, and somebody calls Notify::notify_one.  Notify   *)
(* keeps at most one token, and the scheduler is its only waiter.          *)
(*                                                                         *)
(* The verbs appear by what the scheduler can see of them; module World    *)
(* has them in full.  Every open task is eligible to every agent here.     *)
(***************************************************************************)
EXTENDS Integers, FiniteSets

CONSTANTS
  NumAgents,    \* --agents: team agents 1..NumAgents, in handle order
  Meta,         \* the meta-agents
  Orchestrator,
  Parallel,     \* configured_parallelism
  Threshold,    \* META_CADENCE_THRESHOLD
  MaxTask,      \* bound: open and claimed tasks at any time
  MaxMail,      \* bound: queued messages per mailbox
  MaxNudging    \* bound: pending notify_one calls told apart

Agent == 1..NumAgents
Control == Meta \cup {Orchestrator}
Actor == Agent \cup Control
Reader == Agent \cup {Orchestrator}  \* meta-agents have no mailbox

ASSUME SchedulerAssumption ==
  /\ NumAgents \in Nat \ {0}
  /\ Parallel \in 1..NumAgents
  /\ Agent \cap Meta = {} /\ Orchestrator \notin Agent \cup Meta
  /\ Threshold \in Nat \ {0}
  /\ MaxTask \in Nat /\ MaxMail \in Nat /\ MaxNudging \in Nat \ {0}

VARIABLES
  turn,        \* Actor -> "none"; "planned": dispatched, not assembled; "running"
  state,       \* Agent -> AgentState
  holds,       \* the agents that claim a task
  open,        \* number of Open tasks
  mail,        \* Reader -> mailbox depth
  freshEvents, \* some event beyond the orchestrator's watermark is not its own
  freshWork,   \* agents with a work event beyond their watermark
  unobserved,  \* Meta -> cadence counter, saturated at Threshold
  priority,    \* metas with a priority wake
  firstTick, forcedTick,  \* first_tick_fired, forced_tick
  available,   \* permits in the semaphore
  effective,   \* effective_parallelism
  debt,        \* permit_debt
  dropping,    \* ended team turns that still own their permit
  nudging,     \* tasks about to call notify_one
  token,       \* Notify's stored permit
  sched,       \* "ready": evaluates next; "waiting": in notified(); "returned"
  finishing,   \* a termination path is taken
  unheard      \* history, never read: an event no assembled orchestrator view
               \* contains; freshEvents is what the watermark makes of it

workVars == <<state, holds, open, mail>>
newsVars == <<freshEvents, freshWork, unobserved, priority, unheard>>
permitVars == <<available, effective, debt, dropping>>
tickVars == <<firstTick, forcedTick>>
nudgeVars == <<nudging, token>>
vars == <<turn, workVars, newsVars, permitVars, tickVars, nudgeVars, sched,
          finishing>>

AtMost(n, bound) == IF n > bound THEN bound ELSE n

Init ==
  /\ turn = [x \in Actor |-> "none"]
  /\ state = [a \in Agent |-> "Idle"]
  /\ holds = {} /\ open = 0
  /\ mail = [r \in Reader |-> 0]
  /\ freshEvents = TRUE /\ unheard = TRUE  \* run_started
  /\ freshWork = {}
  /\ unobserved = [m \in Meta |-> AtMost(1, Threshold)]
  /\ priority = {}
  /\ firstTick = FALSE /\ forcedTick = FALSE
  /\ available = Parallel /\ effective = Parallel /\ debt = 0
  /\ dropping = 0 /\ nudging = 0
  /\ token = TRUE
  /\ sched = "ready"
  /\ finishing = FALSE

InFlight == {x \in Actor : turn[x] # "none"}

(* append_event, n times: n events sourced by src, of which one changes    *)
(* work and one is high-signal if so said.                                 *)
Append(src, n, work, high) ==
  /\ freshEvents' = (freshEvents \/ src # Orchestrator)
  /\ unheard' = (unheard \/ src # Orchestrator)
  /\ freshWork' = IF work THEN Agent ELSE freshWork
  /\ unobserved' = [m \in Meta |->
       IF m = src THEN unobserved[m] ELSE AtMost(unobserved[m] + n, Threshold)]
  /\ priority' = IF high THEN priority \cup (Meta \ {src}) ELSE priority

NotifySoon == nudging' = AtMost(nudging + 1, MaxNudging)

----------------------------------------------------------------------------
(* The scheduler. *)

OrchestratorDue ==
  /\ turn[Orchestrator] = "none"
  /\ ~firstTick \/ forcedTick \/ mail[Orchestrator] > 0 \/ freshEvents

MetaDue(m) == turn[m] = "none" /\ (m \in priority \/ unobserved[m] >= Threshold)

WantsTurn(a) ==
  /\ turn[a] = "none"
  /\ \/ state[a] = "Working"
     \/ state[a] = "Idle" /\ (mail[a] > 0 \/ (open > 0 /\ a \in freshWork))

WouldDispatch ==
  \/ OrchestratorDue
  \/ \E m \in Meta : MetaDue(m)
  \/ \E a \in Agent : WantsTurn(a)

(* A pass tries the agents in handle order, starting with `left` permits,  *)
(* while `back` more come back at any moments of it.  S is a set it can    *)
(* admit: an agent is refused only when all permits seen so far are used.  *)
Admits(S, left, back) ==
  /\ \A a \in S : WantsTurn(a)
  /\ Cardinality(S) <= left + back
  /\ \A a \in Agent \ S :
       WantsTurn(a) => Cardinality({b \in S : b < a}) >= left

(* One dispatch evaluation, up to notified().  forget_permits takes what   *)
(* debt it can first.                                                      *)
Plan ==
  /\ sched = "ready" /\ ~finishing
  /\ \E settled \in 0..debt, back \in 0..dropping, S \in SUBSET Agent :
       /\ settled = AtMost(debt, available)
       /\ Admits(S, available - settled, back)
       /\ debt' = debt - settled
       /\ available' = available - settled + back - Cardinality(S)
       /\ dropping' = dropping - back
       /\ nudging' = AtMost(nudging + back, MaxNudging)
       /\ turn' = [x \in Actor |->
            IF \/ x \in S
               \/ x = Orchestrator /\ OrchestratorDue
               \/ x \in Meta /\ MetaDue(x)
            THEN "planned" ELSE turn[x]]
  /\ firstTick' = (firstTick \/ OrchestratorDue)
  /\ forcedTick' = (forcedTick /\ ~OrchestratorDue)
  /\ priority' = {m \in priority : ~MetaDue(m)}
  /\ unobserved' = [m \in Meta |-> IF MetaDue(m) THEN 0 ELSE unobserved[m]]
  /\ sched' = "waiting"
  /\ UNCHANGED <<workVars, freshEvents, freshWork, unheard, effective, token,
                 finishing>>

(* The run is finishing, or an event that could not be written to           *)
(* events.jsonl makes it so now: return once every turn has settled.       *)
Settle ==
  /\ sched = "ready"
  /\ finishing' = TRUE
  /\ sched' = IF InFlight = {} THEN "returned" ELSE "waiting"
  /\ UNCHANGED <<turn, workVars, newsVars, permitVars, tickVars, nudgeVars>>

WakeUp ==
  /\ sched = "waiting" /\ token
  /\ sched' = "ready" /\ token' = FALSE
  /\ UNCHANGED <<turn, workVars, newsVars, permitVars, tickVars, nudging,
                 finishing>>

----------------------------------------------------------------------------
(* Turns. *)

(* Assembly drains the oldest messages, at least one if any is queued, and *)
(* takes the watermark after the events it appends itself.                 *)
StartTurn(x) ==
  /\ turn[x] = "planned" /\ ~finishing
  /\ turn' = [turn EXCEPT ![x] = "running"]
  /\ \E degraded \in BOOLEAN, left \in 0..MaxMail :
       /\ IF x \in Reader /\ mail[x] > 0
          THEN left < mail[x] /\ mail' = [mail EXCEPT ![x] = left]
          ELSE left = 0 /\ mail' = mail
       /\ LET n == (IF mail' # mail THEN 1 ELSE 0) + (IF degraded THEN 1 ELSE 0)
          IN /\ freshEvents' = (x # Orchestrator /\ (freshEvents \/ n > 0))
             /\ unheard' = (x # Orchestrator /\ (unheard \/ n > 0))
             /\ unobserved' = [m \in Meta |-> IF m = x THEN unobserved[m]
                                 ELSE AtMost(unobserved[m] + n, Threshold)]
  /\ freshWork' = freshWork \ {x}
  /\ UNCHANGED <<state, holds, open, priority, permitVars, tickVars,
                 nudgeVars, sched, finishing>>

(* end_turn_bookkeeping and the nudge that ends turn_body.  A team turn    *)
(* then gives its permit back; every turn nudges once more.                *)
Bookkeeping(x) ==
  /\ turn' = [turn EXCEPT ![x] = "none"]
  /\ token' = TRUE
  /\ IF x \in Agent
     THEN dropping' = dropping + 1 /\ UNCHANGED nudging
     ELSE NotifySoon /\ UNCHANGED dropping
  /\ UNCHANGED <<available, effective, debt>>

(* Mutant: the watermark is taken when the turn ends.                      *)
WatermarkAtEnd(x) ==
  /\ turn[x] = "running" /\ ~finishing
  /\ Bookkeeping(x)
  /\ freshEvents' = (x # Orchestrator) /\ unheard' = (unheard \/ x # Orchestrator)
  /\ UNCHANGED <<workVars, freshWork, unobserved, priority, tickVars, sched,
                 finishing>>

(* The finalize of a turn, and its park. *)
EndTurn(x) ==
  /\ turn[x] = "running" /\ ~finishing
  /\ Bookkeeping(x)
  /\ \/ Append(x, 1, FALSE, FALSE) /\ UNCHANGED state
     \/ /\ x \in Agent /\ state[x] # "Asleep"
        /\ state' = [state EXCEPT ![x] = "Asleep"]
        /\ Append(x, 2, FALSE, TRUE)
  /\ UNCHANGED <<holds, open, mail, tickVars, sched, finishing>>

(* A turn that ends the run: max_ticks, max_llm_calls, finish_run, a       *)
(* failed completion, a failed write.                                      *)
EndRun(x) ==
  /\ turn[x] = "running" /\ ~finishing
  /\ Bookkeeping(x)
  /\ finishing' = TRUE
  /\ UNCHANGED <<workVars, newsVars, tickVars, sched>>

(* Once the run is finishing, a turn ends at its next boundary: a planned  *)
(* one at once, a running one when its completion returns.                 *)
AbortTurn(x) ==
  /\ turn[x] # "none" /\ finishing
  /\ Bookkeeping(x)
  /\ UNCHANGED <<workVars, newsVars, tickVars, sched, finishing>>

(* Mutant: the permit outlives the last nudge of its turn.                 *)
DropPermitLast ==
  /\ dropping > 0
  /\ dropping' = dropping - 1 /\ available' = available + 1
  /\ UNCHANGED <<turn, workVars, newsVars, effective, debt, tickVars, nudgeVars,
                 sched, finishing>>

(* run_turn after turn_body, outside the mutex. *)
DropPermit ==
  /\ dropping > 0
  /\ dropping' = dropping - 1 /\ available' = available + 1
  /\ NotifySoon
  /\ UNCHANGED <<turn, workVars, newsVars, effective, debt, tickVars, token,
                 sched, finishing>>

NotifyOne ==
  /\ nudging > 0
  /\ nudging' = nudging - 1 /\ token' = TRUE
  /\ UNCHANGED <<turn, workVars, newsVars, permitVars, tickVars, sched,
                 finishing>>

----------------------------------------------------------------------------
(* Verbs, by what they change for the scheduler. *)

Verb(x) ==
  /\ turn[x] = "running" /\ ~finishing
  /\ UNCHANGED <<turn, tickVars, nudgeVars, sched, finishing>>

(* One event, or two with the directive that the verb issues or fulfils.   *)
Says(x, work, high) == \E n \in 1..2 : Append(x, n, work, high)
Work(x) == Verb(x) /\ Says(x, TRUE, FALSE) /\ UNCHANGED <<mail, permitVars>>
Talk(x) == Verb(x) /\ Says(x, FALSE, FALSE)

Claim(a) ==
  /\ Work(a)
  /\ open > 0 /\ a \notin holds
  /\ open' = open - 1 /\ holds' = holds \cup {a}
  /\ state' = [state EXCEPT ![a] = "Working"]

Complete(a) ==
  /\ Work(a)
  /\ a \in holds /\ holds' = holds \ {a}
  /\ state' = [state EXCEPT ![a] = "Idle"]
  /\ UNCHANGED open

(* The third release of one task is high-signal. *)
Release(a) ==
  /\ Verb(a) /\ \E high \in BOOLEAN : Says(a, TRUE, high)
  /\ a \in holds /\ holds' = holds \ {a} /\ open' = open + 1
  /\ state' = [state EXCEPT ![a] = "Idle"]
  /\ UNCHANGED <<mail, permitVars>>

CreateTask ==
  /\ Work(Orchestrator)
  /\ open + Cardinality(holds) < MaxTask /\ open' = open + 1
  /\ UNCHANGED <<state, holds>>

CancelTask ==
  /\ Work(Orchestrator)
  /\ open > 0 /\ open' = open - 1
  /\ UNCHANGED <<state, holds>>

Unassign(a) ==
  /\ Work(Orchestrator)
  /\ a \in holds /\ holds' = holds \ {a} /\ open' = open + 1
  /\ state' = IF state[a] = "Working" THEN [state EXCEPT ![a] = "Idle"] ELSE state

(* Its own sleep, or one by the orchestrator or a meta-agent, which is     *)
(* refused while the target's turn is in flight.                           *)
Sleep(x, a) ==
  /\ Talk(x)
  /\ state[a] = "Idle"
  /\ x = a \/ (x \in Control /\ turn[a] = "none")
  /\ state' = [state EXCEPT ![a] = "Asleep"]
  /\ UNCHANGED <<holds, open, mail, permitVars>>

Wake(x, a) ==
  /\ x \in Control /\ Work(x)
  /\ state[a] = "Asleep"
  /\ state' = [state EXCEPT ![a] = IF a \in holds THEN "Working" ELSE "Idle"]
  /\ UNCHANGED <<holds, open>>

(* Pushed to every recipient in one step; never to the sender.             *)
PostMessage(x, to) ==
  /\ x \in Reader /\ x \notin to /\ Talk(x)
  /\ \A r \in to : mail[r] < MaxMail
  /\ mail' = [r \in Reader |-> IF r \in to THEN mail[r] + 1 ELSE mail[r]]
  /\ UNCHANGED <<state, holds, open, permitVars>>

(* A decline is high-signal; proposals, knowledge and teams are not.       *)
OtherVerb(x) ==
  /\ Verb(x)
  /\ \E high \in BOOLEAN : Says(x, FALSE, high /\ x = Orchestrator)
  /\ UNCHANGED <<workVars, permitVars>>

(* Mutants of set_parallelism: a second debt replaces the first; a raise   *)
(* also cancels the debt; the debt counts the permits forgotten at once.   *)
ReplaceDebt(m, target) ==
  /\ Talk(m)
  /\ effective' = target
  /\ LET forgotten == AtMost(effective - target, available) IN
     IF target >= effective
     THEN available' = available + (target - effective) /\ debt' = debt
     ELSE /\ available' = available - forgotten
          /\ debt' = effective - target - forgotten
  /\ UNCHANGED <<workVars, dropping>>

CancelDebt(m, target) ==
  /\ Talk(m)
  /\ effective' = target
  /\ LET forgotten == AtMost(effective - target, available) IN
     IF target >= effective
     THEN available' = available + (target - effective) /\ debt' = 0
     ELSE /\ available' = available - forgotten
          /\ debt' = debt + (effective - target - forgotten)
  /\ UNCHANGED <<workVars, dropping>>

DebtForAll(m, target) ==
  /\ Talk(m)
  /\ effective' = target
  /\ LET forgotten == AtMost(effective - target, available) IN
     IF target >= effective
     THEN available' = available + (target - effective) /\ debt' = debt
     ELSE /\ available' = available - forgotten
          /\ debt' = debt + (effective - target)
  /\ UNCHANGED <<workVars, dropping>>

(* add_permits, or forget_permits of those that are free and a debt for    *)
(* the others.                                                             *)
SetParallelism(m, target) ==
  /\ Talk(m)
  /\ effective' = target
  /\ LET forgotten == AtMost(effective - target, available) IN
     IF target >= effective
     THEN available' = available + (target - effective) /\ debt' = debt
     ELSE /\ available' = available - forgotten
          /\ debt' = debt + (effective - target - forgotten)
  /\ UNCHANGED <<workVars, dropping>>

----------------------------------------------------------------------------
(* The timers. *)

(* Mutant: the timer terminates the run without a nudge.                   *)
CapWithoutNudge ==
  /\ ~finishing
  /\ finishing' = TRUE
  /\ UNCHANGED <<turn, workVars, newsVars, permitVars, tickVars, nudgeVars, sched>>

DurationCap ==
  /\ ~finishing
  /\ finishing' = TRUE
  /\ NotifySoon
  /\ UNCHANGED <<turn, workVars, newsVars, permitVars, tickVars, token, sched>>

(* liveness_predicate. *)
Quiescent ==
  /\ ~finishing /\ ~forcedTick /\ InFlight = {}
  /\ \A a \in Agent : state[a] # "Working"
  /\ open > 0 \/ \E a \in holds : state[a] = "Asleep"
  /\ mail[Orchestrator] = 0

(* A nudge the scheduler has not reacted to yet is repeated. *)
WatchdogRenudges ==
  /\ sched # "returned" /\ Quiescent /\ WouldDispatch
  /\ NotifySoon
  /\ UNCHANGED <<turn, workVars, newsVars, permitVars, tickVars, token, sched,
                 finishing>>

(* Mutant: the watchdog forces a tick and nudges nobody.                   *)
WatchdogWithoutNudge ==
  /\ sched # "returned" /\ Quiescent /\ ~WouldDispatch
  /\ Append("system", 1, FALSE, TRUE)
  /\ forcedTick' = TRUE
  /\ UNCHANGED <<turn, workVars, permitVars, firstTick, nudgeVars, sched, finishing>>

WatchdogFires ==
  /\ sched # "returned" /\ Quiescent /\ ~WouldDispatch
  /\ Append("system", 1, FALSE, TRUE)
  /\ forcedTick' = TRUE
  /\ NotifySoon
  /\ UNCHANGED <<turn, workVars, permitVars, firstTick, token, sched, finishing>>

Watchdog == WatchdogRenudges \/ WatchdogFires

(* Termination: not an action of the code. *)
Done == sched = "returned" /\ UNCHANGED vars

----------------------------------------------------------------------------
Schedule == Plan \/ Settle \/ WakeUp

AgentVerb(a) ==
  \/ Claim(a) \/ Complete(a) \/ Release(a)
  \/ Sleep(a, a)
  \/ \E to \in SUBSET Reader : PostMessage(a, to)
  \/ OtherVerb(a)

ControlVerb ==
  \/ CreateTask \/ CancelTask
  \/ \E a \in Agent : Unassign(a)
  \/ \E x \in Control, a \in Agent : Sleep(x, a) \/ Wake(x, a)
  \/ \E to \in SUBSET Reader : PostMessage(Orchestrator, to)
  \/ \E x \in Control : OtherVerb(x)
  \/ \E m \in Meta, target \in 1..Parallel : SetParallelism(m, target)

TurnStep(x) == StartTurn(x) \/ EndTurn(x) \/ EndRun(x) \/ AbortTurn(x)

Next ==
  \/ Schedule
  \/ \E x \in Actor : TurnStep(x)
  \/ DropPermit \/ NotifyOne
  \/ \E a \in Agent : AgentVerb(a)
  \/ ControlVerb
  \/ DurationCap \/ Watchdog
  \/ Done

Spec == Init /\ [][Next]_vars

(* The runtime's own tasks run: tokio polls every ready task and its mutex *)
(* is first come, first served, so a task that wants it gets it.           *)
RuntimeFairness ==
  /\ WF_vars(Schedule)
  /\ WF_vars(DropPermit) /\ WF_vars(NotifyOne)
  /\ WF_vars(Watchdog)
  /\ \A x \in Actor : WF_vars(StartTurn(x) \/ (turn[x] = "planned" /\ AbortTurn(x)))

(* The endpoint answers or fails: a turn in a completion gets on with it.  *)
(* max_tool_iters bounds the completions of a turn.                        *)
CompletionsReturn ==
  \A x \in Actor : WF_vars(turn[x] = "running" /\ (EndTurn(x) \/ AbortTurn(x)))

FairSpec == Spec /\ RuntimeFairness /\ CompletionsReturn

RuntimeSpec == Spec /\ RuntimeFairness

----------------------------------------------------------------------------
TypeOK ==
  /\ turn \in [Actor -> {"none", "planned", "running"}]
  /\ state \in [Agent -> {"Idle", "Working", "Asleep"}]
  /\ holds \in SUBSET Agent
  /\ open \in Nat
  /\ mail \in [Reader -> Nat]
  /\ freshEvents \in BOOLEAN /\ unheard \in BOOLEAN
  /\ freshWork \in SUBSET Agent
  /\ unobserved \in [Meta -> Nat]
  /\ priority \in SUBSET Meta
  /\ firstTick \in BOOLEAN /\ forcedTick \in BOOLEAN
  /\ available \in Nat /\ effective \in 1..Parallel /\ debt \in Nat
  /\ dropping \in Nat /\ nudging \in Nat
  /\ token \in BOOLEAN
  /\ sched \in {"ready", "waiting", "returned"}
  /\ finishing \in BOOLEAN

(* The permits owned by team turns, dispatched or just ended. *)
Owned == Cardinality({a \in Agent : turn[a] # "none"}) + dropping

(* Permits are neither lost nor made: what turns own and what the          *)
(* semaphore holds is the effective parallelism plus the debt, across      *)
(* set_parallelism, partial forgets, and permits that come back mid-pass.  *)
PermitsAccounted == Owned + available = effective + debt

(* The CLI ceiling: however set_parallelism, the debt and late permits     *)
(* interleave, no more than --parallel team turns ever own a permit.       *)
OwnedWithinConfigured == Owned <= Parallel

(* No lost wakeup: when the scheduler sleeps without a token and nobody is *)
(* left to nudge it, there is nothing to dispatch and nothing to settle.   *)
(* The permit is dropped before the last nudge for exactly this.           *)
NoLostWakeup ==
  sched = "waiting" /\ ~token /\ nudging = 0 /\ dropping = 0 /\ InFlight = {}
    => ~finishing /\ ~WouldDispatch

(* The comment of would_dispatch: with no turn in flight at least one      *)
(* permit exists, once the last ended turn has dropped its own.  The       *)
(* watchdog ignores permits because of it.                                 *)
PermitWhenQuiet ==
  InFlight = {} /\ dropping = 0 => available > debt

(* ADR 0006: a run that takes a termination path ends. *)
TerminationReturns == finishing ~> sched = "returned"

(* ADR 0015: a run that is stuck with work left, nothing running and       *)
(* nothing to dispatch, gets an orchestrator turn.                         *)
Stalled == Quiescent /\ ~WouldDispatch

StallReachesOrchestrator ==
  Stalled ~> (turn[Orchestrator] # "none" \/ finishing)

(* Nothing that happens escapes the orchestrator: an event that lands      *)
(* while its turn is in flight is in a later assembled view.               *)
OrchestratorHears == unheard ~> (~unheard \/ finishing)

----------------------------------------------------------------------------
(* What the documents say and the code does not do. *)

(* plan_dispatches: the debt is settled as permits return, so no turn is    *)
(* dispatched beyond the effective parallelism.                            *)
Dispatches(a) == turn[a] = "none" /\ turn'[a] = "planned"
DispatchWithinEffective ==
  [][(\E a \in Agent : Dispatches(a)) => Owned' <= effective]_vars

(* ADR 0006: the safety caps force-terminate the run. *)
CapForcesTermination == finishing ~> sched = "returned"
=============================================================================
