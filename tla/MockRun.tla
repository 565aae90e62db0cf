------------------------------- MODULE MockRun -------------------------------
(* A run driven by the built-in behavior arc (openteam-mock/src/arc.rs): the *)
(* turns the scheduler starts, what the arc reads off the prompt it is given *)
(* (parse.rs), and what the harness makes of the calls it answers with.      *)
(*                                                                           *)
(* A turn is planned (dispatched), assembled (the prompt is cut from the     *)
(* world), acted (the batch is applied, by then on another world) and ended. *)
(* The arc is a function of the prompt and of seeded dice, so its answer is  *)
(* chosen at the assembly, among all the answers some dice give.  The turns  *)
(* of a pass run at once, or under serial dispatch, the --mock mode, one     *)
(* after the other.  The arc never sleeps, parks or cancels; the budgets of  *)
(* the prompt are a module of their own, and there is a permit for everyone. *)
EXTENDS Board, Sequences, FiniteSets

CONSTANTS
  Orchestrator,
  Meta,        \* the meta-agents
  Crew,        \* the runs tried: who takes part, the task budget T, the mode
  MaxWork,     \* the longest work quota, MAX_WORK
  Threshold    \* META_CADENCE_THRESHOLD

ASSUME MockRunConstants ==
  /\ Orchestrator \notin Agent /\ Meta \cap (Agent \cup {Orchestrator}) = {}
  /\ IsFiniteSet(Task) /\ Task = 1 .. Cardinality(Task)
  /\ Crew \subseteq [agents : (SUBSET Agent) \ {{}}, metas : SUBSET Meta,
                    budget : Task, serial : BOOLEAN]
  /\ MaxWork \in Nat \ {0} /\ Threshold \in Nat \ {0}

Actor == {Orchestrator} \cup Agent \cup Meta

VARIABLES
  crew,        \* the run's member of Crew
  turn,        \* Actor -> the stage of its turn, or the answer to be applied
  fresh,       \* who has events past its watermark that its dispatch looks at
  mail,        \* who has undelivered messages
  unobserved,  \* Meta -> events by others since its last turn, up to Threshold
  window,      \* Agent -> work actions in its recent activity
  directives,  \* the judgment directives, in order
  mechanical,  \* the metas that issued set_parallelism
  specialized, \* the agents that are no longer generalists
  finished

mockVars == <<crew, turn, fresh, mail, unobserved, window, directives,
              mechanical, specialized, finished>>
vars == <<boardVars, mockVars>>

Participants == {Orchestrator} \cup crew.agents \cup crew.metas

Rest == [do |-> "rest"]
Planned == [do |-> "planned"]
Yield == [do |-> "yield"]
Finishing == [do |-> "finishing"]

Init ==
  /\ BoardInit
  /\ crew \in Crew
  /\ turn = [x \in Actor |-> Rest]
  /\ fresh = {Orchestrator} /\ mail = {}
  /\ unobserved = [m \in Meta |-> 1]
  /\ window = [a \in Agent |-> 0]
  /\ directives = <<>> /\ mechanical = {} /\ specialized = {}
  /\ finished = FALSE

----------------------------------------------------------------------------
(* append_event, as the dispatch conditions see it: n events by src, among  *)
(* them one on the work to be had, or one that wakes the metas.             *)
Lesser(m, n) == IF m < n THEN m ELSE n

Heard(src, work) ==
  {x \in {Orchestrator} : src # Orchestrator} \cup {a \in crew.agents : work}

Counted(src, n, priority) ==
  [m \in Meta |-> IF m = src \/ m \notin crew.metas THEN unobserved[m]
                  ELSE IF priority THEN Threshold
                  ELSE Lesser(Threshold, unobserved[m] + n)]

Append1(src, n, work) ==
  /\ fresh' = fresh \cup Heard(src, work)
  /\ unobserved' = Counted(src, n, FALSE)

----------------------------------------------------------------------------
(* What the prompts show. *)

OnBoard == {t \in Task : status[t] # "absent"}

(* Mutant: a claimed task passes for a terminal one. *)
NoneOpen == \A t \in OnBoard : status[t] # "Open"

AllTerminal == \A t \in OnBoard : ~NonTerminal(t)

VisibleOpen(a) == {t \in Task : status[t] = "Open" /\ Eligible(a, t)}
Lowest(S) == CHOOSE t \in S : \A u \in S : t <= u

(* The team of the staged tasks: batch one formed it, or there is none. *)
DominantTeam == tag[1]

Claimants == {a \in Agent : HasClaim(a)}
ClaimedTask(a) == CHOOSE t \in Task : Claims(a, t)

PendingAt == {i \in DOMAIN directives : directives[i].state = "pending"}
JudgmentUsed(m) == \E i \in DOMAIN directives : directives[i].from = m
MechanicalUsed(m) == m \in mechanical

Generalists == {a \in crew.agents \ specialized : ~HasClaim(a)}

----------------------------------------------------------------------------
(* The arc: every answer some dice give to a prompt cut from this world.    *)

(* Mutant: the second batch forgets what the first one staged. *)
DecomposeWholeBudget(count) ==
  IF count = 0
    THEN {[do |-> "decompose", batch |-> n, team |-> g] :
            n \in 1 .. crew.budget, g \in Team \cup {NoTeam}}
    ELSE {[do |-> "decompose", batch |-> crew.budget, team |-> DominantTeam]}

(* One batch of any size up to the budget on an empty board, perhaps under  *)
(* a team of the whole pool; then the rest, under the same team.            *)
DecomposePlans(count) ==
  IF count = 0
    THEN {[do |-> "decompose", batch |-> n, team |-> g] :
            n \in 1 .. crew.budget, g \in Team \cup {NoTeam}}
    ELSE {[do |-> "decompose", batch |-> crew.budget - count, team |-> DominantTeam]}

ResolvePlans ==
  {[do |-> d, directive |-> Lowest(PendingAt)] : d \in {"act", "decline"}}

SteerPlans ==
  {[do |-> "post", to |-> {a}] : a \in Claimants}
    \cup {[do |-> "post", to |-> crew.agents]}

(* The report lists the Done tasks; what it says is left out. *)
FinishPlan == [do |-> "finish"]

OrchestratorPlans ==
  LET count == Cardinality(OnBoard)
  IN IF count < crew.budget THEN DecomposePlans(count)
     ELSE IF PendingAt # {} THEN ResolvePlans
     ELSE IF AllTerminal THEN {FinishPlan}
     ELSE SteerPlans \cup {Yield}

(* The quota of an agent for a task is some number up to MaxWork. *)
WorkPlans(a) ==
  LET t == ClaimedTask(a)
      peers == IF tag[t] = NoTeam THEN {Orchestrator} ELSE members[tag[t]] \ {a}
  IN {[do |-> "write"], [do |-> "search"], [do |-> "post", to |-> peers]}

TeamPlans(a) ==
  IF HasClaim(a)
    THEN {p \in {[do |-> "complete"]} : window[a] > 0}
           \cup {p \in WorkPlans(a) : window[a] < MaxWork}
    ELSE IF VisibleOpen(a) # {}
      THEN {[do |-> "claim", task |-> Lowest(VisibleOpen(a))]}
      ELSE {Yield}

JudgmentPlans ==
  IF Generalists # {}
    THEN {[do |-> "propose", kind |-> "respecialize", target |-> a] : a \in Generalists}
    ELSE {[do |-> "propose", kind |-> "reallocate", target |-> t] :
            t \in {u \in Task : status[u] = "Claimed"}}

MetaPlans(m) ==
  IF ~JudgmentUsed(m) /\ JudgmentPlans # {} THEN JudgmentPlans
  ELSE IF ~MechanicalUsed(m) THEN {[do |-> "set_parallelism"]}
  ELSE {Yield}

ArcPlans(x) == IF x = Orchestrator THEN OrchestratorPlans
               ELSE IF x \in Agent THEN TeamPlans(x) ELSE MetaPlans(x)

----------------------------------------------------------------------------
(* The scheduler. *)

(* would_dispatch, and the conditions of plan_dispatches. *)
Wants(x) ==
  \/ (x = Orchestrator /\ (x \in mail \/ x \in fresh))
  \/ x \in Meta /\ unobserved[x] = Threshold
  \/ x \in Agent /\ (HasClaim(x) \/ x \in mail
                       \/ (VisibleOpen(x) # {} /\ x \in fresh))

Running == {x \in Actor : turn[x] # Rest}

(* One pass plans everyone who wants a turn; a serial pass waits for the    *)
(* turns of the last one.                                                   *)
Dispatch ==
  LET planned == {x \in Participants \ Running : Wants(x)}
  IN /\ ~finished /\ planned # {} /\ (crew.serial => Running = {})
     /\ turn' = [x \in Actor |-> IF x \in planned THEN Planned ELSE turn[x]]
     /\ unobserved' = [m \in Meta |-> IF m \in planned THEN 0 ELSE unobserved[m]]
     /\ UNCHANGED <<boardVars, crew, fresh, mail, window, directives, mechanical,
                    specialized, finished>>

(* A serial pass runs one turn at a time: the orchestrator, the metas, then *)
(* the agents, here in any order.                                           *)
Ahead(x) == IF x = Orchestrator THEN {}
            ELSE IF x \in Meta THEN {Orchestrator} ELSE {Orchestrator} \cup Meta
Serially(x) == \A y \in Actor : turn[y] = Rest \/ (turn[y] = Planned /\ y \notin Ahead(x))

(* The mailbox is drained, which is an event, and the watermark is set. *)
Assemble(x) ==
  /\ ~finished /\ turn[x] = Planned
  /\ crew.serial => Serially(x)
  /\ \E plan \in ArcPlans(x) : turn' = [turn EXCEPT ![x] = plan]
  /\ mail' = mail \ {x}
  /\ fresh' = (fresh \cup (IF x \in mail THEN Heard(x, FALSE) ELSE {})) \ {x}
  /\ unobserved' = IF x \in mail THEN Counted(x, 1, FALSE) ELSE unobserved
  /\ UNCHANGED <<boardVars, crew, window, directives, mechanical, specialized, finished>>

(* Mutant: the watermark is taken when the turn ends. *)
EndTurnAtWatermark(x) ==
  /\ ~finished /\ turn[x] = Yield
  /\ turn' = [turn EXCEPT ![x] = Rest]
  /\ fresh' = (fresh \cup Heard(x, FALSE)) \ {x}
  /\ unobserved' = Counted(x, 1, FALSE)
  /\ UNCHANGED <<boardVars, crew, mail, window, directives, mechanical,
                 specialized, finished>>

(* The turn ends with a turn_completed event. *)
EndTurn(x) ==
  /\ ~finished /\ turn[x] = Yield
  /\ turn' = [turn EXCEPT ![x] = Rest]
  /\ Append1(x, 1, FALSE)
  /\ UNCHANGED <<boardVars, crew, mail, window, directives, mechanical,
                 specialized, finished>>

EndRun ==
  /\ turn[Orchestrator] = Finishing
  /\ turn' = [turn EXCEPT ![Orchestrator] = Rest]
  /\ finished' = TRUE
  /\ UNCHANGED <<boardVars, crew, fresh, mail, unobserved, window, directives,
                 mechanical, specialized>>

----------------------------------------------------------------------------
(* The batch of an answer, applied in one locked step; the completion that  *)
(* follows it yields.                                                       *)
Answers(x, d) == ~finished /\ turn[x].do = d
Acted(x) == turn' = [turn EXCEPT ![x] = Yield]

Decompose ==
  LET plan == turn[Orchestrator]
      count == Cardinality(OnBoard)
      created == {t \in Task : count < t /\ t <= count + plan.batch}
      forms == count = 0 /\ plan.team # NoTeam
  IN /\ Answers(Orchestrator, "decompose") /\ Acted(Orchestrator)
     /\ phase' = [g \in Team |-> IF forms /\ g = plan.team THEN "live" ELSE phase[g]]
     /\ members' = [g \in Team |-> IF forms /\ g = plan.team THEN crew.agents ELSE members[g]]
     /\ status' = [t \in Task |-> IF t \in created THEN "Open" ELSE status[t]]
     /\ tag' = [t \in Task |-> IF t \in created THEN plan.team ELSE tag[t]]
     /\ Append1(Orchestrator, plan.batch + (IF forms THEN 1 ELSE 0), TRUE)
     /\ UNCHANGED <<claimant, crew, mail, window, directives, mechanical,
                    specialized, finished>>

(* An action with a cite: it succeeds and fulfils the directive, or it is   *)
(* refused and the directive stays pending.                                 *)
Fulfil(i) ==
  /\ directives' = [directives EXCEPT ![i].state = "fulfilled"]
  /\ Append1(Orchestrator, 2, TRUE)

Refused == UNCHANGED <<boardVars, directives, specialized, window, fresh, unobserved>>

ActOnRespecialize(i) ==
  LET a == directives[i].target
      legal == ~HasClaim(a) /\ turn[a] = Rest
  IN \/ /\ legal /\ Fulfil(i)
        /\ specialized' = specialized \cup {a}
        /\ window' = [window EXCEPT ![a] = 0]
        /\ UNCHANGED boardVars
     \/ ~legal /\ Refused

ActOnReallocate(i) ==
  LET t == directives[i].target
  IN \/ Unassign(t) /\ Fulfil(i) /\ UNCHANGED <<specialized, window>>
     \/ status[t] # "Claimed" /\ Refused

Act ==
  LET i == turn[Orchestrator].directive
  IN /\ Answers(Orchestrator, "act") /\ Acted(Orchestrator)
     /\ IF directives[i].kind = "respecialize" THEN ActOnRespecialize(i)
                                               ELSE ActOnReallocate(i)
     /\ UNCHANGED <<crew, mail, mechanical, finished>>

Decline ==
  LET i == turn[Orchestrator].directive
  IN /\ Answers(Orchestrator, "decline") /\ Acted(Orchestrator)
     /\ directives' = [directives EXCEPT ![i].state = "declined"]
     /\ unobserved' = Counted(Orchestrator, 1, TRUE)
     /\ UNCHANGED <<boardVars, crew, fresh, mail, window, mechanical,
                    specialized, finished>>

(* A successful finish_run ends the turn at once. *)
FinishRun ==
  /\ Answers(Orchestrator, "finish")
  /\ turn' = [turn EXCEPT ![Orchestrator] =
                IF FinishBlockers = {} THEN Finishing ELSE Yield]
  /\ UNCHANGED <<boardVars, crew, fresh, mail, unobserved, window, directives,
                 mechanical, specialized, finished>>

ClaimTask(a) ==
  LET t == turn[a].task
  IN /\ Answers(a, "claim") /\ Acted(a)
     /\ \/ Claim(a, t) /\ window' = [window EXCEPT ![a] = 0] /\ Append1(a, 1, TRUE)
        \/ /\ status[t] # "Open"
           /\ UNCHANGED <<boardVars, window, fresh, unobserved>>
     /\ UNCHANGED <<crew, mail, directives, mechanical, specialized, finished>>

CompleteTask(a) ==
  /\ Answers(a, "complete") /\ Acted(a)
  /\ \/ (\E t \in Task : Complete(a, t)) /\ Append1(a, 1, TRUE)
     \/ ~HasClaim(a) /\ UNCHANGED <<boardVars, fresh, unobserved>>
  /\ UNCHANGED <<crew, mail, window, directives, mechanical, specialized, finished>>

(* A note, a search or a message; the window counts all three. *)
Worked(x) == window' = [a \in Agent |-> IF a = x THEN window[a] + 1 ELSE window[a]]

WriteKnowledge(a) ==
  /\ Answers(a, "write") /\ Acted(a) /\ Worked(a) /\ Append1(a, 1, FALSE)
  /\ UNCHANGED <<boardVars, crew, mail, directives, mechanical, specialized, finished>>

SearchKnowledge(a) ==
  /\ Answers(a, "search") /\ Acted(a) /\ Worked(a)
  /\ UNCHANGED <<boardVars, crew, fresh, mail, unobserved, directives, mechanical,
                 specialized, finished>>

PostMessage(x) ==
  /\ Answers(x, "post") /\ Acted(x) /\ Worked(x) /\ Append1(x, 1, FALSE)
  /\ mail' = mail \cup turn[x].to
  /\ UNCHANGED <<boardVars, crew, directives, mechanical, specialized, finished>>

Propose(m) ==
  /\ Answers(m, "propose") /\ Acted(m) /\ Append1(m, 1, FALSE)
  /\ directives' = Append(directives, [kind |-> turn[m].kind, target |-> turn[m].target,
                                       from |-> m, state |-> "pending"])
  /\ UNCHANGED <<boardVars, crew, mail, window, mechanical, specialized, finished>>

(* A directive applied as it is issued; the cap itself is Scheduler's. *)
SetParallelism(m) ==
  /\ Answers(m, "set_parallelism") /\ Acted(m) /\ Append1(m, 2, FALSE)
  /\ mechanical' = mechanical \cup {m}
  /\ UNCHANGED <<boardVars, crew, mail, window, directives, specialized, finished>>

----------------------------------------------------------------------------
OrchestratorActs == Decompose \/ Act \/ Decline \/ FinishRun \/ EndRun
AgentActs(a) ==
  ClaimTask(a) \/ CompleteTask(a) \/ WriteKnowledge(a) \/ SearchKnowledge(a)
MetaActs(m) == Propose(m) \/ SetParallelism(m)

Step(x) ==
  \/ Assemble(x) \/ EndTurn(x)
  \/ x = Orchestrator /\ OrchestratorActs
  \/ x \in Agent /\ AgentActs(x)
  \/ x \in Meta /\ MetaActs(x)
  \/ x \notin Meta /\ PostMessage(x)

Next == Dispatch \/ \E x \in Actor : Step(x)

(* The reactor is nudged after every turn, and a turn never waits for       *)
(* another but for the turns ahead of it in a serial pass.                  *)
Spec == /\ Init /\ [][Next]_vars
        /\ WF_vars(Dispatch) /\ \A x \in Actor : WF_vars(Step(x))

----------------------------------------------------------------------------
TypeOK ==
  /\ BoardTypeOK /\ crew \in Crew
  /\ fresh \subseteq {Orchestrator} \cup Agent
  /\ mail \subseteq {Orchestrator} \cup Agent
  /\ unobserved \in [Meta -> 0 .. Threshold]
  /\ window \in [Agent -> Nat]
  /\ mechanical \subseteq Meta /\ specialized \subseteq Agent /\ finished \in BOOLEAN

(* The bounds the arc keeps though all it knows of the run is its prompt    *)
(* (ADR 0020, 0021): however its turns overlap, never a task beyond the     *)
(* budget, never a second judgment directive by a meta-agent, and no more   *)
(* work on one claim than the longest quota.                                *)
ArcBounds ==
  /\ TypeOK
  /\ \A t \in OnBoard : t <= crew.budget
  /\ \A i, j \in DOMAIN directives : directives[i].from = directives[j].from => i = j
  /\ \A a \in Agent : window[a] <= MaxWork

BudgetDone == \A t \in Task : t <= crew.budget => status[t] = "Done"

(* ADR 0021: finish_run never trips the blocker refusal, though the board   *)
(* it was decided on is older than the one it is tried on; and the run it   *)
(* ends has its whole budget of tasks, all Done.                            *)
FinishNeverRefused ==
  turn[Orchestrator].do \in {"finish", "finishing"} \/ finished
    => BudgetDone

(* Every run gets its whole budget of tasks done, and then ends: only one   *)
(* in which a meta-agent proposed something may come to rest unfinished.    *)
(* The watchdog is no action here, so this is also ADR 0021's claim that    *)
(* its liveness backstop never fires on an arc run: Open work with nobody   *)
(* in a turn or wanting one would stay Open.                                *)
Converges == <>[](BudgetDone /\ (finished \/ directives # <<>>))

(* arc.rs:10-17: "Termination holds by construction ... no seed can produce *)
(* a non-terminating or schema-invalid run".                                *)
NoSeedHangs == <>finished
=============================================================================
