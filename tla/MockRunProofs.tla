---------------------------- MODULE MockRunProofs ----------------------------
(***************************************************************************)
(* Machine-checked proofs about MockRun, for any pool, metas, budgets,     *)
(* quota and cadence, in either mode: the bounds the arc keeps although    *)
(* its turns act on another world than their prompts showed, and that the  *)
(* finish it decides on is never refused.                                  *)
(***************************************************************************)
EXTENDS MockRun, FiniteSetTheorems, SequenceTheorems, Induction, TLAPS

(* What is ever proposed: a change of an agent, or of a task's claim.      *)
Directive ==
  [kind : {"respecialize"}, target : Agent, from : Meta,
   state : {"pending", "fulfilled", "declined"}]
  \cup
  [kind : {"reallocate"}, target : Task, from : Meta,
   state : {"pending", "fulfilled", "declined"}]

(* Tasks are staged in the order of their ids, up to the budget, and none  *)
(* is ever cancelled.                                                      *)
Staged ==
  /\ \E n \in 0 .. crew.budget : OnBoard = 1 .. n
  /\ \A t \in Task : status[t] # "Cancelled"

OneJudgment ==
  \A i, j \in DOMAIN directives : directives[i].from = directives[j].from => i = j

WithinQuota == \A a \in Agent : window[a] <= MaxWork

(* An answer decided on one world is still within its bounds on the world  *)
(* it will be applied to.                                                  *)
OrchestratorPlan(plan) ==
  \/ /\ plan.do = "decompose"
     /\ plan.batch \in Nat /\ plan.team \in Team \cup {NoTeam}
     /\ Cardinality(OnBoard) + plan.batch <= crew.budget
  \/ plan.do \in {"act", "decline"} /\ plan.directive \in DOMAIN directives
  \/ plan.do = "post" /\ plan.to \subseteq {Orchestrator} \cup Agent
  \/ plan.do \in {"finish", "finishing"} /\ BudgetDone

AgentPlan(a, plan) ==
  \/ plan.do = "complete"
  \/ plan.do = "claim" /\ plan.task \in Task
  \/ plan.do \in {"write", "search"} /\ window[a] < MaxWork
  \/ /\ plan.do = "post" /\ window[a] < MaxWork
     /\ plan.to \subseteq {Orchestrator} \cup Agent

MetaPlan(m, plan) ==
  \/ plan.do = "set_parallelism"
  \/ /\ plan.do = "propose" /\ ~JudgmentUsed(m)
     /\ \/ plan.kind = "respecialize" /\ plan.target \in Agent
        \/ plan.kind = "reallocate" /\ plan.target \in Task

PlanSound(x, plan) ==
  \/ plan.do \in {"rest", "planned", "yield"}
  \/ x = Orchestrator /\ OrchestratorPlan(plan)
  \/ x \in Agent /\ AgentPlan(x, plan)
  \/ x \in Meta /\ MetaPlan(x, plan)

TurnsSound ==
  /\ turn = [x \in Actor |-> turn[x]]
  /\ \A x \in Actor : PlanSound(x, turn[x])
  /\ finished => BudgetDone

MockInv ==
  /\ TypeOK /\ directives \in Seq(Directive) /\ Staged /\ OneJudgment
  /\ WithinQuota /\ TurnsSound

----------------------------------------------------------------------------
(* The crew and the staged part of the board.                              *)

LEMMA CrewShape ==
  ASSUME crew \in Crew
  PROVE  /\ crew.agents \subseteq Agent /\ crew.metas \subseteq Meta
         /\ crew.budget \in Task /\ crew.budget \in Nat
         /\ \A t \in Nat : 1 <= t /\ t <= crew.budget => t \in Task
<1>1. /\ crew.agents \subseteq Agent /\ crew.metas \subseteq Meta /\ crew.budget \in Task
  BY MockRunConstants DEF MockRunConstants
<1>2. Cardinality(Task) \in Nat /\ Task = 1 .. Cardinality(Task)
  BY MockRunConstants, FS_CardinalityType DEF MockRunConstants
<1> QED
  BY <1>1, <1>2

LEMMA Actors ==
  /\ \A x \in Actor : x = Orchestrator \/ x \in Agent \/ x \in Meta
  /\ Orchestrator \in Actor /\ Agent \subseteq Actor /\ Meta \subseteq Actor
  /\ Orchestrator \notin Agent /\ Orchestrator \notin Meta
  /\ \A m \in Meta : m \notin Agent /\ m # Orchestrator
BY MockRunConstants DEF MockRunConstants, Actor

LEMMA BoardCount ==
  ASSUME NEW n \in Nat, OnBoard = 1 .. n PROVE Cardinality(OnBoard) = n
BY FS_Interval

LEMMA LowestIn ==
  ASSUME NEW S, S \subseteq Nat, S # {} PROVE Lowest(S) \in S
<1>1. \E t \in S : \A u \in S : t <= u
  BY LeastNatural
<1> QED
  BY <1>1 DEF Lowest

LEMMA InitMockInv == Init => MockInv
<1> SUFFICES ASSUME Init PROVE MockInv
  OBVIOUS
<1>1. Threshold \in Nat \ {0} /\ MaxWork \in Nat \ {0}
  BY MockRunConstants DEF MockRunConstants
<1>2. TypeOK
  <2>1. BoardTypeOK
    <3>1. claimant \in [Task -> Agent \cup {NoAgent}] /\ tag \in [Task -> Team \cup {NoTeam}]
      BY Zenon DEF Init, BoardInit
    <3>2. /\ status \in [Task -> Status] /\ members \in [Team -> SUBSET Agent]
          /\ phase \in [Team -> {"absent", "live", "dissolved"}]
      BY Zenon DEF Init, BoardInit, Status
    <3> QED
      BY <3>1, <3>2 DEF BoardTypeOK
  <2>2. 1 \in 0 .. Threshold /\ 0 \in Nat
    BY <1>1
  <2>3. unobserved \in [Meta -> 0 .. Threshold] /\ window \in [Agent -> Nat]
    BY <2>2, Zenon DEF Init
  <2>4. /\ crew \in Crew /\ fresh \subseteq {Orchestrator} \cup Agent
        /\ mail \subseteq {Orchestrator} \cup Agent /\ mechanical \subseteq Meta
        /\ specialized \subseteq Agent /\ finished \in BOOLEAN
    BY DEF Init
  <2> QED
    BY <2>1, <2>3, <2>4 DEF TypeOK
<1>3. Staged
  <2>1. OnBoard = 1 .. 0 /\ 0 \in 0 .. crew.budget
    BY <1>2, CrewShape DEF Init, BoardInit, OnBoard, TypeOK
  <2>2. \A t \in Task : status[t] # "Cancelled"
    BY DEF Init, BoardInit
  <2> QED
    BY <2>1, <2>2 DEF Staged
<1>4. directives \in Seq(Directive) /\ OneJudgment
  BY DEF Init, OneJudgment
<1>5. WithinQuota
  <2>1. \A a \in Agent : window[a] = 0
    BY DEF Init
  <2>2. 0 <= MaxWork
    BY <1>1
  <2> QED
    BY <2>1, <2>2 DEF WithinQuota
<1>6. TurnsSound
  BY DEF Init, TurnsSound, PlanSound, Rest
<1> QED
  BY <1>2, <1>3, <1>4, <1>5, <1>6 DEF MockInv

----------------------------------------------------------------------------
(* What the steps have in common.                                          *)

(* The events of a step wake participants only, and fill no counter past   *)
(* the cadence.                                                            *)
LEMMA EventsHeard ==
  ASSUME TypeOK, NEW src, NEW n \in Nat, NEW flag \in BOOLEAN
  PROVE  /\ Heard(src, flag) \subseteq {Orchestrator} \cup Agent
         /\ Counted(src, n, flag) \in [Meta -> 0 .. Threshold]
<1>1. Heard(src, flag) \subseteq {Orchestrator} \cup Agent
  BY CrewShape DEF TypeOK, Heard
<1>2. Threshold \in Nat
  BY MockRunConstants DEF MockRunConstants
<1>3. \A k \in 0 .. Threshold : Lesser(Threshold, k + n) \in 0 .. Threshold
  BY <1>2 DEF Lesser
<1>4. \A m \in Meta : unobserved[m] \in 0 .. Threshold
  BY DEF TypeOK
<1>5. Counted(src, n, flag) \in [Meta -> 0 .. Threshold]
  BY <1>2, <1>3, <1>4 DEF Counted
<1> QED
  BY <1>1, <1>5

LEMMA Append1Heard ==
  ASSUME TypeOK, NEW src, NEW n \in Nat, NEW work \in BOOLEAN, Append1(src, n, work)
  PROVE  /\ fresh' \subseteq {Orchestrator} \cup Agent
         /\ unobserved' \in [Meta -> 0 .. Threshold]
BY EventsHeard DEF Append1, TypeOK

(* A step that moves a task on leaves the staged set as it is, and no task *)
(* that is Done is opened again.                                           *)
BoardKept ==
  /\ BoardTypeOK' /\ Staged' /\ OnBoard' = OnBoard /\ (BudgetDone => BudgetDone')

LEMMA BoardStill ==
  ASSUME MockInv, UNCHANGED <<boardVars, crew>> PROVE BoardKept
BY DEF MockInv, TypeOK, BoardTypeOK, BoardKept, Staged, OnBoard, BudgetDone, boardVars

LEMMA TaskMoves ==
  ASSUME MockInv, UNCHANGED <<crew, tag, phase, members>>, NEW t \in Task,
         status[t] \in {"Open", "Claimed"}, NEW s \in {"Open", "Claimed", "Done"},
         status' = [status EXCEPT ![t] = s],
         NEW c \in Agent \cup {NoAgent}, claimant' = [claimant EXCEPT ![t] = c]
  PROVE  BoardKept
<1>1. BoardTypeOK /\ Staged
  BY DEF MockInv, TypeOK
<1>2. BoardTypeOK'
  BY <1>1 DEF BoardTypeOK, Status
<1>3. \A u \in Task : status'[u] = IF u = t THEN s ELSE status[u]
  BY <1>1 DEF BoardTypeOK
<1>4. OnBoard' = OnBoard
  BY <1>3 DEF OnBoard
<1>5. Staged'
  BY <1>1, <1>3, <1>4 DEF Staged
<1>6. BudgetDone => BudgetDone'
  BY <1>3 DEF BudgetDone
<1> QED
  BY <1>2, <1>4, <1>5, <1>6 DEF BoardKept

(* What a step must leave alone for the answer of y to stay sound.         *)
Undisturbed(y) ==
  /\ crew' = crew /\ DOMAIN directives \subseteq DOMAIN directives'
  /\ y = Orchestrator => OnBoard' = OnBoard
  /\ BudgetDone => BudgetDone'
  /\ y \in Meta => (JudgmentUsed(y)' => JudgmentUsed(y))
  /\ y \in Agent => window'[y] \in {window[y], 0}

LEMMA PlanKept ==
  ASSUME NEW y \in Actor, NEW plan, PlanSound(y, plan), Undisturbed(y)
  PROVE  PlanSound(y, plan)'
<1> USE DEF Undisturbed
<1>1. CASE plan.do \in {"rest", "planned", "yield"}
  BY <1>1 DEF PlanSound
<1>2. CASE y = Orchestrator /\ OrchestratorPlan(plan)
  <2>1. OnBoard' = OnBoard /\ DOMAIN directives \subseteq DOMAIN directives' /\ crew' = crew
    BY <1>2
  <2>2. OrchestratorPlan(plan)'
    BY <1>2, <2>1 DEF OrchestratorPlan
  <2> QED
    BY <1>2, <2>2 DEF PlanSound
<1>3. CASE y \in Agent /\ AgentPlan(y, plan)
  <2>1. 0 < MaxWork
    BY MockRunConstants DEF MockRunConstants
  <2>2. AgentPlan(y, plan)'
    BY <1>3, <2>1 DEF AgentPlan
  <2> QED
    BY <1>3, <2>2 DEF PlanSound
<1>4. CASE y \in Meta /\ MetaPlan(y, plan)
  <2>1. MetaPlan(y, plan)'
    BY <1>4 DEF MetaPlan
  <2> QED
    BY <1>4, <2>1 DEF PlanSound
<1> QED
  BY <1>1, <1>2, <1>3, <1>4 DEF PlanSound

LEMMA TurnsKept ==
  ASSUME MockInv, NEW x \in Actor, NEW p, turn' = [turn EXCEPT ![x] = p],
         PlanSound(x, p)', \A y \in Actor : y # x => Undisturbed(y),
         finished' => BudgetDone'
  PROVE  TurnsSound'
<1>1. turn = [y \in Actor |-> turn[y]] /\ \A y \in Actor : PlanSound(y, turn[y])
  BY DEF MockInv, TurnsSound
<1>2. /\ turn' = [y \in Actor |-> turn'[y]] /\ turn'[x] = p
      /\ \A y \in Actor : y # x => turn'[y] = turn[y]
  BY <1>1
<1>3. \A y \in Actor : y # x => PlanSound(y, turn[y])'
  <2>1. ASSUME NEW y \in Actor, y # x, NEW plan, plan = turn[y], plan = turn'[y]
        PROVE  PlanSound(y, turn[y])'
    <3>1. PlanSound(y, plan)'
      BY <1>1, <2>1, PlanKept
    <3> QED
      BY <2>1, <3>1
  <2> QED
    BY <1>2, <2>1
<1>4. PlanSound(x, turn[x])'
  BY <1>2
<1> QED
  BY <1>2, <1>3, <1>4 DEF TurnsSound

(* The stages that no answer is pending in.                                *)
LEMMA StageSound ==
  ASSUME NEW x, NEW p \in {Rest, Planned, Yield} PROVE PlanSound(x, p)'
BY DEF PlanSound, Rest, Planned, Yield

(* What a step of x must keep besides its turn: the board, who hears of it, *)
(* the directives and the activity windows.                                *)
WorldKept(x) ==
  /\ BoardTypeOK' /\ Staged' /\ crew' = crew
  /\ x # Orchestrator => OnBoard' = OnBoard
  /\ BudgetDone => BudgetDone'
  /\ mail' \subseteq {Orchestrator} \cup Agent
  /\ fresh' \subseteq {Orchestrator} \cup Agent
  /\ unobserved' \in [Meta -> 0 .. Threshold]
  /\ mechanical' \subseteq Meta /\ specialized' \subseteq Agent
  /\ finished' \in BOOLEAN

DirectivesKept(x) ==
  /\ directives' \in Seq(Directive) /\ OneJudgment'
  /\ DOMAIN directives \subseteq DOMAIN directives'
  /\ \A m \in Meta : m # x /\ JudgmentUsed(m)' => JudgmentUsed(m)

WindowKept(x) ==
  /\ window' \in [Agent -> Nat] /\ WithinQuota'
  /\ \A a \in Agent : a # x => window'[a] \in {window[a], 0}

LEMMA StepKept ==
  ASSUME MockInv, NEW x \in Actor, NEW p, turn' = [turn EXCEPT ![x] = p],
         PlanSound(x, p)', WorldKept(x), DirectivesKept(x), WindowKept(x),
         finished' => BudgetDone'
  PROVE  MockInv'
<1>1. \A y \in Actor : y # x => Undisturbed(y)
  BY DEF WorldKept, DirectivesKept, WindowKept, Undisturbed
<1>2. TurnsSound'
  BY <1>1, TurnsKept
<1>3. TypeOK'
  BY DEF MockInv, TypeOK, WorldKept, WindowKept
<1> QED
  BY <1>2, <1>3 DEF MockInv, WorldKept, DirectivesKept, WindowKept

LEMMA DirectivesStill ==
  ASSUME MockInv, NEW x, UNCHANGED directives PROVE DirectivesKept(x)
BY DEF MockInv, DirectivesKept, OneJudgment, JudgmentUsed

LEMMA WindowStill ==
  ASSUME MockInv, NEW x, UNCHANGED window PROVE WindowKept(x)
BY DEF MockInv, TypeOK, WindowKept, WithinQuota

----------------------------------------------------------------------------
(* The scheduler's steps.                                                  *)

LEMMA DispatchKept == ASSUME MockInv, Dispatch PROVE MockInv'
<1> DEFINE planned == {x \in Participants \ Running : Wants(x)}
<1>1. /\ turn' = [x \in Actor |-> IF x \in planned THEN Planned ELSE turn[x]]
      /\ unobserved' = [m \in Meta |-> IF m \in planned THEN 0 ELSE unobserved[m]]
      /\ UNCHANGED <<boardVars, crew, fresh, mail, window, directives, mechanical,
                     specialized, finished>>
  BY DEF Dispatch
<1> HIDE DEF planned
<1>2. BoardKept
  BY <1>1, BoardStill
<1>3. unobserved' \in [Meta -> 0 .. Threshold]
  <2>1. 0 \in 0 .. Threshold /\ \A m \in Meta : unobserved[m] \in 0 .. Threshold
    BY MockRunConstants DEF MockRunConstants, MockInv, TypeOK
  <2> QED
    BY <1>1, <2>1
<1>4. TypeOK'
  BY <1>1, <1>2, <1>3 DEF MockInv, TypeOK, BoardKept
<1>5. directives' \in Seq(Directive) /\ OneJudgment' /\ WithinQuota'
  BY <1>1 DEF MockInv, OneJudgment, WithinQuota
<1>6. \A y \in Actor : Undisturbed(y)
  BY <1>1, <1>2 DEF Undisturbed, BoardKept, JudgmentUsed
<1>7. \A y \in Actor : turn'[y] = Planned \/ turn'[y] = turn[y]
  BY <1>1
<1>8. \A y \in Actor : PlanSound(y, turn[y])'
  <2> SUFFICES ASSUME NEW y \in Actor PROVE PlanSound(y, turn[y])'
    OBVIOUS
  <2>1. CASE turn'[y] = Planned
    BY <2>1 DEF PlanSound, Planned
  <2>2. ASSUME NEW plan, plan = turn[y], plan = turn'[y] PROVE PlanSound(y, turn[y])'
    <3>1. PlanSound(y, plan)
      BY <2>2 DEF MockInv, TurnsSound
    <3>2. PlanSound(y, plan)'
      BY <1>6, <3>1, PlanKept
    <3> QED
      BY <2>2, <3>2
  <2> QED
    BY <1>7, <2>1, <2>2
<1>9. TurnsSound'
  BY <1>1, <1>2, <1>8 DEF MockInv, TurnsSound, BoardKept
<1> QED
  BY <1>2, <1>4, <1>5, <1>9 DEF MockInv, BoardKept

(* Every answer the arc may give is within its bounds on the world that    *)
(* the prompt shows.                                                       *)
LEMMA OrchestratorPlansSound ==
  ASSUME MockInv, NEW plan \in OrchestratorPlans PROVE PlanSound(Orchestrator, plan)
<1> DEFINE count == Cardinality(OnBoard)
<1>1. crew.budget \in Nat /\ \A t \in Nat : 1 <= t /\ t <= crew.budget => t \in Task
  BY CrewShape DEF MockInv, TypeOK
<1>2. PICK n \in 0 .. crew.budget : OnBoard = 1 .. n
  BY DEF MockInv, Staged
<1>3. count = n
  BY <1>1, <1>2, BoardCount
<1> HIDE DEF count
<1>4. CASE count < crew.budget
  <2>1. plan \in DecomposePlans(count)
    BY <1>4 DEF OrchestratorPlans, count
  <2>2. /\ plan.do = "decompose"
        /\ count = 0 => plan.batch \in 1 .. crew.budget /\ plan.team \in Team \cup {NoTeam}
        /\ count # 0 => plan.batch = crew.budget - count /\ plan.team = tag[1]
    BY <2>1 DEF DecomposePlans, DominantTeam
  <2>3. count # 0 => tag[1] \in Team \cup {NoTeam}
    BY <1>1, <1>2, <1>3, <1>4 DEF MockInv, TypeOK, BoardTypeOK
  <2>4. plan.batch \in Nat /\ count + plan.batch <= crew.budget
    BY <1>1, <1>2, <1>3, <1>4, <2>2
  <2> QED
    BY <2>2, <2>3, <2>4 DEF PlanSound, OrchestratorPlan, count
<1>5. CASE ~(count < crew.budget) /\ PendingAt # {}
  <2>1. plan \in ResolvePlans
    BY <1>5 DEF OrchestratorPlans, count
  <2>2. PendingAt \subseteq DOMAIN directives /\ DOMAIN directives \subseteq Nat
    BY DEF PendingAt, MockInv
  <2>3. Lowest(PendingAt) \in DOMAIN directives
    BY <1>5, <2>2, LowestIn
  <2>4. plan.do \in {"act", "decline"} /\ plan.directive = Lowest(PendingAt)
    BY <2>1 DEF ResolvePlans
  <2> QED
    BY <2>3, <2>4 DEF PlanSound, OrchestratorPlan
<1>6. CASE ~(count < crew.budget) /\ PendingAt = {} /\ AllTerminal
  <2>1. plan = FinishPlan
    BY <1>6 DEF OrchestratorPlans, count
  <2>2. n = crew.budget
    BY <1>1, <1>2, <1>3, <1>6
  <2>3. ASSUME NEW t \in Task, t <= crew.budget PROVE status[t] = "Done"
    <3>1. t \in OnBoard
      BY <1>2, <2>2, <2>3, MockRunConstants, FS_CardinalityType DEF MockRunConstants
    <3>2. status[t] \in {"Done", "Cancelled"}
      BY <1>6, <3>1 DEF AllTerminal, NonTerminal, OnBoard, MockInv, TypeOK, BoardTypeOK, Status
    <3> QED
      BY <3>2 DEF MockInv, Staged
  <2>4. BudgetDone
    BY <2>3 DEF BudgetDone
  <2> QED
    BY <2>1, <2>4 DEF PlanSound, OrchestratorPlan, FinishPlan
<1>7. CASE ~(count < crew.budget) /\ PendingAt = {} /\ ~AllTerminal
  <2>1. plan \in SteerPlans \cup {Yield}
    BY <1>7 DEF OrchestratorPlans, count
  <2>2. crew.agents \subseteq Agent /\ Claimants \subseteq Agent
    BY CrewShape DEF MockInv, TypeOK, Claimants
  <2> QED
    BY <2>1, <2>2 DEF PlanSound, OrchestratorPlan, SteerPlans, Yield
<1> QED
  BY <1>4, <1>5, <1>6, <1>7

LEMMA TeamPlansSound ==
  ASSUME MockInv, NEW a \in Agent, NEW plan \in TeamPlans(a) PROVE PlanSound(a, plan)
<1>1. CASE HasClaim(a)
  <2>1. ClaimedTask(a) \in Task
    BY <1>1 DEF ClaimedTask, HasClaim
  <2>2. ASSUME NEW t \in Task, plan \in WorkPlans(a), t = ClaimedTask(a)
        PROVE  /\ plan.do \in {"write", "search"} \/ plan.do = "post"
               /\ plan.do = "post" => plan.to \subseteq {Orchestrator} \cup Agent
    <3>1. tag[t] = NoTeam \/ members[tag[t]] \subseteq Agent
      BY DEF MockInv, TypeOK, BoardTypeOK
    <3> QED
      BY <2>2, <3>1 DEF WorkPlans
  <2>3. plan.do = "complete" \/ (plan \in WorkPlans(a) /\ window[a] < MaxWork)
    BY <1>1 DEF TeamPlans
  <2> QED
    BY <2>1, <2>2, <2>3 DEF PlanSound, AgentPlan
<1>2. CASE ~HasClaim(a) /\ VisibleOpen(a) # {}
  <2>1. VisibleOpen(a) \subseteq Task /\ Task \subseteq Nat
    BY BoardAssumption DEF VisibleOpen, BoardAssumption
  <2>2. Lowest(VisibleOpen(a)) \in Task
    BY <1>2, <2>1, LowestIn
  <2>3. plan.do = "claim" /\ plan.task = Lowest(VisibleOpen(a))
    BY <1>2 DEF TeamPlans
  <2> QED
    BY <2>2, <2>3 DEF PlanSound, AgentPlan
<1>3. CASE ~HasClaim(a) /\ VisibleOpen(a) = {}
  BY <1>3 DEF TeamPlans, PlanSound, Yield
<1> QED
  BY <1>1, <1>2, <1>3

LEMMA MetaPlansSound ==
  ASSUME MockInv, NEW m \in Meta, NEW plan \in MetaPlans(m) PROVE PlanSound(m, plan)
<1>1. CASE ~JudgmentUsed(m) /\ plan \in JudgmentPlans
  <2>1. Generalists \subseteq Agent
    BY CrewShape DEF MockInv, TypeOK, Generalists
  <2>2. /\ plan.do = "propose"
        /\ \/ plan.kind = "respecialize" /\ plan.target \in Agent
           \/ plan.kind = "reallocate" /\ plan.target \in Task
    BY <1>1, <2>1 DEF JudgmentPlans
  <2> QED
    BY <1>1, <2>2 DEF PlanSound, MetaPlan
<1>2. CASE plan \in {[do |-> "set_parallelism"], Yield}
  BY <1>2 DEF PlanSound, MetaPlan, Yield
<1> QED
  BY <1>1, <1>2 DEF MetaPlans

LEMMA ArcPlansSound ==
  ASSUME MockInv, NEW x \in Actor, NEW plan \in ArcPlans(x) PROVE PlanSound(x, plan)
BY Actors, OrchestratorPlansSound, TeamPlansSound, MetaPlansSound DEF ArcPlans

LEMMA AssembleKept ==
  ASSUME MockInv, NEW x \in Actor, Assemble(x) PROVE MockInv'
<1>1. PICK plan \in ArcPlans(x) : turn' = [turn EXCEPT ![x] = plan]
  BY DEF Assemble
<1>2. /\ mail' = mail \ {x}
      /\ fresh' = (fresh \cup (IF x \in mail THEN Heard(x, FALSE) ELSE {})) \ {x}
      /\ unobserved' = IF x \in mail THEN Counted(x, 1, FALSE) ELSE unobserved
      /\ UNCHANGED <<boardVars, crew, window, directives, mechanical, specialized, finished>>
  BY DEF Assemble
<1>3. PlanSound(x, plan)
  BY <1>1, ArcPlansSound
<1>4. BoardKept
  BY <1>2, BoardStill
<1>5. Heard(x, FALSE) \subseteq {Orchestrator} \cup Agent
      /\ Counted(x, 1, FALSE) \in [Meta -> 0 .. Threshold]
  BY EventsHeard DEF MockInv
<1>6. WorldKept(x)
  BY <1>2, <1>4, <1>5 DEF WorldKept, BoardKept, MockInv, TypeOK
<1>7. DirectivesKept(x) /\ WindowKept(x)
  BY <1>2, DirectivesStill, WindowStill
<1>8. Undisturbed(x)
  BY <1>2, <1>4 DEF Undisturbed, BoardKept, JudgmentUsed
<1>9. PlanSound(x, plan)'
  BY <1>3, <1>8, PlanKept
<1> QED
  BY <1>1, <1>2, <1>4, <1>6, <1>7, <1>9, StepKept DEF BoardKept, MockInv, TurnsSound

(* A step that leaves the board and the directives alone, and the window   *)
(* of everyone but x.                                                      *)
LEMMA QuietStepKept ==
  ASSUME MockInv, NEW x \in Actor, NEW p, turn' = [turn EXCEPT ![x] = p],
         PlanSound(x, p)', BoardKept, UNCHANGED <<crew, directives, finished>>,
         mail' \subseteq {Orchestrator} \cup Agent,
         fresh' \subseteq {Orchestrator} \cup Agent,
         unobserved' \in [Meta -> 0 .. Threshold],
         mechanical' \subseteq Meta, specialized' \subseteq Agent, WindowKept(x)
  PROVE  MockInv'
<1>1. WorldKept(x)
  BY DEF WorldKept, BoardKept, MockInv, TypeOK
<1>2. DirectivesKept(x)
  BY DirectivesStill
<1>3. finished' => BudgetDone'
  BY DEF MockInv, TurnsSound, BoardKept
<1> QED
  BY <1>1, <1>2, <1>3, StepKept

LEMMA EndTurnKept ==
  ASSUME MockInv, NEW x \in Actor, EndTurn(x) PROVE MockInv'
<1>1. /\ turn' = [turn EXCEPT ![x] = Rest] /\ Append1(x, 1, FALSE)
      /\ UNCHANGED <<boardVars, crew, mail, window, directives, mechanical,
                     specialized, finished>>
  BY DEF EndTurn
<1>2. BoardKept /\ WindowKept(x) /\ PlanSound(x, Rest)'
  BY <1>1, BoardStill, WindowStill, StageSound
<1>3. fresh' \subseteq {Orchestrator} \cup Agent /\ unobserved' \in [Meta -> 0 .. Threshold]
  BY <1>1, Append1Heard DEF MockInv
<1> QED
  BY <1>1, <1>2, <1>3, QuietStepKept DEF MockInv, TypeOK

LEMMA EndRunKept ==
  ASSUME MockInv, EndRun PROVE MockInv'
<1>1. /\ turn[Orchestrator] = Finishing /\ turn' = [turn EXCEPT ![Orchestrator] = Rest]
      /\ finished' = TRUE
      /\ UNCHANGED <<boardVars, crew, fresh, mail, unobserved, window, directives,
                     mechanical, specialized>>
  BY DEF EndRun
<1>2. BoardKept /\ WindowKept(Orchestrator) /\ DirectivesKept(Orchestrator)
      /\ PlanSound(Orchestrator, Rest)'
  BY <1>1, BoardStill, WindowStill, DirectivesStill, StageSound
<1>3. BudgetDone
  <2>1. PlanSound(Orchestrator, turn[Orchestrator]) /\ turn[Orchestrator].do = "finishing"
    BY <1>1, Actors DEF MockInv, TurnsSound, Finishing
  <2> QED
    BY <2>1, Actors DEF PlanSound, OrchestratorPlan
<1>4. WorldKept(Orchestrator)
  BY <1>1, <1>2 DEF WorldKept, BoardKept, MockInv, TypeOK
<1> QED
  BY <1>1, <1>2, <1>3, <1>4, StepKept, Actors DEF BoardKept

----------------------------------------------------------------------------
(* The batches.                                                            *)

LEMMA ActedStage == ASSUME NEW x, Acted(x) PROVE turn' = [turn EXCEPT ![x] = Yield]
BY DEF Acted

(* The answer being applied is a sound one.                                *)
LEMMA AnswerSound ==
  ASSUME MockInv, NEW x \in Actor PROVE PlanSound(x, turn[x])
BY DEF MockInv, TurnsSound

LEMMA DecomposeKept == ASSUME MockInv, Decompose PROVE MockInv'
<1> DEFINE plan == turn[Orchestrator]
           count == Cardinality(OnBoard)
           created == {t \in Task : count < t /\ t <= count + plan.batch}
           forms == count = 0 /\ plan.team # NoTeam
<1>1. /\ plan.do = "decompose" /\ turn' = [turn EXCEPT ![Orchestrator] = Yield]
      /\ phase' = [g \in Team |-> IF forms /\ g = plan.team THEN "live" ELSE phase[g]]
      /\ members' = [g \in Team |-> IF forms /\ g = plan.team THEN crew.agents ELSE members[g]]
      /\ status' = [t \in Task |-> IF t \in created THEN "Open" ELSE status[t]]
      /\ tag' = [t \in Task |-> IF t \in created THEN plan.team ELSE tag[t]]
      /\ Append1(Orchestrator, plan.batch + (IF forms THEN 1 ELSE 0), TRUE)
      /\ UNCHANGED <<claimant, crew, mail, window, directives, mechanical,
                    specialized, finished>>
  BY DEF Decompose, Answers, Acted
<1>2. /\ plan.batch \in Nat /\ plan.team \in Team \cup {NoTeam}
      /\ count + plan.batch <= crew.budget
  <2>1. PlanSound(Orchestrator, plan)
    BY Actors, AnswerSound
  <2> QED
    BY <1>1, <2>1, Actors DEF PlanSound, OrchestratorPlan
<1>3. PICK n \in 0 .. crew.budget : OnBoard = 1 .. n
  BY DEF MockInv, Staged
<1>4. /\ crew.agents \subseteq Agent /\ crew.budget \in Nat /\ Task \subseteq Nat
      /\ \A t \in Nat : 1 <= t /\ t <= crew.budget => t \in Task
  BY CrewShape, BoardAssumption DEF MockInv, TypeOK, BoardAssumption
<1>5. count = n
  BY <1>3, <1>4, BoardCount
<1> HIDE DEF plan, count, forms
<1>6. BoardTypeOK'
  <2>1. /\ claimant \in [Task -> Agent \cup {NoAgent}]
        /\ \A t \in Task : status[t] \in Status /\ tag[t] \in Team \cup {NoTeam}
        /\ \A g \in Team : /\ phase[g] \in {"absent", "live", "dissolved"}
                           /\ members[g] \in SUBSET Agent
    BY DEF MockInv, TypeOK, BoardTypeOK
  <2>2. status' \in [Task -> Status] /\ tag' \in [Task -> Team \cup {NoTeam}]
    BY <1>1, <1>2, <2>1 DEF Status
  <2>3. phase' \in [Team -> {"absent", "live", "dissolved"}] /\ members' \in [Team -> SUBSET Agent]
    BY <1>1, <1>4, <2>1
  <2> QED
    BY <1>1, <2>1, <2>2, <2>3 DEF BoardTypeOK
<1>7. \A t \in Task : status'[t] = IF count < t /\ t <= count + plan.batch
                                    THEN "Open" ELSE status[t]
  BY <1>1
<1>8. OnBoard' = 1 .. (n + plan.batch)
  <2>1. \A t \in Task : t \in OnBoard <=> 1 <= t /\ t <= n
    <3>1. n \in Nat /\ \A t \in Task : t \in Nat
      BY <1>4
    <3>2. \A t \in Nat : t \in 1 .. n <=> 1 <= t /\ t <= n
      BY <3>1
    <3> QED
      BY <1>3, <3>1, <3>2
  <2>2. \A t \in Task : t \in OnBoard' <=> 1 <= t /\ t <= n + plan.batch
    <3> SUFFICES ASSUME NEW t \in Task PROVE t \in OnBoard' <=> 1 <= t /\ t <= n + plan.batch
      OBVIOUS
    <3>1. t \in OnBoard' <=> (n < t /\ t <= n + plan.batch) \/ t \in OnBoard
      BY <1>5, <1>7 DEF OnBoard
    <3>2. t \in Nat /\ n \in Nat /\ plan.batch \in Nat
      BY <1>2, <1>3, <1>4
    <3> QED
      BY <2>1, <3>1, <3>2
  <2>3. \A t \in 1 .. (n + plan.batch) : t \in Task
    BY <1>2, <1>3, <1>4, <1>5
  <2>4. OnBoard' \subseteq Task /\ Task \subseteq Nat /\ n + plan.batch \in Nat
    BY <1>2, <1>3, <1>4 DEF OnBoard
  <2>5. \A t \in OnBoard' : t \in 1 .. (n + plan.batch)
    BY <2>2, <2>4
  <2>6. \A t \in 1 .. (n + plan.batch) : t \in OnBoard'
    BY <2>2, <2>3, <2>4
  <2> QED
    BY <2>5, <2>6
<1>9. Staged'
  <2>1. n + plan.batch \in 0 .. crew.budget
    BY <1>2, <1>3, <1>4, <1>5
  <2>2. \A t \in Task : status'[t] # "Cancelled"
    BY <1>7 DEF MockInv, Staged
  <2> QED
    BY <1>1, <1>8, <2>1, <2>2 DEF Staged
<1>10. BudgetDone => BudgetDone'
  <2>1. ASSUME BudgetDone, NEW t \in Task, t <= crew.budget PROVE status'[t] = "Done"
    <3>1. status[t] = "Done" /\ t \in OnBoard
      BY <2>1 DEF BudgetDone, OnBoard
    <3>2. ~(count < t)
      BY <1>3, <1>5, <3>1, <1>4
    <3> QED
      BY <1>7, <3>1, <3>2
  <2> QED
    BY <1>1, <2>1 DEF BudgetDone
<1>11. fresh' \subseteq {Orchestrator} \cup Agent /\ unobserved' \in [Meta -> 0 .. Threshold]
  <2>1. plan.batch + (IF forms THEN 1 ELSE 0) \in Nat
    BY <1>2
  <2> QED
    BY <1>1, <2>1, Append1Heard DEF MockInv
<1>12. WorldKept(Orchestrator)
  BY <1>1, <1>6, <1>9, <1>10, <1>11 DEF WorldKept, MockInv, TypeOK
<1>13. DirectivesKept(Orchestrator) /\ WindowKept(Orchestrator) /\ PlanSound(Orchestrator, Yield)'
  BY <1>1, DirectivesStill, WindowStill, StageSound
<1> QED
  BY <1>1, <1>10, <1>12, <1>13, StepKept, Actors DEF MockInv, TurnsSound

(* Settling a directive changes neither who proposed it nor what.          *)
LEMMA DirectiveSettled ==
  ASSUME MockInv, NEW x, NEW i \in DOMAIN directives, NEW s \in {"fulfilled", "declined"},
         directives' = [directives EXCEPT ![i].state = s]
  PROVE  DirectivesKept(x)
<1>1. directives \in Seq(Directive)
  BY DEF MockInv
<1>2. /\ Len(directives) \in Nat /\ DOMAIN directives = 1 .. Len(directives)
      /\ directives = [j \in 1 .. Len(directives) |-> directives[j]]
      /\ \A j \in 1 .. Len(directives) : directives[j] \in Directive
  BY <1>1
<1>3. /\ DOMAIN directives' = DOMAIN directives
      /\ directives' = [j \in 1 .. Len(directives) |-> directives'[j]]
      /\ directives'[i] = [directives[i] EXCEPT !.state = s]
      /\ \A j \in DOMAIN directives : j # i => directives'[j] = directives[j]
  BY <1>2
<1>4. directives'[i] \in Directive /\ directives'[i].from = directives[i].from
  BY <1>2, <1>3, SMTT(30) DEF Directive
<1>5. directives' \in Seq(Directive)
  <2> DEFINE e == directives'[i]
  <2>1. directives' = [directives EXCEPT ![i] = e]
    BY <1>2, <1>3
  <2> HIDE DEF e
  <2>2. [directives EXCEPT ![i] = e] \in Seq(Directive)
    BY <1>1, <1>2, <1>4, ExceptSeq DEF e
  <2> QED
    BY <2>1, <2>2
<1>6. \A j \in DOMAIN directives : directives'[j].from = directives[j].from
  BY <1>3, <1>4
<1> QED
  BY <1>3, <1>5, <1>6 DEF DirectivesKept, MockInv, OneJudgment, JudgmentUsed

(* The directive an answer resolves was issued before the answer was given.*)
LEMMA DirectiveAnswered ==
  ASSUME MockInv, turn[Orchestrator].do \in {"act", "decline"},
         NEW i, i = turn[Orchestrator].directive
  PROVE  i \in DOMAIN directives /\ directives[i] \in Directive
<1>1. PlanSound(Orchestrator, turn[Orchestrator])
  BY AnswerSound, Actors
<1>2. i \in DOMAIN directives
  BY <1>1, Actors DEF PlanSound, OrchestratorPlan
<1> QED
  BY <1>2 DEF MockInv

LEMMA ActKept == ASSUME MockInv, Act PROVE MockInv'
<1> DEFINE i == turn[Orchestrator].directive
<1>1. /\ turn[Orchestrator].do = "act" /\ turn' = [turn EXCEPT ![Orchestrator] = Yield]
      /\ UNCHANGED <<crew, mail, mechanical, finished>>
  BY DEF Act, Answers, Acted
<1>2. i \in DOMAIN directives /\ directives[i] \in Directive
  BY <1>1, DirectiveAnswered
<1>3. PlanSound(Orchestrator, Yield)'
  BY StageSound
<1>4. ASSUME BoardKept, DirectivesKept(Orchestrator), WindowKept(Orchestrator),
             fresh' \subseteq {Orchestrator} \cup Agent,
             unobserved' \in [Meta -> 0 .. Threshold], specialized' \subseteq Agent
      PROVE  MockInv'
  <2>1. WorldKept(Orchestrator)
    BY <1>1, <1>4 DEF WorldKept, BoardKept, MockInv, TypeOK
  <2>2. finished' => BudgetDone'
    BY <1>1, <1>4 DEF BoardKept, MockInv, TurnsSound
  <2> QED
    BY <1>1, <1>3, <1>4, <2>1, <2>2, StepKept, Actors
<1>5. ASSUME Fulfil(i) PROVE /\ DirectivesKept(Orchestrator)
                            /\ fresh' \subseteq {Orchestrator} \cup Agent
                            /\ unobserved' \in [Meta -> 0 .. Threshold]
  <2>1. directives' = [directives EXCEPT ![i].state = "fulfilled"]
        /\ Append1(Orchestrator, 2, TRUE)
    BY <1>5 DEF Fulfil
  <2> QED
    BY <1>2, <2>1, DirectiveSettled, Append1Heard DEF MockInv
<1>6. CASE Refused
  <2>1. UNCHANGED <<boardVars, crew, directives, specialized, window, fresh, unobserved>>
    BY <1>1, <1>6 DEF Refused
  <2>2. BoardKept /\ DirectivesKept(Orchestrator) /\ WindowKept(Orchestrator)
    BY <2>1, BoardStill, DirectivesStill, WindowStill
  <2> QED
    BY <1>4, <2>1, <2>2 DEF MockInv, TypeOK
<1>7. ASSUME NEW a \in Agent, Fulfil(i), specialized' = specialized \cup {a},
             window' = [window EXCEPT ![a] = 0], UNCHANGED boardVars
      PROVE  MockInv'
  <2>1. BoardKept
    BY <1>1, <1>7, BoardStill
  <2>2. window \in [Agent -> Nat] /\ 0 <= MaxWork
    BY MockRunConstants DEF MockRunConstants, MockInv, TypeOK
  <2>3. \A b \in Agent : window'[b] = IF b = a THEN 0 ELSE window[b]
    BY <1>7, <2>2
  <2>4. window' \in [Agent -> Nat]
    BY <1>7, <2>2
  <2>5. WithinQuota'
    BY <2>2, <2>3 DEF MockInv, WithinQuota
  <2>6. WindowKept(Orchestrator)
    BY <2>3, <2>4, <2>5 DEF WindowKept
  <2>7. specialized' \subseteq Agent
    BY <1>7 DEF MockInv, TypeOK
  <2> QED
    BY <1>4, <1>5, <1>7, <2>1, <2>6, <2>7
<1>8. ASSUME NEW t \in Task, Unassign(t), Fulfil(i), UNCHANGED <<specialized, window>>
      PROVE  MockInv'
  <2>1. BoardKept
    BY <1>1, <1>8, TaskMoves DEF Unassign, LeaveClaimed
  <2>2. WindowKept(Orchestrator)
    BY <1>8, WindowStill
  <2> QED
    BY <1>4, <1>5, <1>8, <2>1, <2>2 DEF MockInv, TypeOK
<1>9. CASE directives[i].kind = "respecialize"
  <2>1. directives[i].target \in Agent /\ ActOnRespecialize(i)
    BY <1>2, <1>9 DEF Directive, Act
  <2> QED
    BY <1>6, <1>7, <2>1 DEF ActOnRespecialize
<1>10. CASE directives[i].kind # "respecialize"
  <2>1. directives[i].target \in Task /\ ActOnReallocate(i)
    BY <1>2, <1>10 DEF Directive, Act
  <2> QED
    BY <1>6, <1>8, <2>1 DEF ActOnReallocate
<1> QED
  BY <1>9, <1>10

LEMMA DeclineKept == ASSUME MockInv, Decline PROVE MockInv'
<1> DEFINE i == turn[Orchestrator].directive
<1>1. /\ turn[Orchestrator].do = "decline" /\ turn' = [turn EXCEPT ![Orchestrator] = Yield]
      /\ directives' = [directives EXCEPT ![i].state = "declined"]
      /\ unobserved' = Counted(Orchestrator, 1, TRUE)
      /\ UNCHANGED <<boardVars, crew, fresh, mail, window, mechanical,
                    specialized, finished>>
  BY DEF Decline, Answers, Acted
<1>2. i \in DOMAIN directives
  BY <1>1, DirectiveAnswered
<1>3. /\ PlanSound(Orchestrator, Yield)' /\ DirectivesKept(Orchestrator)
      /\ WindowKept(Orchestrator) /\ BoardKept
  BY <1>1, <1>2, StageSound, DirectiveSettled, WindowStill, BoardStill
<1>4. unobserved' \in [Meta -> 0 .. Threshold]
  BY <1>1, EventsHeard DEF MockInv
<1>5. WorldKept(Orchestrator)
  BY <1>1, <1>3, <1>4 DEF WorldKept, BoardKept, MockInv, TypeOK
<1>6. finished' => BudgetDone'
  BY <1>1, <1>3 DEF BoardKept, MockInv, TurnsSound
<1> QED
  BY <1>1, <1>3, <1>5, <1>6, StepKept, Actors

(* The board a finish was decided on had the whole budget Done, and so has *)
(* the board it is tried on.                                               *)
LEMMA FinishRunKept == ASSUME MockInv, FinishRun PROVE MockInv'
<1>1. turn[Orchestrator].do = "finish"
  BY DEF FinishRun, Answers
<1>2. PICK p \in {Finishing, Yield} : turn' = [turn EXCEPT ![Orchestrator] = p]
  BY DEF FinishRun
<1>3. UNCHANGED <<boardVars, crew, fresh, mail, unobserved, window, directives,
                 mechanical, specialized, finished>>
  BY DEF FinishRun
<1>4. BoardKept /\ WindowKept(Orchestrator)
  BY <1>3, BoardStill, WindowStill
<1>5. BudgetDone
  <2>1. PlanSound(Orchestrator, turn[Orchestrator])
    BY AnswerSound, Actors
  <2> QED
    BY <1>1, <2>1, Actors DEF PlanSound, OrchestratorPlan
<1>6. PlanSound(Orchestrator, p)'
  BY <1>2, <1>4, <1>5 DEF PlanSound, OrchestratorPlan, Finishing, Yield, BoardKept
<1> QED
  BY <1>2, <1>3, <1>4, <1>6, QuietStepKept, Actors DEF MockInv, TypeOK

LEMMA ClaimTaskKept ==
  ASSUME MockInv, NEW a \in Agent, ClaimTask(a) PROVE MockInv'
<1> DEFINE t == turn[a].task
<1>1. /\ turn[a].do = "claim" /\ turn' = [turn EXCEPT ![a] = Yield]
      /\ UNCHANGED <<crew, mail, directives, mechanical, specialized, finished>>
      /\ \/ Claim(a, t) /\ window' = [window EXCEPT ![a] = 0] /\ Append1(a, 1, TRUE)
         \/ UNCHANGED <<boardVars, window, fresh, unobserved>>
  BY DEF ClaimTask, Answers, Acted
<1>2. a \in Actor /\ t \in Task /\ PlanSound(a, Yield)'
  <2>1. a \in Actor /\ PlanSound(a, turn[a])
    BY AnswerSound, Actors
  <2> QED
    BY <1>1, <2>1, Actors, StageSound DEF PlanSound, AgentPlan, MetaPlan
<1>3. CASE Claim(a, t) /\ window' = [window EXCEPT ![a] = 0] /\ Append1(a, 1, TRUE)
  <2>1. BoardKept
    BY <1>1, <1>2, <1>3, TaskMoves DEF Claim, MayClaim
  <2>2. window \in [Agent -> Nat] /\ 0 <= MaxWork
    BY MockRunConstants DEF MockRunConstants, MockInv, TypeOK
  <2>3. \A b \in Agent : window'[b] = IF b = a THEN 0 ELSE window[b]
    BY <1>3, <2>2
  <2>4. WithinQuota'
    BY <2>2, <2>3 DEF MockInv, WithinQuota
  <2>5. WindowKept(a)
    BY <1>3, <2>2, <2>3, <2>4 DEF WindowKept
  <2>6. fresh' \subseteq {Orchestrator} \cup Agent /\ unobserved' \in [Meta -> 0 .. Threshold]
    BY <1>3, Append1Heard DEF MockInv
  <2> QED
    BY <1>1, <1>2, <2>1, <2>5, <2>6, QuietStepKept DEF MockInv, TypeOK
<1>4. CASE UNCHANGED <<boardVars, window, fresh, unobserved>>
  <2>1. BoardKept /\ WindowKept(a)
    BY <1>1, <1>4, BoardStill, WindowStill
  <2> QED
    BY <1>1, <1>2, <1>4, <2>1, QuietStepKept DEF MockInv, TypeOK
<1> QED
  BY <1>1, <1>3, <1>4

LEMMA CompleteTaskKept ==
  ASSUME MockInv, NEW a \in Agent, CompleteTask(a) PROVE MockInv'
<1>1. /\ turn' = [turn EXCEPT ![a] = Yield] /\ a \in Actor /\ PlanSound(a, Yield)'
      /\ UNCHANGED <<crew, mail, window, directives, mechanical, specialized, finished>>
  BY Actors, StageSound DEF CompleteTask, Acted
<1>2. BoardKept /\ fresh' \subseteq {Orchestrator} \cup Agent
      /\ unobserved' \in [Meta -> 0 .. Threshold]
  <2>1. ASSUME NEW t \in Task, Complete(a, t) PROVE BoardKept
    BY <1>1, <2>1, TaskMoves DEF Complete, Claims, LeaveClaimed
  <2>2. ASSUME Append1(a, 1, TRUE)
        PROVE  /\ fresh' \subseteq {Orchestrator} \cup Agent
               /\ unobserved' \in [Meta -> 0 .. Threshold]
    BY <2>2, Append1Heard DEF MockInv
  <2>3. ASSUME UNCHANGED <<boardVars, fresh, unobserved>>
        PROVE  /\ BoardKept /\ fresh' \subseteq {Orchestrator} \cup Agent
               /\ unobserved' \in [Meta -> 0 .. Threshold]
    BY <1>1, <2>3, BoardStill DEF MockInv, TypeOK
  <2> QED
    BY <2>1, <2>2, <2>3 DEF CompleteTask
<1>3. WindowKept(a)
  BY <1>1, WindowStill
<1> QED
  BY <1>1, <1>2, <1>3, QuietStepKept DEF MockInv, TypeOK

(* An agent that works has room in its window: its answer was given below  *)
(* the quota, and only its own turns count towards it.                     *)
LEMMA WorkWithin ==
  ASSUME MockInv, NEW x \in Actor, x \notin Meta, Worked(x),
         turn[x].do \in {"write", "search", "post"}
  PROVE  WindowKept(x)
<1>1. window \in [Agent -> Nat] /\ MaxWork \in Nat
  BY MockRunConstants DEF MockRunConstants, MockInv, TypeOK
<1>2. x \in Agent => window[x] < MaxWork
  BY AnswerSound, Actors DEF PlanSound, AgentPlan
<1>3. window' = [a \in Agent |-> IF a = x THEN window[a] + 1 ELSE window[a]]
  BY DEF Worked
<1>4. window' \in [Agent -> Nat] /\ \A a \in Agent : a # x => window'[a] = window[a]
  BY <1>1, <1>3
<1>5. WithinQuota'
  <2> SUFFICES ASSUME NEW a \in Agent PROVE window'[a] <= MaxWork
    BY DEF WithinQuota
  <2>1. window[a] \in Nat /\ window[a] <= MaxWork
    BY <1>1 DEF MockInv, WithinQuota
  <2>2. CASE a = x
    BY <1>1, <1>2, <1>3, <2>1, <2>2
  <2>3. CASE a # x
    BY <1>4, <2>1, <2>3
  <2> QED
    BY <2>2, <2>3
<1> QED
  BY <1>4, <1>5 DEF WindowKept

LEMMA WriteKnowledgeKept ==
  ASSUME MockInv, NEW a \in Agent, WriteKnowledge(a) PROVE MockInv'
<1>1. /\ turn[a].do = "write" /\ turn' = [turn EXCEPT ![a] = Yield] /\ Worked(a)
      /\ Append1(a, 1, FALSE)
      /\ UNCHANGED <<boardVars, crew, mail, directives, mechanical, specialized, finished>>
  BY DEF WriteKnowledge, Answers, Acted
<1>2. a \in Actor /\ a \notin Meta /\ PlanSound(a, Yield)' /\ BoardKept
  BY <1>1, Actors, StageSound, BoardStill
<1>3. WindowKept(a)
  BY <1>1, <1>2, WorkWithin
<1>4. fresh' \subseteq {Orchestrator} \cup Agent /\ unobserved' \in [Meta -> 0 .. Threshold]
  BY <1>1, Append1Heard DEF MockInv
<1> QED
  BY <1>1, <1>2, <1>3, <1>4, QuietStepKept DEF MockInv, TypeOK

LEMMA SearchKnowledgeKept ==
  ASSUME MockInv, NEW a \in Agent, SearchKnowledge(a) PROVE MockInv'
<1>1. /\ turn[a].do = "search" /\ turn' = [turn EXCEPT ![a] = Yield] /\ Worked(a)
      /\ UNCHANGED <<boardVars, crew, fresh, mail, unobserved, directives, mechanical,
                     specialized, finished>>
  BY DEF SearchKnowledge, Answers, Acted
<1>2. a \in Actor /\ a \notin Meta /\ PlanSound(a, Yield)' /\ BoardKept
  BY <1>1, Actors, StageSound, BoardStill
<1>3. WindowKept(a)
  BY <1>1, <1>2, WorkWithin
<1> QED
  BY <1>1, <1>2, <1>3, QuietStepKept DEF MockInv, TypeOK

LEMMA PostMessageKept ==
  ASSUME MockInv, NEW x \in Actor, x \notin Meta, PostMessage(x) PROVE MockInv'
<1>1. /\ turn[x].do = "post" /\ turn' = [turn EXCEPT ![x] = Yield] /\ Worked(x)
      /\ Append1(x, 1, FALSE) /\ mail' = mail \cup turn[x].to
      /\ UNCHANGED <<boardVars, crew, directives, mechanical, specialized, finished>>
  BY DEF PostMessage, Answers, Acted
<1>2. PlanSound(x, Yield)' /\ BoardKept /\ WindowKept(x)
  BY <1>1, StageSound, BoardStill, WorkWithin
<1>3. mail' \subseteq {Orchestrator} \cup Agent
  <2>1. turn[x].to \subseteq {Orchestrator} \cup Agent
    BY <1>1, AnswerSound, Actors DEF PlanSound, OrchestratorPlan, AgentPlan
  <2> QED
    BY <1>1, <2>1 DEF MockInv, TypeOK
<1>4. fresh' \subseteq {Orchestrator} \cup Agent /\ unobserved' \in [Meta -> 0 .. Threshold]
  BY <1>1, Append1Heard DEF MockInv
<1> QED
  BY <1>1, <1>2, <1>3, <1>4, QuietStepKept DEF MockInv, TypeOK

(* The second judgment of a meta-agent would have had to be answered before*)
(* its first was issued.                                                   *)
LEMMA ProposeKept ==
  ASSUME MockInv, NEW m \in Meta, Propose(m) PROVE MockInv'
<1> DEFINE d == [kind |-> turn[m].kind, target |-> turn[m].target,
                 from |-> m, state |-> "pending"]
<1>1. /\ turn[m].do = "propose" /\ turn' = [turn EXCEPT ![m] = Yield]
      /\ Append1(m, 1, FALSE) /\ directives' = Append(directives, d)
      /\ UNCHANGED <<boardVars, crew, mail, window, mechanical, specialized, finished>>
  BY DEF Propose, Answers, Acted
<1>2. m \in Actor /\ m \notin Agent /\ m # Orchestrator
  BY Actors
<1>3. MetaPlan(m, turn[m])
  <2>1. PlanSound(m, turn[m])
    BY <1>2, AnswerSound
  <2> QED
    BY <1>1, <1>2, <2>1 DEF PlanSound
<1>4. ~JudgmentUsed(m) /\ d \in Directive
  BY <1>1, <1>3 DEF MetaPlan, Directive
<1> HIDE DEF d
<1>5. directives \in Seq(Directive) /\ d.from = m
  BY DEF MockInv, d
<1>6. /\ directives' \in Seq(Directive) /\ Len(directives') = Len(directives) + 1
      /\ \A j \in 1 .. Len(directives) : directives'[j] = directives[j]
      /\ directives'[Len(directives) + 1] = d
  BY <1>1, <1>4, <1>5, AppendProperties
<1>7. /\ DOMAIN directives = 1 .. Len(directives)
      /\ DOMAIN directives' = 1 .. (Len(directives) + 1) /\ Len(directives) \in Nat
  BY <1>5, <1>6
<1>8. \A j \in DOMAIN directives' : j \in DOMAIN directives \/ j = Len(directives) + 1
  BY <1>7
<1>9. \A j \in DOMAIN directives : directives[j].from # m
  BY <1>4 DEF JudgmentUsed
<1>10. OneJudgment'
  <2> SUFFICES ASSUME NEW j \in DOMAIN directives', NEW k \in DOMAIN directives',
                      directives'[j].from = directives'[k].from
               PROVE  j = k
    BY DEF OneJudgment
  <2>1. CASE j \in DOMAIN directives /\ k \in DOMAIN directives
    BY <1>6, <1>7, <2>1 DEF MockInv, OneJudgment
  <2>2. CASE j \notin DOMAIN directives \/ k \notin DOMAIN directives
    BY <1>5, <1>6, <1>7, <1>8, <1>9, <2>2
  <2> QED
    BY <2>1, <2>2
<1>11. DirectivesKept(m)
  <2>1. DOMAIN directives \subseteq DOMAIN directives'
    BY <1>7
  <2>2. ASSUME NEW n \in Meta, n # m, JudgmentUsed(n)' PROVE JudgmentUsed(n)
    BY <1>5, <1>6, <1>7, <1>8, <2>2 DEF JudgmentUsed
  <2> QED
    BY <1>6, <1>10, <2>1, <2>2 DEF DirectivesKept
<1>12. BoardKept /\ WindowKept(m) /\ PlanSound(m, Yield)'
  BY <1>1, BoardStill, WindowStill, StageSound
<1>13. fresh' \subseteq {Orchestrator} \cup Agent /\ unobserved' \in [Meta -> 0 .. Threshold]
  BY <1>1, Append1Heard DEF MockInv
<1>14. WorldKept(m)
  BY <1>1, <1>12, <1>13 DEF WorldKept, BoardKept, MockInv, TypeOK
<1>15. finished' => BudgetDone'
  BY <1>1, <1>12 DEF BoardKept, MockInv, TurnsSound
<1> QED
  BY <1>1, <1>2, <1>11, <1>12, <1>14, <1>15, StepKept

LEMMA SetParallelismKept ==
  ASSUME MockInv, NEW m \in Meta, SetParallelism(m) PROVE MockInv'
<1>1. /\ turn' = [turn EXCEPT ![m] = Yield] /\ Append1(m, 2, FALSE)
      /\ mechanical' = mechanical \cup {m} /\ m \in Actor
      /\ UNCHANGED <<boardVars, crew, mail, window, directives, specialized, finished>>
  BY Actors DEF SetParallelism, Acted
<1>2. PlanSound(m, Yield)' /\ BoardKept /\ WindowKept(m)
  BY <1>1, StageSound, BoardStill, WindowStill
<1>3. fresh' \subseteq {Orchestrator} \cup Agent /\ unobserved' \in [Meta -> 0 .. Threshold]
  BY <1>1, Append1Heard DEF MockInv
<1> QED
  BY <1>1, <1>2, <1>3, QuietStepKept DEF MockInv, TypeOK

LEMMA StutterKept == ASSUME MockInv, UNCHANGED vars PROVE MockInv'
<1>1. UNCHANGED boardVars /\ UNCHANGED mockVars
  BY DEF vars
<1>2. UNCHANGED <<crew, turn, fresh, mail, unobserved, window, directives,
                  mechanical, specialized, finished>>
  BY <1>1 DEF mockVars
<1>3. BoardKept
  BY <1>1, <1>2, BoardStill
<1>4. WorldKept(Orchestrator) /\ DirectivesKept(Orchestrator) /\ WindowKept(Orchestrator)
  BY <1>2, <1>3, DirectivesStill, WindowStill DEF WorldKept, BoardKept, MockInv, TypeOK
<1>5. \A y \in Actor : Undisturbed(y)
  BY <1>2, <1>3 DEF Undisturbed, BoardKept, JudgmentUsed
<1>6. PlanSound(Orchestrator, turn[Orchestrator])'
  <2>1. ASSUME NEW p, p = turn[Orchestrator], p = turn'[Orchestrator]
        PROVE  PlanSound(Orchestrator, turn[Orchestrator])'
    <3>1. PlanSound(Orchestrator, p)'
      BY <1>5, <2>1, AnswerSound, PlanKept, Actors
    <3> QED
      BY <2>1, <3>1
  <2> QED
    BY <1>2, <2>1
<1>7. turn' = [turn EXCEPT ![Orchestrator] = turn[Orchestrator]]
  BY <1>2, Actors DEF MockInv, TurnsSound
<1>8. finished' => BudgetDone'
  BY <1>2, <1>3 DEF BoardKept, MockInv, TurnsSound
<1>9. ASSUME NEW p, p = turn[Orchestrator], p = turn'[Orchestrator] PROVE MockInv'
  BY <1>4, <1>6, <1>7, <1>8, <1>9, StepKept, Actors
<1> QED
  BY <1>2, <1>9

----------------------------------------------------------------------------

LEMMA MockInvariant == Spec => []MockInv
<1>1. Init => MockInv
  BY InitMockInv
<1>2. MockInv /\ [Next]_vars => MockInv'
  <2> SUFFICES ASSUME MockInv, [Next]_vars PROVE MockInv'
    OBVIOUS
  <2>1. CASE UNCHANGED vars
    BY <2>1, StutterKept
  <2>2. CASE Dispatch
    BY <2>2, DispatchKept
  <2>3. ASSUME NEW x \in Actor, Step(x) PROVE MockInv'
    <3>1. CASE Assemble(x) \/ EndTurn(x)
      BY <3>1, AssembleKept, EndTurnKept
    <3>2. CASE OrchestratorActs
      BY <3>2, DecomposeKept, ActKept, DeclineKept, FinishRunKept, EndRunKept
         DEF OrchestratorActs
    <3>3. CASE x \in Agent /\ AgentActs(x)
      BY <3>3, ClaimTaskKept, CompleteTaskKept, WriteKnowledgeKept, SearchKnowledgeKept
         DEF AgentActs
    <3>4. CASE x \in Meta /\ MetaActs(x)
      BY <3>4, ProposeKept, SetParallelismKept DEF MetaActs
    <3>5. CASE x \notin Meta /\ PostMessage(x)
      BY <3>5, PostMessageKept
    <3> QED
      BY <2>3, <3>1, <3>2, <3>3, <3>4, <3>5 DEF Step
  <2> QED
    BY <2>1, <2>2, <2>3 DEF Next
<1> QED
  BY <1>1, <1>2, PTL DEF Spec

(* The arc keeps its bounds whatever the overlap of its turns, for every   *)
(* pool, budget, quota and cadence, and in either dispatch mode.           *)
THEOREM ArcKeepsBounds == Spec => []ArcBounds
<1>1. MockInv => ArcBounds
  <2> SUFFICES ASSUME MockInv PROVE ArcBounds
    OBVIOUS
  <2>1. \A t \in OnBoard : t <= crew.budget
    <3>1. PICK n \in 0 .. crew.budget : OnBoard = 1 .. n
      BY DEF MockInv, Staged
    <3>2. crew.budget \in Nat
      BY CrewShape DEF MockInv, TypeOK
    <3> QED
      BY <3>1, <3>2
  <2> QED
    BY <2>1 DEF ArcBounds, MockInv, OneJudgment, WithinQuota
<1> QED
  BY <1>1, MockInvariant, PTL

(* ADR 0021: the finish the arc decides on is never refused, and the run   *)
(* it ends has its whole budget of tasks Done: a task leaves Done by no    *)
(* step, and after the budget is staged no step adds one.                  *)
THEOREM FinishIsNeverRefused == Spec => []FinishNeverRefused
<1>1. MockInv => FinishNeverRefused
  <2> SUFFICES ASSUME MockInv, turn[Orchestrator].do \in {"finish", "finishing"} \/ finished
               PROVE  BudgetDone
    BY DEF FinishNeverRefused
  <2>1. CASE finished
    BY <2>1 DEF MockInv, TurnsSound
  <2>2. CASE turn[Orchestrator].do \in {"finish", "finishing"}
    BY <2>2, AnswerSound, Actors DEF PlanSound, OrchestratorPlan
  <2> QED
    BY <2>1, <2>2
<1> QED
  BY <1>1, MockInvariant, PTL
=============================================================================
