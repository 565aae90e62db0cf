-------------------------- MODULE SchedulerProofs --------------------------
(***************************************************************************)
(* Machine-checked proofs about Scheduler: the accounting of permits and   *)
(* the absence of lost wakeups, for any number of agents and metas, any    *)
(* configured parallelism and any cadence threshold.                       *)
(***************************************************************************)
EXTENDS Scheduler, FiniteSetTheorems, TLAPS

TeamTurns == {a \in Agent : turn[a] # "none"}

LEMMA AgentsFinite ==
  ASSUME NEW S, S \subseteq Agent
  PROVE  IsFiniteSet(S) /\ Cardinality(S) \in Nat
<1>1. IsFiniteSet(Agent)
  BY FS_Interval, SchedulerAssumption DEF SchedulerAssumption, Agent
<1> QED
  BY <1>1, FS_Subset, FS_CardinalityType

LEMMA InitTypeOK == Init => TypeOK
<1> SUFFICES ASSUME Init PROVE TypeOK
  OBVIOUS
<1>1. unobserved \in [Meta -> Nat] /\ effective \in 1..Parallel /\ Parallel \in Nat
  BY SchedulerAssumption DEF SchedulerAssumption, Init, AtMost
<1>2. /\ turn \in [Actor -> {"none", "planned", "running"}]
      /\ state \in [Agent -> {"Idle", "Working", "Asleep"}]
      /\ mail \in [Reader -> Nat]
  BY DEF Init
<1> QED
  BY <1>1, <1>2 DEF Init, TypeOK

----------------------------------------------------------------------------
(* What the helpers leave typed. *)
NewsTypeOK ==
  /\ freshEvents \in BOOLEAN /\ unheard \in BOOLEAN
  /\ freshWork \in SUBSET Agent
  /\ unobserved \in [Meta -> Nat]
  /\ priority \in SUBSET Meta

LEMMA AppendType ==
  ASSUME TypeOK, NEW src, NEW n \in Nat, NEW work \in BOOLEAN,
         NEW high \in BOOLEAN, Append(src, n, work, high)
  PROVE  NewsTypeOK'
<1>1. unobserved' \in [Meta -> Nat]
  <2>1. ASSUME NEW m \in Meta
        PROVE  AtMost(unobserved[m] + n, Threshold) \in Nat /\ unobserved[m] \in Nat
    BY SchedulerAssumption DEF SchedulerAssumption, TypeOK, AtMost
  <2> QED
    BY <2>1 DEF Append
<1> QED
  BY <1>1 DEF Append, TypeOK, NewsTypeOK

LEMMA SaysType ==
  ASSUME TypeOK, NEW src, NEW work \in BOOLEAN, NEW high \in BOOLEAN,
         Says(src, work, high)
  PROVE  NewsTypeOK'
<1>1. PICK n \in 1..2 : Append(src, n, work, high)
  BY DEF Says
<1> QED
  BY <1>1, AppendType

LEMMA NotifySoonType ==
  ASSUME TypeOK, NotifySoon PROVE nudging' \in Nat /\ nudging' > 0
BY SchedulerAssumption DEF SchedulerAssumption, NotifySoon, AtMost, TypeOK

LEMMA PlanType == ASSUME TypeOK, Plan PROVE TypeOK'
<1>1. PICK settled \in 0..debt, back \in 0..dropping, S \in SUBSET Agent :
       /\ settled = AtMost(debt, available)
       /\ Admits(S, available - settled, back)
       /\ debt' = debt - settled
       /\ available' = available - settled + back - Cardinality(S)
       /\ dropping' = dropping - back
       /\ nudging' = AtMost(nudging + back, MaxNudging)
       /\ turn' = [x \in Actor |->
            IF \/ x \in S
               \/ x = Orchestrator /\ OrchestratorDue
               \/ x \in Meta /\ MetaDue(x)
            THEN "planned" ELSE turn[x]]
  BY DEF Plan
<1>2. settled <= available
  BY <1>1 DEF AtMost, TypeOK
<1>3. Cardinality(S) \in Nat
  BY AgentsFinite
<1>4. debt' \in Nat /\ dropping' \in Nat /\ available' \in Nat
  BY <1>1, <1>2, <1>3 DEF Admits, TypeOK
<1>5. nudging' \in Nat
  BY <1>1, SchedulerAssumption DEF SchedulerAssumption, TypeOK, AtMost
<1>6. turn' \in [Actor -> {"none", "planned", "running"}]
  BY <1>1 DEF TypeOK
<1>7. unobserved' \in [Meta -> Nat] /\ priority' \in SUBSET Meta
  BY DEF Plan, TypeOK
<1>8. firstTick' \in BOOLEAN /\ forcedTick' \in BOOLEAN /\ sched' \in {"waiting"}
  BY DEF Plan, TypeOK
<1> QED
  BY <1>4, <1>5, <1>6, <1>7, <1>8 DEF Plan, TypeOK, workVars

LEMMA StartTurnType ==
  ASSUME TypeOK, NEW x \in Actor, StartTurn(x) PROVE TypeOK'
<1>1. PICK degraded \in BOOLEAN, left \in 0..MaxMail :
       /\ IF x \in Reader /\ mail[x] > 0
          THEN left < mail[x] /\ mail' = [mail EXCEPT ![x] = left]
          ELSE left = 0 /\ mail' = mail
       /\ LET n == (IF mail' # mail THEN 1 ELSE 0) + (IF degraded THEN 1 ELSE 0)
          IN /\ freshEvents' = (x # Orchestrator /\ (freshEvents \/ n > 0))
             /\ unheard' = (x # Orchestrator /\ (unheard \/ n > 0))
             /\ unobserved' = [m \in Meta |-> IF m = x THEN unobserved[m]
                                 ELSE AtMost(unobserved[m] + n, Threshold)]
  BY DEF StartTurn
<1>2. mail' \in [Reader -> Nat]
  BY <1>1, SchedulerAssumption DEF SchedulerAssumption, TypeOK
<1>3. unobserved' \in [Meta -> Nat]
  <2> DEFINE n == (IF mail' # mail THEN 1 ELSE 0) + (IF degraded THEN 1 ELSE 0)
  <2>1. n \in Nat
    OBVIOUS
  <2>2. unobserved' = [m \in Meta |-> IF m = x THEN unobserved[m]
                         ELSE AtMost(unobserved[m] + n, Threshold)]
    BY <1>1
  <2> HIDE DEF n
  <2>3. ASSUME NEW m \in Meta
        PROVE  AtMost(unobserved[m] + n, Threshold) \in Nat /\ unobserved[m] \in Nat
    BY <2>1, SchedulerAssumption DEF SchedulerAssumption, TypeOK, AtMost
  <2> QED
    BY <2>2, <2>3
<1>4. freshEvents' \in BOOLEAN /\ unheard' \in BOOLEAN
  BY <1>1
<1>5. /\ turn' \in [Actor -> {"none", "planned", "running"}]
      /\ freshWork' \in SUBSET Agent
  BY DEF StartTurn, TypeOK
<1> QED
  BY <1>2, <1>3, <1>4, <1>5
  DEF StartTurn, TypeOK, permitVars, tickVars, nudgeVars

LEMMA BookkeepingType ==
  ASSUME TypeOK, NEW x \in Actor, Bookkeeping(x)
  PROVE  /\ turn' \in [Actor -> {"none", "planned", "running"}]
         /\ dropping' \in Nat /\ nudging' \in Nat /\ token' \in BOOLEAN
<1>1. nudging' \in Nat
  BY NotifySoonType DEF Bookkeeping, TypeOK
<1> QED
  BY <1>1 DEF Bookkeeping, TypeOK

(* The end of a turn, however it ends. *)
LEMMA TurnEndType ==
  ASSUME TypeOK, NEW x \in Actor, EndTurn(x) \/ EndRun(x) \/ AbortTurn(x)
  PROVE  TypeOK'
<1>1. CASE EndTurn(x)
  <2>1. NewsTypeOK' /\ state' \in [Agent -> {"Idle", "Working", "Asleep"}]
    <3>1. CASE Append(x, 1, FALSE, FALSE) /\ UNCHANGED state
      BY <3>1, AppendType DEF TypeOK
    <3>2. CASE /\ x \in Agent /\ state[x] # "Asleep"
               /\ state' = [state EXCEPT ![x] = "Asleep"]
               /\ Append(x, 2, FALSE, TRUE)
      <4>1. NewsTypeOK'
        BY <3>2, AppendType
      <4> QED
        BY <4>1, <3>2 DEF TypeOK
    <3> QED
      BY <1>1, <3>1, <3>2 DEF EndTurn
  <2> QED
    BY <1>1, <2>1, BookkeepingType
    DEF EndTurn, Bookkeeping, TypeOK, NewsTypeOK, tickVars
<1>2. CASE EndRun(x)
  BY <1>2, BookkeepingType
  DEF EndRun, Bookkeeping, TypeOK, workVars, newsVars, tickVars
<1>3. CASE AbortTurn(x)
  BY <1>3, BookkeepingType
  DEF AbortTurn, Bookkeeping, TypeOK, workVars, newsVars, tickVars
<1> QED
  BY <1>1, <1>2, <1>3

WorkTypeOK ==
  /\ state \in [Agent -> {"Idle", "Working", "Asleep"}]
  /\ holds \in SUBSET Agent
  /\ open \in Nat
  /\ mail \in [Reader -> Nat]

LEMMA VerbType ==
  ASSUME TypeOK, NEW x, Verb(x), NewsTypeOK', WorkTypeOK', UNCHANGED permitVars
  PROVE  TypeOK'
BY DEF TypeOK, NewsTypeOK, WorkTypeOK, Verb, permitVars, tickVars, nudgeVars

(* A verb takes the caller's turn for granted and keeps the permits. *)
LEMMA WorkType ==
  ASSUME TypeOK, NEW x, Work(x) PROVE NewsTypeOK'
BY SaysType DEF Work

LEMMA TalkType ==
  ASSUME TypeOK, NEW x, Talk(x) PROVE NewsTypeOK'
BY SaysType DEF Talk

LEMMA AgentVerbType ==
  ASSUME TypeOK, NEW a \in Agent, AgentVerb(a)
  PROVE  TypeOK' /\ UNCHANGED <<permitVars, turn>> /\ Verb(a)
<1>1. CASE Claim(a)
  <2>1. WorkTypeOK'
    BY <1>1 DEF Claim, Work, TypeOK, WorkTypeOK
  <2> QED
    BY <1>1, <2>1, WorkType, VerbType DEF Claim, Work, Verb
<1>2. CASE Complete(a)
  <2>1. WorkTypeOK'
    BY <1>2 DEF Complete, Work, TypeOK, WorkTypeOK
  <2> QED
    BY <1>2, <2>1, WorkType, VerbType DEF Complete, Work, Verb
<1>3. CASE Release(a)
  <2>1. WorkTypeOK'
    BY <1>3 DEF Release, TypeOK, WorkTypeOK
  <2> QED
    BY <1>3, <2>1, SaysType, VerbType DEF Release, Verb
<1>4. CASE Sleep(a, a)
  <2>1. WorkTypeOK'
    BY <1>4 DEF Sleep, TypeOK, WorkTypeOK
  <2> QED
    BY <1>4, <2>1, TalkType, VerbType DEF Sleep, Talk, Verb
<1>5. ASSUME NEW to \in SUBSET Reader, PostMessage(a, to)
      PROVE  TypeOK' /\ UNCHANGED <<permitVars, turn>> /\ Verb(a)
  <2>1. WorkTypeOK'
    BY <1>5 DEF PostMessage, TypeOK, WorkTypeOK
  <2> QED
    BY <1>5, <2>1, TalkType, VerbType DEF PostMessage, Talk, Verb
<1>6. CASE OtherVerb(a)
  <2>1. WorkTypeOK'
    BY <1>6 DEF OtherVerb, TypeOK, WorkTypeOK, workVars
  <2>2. PICK high \in BOOLEAN : Says(a, FALSE, high /\ a = Orchestrator)
    BY <1>6 DEF OtherVerb
  <2>3. NewsTypeOK'
    BY <2>2, SaysType
  <2> QED
    BY <1>6, <2>1, <2>3, VerbType DEF OtherVerb, Verb
<1> QED
  BY <1>1, <1>2, <1>3, <1>4, <1>5, <1>6 DEF AgentVerb

(* The verbs of the control plane but set_parallelism, by their caller. *)
LEMMA ControlVerbType ==
  ASSUME TypeOK,
         \/ CreateTask \/ CancelTask
         \/ \E a \in Agent : Unassign(a)
         \/ \E x \in Control, a \in Agent : Sleep(x, a) \/ Wake(x, a)
         \/ \E to \in SUBSET Reader : PostMessage(Orchestrator, to)
         \/ \E x \in Control : OtherVerb(x)
  PROVE  TypeOK' /\ UNCHANGED <<permitVars, turn>> /\ \E x \in Control : Verb(x)
<1> DEFINE Goal == TypeOK' /\ UNCHANGED <<permitVars, turn>> /\ \E x \in Control : Verb(x)
<1>0. Orchestrator \in Control
  BY DEF Control
<1>1. CASE CreateTask
  <2>1. WorkTypeOK'
    BY <1>1 DEF CreateTask, Work, TypeOK, WorkTypeOK
  <2> QED
    BY <1>0, <1>1, <2>1, WorkType, VerbType DEF CreateTask, Work, Verb
<1>2. CASE CancelTask
  <2>1. WorkTypeOK'
    BY <1>2 DEF CancelTask, Work, TypeOK, WorkTypeOK
  <2> QED
    BY <1>0, <1>2, <2>1, WorkType, VerbType DEF CancelTask, Work, Verb
<1>3. ASSUME NEW a \in Agent, Unassign(a) PROVE Goal
  <2>1. WorkTypeOK'
    BY <1>3 DEF Unassign, Work, TypeOK, WorkTypeOK
  <2> QED
    BY <1>0, <1>3, <2>1, WorkType, VerbType DEF Unassign, Work, Verb
<1>4. ASSUME NEW x \in Control, NEW a \in Agent, Sleep(x, a) PROVE Goal
  <2>1. WorkTypeOK'
    BY <1>4 DEF Sleep, TypeOK, WorkTypeOK
  <2> QED
    BY <1>4, <2>1, TalkType, VerbType DEF Sleep, Talk, Verb
<1>5. ASSUME NEW x \in Control, NEW a \in Agent, Wake(x, a) PROVE Goal
  <2>1. WorkTypeOK'
    BY <1>5 DEF Wake, Work, TypeOK, WorkTypeOK
  <2> QED
    BY <1>5, <2>1, WorkType, VerbType DEF Wake, Work, Verb
<1>6. ASSUME NEW to \in SUBSET Reader, PostMessage(Orchestrator, to) PROVE Goal
  <2>1. WorkTypeOK'
    BY <1>6 DEF PostMessage, TypeOK, WorkTypeOK
  <2> QED
    BY <1>0, <1>6, <2>1, TalkType, VerbType DEF PostMessage, Talk, Verb
<1>7. ASSUME NEW x \in Control, OtherVerb(x) PROVE Goal
  <2>1. WorkTypeOK'
    BY <1>7 DEF OtherVerb, TypeOK, WorkTypeOK, workVars
  <2>2. PICK high \in BOOLEAN : Says(x, FALSE, high /\ x = Orchestrator)
    BY <1>7 DEF OtherVerb
  <2>3. NewsTypeOK'
    BY <2>2, SaysType
  <2> QED
    BY <1>7, <2>1, <2>3, VerbType DEF OtherVerb, Verb
<1> QED
  BY <1>1, <1>2, <1>3, <1>4, <1>5, <1>6, <1>7

(* What a change of the parallelism does to the permits. *)
LEMMA Retuned ==
  ASSUME TypeOK, NEW m \in Meta, NEW target \in 1..Parallel, SetParallelism(m, target)
  PROVE  /\ available' \in Nat /\ debt' \in Nat /\ effective' \in 1..Parallel
         /\ available' - debt' = available - debt + effective' - effective
         /\ effective' >= effective => debt' = debt
         /\ UNCHANGED <<turn, dropping>>
<1> DEFINE forgotten == AtMost(effective - target, available)
<1>1. available \in Nat /\ debt \in Nat /\ effective \in 1..Parallel /\ Parallel \in Nat
  BY SchedulerAssumption DEF SchedulerAssumption, TypeOK
<1>2. /\ effective' = target
      /\ IF target >= effective
         THEN available' = available + (target - effective) /\ debt' = debt
         ELSE /\ available' = available - forgotten
              /\ debt' = debt + (effective - target - forgotten)
  BY DEF SetParallelism
<1>3. target < effective => forgotten \in Nat /\ forgotten <= available
                            /\ forgotten <= effective - target
  BY <1>1 DEF AtMost
<1> HIDE DEF forgotten
<1>4. UNCHANGED <<turn, dropping>>
  BY DEF SetParallelism, Talk, Verb
<1> QED
  BY <1>1, <1>2, <1>3, <1>4

LEMMA SetParallelismType ==
  ASSUME TypeOK, NEW m \in Meta, NEW target \in 1..Parallel, SetParallelism(m, target)
  PROVE  TypeOK' /\ Verb(m)
<1>1. NewsTypeOK'
  BY TalkType DEF SetParallelism
<1>2. available' \in Nat /\ debt' \in Nat /\ effective' \in 1..Parallel
  BY Retuned
<1> QED
  BY <1>1, <1>2
  DEF SetParallelism, Talk, Verb, TypeOK, NewsTypeOK, workVars, tickVars, nudgeVars

LEMMA SchedulerType ==
  ASSUME TypeOK,
         \/ Settle \/ WakeUp \/ DropPermit \/ NotifyOne \/ DurationCap \/ Watchdog
         \/ UNCHANGED vars
  PROVE  TypeOK'
<1>1. CASE Settle
  BY <1>1 DEF Settle, TypeOK, workVars, newsVars, permitVars, tickVars, nudgeVars
<1>2. CASE WakeUp
  BY <1>2 DEF WakeUp, TypeOK, workVars, newsVars, permitVars, tickVars
<1>3. CASE DropPermit
  BY <1>3, NotifySoonType DEF DropPermit, TypeOK, workVars, newsVars, tickVars
<1>4. CASE NotifyOne
  BY <1>4 DEF NotifyOne, TypeOK, workVars, newsVars, permitVars, tickVars
<1>5. CASE DurationCap
  BY <1>5, NotifySoonType DEF DurationCap, TypeOK, workVars, newsVars, permitVars, tickVars
<1>6. CASE WatchdogRenudges
  BY <1>6, NotifySoonType
  DEF WatchdogRenudges, TypeOK, workVars, newsVars, permitVars, tickVars
<1>7. CASE WatchdogFires
  <2>1. NewsTypeOK'
    BY <1>7, AppendType DEF WatchdogFires
  <2> QED
    BY <1>7, <2>1, NotifySoonType
    DEF WatchdogFires, TypeOK, NewsTypeOK, workVars, permitVars
<1>8. CASE UNCHANGED vars
  BY <1>8 DEF vars, TypeOK, workVars, newsVars, permitVars, tickVars, nudgeVars
<1> QED
  BY <1>1, <1>2, <1>3, <1>4, <1>5, <1>6, <1>7, <1>8 DEF Watchdog

LEMMA StepTypeOK == TypeOK /\ [Next]_vars => TypeOK'
<1> SUFFICES ASSUME TypeOK, [Next]_vars PROVE TypeOK'
  OBVIOUS
<1>1. CASE Schedule
  BY <1>1, PlanType, SchedulerType DEF Schedule
<1>2. ASSUME NEW x \in Actor, TurnStep(x) PROVE TypeOK'
  BY <1>2, StartTurnType, TurnEndType DEF TurnStep
<1>3. ASSUME NEW a \in Agent, AgentVerb(a) PROVE TypeOK'
  BY <1>3, AgentVerbType
<1>4. CASE ControlVerb
  BY <1>4, ControlVerbType, SetParallelismType DEF ControlVerb
<1> QED
  BY <1>1, <1>2, <1>3, <1>4, SchedulerType DEF Next, Done

(* Every reachable state of the reactor is type correct: no permit count   *)
(* runs below zero, and the parallelism stays within 1..configured.        *)
THEOREM TypeCorrect == Spec => []TypeOK
<1>1. Init => TypeOK
  BY InitTypeOK
<1>2. TypeOK /\ [Next]_vars => TypeOK'
  BY StepTypeOK
<1> QED
  BY <1>1, <1>2, PTL DEF Spec

----------------------------------------------------------------------------
(* Who owns the permits. *)

LEMMA OwnedType == ASSUME TypeOK PROVE Owned \in Nat
BY AgentsFinite DEF Owned, TypeOK

LEMMA OwnedKept ==
  ASSUME dropping' = dropping,
         \A a \in Agent : turn'[a] = "none" <=> turn[a] = "none"
  PROVE  Owned' = Owned
<1>1. {a \in Agent : turn'[a] # "none"} = {a \in Agent : turn[a] # "none"}
  OBVIOUS
<1> QED
  BY <1>1 DEF Owned

(* A dispatch pass: with no more than the effective parallelism left after *)
(* the debt is settled, only the permits that came back during the pass    *)
(* can be handed out beyond it, and those were owned before.               *)
LEMMA PlanOwned ==
  ASSUME TypeOK, Plan, PermitsAccounted, OwnedWithinConfigured
  PROVE  PermitsAccounted' /\ OwnedWithinConfigured'
<1>1. PICK settled \in 0..debt, back \in 0..dropping, S \in SUBSET Agent :
       /\ settled = AtMost(debt, available)
       /\ Admits(S, available - settled, back)
       /\ debt' = debt - settled
       /\ available' = available - settled + back - Cardinality(S)
       /\ dropping' = dropping - back
       /\ turn' = [x \in Actor |->
            IF \/ x \in S
               \/ x = Orchestrator /\ OrchestratorDue
               \/ x \in Meta /\ MetaDue(x)
            THEN "planned" ELSE turn[x]]
  BY DEF Plan
<1> DEFINE T == {a \in Agent : turn[a] # "none"}
           U == {a \in Agent : turn'[a] # "none"}
<1>2. \A a \in S : turn[a] = "none"
  BY <1>1 DEF Admits, WantsTurn
<1>3. U = T \cup S /\ T \cap S = {}
  <2>1. \A a \in Agent : a # Orchestrator /\ a \notin Meta
    BY SchedulerAssumption DEF SchedulerAssumption
  <2>2. \A a \in Agent : turn'[a] = IF a \in S THEN "planned" ELSE turn[a]
    BY <1>1, <2>1 DEF Actor, Control
  <2> QED
    BY <1>1, <1>2, <2>2
<1>4. Cardinality(U) = Cardinality(T) + Cardinality(S)
  <2>1. IsFiniteSet(T) /\ IsFiniteSet(S)
    BY AgentsFinite
  <2>2. Cardinality(T) \in Nat /\ Cardinality(S) \in Nat
    BY AgentsFinite
  <2> HIDE DEF T, U
  <2>3. Cardinality(T \cup S) = Cardinality(T) + Cardinality(S) - Cardinality(T \cap S)
    BY <2>1, FS_Union
  <2>4. Cardinality(T \cap S) = 0
    BY <1>3, FS_EmptySet
  <2> QED
    BY <1>3, <2>2, <2>3, <2>4
<1>5. Cardinality(T) \in Nat /\ Cardinality(S) \in Nat
  BY AgentsFinite
<1>6. Owned = Cardinality(T) + dropping /\ Owned' = Cardinality(U) + dropping'
  BY DEF Owned
<1> HIDE DEF T, U
<1>7. Cardinality(S) <= available - settled + back
  BY <1>1 DEF Admits
<1>8. settled = debt \/ settled = available
  BY <1>1 DEF AtMost
<1>9. effective' = effective
  BY DEF Plan
<1>10. /\ available \in Nat /\ debt \in Nat /\ dropping \in Nat
       /\ effective \in 1..Parallel /\ Parallel \in Nat
  BY SchedulerAssumption DEF SchedulerAssumption, TypeOK
<1>11. Cardinality(T) + dropping + available = effective + debt
  BY <1>6 DEF PermitsAccounted
<1>12. Cardinality(T) + dropping <= Parallel
  BY <1>6 DEF OwnedWithinConfigured
<1>13. Owned' + available' = effective' + debt'
  BY <1>1, <1>4, <1>5, <1>6, <1>9, <1>10, <1>11
<1>14. Owned' <= Parallel
  BY <1>1, <1>4, <1>5, <1>6, <1>7, <1>8, <1>10, <1>11, <1>12
<1> QED
  BY <1>13, <1>14 DEF PermitsAccounted, OwnedWithinConfigured

(* The permit of a team turn outlives it until run_turn drops it. *)
LEMMA BookkeepingOwned ==
  ASSUME TypeOK, NEW x \in Actor, turn[x] # "none", Bookkeeping(x)
  PROVE  Owned' = Owned
<1>1. turn' = [turn EXCEPT ![x] = "none"]
  BY DEF Bookkeeping
<1>2. CASE x \in Agent
  <2> DEFINE T == {a \in Agent : turn[a] # "none"}
             U == {a \in Agent : turn'[a] # "none"}
  <2>1. x \in T /\ U = T \ {x}
    BY <1>1, <1>2 DEF TypeOK, Actor
  <2>2. IsFiniteSet(T) /\ Cardinality(T) \in Nat
    BY AgentsFinite
  <2>3. dropping' = dropping + 1 /\ dropping \in Nat
    BY <1>2 DEF Bookkeeping, TypeOK
  <2>4. Owned = Cardinality(T) + dropping /\ Owned' = Cardinality(U) + dropping'
    BY DEF Owned
  <2> HIDE DEF T, U
  <2>5. Cardinality(U) = Cardinality(T) - 1
    BY <2>1, <2>2, FS_RemoveElement
  <2> QED
    BY <2>2, <2>3, <2>4, <2>5
<1>3. CASE x \notin Agent
  <2>1. dropping' = dropping
    BY <1>3 DEF Bookkeeping
  <2>2. \A a \in Agent : turn'[a] = "none" <=> turn[a] = "none"
    BY <1>1, <1>3 DEF TypeOK, Actor
  <2> QED
    BY <2>1, <2>2, OwnedKept
<1> QED
  BY <1>2, <1>3

PermitInv == TypeOK /\ PermitsAccounted /\ OwnedWithinConfigured

LEMMA InitPermitInv == Init => PermitInv
<1> SUFFICES ASSUME Init PROVE PermitInv
  OBVIOUS
<1>1. {a \in Agent : turn[a] # "none"} = {}
  BY DEF Init, Actor
<1>2. Owned = 0
  BY <1>1, FS_EmptySet DEF Init, Owned
<1> QED
  BY <1>2, InitTypeOK, SchedulerAssumption
  DEF SchedulerAssumption, Init, PermitInv, PermitsAccounted, OwnedWithinConfigured

LEMMA PermitsKept ==
  ASSUME PermitInv, Owned' = Owned, UNCHANGED <<available, effective, debt>>
  PROVE  PermitsAccounted' /\ OwnedWithinConfigured'
BY DEF PermitInv, PermitsAccounted, OwnedWithinConfigured

LEMMA StepPermits ==
  ASSUME PermitInv, [Next]_vars PROVE PermitsAccounted' /\ OwnedWithinConfigured'
<1> DEFINE Goal == PermitsAccounted' /\ OwnedWithinConfigured'
<1> USE DEF PermitInv
<1>1. CASE Plan
  BY <1>1, PlanOwned
<1>2. ASSUME NEW x \in Actor, StartTurn(x) PROVE Goal
  <2>1. UNCHANGED permitVars
    BY <1>2 DEF StartTurn
  <2>2. \A a \in Agent : turn'[a] = "none" <=> turn[a] = "none"
    BY <1>2 DEF StartTurn, TypeOK, Actor
  <2> QED
    BY <2>1, <2>2, OwnedKept, PermitsKept DEF permitVars
<1>3. ASSUME NEW x \in Actor, EndTurn(x) \/ EndRun(x) \/ AbortTurn(x) PROVE Goal
  <2>1. turn[x] # "none" /\ Bookkeeping(x)
    BY <1>3 DEF EndTurn, EndRun, AbortTurn
  <2>2. UNCHANGED <<available, effective, debt>>
    BY <2>1 DEF Bookkeeping
  <2> QED
    BY <2>1, <2>2, BookkeepingOwned, PermitsKept
<1>4. CASE DropPermit
  <2>1. turn' = turn /\ dropping' = dropping - 1 /\ dropping \in Nat
    BY <1>4 DEF DropPermit, TypeOK
  <2>2. Owned' = Owned - 1
    <3> DEFINE T == {a \in Agent : turn[a] # "none"}
    <3>1. Cardinality(T) \in Nat
      BY AgentsFinite
    <3>2. Owned = Cardinality(T) + dropping /\ Owned' = Cardinality(T) + dropping'
      BY <2>1 DEF Owned
    <3> HIDE DEF T
    <3> QED
      BY <2>1, <3>1, <3>2
  <2>3. /\ Owned \in Nat /\ available \in Nat /\ effective \in Nat /\ debt \in Nat
        /\ Parallel \in Nat
    BY OwnedType, SchedulerAssumption DEF SchedulerAssumption, TypeOK
  <2>4. available' = available + 1 /\ effective' = effective /\ debt' = debt
    BY <1>4 DEF DropPermit
  <2> QED
    BY <2>2, <2>3, <2>4 DEF PermitsAccounted, OwnedWithinConfigured
<1>5. ASSUME NEW a \in Agent, AgentVerb(a) PROVE Goal
  BY <1>5, AgentVerbType, OwnedKept, PermitsKept DEF permitVars
<1>6. ASSUME NEW m \in Meta, NEW target \in 1..Parallel, SetParallelism(m, target)
      PROVE  Goal
  <2>1. /\ available' - debt' = available - debt + effective' - effective
        /\ UNCHANGED <<turn, dropping>>
        /\ available' \in Nat /\ debt' \in Nat /\ effective' \in 1..Parallel
    BY <1>6, Retuned
  <2>2. Owned' = Owned
    BY <2>1, OwnedKept
  <2>3. /\ Owned \in Nat /\ available \in Nat /\ effective \in 1..Parallel /\ debt \in Nat
        /\ Parallel \in Nat
    BY OwnedType, SchedulerAssumption DEF SchedulerAssumption, TypeOK
  <2> QED
    BY <2>1, <2>2, <2>3 DEF PermitsAccounted, OwnedWithinConfigured
<1>7. CASE ControlVerb /\ \A m \in Meta, t \in 1..Parallel : ~SetParallelism(m, t)
  BY <1>7, ControlVerbType, OwnedKept, PermitsKept DEF ControlVerb, permitVars
<1>8. CASE \/ Settle \/ WakeUp \/ NotifyOne \/ DurationCap \/ Watchdog \/ Done
           \/ UNCHANGED vars
  <2>1. UNCHANGED <<turn, permitVars>>
    BY <1>8 DEF Settle, WakeUp, NotifyOne, DurationCap, Watchdog, WatchdogRenudges,
                WatchdogFires, Done, vars
  <2> QED
    BY <2>1, OwnedKept, PermitsKept DEF permitVars
<1> QED
  BY <1>1, <1>2, <1>3, <1>4, <1>5, <1>6, <1>7, <1>8
  DEF Next, Schedule, TurnStep, ControlVerb

LEMMA PermitInvariant == Spec => []PermitInv
<1>1. Init => PermitInv
  BY InitPermitInv
<1>2. PermitInv /\ [Next]_vars => PermitInv'
  BY StepTypeOK, StepPermits DEF PermitInv
<1> QED
  BY <1>1, <1>2, PTL DEF Spec

(* Permits are neither lost nor made, whatever set_parallelism does.       *)
THEOREM Accounting == Spec => []PermitsAccounted
<1>1. PermitInv => PermitsAccounted
  BY DEF PermitInv
<1> QED
  BY <1>1, PermitInvariant, PTL

(* The CLI ceiling on the team turns that own a permit.                    *)
THEOREM Ceiling == Spec => []OwnedWithinConfigured
<1>1. PermitInv => OwnedWithinConfigured
  BY DEF PermitInv
<1> QED
  BY <1>1, PermitInvariant, PTL

LEMMA QuietHasPermit == PermitInv => PermitWhenQuiet
<1> SUFFICES ASSUME PermitInv, InFlight = {}, dropping = 0 PROVE available > debt
  BY DEF PermitWhenQuiet
<1>1. {a \in Agent : turn[a] # "none"} = {}
  BY DEF InFlight, Actor
<1>2. Owned = 0
  BY <1>1, FS_EmptySet DEF Owned
<1>3. available \in Nat /\ debt \in Nat /\ effective \in 1..Parallel /\ Parallel \in Nat
  BY SchedulerAssumption DEF SchedulerAssumption, PermitInv, TypeOK
<1> QED
  BY <1>2, <1>3 DEF PermitInv, PermitsAccounted

(* With nobody in flight a permit is free beyond the debt, so a pass can   *)
(* always dispatch somebody who wants a turn.                              *)
THEOREM PermitAvailable == Spec => []PermitWhenQuiet
  BY QuietHasPermit, PermitInvariant, PTL

----------------------------------------------------------------------------
(* Wakeups. *)

(* A pass that ends with nothing in flight and no nudge to come has left   *)
(* nothing to dispatch: there was a permit for the first who wanted it.    *)
LEMMA PlanWakeup == ASSUME PermitInv, Plan PROVE NoLostWakeup'
<1> SUFFICES ASSUME nudging' = 0, dropping' = 0, InFlight' = {}
             PROVE  ~finishing' /\ ~WouldDispatch'
  BY DEF NoLostWakeup
<1>1. PICK settled \in 0..debt, back \in 0..dropping, S \in SUBSET Agent :
       /\ settled = AtMost(debt, available)
       /\ Admits(S, available - settled, back)
       /\ dropping' = dropping - back
       /\ nudging' = AtMost(nudging + back, MaxNudging)
       /\ turn' = [x \in Actor |->
            IF \/ x \in S
               \/ x = Orchestrator /\ OrchestratorDue
               \/ x \in Meta /\ MetaDue(x)
            THEN "planned" ELSE turn[x]]
  BY DEF Plan
<1>2. back = 0 /\ dropping = 0
  <2>1. nudging \in Nat /\ dropping \in Nat /\ MaxNudging \in Nat \ {0}
    BY SchedulerAssumption DEF SchedulerAssumption, PermitInv, TypeOK
  <2> QED
    BY <1>1, <2>1 DEF AtMost
<1>3. \A x \in Actor : turn'[x] = "none"
  BY DEF InFlight
<1>4. /\ S = {} /\ ~OrchestratorDue /\ \A m \in Meta : ~MetaDue(m)
      /\ turn' = turn
  <2>1. \A x \in Actor : ~(\/ x \in S
                           \/ x = Orchestrator /\ OrchestratorDue
                           \/ x \in Meta /\ MetaDue(x))
    BY <1>1, <1>3
  <2> QED
    BY <1>1, <2>1 DEF Actor, Control, PermitInv, TypeOK
<1>5. available > debt
  <2>1. InFlight = {}
    BY <1>3, <1>4 DEF InFlight
  <2> QED
    BY <1>2, <2>1, QuietHasPermit DEF PermitWhenQuiet
<1>6. \A a \in Agent : ~WantsTurn(a)
  <2>1. available - settled > 0
    BY <1>1, <1>5 DEF AtMost, PermitInv, TypeOK
  <2>2. ASSUME NEW a \in Agent PROVE Cardinality({b \in S : b < a}) = 0
    BY <1>4, FS_EmptySet
  <2>3. ASSUME NEW a \in Agent, WantsTurn(a) PROVE FALSE
    <3>1. Cardinality({b \in S : b < a}) >= available - settled
      BY <1>1, <1>4, <2>3 DEF Admits
    <3>2. available \in Nat /\ settled \in Nat
      BY <1>1 DEF PermitInv, TypeOK
    <3> QED
      BY <2>1, <2>2, <3>1, <3>2
  <2> QED
    BY <2>3
<1>7. /\ firstTick' = firstTick /\ forcedTick' = forcedTick
      /\ priority' = priority /\ unobserved' = unobserved
  BY <1>4 DEF Plan, PermitInv, TypeOK
<1>8. UNCHANGED <<state, open, mail, freshEvents, freshWork, finishing>> /\ ~finishing
  BY DEF Plan, workVars
<1>9. ~OrchestratorDue' /\ \A m \in Meta : ~MetaDue(m)'
  BY <1>4, <1>7, <1>8 DEF OrchestratorDue, MetaDue
<1>10. \A a \in Agent : ~WantsTurn(a)'
  BY <1>4, <1>6, <1>8 DEF WantsTurn
<1> QED
  BY <1>8, <1>9, <1>10 DEF WouldDispatch

(* An actor in its turn keeps somebody in flight. *)
LEMMA InTurnAwake ==
  ASSUME NEW x \in Actor, turn'[x] # "none" PROVE NoLostWakeup'
BY DEF NoLostWakeup, InFlight

LEMMA NudgedAwake ==
  ASSUME token' \/ nudging' > 0, nudging' \in Nat PROVE NoLostWakeup'
BY DEF NoLostWakeup

LEMMA StepNoLostWakeup ==
  ASSUME PermitInv, NoLostWakeup, [Next]_vars PROVE NoLostWakeup'
<1> USE DEF PermitInv
<1>0. ASSUME NEW x \in Actor, Verb(x) PROVE NoLostWakeup'
  BY <1>0, InTurnAwake DEF Verb
<1>1. CASE Plan
  BY <1>1, PlanWakeup
<1>2. CASE Settle
  <2>1. InFlight' = InFlight
    BY <1>2 DEF Settle, InFlight
  <2> QED
    BY <1>2, <2>1 DEF Settle, NoLostWakeup
<1>3. CASE WakeUp
  BY <1>3 DEF WakeUp, NoLostWakeup
<1>4. ASSUME NEW x \in Actor, StartTurn(x) PROVE NoLostWakeup'
  <2>1. turn'[x] = "running"
    BY <1>4 DEF StartTurn, TypeOK
  <2> QED
    BY <2>1, InTurnAwake
<1>5. ASSUME NEW x \in Actor, EndTurn(x) \/ EndRun(x) \/ AbortTurn(x)
      PROVE  NoLostWakeup'
  BY <1>5 DEF EndTurn, EndRun, AbortTurn, Bookkeeping, NoLostWakeup
<1>6. CASE DropPermit \/ DurationCap \/ Watchdog
  <2>1. NotifySoon
    BY <1>6 DEF DropPermit, DurationCap, Watchdog, WatchdogRenudges, WatchdogFires
  <2> QED
    BY <2>1, NotifySoonType, NudgedAwake
<1>7. CASE NotifyOne
  BY <1>7 DEF NotifyOne, NoLostWakeup
<1>8. ASSUME NEW a \in Agent, AgentVerb(a) PROVE NoLostWakeup'
  BY <1>8, <1>0, AgentVerbType DEF Actor
<1>9. ASSUME NEW m \in Meta, NEW target \in 1..Parallel, SetParallelism(m, target)
      PROVE  NoLostWakeup'
  BY <1>9, <1>0, SetParallelismType DEF Actor, Control
<1>10. CASE ControlVerb /\ \A m \in Meta, t \in 1..Parallel : ~SetParallelism(m, t)
  <2>1. PICK x \in Control : Verb(x)
    BY <1>10, ControlVerbType DEF ControlVerb
  <2> QED
    BY <2>1, <1>0 DEF Actor
<1>11. CASE UNCHANGED vars
  <2>1. /\ UNCHANGED <<turn, state, open, mail, freshEvents, freshWork, unobserved, priority>>
        /\ UNCHANGED <<dropping, firstTick, forcedTick, nudging, token, sched, finishing>>
    BY <1>11 DEF vars, workVars, newsVars, permitVars, tickVars, nudgeVars
  <2>2. InFlight' = InFlight /\ WouldDispatch' = WouldDispatch
    BY <2>1 DEF InFlight, WouldDispatch, OrchestratorDue, MetaDue, WantsTurn
  <2> QED
    BY <2>1, <2>2 DEF NoLostWakeup
<1> QED
  BY <1>1, <1>2, <1>3, <1>4, <1>5, <1>6, <1>7, <1>8, <1>9, <1>10, <1>11
  DEF Next, Schedule, TurnStep, ControlVerb, Done

(* The reactor never sleeps through the last nudge: with no token stored,  *)
(* no nudge to come and nothing in flight, there is nothing to dispatch    *)
(* and no end of the run to settle.                                        *)
THEOREM NoWakeupLost == Spec => []NoLostWakeup
<1>1. Init => NoLostWakeup
  BY DEF Init, NoLostWakeup
<1>2. PermitInv /\ NoLostWakeup /\ [Next]_vars => NoLostWakeup'
  BY StepNoLostWakeup
<1> QED
  BY <1>1, <1>2, PermitInvariant, PTL DEF Spec
=============================================================================
