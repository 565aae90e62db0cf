---------------------------- MODULE WorldProofs ----------------------------
(***************************************************************************)
(* Machine-checked proofs about World, for every set of agents, teams and  *)
(* metas, every bound on tasks and directives, and every park threshold:   *)
(* type correctness, the inductive invariant, the two action properties    *)
(* and the implementation of Workforce.  Of Projection: the board          *)
(* replayed from the log is the board, and what the folds say of an agent  *)
(* that is awake, or parked, is true of its slot.                          *)
(***************************************************************************)
EXTENDS Projection, TLAPS, SequenceTheorems

(* Changing one entry of the directive list keeps it a list of states. *)
LEMMA ResolveType ==
  ASSUME TypeOK, NEW c, ValidCite(c),
         NEW s \in {"fulfilled", "declined"}, Resolve(c, s)
  PROVE  directives' \in Seq({"mechanical", "pending", "fulfilled", "declined"})
<1> DEFINE D == {"mechanical", "pending", "fulfilled", "declined"}
<1>1. CASE c = NoCite
  BY <1>1 DEF Resolve, TypeOK
<1>2. CASE c # NoCite
  <2>1. c \in 1..Len(directives)
    BY <1>2 DEF ValidCite, TypeOK
  <2>2. directives' = [directives EXCEPT ![c] = s]
    BY <1>2 DEF Resolve
  <2>3. directives \in Seq(D)
    BY DEF TypeOK
  <2> HIDE DEF D
  <2>4. s \in D
    BY DEF D
  <2>5. directives' \in Seq(D)
    BY <2>1, <2>2, <2>3, <2>4
  <2> QED
    BY <2>5 DEF D
<1> QED
  BY <1>1, <1>2

LEMMA InitTypeOK == Init => TypeOK
<1> SUFFICES ASSUME Init PROVE TypeOK
  OBVIOUS
<1>1. BoardTypeOK
  BY DEF Init, BoardInit, BoardTypeOK, Status
<1>2. directives \in Seq({"mechanical", "pending", "fulfilled", "declined"})
  BY DEF Init
<1>3. /\ state \in [Agent -> {"Idle", "Working", "Asleep"}]
      /\ anchor \in [Agent -> Task \cup {NoTask}]
      /\ malformed \in [Agent -> Nat]
      /\ turn \in [Agent -> {"none", "quiet", "invalid", "valid"}]
  BY DEF Init
<1>4. lock \in Actor \cup {Free} /\ nextTask \in Nat
  BY DEF Init
<1>5. finishRequested \in BOOLEAN /\ finishing \in {"no", "clean", "cap", "error"}
  BY DEF Init
<1> QED
  BY <1>1, <1>2, <1>3, <1>4, <1>5 DEF TypeOK

(* The fields every step types without help from the rest. *)
TurnTypeOK ==
  /\ turn \in [Agent -> {"none", "quiet", "invalid", "valid"}]
  /\ lock \in Actor \cup {Free}
  /\ finishing \in {"no", "clean", "cap", "error"}

SlotTypeOK ==
  /\ state \in [Agent -> {"Idle", "Working", "Asleep"}]
  /\ anchor \in [Agent -> Task \cup {NoTask}]
  /\ malformed \in [Agent -> Nat]

(* The transitions of the board keep its types. *)
LEMMA BoardType ==
  ASSUME BoardTypeOK,
         \/ \E t \in Task, g \in Team \cup {NoTeam} : CreateTask(t, g)
         \/ \E t \in Task, a \in Agent : Claim(a, t) \/ Release(a, t) \/ Complete(a, t)
         \/ \E t \in Task : Unassign(t) \/ Cancel(t)
         \/ \E g \in Team, ms \in SUBSET Agent : FormTeam(g, ms) \/ SetTeamMembers(g, ms)
         \/ \E g \in Team : DissolveTeam(g)
         \/ UNCHANGED boardVars
  PROVE  BoardTypeOK'
BY DEF BoardTypeOK, Status, CreateTask, Claim, Release, Complete, Unassign,
       Cancel, LeaveClaimed, FormTeam, SetTeamMembers, DissolveTeam, boardVars

(* The types of every step of a turn that calls no verb. *)
LEMMA TurnStepType == ASSUME TypeOK, TurnStep PROVE TypeOK'
<1> USE DEF TypeOK, BoardTypeOK, boardVars, agentVars
<1>1. ASSUME NEW x \in Actor, BeginBatch(x) PROVE TypeOK'
  BY <1>1 DEF BeginBatch
<1>2. ASSUME EndBatch PROVE TypeOK'
  BY <1>2 DEF EndBatch
<1>3. ASSUME NEW a \in Agent, StartTurn(a) PROVE TypeOK'
  BY <1>3 DEF StartTurn
<1>4. ASSUME NEW a \in Agent, FinalizeTurn(a) PROVE TypeOK'
  <2>1. malformed' \in [Agent -> Nat]
    <3>1. malformed[a] + 1 \in Nat
      OBVIOUS
    <3> QED
      BY <1>4, <3>1 DEF FinalizeTurn
  <2>2. /\ state' \in [Agent -> {"Idle", "Working", "Asleep"}]
        /\ anchor' \in [Agent -> Task \cup {NoTask}]
    BY <1>4 DEF FinalizeTurn
  <2>3. /\ turn' \in [Agent -> {"none", "quiet", "invalid", "valid"}]
        /\ UNCHANGED <<boardVars, lock, nextTask, directives,
                       finishRequested, finishing>>
    BY <1>4 DEF FinalizeTurn
  <2> QED
    BY <2>1, <2>2, <2>3
<1>5. ASSUME NEW a \in Agent, AbortTurn(a) PROVE TypeOK'
  BY <1>5 DEF AbortTurn
<1>6. ASSUME CleanFinish PROVE TypeOK'
  BY <1>6 DEF CleanFinish, EndRun
<1>7. ASSUME ForceTerminate PROVE TypeOK'
  BY <1>7 DEF ForceTerminate, EndRun
<1> QED
  BY <1>1, <1>2, <1>3, <1>4, <1>5, <1>6, <1>7 DEF TurnStep

(* The types of a team agent's calls. *)
LEMMA AgentVerbType ==
  ASSUME TypeOK, NEW a \in Agent, AgentVerb(a) PROVE TypeOK'
<1> USE DEF TypeOK, Calls, WellFormed
<1>1. ASSUME NEW t \in Task, HandleClaim(a, t) PROVE TypeOK'
  <2>1. BoardTypeOK'
    BY <1>1, BoardType DEF HandleClaim
  <2> QED
    BY <1>1, <2>1 DEF HandleClaim
<1>2. ASSUME NEW t \in Task, HandleComplete(a, t) PROVE TypeOK'
  <2>1. BoardTypeOK'
    BY <1>2, BoardType DEF HandleComplete
  <2> QED
    BY <1>2, <2>1 DEF HandleComplete, SetIdle
<1>3. ASSUME NEW t \in Task, HandleRelease(a, t) PROVE TypeOK'
  <2>1. BoardTypeOK'
    BY <1>3, BoardType DEF HandleRelease
  <2> QED
    BY <1>3, <2>1 DEF HandleRelease, SetIdle
<1>4. ASSUME HandleSelfSleep(a) PROVE TypeOK'
  BY <1>4 DEF HandleSelfSleep, BoardTypeOK, boardVars
<1>5. ASSUME OtherCall(a) PROVE TypeOK'
  BY <1>5 DEF OtherCall, BoardTypeOK, boardVars, agentVars
<1>6. ASSUME InvalidCall(a) PROVE TypeOK'
  BY <1>6 DEF InvalidCall, BoardTypeOK, boardVars, agentVars
<1> QED
  BY <1>1, <1>2, <1>3, <1>4, <1>5, <1>6 DEF AgentVerb

(* Sleep and wake, whoever asks, keep the slots typed. *)
LEMMA SleepWakeType ==
  ASSUME TypeOK, NEW a \in Agent, Sleeps(a) \/ Wakes(a)
  PROVE  BoardTypeOK' /\ SlotTypeOK' /\ nextTask' \in Nat
         /\ finishRequested' \in BOOLEAN
<1> USE DEF TypeOK, BoardTypeOK, SlotTypeOK, boardVars
<1>1. CASE Sleeps(a)
  BY <1>1 DEF Sleeps
<1>2. CASE Wakes(a)
  <2>1. BoardTypeOK' /\ nextTask' \in Nat /\ finishRequested' \in BOOLEAN
    BY <1>2 DEF Wakes
  <2>2. malformed' \in [Agent -> Nat]
    BY <1>2 DEF Wakes
  <2>3. CASE ~HasClaim(a) /\ SetIdle(a)
    BY <2>1, <2>2, <2>3 DEF SetIdle
  <2>4. ASSUME NEW t \in Task, state' = [state EXCEPT ![a] = "Working"],
               anchor' = [anchor EXCEPT ![a] = t]
        PROVE  SlotTypeOK'
    BY <2>2, <2>4
  <2> QED
    BY <1>2, <2>1, <2>3, <2>4 DEF Wakes
<1> QED
  BY <1>1, <1>2

(* The types of the orchestrator's calls. *)
LEMMA OrchestratorVerbType ==
  ASSUME TypeOK, OrchestratorVerb PROVE TypeOK'
<1> DEFINE D == {"mechanical", "pending", "fulfilled", "declined"}
<1>0. ASSUME NEW x, Calls(x) PROVE TurnTypeOK'
  BY <1>0 DEF Calls, WellFormed, TypeOK, TurnTypeOK
<1>1. ASSUME NEW g \in Team \cup {NoTeam}, HandleCreateTask(g) PROVE TypeOK'
  <2>1. BoardTypeOK'
    BY <1>1, BoardType DEF HandleCreateTask, TypeOK
  <2> QED
    BY <1>1, <1>0, <2>1 DEF HandleCreateTask, TypeOK, TurnTypeOK, agentVars
<1>2. ASSUME NEW t \in Task, HandleCancelTask(t) PROVE TypeOK'
  <2>1. BoardTypeOK'
    BY <1>2, BoardType DEF HandleCancelTask, TypeOK
  <2> QED
    BY <1>2, <1>0, <2>1 DEF HandleCancelTask, TypeOK, TurnTypeOK, agentVars
<1>3. ASSUME NEW g \in Team, NEW ms \in SUBSET Agent, HandleFormTeam(g, ms)
      PROVE TypeOK'
  <2>1. BoardTypeOK'
    BY <1>3, BoardType DEF HandleFormTeam, TypeOK
  <2> QED
    BY <1>3, <1>0, <2>1 DEF HandleFormTeam, TypeOK, TurnTypeOK, agentVars
<1>4. ASSUME NEW g \in Team, HandleDissolveTeam(g) PROVE TypeOK'
  <2>1. BoardTypeOK'
    BY <1>4, BoardType DEF HandleDissolveTeam, TypeOK
  <2> QED
    BY <1>4, <1>0, <2>1 DEF HandleDissolveTeam, TypeOK, TurnTypeOK, agentVars
<1>5. ASSUME NEW a \in Agent, HandleSleepAgent(a) \/ HandleWakeAgent(a)
      PROVE TypeOK'
  BY <1>5, <1>0, SleepWakeType
     DEF HandleSleepAgent, HandleWakeAgent, TypeOK, TurnTypeOK, SlotTypeOK
<1>6. ASSUME NEW c, CitingVerb(c) PROVE TypeOK'
  <2>1. ASSUME NEW t \in Task, HandleUnassign(t, c) PROVE TypeOK'
    <3>1. BoardTypeOK'
      BY <2>1, BoardType DEF HandleUnassign, TypeOK
    <3>2. SlotTypeOK'
      BY <2>1 DEF HandleUnassign, SetIdle, TypeOK, SlotTypeOK
    <3>3. directives' \in Seq(D)
      BY <2>1, ResolveType DEF HandleUnassign
    <3> QED
      BY <2>1, <1>0, <3>1, <3>2, <3>3
         DEF HandleUnassign, TypeOK, TurnTypeOK, SlotTypeOK
  <2>2. ASSUME NEW g \in Team, NEW ms \in SUBSET Agent,
               HandleSetTeamMembers(g, ms, c)
        PROVE TypeOK'
    <3>1. BoardTypeOK'
      BY <2>2, BoardType DEF HandleSetTeamMembers, TypeOK
    <3>2. directives' \in Seq(D)
      BY <2>2, ResolveType DEF HandleSetTeamMembers
    <3> QED
      BY <2>2, <1>0, <3>1, <3>2
         DEF HandleSetTeamMembers, TypeOK, TurnTypeOK, agentVars
  <2>3. ASSUME NEW a \in Agent, HandleRespecialize(a, c) PROVE TypeOK'
    <3>1. directives' \in Seq(D)
      BY <2>3, ResolveType DEF HandleRespecialize
    <3> QED
      BY <2>3, <1>0, <3>1 DEF HandleRespecialize, TypeOK, TurnTypeOK,
         BoardTypeOK, boardVars, agentVars
  <2> QED
    BY <1>6, <2>1, <2>2, <2>3 DEF CitingVerb
<1>7. ASSUME NEW d \in DOMAIN directives, HandleDecline(d) PROVE TypeOK'
  <2>1. directives' \in Seq(D)
    BY <1>7, ResolveType DEF HandleDecline, ValidCite
  <2> QED
    BY <1>7, <1>0, <2>1 DEF HandleDecline, TypeOK, TurnTypeOK,
       BoardTypeOK, boardVars, agentVars
<1>8. ASSUME HandleFinishRun PROVE TypeOK'
  BY <1>8, <1>0 DEF HandleFinishRun, TypeOK, TurnTypeOK, BoardTypeOK,
     boardVars, agentVars
<1> QED
  BY <1>1, <1>2, <1>3, <1>4, <1>5, <1>6, <1>7, <1>8 DEF OrchestratorVerb

(* The types of a meta-agent's calls. *)
LEMMA MetaVerbType ==
  ASSUME TypeOK, NEW m \in Meta, MetaVerb(m) PROVE TypeOK'
<1>0. ASSUME Calls(m) PROVE TurnTypeOK'
  BY <1>0 DEF Calls, WellFormed, TypeOK, TurnTypeOK
<1>1. ASSUME HandlePropose(m) PROVE TypeOK'
  BY <1>1, <1>0 DEF HandlePropose, TypeOK, TurnTypeOK, BoardTypeOK,
     boardVars, agentVars
<1>2. ASSUME NEW a \in Agent,
             HandleMetaSleepAgent(m, a) \/ HandleMetaWakeAgent(m, a)
      PROVE TypeOK'
  <2>1. IssueMechanical(m) /\ (Sleeps(a) \/ Wakes(a))
    BY <1>2 DEF HandleMetaSleepAgent, HandleMetaWakeAgent
  <2>2. directives' \in Seq({"mechanical", "pending", "fulfilled", "declined"})
    BY <2>1 DEF IssueMechanical, TypeOK
  <2>3. TurnTypeOK'
    BY <2>1, <1>0 DEF IssueMechanical
  <2>4. BoardTypeOK' /\ SlotTypeOK' /\ nextTask' \in Nat
        /\ finishRequested' \in BOOLEAN
    BY <2>1, SleepWakeType
  <2> QED
    BY <2>2, <2>3, <2>4 DEF TypeOK, TurnTypeOK, SlotTypeOK
<1> QED
  BY <1>1, <1>2 DEF MetaVerb

(* Type correctness of the write path, for all parameters. *)
THEOREM TypeCorrect == Spec => []TypeOK
<1>1. TypeOK /\ [Next]_vars => TypeOK'
  <2> SUFFICES ASSUME TypeOK, [Next]_vars PROVE TypeOK'
    OBVIOUS
  <2>1. CASE UNCHANGED vars
    BY <2>1 DEF vars, TypeOK, BoardTypeOK, boardVars, agentVars
  <2>2. CASE Settle
    BY <2>2 DEF Settle, vars, TypeOK, BoardTypeOK, boardVars, agentVars
  <2> QED
    BY <2>1, <2>2, TurnStepType, AgentVerbType, OrchestratorVerbType,
       MetaVerbType DEF Next
<1> QED
  BY <1>1, InitTypeOK, PTL DEF Spec

----------------------------------------------------------------------------
(* The inductive invariant of World: slots and board never disagree, one   *)
(* claim per agent, the park is exact, a tagged task's team is live.       *)

(* The invariant in three groups, each kept by its own argument. *)
BoardInv == ClaimantIffClaimed /\ OneClaimPerAgent /\ TaggedTeamLive

SlotInv == AgentMatchesBoard /\ SleeperInTurnHoldsNoClaim /\ ParkedAtK

LEMMA InitIInv == Init => IInv
<1> SUFFICES ASSUME Init PROVE IInv
  OBVIOUS
<1>1. TypeOK
  BY InitTypeOK
<1>2. BoardInv
  BY DEF Init, BoardInit, BoardInv, ClaimantIffClaimed, OneClaimPerAgent,
         TaggedTeamLive, Claims, NonTerminal
<1>3. AgentMatchesBoard /\ SleeperInTurnHoldsNoClaim
  BY DEF Init, BoardInit, AgentMatchesBoard, SleeperInTurnHoldsNoClaim,
         HasClaim, Claims
<1>4. ParkedAtK
  <2>1. ParkK \in Nat /\ ParkK # 0
    BY WorldAssumption
  <2>2. \A a \in Agent : malformed[a] = 0
    BY DEF Init
  <2>3. 0 <= ParkK
    BY <2>1
  <2> QED
    BY <2>1, <2>2, <2>3 DEF ParkedAtK
<1>5. HolderInTurn
  BY DEF Init, HolderInTurn
<1> QED
  BY <1>1, <1>2, <1>3, <1>4, <1>5 DEF IInv, BoardInv

(* What the board keeps whatever transition it makes. *)
BoardStep ==
  \/ \E t \in Task, g \in Team \cup {NoTeam} : CreateTask(t, g)
  \/ \E t \in Task, a \in Agent : Claim(a, t) \/ Release(a, t) \/ Complete(a, t)
  \/ \E t \in Task : Unassign(t) \/ Cancel(t)
  \/ \E g \in Team, ms \in SUBSET Agent : FormTeam(g, ms) \/ SetTeamMembers(g, ms)
  \/ \E g \in Team : DissolveTeam(g)
  \/ UNCHANGED boardVars

(* Every way out of Claimed keeps the board's invariants. *)
LEMMA LeaveClaimedInv ==
  ASSUME BoardTypeOK, BoardInv, NEW t \in Task, NEW s \in Status \ {"Claimed"},
         status[t] = "Claimed", LeaveClaimed(t, s)
  PROVE  BoardInv'
<1> USE DEF BoardTypeOK, BoardInv, LeaveClaimed, NonTerminal, Claims
<1>1. ClaimantIffClaimed'
  BY BoardAssumption DEF ClaimantIffClaimed
<1>2. OneClaimPerAgent'
  BY DEF OneClaimPerAgent
<1>3. TaggedTeamLive'
  BY DEF TaggedTeamLive
<1> QED
  BY <1>1, <1>2, <1>3

LEMMA BoardInvStep ==
  ASSUME BoardTypeOK, BoardInv, BoardStep PROVE BoardInv'
<1> USE DEF BoardTypeOK, BoardInv
<1>1. ASSUME NEW t \in Task, NEW g \in Team \cup {NoTeam}, CreateTask(t, g)
      PROVE BoardInv'
  <2>1. ClaimantIffClaimed' /\ OneClaimPerAgent'
    BY <1>1 DEF CreateTask, MayCreate, ClaimantIffClaimed, OneClaimPerAgent, Claims
  <2>2. TaggedTeamLive'
    BY <1>1, BoardAssumption DEF CreateTask, MayCreate, TaggedTeamLive, NonTerminal
  <2> QED
    BY <2>1, <2>2
<1>2. ASSUME NEW t \in Task, NEW a \in Agent, Claim(a, t) PROVE BoardInv'
  <2>1. ClaimantIffClaimed'
    BY <1>2, BoardAssumption DEF Claim, MayClaim, ClaimantIffClaimed
  <2>2. OneClaimPerAgent'
    BY <1>2 DEF Claim, MayClaim, OneClaimPerAgent, Claims, HasClaim
  <2>3. TaggedTeamLive'
    BY <1>2 DEF Claim, MayClaim, TaggedTeamLive, NonTerminal
  <2> QED
    BY <2>1, <2>2, <2>3
<1>3. ASSUME NEW t \in Task, NEW a \in Agent, Release(a, t) \/ Complete(a, t)
      PROVE BoardInv'
  BY <1>3, LeaveClaimedInv DEF Release, Complete, Claims, Status
<1>4. ASSUME NEW t \in Task, Unassign(t) PROVE BoardInv'
  BY <1>4, LeaveClaimedInv DEF Unassign, Status
<1>5. ASSUME NEW t \in Task, Cancel(t) PROVE BoardInv'
  BY <1>5 DEF Cancel, ClaimantIffClaimed, OneClaimPerAgent, TaggedTeamLive,
              NonTerminal, Claims
<1>6. ASSUME NEW g \in Team, NEW ms \in SUBSET Agent,
             FormTeam(g, ms) \/ SetTeamMembers(g, ms)
      PROVE BoardInv'
  BY <1>6 DEF FormTeam, SetTeamMembers, ClaimantIffClaimed, OneClaimPerAgent,
              TaggedTeamLive, NonTerminal, Claims
<1>7. ASSUME NEW g \in Team, DissolveTeam(g) PROVE BoardInv'
  BY <1>7 DEF DissolveTeam, MayDissolve, ClaimantIffClaimed, OneClaimPerAgent,
              TaggedTeamLive, NonTerminal, Claims
<1>8. CASE UNCHANGED boardVars
  BY <1>8 DEF boardVars, ClaimantIffClaimed, OneClaimPerAgent,
              TaggedTeamLive, NonTerminal, Claims
<1> QED
  BY <1>1, <1>2, <1>3, <1>4, <1>5, <1>6, <1>7, <1>8 DEF BoardStep

(* No verb ends a turn, its own or another's. *)
TurnsKept == \A a \in Agent : turn'[a] = "none" <=> turn[a] = "none"

LEMMA CallsKeepTurns ==
  ASSUME TypeOK, HolderInTurn, NEW x \in Actor, Calls(x) \/ InvalidCall(x)
  PROVE  TurnsKept /\ HolderInTurn'
<1>0. x # Free
  BY WorldAssumption DEF Actor, Control
<1>1. lock = x /\ lock' = x /\ finishing' = finishing
  BY DEF Calls, InvalidCall
<1>2. TurnsKept
  <2>1. CASE x \in Agent /\ Calls(x)
    BY <2>1, <1>0, <1>1 DEF Calls, WellFormed, TurnsKept, HolderInTurn, TypeOK
  <2>2. CASE x \notin Agent /\ Calls(x)
    BY <2>2 DEF Calls, WellFormed, TurnsKept
  <2>3. CASE InvalidCall(x)
    BY <2>3, <1>0, <1>1 DEF InvalidCall, TurnsKept, HolderInTurn, TypeOK
  <2> QED
    BY <2>1, <2>2, <2>3
<1>3. HolderInTurn'
  BY <1>0, <1>1, <1>2 DEF HolderInTurn, TurnsKept
<1> QED
  BY <1>2, <1>3

(* A verb that moves neither a slot nor a claim. *)
ClaimsKept == \A a \in Agent, t \in Task : Claims(a, t)' <=> Claims(a, t)

LEMMA SlotFrame ==
  ASSUME SlotInv, TurnsKept, ClaimsKept, UNCHANGED agentVars
  PROVE  SlotInv'
<1> USE DEF SlotInv, agentVars, TurnsKept, ClaimsKept
<1>1. \A a \in Agent : HasClaim(a)' <=> HasClaim(a)
  BY DEF HasClaim
<1>2. AgentMatchesBoard'
  <2>1. ASSUME NEW a \in Agent, state'[a] = "Working"
        PROVE  anchor'[a] \in Task /\ Claims(a, anchor[a])'
    BY <2>1 DEF AgentMatchesBoard
  <2>2. anchor' = anchor /\ state' = state
    OBVIOUS
  <2> QED
    BY <1>1, <2>1, <2>2 DEF AgentMatchesBoard, Claims
<1>3. SleeperInTurnHoldsNoClaim'
  BY <1>1 DEF SleeperInTurnHoldsNoClaim
<1>4. ParkedAtK'
  BY DEF ParkedAtK
<1> QED
  BY <1>2, <1>3, <1>4

(* Moving one agent's slot and at most that agent's claims: what is left   *)
(* to show is that the three slot facts hold of that agent afterwards.     *)
OthersKept(a) ==
  \A b \in Agent \ {a} :
    /\ state'[b] = state[b] /\ anchor'[b] = anchor[b]
    /\ malformed'[b] = malformed[b]
    /\ turn'[b] = "none" <=> turn[b] = "none"
    /\ \A t \in Task : Claims(b, t)' <=> Claims(b, t)

SlotFacts(a) ==
  /\ state[a] = "Working" => anchor[a] \in Task /\ Claims(a, anchor[a])
  /\ state[a] # "Working" => anchor[a] = NoTask
  /\ state[a] = "Idle" => ~HasClaim(a)
  /\ state[a] = "Asleep" /\ turn[a] # "none" => ~HasClaim(a)
  /\ malformed[a] <= ParkK
  /\ malformed[a] = ParkK => state[a] = "Asleep" /\ turn[a] = "none"

LEMMA SlotFactsAll == SlotInv <=> \A a \in Agent : SlotFacts(a)
BY DEF SlotInv, SlotFacts, AgentMatchesBoard, SleeperInTurnHoldsNoClaim,
       ParkedAtK

LEMMA OneSlotMoves ==
  ASSUME SlotInv, NEW a \in Agent, OthersKept(a), SlotFacts(a)'
  PROVE  SlotInv'
<1>1. ASSUME NEW b \in Agent \ {a} PROVE SlotFacts(b)'
  <2>1. SlotFacts(b)
    BY SlotFactsAll
  <2>2. HasClaim(b)' <=> HasClaim(b)
    BY DEF OthersKept, HasClaim
  <2>3. anchor[b] \in Task => (Claims(b, anchor[b])' <=> Claims(b, anchor[b]))
    BY DEF OthersKept, Claims
  <2>4. /\ state'[b] = state[b] /\ anchor'[b] = anchor[b]
        /\ malformed'[b] = malformed[b]
        /\ turn'[b] = "none" <=> turn[b] = "none"
    BY DEF OthersKept
  <2> QED
    BY <2>1, <2>2, <2>3, <2>4 DEF SlotFacts, Claims
<1>2. \A b \in Agent : SlotFacts(b)'
  BY <1>1
<1> QED
  BY <1>2 DEF SlotInv, SlotFacts, AgentMatchesBoard,
              SleeperInTurnHoldsNoClaim, ParkedAtK

(* The calls of a team agent. *)
LEMMA AgentVerbSlots ==
  ASSUME IInv, NEW a \in Agent, AgentVerb(a) PROVE SlotInv'
<1> USE DEF IInv
<1>1. SlotInv /\ SlotFacts(a)
  BY SlotFactsAll DEF SlotInv
<1>2. a \in Actor /\ a # Free
  BY WorldAssumption DEF Actor
<1>3. lock = a => turn[a] # "none" /\ malformed[a] # ParkK
  BY <1>1, <1>2 DEF HolderInTurn, SlotFacts
<1>4. ASSUME Calls(a) \/ InvalidCall(a) PROVE TurnsKept /\ lock = a
  BY <1>2, <1>4, CallsKeepTurns DEF Calls, InvalidCall
<1>5. ASSUME NEW t \in Task, HandleClaim(a, t) PROVE SlotInv'
  <2>1. Calls(a) /\ TurnsKept /\ lock = a
    BY <1>4, <1>5 DEF HandleClaim
  <2>2. OthersKept(a)
    BY <1>5, <2>1 DEF OthersKept, HandleClaim, Claim, MayClaim, Claims, TurnsKept,
                      TypeOK, BoardTypeOK
  <2>3. SlotFacts(a)'
    <3>1. state'[a] = "Working" /\ anchor'[a] = t /\ malformed'[a] = malformed[a]
      BY <1>5 DEF HandleClaim, TypeOK
    <3>2. Claims(a, t)'
      BY <1>5 DEF HandleClaim, Claim, MayClaim, Claims, TypeOK, BoardTypeOK
    <3> QED
      BY <1>1, <1>3, <2>1, <3>1, <3>2 DEF SlotFacts, Claims
  <2> QED
    BY <1>1, <2>2, <2>3, OneSlotMoves
<1>6. ASSUME NEW t \in Task, HandleComplete(a, t) \/ HandleRelease(a, t)
      PROVE SlotInv'
  <2>1. Calls(a) /\ TurnsKept /\ lock = a
    BY <1>4, <1>6 DEF HandleComplete, HandleRelease
  <2>2. /\ Claims(a, t)
        /\ \E s \in {"Open", "Done"} : LeaveClaimed(t, s)
        /\ SetIdle(a) /\ UNCHANGED malformed
    BY <1>6 DEF HandleComplete, HandleRelease, Complete, Release
  <2>3. OthersKept(a)
    BY <2>1, <2>2 DEF OthersKept, LeaveClaimed, SetIdle, Claims, TurnsKept,
                      TypeOK, BoardTypeOK
  <2>4. SlotFacts(a)'
    <3>1. state'[a] = "Idle" /\ anchor'[a] = NoTask /\ malformed'[a] = malformed[a]
      BY <2>2 DEF SetIdle, TypeOK
    <3>2. ~HasClaim(a)'
      BY <2>2 DEF LeaveClaimed, HasClaim, Claims, OneClaimPerAgent, TypeOK,
                  BoardTypeOK
    <3> QED
      BY <1>1, <1>3, <2>1, <3>1, <3>2 DEF SlotFacts
  <2> QED
    BY <1>1, <2>3, <2>4, OneSlotMoves
<1>7. ASSUME HandleSelfSleep(a) PROVE SlotInv'
  <2>1. Calls(a) /\ TurnsKept /\ lock = a
    BY <1>4, <1>7 DEF HandleSelfSleep
  <2>2. OthersKept(a)
    BY <1>7, <2>1 DEF OthersKept, HandleSelfSleep, Claims, TurnsKept, TypeOK,
                      boardVars
  <2>3. SlotFacts(a)'
    <3>1. /\ state[a] = "Idle" /\ state'[a] = "Asleep"
          /\ anchor'[a] = anchor[a] /\ malformed'[a] = malformed[a]
      BY <1>7 DEF HandleSelfSleep, TypeOK
    <3>2. ~HasClaim(a)'
      BY <1>1, <1>7, <3>1 DEF HandleSelfSleep, HasClaim, Claims, SlotFacts,
                              boardVars
    <3> QED
      BY <1>1, <1>3, <2>1, <3>1, <3>2 DEF SlotFacts
  <2> QED
    BY <1>1, <2>2, <2>3, OneSlotMoves
<1>8. ASSUME OtherCall(a) \/ InvalidCall(a) PROVE SlotInv'
  <2>1. TurnsKept /\ UNCHANGED agentVars /\ UNCHANGED boardVars
    BY <1>4, <1>8 DEF OtherCall, InvalidCall
  <2>2. ClaimsKept
    BY <2>1 DEF ClaimsKept, Claims, boardVars
  <2> QED
    BY <1>1, <2>1, <2>2, SlotFrame
<1> QED
  BY <1>5, <1>6, <1>7, <1>8 DEF AgentVerb

(* A sleep or a wake of agent a, whoever asks for it. *)
LEMMA SleepWakeSlots ==
  ASSUME IInv, NEW a \in Agent, TurnsKept, Sleeps(a) \/ Wakes(a)
  PROVE  SlotInv'
<1> USE DEF IInv, TypeOK
<1>1. SlotInv /\ SlotFacts(a)
  BY SlotFactsAll DEF SlotInv
<1>2. ClaimsKept
  BY DEF Sleeps, Wakes, ClaimsKept, Claims, boardVars
<1>3. HasClaim(a)' <=> HasClaim(a)
  BY <1>2 DEF HasClaim, ClaimsKept
<1>4. CASE Sleeps(a)
  <2>1. OthersKept(a)
    BY <1>2, <1>4 DEF OthersKept, Sleeps, ClaimsKept, TurnsKept
  <2>2. SlotFacts(a)'
    <3>1. /\ Settled(a) /\ state'[a] = "Asleep"
          /\ anchor'[a] = anchor[a] /\ malformed'[a] = malformed[a]
      BY <1>4 DEF Sleeps
    <3> QED
      BY <1>1, <1>3, <3>1 DEF SlotFacts, Settled, TurnsKept
  <2> QED
    BY <1>1, <2>1, <2>2, OneSlotMoves
<1>5. CASE Wakes(a)
  <2>1. malformed'[a] = 0 /\ 0 <= ParkK /\ 0 # ParkK
    <3>1. ParkK \in Nat /\ ParkK # 0
      BY WorldAssumption
    <3>2. malformed'[a] = 0
      BY <1>5 DEF Wakes
    <3> QED
      BY <3>1, <3>2
  <2>2. ASSUME NEW t \in Task, Claims(a, t),
               state' = [state EXCEPT ![a] = "Working"],
               anchor' = [anchor EXCEPT ![a] = t]
        PROVE  SlotInv'
    <3>1. OthersKept(a)
      BY <1>2, <1>5, <2>2 DEF OthersKept, Wakes, ClaimsKept, TurnsKept
    <3>2. SlotFacts(a)'
      <4>1. Claims(a, t)' /\ state'[a] = "Working" /\ anchor'[a] = t
        BY <1>2, <2>2 DEF ClaimsKept
      <4> QED
        BY <2>1, <4>1 DEF SlotFacts, Claims
    <3> QED
      BY <1>1, <3>1, <3>2, OneSlotMoves
  <2>3. ASSUME ~HasClaim(a), SetIdle(a) PROVE SlotInv'
    <3>1. OthersKept(a)
      BY <1>2, <1>5, <2>3 DEF OthersKept, Wakes, ClaimsKept, TurnsKept, SetIdle
    <3>2. SlotFacts(a)'
      BY <1>3, <2>1, <2>3 DEF SlotFacts, SetIdle
    <3> QED
      BY <1>1, <3>1, <3>2, OneSlotMoves
  <2> QED
    BY <1>5, <2>2, <2>3 DEF Wakes
<1> QED
  BY <1>4, <1>5

(* An unassign frees the slot of a Working claimant and leaves a parked    *)
(* one as it is; no third case is reachable.                               *)
LEMMA UnassignSlots ==
  ASSUME IInv, TurnsKept, NEW t \in Task, NEW c, HandleUnassign(t, c)
  PROVE  SlotInv'
<1> USE DEF IInv, TypeOK, BoardTypeOK
<1>1. status[t] = "Claimed" /\ LeaveClaimed(t, "Open") /\ UNCHANGED malformed
  BY DEF HandleUnassign, Unassign
<1>2. PICK a \in Agent : a = claimant[t] /\ Claims(a, t)
  BY <1>1 DEF ClaimantIffClaimed, Claims
<1>3. SlotInv /\ SlotFacts(a)
  BY <1>2, SlotFactsAll DEF SlotInv
<1>4. ~HasClaim(a)'
  BY <1>1, <1>2 DEF LeaveClaimed, HasClaim, Claims, OneClaimPerAgent
<1>5. \A b \in Agent \ {a}, u \in Task : Claims(b, u)' <=> Claims(b, u)
  BY <1>1, <1>2 DEF LeaveClaimed, Claims
<1>6. IF state[a] = "Working" /\ anchor[a] = t
      THEN SetIdle(a) ELSE UNCHANGED <<state, anchor>>
  BY <1>2 DEF HandleUnassign
<1>7. state[a] = "Working" => anchor[a] = t
  BY <1>2, <1>3 DEF SlotFacts, OneClaimPerAgent
<1>8. state[a] # "Idle"
  BY <1>2, <1>3 DEF SlotFacts, HasClaim
<1>9. OthersKept(a)
  BY <1>1, <1>2, <1>5, <1>6 DEF OthersKept, SetIdle, TurnsKept
<1>10. SlotFacts(a)'
  <2>1. CASE state[a] = "Working"
    <3>1. state'[a] = "Idle" /\ anchor'[a] = NoTask /\ malformed'[a] = malformed[a]
      BY <1>1, <1>2, <1>6, <1>7, <2>1 DEF SetIdle
    <3> QED
      BY <1>2, <1>3, <1>4, <2>1, <3>1 DEF SlotFacts
  <2>2. CASE state[a] = "Asleep"
    <3>1. state'[a] = "Asleep" /\ anchor'[a] = anchor[a]
          /\ malformed'[a] = malformed[a] /\ (turn'[a] = "none" <=> turn[a] = "none")
      BY <1>1, <1>2, <1>6, <2>2 DEF TurnsKept
    <3> QED
      BY <1>2, <1>3, <1>4, <2>2, <3>1 DEF SlotFacts
  <2> QED
    BY <1>2, <1>8, <2>1, <2>2
<1> QED
  BY <1>2, <1>3, <1>9, <1>10, OneSlotMoves

(* The orchestrator's calls. *)
LEMMA OrchestratorVerbSlots ==
  ASSUME IInv, OrchestratorVerb PROVE SlotInv'
<1> USE DEF IInv
<1>1. SlotInv /\ Orchestrator \in Actor
  BY DEF SlotInv, Actor, Control
<1>2. Calls(Orchestrator) => TurnsKept
  BY <1>1, CallsKeepTurns
<1>3. ASSUME NEW g \in Team \cup {NoTeam}, HandleCreateTask(g) PROVE SlotInv'
  <2>1. Calls(Orchestrator) /\ UNCHANGED agentVars
    BY <1>3 DEF HandleCreateTask
  <2>2. ClaimsKept
    BY <1>3 DEF HandleCreateTask, CreateTask, MayCreate, ClaimsKept, Claims, TypeOK,
                BoardTypeOK
  <2> QED
    BY <1>1, <1>2, <2>1, <2>2, SlotFrame
<1>4. ASSUME NEW t \in Task, HandleCancelTask(t) PROVE SlotInv'
  <2>1. Calls(Orchestrator) /\ UNCHANGED agentVars
    BY <1>4 DEF HandleCancelTask
  <2>2. ClaimsKept
    BY <1>4 DEF HandleCancelTask, Cancel, ClaimsKept, Claims, TypeOK,
                BoardTypeOK
  <2> QED
    BY <1>1, <1>2, <2>1, <2>2, SlotFrame
<1>5. ASSUME NEW g \in Team, NEW ms \in SUBSET Agent, NEW c,
             \/ HandleFormTeam(g, ms) \/ HandleDissolveTeam(g)
             \/ HandleSetTeamMembers(g, ms, c)
      PROVE  SlotInv'
  <2>1. Calls(Orchestrator) /\ UNCHANGED agentVars
    BY <1>5 DEF HandleFormTeam, HandleDissolveTeam, HandleSetTeamMembers
  <2>2. ClaimsKept
    BY <1>5 DEF HandleFormTeam, HandleDissolveTeam, HandleSetTeamMembers,
                FormTeam, DissolveTeam, SetTeamMembers, ClaimsKept, Claims
  <2> QED
    BY <1>1, <1>2, <2>1, <2>2, SlotFrame
<1>6. ASSUME NEW a \in Agent, HandleSleepAgent(a) \/ HandleWakeAgent(a)
      PROVE  SlotInv'
  BY <1>2, <1>6, SleepWakeSlots DEF HandleSleepAgent, HandleWakeAgent
<1>7. ASSUME NEW t \in Task, NEW c, HandleUnassign(t, c) PROVE SlotInv'
  BY <1>2, <1>7, UnassignSlots DEF HandleUnassign
<1>8. ASSUME NEW a \in Agent, NEW c, HandleRespecialize(a, c) PROVE SlotInv'
  <2>1. Calls(Orchestrator) /\ UNCHANGED agentVars /\ UNCHANGED boardVars
    BY <1>8 DEF HandleRespecialize
  <2>2. ClaimsKept
    BY <2>1 DEF ClaimsKept, Claims, boardVars
  <2> QED
    BY <1>1, <1>2, <2>1, <2>2, SlotFrame
<1>9. ASSUME NEW d, HandleDecline(d) \/ HandleFinishRun PROVE SlotInv'
  <2>1. Calls(Orchestrator) /\ UNCHANGED agentVars /\ UNCHANGED boardVars
    BY <1>9 DEF HandleDecline, HandleFinishRun
  <2>2. ClaimsKept
    BY <2>1 DEF ClaimsKept, Claims, boardVars
  <2> QED
    BY <1>1, <1>2, <2>1, <2>2, SlotFrame
<1>10. ASSUME NEW c, CitingVerb(c) PROVE SlotInv'
  BY <1>5, <1>7, <1>8, <1>10 DEF CitingVerb
<1> QED
  BY <1>3, <1>4, <1>5, <1>6, <1>9, <1>10 DEF OrchestratorVerb

(* A meta-agent's calls. *)
LEMMA MetaVerbSlots ==
  ASSUME IInv, NEW m \in Meta, MetaVerb(m) PROVE SlotInv'
<1> USE DEF IInv
<1>1. SlotInv /\ m \in Actor
  BY DEF SlotInv, Actor, Control
<1>2. Calls(m) => TurnsKept
  BY <1>1, CallsKeepTurns
<1>3. ASSUME HandlePropose(m) PROVE SlotInv'
  <2>1. Calls(m) /\ UNCHANGED agentVars /\ UNCHANGED boardVars
    BY <1>3 DEF HandlePropose
  <2>2. ClaimsKept
    BY <2>1 DEF ClaimsKept, Claims, boardVars
  <2> QED
    BY <1>1, <1>2, <2>1, <2>2, SlotFrame
<1>4. ASSUME NEW a \in Agent,
             HandleMetaSleepAgent(m, a) \/ HandleMetaWakeAgent(m, a)
      PROVE  SlotInv'
  BY <1>2, <1>4, SleepWakeSlots
     DEF HandleMetaSleepAgent, HandleMetaWakeAgent, IssueMechanical
<1> QED
  BY <1>3, <1>4 DEF MetaVerb

(* Turn boundaries: only FinalizeTurn moves a slot. *)
LEMMA TurnStepSlots ==
  ASSUME IInv, TurnStep PROVE SlotInv' /\ HolderInTurn'
<1> USE DEF IInv, TypeOK
<1>1. SlotInv
  BY DEF SlotInv
<1>2. ASSUME UNCHANGED boardVars PROVE ClaimsKept
  BY <1>2 DEF ClaimsKept, Claims, boardVars
<1>3. ASSUME NEW x \in Actor, BeginBatch(x) PROVE SlotInv' /\ HolderInTurn'
  <2>1. SlotInv'
    BY <1>1, <1>2, <1>3, SlotFrame DEF BeginBatch, TurnsKept
  <2>2. HolderInTurn'
    BY <1>3 DEF BeginBatch, HolderInTurn
  <2> QED
    BY <2>1, <2>2
<1>4. ASSUME EndBatch \/ CleanFinish \/ ForceTerminate
      PROVE  SlotInv' /\ HolderInTurn'
  <2>1. UNCHANGED <<boardVars, agentVars, turn>> /\ lock' = Free
    BY <1>4 DEF EndBatch, CleanFinish, ForceTerminate, EndRun
  <2>2. SlotInv'
    BY <1>1, <1>2, <2>1, SlotFrame DEF TurnsKept
  <2> QED
    BY <2>1, <2>2 DEF HolderInTurn
<1>5. ASSUME NEW a \in Agent, StartTurn(a) \/ FinalizeTurn(a) \/ AbortTurn(a)
      PROVE  SlotInv' /\ HolderInTurn'
  <2>1. SlotFacts(a)
    BY <1>1, SlotFactsAll
  <2>2. UNCHANGED boardVars /\ lock' = Free
    BY <1>5 DEF StartTurn, FinalizeTurn, AbortTurn
  <2>3. HolderInTurn'
    BY <2>2 DEF HolderInTurn
  <2>4. ClaimsKept /\ (HasClaim(a)' <=> HasClaim(a))
    BY <1>2, <2>2 DEF ClaimsKept, HasClaim
  <2>5. CASE StartTurn(a)
    <3>1. OthersKept(a)
      BY <2>4, <2>5 DEF OthersKept, StartTurn, ClaimsKept, agentVars
    <3>2. /\ state'[a] = state[a] /\ state[a] # "Asleep"
          /\ anchor'[a] = anchor[a] /\ malformed'[a] = malformed[a]
      BY <2>5 DEF StartTurn, agentVars
    <3>3. SlotFacts(a)'
      BY <2>1, <2>4, <3>2 DEF SlotFacts, ClaimsKept, Claims
    <3> QED
      BY <1>1, <2>3, <3>1, <3>3, OneSlotMoves
  <2>6. CASE AbortTurn(a)
    <3>1. OthersKept(a)
      BY <2>4, <2>6 DEF OthersKept, AbortTurn, ClaimsKept, agentVars
    <3>2. /\ state'[a] = state[a] /\ turn'[a] = "none"
          /\ anchor'[a] = anchor[a] /\ malformed'[a] = malformed[a]
      BY <2>6 DEF AbortTurn, agentVars
    <3>3. SlotFacts(a)'
      BY <2>1, <2>4, <3>2 DEF SlotFacts, ClaimsKept, Claims
    <3> QED
      BY <1>1, <2>3, <3>1, <3>3, OneSlotMoves
  <2>7. CASE FinalizeTurn(a)
    <3>1. OthersKept(a)
      BY <2>4, <2>7 DEF OthersKept, FinalizeTurn, ClaimsKept
    <3>2. turn[a] # "none" /\ turn'[a] = "none" /\ malformed[a] # ParkK
      BY <2>1, <2>7 DEF FinalizeTurn, SlotFacts
    <3>3. ParkK \in Nat /\ ParkK # 0 /\ malformed[a] \in Nat
          /\ malformed[a] <= ParkK
      BY <2>1, WorldAssumption DEF SlotFacts
    <3>4. malformed'[a] = IF turn[a] = "invalid" THEN malformed[a] + 1
                          ELSE IF turn[a] = "valid" THEN 0 ELSE malformed[a]
      BY <2>7 DEF FinalizeTurn
    <3>5. CASE turn[a] = "invalid" /\ malformed[a] + 1 >= ParkK
      <4>1. state'[a] = "Asleep" /\ anchor'[a] = NoTask
        BY <2>7, <3>5 DEF FinalizeTurn
      <4>2. malformed'[a] <= ParkK
        BY <3>2, <3>3, <3>4, <3>5
      <4> QED
        BY <1>1, <2>3, <3>1, <3>2, <4>1, <4>2, OneSlotMoves DEF SlotFacts
    <3>6. CASE ~(turn[a] = "invalid" /\ malformed[a] + 1 >= ParkK)
      <4>1. state'[a] = state[a] /\ anchor'[a] = anchor[a]
        BY <2>7, <3>6 DEF FinalizeTurn
      <4>2. malformed'[a] <= ParkK /\ malformed'[a] # ParkK
        BY <3>2, <3>3, <3>4, <3>6
      <4>3. SlotFacts(a)'
        BY <2>1, <2>4, <3>2, <4>1, <4>2 DEF SlotFacts, ClaimsKept, Claims
      <4> QED
        BY <1>1, <2>3, <3>1, <4>3, OneSlotMoves
    <3> QED
      BY <3>5, <3>6
  <2> QED
    BY <1>5, <2>5, <2>6, <2>7
<1> QED
  BY <1>3, <1>4, <1>5 DEF TurnStep

(* Every verb is a transition of the board, or leaves it alone. *)
LEMMA VerbBoardStep ==
  ASSUME \/ \E a \in Agent : AgentVerb(a)
         \/ OrchestratorVerb
         \/ \E m \in Meta : MetaVerb(m)
         \/ TurnStep
  PROVE  BoardStep
<1>1. ASSUME NEW a \in Agent, AgentVerb(a) PROVE BoardStep
  BY <1>1 DEF AgentVerb, HandleClaim, HandleComplete, HandleRelease,
     HandleSelfSleep, OtherCall, InvalidCall, BoardStep
<1>2. ASSUME NEW c, CitingVerb(c) PROVE BoardStep
  BY <1>2 DEF CitingVerb, HandleUnassign, HandleSetTeamMembers,
     HandleRespecialize, BoardStep
<1>3. ASSUME NEW a \in Agent, Sleeps(a) \/ Wakes(a) PROVE BoardStep
  BY <1>3 DEF Sleeps, Wakes, BoardStep
<1>4. ASSUME OrchestratorVerb PROVE BoardStep
  <2>1. ASSUME NEW g \in Team \cup {NoTeam}, HandleCreateTask(g)
        PROVE  BoardStep
    <3>1. nextTask \in Task /\ CreateTask(nextTask, g)
      BY <2>1 DEF HandleCreateTask
    <3> QED
      BY <3>1 DEF BoardStep
  <2>2. ASSUME NEW t \in Task, HandleCancelTask(t) PROVE BoardStep
    BY <2>2 DEF HandleCancelTask, BoardStep
  <2>3. ASSUME NEW g \in Team, NEW ms \in SUBSET Agent, HandleFormTeam(g, ms)
        PROVE  BoardStep
    BY <2>3 DEF HandleFormTeam, BoardStep
  <2>4. ASSUME NEW g \in Team, HandleDissolveTeam(g) PROVE BoardStep
    BY <2>4 DEF HandleDissolveTeam, BoardStep
  <2>5. ASSUME NEW a \in Agent, HandleSleepAgent(a) \/ HandleWakeAgent(a)
        PROVE  BoardStep
    BY <1>3, <2>5 DEF HandleSleepAgent, HandleWakeAgent
  <2>6. ASSUME NEW d, HandleDecline(d) \/ HandleFinishRun PROVE BoardStep
    BY <2>6 DEF HandleDecline, HandleFinishRun, BoardStep
  <2> QED
    BY <1>2, <1>4, <2>1, <2>2, <2>3, <2>4, <2>5, <2>6 DEF OrchestratorVerb
<1>5. ASSUME NEW m \in Meta, MetaVerb(m) PROVE BoardStep
  BY <1>3, <1>5 DEF MetaVerb, HandlePropose, HandleMetaSleepAgent,
     HandleMetaWakeAgent, BoardStep
<1>6. ASSUME TurnStep PROVE BoardStep
  BY <1>6 DEF TurnStep, BeginBatch, EndBatch, StartTurn, FinalizeTurn,
     AbortTurn, CleanFinish, ForceTerminate, EndRun, BoardStep
<1> QED
  BY <1>1, <1>4, <1>5, <1>6

(* Every verb is a call of the actor that holds the mutex. *)
LEMMA VerbsAreCalls ==
  ASSUME \/ \E a \in Agent : AgentVerb(a)
         \/ OrchestratorVerb
         \/ \E m \in Meta : MetaVerb(m)
  PROVE  \E x \in Actor : Calls(x) \/ InvalidCall(x)
<1>1. ASSUME NEW a \in Agent, AgentVerb(a)
      PROVE  Calls(a) \/ InvalidCall(a)
  BY <1>1 DEF AgentVerb, HandleClaim, HandleComplete, HandleRelease,
     HandleSelfSleep, OtherCall
<1>2. ASSUME OrchestratorVerb PROVE Calls(Orchestrator)
  BY <1>2 DEF OrchestratorVerb, CitingVerb, HandleCreateTask,
     HandleCancelTask, HandleFormTeam, HandleDissolveTeam, HandleSleepAgent,
     HandleWakeAgent, HandleUnassign, HandleSetTeamMembers,
     HandleRespecialize, HandleDecline, HandleFinishRun
<1>3. ASSUME NEW m \in Meta, MetaVerb(m) PROVE Calls(m)
  BY <1>3 DEF MetaVerb, HandlePropose, HandleMetaSleepAgent,
     HandleMetaWakeAgent, IssueMechanical
<1> QED
  BY <1>1, <1>2, <1>3 DEF Actor, Control

LEMMA NextIInv == ASSUME IInv, [Next]_vars PROVE IInv'
<1>1. TypeOK'
  BY TurnStepType, AgentVerbType, OrchestratorVerbType, MetaVerbType
     DEF IInv, Next, Settle, vars, TypeOK, BoardTypeOK, boardVars, agentVars
<1>2. CASE UNCHANGED vars
  <2>1. UNCHANGED boardVars /\ UNCHANGED agentVars /\ UNCHANGED <<turn, lock, finishing>>
    BY <1>2 DEF vars
  <2>2. BoardInv'
    BY <2>1, BoardInvStep DEF IInv, TypeOK, BoardInv, BoardStep
  <2>3. ClaimsKept
    BY <2>1 DEF ClaimsKept, Claims, boardVars
  <2>4. SlotInv'
    BY <2>1, <2>3, SlotFrame DEF IInv, SlotInv, TurnsKept
  <2>5. HolderInTurn'
    BY <2>1 DEF IInv, HolderInTurn
  <2> QED
    BY <1>1, <2>2, <2>4, <2>5 DEF IInv, BoardInv, SlotInv
<1>3. CASE \/ TurnStep \/ OrchestratorVerb
           \/ (\E a \in Agent : AgentVerb(a)) \/ (\E m \in Meta : MetaVerb(m))
  <2>1. BoardInv'
    BY <1>3, BoardInvStep, VerbBoardStep DEF IInv, TypeOK, BoardInv
  <2>2. SlotInv'
    BY <1>3, AgentVerbSlots, OrchestratorVerbSlots, MetaVerbSlots, TurnStepSlots
  <2>3. HolderInTurn'
    BY <1>3, TurnStepSlots, VerbsAreCalls, CallsKeepTurns DEF IInv
  <2> QED
    BY <1>1, <2>1, <2>2, <2>3 DEF IInv, BoardInv, SlotInv
<1> QED
  BY <1>2, <1>3 DEF Next, Settle

(* The inductive invariant holds of every run: any number of agents,       *)
(* tasks, teams and metas, any interleaving of their batches.              *)
THEOREM Inductive == Spec => []IInv
<1>1. IInv /\ [Next]_vars => IInv'
  BY NextIInv
<1> QED
  BY <1>1, InitIInv, PTL DEF Spec

(* One claim per agent, whatever the order of claims, releases, unassigns, *)
(* sleeps and team changes (board.rs: claim).                              *)
THEOREM OneClaim == Spec => []OneClaimPerAgent
BY Inductive, PTL DEF IInv

(* The slots and the board never disagree (runtime.rs: the handlers).      *)
THEOREM SlotsMatchBoard == Spec => []AgentMatchesBoard
BY Inductive, PTL DEF IInv

(* The malformed park happens at the threshold, and holds until a wake.    *)
THEOREM ParkIsExact == Spec => []ParkedAtK
BY Inductive, PTL DEF IInv

(* An agent that sleeps inside its own turn claims nothing.                *)
THEOREM SleeperClaimsNothing == Spec => []SleeperInTurnHoldsNoClaim
BY Inductive, PTL DEF IInv

(* The team of a live task is live (board.rs: dissolve_team).              *)
THEOREM TaggedTeamsLive == Spec => []TaggedTeamLive
BY Inductive, PTL DEF IInv

----------------------------------------------------------------------------
(* What World's steps may never do, and that World implements Workforce.   *)

(* The mutex holder's run is not finishing, so no verb runs after the end. *)
LEMMA FinishingFreezes ==
  ASSUME IInv, Next, finishing # "no"
  PROVE  /\ UNCHANGED <<boardVars, agentVars, nextTask, directives, finishing>>
         /\ emitted' # <<>> => emitted' = emitted
<1>1. lock = Free
  BY DEF IInv, HolderInTurn
<1>2. ASSUME NEW x \in Actor, Calls(x) \/ InvalidCall(x) PROVE FALSE
  BY <1>1, <1>2, WorldAssumption DEF Calls, InvalidCall, Actor, Control
<1>3. CASE TurnStep
  <2>1. \E a \in Agent : AbortTurn(a)
    BY <1>1, <1>3 DEF TurnStep, BeginBatch, EndBatch, StartTurn, FinalizeTurn,
       CleanFinish, ForceTerminate, EndRun
  <2> QED
    BY <2>1 DEF AbortTurn
<1>4. CASE Settle
  BY <1>4 DEF Settle, vars
<1> QED
  BY <1>2, <1>3, <1>4, VerbsAreCalls DEF Next

(* After a termination path is taken the world and the log are final.      *)
THEOREM FinishIsFinal == Spec => FinishFreezesWorld
<1>1. IInv /\ [Next]_vars =>
        [finishing # "no" =>
           /\ UNCHANGED <<boardVars, agentVars, nextTask, directives, finishing>>
           /\ emitted' # <<>> => emitted' = emitted]_vars
  BY FinishingFreezes
<1> QED
  BY <1>1, Inductive, PTL DEF Spec, FinishFreezesWorld

(* Which verbs touch the directives, and how. *)
LEMMA DirectivesStep ==
  ASSUME Next
  PROVE  \/ UNCHANGED directives
         \/ \E s : directives' = Append(directives, s)
         \/ \E c, s : ValidCite(c) /\ Resolve(c, s)
<1>1. CASE TurnStep
  BY <1>1 DEF TurnStep, BeginBatch, EndBatch, StartTurn, FinalizeTurn,
     AbortTurn, CleanFinish, ForceTerminate, EndRun
<1>2. ASSUME NEW a \in Agent, AgentVerb(a) PROVE UNCHANGED directives
  BY <1>2 DEF AgentVerb, HandleClaim, HandleComplete, HandleRelease,
     HandleSelfSleep, OtherCall, InvalidCall
<1>3. CASE OrchestratorVerb
  <2>1. ASSUME NEW c, CitingVerb(c) PROVE ValidCite(c) /\ \E s : Resolve(c, s)
    BY <2>1 DEF CitingVerb, HandleUnassign, HandleSetTeamMembers,
       HandleRespecialize
  <2>2. ASSUME NEW d \in DOMAIN directives, HandleDecline(d)
        PROVE  ValidCite(d) /\ Resolve(d, "declined")
    BY <2>2 DEF HandleDecline, ValidCite
  <2> QED
    BY <1>3, <2>1, <2>2 DEF OrchestratorVerb, HandleCreateTask,
       HandleCancelTask, HandleFormTeam, HandleDissolveTeam,
       HandleSleepAgent, HandleWakeAgent, HandleFinishRun
<1>4. ASSUME NEW m \in Meta, MetaVerb(m)
      PROVE  \E s : directives' = Append(directives, s)
  BY <1>4 DEF MetaVerb, HandlePropose, HandleMetaSleepAgent,
     HandleMetaWakeAgent, IssueMechanical
<1>5. CASE Settle
  BY <1>5 DEF Settle, vars
<1> QED
  BY <1>1, <1>2, <1>3, <1>4, <1>5 DEF Next

LEMMA ResolvedStays ==
  ASSUME TypeOK, Next, NEW d \in DOMAIN directives, directives[d] # "pending"
  PROVE  directives'[d] = directives[d]
<1>1. DOMAIN directives = 1..Len(directives) /\ Len(directives) \in Nat
  BY DEF TypeOK
<1>2. ASSUME NEW s, directives' = Append(directives, s)
      PROVE  directives'[d] = directives[d]
  BY <1>1, <1>2 DEF TypeOK
<1>3. ASSUME NEW c, NEW s, ValidCite(c), Resolve(c, s)
      PROVE  directives'[d] = directives[d]
  <2>1. c # NoCite => c # d
    BY <1>3 DEF ValidCite
  <2> QED
    BY <1>1, <1>3, <2>1 DEF Resolve
<1> QED
  BY <1>2, <1>3, DirectivesStep

(* A directive is resolved once, however often it is cited.                *)
THEOREM ResolvedOnce == Spec => DirectiveResolvedOnce
<1>1. IInv /\ [Next]_vars =>
        [\A d \in DOMAIN directives :
           directives[d] # "pending" => directives'[d] = directives[d]]_vars
  BY ResolvedStays DEF IInv
<1> QED
  BY <1>1, Inductive, PTL DEF Spec, DirectiveResolvedOnce

----------------------------------------------------------------------------
(* The refinement. *)

(* `holds` is the claim, read off the board. *)
LEMMA HeldByIs ==
  ASSUME OneClaimPerAgent, NEW a \in Agent
  PROVE  /\ \A t \in Task : HeldBy(a) = t <=> Claims(a, t)
         /\ HeldBy(a) = NoTask <=> ~HasClaim(a)
<1>1. NoTask \notin Task
  BY WorldAssumption DEF NoTask
<1>2. CASE HasClaim(a)
  <2>1. HeldBy(a) \in Task /\ Claims(a, HeldBy(a))
    BY <1>2 DEF HeldBy, HasClaim
  <2> QED
    BY <1>1, <1>2, <2>1 DEF OneClaimPerAgent, HasClaim
<1>3. CASE ~HasClaim(a)
  BY <1>1, <1>3 DEF HeldBy, HasClaim
<1> QED
  BY <1>2, <1>3

LEMMA HeldByIsNext ==
  ASSUME OneClaimPerAgent', NEW a \in Agent
  PROVE  /\ \A t \in Task : HeldBy(a)' = t <=> Claims(a, t)'
         /\ HeldBy(a)' = NoTask <=> ~HasClaim(a)'
<1>1. NoTask \notin Task
  BY WorldAssumption DEF NoTask
<1>2. CASE HasClaim(a)'
  <2>1. HeldBy(a)' \in Task /\ Claims(a, HeldBy(a))'
    BY <1>2 DEF HeldBy, HasClaim
  <2> QED
    BY <1>1, <1>2, <2>1 DEF OneClaimPerAgent, HasClaim
<1>3. CASE ~HasClaim(a)'
  BY <1>1, <1>3 DEF HeldBy, HasClaim
<1> QED
  BY <1>2, <1>3

(* The mapped variables, named. *)
Pool == {t \in Task : status[t] = "Open"}
Closed == {t \in Task : status[t] \in Terminal}
Holds == [a \in Agent |-> HeldBy(a)]
Resting == {a \in Agent : state[a] = "Asleep"}
Over == finishing # "no"

LEMMA HoldsKept ==
  ASSUME OneClaimPerAgent, OneClaimPerAgent', ClaimsKept PROVE Holds' = Holds
<1>1. ASSUME NEW a \in Agent PROVE HeldBy(a)' = HeldBy(a)
  <2>1. HasClaim(a)' <=> HasClaim(a)
    BY DEF ClaimsKept, HasClaim
  <2>2. CASE HasClaim(a)
    BY <2>1, <2>2, HeldByIs, HeldByIsNext DEF ClaimsKept, HasClaim
  <2>3. CASE ~HasClaim(a)
    BY <2>1, <2>3, HeldByIs, HeldByIsNext
  <2> QED
    BY <2>2, <2>3
<1> QED
  BY <1>1 DEF Holds

(* One agent's claim appears or goes; the others keep theirs. *)
LEMMA HoldsMoves ==
  ASSUME OneClaimPerAgent, OneClaimPerAgent', NEW a \in Agent,
         NEW h \in Task \cup {NoTask},
         \A b \in Agent \ {a}, t \in Task : Claims(b, t)' <=> Claims(b, t),
         IF h = NoTask THEN ~HasClaim(a)' ELSE Claims(a, h)'
  PROVE  Holds' = [Holds EXCEPT ![a] = h]
<1>1. ASSUME NEW b \in Agent \ {a} PROVE HeldBy(b)' = HeldBy(b)
  <2>1. HasClaim(b)' <=> HasClaim(b)
    BY DEF HasClaim
  <2>2. CASE HasClaim(b)
    BY <2>1, <2>2, HeldByIs, HeldByIsNext DEF HasClaim
  <2>3. CASE ~HasClaim(b)
    BY <2>1, <2>3, HeldByIs, HeldByIsNext
  <2> QED
    BY <2>2, <2>3
<1>2. HeldBy(a)' = h
  <2>1. NoTask \notin Task
    BY WorldAssumption DEF NoTask
  <2> QED
    BY <2>1, HeldByIsNext
<1> QED
  BY <1>1, <1>2 DEF Holds

(* What a task's move does to the pool and to the closed tasks. *)
LEMMA TaskMoves ==
  ASSUME BoardTypeOK, NEW t \in Task, NEW s \in Status,
         status' = [status EXCEPT ![t] = s]
  PROVE  /\ Pool' = IF s = "Open" THEN Pool \cup {t} ELSE Pool \ {t}
         /\ Closed' = IF s \in Terminal THEN Closed \cup {t} ELSE Closed \ {t}
BY DEF BoardTypeOK, Status, Terminal, Pool, Closed

(* Nothing Workforce sees has moved. *)
Unseen == UNCHANGED <<Pool, Closed, Holds, Resting, Over>>

LEMMA UnseenStutters == Unseen => UNCHANGED Abstract!wfVars
BY DEF Unseen, Abstract!wfVars, Pool, Closed, Holds, Resting, Over

LEMMA QuietStep ==
  ASSUME IInv, IInv', UNCHANGED <<boardVars, state, finishing>> PROVE Unseen
<1>1. ClaimsKept
  BY DEF ClaimsKept, Claims, boardVars
<1>2. UNCHANGED Holds
  BY <1>1, HoldsKept DEF IInv
<1> QED
  BY <1>2 DEF Unseen, Pool, Closed, Resting, Over, boardVars

(* The four ways work moves in Workforce, over the named variables. *)
LEMMA AsPublish ==
  ASSUME finishing = "no", finishing' = "no", NEW t \in Task,
         t \notin Pool \cup Closed, \A a \in Agent : Holds[a] # t,
         Pool' = Pool \cup {t}, UNCHANGED <<Closed, Holds, Resting>>
  PROVE  Abstract!WFNext
<1>1. Abstract!Publish(t)
  BY DEF Abstract!Publish, Abstract!Held, Pool, Closed, Holds, Resting
<1> QED
  BY <1>1 DEF Abstract!WFNext, Abstract!Work

LEMMA AsWithdraw ==
  ASSUME finishing = "no", finishing' = "no", NEW t \in Task, t \in Pool,
         Pool' = Pool \ {t}, Closed' = Closed \cup {t},
         UNCHANGED <<Holds, Resting>>
  PROVE  Abstract!WFNext
<1>1. Abstract!Withdraw(t)
  BY DEF Abstract!Withdraw, Pool, Closed, Holds, Resting
<1> QED
  BY <1>1 DEF Abstract!WFNext, Abstract!Work

LEMMA AsTake ==
  ASSUME finishing = "no", finishing' = "no", NEW a \in Agent, NEW t \in Task,
         t \in Pool, Holds[a] = NoTask, Pool' = Pool \ {t},
         Holds' = [Holds EXCEPT ![a] = t], Resting' = Resting \ {a},
         UNCHANGED Closed
  PROVE  Abstract!WFNext
<1>1. Abstract!Take(a, t)
  BY DEF Abstract!Take, Pool, Closed, Holds, Resting
<1> QED
  BY <1>1 DEF Abstract!WFNext, Abstract!Work

LEMMA AsPutBack ==
  ASSUME finishing = "no", finishing' = "no", NEW a \in Agent, NEW t \in Task,
         Holds[a] = t, t # NoTask, Pool' = Pool \cup {t},
         Holds' = [Holds EXCEPT ![a] = NoTask], UNCHANGED <<Closed, Resting>>
  PROVE  Abstract!WFNext
<1>1. Abstract!PutBack(a)
  BY DEF Abstract!PutBack, Pool, Closed, Holds, Resting
<1> QED
  BY <1>1 DEF Abstract!WFNext, Abstract!Work

LEMMA AsClose ==
  ASSUME finishing = "no", finishing' = "no", NEW a \in Agent, NEW t \in Task,
         Holds[a] = t, t # NoTask, a \notin Resting, Closed' = Closed \cup {t},
         Holds' = [Holds EXCEPT ![a] = NoTask], UNCHANGED <<Pool, Resting>>
  PROVE  Abstract!WFNext
<1>1. Abstract!Close(a)
  BY DEF Abstract!Close, Pool, Closed, Holds, Resting
<1> QED
  BY <1>1 DEF Abstract!WFNext, Abstract!Work

(* An agent falls asleep or wakes and nothing else moves. *)
LEMMA AsRestOrRouse ==
  ASSUME IInv, IInv', finishing = "no", finishing' = "no", UNCHANGED boardVars,
         NEW a \in Agent, NEW s \in {"Idle", "Working", "Asleep"},
         state' = [state EXCEPT ![a] = s]
  PROVE  Abstract!WFNext \/ UNCHANGED Abstract!wfVars
<1> USE DEF IInv, TypeOK
<1>1. ClaimsKept /\ UNCHANGED <<Pool, Closed>>
  BY DEF ClaimsKept, Claims, Pool, Closed, boardVars
<1>2. UNCHANGED Holds
  BY <1>1, HoldsKept
<1>3. CASE s = "Asleep" /\ a \notin Resting
  <2>1. Resting' = Resting \cup {a}
    BY <1>3 DEF Resting
  <2>2. Abstract!Rest(a)
    BY <1>1, <1>2, <1>3, <2>1 DEF Abstract!Rest, Pool, Closed, Holds, Resting
  <2> QED
    BY <2>2 DEF Abstract!WFNext, Abstract!Work
<1>4. CASE s # "Asleep" /\ a \in Resting
  <2>1. Resting' = Resting \ {a}
    BY <1>4 DEF Resting
  <2>2. Abstract!Rouse(a)
    BY <1>1, <1>2, <1>4, <2>1 DEF Abstract!Rouse, Pool, Closed, Holds, Resting
  <2> QED
    BY <2>2 DEF Abstract!WFNext, Abstract!Work
<1>5. CASE (s = "Asleep") <=> (a \in Resting)
  <2>1. UNCHANGED Resting
    BY <1>5 DEF Resting
  <2> QED
    BY <1>1, <1>2, <2>1, UnseenStutters DEF Unseen, Over
<1> QED
  BY <1>3, <1>4, <1>5

Maps == Abstract!WFNext \/ UNCHANGED Abstract!wfVars

LEMMA AgentVerbMaps ==
  ASSUME IInv, IInv', NEW a \in Agent, AgentVerb(a) PROVE Maps
<1> USE DEF IInv
<1>1. Calls(a) \/ InvalidCall(a)
  BY DEF AgentVerb, HandleClaim, HandleComplete, HandleRelease,
     HandleSelfSleep, OtherCall
<1>2. lock = a /\ turn[a] # "none" /\ finishing = "no" /\ finishing' = "no"
  BY <1>1, WorldAssumption DEF Calls, InvalidCall, HolderInTurn
<1>3. NoTask \notin Task
  BY WorldAssumption DEF NoTask
<1>4. ASSUME NEW t \in Task, HandleClaim(a, t) PROVE Maps
  <2>1. /\ status[t] = "Open" /\ ~HasClaim(a)
        /\ status' = [status EXCEPT ![t] = "Claimed"]
        /\ claimant' = [claimant EXCEPT ![t] = a]
        /\ state' = [state EXCEPT ![a] = "Working"]
    BY <1>4 DEF HandleClaim, Claim, MayClaim
  <2>2. Pool' = Pool \ {t} /\ Closed' = Closed \ {t}
    BY <2>1, TaskMoves DEF TypeOK, Status, Terminal
  <2>3. t \in Pool /\ t \notin Closed
    BY <2>1 DEF Pool, Closed, Terminal
  <2>4. Holds' = [Holds EXCEPT ![a] = t]
    <3>1. Claims(a, t)'
      BY <2>1 DEF Claims, TypeOK, BoardTypeOK
    <3>2. \A b \in Agent \ {a}, u \in Task : Claims(b, u)' <=> Claims(b, u)
      BY <2>1 DEF Claims, TypeOK, BoardTypeOK
    <3> QED
      BY <1>3, <3>1, <3>2, HoldsMoves
  <2>5. Resting' = Resting \ {a}
    BY <2>1 DEF Resting, TypeOK
  <2>6. Holds[a] = NoTask
    BY <2>1, HeldByIs DEF Holds
  <2>7. UNCHANGED Closed
    BY <2>2, <2>3
  <2> QED
    BY <1>2, <2>2, <2>3, <2>4, <2>5, <2>6, <2>7, AsTake DEF Maps
<1>5. ASSUME NEW t \in Task, Claims(a, t), NEW s \in {"Open", "Done"},
             LeaveClaimed(t, s), SetIdle(a)
      PROVE  Maps
  <2>1. /\ status[t] = "Claimed"
        /\ status' = [status EXCEPT ![t] = s]
        /\ claimant' = [claimant EXCEPT ![t] = NoAgent]
        /\ state' = [state EXCEPT ![a] = "Idle"]
    BY <1>5 DEF Claims, LeaveClaimed, SetIdle
  <2>2. t \notin Pool /\ t \notin Closed
    BY <2>1 DEF Pool, Closed, Terminal
  <2>3. Holds[a] = t
    BY <1>5, HeldByIs DEF Holds
  <2>4. Holds' = [Holds EXCEPT ![a] = NoTask]
    <3>1. ~HasClaim(a)'
      BY <1>5, <2>1 DEF Claims, HasClaim, OneClaimPerAgent, TypeOK, BoardTypeOK
    <3>2. \A b \in Agent \ {a}, u \in Task : Claims(b, u)' <=> Claims(b, u)
      BY <1>5, <2>1 DEF Claims, TypeOK, BoardTypeOK
    <3> QED
      BY <3>1, <3>2, HoldsMoves
  <2>5. state[a] # "Asleep"
    BY <1>2, <1>5 DEF SleeperInTurnHoldsNoClaim, HasClaim
  <2>6. UNCHANGED Resting /\ a \notin Resting
    BY <2>1, <2>5 DEF Resting, TypeOK
  <2>7. CASE s = "Open"
    <3>1. Pool' = Pool \cup {t} /\ Closed' = Closed \ {t}
      BY <2>1, <2>7, TaskMoves DEF TypeOK, Status, Terminal
    <3>2. UNCHANGED Closed
      BY <2>2, <3>1
    <3> QED
      BY <1>2, <1>3, <2>3, <2>4, <2>6, <3>1, <3>2, AsPutBack DEF Maps
  <2>8. CASE s = "Done"
    <3>1. Pool' = Pool \ {t} /\ Closed' = Closed \cup {t}
      BY <2>1, <2>8, TaskMoves DEF TypeOK, Status, Terminal
    <3>2. UNCHANGED Pool
      BY <2>2, <3>1
    <3> QED
      BY <1>2, <1>3, <2>3, <2>4, <2>6, <3>1, <3>2, AsClose DEF Maps
  <2> QED
    BY <2>7, <2>8
<1>6. ASSUME NEW t \in Task, HandleComplete(a, t) \/ HandleRelease(a, t)
      PROVE  Maps
  BY <1>5, <1>6 DEF HandleComplete, HandleRelease, Complete, Release
<1>7. ASSUME HandleSelfSleep(a) PROVE Maps
  BY <1>2, <1>7, AsRestOrRouse DEF HandleSelfSleep, Maps
<1>8. ASSUME OtherCall(a) \/ InvalidCall(a) PROVE Maps
  <2>1. UNCHANGED <<boardVars, state, finishing>>
    BY <1>2, <1>8 DEF OtherCall, InvalidCall, agentVars
  <2> QED
    BY <2>1, QuietStep, UnseenStutters DEF Maps
<1> QED
  BY <1>4, <1>6, <1>7, <1>8 DEF AgentVerb

(* Sleep and wake by the orchestrator or a meta-agent. *)
LEMMA SleepWakeMaps ==
  ASSUME IInv, IInv', finishing = "no", finishing' = "no",
         NEW a \in Agent, Sleeps(a) \/ Wakes(a)
  PROVE  Maps
<1>1. \E s \in {"Idle", "Working", "Asleep"} : state' = [state EXCEPT ![a] = s]
  BY DEF Sleeps, Wakes, SetIdle
<1>2. UNCHANGED boardVars
  BY DEF Sleeps, Wakes
<1> QED
  BY <1>1, <1>2, AsRestOrRouse DEF Maps

LEMMA OrchestratorVerbMaps ==
  ASSUME IInv, IInv', OrchestratorVerb PROVE Maps
<1> USE DEF IInv
<1>1. Calls(Orchestrator)
  BY DEF OrchestratorVerb, CitingVerb, HandleCreateTask, HandleCancelTask,
     HandleFormTeam, HandleDissolveTeam, HandleSleepAgent, HandleWakeAgent,
     HandleUnassign, HandleSetTeamMembers, HandleRespecialize, HandleDecline,
     HandleFinishRun
<1>2. finishing = "no" /\ finishing' = "no"
  BY <1>1, WorldAssumption DEF Calls, HolderInTurn
<1>3. NoTask \notin Task
  BY WorldAssumption DEF NoTask
<1>4. ASSUME NEW g \in Team \cup {NoTeam}, HandleCreateTask(g) PROVE Maps
  <2>1. PICK t \in Task : /\ status[t] = "absent"
                          /\ status' = [status EXCEPT ![t] = "Open"]
                          /\ UNCHANGED <<claimant, state>>
    BY <1>4 DEF HandleCreateTask, CreateTask, MayCreate, agentVars
  <2>2. Pool' = Pool \cup {t} /\ Closed' = Closed \ {t}
    BY <2>1, TaskMoves DEF TypeOK, Status, Terminal
  <2>3. t \notin Pool \cup Closed
    BY <2>1 DEF Pool, Closed, Terminal
  <2>4. \A a \in Agent : Holds[a] # t
    BY <2>1, HeldByIs DEF Holds, Claims
  <2>5. ClaimsKept
    BY <2>1 DEF ClaimsKept, Claims, TypeOK, BoardTypeOK
  <2>6. UNCHANGED <<Closed, Holds, Resting>>
    BY <2>1, <2>2, <2>3, <2>5, HoldsKept DEF Resting
  <2> QED
    BY <1>2, <2>2, <2>3, <2>4, <2>6, AsPublish DEF Maps
<1>5. ASSUME NEW t \in Task, HandleCancelTask(t) PROVE Maps
  <2>1. /\ status[t] = "Open" /\ status' = [status EXCEPT ![t] = "Cancelled"]
        /\ UNCHANGED <<claimant, state>>
    BY <1>5 DEF HandleCancelTask, Cancel, agentVars
  <2>2. Pool' = Pool \ {t} /\ Closed' = Closed \cup {t} /\ t \in Pool
    BY <2>1, TaskMoves DEF TypeOK, Status, Terminal, Pool
  <2>3. ClaimsKept
    BY <2>1 DEF ClaimsKept, Claims, TypeOK, BoardTypeOK
  <2>4. UNCHANGED <<Holds, Resting>>
    BY <2>1, <2>3, HoldsKept DEF Resting
  <2> QED
    BY <1>2, <2>2, <2>4, AsWithdraw DEF Maps
<1>6. ASSUME NEW t \in Task, NEW c, HandleUnassign(t, c) PROVE Maps
  <2>1. /\ status[t] = "Claimed"
        /\ status' = [status EXCEPT ![t] = "Open"]
        /\ claimant' = [claimant EXCEPT ![t] = NoAgent]
    BY <1>6 DEF HandleUnassign, Unassign, LeaveClaimed
  <2>2. PICK a \in Agent : a = claimant[t] /\ Claims(a, t)
    BY <2>1 DEF ClaimantIffClaimed, Claims, TypeOK, BoardTypeOK
  <2>3. Pool' = Pool \cup {t} /\ Closed' = Closed \ {t}
    BY <2>1, TaskMoves DEF TypeOK, Status, Terminal
  <2>4. UNCHANGED Closed
    BY <2>1, <2>3 DEF Closed, Terminal
  <2>5. Holds[a] = t
    BY <2>2, HeldByIs DEF Holds
  <2>6. Holds' = [Holds EXCEPT ![a] = NoTask]
    <3>1. ~HasClaim(a)'
      BY <2>1, <2>2 DEF Claims, HasClaim, OneClaimPerAgent, TypeOK, BoardTypeOK
    <3>2. \A b \in Agent \ {a}, u \in Task : Claims(b, u)' <=> Claims(b, u)
      BY <2>1, <2>2 DEF Claims, TypeOK, BoardTypeOK
    <3> QED
      BY <3>1, <3>2, HoldsMoves
  <2>7. UNCHANGED Resting
    BY <1>6, <2>2 DEF HandleUnassign, SetIdle, Resting, TypeOK
  <2> QED
    BY <1>2, <1>3, <2>3, <2>4, <2>5, <2>6, <2>7, AsPutBack DEF Maps
<1>7. ASSUME NEW g \in Team, NEW ms \in SUBSET Agent, NEW c,
             \/ HandleFormTeam(g, ms) \/ HandleDissolveTeam(g)
             \/ HandleSetTeamMembers(g, ms, c)
      PROVE  Maps
  <2>1. UNCHANGED <<status, claimant, state>>
    BY <1>7 DEF HandleFormTeam, HandleDissolveTeam, HandleSetTeamMembers,
       FormTeam, DissolveTeam, SetTeamMembers, agentVars
  <2>2. ClaimsKept
    BY <2>1 DEF ClaimsKept, Claims
  <2>3. Unseen
    BY <1>2, <2>1, <2>2, HoldsKept DEF Unseen, Pool, Closed, Resting, Over
  <2> QED
    BY <2>3, UnseenStutters DEF Maps
<1>8. ASSUME NEW a \in Agent, HandleSleepAgent(a) \/ HandleWakeAgent(a)
      PROVE  Maps
  BY <1>2, <1>8, SleepWakeMaps DEF HandleSleepAgent, HandleWakeAgent
<1>9. ASSUME NEW a \in Agent, NEW c, HandleRespecialize(a, c) PROVE Maps
  BY <1>2, <1>9, QuietStep, UnseenStutters DEF HandleRespecialize, Maps, agentVars
<1>10. ASSUME NEW d, HandleDecline(d) \/ HandleFinishRun PROVE Maps
  BY <1>2, <1>10, QuietStep, UnseenStutters
     DEF HandleDecline, HandleFinishRun, Maps, agentVars
<1>11. ASSUME NEW c, CitingVerb(c) PROVE Maps
  BY <1>6, <1>7, <1>9, <1>11 DEF CitingVerb
<1> QED
  BY <1>4, <1>5, <1>7, <1>8, <1>10, <1>11 DEF OrchestratorVerb

LEMMA MetaVerbMaps ==
  ASSUME IInv, IInv', NEW m \in Meta, MetaVerb(m) PROVE Maps
<1>1. Calls(m)
  BY DEF MetaVerb, HandlePropose, HandleMetaSleepAgent, HandleMetaWakeAgent,
     IssueMechanical
<1>2. finishing = "no" /\ finishing' = "no"
  BY <1>1, WorldAssumption DEF Calls, IInv, HolderInTurn
<1>3. CASE HandlePropose(m)
  BY <1>2, <1>3, QuietStep, UnseenStutters DEF HandlePropose, Maps, agentVars
<1>4. CASE \E a \in Agent : HandleMetaSleepAgent(m, a) \/ HandleMetaWakeAgent(m, a)
  BY <1>2, <1>4, SleepWakeMaps DEF HandleMetaSleepAgent, HandleMetaWakeAgent
<1> QED
  BY <1>3, <1>4 DEF MetaVerb

LEMMA TurnStepMaps ==
  ASSUME IInv, IInv', TurnStep PROVE Maps
<1>1. ASSUME \/ \E x \in Actor : BeginBatch(x)
             \/ EndBatch
             \/ \E a \in Agent : StartTurn(a) \/ AbortTurn(a)
      PROVE  Maps
  BY <1>1, QuietStep, UnseenStutters DEF BeginBatch, EndBatch, StartTurn,
     AbortTurn, Maps, agentVars
<1>2. ASSUME NEW a \in Agent, FinalizeTurn(a) PROVE Maps
  <2>1. UNCHANGED <<boardVars, finishing>> /\ finishing = "no"
    BY <1>2 DEF FinalizeTurn
  <2>2. \E s \in {"Idle", "Working", "Asleep"} : state' = [state EXCEPT ![a] = s]
    BY <1>2 DEF FinalizeTurn, IInv, TypeOK
  <2> QED
    BY <2>1, <2>2, AsRestOrRouse DEF Maps
<1>3. ASSUME CleanFinish \/ ForceTerminate PROVE Maps
  <2>1. /\ finishing = "no" /\ finishing' # "no"
        /\ UNCHANGED boardVars /\ UNCHANGED state
    BY <1>3 DEF CleanFinish, ForceTerminate, EndRun, agentVars
  <2>2. ClaimsKept
    BY <2>1 DEF ClaimsKept, Claims, boardVars
  <2>3. UNCHANGED <<Pool, Closed, Holds, Resting>>
    BY <2>1, <2>2, HoldsKept DEF IInv, Pool, Closed, Resting, boardVars
  <2>4. Abstract!WFNext
    BY <2>1, <2>3 DEF Abstract!WFNext, Pool, Closed, Holds, Resting
  <2> QED
    BY <2>4 DEF Maps
<1> QED
  BY <1>1, <1>2, <1>3 DEF TurnStep

LEMMA StepMaps == ASSUME IInv, IInv', [Next]_vars PROVE Maps
<1>1. CASE UNCHANGED vars
  BY <1>1, QuietStep, UnseenStutters DEF vars, agentVars, Maps
<1>2. CASE Settle
  BY <1>2, QuietStep, UnseenStutters DEF Settle, vars, agentVars, Maps
<1> QED
  BY <1>1, <1>2, AgentVerbMaps, OrchestratorVerbMaps, MetaVerbMaps,
     TurnStepMaps DEF Next

LEMMA InitMaps == Init => Abstract!WFInit
<1> SUFFICES ASSUME Init PROVE Abstract!WFInit
  OBVIOUS
<1>1. \A a \in Agent : HeldBy(a) = NoTask
  BY DEF Init, BoardInit, HeldBy, HasClaim, Claims
<1> QED
  BY <1>1 DEF Init, BoardInit, Abstract!WFInit, Terminal

(* World implements Workforce: a claim survives sleep and park, an         *)
(* unassign does not wake, nobody completes asleep, the end is final.      *)
THEOREM Refinement == Spec => ImplementsWorkforce
<1>1. IInv /\ IInv' /\ [Next]_vars => [Abstract!WFNext]_(Abstract!wfVars)
  BY StepMaps DEF Maps
<1> QED
  BY <1>1, InitMaps, Inductive, PTL DEF Spec, ImplementsWorkforce, Abstract!WFSpec

----------------------------------------------------------------------------
(* The folds over the log: Projection.                                     *)

Kinds == AgentKinds \cup BoardKinds

(* Of the events of a step, e alone may move a fold. *)
Told(e) == /\ e \in NewEvents
           /\ \A f \in NewEvents \ {e} : f.kind \notin Kinds

Untold == \A f \in NewEvents : f.kind \notin Kinds

(* The three claims about the folds. *)
FoldsInv == FoldedBoardIsBoard /\ FoldsExactWhenAwake /\ WireParkedIsParked

----------------------------------------------------------------------------
(* What a handler appends, as a set. *)

LEMMA AppendedNone ==
  ASSUME emitted' = <<>> PROVE Untold
BY DEF Untold, NewEvents, ToSet

LEMMA AppendedOne ==
  ASSUME NEW e, emitted' = <<e>> PROVE Told(e)
<1>1. NewEvents = {e}
  BY DEF NewEvents, ToSet
<1> QED
  BY <1>1 DEF Told

LEMMA AppendedTwo ==
  ASSUME NEW d, NEW e, emitted' = <<d, e>>, d.kind \notin Kinds PROVE Told(e)
<1>1. NewEvents = {d, e}
  BY DEF NewEvents, ToSet
<1> QED
  BY <1>1 DEF Told

LEMMA AppendedFulfilled ==
  ASSUME NEW e, NEW c, emitted' = <<e>> \o FulfilledEvents(c) PROVE Told(e)
<1> DEFINE g == PlainEv("DirectiveFulfilled", Orchestrator)
<1>1. g.kind \notin Kinds
  BY DEF PlainEv, Ev, Kinds, AgentKinds, BoardKinds
<1>2. FulfilledEvents(c) = <<>> \/ FulfilledEvents(c) = <<g>>
  BY DEF FulfilledEvents
<1> HIDE DEF g
<1>3. CASE FulfilledEvents(c) = <<>>
  <2>1. emitted' = <<e>>
    BY <1>3, ConcatEmptySeq, <<e>> \in Seq({e})
  <2> QED
    BY <2>1, AppendedOne
<1>4. CASE FulfilledEvents(c) = <<g>>
  <2> DEFINE s == <<e>> \o <<g>>
  <2>1. <<e>> \in Seq({e, g}) /\ <<g>> \in Seq({e, g})
    OBVIOUS
  <2>2. s \in Seq({e, g}) /\ Len(s) = 2 /\ s[1] = e /\ s[2] = g
    BY <2>1, ConcatProperties
  <2>3. emitted' = s
    BY <1>4
  <2> HIDE DEF s
  <2>4. DOMAIN s = {1, 2}
    BY <2>2
  <2>5. NewEvents = {e, g}
    BY <2>2, <2>3, <2>4 DEF NewEvents, ToSet
  <2> QED
    BY <2>5, <1>1 DEF Told
<1> QED
  BY <1>2, <1>3, <1>4

----------------------------------------------------------------------------
(* What the folds make of it. *)

LEMMA FoldUntold ==
  ASSUME Untold, Fold PROVE UNCHANGED <<meter, wire, foldBoard>>
<1>1. Moves = {} /\ Mutations = {}
  BY DEF Untold, Moves, Mutations, Kinds
<1> QED
  BY <1>1 DEF Fold, FoldMeter, ApplyAgentState, ApplyBoard

LEMMA FoldTold ==
  ASSUME NEW e, Told(e), Fold
  PROVE  /\ e.kind \in AgentKinds =>
              /\ meter' = [a \in Agent |-> FoldAgent(e, a, meter[a], "Asleep")]
              /\ wire' = [a \in Agent |-> FoldAgent(e, a, wire[a], "Parked")]
         /\ e.kind \notin AgentKinds => UNCHANGED <<meter, wire>>
         /\ e.kind \in BoardKinds =>
              IF Accepts(e) THEN Replay(e) ELSE UNCHANGED foldBoard
         /\ e.kind \notin BoardKinds => UNCHANGED foldBoard
<1>1. Moves = IF e.kind \in AgentKinds THEN {e} ELSE {}
  BY DEF Told, Moves, Kinds
<1>2. Mutations = IF e.kind \in BoardKinds THEN {e} ELSE {}
  BY DEF Told, Mutations, Kinds
<1>3. FoldMeter /\ ApplyAgentState /\ ApplyBoard
  BY DEF Fold
<1>4. ASSUME e.kind \in AgentKinds
      PROVE  /\ meter' = [a \in Agent |-> FoldAgent(e, a, meter[a], "Asleep")]
             /\ wire' = [a \in Agent |-> FoldAgent(e, a, wire[a], "Parked")]
  <2>1. Moves = {e}
    BY <1>1, <1>4
  <2>2. PICK f \in Moves :
          meter' = [a \in Agent |-> FoldAgent(f, a, meter[a], "Asleep")]
    BY <1>3, <2>1 DEF FoldMeter
  <2>3. PICK g \in Moves :
          wire' = [a \in Agent |-> FoldAgent(g, a, wire[a], "Parked")]
    BY <1>3, <2>1 DEF ApplyAgentState
  <2> QED
    BY <2>1, <2>2, <2>3
<1>5. ASSUME e.kind \notin AgentKinds PROVE UNCHANGED <<meter, wire>>
  BY <1>1, <1>3, <1>5 DEF FoldMeter, ApplyAgentState
<1>6. ASSUME e.kind \in BoardKinds
      PROVE  IF Accepts(e) THEN Replay(e) ELSE UNCHANGED foldBoard
  <2>1. Mutations = {e}
    BY <1>2, <1>6
  <2>2. PICK f \in Mutations :
          IF Accepts(f) THEN Replay(f) ELSE UNCHANGED foldBoard
    BY <1>3, <2>1 DEF ApplyBoard
  <2>3. f = e
    BY <2>1
  <2> QED
    BY <2>2, <2>3
<1>7. ASSUME e.kind \notin BoardKinds PROVE UNCHANGED foldBoard
  BY <1>2, <1>3, <1>7 DEF ApplyBoard
<1> QED
  BY <1>4, <1>5, <1>6, <1>7

----------------------------------------------------------------------------
(* The board: replaying the event of a transition makes the transition.    *)

(* The transition of the run's board that an event reports. *)
Reports(e) ==
  CASE e.kind = "TaskCreated"    -> CreateTask(e.task, e.team)
    [] e.kind = "TaskClaimed"    -> Claim(e.src, e.task)
    [] e.kind = "TaskReleased"   -> \E t \in Task : Release(e.src, t)
    [] e.kind = "TaskUnassigned" -> Unassign(e.task)
    [] e.kind = "TaskCompleted"  -> \E t \in Task : Complete(e.src, t)
    [] e.kind = "TaskCancelled"  -> Cancel(e.task)
    [] e.kind = "TeamFormed"     -> FormTeam(e.team, e.members)
    [] e.kind = "TeamMembersSet" -> SetTeamMembers(e.team, e.members)
    [] e.kind = "TeamDissolved"  -> DissolveTeam(e.team)

LEMMA ReplayReported ==
  ASSUME FoldedBoardIsBoard, OneClaimPerAgent, NEW e,
         e.kind \in BoardKinds, Reports(e),
         e.kind \in {"TaskReleased", "TaskCompleted"} => e.src \in Agent,
         IF Accepts(e) THEN Replay(e) ELSE UNCHANGED foldBoard
  PROVE  FoldedBoardIsBoard'
<1>0. /\ fStatus = status /\ fClaimant = claimant /\ fTag = tag
      /\ fPhase = phase /\ fMembers = members
  BY DEF FoldedBoardIsBoard, foldBoard, boardVars
<1> SUFFICES /\ fStatus' = status' /\ fClaimant' = claimant' /\ fTag' = tag'
             /\ fPhase' = phase' /\ fMembers' = members'
  BY DEF FoldedBoardIsBoard, foldBoard, boardVars
<1>1. CASE e.kind = "TaskCreated"
  <2>1. CreateTask(e.task, e.team)
    BY <1>1 DEF Reports
  <2>2. Accepts(e)
    BY <1>0, <1>1, <2>1 DEF Accepts, CreateTask, MayCreate, Folded!MayCreate
  <2>3. Folded!CreateTask(e.task, e.team)
    BY <1>1, <2>2 DEF Replay
  <2> QED
    BY <1>0, <2>1, <2>3 DEF CreateTask, Folded!CreateTask
<1>2. CASE e.kind = "TaskClaimed"
  <2>1. Claim(e.src, e.task)
    BY <1>2 DEF Reports
  <2>2. Accepts(e)
    BY <1>0, <1>2, <2>1
       DEF Accepts, Claim, MayClaim, Folded!MayClaim, HasClaim, Folded!HasClaim,
           Claims, Folded!Claims, Eligible, Folded!Eligible
  <2>3. Folded!Claim(e.src, e.task)
    BY <1>2, <2>2 DEF Replay
  <2> QED
    BY <1>0, <2>1, <2>3 DEF Claim, Folded!Claim
<1>3. ASSUME e.src \in Agent, NEW t \in Task, NEW u \in Task, Claims(e.src, t),
             Folded!Claims(e.src, u)
      PROVE  u = t
  BY <1>0, <1>3 DEF Claims, Folded!Claims, OneClaimPerAgent
<1>4. CASE e.kind = "TaskReleased"
  <2>1. PICK t \in Task : Release(e.src, t)
    BY <1>4 DEF Reports
  <2>2. Accepts(e)
    BY <1>0, <1>4, <2>1
       DEF Accepts, Release, Claims, Folded!HasClaim, Folded!Claims
  <2>3. PICK u \in Task : Folded!Release(e.src, u)
    BY <1>4, <2>2 DEF Replay
  <2>4. u = t
    BY <1>3, <1>4, <2>1, <2>3 DEF Release, Folded!Release
  <2> QED
    BY <1>0, <2>1, <2>3, <2>4
       DEF Release, Folded!Release, LeaveClaimed, Folded!LeaveClaimed
<1>5. CASE e.kind = "TaskCompleted"
  <2>1. PICK t \in Task : Complete(e.src, t)
    BY <1>5 DEF Reports
  <2>2. Accepts(e)
    BY <1>0, <1>5, <2>1
       DEF Accepts, Complete, Claims, Folded!HasClaim, Folded!Claims
  <2>3. PICK u \in Task : Folded!Complete(e.src, u)
    BY <1>5, <2>2 DEF Replay
  <2>4. u = t
    BY <1>3, <1>5, <2>1, <2>3 DEF Complete, Folded!Complete
  <2> QED
    BY <1>0, <2>1, <2>3, <2>4
       DEF Complete, Folded!Complete, LeaveClaimed, Folded!LeaveClaimed
<1>6. CASE e.kind = "TaskUnassigned"
  <2>1. Unassign(e.task)
    BY <1>6 DEF Reports
  <2>2. Folded!Unassign(e.task)
    BY <1>0, <1>6, <2>1 DEF Accepts, Replay, Unassign
  <2> QED
    BY <1>0, <2>1, <2>2
       DEF Unassign, Folded!Unassign, LeaveClaimed, Folded!LeaveClaimed
<1>7. CASE e.kind = "TaskCancelled"
  <2>1. Cancel(e.task)
    BY <1>7 DEF Reports
  <2>2. Folded!Cancel(e.task)
    BY <1>0, <1>7, <2>1 DEF Accepts, Replay, Cancel
  <2> QED
    BY <1>0, <2>1, <2>2 DEF Cancel, Folded!Cancel
<1>8. CASE e.kind = "TeamFormed"
  <2>1. FormTeam(e.team, e.members)
    BY <1>8 DEF Reports
  <2>2. Folded!FormTeam(e.team, e.members)
    BY <1>0, <1>8, <2>1 DEF Accepts, Replay, FormTeam
  <2> QED
    BY <1>0, <2>1, <2>2 DEF FormTeam, Folded!FormTeam
<1>9. CASE e.kind = "TeamMembersSet"
  <2>1. SetTeamMembers(e.team, e.members)
    BY <1>9 DEF Reports
  <2>2. Folded!SetTeamMembers(e.team, e.members)
    BY <1>0, <1>9, <2>1 DEF Accepts, Replay, SetTeamMembers
  <2> QED
    BY <1>0, <2>1, <2>2 DEF SetTeamMembers, Folded!SetTeamMembers
<1>10. CASE e.kind = "TeamDissolved"
  <2>1. DissolveTeam(e.team)
    BY <1>10 DEF Reports
  <2>2. Accepts(e)
    BY <1>0, <1>10, <2>1
       DEF Accepts, DissolveTeam, MayDissolve, Folded!MayDissolve,
           NonTerminal, Folded!NonTerminal
  <2>3. Folded!DissolveTeam(e.team)
    BY <1>10, <2>2 DEF Replay
  <2> QED
    BY <1>0, <2>1, <2>3 DEF DissolveTeam, Folded!DissolveTeam
<1> QED
  BY <1>1, <1>2, <1>4, <1>5, <1>6, <1>7, <1>8, <1>9, <1>10 DEF BoardKinds

----------------------------------------------------------------------------
(* The slots: one agent moves, and its folds move with it. *)

LEMMA SlotTold ==
  ASSUME FoldsExactWhenAwake, WireParkedIsParked, Fold, ParkK \in Nat,
         NEW e, Told(e), e.kind \in AgentKinds, NEW a \in Agent,
         NEW m, NEW w,
         \A b \in Agent : \A old, p : b # a => FoldAgent(e, b, old, p) = old,
         \A old : FoldAgent(e, a, old, "Asleep") = m,
         \A old : FoldAgent(e, a, old, "Parked") = w,
         \A b \in Agent : b # a => /\ state'[b] = state[b]
                                  /\ anchor'[b] = anchor[b]
                                  /\ malformed'[b] = malformed[b],
         state'[a] # "Asleep" => m = At(state'[a], anchor'[a]) /\ w = m,
         w.at = "Parked" => state'[a] = "Asleep" /\ malformed'[a] = ParkK
  PROVE  FoldsExactWhenAwake' /\ WireParkedIsParked'
<1>1. \A b \in Agent : /\ meter'[b] = FoldAgent(e, b, meter[b], "Asleep")
                       /\ wire'[b] = FoldAgent(e, b, wire[b], "Parked")
  BY FoldTold
<1>2. meter'[a] = m /\ wire'[a] = w
  BY <1>1
<1>3. \A b \in Agent : b # a => meter'[b] = meter[b] /\ wire'[b] = wire[b]
  BY <1>1
<1>4. FoldsExactWhenAwake'
  <2> SUFFICES ASSUME NEW b \in Agent, state'[b] # "Asleep"
               PROVE  /\ meter'[b] = At(state'[b], anchor'[b])
                      /\ wire'[b] = At(state'[b], anchor'[b])
    BY DEF FoldsExactWhenAwake, At
  <2>1. CASE b = a
    BY <1>2, <2>1
  <2>2. CASE b # a
    BY <1>3, <2>2 DEF FoldsExactWhenAwake
  <2> QED
    BY <2>1, <2>2
<1>5. WireParkedIsParked'
  <2> SUFFICES ASSUME NEW b \in Agent, wire'[b].at = "Parked"
               PROVE  state'[b] = "Asleep" /\ malformed'[b] = ParkK
    BY DEF WireParkedIsParked
  <2>1. CASE b = a
    BY <1>2, <2>1
  <2>2. CASE b # a
    BY <1>3, <2>2 DEF WireParkedIsParked
  <2> QED
    BY <2>1, <2>2
<1> QED
  BY <1>4, <1>5

(* Nothing moves a slot or its folds. *)
LEMMA SlotsStill ==
  ASSUME FoldsExactWhenAwake, WireParkedIsParked,
         UNCHANGED <<agentVars, meter, wire>>
  PROVE  FoldsExactWhenAwake' /\ WireParkedIsParked'
BY DEF FoldsExactWhenAwake, WireParkedIsParked, agentVars, At

LEMMA NothingTold ==
  ASSUME FoldsInv, Fold, Untold, UNCHANGED <<boardVars, agentVars>>
  PROVE  FoldsInv'
<1>1. UNCHANGED <<meter, wire, foldBoard>>
  BY FoldUntold
<1>2. FoldedBoardIsBoard'
  BY <1>1 DEF FoldsInv, FoldedBoardIsBoard
<1>3. FoldsExactWhenAwake' /\ WireParkedIsParked'
  BY <1>1, SlotsStill DEF FoldsInv
<1> QED
  BY <1>2, <1>3 DEF FoldsInv

(* An event of the board alone. *)
LEMMA BoardTold ==
  ASSUME FoldsInv, OneClaimPerAgent, Fold, UNCHANGED agentVars,
         NEW e, Told(e), e.kind \in BoardKinds \ AgentKinds, Reports(e)
  PROVE  FoldsInv'
<1>1. UNCHANGED <<meter, wire>>
  BY FoldTold
<1>2. IF Accepts(e) THEN Replay(e) ELSE UNCHANGED foldBoard
  BY FoldTold
<1>3. FoldedBoardIsBoard'
  BY <1>2, ReplayReported DEF FoldsInv, AgentKinds
<1>4. FoldsExactWhenAwake' /\ WireParkedIsParked'
  BY <1>1, SlotsStill DEF FoldsInv
<1> QED
  BY <1>3, <1>4 DEF FoldsInv

LEMMA BoardStill ==
  ASSUME FoldsInv, Fold, UNCHANGED boardVars,
         NEW e, Told(e), e.kind \notin BoardKinds
  PROVE  FoldedBoardIsBoard'
BY FoldTold DEF FoldsInv, FoldedBoardIsBoard

----------------------------------------------------------------------------
(* Claims, completions and releases. *)

LEMMA ClaimFolds ==
  ASSUME IInv, FoldsInv, Fold, NEW a \in Agent, NEW t \in Task, HandleClaim(a, t)
  PROVE  FoldsInv'
<1> DEFINE e == TaskEv("TaskClaimed", a, t)
<1>1. Told(e)
  BY AppendedOne DEF HandleClaim
<1>2. e.kind = "TaskClaimed" /\ e.src = a /\ e.task = t
  BY DEF TaskEv, Ev
<1> HIDE DEF e
<1>3. \A b, old, p :
        FoldAgent(e, b, old, p) = IF b = a THEN At("Working", t) ELSE old
  BY <1>2 DEF FoldAgent
<1>4. FoldedBoardIsBoard'
  <2>1. Reports(e)
    BY <1>2 DEF Reports, HandleClaim
  <2>2. IF Accepts(e) THEN Replay(e) ELSE UNCHANGED foldBoard
    BY <1>1, <1>2, FoldTold DEF BoardKinds
  <2> QED
    BY <1>2, <2>1, <2>2, ReplayReported DEF BoardKinds, FoldsInv, IInv
<1>5. FoldsExactWhenAwake' /\ WireParkedIsParked'
  <2>1. /\ \A b \in Agent : b # a => /\ state'[b] = state[b]
                                    /\ anchor'[b] = anchor[b]
                                    /\ malformed'[b] = malformed[b]
        /\ state'[a] = "Working" /\ anchor'[a] = t
    BY DEF HandleClaim, IInv, TypeOK
  <2> DEFINE m == At("Working", t)
  <2>2. m.at # "Parked" /\ m = At("Working", t)
    BY DEF At
  <2>3. e.kind \in AgentKinds /\ ParkK \in Nat
    BY <1>2, WorldAssumption DEF AgentKinds
  <2>4. /\ \A b \in Agent : \A old, p : b # a => FoldAgent(e, b, old, p) = old
        /\ \A old, p : FoldAgent(e, a, old, p) = m
    BY <1>3
  <2> HIDE DEF m
  <2> QED
    BY <1>1, <2>1, <2>2, <2>3, <2>4, SlotTold DEF FoldsInv
<1> QED
  BY <1>4, <1>5 DEF FoldsInv

LEMMA FreeFolds ==
  ASSUME IInv, FoldsInv, Fold, NEW a \in Agent, NEW t \in Task,
         HandleComplete(a, t) \/ HandleRelease(a, t)
  PROVE  FoldsInv'
<1>1. PICK k \in {"TaskCompleted", "TaskReleased"} :
        /\ emitted' = <<TaskEv(k, a, t)>>
        /\ k = "TaskCompleted" => Complete(a, t)
        /\ k = "TaskReleased" => Release(a, t)
  BY DEF HandleComplete, HandleRelease
<1> DEFINE e == TaskEv(k, a, t)
<1>2. Told(e)
  BY <1>1, AppendedOne
<1>3. e.kind = k /\ e.src = a
  BY DEF TaskEv, Ev
<1> HIDE DEF e
<1>4. \A b, old, p : FoldAgent(e, b, old, p) = IF b = a THEN Idle ELSE old
  BY <1>3 DEF FoldAgent
<1>5. FoldedBoardIsBoard'
  <2>1. Reports(e)
    BY <1>1, <1>3 DEF Reports
  <2>2. IF Accepts(e) THEN Replay(e) ELSE UNCHANGED foldBoard
    BY <1>2, <1>3, FoldTold DEF BoardKinds
  <2> QED
    BY <1>3, <2>1, <2>2, ReplayReported DEF BoardKinds, FoldsInv, IInv
<1>6. FoldsExactWhenAwake' /\ WireParkedIsParked'
  <2>1. /\ \A b \in Agent : b # a => /\ state'[b] = state[b]
                                    /\ anchor'[b] = anchor[b]
                                    /\ malformed'[b] = malformed[b]
        /\ state'[a] = "Idle" /\ anchor'[a] = NoTask
    BY DEF HandleComplete, HandleRelease, SetIdle, IInv, TypeOK
  <2>2. Idle.at # "Parked" /\ Idle = At("Idle", NoTask)
    BY DEF Idle, At
  <2>3. e.kind \in AgentKinds /\ ParkK \in Nat
    BY <1>3, WorldAssumption DEF AgentKinds
  <2> QED
    BY <1>2, <1>4, <2>1, <2>2, <2>3, SlotTold DEF FoldsInv
<1> QED
  BY <1>5, <1>6 DEF FoldsInv

(* The claimant of an unassigned task goes Idle, or stays Asleep. *)
LEMMA UnassignFolds ==
  ASSUME IInv, FoldsInv, Fold, NEW t \in Task, NEW c, HandleUnassign(t, c)
  PROVE  FoldsInv'
<1>0. PICK a \in Agent : a = claimant[t] /\ Claims(a, t)
  BY DEF IInv, TypeOK, BoardTypeOK, ClaimantIffClaimed, HandleUnassign,
         Unassign, Claims
<1> DEFINE e == Ev("TaskUnassigned", Orchestrator, a, t)
<1>1. Told(e)
  BY <1>0, AppendedFulfilled DEF HandleUnassign
<1>2. e.kind = "TaskUnassigned" /\ e.agent = a /\ e.task = t
  BY DEF Ev
<1>4. state'[a] # "Asleep" => state'[a] = "Idle" /\ anchor'[a] = NoTask
  <2>1. CASE state[a] = "Working" /\ anchor[a] = t
    BY <1>0, <2>1 DEF HandleUnassign, SetIdle, IInv, TypeOK
  <2>2. CASE ~(state[a] = "Working" /\ anchor[a] = t)
    <3>1. state[a] # "Idle"
      BY <1>0 DEF IInv, AgentMatchesBoard, HasClaim
    <3>2. state[a] # "Working"
      <4>1. ASSUME state[a] = "Working" PROVE FALSE
        <5>1. anchor[a] \in Task /\ Claims(a, anchor[a])
          BY <4>1 DEF IInv, AgentMatchesBoard
        <5>2. anchor[a] = t
          BY <1>0, <5>1 DEF IInv, OneClaimPerAgent
        <5> QED
          BY <2>2, <4>1, <5>2
      <4> QED
        BY <4>1
    <3>3. state' = state
      BY <1>0, <2>2 DEF HandleUnassign
    <3>4. state[a] \in {"Idle", "Working", "Asleep"}
      BY DEF IInv, TypeOK
    <3> QED
      BY <3>1, <3>2, <3>3, <3>4
  <2> QED
    BY <2>1, <2>2
<1>5. \A b \in Agent : b # a => /\ state'[b] = state[b]
                              /\ anchor'[b] = anchor[b]
                              /\ malformed'[b] = malformed[b]
  BY <1>0 DEF HandleUnassign, SetIdle, IInv, TypeOK
<1>6. Unassign(t)
  BY DEF HandleUnassign
<1> HIDE DEF e
<1>7. \A b, old, p : FoldAgent(e, b, old, p) = IF b = a THEN Idle ELSE old
  BY <1>2 DEF FoldAgent
<1>8. FoldedBoardIsBoard'
  <2>1. Reports(e)
    BY <1>2, <1>6 DEF Reports
  <2>2. IF Accepts(e) THEN Replay(e) ELSE UNCHANGED foldBoard
    BY <1>1, <1>2, FoldTold DEF BoardKinds
  <2> QED
    BY <1>2, <2>1, <2>2, ReplayReported DEF BoardKinds, FoldsInv, IInv
<1>9. FoldsExactWhenAwake' /\ WireParkedIsParked'
  <2>1. Idle.at # "Parked" /\ Idle = At("Idle", NoTask)
    BY DEF Idle, At
  <2>2. e.kind \in AgentKinds /\ ParkK \in Nat
    BY <1>2, WorldAssumption DEF AgentKinds
  <2> QED
    BY <1>1, <1>0, <1>4, <1>5, <1>7, <2>1, <2>2, SlotTold DEF FoldsInv
<1> QED
  BY <1>8, <1>9 DEF FoldsInv

----------------------------------------------------------------------------
(* Sleeps, wakes and parks. *)

LEMMA SleptFolds ==
  ASSUME IInv, FoldsInv, Fold, UNCHANGED boardVars, NEW a \in Agent,
         NEW e, Told(e), e.kind = "AgentSlept", e.agent = a,
         state' = [state EXCEPT ![a] = "Asleep"], UNCHANGED <<anchor, malformed>>
  PROVE  FoldsInv'
<1> DEFINE m == At("Asleep", NoTask)
<1>1. \A b, old, p : FoldAgent(e, b, old, p) = IF b = a THEN m ELSE old
  BY DEF FoldAgent
<1>2. m.at # "Parked"
  BY DEF At
<1> HIDE DEF m
<1>3. FoldedBoardIsBoard'
  BY BoardStill DEF BoardKinds
<1>4. \A b \in Agent : b # a => /\ state'[b] = state[b]
                              /\ anchor'[b] = anchor[b]
                              /\ malformed'[b] = malformed[b]
  BY DEF IInv, TypeOK
<1>5. state'[a] = "Asleep"
  BY DEF IInv, TypeOK
<1>6. e.kind \in AgentKinds /\ ParkK \in Nat
  BY WorldAssumption DEF AgentKinds
<1>7. FoldsExactWhenAwake' /\ WireParkedIsParked'
  BY <1>1, <1>2, <1>4, <1>5, <1>6, SlotTold DEF FoldsInv
<1> QED
  BY <1>3, <1>7 DEF FoldsInv

LEMMA WokeFolds ==
  ASSUME IInv, FoldsInv, Fold, NEW a \in Agent, Wakes(a),
         NEW e, Told(e), e.kind = "AgentWoke", e.agent = a, e.task = anchor'[a]
  PROVE  FoldsInv'
<1>1. PICK m : m = IF anchor'[a] = NoTask THEN Idle ELSE At("Working", anchor'[a])
  OBVIOUS
<1>2. \A b, old, p : FoldAgent(e, b, old, p) = IF b = a THEN m ELSE old
  BY <1>1 DEF FoldAgent
<1>3. m.at # "Parked"
  BY <1>1 DEF At, Idle
<1>4. m = At(state'[a], anchor'[a])
  <2>1. ASSUME NEW t \in Task, state' = [state EXCEPT ![a] = "Working"],
               anchor' = [anchor EXCEPT ![a] = t]
        PROVE  m = At(state'[a], anchor'[a])
    <3>1. state'[a] = "Working" /\ anchor'[a] = t
      BY <2>1 DEF IInv, TypeOK
    <3>2. t # NoTask
      BY WorldAssumption DEF NoTask
    <3> QED
      BY <1>1, <3>1, <3>2
  <2>2. ASSUME SetIdle(a) PROVE m = At(state'[a], anchor'[a])
    BY <1>1, <2>2 DEF SetIdle, Idle, IInv, TypeOK
  <2> QED
    BY <2>1, <2>2 DEF Wakes
<1>5. FoldedBoardIsBoard'
  BY BoardStill DEF BoardKinds, Wakes
<1>6. \A b \in Agent : b # a => /\ state'[b] = state[b]
                              /\ anchor'[b] = anchor[b]
                              /\ malformed'[b] = malformed[b]
  BY DEF Wakes, SetIdle, IInv, TypeOK
<1>7. e.kind \in AgentKinds /\ ParkK \in Nat
  BY WorldAssumption DEF AgentKinds
<1>8. /\ \A b \in Agent : \A old, p : b # a => FoldAgent(e, b, old, p) = old
      /\ \A old, p : FoldAgent(e, a, old, p) = m
  BY <1>2
<1>9. FoldsExactWhenAwake' /\ WireParkedIsParked'
  BY <1>3, <1>4, <1>6, <1>7, <1>8, SlotTold DEF FoldsInv
<1> QED
  BY <1>5, <1>9 DEF FoldsInv

(* A finalize parks at exactly ParkK, and resets only a count below it. *)
LEMMA FinalizeFolds ==
  ASSUME IInv, FoldsInv, Fold, NEW a \in Agent, FinalizeTurn(a) PROVE FoldsInv'
<1> DEFINE done == [kind |-> "TurnCompleted", src |-> a, how |-> turn[a]]
<1>0. done.kind \notin Kinds
  BY DEF Kinds, AgentKinds, BoardKinds
<1>1. UNCHANGED boardVars /\ turn[a] # "none"
  BY DEF FinalizeTurn
<1>2. malformed[a] # ParkK
  BY <1>1 DEF IInv, ParkedAtK
<1>3. \A b \in Agent : b # a => malformed'[b] = malformed[b]
  BY DEF FinalizeTurn, IInv, TypeOK
<1>4. CASE turn[a] = "invalid" /\ malformed[a] + 1 >= ParkK
  <2> DEFINE e == AgentEv("AgentParked", a, a)
  <2>1. Told(e)
    BY <1>0, <1>4, AppendedTwo DEF FinalizeTurn
  <2>2. e.kind = "AgentParked" /\ e.agent = a
    BY DEF AgentEv, Ev
  <2>3. /\ \A b \in Agent : b # a => /\ state'[b] = state[b]
                                    /\ anchor'[b] = anchor[b]
        /\ state'[a] = "Asleep"
    BY <1>4 DEF FinalizeTurn, IInv, TypeOK
  <2>4. malformed'[a] = ParkK
    <3>1. malformed'[a] = malformed[a] + 1 /\ malformed[a] \in Nat
      BY <1>4 DEF FinalizeTurn, IInv, TypeOK
    <3>2. malformed[a] <= ParkK /\ ParkK \in Nat
      BY WorldAssumption DEF IInv, ParkedAtK
    <3> QED
      BY <1>2, <1>4, <3>1, <3>2
  <2> HIDE DEF e
  <2> DEFINE m == At("Asleep", NoTask)
             w == At("Parked", NoTask)
  <2>5. /\ \A b \in Agent : \A old, p : b # a => FoldAgent(e, b, old, p) = old
        /\ \A old : FoldAgent(e, a, old, "Asleep") = m
        /\ \A old : FoldAgent(e, a, old, "Parked") = w
    BY <2>2 DEF FoldAgent
  <2> HIDE DEF m, w
  <2>6. FoldedBoardIsBoard'
    BY <1>1, <2>1, <2>2, BoardStill DEF BoardKinds
  <2>7. e.kind \in AgentKinds /\ ParkK \in Nat
    BY <2>2, WorldAssumption DEF AgentKinds
  <2>8. FoldsExactWhenAwake' /\ WireParkedIsParked'
    BY <1>3, <2>1, <2>3, <2>4, <2>5, <2>7, SlotTold DEF FoldsInv
  <2> QED
    BY <2>6, <2>8 DEF FoldsInv
<1>5. CASE ~(turn[a] = "invalid" /\ malformed[a] + 1 >= ParkK)
  <2>1. Told(done) /\ UNCHANGED <<state, anchor>>
    BY <1>5, AppendedOne DEF FinalizeTurn
  <2> HIDE DEF done
  <2>2. UNCHANGED <<meter, wire, foldBoard>>
    BY <1>0, <2>1, FoldTold DEF Kinds
  <2>3. FoldedBoardIsBoard'
    BY <1>1, <2>2 DEF FoldsInv, FoldedBoardIsBoard
  <2>4. FoldsExactWhenAwake'
    BY <2>1, <2>2 DEF FoldsInv, FoldsExactWhenAwake, At
  <2>5. WireParkedIsParked'
    BY <1>2, <1>3, <2>1, <2>2 DEF FoldsInv, WireParkedIsParked
  <2> QED
    BY <2>3, <2>4, <2>5 DEF FoldsInv
<1> QED
  BY <1>4, <1>5

----------------------------------------------------------------------------
(* Every step. *)

LEMMA QuietFolds ==
  ASSUME IInv, FoldsInv, Fold,
         \/ TurnStep /\ ~\E a \in Agent : FinalizeTurn(a)
         \/ \E a \in Agent : OtherCall(a) \/ InvalidCall(a)
         \/ \E m \in Meta : HandlePropose(m)
         \/ \E d \in DOMAIN directives : HandleDecline(d)
         \/ \E a \in Agent, c \in {NoCite} \cup DOMAIN directives :
              HandleRespecialize(a, c)
         \/ HandleFinishRun
  PROVE  FoldsInv'
<1>1. UNCHANGED <<boardVars, agentVars>>
  BY DEF TurnStep, BeginBatch, EndBatch, StartTurn, AbortTurn, CleanFinish,
         ForceTerminate, EndRun, OtherCall, InvalidCall, HandlePropose,
         HandleDecline, HandleRespecialize, HandleFinishRun
<1>2. \A src, a, t :
        \A k \in {"DirectiveIssued", "DirectiveDeclined", "TurnCompleted",
                 "CapHit", "RunFinished", "AgentRespecialized"} :
          Ev(k, src, a, t).kind \notin Kinds
  BY DEF Ev, Kinds, AgentKinds, BoardKinds
<1>3. ASSUME NEW e, Told(e), e.kind \notin Kinds PROVE Untold
  BY <1>3 DEF Told, Untold
<1>4. CASE emitted' = <<>>
  BY <1>1, <1>4, AppendedNone, NothingTold
<1>5. CASE CleanFinish \/ ForceTerminate
  <2>1. PICK d, e : /\ d.kind \notin Kinds /\ e.kind \notin Kinds
                    /\ emitted' = <<d, e>> \/ emitted' = <<e>>
    BY <1>2, <1>5 DEF CleanFinish, ForceTerminate, EndRun, PlainEv
  <2>2. Told(e)
    BY <2>1, AppendedOne, AppendedTwo
  <2> QED
    BY <1>1, <1>3, <2>1, <2>2, NothingTold
<1>6. CASE (\E m \in Meta : HandlePropose(m))
             \/ \E d \in DOMAIN directives : HandleDecline(d)
  <2>1. PICK e : e.kind \notin Kinds /\ emitted' = <<e>>
    BY <1>2, <1>6 DEF HandlePropose, HandleDecline, PlainEv
  <2> QED
    BY <1>1, <1>3, <2>1, AppendedOne, NothingTold
<1>7. CASE \E a \in Agent, c \in {NoCite} \cup DOMAIN directives :
             HandleRespecialize(a, c)
  <2>1. PICK a \in Agent, c \in {NoCite} \cup DOMAIN directives :
          emitted' = <<AgentEv("AgentRespecialized", Orchestrator, a)>>
                       \o FulfilledEvents(c)
    BY <1>7 DEF HandleRespecialize
  <2> DEFINE e == AgentEv("AgentRespecialized", Orchestrator, a)
  <2>2. Told(e)
    BY <2>1, AppendedFulfilled
  <2>3. e.kind \notin Kinds
    BY <1>2 DEF AgentEv
  <2> HIDE DEF e
  <2> QED
    BY <1>1, <1>3, <2>2, <2>3, NothingTold
<1>8. \/ emitted' = <<>> \/ CleanFinish \/ ForceTerminate
      \/ \E m \in Meta : HandlePropose(m)
      \/ \E d \in DOMAIN directives : HandleDecline(d)
      \/ \E a \in Agent, c \in {NoCite} \cup DOMAIN directives :
           HandleRespecialize(a, c)
  BY DEF TurnStep, BeginBatch, EndBatch, StartTurn, AbortTurn, OtherCall,
         InvalidCall, HandleFinishRun
<1> QED
  BY <1>4, <1>5, <1>6, <1>7, <1>8

(* The verbs over tasks and teams that leave every slot alone. *)
LEMMA AuthoringFolds ==
  ASSUME IInv, FoldsInv, Fold,
         \/ \E g \in Team \cup {NoTeam} : HandleCreateTask(g)
         \/ \E t \in Task : HandleCancelTask(t)
         \/ \E g \in Team, ms \in SUBSET Agent :
              \/ HandleFormTeam(g, ms)
              \/ \E c \in {NoCite} \cup DOMAIN directives :
                   HandleSetTeamMembers(g, ms, c)
         \/ \E g \in Team : HandleDissolveTeam(g)
  PROVE  FoldsInv'
<1>0. \A k \in {"TaskCreated", "TaskCancelled", "TeamFormed", "TeamMembersSet",
                "TeamDissolved"} : k \in BoardKinds \ AgentKinds
  BY DEF BoardKinds, AgentKinds
<1>1. ASSUME NEW g \in Team \cup {NoTeam}, HandleCreateTask(g) PROVE FoldsInv'
  <2> DEFINE e == [kind |-> "TaskCreated", src |-> Orchestrator,
                   task |-> nextTask, team |-> g]
  <2>1. Told(e) /\ UNCHANGED agentVars
    BY <1>1, AppendedOne DEF HandleCreateTask
  <2>2. Reports(e)
    BY <1>1 DEF Reports, HandleCreateTask
  <2>3. e.kind = "TaskCreated"
    OBVIOUS
  <2> HIDE DEF e
  <2> QED
    BY <1>0, <2>1, <2>2, <2>3, BoardTold DEF IInv
<1>2. ASSUME NEW t \in Task, HandleCancelTask(t) PROVE FoldsInv'
  <2> DEFINE e == TaskEv("TaskCancelled", Orchestrator, t)
  <2>1. Told(e) /\ UNCHANGED agentVars
    BY <1>2, AppendedOne DEF HandleCancelTask
  <2>2. e.kind = "TaskCancelled" /\ e.task = t
    BY DEF TaskEv, Ev
  <2> HIDE DEF e
  <2>3. Reports(e)
    BY <1>2, <2>2 DEF Reports, HandleCancelTask
  <2> QED
    BY <1>0, <2>1, <2>2, <2>3, BoardTold DEF IInv
<1>3. ASSUME NEW g \in Team, NEW ms \in SUBSET Agent, HandleFormTeam(g, ms)
      PROVE  FoldsInv'
  <2> DEFINE e == [kind |-> "TeamFormed", src |-> Orchestrator, team |-> g,
                   members |-> ms]
  <2>1. Told(e) /\ UNCHANGED agentVars
    BY <1>3, AppendedOne DEF HandleFormTeam
  <2>2. Reports(e)
    BY <1>3 DEF Reports, HandleFormTeam
  <2>3. e.kind = "TeamFormed"
    OBVIOUS
  <2> HIDE DEF e
  <2> QED
    BY <1>0, <2>1, <2>2, <2>3, BoardTold DEF IInv
<1>4. ASSUME NEW g \in Team, NEW ms \in SUBSET Agent, NEW c,
             HandleSetTeamMembers(g, ms, c)
      PROVE  FoldsInv'
  <2> DEFINE e == [kind |-> "TeamMembersSet", src |-> Orchestrator, team |-> g,
                   members |-> ms]
  <2>1. Told(e) /\ UNCHANGED agentVars
    BY <1>4, AppendedFulfilled DEF HandleSetTeamMembers
  <2>2. Reports(e)
    BY <1>4 DEF Reports, HandleSetTeamMembers
  <2>3. e.kind = "TeamMembersSet"
    OBVIOUS
  <2> HIDE DEF e
  <2> QED
    BY <1>0, <2>1, <2>2, <2>3, BoardTold DEF IInv
<1>5. ASSUME NEW g \in Team, HandleDissolveTeam(g) PROVE FoldsInv'
  <2> DEFINE e == [kind |-> "TeamDissolved", src |-> Orchestrator, team |-> g]
  <2>1. Told(e) /\ UNCHANGED agentVars
    BY <1>5, AppendedOne DEF HandleDissolveTeam
  <2>2. Reports(e)
    BY <1>5 DEF Reports, HandleDissolveTeam
  <2>3. e.kind = "TeamDissolved"
    OBVIOUS
  <2> HIDE DEF e
  <2> QED
    BY <1>0, <2>1, <2>2, <2>3, BoardTold DEF IInv
<1> QED
  BY <1>1, <1>2, <1>3, <1>4, <1>5

(* The sleeps and wakes, by the orchestrator, a meta or the agent itself. *)
LEMMA RestFolds ==
  ASSUME IInv, FoldsInv, Fold, NEW a \in Agent,
         \/ HandleSelfSleep(a) \/ HandleSleepAgent(a) \/ HandleWakeAgent(a)
         \/ \E m \in Meta :
              HandleMetaSleepAgent(m, a) \/ HandleMetaWakeAgent(m, a)
  PROVE  FoldsInv'
<1>0. \A m : PlainEv("DirectiveIssued", m).kind \notin Kinds
  BY DEF PlainEv, Ev, Kinds, AgentKinds, BoardKinds
<1>1. ASSUME NEW src, Told(AgentEv("AgentSlept", src, a)),
             UNCHANGED <<boardVars, anchor, malformed>>,
             state' = [state EXCEPT ![a] = "Asleep"]
      PROVE  FoldsInv'
  <2> DEFINE e == AgentEv("AgentSlept", src, a)
  <2>1. e.kind = "AgentSlept" /\ e.agent = a
    BY DEF AgentEv, Ev
  <2> HIDE DEF e
  <2> QED
    BY <1>1, <2>1, SleptFolds DEF e
<1>2. ASSUME NEW src, Told(WokeEv(src, a)), Wakes(a) PROVE FoldsInv'
  <2> DEFINE e == WokeEv(src, a)
  <2>1. e.kind = "AgentWoke" /\ e.agent = a /\ e.task = anchor'[a]
    BY DEF WokeEv, Ev
  <2> HIDE DEF e
  <2> QED
    BY <1>2, <2>1, WokeFolds DEF e
<1>3. CASE HandleSelfSleep(a)
  BY <1>1, <1>3, AppendedOne DEF HandleSelfSleep
<1>4. CASE HandleSleepAgent(a)
  BY <1>1, <1>4, AppendedOne DEF HandleSleepAgent, Sleeps
<1>5. CASE HandleWakeAgent(a)
  BY <1>2, <1>5, AppendedOne DEF HandleWakeAgent
<1>6. ASSUME NEW m \in Meta, HandleMetaSleepAgent(m, a) PROVE FoldsInv'
  BY <1>0, <1>1, <1>6, AppendedTwo DEF HandleMetaSleepAgent, Sleeps
<1>7. ASSUME NEW m \in Meta, HandleMetaWakeAgent(m, a) PROVE FoldsInv'
  BY <1>0, <1>2, <1>7, AppendedTwo DEF HandleMetaWakeAgent
<1> QED
  BY <1>3, <1>4, <1>5, <1>6, <1>7

LEMMA StepFolds ==
  ASSUME IInv, FoldsInv, Next, vars' # vars, Fold PROVE FoldsInv'
<1>1. CASE TurnStep
  BY <1>1, QuietFolds, FinalizeFolds
<1>2. ASSUME NEW a \in Agent, AgentVerb(a) PROVE FoldsInv'
  BY <1>2, ClaimFolds, FreeFolds, RestFolds, QuietFolds DEF AgentVerb
<1>3. CASE OrchestratorVerb
  <2>1. ASSUME NEW c \in {NoCite} \cup DOMAIN directives, CitingVerb(c)
        PROVE  FoldsInv'
    BY <2>1, UnassignFolds, AuthoringFolds, QuietFolds DEF CitingVerb
  <2> QED
    BY <1>3, <2>1, AuthoringFolds, RestFolds, QuietFolds DEF OrchestratorVerb
<1>4. ASSUME NEW m \in Meta, MetaVerb(m) PROVE FoldsInv'
  BY <1>4, RestFolds, QuietFolds DEF MetaVerb
<1>5. ~Settle
  BY DEF Settle
<1> QED
  BY <1>1, <1>2, <1>3, <1>4, <1>5 DEF Next

LEMMA PInitInv == PInit => IInv /\ FoldsInv
<1> SUFFICES ASSUME PInit PROVE IInv /\ FoldsInv
  OBVIOUS
<1>1. IInv
  BY InitIInv DEF PInit
<1>2. FoldedBoardIsBoard
  BY DEF PInit, Init, BoardInit, Folded!BoardInit, FoldedBoardIsBoard,
         foldBoard, boardVars
<1>3. FoldsExactWhenAwake
  BY DEF PInit, Init, FoldsExactWhenAwake, Idle
<1>4. WireParkedIsParked
  BY DEF PInit, WireParkedIsParked, Idle, At
<1> QED
  BY <1>1, <1>2, <1>3, <1>4 DEF FoldsInv

LEMMA PNextInv == IInv /\ FoldsInv /\ [PNext]_pvars => IInv' /\ FoldsInv'
<1> SUFFICES ASSUME IInv, FoldsInv, [PNext]_pvars PROVE IInv' /\ FoldsInv'
  OBVIOUS
<1>1. IInv'
  <2>1. [Next]_vars
    BY DEF PNext, pvars, Settle
  <2> QED
    BY <2>1, NextIInv
<1>2. CASE Next /\ vars' # vars /\ Fold
  BY <1>1, <1>2, StepFolds
<1>3. CASE \/ UNCHANGED pvars
           \/ Settle /\ UNCHANGED <<meter, wire, foldBoard>>
  <2>1. UNCHANGED <<boardVars, agentVars, meter, wire, foldBoard>>
    BY <1>3 DEF pvars, vars, Settle
  <2>2. FoldedBoardIsBoard'
    BY <2>1 DEF FoldsInv, FoldedBoardIsBoard
  <2> QED
    BY <1>1, <2>1, <2>2, SlotsStill DEF FoldsInv
<1> QED
  BY <1>1, <1>2, <1>3 DEF PNext

(* The three claims together, which the next theorems read off. *)
THEOREM FoldsHold == PSpec => []FoldsInv
BY PInitInv, PNextInv, PTL DEF PSpec

(* ADR 0028: the board replayed from the log, refusals dropped, is the     *)
(* run's board after every event (fold.rs apply_board).                    *)
THEOREM ReplayIsBoard == PSpec => []FoldedBoardIsBoard
<1>1. FoldsInv => FoldedBoardIsBoard
  BY DEF FoldsInv
<1> QED
  BY <1>1, FoldsHold, PTL

(* Metrics::fold and apply_agent_state are exact for every agent that is   *)
(* not Asleep.                                                             *)
THEOREM AwakeFoldedExactly == PSpec => []FoldsExactWhenAwake
<1>1. FoldsInv => FoldsExactWhenAwake
  BY DEF FoldsInv
<1> QED
  BY <1>1, FoldsHold, PTL

(* The stream server shows "parked" only for an agent parked by the        *)
(* finalize of turn_body and neither woken nor unassigned since.           *)
THEOREM ParkedOnWire == PSpec => []WireParkedIsParked
<1>1. FoldsInv => WireParkedIsParked
  BY DEF FoldsInv
<1> QED
  BY <1>1, FoldsHold, PTL
=============================================================================
