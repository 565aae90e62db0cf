----------------------------- MODULE Workforce -----------------------------
(***************************************************************************)
(* What the runtime promises about work, without turns, mutex, board       *)
(* states, teams or directives: a pool of tasks, agents that each hold at  *)
(* most one, and agents at rest.  ADR 0010 (pull-only claiming, deliberate *)
(* transitions, no failed state) and ADR 0015 (Sleep, Wake, Park) in one   *)
(* machine.  World implements it (Worked below the World variables).       *)
(***************************************************************************)
EXTENDS Naturals

CONSTANTS Agent, Task, None

VARIABLES
  pool,     \* tasks anyone eligible may take
  closed,   \* tasks done or cancelled, for good
  holds,    \* Agent -> the one task it holds, or None
  resting,  \* agents that were put, or went, to sleep
  over      \* the run has taken a termination path

wfVars == <<pool, closed, holds, resting, over>>

WFInit ==
  /\ pool = {} /\ closed = {} /\ resting = {} /\ over = FALSE
  /\ holds = [a \in Agent |-> None]

Held == {holds[a] : a \in Agent}

Publish(t) ==
  /\ t \notin pool \cup closed \cup Held
  /\ pool' = pool \cup {t}
  /\ UNCHANGED <<closed, holds, resting>>

Withdraw(t) ==
  /\ t \in pool
  /\ pool' = pool \ {t} /\ closed' = closed \cup {t}
  /\ UNCHANGED <<holds, resting>>

(* Taking a task rouses the taker: an agent that fell asleep earlier in    *)
(* its own turn may still claim.                                           *)
Take(a, t) ==
  /\ holds[a] = None /\ t \in pool
  /\ pool' = pool \ {t}
  /\ holds' = [holds EXCEPT ![a] = t]
  /\ resting' = resting \ {a}
  /\ UNCHANGED closed

(* Released by its holder or taken away from it: it does not rouse a       *)
(* resting holder.                                                         *)
PutBack(a) ==
  /\ holds[a] # None
  /\ pool' = pool \cup {holds[a]}
  /\ holds' = [holds EXCEPT ![a] = None]
  /\ UNCHANGED <<closed, resting>>

(* Only an agent that is up completes its task. *)
Close(a) ==
  /\ holds[a] # None /\ a \notin resting
  /\ closed' = closed \cup {holds[a]}
  /\ holds' = [holds EXCEPT ![a] = None]
  /\ UNCHANGED <<pool, resting>>

(* Going to rest, with or without a task, keeps the task. *)
Rest(a) ==
  /\ a \notin resting
  /\ resting' = resting \cup {a}
  /\ UNCHANGED <<pool, closed, holds>>

Rouse(a) ==
  /\ a \in resting
  /\ resting' = resting \ {a}
  /\ UNCHANGED <<pool, closed, holds>>

Work ==
  \/ \E t \in Task : Publish(t) \/ Withdraw(t)
  \/ \E a \in Agent : PutBack(a) \/ Close(a) \/ Rest(a) \/ Rouse(a)
  \/ \E a \in Agent, t \in Task : Take(a, t)

WFNext ==
  /\ ~over
  /\ \/ Work /\ UNCHANGED over
     \/ over' = TRUE /\ UNCHANGED <<pool, closed, holds, resting>>

WFSpec == WFInit /\ [][WFNext]_wfVars
=============================================================================
