------------------------------ MODULE TurnLoop ------------------------------
(***************************************************************************)
(* What a turn sends to the completion endpoint and what it gets back:     *)
(* the inner loop of turn_body (openteam-core/src/runtime.rs), the         *)
(* AgentChannel that numbers completions and states the caller's identity  *)
(* (llm.rs, openteam-wire/src/identity.rs), the mock endpoint and its      *)
(* scenario player (openteam-mock/src/server.rs, scenario.rs), and the     *)
(* three outcomes of a tool call (tools.rs).                               *)
(*                                                                         *)
(* What a verb does to the board, the slots and the mailboxes is in World  *)
(* and Messaging; who gets a turn is in Scheduler.  Here any settled actor *)
(* may start one, and a verb matters if it bears on identity or on the     *)
(* run's end: respecialize and finish_run.                                 *)
(***************************************************************************)
EXTENDS Integers, Sequences, FiniteSets

CONSTANTS
  TeamAgent, Meta, Orchestrator,
  Slug, Generalist,  \* specialties; every team agent boots as Generalist
  MaxLlmCalls,       \* --max-llm-calls
  MaxToolIters,      \* --max-tool-iters
  MaxTicks,          \* --max-ticks
  Scripts,           \* the scenario's scripts, in file order
  Arc                \* what the built-in arc may answer: sequences of calls

Actor == TeamAgent \cup Meta \cup {Orchestrator}

ASSUME TurnLoopAssumption ==
  /\ TeamAgent \cap Meta = {} /\ Orchestrator \notin TeamAgent \cup Meta
  /\ Generalist \in Slug
  /\ MaxLlmCalls \in Nat /\ MaxToolIters \in Nat \ {0}
  /\ MaxTicks \in Nat \ {0}

VARIABLES
  turn,         \* Actor -> "settled" (not in_flight), or where its turn is
  callSeq,      \* Actor -> AgentChannel.call_seq
  slug,         \* TeamAgent -> the specialty in profile and channel
  window,       \* TeamAgent -> the specialties whose lines the window shows
  loop,         \* Actor -> the locals of its turn_body
  wire,         \* Actor -> the identity stamped on its latest completion
  llmCalls,     \* World.llm_calls
  finishRequested,
  finishing,    \* World.finishing and stopping, which are set together
  served,       \* history: Actor -> the answers it was given, in order
  spans         \* history: Actor -> the spans of its turn_completed events

channelVars == <<callSeq, slug, window, wire>>
runVars == <<llmCalls, finishRequested, finishing>>
vars == <<turn, channelVars, loop, runVars, served, spans>>

Role(a) == IF a = Orchestrator THEN "orchestrator"
           ELSE IF a \in Meta THEN "meta_agent" ELSE "team_agent"

\* The `user` field: rendered by the channel, parsed by the endpoint.
User(a) ==
  IF a \in TeamAgent THEN [role |-> Role(a), agent |-> a, specialty |-> slug[a]]
  ELSE [role |-> Role(a), agent |-> a]

Identity(a) == [user |-> User(a), call_seq |-> callSeq[a]]

Locals(a) ==
  [first |-> callSeq[a], completions |-> 0, tool_iters |-> 0,
   any_success |-> FALSE, finish_hit |-> FALSE, calls |-> <<>>,
   voice |-> User(a)]  \* whom the assembled system prompt speaks to

Idle == "settled"

Init ==
  /\ turn = [a \in Actor |-> Idle]
  /\ callSeq = [a \in Actor |-> 0]
  /\ slug = [a \in TeamAgent |-> Generalist]
  /\ window = [a \in TeamAgent |-> {}]
  /\ loop = [a \in Actor |-> Locals(a)]
  /\ wire = [a \in Actor |-> Identity(a)]
  /\ llmCalls = 0 /\ finishRequested = FALSE /\ finishing = "no"
  /\ served = [a \in Actor |-> <<>>]
  /\ spans = [a \in Actor |-> <<>>]

-----------------------------------------------------------------------------
\* The mock endpoint

\* Selector: an exact handle, or a wildcard over a role.
Matches(script, user) == script.agent \in {user.agent, user.role}

\* An exact handle beats a wildcard, ties go to the first in file order.
Select(user) ==
  LET matching == {i \in DOMAIN Scripts : Matches(Scripts[i], user)}
      exact == {i \in matching : Scripts[i].agent = user.agent}
      best == IF exact # {} THEN exact ELSE matching
  IN  {Scripts[i] : i \in {i \in best : \A j \in best : i <= j}}

Fallthrough == "fallthrough"
Response(say) == [kind |-> "say", calls |-> say]  \* <<>> for "yield"

\* The call sequence is the cursor: responses first, then repeat for ever.
Scripted(script, seq) ==
  LET past == seq - Len(script.responses)
  IN  IF past < 0 THEN script.responses[seq + 1]
      ELSE IF script.repeat # <<>>
           THEN script.repeat[(past % Len(script.repeat)) + 1]
           ELSE [kind |-> Fallthrough]

\* Whatever is answered is a list of calls; only the verb and whether its
\* arguments parse matter here.
Call == [verb : STRING, parses : BOOLEAN]
Reply == [kind : {"say"}, calls : Seq(Call)] \cup [kind : {Fallthrough}]

ASSUME ScenarioAssumption ==
  /\ DOMAIN Scripts = 1 .. Len(Scripts)
  /\ \A i \in DOMAIN Scripts :
       Scripts[i].responses \in Seq(Reply) /\ Scripts[i].repeat \in Seq(Reply)
  /\ Arc \subseteq Seq(Call)

\* What the endpoint may answer a completion.
Chat(id) ==
  LET said == {Scripted(s, id.call_seq) : s \in Select(id.user)}
      own == {r \in said : r.kind = "say"}
  IN  IF own = {} THEN Arc ELSE {r.calls : r \in own}

-----------------------------------------------------------------------------
\* The turn

\* The verbs of each role's registry, rendered into the request's tools.
Registry(role) ==
  CASE role = "team_agent" ->
         {"claim_task", "complete_task", "release_task", "post_message",
          "write_knowledge", "search_knowledge", "sleep"}
    [] role = "orchestrator" ->
         {"create_task", "cancel_task", "unassign_task", "form_team",
          "dissolve_team", "set_team_members", "respecialize", "sleep_agent",
          "wake_agent", "decline_directive", "post_message",
          "write_knowledge", "search_knowledge", "finish_run"}
    [] role = "meta_agent" ->
         {"set_parallelism", "sleep_agent", "wake_agent",
          "propose_respecialize", "propose_reallocate", "propose_rebalance"}

Step(a, from, to) == turn[a] = from /\ turn' = [turn EXCEPT ![a] = to]

\* Harness errors and caps: the first one decides, the later ones say nothing.
Finish(reason) == finishing' = IF finishing = "no" THEN reason ELSE finishing

\* turn_body up to the loop: the context is assembled under the mutex, with
\* the specialty of this moment, and the span starts at the channel's counter.
StartTurn(a) ==
  /\ finishing = "no"
  /\ Step(a, Idle, "loop")
  /\ loop' = [loop EXCEPT ![a] = Locals(a)]
  /\ UNCHANGED <<channelVars, runVars, served, spans>>

\* The top of the loop reads the stopping flag without the mutex.
StopCheck(a) ==
  /\ Step(a, "loop", IF finishing = "no" THEN "gate" ELSE Idle)
  /\ UNCHANGED <<channelVars, loop, runVars, served, spans>>

\* Mutant: completions are counted when they have been answered.
CompleteCountedLate(a) ==
  /\ Cardinality({p \in Actor \X (1..MaxLlmCalls) : p[2] <= Len(served[p[1]])})
       < MaxLlmCalls
  /\ Step(a, "gate", "calling")
  /\ llmCalls' = llmCalls + 1
  /\ wire' = [wire EXCEPT ![a] = Identity(a)]
  /\ callSeq' = [callSeq EXCEPT ![a] = @ + 1]
  /\ UNCHANGED <<slug, window, loop, finishRequested, finishing, served, spans>>

\* The cap gates each completion under the mutex, and counts it before it is
\* sent; the channel mints its number and renders the identity.
Complete(a) ==
  /\ llmCalls < MaxLlmCalls
  /\ Step(a, "gate", "calling")
  /\ llmCalls' = llmCalls + 1
  /\ wire' = [wire EXCEPT ![a] = Identity(a)]
  /\ callSeq' = [callSeq EXCEPT ![a] = @ + 1]
  /\ UNCHANGED <<slug, window, loop, finishRequested, finishing, served, spans>>

CapReached(a) ==
  /\ llmCalls >= MaxLlmCalls
  /\ Step(a, "gate", Idle)
  /\ Finish("max_llm_calls")
  /\ UNCHANGED <<channelVars, loop, llmCalls, finishRequested, served, spans>>

\* A transport fault, an error status, a body that does not decode, or an
\* answer without choices: nothing is retried, the run ends.
CompletionFails(a) ==
  /\ Step(a, "calling", Idle)
  /\ Finish("harness_error")
  /\ UNCHANGED <<channelVars, loop, llmCalls, finishRequested, served, spans>>

\* An answer in the turn's own account: calls make an iteration.
Told(t, calls) ==
  [t EXCEPT !.completions = @ + 1, !.calls = calls,
            !.tool_iters = IF calls = <<>> THEN @ ELSE @ + 1]

\* The answer comes back, and one without tool calls is a yield.
Answered(a) ==
  \E calls \in Chat(wire[a]) :
    /\ Step(a, "calling", IF calls = <<>> THEN "yielded" ELSE "batch")
    /\ loop' = [loop EXCEPT ![a] = Told(loop[a], calls)]
    /\ served' = [served EXCEPT ![a] = Append(@, calls)]
    /\ UNCHANGED <<channelVars, runVars, spans>>

-----------------------------------------------------------------------------
\* The batch

\* The three outcomes: a verb outside the registry or arguments that do not
\* parse are invalid, anything else is carried out or refused by the domain.
Outcomes(a, call) ==
  IF call.verb \in Registry(Role(a)) /\ call.parses
  THEN {"ok", "rejected"} ELSE {"invalid"}

Dispatched(a, calls) ==
  {out \in [DOMAIN calls -> {"ok", "rejected", "invalid"}] :
     \A i \in DOMAIN calls : out[i] \in Outcomes(a, calls[i])}

Executed(calls, out) == {calls[i].verb : i \in {i \in DOMAIN calls : out[i] = "ok"}}

\* Mutants: an Idle agent in the middle of a turn; a channel made anew.
RespecializeInFlight(b, new) ==
  /\ slug' = [slug EXCEPT ![b] = new]
  /\ window' = [window EXCEPT ![b] = {}]
  /\ UNCHANGED callSeq
RespecializeAnew(b, new) ==
  /\ turn[b] = Idle
  /\ slug' = [slug EXCEPT ![b] = new]
  /\ window' = [window EXCEPT ![b] = {}]
  /\ callSeq' = [callSeq EXCEPT ![b] = 0]

\* A lifecycle state of Idle is up to World; that no turn is in flight is not.
\* The swap wipes the window, and the channel's counter keeps climbing.
Respecialize(b, new) ==
  /\ turn[b] = Idle
  /\ slug' = [slug EXCEPT ![b] = new]
  /\ window' = [window EXCEPT ![b] = {}]
  /\ UNCHANGED callSeq

\* What the executed verbs do to identity.  A batch respecializes one agent.
Identities(verbs) ==
  IF "respecialize" \in verbs
  THEN \E b \in TeamAgent, new \in Slug : Respecialize(b, new)
  ELSE UNCHANGED <<slug, window, callSeq>>

\* A team agent's window gets a line for each call, whatever its outcome.
WindowPush(a) == window' = [window EXCEPT ![a] = @ \cup {slug[a]}]

\* Mutant: the turn is judged by its last batch.
JudgedByLast(t, success, hit) ==
  [t EXCEPT !.any_success = success, !.finish_hit = hit]

\* The batch in the turn's own account.
Accounted(t, success, hit) ==
  [t EXCEPT !.any_success = @ \/ success, !.finish_hit = hit]

\* One batch under the mutex, in array order; its replies go into the next
\* request.  An accepted finish_run or the last iteration leaves the loop.
Batch(a) ==
  /\ finishing = "no"
  /\ \E out \in Dispatched(a, loop[a].calls) :
       LET verbs == Executed(loop[a].calls, out)
           hit == "finish_run" \in verbs
           success == \E i \in DOMAIN out : out[i] # "invalid"
       IN  /\ Step(a, "batch",
                   IF hit THEN "yielded"
                   ELSE IF loop[a].tool_iters >= MaxToolIters THEN "capped"
                   ELSE "loop")
           /\ IF a \in TeamAgent
              THEN WindowPush(a) /\ UNCHANGED <<slug, callSeq>>
              ELSE Identities(verbs)
           /\ finishRequested' = (finishRequested \/ hit)
           /\ loop' = [loop EXCEPT ![a] = Accounted(loop[a], success, hit)]
  /\ UNCHANGED <<wire, llmCalls, finishing, served, spans>>

\* The run has ended while the answer was on its way: the calls are dropped.
BatchTooLate(a) ==
  /\ finishing # "no"
  /\ Step(a, "batch", Idle)
  /\ UNCHANGED <<channelVars, loop, runVars, served, spans>>

-----------------------------------------------------------------------------
\* The end of a turn

\* Mutant: a span that ends where the next one begins.
RecordedOpen(a) ==
  LET t == loop[a]
  IN  [first |-> t.first, last |-> t.first + t.completions,
       outcome |-> turn[a], malformed |-> t.tool_iters > 0 /\ ~t.any_success]

\* turn_completed, with the span of the numbers the turn used.
Recorded(a) ==
  LET t == loop[a]
  IN  [first |-> t.first, last |-> t.first + t.completions - 1,
       outcome |-> turn[a], malformed |-> t.tool_iters > 0 /\ ~t.any_success]

\* The locked finalize.  An orchestrator turn is a tick, and the cap on ticks
\* yields to a finish_run that was accepted.
Finalize(a) ==
  /\ turn[a] \in {"yielded", "capped"}
  /\ turn' = [turn EXCEPT ![a] = Idle]
  /\ IF finishing # "no" THEN UNCHANGED <<spans, finishing>>
     ELSE /\ spans' = [spans EXCEPT ![a] = Append(@, Recorded(a))]
          /\ finishing' =
               IF a # Orchestrator THEN "no"
               ELSE IF ~finishRequested
                    THEN IF Len(spans'[a]) >= MaxTicks THEN "max_ticks" ELSE "no"
                    ELSE IF loop[a].finish_hit THEN "clean" ELSE "no"
  /\ UNCHANGED <<channelVars, loop, llmCalls, finishRequested, served>>

\* The duration cap and a failed write come from outside.
ForceTerminate ==
  /\ finishing = "no"
  /\ finishing' = "forced"
  /\ UNCHANGED <<turn, channelVars, loop, llmCalls, finishRequested, served, spans>>

Over ==
  /\ finishing # "no" /\ \A a \in Actor : turn[a] = Idle
  /\ UNCHANGED vars

TurnStep(a) ==
  \/ StopCheck(a) \/ Complete(a) \/ CapReached(a)
  \/ CompletionFails(a) \/ Answered(a)
  \/ Batch(a) \/ BatchTooLate(a) \/ Finalize(a)

Next ==
  \/ \E a \in Actor : StartTurn(a) \/ TurnStep(a)
  \/ ForceTerminate \/ Over

Spec == Init /\ [][Next]_vars

-----------------------------------------------------------------------------
\* Where the next turn of a starts, by the record of its turns.
Continues(a) == IF spans[a] = <<>> THEN 0 ELSE spans[a][Len(spans[a])].last + 1

(***************************************************************************)
(* The spans of an agent's turn_completed events partition its completions *)
(* (ADR 0022: a reader joins events to completions by them): they follow   *)
(* each other without gap or overlap from 0, a turn in flight continues    *)
(* where the record ends and its counter is where its completions put it,  *)
(* and no turn uses more completions than max_tool_iters.                  *)
(***************************************************************************)
SpansTile ==
  \A a \in Actor :
    /\ \A i \in DOMAIN spans[a] :
         /\ spans[a][i].first = IF i = 1 THEN 0 ELSE spans[a][i-1].last + 1
         /\ spans[a][i].last \in spans[a][i].first ..
                                 spans[a][i].first + MaxToolIters - 1
    /\ (finishing = "no" \/ turn[a] # Idle) =>
         LET t == loop[a]
             sent == IF turn[a] = "calling" THEN 1 ELSE 0
         IN  IF turn[a] = Idle THEN callSeq[a] = Continues(a)
             ELSE t.first = Continues(a)
                  /\ callSeq[a] = t.first + t.completions + sent

\* A call no registry of a's role can carry out.
Invalid(a, call) == Outcomes(a, call) = {"invalid"}

\* The calls a made in the turn that a span records.
CallsOf(a, span) ==
  UNION {{served[a][i + 1][j] : j \in DOMAIN served[a][i + 1]} :
           i \in span.first .. span.last}

(***************************************************************************)
(* What turn_completed says of a turn is what happened in its span: it is  *)
(* malformed, and so counts towards the park of ADR 0015, exactly if it    *)
(* made calls and every call of every batch was invalid; and a turn is     *)
(* reported as capped only if its last completion still asked for calls.   *)
(***************************************************************************)
RecordsTell ==
  \A a \in Actor : \A i \in DOMAIN spans[a] :
    LET span == spans[a][i]
        calls == CallsOf(a, span)
    IN  /\ span.malformed <=> calls # {} /\ \A c \in calls : Invalid(a, c)
        /\ span.outcome = "capped" => served[a][span.last + 1] # <<>>

(***************************************************************************)
(* A turn speaks with one voice: the identity on each of its completions   *)
(* is the one its system prompt was assembled for, and what its window     *)
(* shows was done under it.  Nothing in the loop compares the two; that an *)
(* agent in flight is not respecialized (ADR 0003) is what keeps it so.    *)
(***************************************************************************)
OneVoicePerTurn ==
  /\ \A a \in Actor : turn[a] = "calling" => wire[a].user = loop[a].voice
  /\ \A a \in TeamAgent : window[a] \subseteq {slug[a]}

\* What a script says in order, unrolled n completions far.
Unrolled(script, n) ==
  LET more[k \in Nat] ==
        IF k = 0 THEN script.responses ELSE more[k - 1] \o script.repeat
  IN  more[n]

(***************************************************************************)
(* ADR 0023: the endpoint keeps no state and takes the completion's number *)
(* as its cursor.  An agent is then served its script in order, each       *)
(* response once, whatever the other agents do, however its completions    *)
(* fall into turns, and across a respecialization.                         *)
(***************************************************************************)
ScriptInOrder ==
  \A a \in Actor : \A s \in Select(User(a)) :
    LET n == Len(served[a])
        script == Unrolled(s, n)
    IN  \A i \in 1..n :
          i <= Len(script) /\ script[i].kind = "say" =>
            served[a][i] = script[i].calls

\* The completions a's channel has sent.
SentBy(a) == {<<a, i>> : i \in 1..callSeq[a]}

(***************************************************************************)
(* ADR 0006: max_llm_calls bounds the completions the endpoint sees, with  *)
(* any number of turns at the gate, and a run that names the cap as its    *)
(* end has used it up.                                                     *)
(***************************************************************************)
CallsWithinCap ==
  /\ Cardinality(UNION {SentBy(a) : a \in Actor}) <= MaxLlmCalls
  /\ finishing = "max_llm_calls" => llmCalls = MaxLlmCalls
=============================================================================
