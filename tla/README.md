# A verification model of openteam

openteam runs a team of language-model agents against one goal: an
orchestrator that authors tasks, a pool of team agents that claim them, and
meta-agents that tune the process.  One process drives all of them over one
mutex, one event log and one semaphore; a second one serves the log of that
run to dashboards while it is being written; a third can stand in for the model
endpoint.  These modules model the core of all three, check it with TLC on
small instances, and prove its main safety properties with TLAPS for instances
of any size.  Paths below are relative to `src/`; file names without a
directory are in `crates/openteam-core/src`.

## Inventory

| Component | Code | State | Operations | Modelled in |
|---|---|---|---|---|
| Board | `board.rs` | tasks (Open, Claimed by, Done, Cancelled), teams | create, claim, release, unassign, complete, cancel, form, dissolve, set members | `Board` |
| Runtime verbs | `runtime.rs` `dispatch`, `handle_*` | agent slots, directives, id counters, `finishing` | the twenty-odd verbs, under the mutex | `World`, `Messaging` |
| Turns | `runtime.rs` `turn_body` | in-flight flags, locals of the loop, malformed counts | assembly, completion loop, batch, finalize, park | `TurnLoop`, `World` |
| Scheduler | `runtime.rs` `scheduler`, `plan_dispatches`, `run_turn` | permits, debt, watermarks, cadence counters, `Notify` token | plan, dispatch, settle, drop permit, nudge | `Scheduler`; serial mode in `MockRun` |
| Watchdog, duration timer | `runtime.rs` `watchdog`, `run` | `forced_tick` | re-nudge, fire, cap | `Scheduler` |
| Directives | `directive.rs` | pending, fulfilled, declined | issue, fulfil, decline | `World`, `MockRun` |
| Mailboxes | `message.rs` | queues per agent | push, drain oldest first | `Messaging` |
| Knowledge store | `knowledge.rs` | append-only entries | insert (search is a read) | `Messaging` |
| Metrics fold | `metrics.rs` | meters, teams, queues, counters | `fold` per event | `Projection` (meters), `Ledger` (traffic) |
| Context assembly | `context.rs` | none (pure) | allocate, degrade, carry over | `ContextAssembly` |
| Transport, identity | `llm.rs`, `crates/openteam-wire/src/identity.rs` | call sequences, specialties | complete, respecialize | `TurnLoop` |
| Tools | `tools.rs` | none | registry per role, three outcomes | `TurnLoop` |
| Artifacts | `artifacts.rs` | `events.jsonl`, `run.lock` | lock, append a line, exit | `RunDir` |
| Snapshot fold | `crates/openteam-serve/src/fold.rs` | replayed board, four-state agents | `fold_events` | `Projection` |
| Stream server | `crates/openteam-serve/src/{discovery,tail,stream}.rs` | live registry, tail tasks, connections | classify, subscribe, tail, replay, resume | `RunDir`, `EventStream` |
| Built-in arc | `crates/openteam-mock/src/{arc,parse}.rs` | none: a function of the prompt and the dice | decompose, resolve, finish, claim, work, propose | `MockRun` |
| Scenario player | `crates/openteam-mock/src/{scenario,server}.rs` | none: the call sequence is the cursor | select, answer, fall through | `TurnLoop` |
| Routes, CLI, TUI | `crates/openteam-serve/src/routes.rs`, `crates/openteam` | none of their own | parse, render | not modelled |

How they interact.  The scheduler plans under the world mutex and spawns one
tokio task per dispatched turn.  A turn takes the mutex to assemble its
prompt and drain the mailbox lines the prompt shows, releases it for each
completion, takes it again for each batch of tool calls, and once more to
finalize.  Every verb appends events under the same mutex; `append_event` folds
metrics and counts for the metas' cadence before it returns, and writes the
line to `events.jsonl`, which the stream server reads from another process; the
only other thing the two share is the flock on `run.lock`.  A turn that ends
nudges the scheduler through `Notify`, drops its permit outside the mutex, and
nudges again.  The endpoint knows of a caller only what is on the request: the
prompt, an identity, and the number of the completion.

What is hard here: batches of different turns interleave, so what a turn saw
is stale when it acts; the same claim is recorded on the board, in a slot, in
two folds and on the wire; permits and nudges move outside the mutex; a run
may end while other turns are mid-completion; nothing but the log and the lock
reaches the readers, who read both without synchronisation while the writer
writes, tears lines, or dies; a mock that keeps no state must still end its
run.

What makes each part correct:

- Board: one claim per agent; a team outlives its non-terminal tasks.
- Verbs: slots agree with the board; a park is exact and keeps the claim; a
  directive is resolved once; nothing happens after the run's end.
- Turns: completions are numbered without gap or overlap and within the cap,
  and the record of a turn tells what happened in it.
- Scheduler: permits are conserved across `set_parallelism`; no wakeup is
  lost; a stall reaches the orchestrator; a terminated run returns.
- Messages: one order for everyone, nothing lost or made up, ids that name each
  other.
- Context: nothing is shed without need, and mail gets through any budget.
- Folds: replaying the log gives the board, awake agents exactly, and the
  mailboxes.
- Server: an answer about a run is justified, and every client gets every line
  once, in order, and an end.
- Mock: any prompt, however stale, leads to a bounded run.

The list `hazards` of `PROJECT.json` names each hazard at its line, with the
properties that would catch it, or why none does.

## Modules

    Board -- World ......... refines Workforce
      |        +-- Projection -- WorldProofs
      +---- MockRun -- MockRunProofs
    Scheduler -- SchedulerProofs
    TurnLoop -- TurnLoopProofs
    ContextAssembly -- ContextProofs
    Messaging .............. refines PostOffice
      +-- Ledger -- MessagingProofs
    RunDir -- EventStream .. refines Delivery
                 +-- StreamProofs

`WorldProofs` has the proofs about both `World` and `Projection`.  `Induction`
has the induction the proofs of `TurnLoop`, `MockRun`, `Ledger`, `EventStream`
and `ContextAssembly` use, and `Filtering` the one operator `retain` and `filter` are,
which `EventStream` and `Ledger` apply.

**Board** translates every mutator of `board.rs`.  `TaskState` is two
functions, `status` and `claimant`; a method's early returns are the guard of
its action, and a refused call changes nothing.  The guards that read more than
the task (`MayCreate`, `MayClaim`, `MayDissolve`) have names, because the replay
of the log meets the same refusals.

**World** is the write path.  `state`, `anchor` and `malformed` are the agent
slots; `turn` is `in_flight` with the malformed accounting of the turn so far;
`lock` is the mutex while a batch runs under it.  Each verb is one action by
the holder of the mutex and includes everything its handler does: the board
mutation, the slot, the directive, the events (`emitted`, the events this step
appended).  `FinalizeTurn` is the locked finalize with the park in it.  What
starts a turn is left open here, except what no dispatch may ignore.  A
refused or non-parsing call changes only the malformed accounting.  A duration
cap, an exhausted call budget, a failed completion and a failed write come
from outside this module and are `ForceTerminate`, at any moment the mutex is
free.

**Workforce** is the specification World implements: a pool, agents that hold
at most one task, agents at rest, and an end.  It has no turns, mutex, slots,
teams, parks or events.  The mapping reads pool, closed tasks and holdings off
the board, and rest off the slots, so the refinement ties the two records to
one abstract one.

**Projection** runs both folds on the events World emits: the metrics meter
(three states) and the server's replay through the Board's own mutators plus
its four-state agents.  The folds see only `emitted`.  The replay drops an event
its board refuses (`Accepts`), as `apply_board` drops the `Err`.

**Scheduler** is the reactor.  Steps that hold the mutex are atomic.  The two
things that happen outside it, a permit coming back and a `notify_one`, are
actions of their own and can fall inside a dispatch pass: `Admits` says which
sets of agents a pass can admit when permits return in the middle of it (the
runtime is multi-threaded).  Verbs appear by what they change for dispatch:
work events, mail, slots, high-signal events.  Every open task is eligible to
every agent.  The watermark is two facts, whether something fresh lies beyond
it for the orchestrator and for each agent.  `Notify` keeps one token.

**TurnLoop** is the inside of a turn.  `turn` is the program counter of
`turn_body`: at the top of the loop, at the gate where the call cap is looked
at, in a completion, before its batch, before its finalize.  `loop` holds the
locals the record is made from, `callSeq` and `slug` the agent's channel,
`wire` the identity stamped on its latest request.  The endpoint is the mock
server: `Chat` is the set of answers a scenario and the arc may give to an
identity.  `served` and `spans` are history: what was answered, and what the
`turn_completed` events say.  A verb matters here only if it bears on identity
or on the end of the run.

**ContextAssembly** is `assemble` as a function: the policy of each role, the
allocation pass in priority order, each section's drop rule as the loop it is
in the code (`ShedBoard`, `ShedRetrievals`, `ShedDigest`, `ShedWindow`,
`Taken`).  A loop over a list is `Iterate`, a recursive function, so that the
rules can be proved about.  A line is its token cost.  The two actions are a
turn's assembly with its drain, and the world moving on; they make the
carry-over of the mailbox a behaviour.  The properties say what a drop rule may
leave without its loop (`Remains`), and what is missing from an allowance without
the pass (`UsedBy`).

**Messaging** has the handlers that write messages or the store, the team verbs
that routing depends on, and the drain.  An embedding may fail, and the mutex
is held across it.  **PostOffice** is what it implements: accepted messages in
one order, each with its recipients of that moment, and recipients that are
handed over theirs in that order.  The mapping reads both off the event log
alone, so that the log, too, is shown to tell the traffic.  **Ledger** adds the
metrics fold over the same events.

**RunDir** is the run directory: the writer's life, the log line by line with
torn and failed writes, the lock, and the classifier as the two or three steps
it is.  **EventStream** adds the registry, the tail task, and one connection
per client with its phases (classify, subscribe, read, replay, follow, or serve
a run that is over).  A client reconnects with the last id it saw whenever its
stream ends, as an `EventSource` does, until it is answered 204.  A broadcast
is the sequence of what was sent, with a position per receiver; `Capacity` is
what a receiver may lag.  **Delivery** is what the server promises: an
append-only log, views that are prefixes of what was wanted of it, and a stop
only when the log is over and the view has it all.

**MockRun** composes the built-in arc with the harness: turns are planned,
assembled (the arc's answer is chosen then, among those some dice give),
applied to a world that may have moved, and ended.  It has concurrent turns and
the serial mode of `--mock`.

**MCWorld**, **MCProjection**, **MCScheduler**, **MCTurnLoop**, **MCContext**,
**MCLedger**, **MCEventStream**, **MCMockRun** give the constants values.

Operators commented "Mutant" are plausible bugs, used by no specification;
`PROJECT.json` pairs each with the property that finds it.

## Runs

| Run | Instance | Shows |
|---|---|---|
| `world` | 2 agents, 2 tasks, 1 meta, 1 directive, K = 3, no team; agents symmetric | `OneClaimPerAgent`, `AgentMatchesBoard`, `ParkedAtK`, the inductive invariant `IInv` (with the type invariant and `SleeperInTurnHoldsNoClaim`); `FinishFreezesWorld`; `ImplementsWorkforce` |
| `projection` | 2 agents, 1 task, 1 team, 1 directive, K = 2 | `TaggedTeamLive`, `FoldedBoardIsBoard`, `FoldsExactWhenAwake`, `WireParkedIsParked`, `DirectiveResolvedOnce` |
| `permits` | 2 agents, 1 meta, 2 permits, threshold 2, 1 task, no mail | `PermitsAccounted`, `OwnedWithinConfigured`, `NoLostWakeup`, `PermitWhenQuiet` |
| `live` | 2 agents, 1 permit, 1 task, mail, no meta; fair | `TerminationReturns`, `StallReachesOrchestrator`, `OrchestratorHears` |
| `turns` | 2 agents, orchestrator, 2 specialties, 2 scripts, 5 completions, 2 iterations, 2 ticks | `SpansTile`, `RecordsTell`, `OneVoicePerTurn`, `ScriptInOrder`, `CallsWithinCap` |
| `ledger` | 2 agents, 2 senders, 1 team with two member lists, 2 messages, 1 note, 6 events | `CrossReferenced`, `MailboxIsOwed`, `FoldedMailboxIsMailbox`, `VolumeIsStore`; `ImplementsPostOffice` |
| `context` | 3 roles, 4 pools, 4 mailboxes, 48 views | `ShedsMinimally`, `AllowanceIsWhatIsLeft`, `MailIsShown`; `CarryoverDelivers` (fair) |
| `stream` | 2 clients, 2 events and the bookend, buffer of 1, 1 fault; fair | `AnswersJustified`, `ReceiverIsFed`, `NoGapBehindTail`; `ImplementsDelivery`, `EveryClientStops` |
| `mock` | 2 tasks of work 1: 2 agents, or 1 and a meta, concurrent; 2 and a meta, serial; fair | `ArcBounds`, `FinishNeverRefused`; `Converges` |
| `doc_*` | small instances of the same | three statements of the documents that the code does not keep; see below |

Bounds.  `MaxTask` bounds tasks: two are what the claim invariants need (one
held, one wanted), one suffices for the folds, where the questions are about
one task's history.  In `Scheduler` it bounds the tasks alive at once, not
those ever created.  `MaxDirective` bounds directives; one can be issued,
cited, declined and cited again.  `ParkK` is 3 in `world` as in the code; 2 in
`projection`, where only reaching it matters.  `Threshold` is the metas'
cadence (6 in the code, and in `mock`): a counter saturates at it, and beyond
it nothing depends on the count.  `MaxNudging` is how many pending `notify_one`
calls are told apart: with one token, a second pending call adds nothing that
the first does not already do at a later time.  `MaxMail` bounds the mailboxes.
Two agents and one or two permits are the smallest pools in which agents
compete and permits come back during a pass.

`turns`: five completions over three actors and two iterations per turn let
every exit of the loop happen, a turn with a completion behind and one in
front of another actor's, and the cap reached with two turns at the gate.  The
wildcard script stands before the one by handle, has an invalid verb and a
yield in its loop, and the other falls through to the arc in its middle.
`ledger`: six events hold two messages, a note, the team verbs around them and
drains of one or both.  `context`: section contents lie on both sides of every
budget, the pool runs out in the first, a middle and no section, and some
messages are larger than their budget.  `stream`: two events before the bookend
and a buffer of one make a receiver lag; one client starts from the beginning
and one with `?from=0`.  `MaxFault` bounds what the environment may do
(`Fault`): torn lines, lost connections, readers that collide on the lock; a
crash of the run can come at any point besides.  `mock`: with work of one
action a task is claimed, worked and completed in three turns; the code's
quota of three is in `doc_mock`.

`world` and `projection` stop for good once the run has ended (`Settle`),
`Scheduler` once `scheduler` has returned (`Done`), `turns` once the run is
over (`Over`), `stream` once the clients are (`AllStopped`), so deadlock is
checked there.  `ledger` stops at its bounds and a mock run ends, so it is not
checked in `ledger`, `mock` and `doc_mock`.

Fairness.  The scheduler, pending nudges, permit drops, the watchdog and
dispatched turns are tokio tasks; a ready task is polled and its mutex is
first come, first served, hence weak fairness on each (`RuntimeFairness`).
`CompletionsReturn` assumes that the endpoint answers or fails; a turn makes at
most `max_tool_iters` completions.  No verb, claim or message is assumed to
ever come: the models decide that, so no property of `live` says that a task
completes.  In `mock` the model is the arc, so `Converges` can say it; there a
turn is weakly fair as a whole and so is the dispatch.  In `stream` the writer
gets on (its events are bounded, as the caps bound them in the code; a torn
line is completed or fails), the tail task and each connection are tokio tasks,
and a client reconnects, as the `retry:` field asks it to.  Two readers that
meet on `run.lock` each see it held; that they do so only `MaxFault` times is
an assumption about timing, without which `EveryClientStops` does not hold:
two clients could take each other's momentary lock for the run's for ever.
`context` only assumes that turns go on.

## What the documents say and the code does not do

Three are runs whose single property states the document; the counterexample is
the code's behaviour.

- `doc_finish`: ADR 0006, "no open or claimed tasks remain".  `finish_run` is
  validated when it is called; the rest of its batch, and other agents before
  the finalize, can still create and claim (`runtime.rs:1434`, `1837`).
- `doc_aborted`: `discovery.rs:9-11` and ADR 0027, a run is aborted when its
  bookend is absent and its lock free.  `classify` reads the bookend first and
  tries the lock afterwards; a run that finishes and exits in between is
  answered aborted, and the stream sends the abort frame behind the
  `run_finished` line.  `AnswersJustified` is what remains true, and is proved.
- `doc_mock`: `arc.rs:16` and ADR 0021, "no seed can produce a non-terminating
  [...] run".  In serial mode a meta-agent proposes to reallocate the task that
  an agent completes later in the same pass.  The orchestrator then acts on the
  proposal with an `unassign_task` that is refused, and yields; the board is
  done, nothing fresh is there for it, the watchdog does not take that for a
  stall (`runtime.rs:332`), and the meta-agent has counted five events of six.
  Without a cap the run waits for ever.  A respecialize acted upon at the tick
  that would have finished ends the same way.

The modules also state these, without a run of their own; TLC refutes each
in seconds under the cfg of the module's run.

- `World!WakeNeverSelfIssued` (CONTEXT.md:202): `sleep` and then `claim_task`
  in one turn makes the agent Working again, since `claim_task` has no
  lifecycle guard (`runtime.rs:643`).
- `Projection!MeterIsLifecyclePosition` (`metrics.rs:25`): unassigning a parked
  agent folds it to Idle while it is Asleep.
- `Scheduler!CapForcesTermination` (ADR 0006): the run waits for every
  completion in flight, and a completion has no timeout (`llm.rs:93`).  It is
  `TerminationReturns` under the fairness the runtime itself provides.
- `Scheduler!DispatchWithinEffective` (`runtime.rs:1975`): a permit that
  returns after the pass has settled its debt is acquired by the same pass, so
  a turn is dispatched beyond the lowered parallelism.  `--parallel` itself is
  never exceeded (`OwnedWithinConfigured`).
- `EventStream!FinishDeliveredInBand` (`stream.rs:98-99`): events appended
  between the poll and the classification, `run_finished` among them, are not
  sent before the task stops; the client finds them when it reconnects.
- `Ledger!DepthIsUndelivered` (`metrics.rs:71-74`): the fold counts a direct
  message to oneself, which is never put into a mailbox, so it is pending for
  ever; and one delivery removes both copies of a message to a team that lists
  an agent twice.  `Comparable` is the part on which fold and mailbox agree.

## What is proved

For every set of agents, tasks `1..MaxTask`, teams and metas, and every K:

- `WorldProofs!TypeCorrect`: `Spec => []TypeOK`.
- `WorldProofs!Inductive`: `Spec => []IInv`, and from it `OneClaim`,
  `SlotsMatchBoard`, `ParkIsExact`, `SleeperClaimsNothing`, `TaggedTeamsLive`.
- `WorldProofs!FinishIsFinal`, `ResolvedOnce`: the two action properties.
- `WorldProofs!Refinement`: `Spec => ImplementsWorkforce`.

The only assumptions are `BoardAssumption` and `WorldAssumption`: names are
distinct, tasks are `1..MaxTask`, K is positive.

`IInv` is the type invariant, three facts about the board, three about the
slots, and `HolderInTurn`.  None of the slot invariants is inductive alone.  A
claim by a parked agent would break `ParkedAtK`; what excludes it is that a
parked agent has no turn and that only an actor in a turn holds the mutex.  An
unassign frees the slot of the task's claimant; that this slot is the right
one needs `OneClaimPerAgent` and that only claimed tasks have a claimant.  A
completion by an agent asleep in its own turn would not be an abstract
`Close`; `SleeperInTurnHoldsNoClaim` excludes it.  The proof of a step first
shows that one slot moves and the others are framed (`OneSlotMoves`), then
treats the verbs one by one; the refinement reduces each verb to a lemma
`As...` about the mapped variables.

`SchedulerProofs`, for any pool and any bounds, from `SchedulerAssumption`:
`TypeCorrect`, `Accounting`, `Ceiling`, `PermitAvailable`, `NoWakeupLost`.  The
invariant is `PermitInv`, type correctness with the two permit invariants; how
many permits are owned is a cardinality, so the lemmas say how it moves when
a turn starts, ends and drops its permit, and `PlanOwned` counts a whole
dispatch pass.  That a pass which leaves somebody undispatched leaves a nudge
behind (`PlanWakeup`) needs the accounting: no permit was free, so some turn
owns one, and its end will nudge.

`StreamProofs`, for any clients, readers and log, from `RunDirConstants` and
`StreamConstants`: `ClassifierAnswers`, `EveryReceiverFed`, `LockHeldByLife`,
`NoGap` (`NoGapBehindTail`) and `DeliversTheLog` (`Spec => ImplementsDelivery`).
The invariant is `StreamInv`: `DirInv` (types, the lock, the answers, and the
order of the writer's life that the readers rely on), the shape of the server's
state, that only a connection that asks is classified, and `ReceiverIsFed`.
That `subscribe` can always open a broadcast nobody else is on is a counting
argument (`SpareChan`: there are more broadcasts than clients).

For the other two `DeliveryInv` says where every id of the log is.  The ids of
the readable lines increase; what the tail task still has to send is later than
all its broadcast holds; the queue of a connection holds the earliest of the ids
still wanted, its broadcast the next, and what is in neither is still to be sent,
if the broadcast is fed and the receiver has not lagged.  `NoGapBehindTail` is a
part of that, and alone it is not inductive: that nothing is missing does not say
that what is sent next is the earliest missing, which is what keeps a resume
point, a single number, exact.  Each part is an operator of the pieces of state
it is about, with a lemma for each thing that can happen to them: a line is
appended (`LineConn`), a batch polled or sent (`PollMoves`, `SendConn`), a
broadcast opened, joined or closed (`OpenInOrder`, `JoinInOrder`,
`SenderDropped`), a frame taken from the queue or the broadcast (`QueueHead`,
`MessageHead`).  `NextWanted` then says that the earliest logged id from where a
view ends is the next one its client wants, and that makes a frame a `Deliver`
and a 204 a `Stop`.

`TurnLoopProofs`, for any actors, scripts and caps, from `TurnLoopAssumption`
and `ScenarioAssumption` (a scenario is well formed): `SpansPartition`,
`OneVoice`, `CapHolds`, `RecordsTellTruth`, `ScriptServedInOrder`.  `TurnInv`
adds to the properties what the locals of a turn in flight are worth: it counted
its own completions, and its prompt speaks to who the agent still is.  The cap is
about the set of all completions sent, whose cardinality is shown to be
`llm_calls`.  For the records, the flag `any_success` and the list of calls a
turn carries are tied to the batches already served in its open span; `served`
only grows, so a closed span keeps its calls (a span's identity is the one it was
registered under, which `OneVoicePerTurn` supplies).  `ScriptInOrder` compares
the responses served with a recursive function of the cursor; what that function
returns for one more completion is an instance of `Induction!Iterates`.

`MockRunProofs`, for any pool, metas, budgets, quota and cadence, in either
mode: `ArcKeepsBounds`, `FinishIsNeverRefused`.  An answer is decided on the
world of a prompt and applied to a later one, so the invariant is about the
answers on their way: whatever plan an actor still carries was within the bounds
on the world it was decided on, and the facts it was decided on are stable (only
the orchestrator stages tasks, a meta-agent's judgment is its own, a task that
was terminal stays so).  No task comes behind the orchestrator's back, which is
why its `finish_run` is never refused.

`MessagingProofs`, for any agents, teams, member lists and bounds, from
`MessagingConstants`: `IdsInStep` and `IdsInStepFolded` (`CrossReferenced`
without and with the fold), `NothingLost` (`MailboxIsOwed`), `IsPostOffice`
(`Spec => ImplementsPostOffice`) and `VolumesAddUp` (`VolumeIsStore`).
`LedgerInv` adds to `CrossReferenced` that a message's reference lies in the
store; the steps that ingest are one lemma (`Ingested`).  `TrafficInv` adds that
message `n` has one event in the log, that every team an event addresses was
named by an earlier one and that the last of these is what the board has: the
audience of a message, read off the log, is then what `recipients_for` returned
when it was accepted, and stays that however the teams change
(`AudienceKept`).  A post appends the same copies to what everybody is owed and
to the mailboxes (`OwedPost`), a drain moves a prefix from the mailbox to what
has been delivered (`DeliveredNext`), and these two are the steps of
`PostOffice`.  Owed and delivered are concatenations of sequences, which the
community modules define by recursion; `Induction!FlattenAppend` says what one
more element does.

The last of its theorems is `FoldedMail` (`FoldedMailboxIsMailbox`): the
mailboxes recomputed from the log and the real ones agree on every message that
can be compared.  `MailInv` adds to the invariants above that the fold's teams
are the live ones with their members (`TeamsFolded`), that an id which can be
compared stands at most once in a mailbox (`Once`), and that ids and times of
sending are what the log says.  A message that is posted is compared and stands
in both mailboxes, or is not compared (`MailPosted`).  A drain is where the two
differ: the code takes the oldest from the mailbox, the fold takes ids wherever
they stand.  It is the same because no compared id that was taken comes again in
the rest (`MailDrained`).

Of `Projection`, again in `WorldProofs` and from the same assumptions:
`ReplayIsBoard`, `AwakeFoldedExactly`, `ParkedOnWire`.  `FoldsInv` is the three
claims about the folds, inductive together with `IInv`.  Of the events a step
appends at most one moves a fold (`Told`); `ReplayReported` shows that replaying
the event of a board transition is accepted and makes that transition (for a
release, whose event the replay answers by agent alone, this needs
`OneClaimPerAgent`), and `SlotTold` that one slot moves with its two folds.  An
unassign folds the claimant to Idle, which is exact only because a claimant is
Working on that very task or Asleep (`AgentMatchesBoard`); a park puts the count
at exactly K because `ParkedAtK` bounds it before.

`ContextProofs`, for any contents, mailboxes and pools, from
`ContextConstants` (what is found is sequences of lines, a pool is a number or
unset): `Sheds` (`ShedsMinimally`), `Allowances` (`AllowanceIsWhatIsLeft`) and
`CarriesOver` (`MailIsShown`).  `ContextInv` is these three with the types and
`queued = delivered \o mailbox`; types and the last are what makes a step's
argument possible, since the properties compare a prompt with a mailbox that
has been drained by then (`Drain`).  The work is in the function `Assemble`.
A loop that sheds goes down a ladder of remainders, all lines at the top, and
settles on the first that will do (`DescentSettles`); that its result is the
longest that fits, or the least that may stay, follows for any ladder
(`SettledIsLeast`).  What each ladder consists of is a lemma per rule: prefixes,
suffixes, and for the board the lines at a set of places, told by their ranks
(`LinesWithout`, `HeldSize`): taking the last terminal task away from every open
task and the first `k` terminal ones leaves the first `k - 1`.  Messages are
taken instead of shed; costs of prefixes grow, so the first that does not fit
ends the only prefix that counts (`TakenIsLeast`).  The allocation pass goes
through the sections of a policy once each, a priority apiece
(`AllocationOrderIs`); before the section at place `m` the pool has lost what
the `m - 1` before it used (`LeftIs`), and these are the sections of higher
priority, whose sum the property takes in policy order (`UsedByIs`).  A policy
has one section of messages or, for a meta-agent, none, so what is drained is
the length of that one (`DrainedIsShown`).

`Induction` makes many of the proofs above possible.  The library's induction theorems
take a predicate, which the provers cannot instantiate; `SetInduction` takes a
set instead, and from it follow primitive recursion (`Iterates`) and the facts
about `FlattenSeq` and `Without`: what one more element does to them, which
elements remain, that an increasing sequence stays increasing, and that
filtering respects concatenation and composes (`WithoutConcat`, `WithoutBoth`).

Model-checked only: the liveness properties (`Converges`, `EveryClientStops`,
`TerminationReturns`, `StallReachesOrchestrator`, `OrchestratorHears`,
`CarryoverDelivers`), which the prover has no rules for.  Every invariant and
every action property that a passing run checks is stated by one of the theorems
above.

## Not modelled

- Text: prompts, digests, reports, argument parsing, identifiers, JSON,
  scenario files, say templates.
- Embedding scores and search results.
- `routes.rs`, `server.rs`, the command line and the dashboard: they keep no
  state and call what is modelled.
- Latency metrics and the other counters of the run summary.
- The final snapshots of a run directory, beyond when they are written.
- In `MockRun`: prompts that a small assembly pool has cut (the arc then counts
  too few tasks and authors more than its budget), fewer permits than agents,
  and the degraded answer to a prompt without sections.
- In `EventStream`: runs that are deleted while they are served.
- The fairness of permits between agents: the pass goes in handle order and
  promises none; an early agent that always works can starve a later one.

## Plan

1. `MetaCadence`: several metas with exact event counts (ADR 0020, no
   busy-spin).
2. `MockRun` under a permit cap and under cut prompts.
