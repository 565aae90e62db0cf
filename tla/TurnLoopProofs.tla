--------------------------- MODULE TurnLoopProofs ---------------------------
(***************************************************************************)
(* Machine-checked proofs about TurnLoop, for any team, metas, scenario    *)
(* and caps: the spans of turn_completed tile an agent's completions and   *)
(* tell what happened in them, a turn speaks with one voice, a script is   *)
(* served in order, and the cap on completions is never passed.            *)
(***************************************************************************)
EXTENDS TurnLoop, FiniteSetTheorems, SequenceTheorems, Induction, TLAPS

Where == {Idle, "loop", "gate", "calling", "batch", "yielded", "capped"}

Span == [first : Int, last : Int, outcome : Where, malformed : BOOLEAN]

LocalsShape(t) ==
  t = [first |-> t.first, completions |-> t.completions, tool_iters |-> t.tool_iters,
       any_success |-> t.any_success, finish_hit |-> t.finish_hit,
       calls |-> t.calls, voice |-> t.voice]

TypeOK ==
  /\ turn \in [Actor -> Where]
  /\ callSeq \in [Actor -> Nat]
  /\ slug \in [TeamAgent -> Slug]
  /\ window \in [TeamAgent -> SUBSET Slug]
  /\ loop = [a \in Actor |-> loop[a]] /\ \A a \in Actor : LocalsShape(loop[a])
  /\ wire = [a \in Actor |-> wire[a]]
  /\ llmCalls \in Nat
  /\ spans \in [Actor -> Seq(Span)]

(* The counters of a turn in flight: each completion that asked for calls  *)
(* is an iteration, and a turn that asks for another has some left.        *)
Counted(t, at) ==
  /\ t.first \in Nat /\ t.completions \in Nat /\ t.tool_iters \in Nat
  /\ at \in {"loop", "gate", "calling"} =>
       t.completions = t.tool_iters /\ t.tool_iters < MaxToolIters
  /\ at = "batch" => t.completions = t.tool_iters /\ t.tool_iters \in 1..MaxToolIters
  /\ at \in {"yielded", "capped"} => t.completions \in 1..MaxToolIters

TurnsCounted == \A a \in Actor : turn[a] # Idle => Counted(loop[a], turn[a])

(* The system prompt of a turn in flight was assembled for who the agent   *)
(* still is.                                                               *)
VoiceKept == \A a \in Actor : turn[a] # Idle => loop[a].voice = User(a)

(* The completions sent so far are counted one by one.                     *)
Sent == UNION {SentBy(a) : a \in Actor}
SentCounted ==
  /\ IsFiniteSet(Sent) /\ Cardinality(Sent) = llmCalls /\ llmCalls <= MaxLlmCalls
  /\ finishing = "max_llm_calls" => llmCalls = MaxLlmCalls

TurnInv == TypeOK /\ TurnsCounted /\ SpansTile /\ VoiceKept /\ OneVoicePerTurn /\ SentCounted

LEMMA InitTurnInv == Init => TurnInv
<1> SUFFICES ASSUME Init PROVE TurnInv
  OBVIOUS
<1>1. TypeOK
  <2>1. \A a \in Actor : loop[a] = Locals(a)
    BY DEF Init
  <2>2. \A a \in Actor : LocalsShape(loop[a])
    <3>1. \A a \in Actor : LocalsShape(Locals(a))
      BY DEF Locals, LocalsShape
    <3> QED
      BY <2>1, <3>1
  <2>3. loop = [a \in Actor |-> loop[a]] /\ wire = [a \in Actor |-> wire[a]]
    BY DEF Init
  <2>4. turn \in [Actor -> Where] /\ callSeq \in [Actor -> Nat] /\ llmCalls \in Nat
    BY DEF Init, Where
  <2>5. slug \in [TeamAgent -> Slug] /\ window \in [TeamAgent -> SUBSET Slug]
    BY TurnLoopAssumption DEF TurnLoopAssumption, Init
  <2>6. spans \in [Actor -> Seq(Span)]
    BY DEF Init
  <2> QED
    BY <2>2, <2>3, <2>4, <2>5, <2>6 DEF TypeOK
<1>2. TurnsCounted /\ VoiceKept
  BY DEF Init, TurnsCounted, VoiceKept
<1>3. SpansTile
  BY DEF Init, SpansTile, Continues, Idle
<1>4. OneVoicePerTurn
  BY DEF Init, OneVoicePerTurn, Idle
<1>5. SentCounted
  <2>1. Sent = {}
    BY DEF Init, Sent, SentBy
  <2> QED
    BY <2>1, FS_EmptySet, TurnLoopAssumption DEF TurnLoopAssumption, Init, SentCounted
<1> QED
  BY <1>1, <1>2, <1>3, <1>4, <1>5 DEF TurnInv

(* One turn moves to another place, the others stay where they are.        *)
LEMMA OneStep ==
  ASSUME TypeOK, NEW a \in Actor, NEW p \in Where, NEW q, Step(a, q, p)
  PROVE  /\ turn' \in [Actor -> Where] /\ turn[a] = q /\ turn'[a] = p
         /\ \A b \in Actor : b # a => turn'[b] = turn[b]
BY DEF Step, TypeOK

(* What a turn's account looks like after an answer and after a batch.     *)
LEMMA ToldShape ==
  ASSUME NEW t, LocalsShape(t), NEW calls, NEW e, e = Told(t, calls)
  PROVE  /\ LocalsShape(e) /\ e.first = t.first /\ e.voice = t.voice
         /\ e.completions = t.completions + 1
         /\ e.tool_iters = IF calls = <<>> THEN t.tool_iters ELSE t.tool_iters + 1
BY DEF LocalsShape, Told

LEMMA AccountedShape ==
  ASSUME NEW t, LocalsShape(t), NEW s, NEW h, NEW e, e = Accounted(t, s, h)
  PROVE  /\ LocalsShape(e) /\ e.first = t.first /\ e.voice = t.voice
         /\ e.completions = t.completions /\ e.tool_iters = t.tool_iters
BY DEF LocalsShape, Accounted

(* Nobody's identity moves where no specialty does.                        *)
LEMMA SameUser == UNCHANGED slug => \A a : User(a)' = User(a)
BY DEF User, Role

(* The steps that leave every channel, record and account alone: a turn    *)
(* goes on to the gate, or is over with the run.                           *)
LEMMA GateOrGone ==
  ASSUME TurnInv, NEW a \in Actor,
         UNCHANGED <<channelVars, loop, llmCalls, spans>>,
         \/ Step(a, "loop", "gate") /\ finishing' = finishing
         \/ /\ \E q \in {"loop", "gate", "calling", "batch"} : Step(a, q, Idle)
            /\ finishing' # "no"
            /\ finishing' = "max_llm_calls" =>
                 finishing = "max_llm_calls" \/ llmCalls >= MaxLlmCalls
  PROVE  TurnInv'
<1> USE DEF TurnInv
<1>1. PICK q \in {"loop", "gate", "calling", "batch"}, p \in {Idle, "gate"} :
        /\ Step(a, q, p)
        /\ p = "gate" => q = "loop" /\ finishing' = finishing
        /\ p = Idle => finishing' # "no"
        /\ finishing' = "max_llm_calls" =>
             finishing = "max_llm_calls" \/ llmCalls >= MaxLlmCalls
  BY DEF Idle
<1>2. /\ turn' \in [Actor -> Where] /\ turn[a] = q /\ turn'[a] = p
      /\ \A b \in Actor : b # a => turn'[b] = turn[b]
  BY <1>1, OneStep DEF Where, Idle
<1>3. UNCHANGED <<callSeq, slug, window, wire, loop, llmCalls, spans>>
  BY DEF channelVars
<1>4. TypeOK'
  BY <1>2, <1>3 DEF TypeOK, LocalsShape
<1>5. TurnsCounted'
  BY <1>1, <1>2, <1>3 DEF TurnsCounted, Counted, Idle
<1>6. VoiceKept'
  BY <1>1, <1>2, <1>3, SameUser DEF VoiceKept, Idle
<1>7. SpansTile'
  <2> SUFFICES ASSUME NEW b \in Actor
               PROVE  (finishing' = "no" \/ turn'[b] # Idle) =>
                        IF turn'[b] = Idle THEN callSeq[b] = Continues(b)
                        ELSE /\ loop[b].first = Continues(b)
                             /\ callSeq[b] = loop[b].first + loop[b].completions
                                             + (IF turn'[b] = "calling" THEN 1 ELSE 0)
    BY <1>3 DEF SpansTile, Continues
  <2>1. (finishing = "no" \/ turn[b] # Idle) =>
           IF turn[b] = Idle THEN callSeq[b] = Continues(b)
           ELSE /\ loop[b].first = Continues(b)
                /\ callSeq[b] = loop[b].first + loop[b].completions
                                + (IF turn[b] = "calling" THEN 1 ELSE 0)
    BY DEF SpansTile
  <2>2. CASE b = a
    BY <1>1, <1>2, <2>1, <2>2 DEF Idle
  <2>3. CASE b # a
    <3>1. finishing' = "no" => finishing = "no"
      BY <1>1 DEF Idle
    <3> QED
      BY <1>2, <2>1, <2>3, <3>1
  <2> QED
    BY <2>2, <2>3
<1>8. OneVoicePerTurn'
  BY <1>1, <1>2, <1>3 DEF OneVoicePerTurn, Idle
<1>9. SentCounted'
  BY <1>1, <1>3, TurnLoopAssumption
  DEF TurnLoopAssumption, TypeOK, SentCounted, Sent, SentBy
<1> QED
  BY <1>4, <1>5, <1>6, <1>7, <1>8, <1>9

LEMMA StartKeeps == ASSUME TurnInv, NEW a \in Actor, StartTurn(a) PROVE TurnInv'
<1> USE DEF TurnInv
<1>1. /\ finishing = "no" /\ finishing' = finishing /\ Step(a, Idle, "loop")
      /\ loop' = [loop EXCEPT ![a] = Locals(a)]
      /\ UNCHANGED <<callSeq, slug, window, wire, llmCalls, spans>>
  BY DEF StartTurn, channelVars, runVars
<1>2. /\ turn' \in [Actor -> Where] /\ turn[a] = Idle /\ turn'[a] = "loop"
      /\ \A b \in Actor : b # a => turn'[b] = turn[b]
  BY <1>1, OneStep DEF Where
<1>3. /\ loop' = [b \in Actor |-> loop'[b]] /\ loop'[a] = Locals(a)
      /\ \A b \in Actor : b # a => loop'[b] = loop[b]
  BY <1>1 DEF TypeOK
<1>4. /\ LocalsShape(Locals(a)) /\ Locals(a).first = callSeq[a]
      /\ Locals(a).completions = 0 /\ Locals(a).tool_iters = 0
      /\ Locals(a).voice = User(a)
  BY DEF LocalsShape, Locals
<1>5. TypeOK'
  <2>1. \A b \in Actor : LocalsShape(loop'[b])
    BY <1>3, <1>4 DEF TypeOK
  <2> QED
    BY <1>1, <1>2, <1>3, <2>1 DEF TypeOK, LocalsShape
<1>6. TurnsCounted'
  <2>1. Counted(Locals(a), "loop")
    BY <1>4, TurnLoopAssumption DEF TurnLoopAssumption, Counted, TypeOK
  <2>2. \A b \in Actor : turn'[b] # Idle => Counted(loop'[b], turn'[b])
    BY <1>2, <1>3, <2>1 DEF TurnsCounted
  <2> QED
    BY <2>2 DEF TurnsCounted, Counted
<1>7. VoiceKept'
  BY <1>1, <1>2, <1>3, <1>4, SameUser DEF VoiceKept
<1>8. SpansTile'
  <2>1. callSeq[a] = Continues(a) /\ callSeq[a] \in Nat
    BY <1>1, <1>2 DEF SpansTile, TypeOK
  <2> QED
    BY <1>1, <1>2, <1>3, <1>4, <2>1 DEF SpansTile, Continues, Idle
<1>9. OneVoicePerTurn'
  BY <1>1, <1>2, <1>3 DEF OneVoicePerTurn
<1>10. SentCounted'
  BY <1>1 DEF SentCounted, Sent, SentBy
<1> QED
  BY <1>5, <1>6, <1>7, <1>8, <1>9, <1>10

(* A completion is counted and numbered before it is sent.                 *)
LEMMA CompleteKeeps == ASSUME TurnInv, NEW a \in Actor, Complete(a) PROVE TurnInv'
<1> USE DEF TurnInv
<1>1. /\ llmCalls < MaxLlmCalls /\ Step(a, "gate", "calling")
      /\ llmCalls' = llmCalls + 1
      /\ wire' = [wire EXCEPT ![a] = Identity(a)]
      /\ callSeq' = [callSeq EXCEPT ![a] = @ + 1]
      /\ UNCHANGED <<slug, window, loop, finishing, spans>>
  BY DEF Complete
<1>2. /\ turn' \in [Actor -> Where] /\ turn[a] = "gate" /\ turn'[a] = "calling"
      /\ \A b \in Actor : b # a => turn'[b] = turn[b]
  BY <1>1, OneStep DEF Where
<1>3. /\ callSeq' \in [Actor -> Nat] /\ callSeq'[a] = callSeq[a] + 1
      /\ \A b \in Actor : b # a => callSeq'[b] = callSeq[b]
  BY <1>1 DEF TypeOK
<1>4. /\ wire' = [b \in Actor |-> wire'[b]] /\ wire'[a].user = User(a)
      /\ \A b \in Actor : b # a => wire'[b] = wire[b]
  BY <1>1 DEF TypeOK, Identity
<1>5. TypeOK'
  BY <1>1, <1>2, <1>3, <1>4 DEF TypeOK, LocalsShape
<1>6. TurnsCounted'
  BY <1>1, <1>2 DEF TurnsCounted, Counted, Idle
<1>7. VoiceKept'
  BY <1>1, <1>2, SameUser DEF VoiceKept, Idle
<1>8. SpansTile'
  <2>1. /\ loop[a].first = Continues(a) /\ callSeq[a] = loop[a].first + loop[a].completions
        /\ loop[a].first \in Nat /\ loop[a].completions \in Nat
    BY <1>2 DEF SpansTile, TurnsCounted, Counted, Idle
  <2>2. \A b \in Actor : Continues(b)' = Continues(b)
    BY <1>1 DEF Continues
  <2>3. /\ turn[a] # Idle /\ turn'[a] # Idle
        /\ callSeq'[a] = loop[a].first + loop[a].completions + 1
    BY <1>2, <1>3, <2>1 DEF Idle
  <2> QED
    BY <1>1, <1>2, <1>3, <2>1, <2>2, <2>3 DEF SpansTile
<1>9. OneVoicePerTurn'
  <2>1. loop[a].voice = User(a)
    BY <1>2 DEF VoiceKept, Idle
  <2> QED
    BY <1>1, <1>2, <1>4, <2>1 DEF OneVoicePerTurn
<1>10. SentCounted'
  <2>1. Sent' = Sent \cup {<<a, callSeq[a] + 1>>}
    <3>1. \A b \in Actor : SentBy(b)' = IF b = a THEN SentBy(b) \cup {<<a, callSeq[a] + 1>>}
                                                ELSE SentBy(b)
      <4>1. SentBy(a)' = SentBy(a) \cup {<<a, callSeq[a] + 1>>}
        <5>1. callSeq[a] \in Nat
          BY DEF TypeOK
        <5>2. 1..callSeq'[a] = (1..callSeq[a]) \cup {callSeq[a] + 1}
          BY <1>3, <5>1
        <5> QED
          BY <5>2 DEF SentBy
      <4>2. \A b \in Actor : b # a => SentBy(b)' = SentBy(b)
        BY <1>3 DEF SentBy
      <4> QED
        BY <4>1, <4>2
    <3>2. \A x : x \in Sent <=> \E b \in Actor : x \in SentBy(b)
      BY DEF Sent
    <3>3. \A x : x \in Sent' <=> \E b \in Actor : x \in SentBy(b)'
      BY DEF Sent
    <3> QED
      BY <3>1, <3>2, <3>3
  <2>2. <<a, callSeq[a] + 1>> \notin Sent
    BY DEF Sent, SentBy, TypeOK
  <2>3. IsFiniteSet(Sent') /\ Cardinality(Sent') = Cardinality(Sent) + 1
    BY <2>1, <2>2, FS_AddElement DEF SentCounted
  <2>4. llmCalls \in Nat /\ MaxLlmCalls \in Nat
    BY TurnLoopAssumption DEF TurnLoopAssumption, TypeOK
  <2> QED
    BY <1>1, <2>3, <2>4 DEF SentCounted
<1> QED
  BY <1>5, <1>6, <1>7, <1>8, <1>9, <1>10

LEMMA AnsweredKeeps == ASSUME TurnInv, NEW a \in Actor, Answered(a) PROVE TurnInv'
<1> USE DEF TurnInv
<1>1. PICK calls \in Chat(wire[a]) :
        /\ Step(a, "calling", IF calls = <<>> THEN "yielded" ELSE "batch")
        /\ loop' = [loop EXCEPT ![a] = Told(loop[a], calls)]
        /\ UNCHANGED <<callSeq, slug, window, wire, llmCalls, finishing, spans>>
  BY DEF Answered, channelVars, runVars
<1> DEFINE p == IF calls = <<>> THEN "yielded" ELSE "batch"
<1>2. /\ turn' \in [Actor -> Where] /\ turn[a] = "calling" /\ turn'[a] = p
      /\ \A b \in Actor : b # a => turn'[b] = turn[b]
  BY <1>1, OneStep DEF Where
<1>3. /\ loop' = [b \in Actor |-> loop'[b]] /\ loop'[a] = Told(loop[a], calls)
      /\ \A b \in Actor : b # a => loop'[b] = loop[b]
  BY <1>1 DEF TypeOK
<1>4. /\ LocalsShape(loop'[a]) /\ loop'[a].first = loop[a].first
      /\ loop'[a].voice = loop[a].voice
      /\ loop'[a].completions = loop[a].completions + 1
      /\ loop'[a].tool_iters = IF calls = <<>> THEN loop[a].tool_iters
                               ELSE loop[a].tool_iters + 1
  BY <1>3, ToldShape DEF TypeOK
<1>5. TypeOK'
  <2>1. \A b \in Actor : LocalsShape(loop'[b])
    BY <1>3, <1>4 DEF TypeOK
  <2> QED
    BY <1>1, <1>2, <1>3, <2>1 DEF TypeOK, LocalsShape
<1>6. Counted(loop[a], "calling")
  BY <1>2 DEF TurnsCounted, Idle
<1>7. TurnsCounted'
  <2>1. Counted(loop'[a], p)
    BY <1>4, <1>6, TurnLoopAssumption DEF TurnLoopAssumption, Counted
  <2>2. \A b \in Actor : turn'[b] # Idle => Counted(loop'[b], turn'[b])
    BY <1>2, <1>3, <2>1 DEF TurnsCounted
  <2> QED
    BY <2>2 DEF TurnsCounted, Counted
<1>8. VoiceKept'
  BY <1>1, <1>2, <1>3, <1>4, SameUser DEF VoiceKept, Idle
<1>9. SpansTile'
  <2>1. /\ loop[a].first = Continues(a)
        /\ callSeq[a] = loop[a].first + loop[a].completions + 1
        /\ loop[a].first \in Nat /\ loop[a].completions \in Nat
    BY <1>2, <1>6 DEF SpansTile, Counted, Idle
  <2>2. /\ loop'[a].first = Continues(a) /\ p # Idle /\ p # "calling"
        /\ callSeq[a] = loop'[a].first + loop'[a].completions + 0
    BY <1>4, <2>1 DEF Idle
  <2> HIDE DEF p
  <2> QED
    BY <1>1, <1>2, <1>3, <2>2 DEF SpansTile, Continues
<1>10. OneVoicePerTurn'
  BY <1>1, <1>2, <1>3 DEF OneVoicePerTurn
<1>11. SentCounted'
  BY <1>1 DEF SentCounted, Sent, SentBy
<1> QED
  BY <1>5, <1>7, <1>8, <1>9, <1>10, <1>11

(* Whatever a batch does, only agents at rest change specialty, and their  *)
(* windows with it.                                                        *)
LEMMA BatchIdentities ==
  ASSUME TurnInv, NEW a \in Actor, NEW verbs,
         IF a \in TeamAgent THEN WindowPush(a) /\ UNCHANGED <<slug, callSeq>>
                            ELSE Identities(verbs)
  PROVE  /\ slug' \in [TeamAgent -> Slug] /\ window' \in [TeamAgent -> SUBSET Slug]
         /\ callSeq' = callSeq
         /\ \A b \in TeamAgent : turn[b] # Idle => slug'[b] = slug[b]
         /\ \A b \in TeamAgent : window'[b] \subseteq {slug'[b]}
<1> USE DEF TurnInv
<1>1. /\ slug \in [TeamAgent -> Slug] /\ window \in [TeamAgent -> SUBSET Slug]
      /\ \A b \in TeamAgent : window[b] \subseteq {slug[b]}
  BY DEF TypeOK, OneVoicePerTurn
<1>2. CASE a \in TeamAgent
  BY <1>1, <1>2 DEF WindowPush
<1>3. CASE a \notin TeamAgent
  <2>1. CASE \E b \in TeamAgent, new \in Slug : Respecialize(b, new)
    BY <1>1, <2>1 DEF Respecialize
  <2>2. CASE UNCHANGED <<slug, window, callSeq>>
    BY <1>1, <2>2
  <2> QED
    BY <1>3, <2>1, <2>2 DEF Identities
<1> QED
  BY <1>2, <1>3

LEMMA BatchKeeps == ASSUME TurnInv, NEW a \in Actor, Batch(a) PROVE TurnInv'
<1> USE DEF TurnInv
<1>0. PICK out \in Dispatched(a, loop[a].calls) :
        LET verbs == Executed(loop[a].calls, out)
            hit == "finish_run" \in verbs
            success == \E i \in DOMAIN out : out[i] # "invalid"
        IN  /\ Step(a, "batch",
                    IF hit THEN "yielded"
                    ELSE IF loop[a].tool_iters >= MaxToolIters THEN "capped"
                    ELSE "loop")
            /\ IF a \in TeamAgent
               THEN WindowPush(a) /\ UNCHANGED <<slug, callSeq>>
               ELSE Identities(verbs)
            /\ loop' = [loop EXCEPT ![a] = Accounted(loop[a], success, hit)]
  BY DEF Batch
<1> DEFINE verbs == Executed(loop[a].calls, out)
           hit == "finish_run" \in verbs
           success == \E i \in DOMAIN out : out[i] # "invalid"
           p == IF hit THEN "yielded"
                ELSE IF loop[a].tool_iters >= MaxToolIters THEN "capped" ELSE "loop"
<1>1. /\ p \in {"yielded", "capped", "loop"}
      /\ Step(a, "batch", p)
      /\ p = "loop" => ~(loop[a].tool_iters >= MaxToolIters)
      /\ IF a \in TeamAgent THEN WindowPush(a) /\ UNCHANGED <<slug, callSeq>>
                            ELSE Identities(verbs)
      /\ loop' = [loop EXCEPT ![a] = Accounted(loop[a], success, hit)]
      /\ UNCHANGED <<wire, llmCalls, finishing, spans>>
  <2>1. /\ p \in {"yielded", "capped", "loop"}
        /\ p = "loop" => ~(loop[a].tool_iters >= MaxToolIters)
    OBVIOUS
  <2>2. /\ Step(a, "batch", p)
        /\ IF a \in TeamAgent THEN WindowPush(a) /\ UNCHANGED <<slug, callSeq>>
                              ELSE Identities(verbs)
        /\ loop' = [loop EXCEPT ![a] = Accounted(loop[a], success, hit)]
    BY <1>0
  <2> HIDE DEF p, verbs, hit, success
  <2>3. UNCHANGED <<wire, llmCalls, finishing, spans>>
    BY DEF Batch
  <2> QED
    BY <2>1, <2>2, <2>3
<1> HIDE DEF p, verbs, hit, success
<1>2. /\ turn' \in [Actor -> Where] /\ turn[a] = "batch" /\ turn'[a] = p
      /\ \A b \in Actor : b # a => turn'[b] = turn[b]
  BY <1>1, OneStep DEF Where
<1>3. /\ slug' \in [TeamAgent -> Slug] /\ window' \in [TeamAgent -> SUBSET Slug]
      /\ callSeq' = callSeq
      /\ \A b \in TeamAgent : turn[b] # Idle => slug'[b] = slug[b]
      /\ \A b \in TeamAgent : window'[b] \subseteq {slug'[b]}
  BY <1>1, BatchIdentities
<1>4. /\ loop' = [b \in Actor |-> loop'[b]]
      /\ loop'[a] = Accounted(loop[a], success, hit)
      /\ \A b \in Actor : b # a => loop'[b] = loop[b]
  BY <1>1 DEF TypeOK
<1>5. /\ LocalsShape(loop'[a]) /\ loop'[a].first = loop[a].first
      /\ loop'[a].voice = loop[a].voice
      /\ loop'[a].completions = loop[a].completions
      /\ loop'[a].tool_iters = loop[a].tool_iters
  BY <1>4, AccountedShape DEF TypeOK
<1>6. TypeOK'
  <2>1. \A b \in Actor : LocalsShape(loop'[b])
    BY <1>4, <1>5 DEF TypeOK
  <2> QED
    BY <1>1, <1>2, <1>3, <1>4, <2>1 DEF TypeOK, LocalsShape
<1>7. Counted(loop[a], "batch")
  BY <1>2 DEF TurnsCounted, Idle
<1>8. TurnsCounted'
  <2>1. Counted(loop'[a], p)
    BY <1>1, <1>5, <1>7, TurnLoopAssumption DEF TurnLoopAssumption, Counted
  <2>2. \A b \in Actor : turn'[b] # Idle => Counted(loop'[b], turn'[b])
    BY <1>2, <1>4, <2>1 DEF TurnsCounted
  <2> QED
    BY <2>2 DEF TurnsCounted, Counted
<1>9. \A b \in Actor : turn'[b] # Idle => User(b)' = User(b)
  <2>1. \A b \in Actor : turn'[b] # Idle => turn[b] # Idle
    BY <1>2 DEF Idle
  <2>2. \A b \in Actor : turn'[b] # Idle /\ b \in TeamAgent => slug'[b] = slug[b]
    BY <1>3, <2>1
  <2> QED
    BY <2>2 DEF User, Role
<1>10. VoiceKept'
  <2>1. \A b \in Actor : turn'[b] # Idle => loop'[b].voice = User(b)
    BY <1>2, <1>4, <1>5 DEF VoiceKept, Idle
  <2> QED
    BY <1>9, <2>1 DEF VoiceKept
<1>11. SpansTile'
  <2>1. /\ loop[a].first = Continues(a)
        /\ callSeq[a] = loop[a].first + loop[a].completions + 0
    BY <1>2, <1>7 DEF SpansTile, Counted, Idle
  <2>2. /\ loop'[a].first = Continues(a) /\ p # Idle /\ p # "calling"
        /\ callSeq[a] = loop'[a].first + loop'[a].completions + 0
    BY <1>1, <1>5, <2>1 DEF Idle
  <2> QED
    BY <1>1, <1>2, <1>3, <1>4, <2>2 DEF SpansTile, Continues
<1>12. OneVoicePerTurn'
  BY <1>1, <1>2, <1>3, <1>4 DEF OneVoicePerTurn
<1>13. SentCounted'
  BY <1>1, <1>3 DEF SentCounted, Sent, SentBy
<1> QED
  BY <1>6, <1>8, <1>10, <1>11, <1>12, <1>13

(* A turn's record continues the records before it.                        *)
LEMMA FinalizeKeeps == ASSUME TurnInv, NEW a \in Actor, Finalize(a) PROVE TurnInv'
<1> USE DEF TurnInv
<1>1. /\ turn[a] \in {"yielded", "capped"} /\ turn' = [turn EXCEPT ![a] = Idle]
      /\ UNCHANGED <<callSeq, slug, window, wire, loop, llmCalls>>
      /\ finishing # "no" => UNCHANGED <<spans, finishing>>
      /\ finishing = "no" => /\ spans' = [spans EXCEPT ![a] = Append(@, Recorded(a))]
                             /\ finishing' \in {"no", "max_ticks", "clean"}
  BY DEF Finalize, channelVars
<1>2. /\ turn' \in [Actor -> Where] /\ turn'[a] = Idle
      /\ \A b \in Actor : b # a => turn'[b] = turn[b]
  BY <1>1 DEF TypeOK, Where
<1>3. Counted(loop[a], turn[a]) /\ turn[a] # Idle
  BY <1>1 DEF TurnsCounted, Idle
<1> DEFINE t == loop[a]
           r == Recorded(a)
<1>4. /\ r \in Span /\ r.first = t.first /\ r.last = t.first + t.completions - 1
      /\ r.last \in r.first .. r.first + MaxToolIters - 1
  <2>1. /\ t.first \in Nat /\ t.completions \in 1..MaxToolIters
    BY <1>1, <1>3 DEF Counted
  <2>2. /\ r.first = t.first /\ r.last = t.first + t.completions - 1
        /\ r.outcome = turn[a] /\ r.malformed \in BOOLEAN
        /\ r = [first |-> r.first, last |-> r.last, outcome |-> r.outcome,
                malformed |-> r.malformed]
    BY DEF Recorded
  <2> HIDE DEF r, t
  <2>3. r.first \in Int /\ r.last \in Int /\ r.outcome \in Where
    BY <1>1, <2>1, <2>2, TurnLoopAssumption DEF TurnLoopAssumption, Where
  <2>4. r \in Span
    BY <2>2, <2>3 DEF Span
  <2> QED
    BY <2>1, <2>2, <2>4, TurnLoopAssumption DEF TurnLoopAssumption
<1>5. /\ t.first = Continues(a) /\ callSeq[a] = t.first + t.completions
      /\ t.first \in Nat /\ t.completions \in Nat
  BY <1>1, <1>3 DEF SpansTile, Counted, Idle
<1> HIDE DEF r, t
<1>6. /\ spans' \in [Actor -> Seq(Span)]
      /\ \A b \in Actor : b # a => spans'[b] = spans[b]
      /\ finishing = "no" => spans'[a] = Append(spans[a], r)
  <2>1. CASE finishing = "no"
    <3>1. spans' = [spans EXCEPT ![a] = Append(spans[a], r)]
      BY <1>1, <2>1 DEF r
    <3>2. spans[a] \in Seq(Span) /\ Append(spans[a], r) \in Seq(Span)
      BY <1>4 DEF TypeOK
    <3> QED
      BY <3>1, <3>2 DEF TypeOK
  <2>2. CASE finishing # "no"
    BY <1>1, <2>2 DEF TypeOK
  <2> QED
    BY <2>1, <2>2
<1>7. TypeOK'
  BY <1>1, <1>2, <1>6 DEF TypeOK, LocalsShape
<1>8. TurnsCounted'
  BY <1>1, <1>2 DEF TurnsCounted, Counted
<1>9. VoiceKept'
  BY <1>1, <1>2, SameUser DEF VoiceKept
<1>10. SpansTile'
  <2>1. ASSUME finishing = "no"
        PROVE  /\ \A i \in DOMAIN spans'[a] :
                    /\ spans'[a][i].first = IF i = 1 THEN 0 ELSE spans'[a][i-1].last + 1
                    /\ spans'[a][i].last \in spans'[a][i].first ..
                                            spans'[a][i].first + MaxToolIters - 1
               /\ callSeq[a] = Continues(a)'
    <3> DEFINE n == Len(spans[a])
    <3>1. spans[a] \in Seq(Span) /\ n \in Nat
      BY DEF TypeOK
    <3>2. /\ spans'[a] = Append(spans[a], r)
          /\ Len(spans'[a]) = n + 1 /\ spans'[a][n + 1] = r
          /\ \A i \in 1..n : spans'[a][i] = spans[a][i]
          /\ DOMAIN spans'[a] = 1..n+1 /\ DOMAIN spans[a] = 1..n
      BY <1>6, <2>1, <3>1
    <3>3. r.first = IF n = 0 THEN 0 ELSE spans[a][n].last + 1
      BY <1>4, <1>5, <3>1 DEF Continues
    <3>4. \A i \in 1..n :
             /\ spans[a][i].first = IF i = 1 THEN 0 ELSE spans[a][i-1].last + 1
             /\ spans[a][i].last \in spans[a][i].first ..
                                     spans[a][i].first + MaxToolIters - 1
      BY <3>2 DEF SpansTile
    <3>5. callSeq[a] = Continues(a)'
      <4>1. spans'[a] # <<>> /\ Continues(a)' = r.last + 1
        BY <3>1, <3>2 DEF Continues
      <4> QED
        BY <1>4, <1>5, <4>1
    <3>6. ASSUME NEW i \in 1..n+1
          PROVE  /\ spans'[a][i].first = IF i = 1 THEN 0 ELSE spans'[a][i-1].last + 1
                 /\ spans'[a][i].last \in spans'[a][i].first ..
                                         spans'[a][i].first + MaxToolIters - 1
      <4>1. CASE i \in 1..n
        <5>1. i # 1 => i - 1 \in 1..n
          BY <3>1, <4>1
        <5> QED
          BY <3>2, <3>4, <4>1, <5>1
      <4>2. CASE i = n + 1
        <5>1. n # 0 => n \in 1..n /\ i - 1 = n
          BY <3>1, <4>2
        <5>2. spans'[a][i].first = IF i = 1 THEN 0 ELSE spans'[a][i-1].last + 1
          BY <3>1, <3>2, <3>3, <4>2, <5>1
        <5> QED
          BY <1>4, <3>2, <4>2, <5>2
      <4> QED
        BY <3>1, <4>1, <4>2
    <3> QED
      BY <3>2, <3>5, <3>6
  <2>2. CASE finishing = "no"
    <3>1. ASSUME NEW b \in Actor, b # a
          PROVE  /\ spans'[b] = spans[b] /\ Continues(b)' = Continues(b)
                 /\ turn'[b] = turn[b] /\ loop'[b] = loop[b] /\ callSeq'[b] = callSeq[b]
      BY <1>1, <1>2, <1>6, <3>1 DEF Continues
    <3>2. callSeq'[a] = callSeq[a]
      BY <1>1
    <3> QED
      BY <1>2, <2>1, <2>2, <3>1, <3>2 DEF SpansTile
  <2>3. CASE finishing # "no"
    BY <1>1, <1>2, <2>3 DEF SpansTile, Continues
  <2> QED
    BY <2>2, <2>3
<1>11. OneVoicePerTurn'
  BY <1>1, <1>2 DEF OneVoicePerTurn, Idle
<1>12. SentCounted'
  BY <1>1 DEF SentCounted, Sent, SentBy
<1> QED
  BY <1>7, <1>8, <1>9, <1>10, <1>11, <1>12

----------------------------------------------------------------------------
LEMMA TurnStepKeeps == TurnInv /\ [Next]_vars => TurnInv'
<1> SUFFICES ASSUME TurnInv, [Next]_vars PROVE TurnInv'
  OBVIOUS
<1>1. ASSUME NEW a \in Actor, StartTurn(a) PROVE TurnInv'
  BY <1>1, StartKeeps
<1>2. ASSUME NEW a \in Actor, StopCheck(a) PROVE TurnInv'
  BY <1>2, GateOrGone DEF StopCheck, runVars
<1>3. ASSUME NEW a \in Actor, CapReached(a) PROVE TurnInv'
  BY <1>3, GateOrGone DEF CapReached, Finish
<1>4. ASSUME NEW a \in Actor, CompletionFails(a) PROVE TurnInv'
  BY <1>4, GateOrGone DEF CompletionFails, Finish
<1>5. ASSUME NEW a \in Actor, BatchTooLate(a) PROVE TurnInv'
  BY <1>5, GateOrGone DEF BatchTooLate, runVars
<1>6. ASSUME NEW a \in Actor, Complete(a) \/ Answered(a) \/ Batch(a) \/ Finalize(a)
      PROVE  TurnInv'
  BY <1>6, CompleteKeeps, AnsweredKeeps, BatchKeeps, FinalizeKeeps
<1>7. CASE ForceTerminate \/ UNCHANGED vars
  <2>1. /\ UNCHANGED <<turn, callSeq, slug, window, wire, loop, llmCalls, spans>>
        /\ finishing' = finishing \/ (finishing = "no" /\ finishing' = "forced")
    BY <1>7 DEF ForceTerminate, vars, channelVars, runVars
  <2>2. TypeOK' /\ TurnsCounted'
    BY <2>1 DEF TurnInv, TypeOK, LocalsShape, TurnsCounted, Counted
  <2>3. VoiceKept' /\ OneVoicePerTurn'
    BY <2>1, SameUser DEF TurnInv, VoiceKept, OneVoicePerTurn
  <2>4. SpansTile'
    BY <2>1 DEF TurnInv, SpansTile, Continues
  <2>5. SentCounted'
    BY <2>1 DEF TurnInv, SentCounted, Sent, SentBy
  <2> QED
    BY <2>2, <2>3, <2>4, <2>5 DEF TurnInv
<1> QED
  BY <1>1, <1>2, <1>3, <1>4, <1>5, <1>6, <1>7 DEF Next, TurnStep, Over

LEMMA TurnInvariant == Spec => []TurnInv
<1>1. Init => TurnInv
  BY InitTurnInv
<1>2. TurnInv /\ [Next]_vars => TurnInv'
  BY TurnStepKeeps
<1> QED
  BY <1>1, <1>2, PTL DEF Spec

(* The spans of turn_completed partition an agent's completions, whatever  *)
(* the other turns, a respecialization or the end of the run do.           *)
THEOREM SpansPartition == Spec => []SpansTile
<1>1. TurnInv => SpansTile
  BY DEF TurnInv
<1> QED
  BY <1>1, TurnInvariant, PTL

(* No completion is sent under another identity than its prompt's, and no  *)
(* window shows lines of an earlier specialty.                             *)
THEOREM OneVoice == Spec => []OneVoicePerTurn
<1>1. TurnInv => OneVoicePerTurn
  BY DEF TurnInv
<1> QED
  BY <1>1, TurnInvariant, PTL

(* With any number of turns at the gate the endpoint sees at most          *)
(* max_llm_calls completions.                                              *)
THEOREM CapHolds == Spec => []CallsWithinCap
<1>1. TurnInv => CallsWithinCap
  BY DEF TurnInv, SentCounted, CallsWithinCap, Sent
<1> QED
  BY <1>1, TurnInvariant, PTL

----------------------------------------------------------------------------
(* What turn_completed says of a turn, against the answers s it was given. *)
CallsIn(s, span) ==
  UNION {{s[i + 1][j] : j \in DOMAIN s[i + 1]} : i \in span.first .. span.last}

Tells(a, s, span) ==
  /\ span.malformed <=> CallsIn(s, span) # {} /\ \A c \in CallsIn(s, span) : Invalid(a, c)
  /\ span.outcome = "capped" => s[span.last + 1] # <<>>

(* A record is of answers that have been given.                            *)
Grounded(s, span) == span.first \in Nat /\ span.last \in span.first .. Len(s) - 1

Carried(a, calls) == \E j \in DOMAIN calls : ~Invalid(a, calls[j])

(* The account of a turn in flight is that of the answers since its first  *)
(* completion; the calls of the last one are not judged before their batch. *)
Judged(a, at, t, s) ==
  LET n == Len(s)
      done == IF at = "batch" THEN n - 1 ELSE n
  IN  /\ n = t.first + t.completions
      /\ t.tool_iters > 0 <=> \E i \in t.first + 1 .. n : s[i] # <<>>
      /\ t.any_success \in BOOLEAN
      /\ t.any_success <=> \E i \in t.first + 1 .. done : Carried(a, s[i])
      /\ at = "batch" => t.completions > 0 /\ t.calls = s[n] /\ t.calls # <<>>
      /\ at = "capped" => s[n] # <<>>

Kept(a) ==
  /\ turn[a] # Idle => Judged(a, turn[a], loop[a], served[a])
  /\ finishing = "no" /\ turn[a] = Idle => Len(served[a]) = callSeq[a]
  /\ \A i \in DOMAIN spans[a] :
       Grounded(served[a], spans[a][i]) /\ Tells(a, served[a], spans[a][i])

AccountInv ==
  /\ served \in [Actor -> Seq(Seq(Call))]
  /\ \A a \in Actor : wire[a].call_seq \in Nat
  /\ \A a \in Actor : Kept(a)

LEMMA InitAccountInv == Init => AccountInv
<1> SUFFICES ASSUME Init PROVE AccountInv
  OBVIOUS
<1>1. served \in [Actor -> Seq(Seq(Call))]
  BY DEF Init
<1>2. \A a \in Actor : wire[a].call_seq \in Nat
  BY DEF Init, Identity
<1>3. \A a \in Actor : Kept(a)
  BY DEF Init, Kept
<1> QED
  BY <1>1, <1>2, <1>3 DEF AccountInv

LEMMA Modulo == \A p \in Nat, q \in Nat \ {0} : p % q \in 0 .. q - 1
OBVIOUS

(* The endpoint answers with a list of calls, whatever completion it is.   *)
LEMMA ScriptedReplies ==
  ASSUME NEW i \in DOMAIN Scripts, NEW n \in Nat
  PROVE  Scripted(Scripts[i], n) \in Reply
<1> DEFINE responses == Scripts[i].responses
           repeat == Scripts[i].repeat
           past == n - Len(responses)
<1>1. responses \in Seq(Reply) /\ repeat \in Seq(Reply)
  BY ScenarioAssumption DEF ScenarioAssumption
<1>2. [kind |-> Fallthrough] \in Reply
  BY DEF Reply
<1>3. CASE past < 0
  BY <1>1, <1>3 DEF Scripted
<1>4. CASE ~(past < 0) /\ repeat # <<>>
  <2>1. past \in Nat /\ Len(repeat) \in Nat \ {0}
    BY <1>1, <1>4
  <2>2. \A m \in Nat, k \in Nat \ {0} : (m % k) + 1 \in 1 .. k
    <3>1. \A m \in Nat, k \in Nat \ {0} : \A x \in 0 .. k - 1 : x + 1 \in 1 .. k
      OBVIOUS
    <3> QED
      BY <3>1, Modulo
  <2> HIDE DEF past, repeat
  <2>3. (past % Len(repeat)) + 1 \in 1 .. Len(repeat)
    BY <2>1, <2>2
  <2>4. repeat[(past % Len(repeat)) + 1] \in Reply
    BY <1>1, <2>3
  <2> QED
    BY <1>4, <2>4 DEF Scripted, past, repeat
<1>5. CASE ~(past < 0) /\ repeat = <<>>
  BY <1>2, <1>5 DEF Scripted
<1> QED
  BY <1>3, <1>4, <1>5

LEMMA ChatAnswers ==
  ASSUME NEW id, id.call_seq \in Nat, NEW calls \in Chat(id)
  PROVE  calls \in Seq(Call)
<1> DEFINE said == {Scripted(s, id.call_seq) : s \in Select(id.user)}
           own == {r \in said : r.kind = "say"}
<1>1. CASE own = {}
  BY <1>1, ScenarioAssumption DEF Chat, ScenarioAssumption
<1>2. CASE own # {}
  <2>1. PICK r \in own : calls = r.calls
    BY <1>2 DEF Chat
  <2>2. PICK s \in Select(id.user) : r = Scripted(s, id.call_seq)
    BY <2>1
  <2>3. PICK i \in DOMAIN Scripts : s = Scripts[i]
    BY <2>2 DEF Select
  <2>4. r \in Reply /\ r.kind = "say"
    BY <2>1, <2>2, <2>3, ScriptedReplies
  <2>5. r \in [kind : {"say"}, calls : Seq(Call)]
    BY <2>4 DEF Reply, Fallthrough
  <2> QED
    BY <2>1, <2>5
<1> QED
  BY <1>1, <1>2

(* A later answer changes nothing in what a record tells.                  *)
LEMMA TellsOn ==
  ASSUME NEW a, NEW s \in Seq(Seq(Call)), NEW c \in Seq(Call), NEW span, Grounded(s, span)
  PROVE  /\ Grounded(Append(s, c), span)
         /\ Tells(a, Append(s, c), span) <=> Tells(a, s, span)
<1> DEFINE e == Append(s, c)
<1>1. Len(s) \in Nat /\ Len(e) = Len(s) + 1 /\ \A i \in 1 .. Len(s) : e[i] = s[i]
  OBVIOUS
<1>2. span.first \in Nat /\ span.last \in span.first .. Len(s) - 1
  BY DEF Grounded
<1> HIDE DEF e
<1>3. Grounded(e, span)
  BY <1>1, <1>2 DEF Grounded
<1>4. \A i \in span.first .. span.last : e[i + 1] = s[i + 1]
  <2>1. \A i \in span.first .. span.last : i + 1 \in 1 .. Len(s)
    BY <1>1, <1>2
  <2> QED
    BY <1>1, <2>1
<1>5. CallsIn(e, span) = CallsIn(s, span)
  BY <1>4, SMTT(30) DEF CallsIn
<1>6. e[span.last + 1] = s[span.last + 1]
  <2>1. span.last \in span.first .. span.last
    BY <1>1, <1>2
  <2> QED
    BY <1>4, <2>1
<1> QED
  BY <1>3, <1>5, <1>6 DEF Tells, e

(* What nobody touches keeps, a run that ends included.                    *)
LEMMA KeptAlone ==
  ASSUME NEW b, Kept(b), turn'[b] = turn[b], loop'[b] = loop[b],
         served'[b] = served[b], spans'[b] = spans[b],
         finishing' = "no" => finishing = "no",
         turn[b] = Idle => callSeq'[b] = callSeq[b]
  PROVE  Kept(b)'
BY DEF Kept

(* The steps of a turn that judge nothing: on to the gate or to the wire,  *)
(* or out of a run that is over.                                           *)
LEMMA KeptMoving ==
  ASSUME NEW b, Kept(b), loop'[b] = loop[b], served'[b] = served[b], spans'[b] = spans[b],
         \/ turn[b] \in {"loop", "gate"} /\ turn'[b] \in {"gate", "calling"}
         \/ turn'[b] = Idle /\ finishing' # "no"
  PROVE  Kept(b)'
<1>1. CASE turn[b] \in {"loop", "gate"} /\ turn'[b] \in {"gate", "calling"}
  <2>1. Judged(b, turn[b], loop[b], served[b])
    BY <1>1 DEF Kept, Idle
  <2>2. Judged(b, turn'[b], loop[b], served[b])
    BY <1>1, <2>1 DEF Judged
  <2> QED
    BY <1>1, <2>2 DEF Kept, Idle
<1>2. CASE turn'[b] = Idle /\ finishing' # "no"
  BY <1>2 DEF Kept
<1> QED
  BY <1>1, <1>2

LEMMA AnsweredAccount ==
  ASSUME TurnInv, AccountInv, NEW a \in Actor, Answered(a)
  PROVE  AccountInv'
<1> USE DEF TurnInv
<1>1. PICK calls \in Chat(wire[a]) :
        /\ Step(a, "calling", IF calls = <<>> THEN "yielded" ELSE "batch")
        /\ loop' = [loop EXCEPT ![a] = Told(loop[a], calls)]
        /\ served' = [served EXCEPT ![a] = Append(@, calls)]
        /\ UNCHANGED <<callSeq, wire, finishing, spans>>
  BY DEF Answered, channelVars, runVars
<1> DEFINE p == IF calls = <<>> THEN "yielded" ELSE "batch"
           s == served[a]
           e == Append(s, calls)
           t == loop[a]
           u == Told(t, calls)
<1>2. /\ turn[a] = "calling" /\ turn'[a] = p
      /\ \A b \in Actor : b # a => turn'[b] = turn[b]
  BY <1>1, OneStep DEF Where
<1>3. /\ loop'[a] = u /\ \A b \in Actor : b # a => loop'[b] = loop[b]
  BY <1>1 DEF TypeOK
<1>4. s \in Seq(Seq(Call)) /\ calls \in Seq(Call)
  BY ChatAnswers DEF AccountInv
<1>5. e \in Seq(Seq(Call))
  BY <1>4
<1>6. /\ served' \in [Actor -> Seq(Seq(Call))] /\ served'[a] = e
      /\ \A b \in Actor : b # a => served'[b] = served[b]
  BY <1>1, <1>5 DEF AccountInv
<1>7. Judged(a, "calling", t, s)
  BY <1>2 DEF AccountInv, Kept, Idle
<1>8. /\ u.first = t.first /\ u.completions = t.completions + 1
      /\ u.tool_iters = IF calls = <<>> THEN t.tool_iters ELSE t.tool_iters + 1
      /\ u.any_success = t.any_success /\ u.calls = calls
  <2>1. LocalsShape(t)
    BY DEF TypeOK
  <2>2. u.any_success = t.any_success /\ u.calls = calls
    BY <2>1 DEF LocalsShape, Told
  <2> QED
    BY <2>1, <2>2, ToldShape
<1>9. t.first \in Nat /\ t.completions \in Nat /\ t.tool_iters \in Nat
  BY <1>2 DEF TurnsCounted, Counted, Idle
<1>10. Judged(a, p, u, e)
  <2> DEFINE n == Len(s)
  <2>1. /\ n \in Nat /\ Len(e) = n + 1 /\ e[n + 1] = calls
        /\ \A i \in 1 .. n : e[i] = s[i]
    BY <1>4
  <2>2. /\ n = t.first + t.completions
        /\ t.tool_iters > 0 <=> \E i \in t.first + 1 .. n : s[i] # <<>>
        /\ t.any_success \in BOOLEAN
        /\ t.any_success <=> \E i \in t.first + 1 .. n : Carried(a, s[i])
    BY <1>7 DEF Judged
  <2> HIDE DEF e, u, n
  <2>3. \A i \in t.first + 1 .. n + 1 :
          (i \in t.first + 1 .. n /\ e[i] = s[i]) \/ (i = n + 1 /\ e[i] = calls)
    BY <1>9, <2>1
  <2>4. \A i \in t.first + 1 .. n : i \in t.first + 1 .. n + 1 /\ e[i] = s[i]
    BY <1>9, <2>1
  <2>5. n + 1 \in t.first + 1 .. n + 1
    BY <1>9, <2>1, <2>2
  <2>6. u.tool_iters > 0 <=> \E i \in u.first + 1 .. n + 1 : e[i] # <<>>
    <3>1. CASE calls = <<>>
      BY <1>8, <2>2, <2>3, <2>4, <3>1
    <3>2. CASE calls # <<>>
      BY <1>8, <1>9, <2>1, <2>5, <3>2
    <3> QED
      BY <3>1, <3>2
  <2>7. CASE calls = <<>>
    <3>1. ~Carried(a, calls)
      BY <2>7 DEF Carried
    <3>2. u.any_success <=> \E i \in u.first + 1 .. n + 1 : Carried(a, e[i])
      BY <1>8, <2>2, <2>3, <2>4, <3>1
    <3>3. p = "yielded" /\ Len(e) = u.first + u.completions
      BY <1>8, <1>9, <2>1, <2>2, <2>7
    <3> HIDE DEF p
    <3> QED
      BY <1>8, <2>1, <2>2, <2>6, <3>2, <3>3 DEF Judged
  <2>8. CASE calls # <<>>
    <3>1. u.any_success <=> \E i \in u.first + 1 .. n : Carried(a, e[i])
      BY <1>8, <2>2, <2>4
    <3>2. p = "batch"
      BY <2>8
    <3> HIDE DEF p
    <3>5. n + 1 = u.first + u.completions /\ u.completions > 0
      BY <1>8, <1>9, <2>2
    <3>4. Len(e) = u.first + u.completions /\ u.completions > 0
      BY <2>1, <3>5
    <3>3. Len(e) - 1 = n
      BY <2>1
    <3> QED
      BY <1>8, <2>1, <2>2, <2>6, <2>8, <3>1, <3>2, <3>3, <3>4 DEF Judged
  <2> QED
    BY <2>7, <2>8
<1>11. Kept(a)'
  <2>1. p # Idle
    BY DEF Idle
  <2>2. \A i \in DOMAIN spans[a] : Grounded(e, spans[a][i]) /\ Tells(a, e, spans[a][i])
    BY <1>4, TellsOn DEF AccountInv, Kept
  <2> HIDE DEF p, e, u
  <2> QED
    BY <1>1, <1>2, <1>3, <1>6, <1>10, <2>1, <2>2 DEF Kept
<1>12. \A b \in Actor : b # a => Kept(b)'
  BY <1>1, <1>2, <1>3, <1>6, KeptAlone DEF AccountInv
<1> QED
  BY <1>1, <1>6, <1>11, <1>12 DEF AccountInv

(* A batch carries a call out, or has it refused by the domain, exactly    *)
(* where a registry of the agent's role can.                               *)
LEMMA BatchSuccess ==
  ASSUME NEW a, NEW calls, NEW out \in Dispatched(a, calls)
  PROVE  (\E i \in DOMAIN out : out[i] # "invalid") <=> Carried(a, calls)
<1>1. DOMAIN out = DOMAIN calls /\ \A i \in DOMAIN calls : out[i] \in Outcomes(a, calls[i])
  BY DEF Dispatched
<1>2. \A i \in DOMAIN calls : out[i] # "invalid" <=> ~Invalid(a, calls[i])
  BY <1>1 DEF Invalid, Outcomes
<1> QED
  BY <1>1, <1>2 DEF Carried

LEMMA BatchAccount ==
  ASSUME TurnInv, AccountInv, NEW a \in Actor, Batch(a)
  PROVE  AccountInv'
<1> USE DEF TurnInv
<1>0. PICK out \in Dispatched(a, loop[a].calls) :
        LET verbs == Executed(loop[a].calls, out)
            hit == "finish_run" \in verbs
            success == \E i \in DOMAIN out : out[i] # "invalid"
        IN  /\ Step(a, "batch",
                    IF hit THEN "yielded"
                    ELSE IF loop[a].tool_iters >= MaxToolIters THEN "capped"
                    ELSE "loop")
            /\ IF a \in TeamAgent
               THEN WindowPush(a) /\ UNCHANGED <<slug, callSeq>>
               ELSE Identities(verbs)
            /\ loop' = [loop EXCEPT ![a] = Accounted(loop[a], success, hit)]
  BY DEF Batch
<1> DEFINE verbs == Executed(loop[a].calls, out)
           hit == "finish_run" \in verbs
           success == \E i \in DOMAIN out : out[i] # "invalid"
           p == IF hit THEN "yielded"
                ELSE IF loop[a].tool_iters >= MaxToolIters THEN "capped" ELSE "loop"
           s == served[a]
           t == loop[a]
           u == Accounted(t, success, hit)
<1>1. p \in {"yielded", "capped", "loop"}
  OBVIOUS
<1>2. /\ Step(a, "batch", p)
      /\ IF a \in TeamAgent THEN WindowPush(a) /\ UNCHANGED <<slug, callSeq>>
                            ELSE Identities(verbs)
      /\ loop' = [loop EXCEPT ![a] = u]
  BY <1>0
<1>3. UNCHANGED <<wire, finishing, served, spans>>
  BY DEF Batch
<1>4. success <=> Carried(a, t.calls)
  BY BatchSuccess
<1>5. success \in BOOLEAN
  OBVIOUS
<1> HIDE DEF p, verbs, hit, success
<1>6. /\ turn[a] = "batch" /\ turn'[a] = p
      /\ \A b \in Actor : b # a => turn'[b] = turn[b]
  BY <1>1, <1>2, OneStep DEF Where
<1>7. loop'[a] = u /\ \A b \in Actor : b # a => loop'[b] = loop[b]
  BY <1>2 DEF TypeOK
<1>8. callSeq' = callSeq
  BY <1>2, BatchIdentities
<1>9. /\ u.first = t.first /\ u.completions = t.completions
      /\ u.tool_iters = t.tool_iters /\ u.any_success = (t.any_success \/ success)
  <2>1. LocalsShape(t)
    BY DEF TypeOK
  <2> QED
    BY <2>1 DEF LocalsShape, Accounted
<1>10. Judged(a, "batch", t, s)
  BY <1>6 DEF AccountInv, Kept, Idle
<1>11. /\ t.first \in Nat /\ t.completions \in Nat /\ s \in Seq(Seq(Call))
  BY <1>6 DEF TurnsCounted, Counted, Idle, AccountInv
<1>12. Judged(a, p, u, s)
  <2> DEFINE n == Len(s)
  <2>0. n \in Nat
    BY <1>11
  <2>1. /\ n = t.first + t.completions /\ t.completions > 0
        /\ t.tool_iters > 0 <=> \E i \in t.first + 1 .. n : s[i] # <<>>
        /\ t.any_success \in BOOLEAN
        /\ t.any_success <=> \E i \in t.first + 1 .. n - 1 : Carried(a, s[i])
        /\ t.calls = s[n] /\ t.calls # <<>>
    BY <1>10 DEF Judged
  <2> HIDE DEF u, n
  <2>2. \A i : i \in t.first + 1 .. n <=> i \in t.first + 1 .. n - 1 \/ i = n
    BY <1>11, <2>0, <2>1, SMTT(30)
  <2>3. (t.any_success \/ success) <=> \E i \in t.first + 1 .. n : Carried(a, s[i])
    BY <1>4, <2>1, <2>2
  <2>4. u.any_success \in BOOLEAN
    BY <1>5, <1>9, <2>1
  <2>5. u.any_success <=> \E i \in u.first + 1 .. n : Carried(a, s[i])
    BY <1>9, <2>3
  <2>6. n = Len(s) /\ p # "batch"
    BY <1>1 DEF n
  <2> QED
    BY <1>9, <2>1, <2>4, <2>5, <2>6 DEF Judged
<1>13. Kept(a)'
  <2>1. p # Idle
    BY <1>1 DEF Idle
  <2> HIDE DEF u
  <2> QED
    BY <1>3, <1>6, <1>7, <1>12, <2>1 DEF AccountInv, Kept
<1>14. \A b \in Actor : b # a => Kept(b)'
  BY <1>3, <1>6, <1>7, <1>8, KeptAlone DEF AccountInv
<1> QED
  BY <1>3, <1>13, <1>14 DEF AccountInv

(* Call c was made in the span.                                            *)
Made(s, span, c) ==
  \E i \in span.first .. span.last : \E j \in DOMAIN s[i + 1] : c = s[i + 1][j]

LEMMA CallsInMembers ==
  ASSUME NEW s, NEW span, NEW c
  PROVE  c \in CallsIn(s, span) <=> Made(s, span, c)
<1> USE DEF Made
<1>1. ASSUME c \in CallsIn(s, span)
      PROVE  Made(s, span, c)
  <2>1. PICK S \in {{s[i + 1][j] : j \in DOMAIN s[i + 1]} : i \in span.first .. span.last} :
          c \in S
    BY <1>1 DEF CallsIn
  <2>2. PICK i \in span.first .. span.last : S = {s[i + 1][j] : j \in DOMAIN s[i + 1]}
    BY <2>1
  <2> QED
    BY <2>1, <2>2
<1>2. ASSUME NEW i \in span.first .. span.last, NEW j \in DOMAIN s[i + 1], c = s[i + 1][j]
      PROVE  c \in CallsIn(s, span)
  <2>1. c \in {s[i + 1][k] : k \in DOMAIN s[i + 1]}
    BY <1>2
  <2> QED
    BY <2>1 DEF CallsIn
<1> QED
  BY <1>1, <1>2

(* The record of a turn that ends tells of the answers it was given.       *)
LEMMA RecordedTells ==
  ASSUME NEW a, NEW at \in {"yielded", "capped"}, NEW t, NEW s \in Seq(Seq(Call)),
         t.first \in Nat, t.completions \in Nat \ {0}, Judged(a, at, t, s),
         NEW r, r.first = t.first, r.last = t.first + t.completions - 1, r.outcome = at,
         r.malformed = (t.tool_iters > 0 /\ ~t.any_success)
  PROVE  Grounded(s, r) /\ Tells(a, s, r)
<1> DEFINE n == Len(s)
           calls == CallsIn(s, r)
<1>1. n \in Nat /\ DOMAIN s = 1 .. n
  OBVIOUS
<1>2. /\ n = t.first + t.completions
      /\ t.tool_iters > 0 <=> \E i \in t.first + 1 .. n : s[i] # <<>>
      /\ t.any_success \in BOOLEAN
      /\ t.any_success <=> \E i \in t.first + 1 .. n : Carried(a, s[i])
      /\ at = "capped" => s[n] # <<>>
  BY DEF Judged
<1> HIDE DEF n
<1>3. r.last = n - 1 /\ r.last \in r.first .. n - 1 /\ r.last + 1 = n
  <2>1. \A f \in Nat, c \in Nat \ {0} :
          f + c - 1 \in f .. (f + c) - 1 /\ f + c - 1 + 1 = f + c
    OBVIOUS
  <2>2. n = t.first + t.completions
    BY <1>2
  <2> QED
    BY <2>1, <2>2
<1>4. \A i \in r.first .. r.last : i + 1 \in t.first + 1 .. n
  BY <1>1, <1>3
<1>5. \A c : c \in calls <=> \E i \in t.first + 1 .. n : \E j \in DOMAIN s[i] : c = s[i][j]
  <2>1. \A c : c \in calls <=>
          \E i \in r.first .. r.last : \E j \in DOMAIN s[i + 1] : c = s[i + 1][j]
    <3> TAKE c
    <3>1. c \in CallsIn(s, r) <=> Made(s, r, c)
      BY CallsInMembers
    <3> QED
      BY <3>1 DEF calls, Made
  <2>2. \A i \in t.first + 1 .. n : i - 1 \in r.first .. r.last /\ (i - 1) + 1 = i
    BY <1>1, <1>3
  <2>3. \A i \in r.first .. r.last : i + 1 \in t.first + 1 .. n
    BY <1>4
  <2> HIDE DEF calls
  <2>4. ASSUME NEW c \in calls
        PROVE  \E i \in t.first + 1 .. n : \E j \in DOMAIN s[i] : c = s[i][j]
    <3>1. PICK i \in r.first .. r.last : \E j \in DOMAIN s[i + 1] : c = s[i + 1][j]
      BY <2>1
    <3> QED
      BY <2>3, <3>1
  <2>5. ASSUME NEW i \in t.first + 1 .. n, NEW j \in DOMAIN s[i]
        PROVE  s[i][j] \in calls
    <3>1. i - 1 \in r.first .. r.last /\ (i - 1) + 1 = i
      BY <2>2
    <3>2. \E k \in r.first .. r.last : \E l \in DOMAIN s[k + 1] : s[i][j] = s[k + 1][l]
      BY <3>1
    <3> QED
      BY <2>1, <3>2
  <2> QED
    BY <2>4, <2>5
<1> HIDE DEF calls
<1>6. \A i \in t.first + 1 .. n : s[i] # <<>> <=> \E j \in DOMAIN s[i] : TRUE
  <2>1. \A i \in t.first + 1 .. n : s[i] \in Seq(Call)
    BY <1>1
  <2>2. \A q \in Seq(Call) : q # <<>> <=> 1 \in DOMAIN q
    OBVIOUS
  <2>3. \A q \in Seq(Call) : (\E j \in DOMAIN q : TRUE) => 1 \in DOMAIN q
    OBVIOUS
  <2> QED
    BY <2>1, <2>2, <2>3
<1>7. t.tool_iters > 0 <=> calls # {}
  BY <1>2, <1>5, <1>6
<1>8. t.any_success <=> \E c \in calls : ~Invalid(a, c)
  <2>1. \A i : Carried(a, s[i]) <=> \E j \in DOMAIN s[i] : ~Invalid(a, s[i][j])
    BY Zenon DEF Carried
  <2>2. ASSUME NEW i \in t.first + 1 .. n, Carried(a, s[i])
        PROVE  \E c \in calls : ~Invalid(a, c)
    <3>1. PICK j \in DOMAIN s[i] : ~Invalid(a, s[i][j])
      BY <2>1, <2>2, Zenon
    <3>2. s[i][j] \in calls
      BY <1>5, Zenon
    <3> QED
      BY <3>1, <3>2, Zenon
  <2>3. ASSUME NEW c \in calls, ~Invalid(a, c)
        PROVE  \E i \in t.first + 1 .. n : Carried(a, s[i])
    <3>1. PICK i \in t.first + 1 .. n : \E j \in DOMAIN s[i] : c = s[i][j]
      BY <1>5, Zenon
    <3> QED
      BY <2>1, <2>3, <3>1, Zenon
  <2> QED
    BY <1>2, <2>2, <2>3, Zenon
<1>9. r.malformed <=> calls # {} /\ \A c \in calls : Invalid(a, c)
  BY <1>7, <1>8
<1>10. r.outcome = "capped" => s[r.last + 1] # <<>>
  BY <1>2, <1>3
<1>11. Grounded(s, r)
  BY <1>3 DEF Grounded, n
<1> QED
  BY <1>9, <1>10, <1>11 DEF Tells, calls

LEMMA FinalizeAccount ==
  ASSUME TurnInv, AccountInv, NEW a \in Actor, Finalize(a)
  PROVE  AccountInv'
<1> USE DEF TurnInv
<1>1. /\ turn[a] \in {"yielded", "capped"} /\ turn' = [turn EXCEPT ![a] = Idle]
      /\ UNCHANGED <<callSeq, wire, loop, served>>
      /\ finishing # "no" => UNCHANGED <<spans, finishing>>
      /\ finishing = "no" => spans' = [spans EXCEPT ![a] = Append(@, Recorded(a))]
  BY DEF Finalize, channelVars
<1>2. /\ turn'[a] = Idle /\ \A b \in Actor : b # a => turn'[b] = turn[b]
  BY <1>1 DEF TypeOK
<1>3. finishing' = "no" => finishing = "no"
  BY <1>1
<1> DEFINE t == loop[a]
           s == served[a]
           r == Recorded(a)
<1>4. /\ Judged(a, turn[a], t, s) /\ Counted(t, turn[a]) /\ s \in Seq(Seq(Call))
  BY <1>1 DEF AccountInv, Kept, TurnsCounted, Idle
<1>5. t.first \in Nat /\ t.completions \in Nat \ {0}
  BY <1>1, <1>4, TurnLoopAssumption DEF Counted, TurnLoopAssumption
<1>6. Grounded(s, r) /\ Tells(a, s, r)
  <2>1. /\ r.first = t.first /\ r.last = t.first + t.completions - 1
        /\ r.outcome = turn[a] /\ r.malformed = (t.tool_iters > 0 /\ ~t.any_success)
    BY DEF Recorded
  <2> HIDE DEF r, t, s
  <2> QED
    BY <1>1, <1>4, <1>5, <2>1, RecordedTells
<1>7. Len(s) = callSeq[a]
  <2>1. callSeq[a] = t.first + t.completions
    BY <1>1, <1>4 DEF SpansTile, Counted, Idle
  <2> QED
    BY <1>4, <2>1 DEF Judged
<1>8. \A i \in DOMAIN spans'[a] : Grounded(s, spans'[a][i]) /\ Tells(a, s, spans'[a][i])
  <2>1. \A i \in DOMAIN spans[a] : Grounded(s, spans[a][i]) /\ Tells(a, s, spans[a][i])
    BY DEF AccountInv, Kept
  <2>2. CASE finishing = "no"
    <3> HIDE DEF r, s
    <3>1. spans[a] \in Seq(Span) /\ spans'[a] = Append(spans[a], r)
      BY <1>1, <2>2 DEF TypeOK, r
    <3>2. \A i \in DOMAIN spans'[a] :
            (i \in DOMAIN spans[a] /\ spans'[a][i] = spans[a][i]) \/ spans'[a][i] = r
      BY <3>1
    <3> QED
      BY <1>6, <2>1, <3>2
  <2>3. CASE finishing # "no"
    BY <1>1, <2>1, <2>3
  <2> QED
    BY <2>2, <2>3
<1>9. Kept(a)'
  BY <1>1, <1>2, <1>7, <1>8 DEF Kept
<1>10. \A b \in Actor : b # a => spans'[b] = spans[b]
  BY <1>1 DEF TypeOK
<1>11. \A b \in Actor : b # a => Kept(b)'
  BY <1>1, <1>2, <1>3, <1>10, KeptAlone DEF AccountInv
<1> QED
  BY <1>1, <1>9, <1>11 DEF AccountInv

LEMMA StartAccount ==
  ASSUME TurnInv, AccountInv, NEW a \in Actor, StartTurn(a)
  PROVE  AccountInv'
<1> USE DEF TurnInv
<1>1. /\ finishing = "no" /\ Step(a, Idle, "loop")
      /\ loop' = [loop EXCEPT ![a] = Locals(a)]
      /\ UNCHANGED <<callSeq, wire, finishing, served, spans>>
  BY DEF StartTurn, channelVars, runVars
<1>2. /\ turn[a] = Idle /\ turn'[a] = "loop"
      /\ \A b \in Actor : b # a => turn'[b] = turn[b]
  BY <1>1, OneStep DEF Where
<1>3. loop'[a] = Locals(a) /\ \A b \in Actor : b # a => loop'[b] = loop[b]
  BY <1>1 DEF TypeOK
<1>4. Len(served[a]) = callSeq[a] /\ callSeq[a] \in Nat
  BY <1>1, <1>2 DEF AccountInv, Kept, TypeOK
<1>5. Judged(a, "loop", Locals(a), served[a])
  <2> DEFINE t == Locals(a)
  <2>1. /\ t.first = callSeq[a] /\ t.completions = 0 /\ t.tool_iters = 0
        /\ t.any_success = FALSE
    BY DEF Locals
  <2> HIDE DEF t
  <2>2. t.first + 1 .. Len(served[a]) = {}
    BY <1>4, <2>1
  <2>3. Len(served[a]) = t.first + t.completions /\ ~(t.tool_iters > 0)
    BY <1>4, <2>1
  <2>4. Judged(a, "loop", t, served[a])
    BY <2>1, <2>2, <2>3 DEF Judged
  <2> QED
    BY <2>4 DEF t
<1>6. Kept(a)'
  BY <1>1, <1>2, <1>3, <1>5 DEF AccountInv, Kept, Idle
<1>7. \A b \in Actor : b # a => Kept(b)'
  BY <1>1, <1>2, <1>3, KeptAlone DEF AccountInv
<1> QED
  BY <1>1, <1>6, <1>7 DEF AccountInv

(* The steps that answer, judge and record nothing.                        *)
LEMMA MovingAccount ==
  ASSUME TurnInv, AccountInv, NEW a \in Actor, UNCHANGED <<loop, served, spans>>,
         \A b \in Actor : wire'[b].call_seq \in Nat,
         \A b \in Actor : b # a => callSeq'[b] = callSeq[b],
         \/ Step(a, "loop", "gate") /\ finishing' = finishing
         \/ Step(a, "gate", "calling") /\ finishing' = finishing
         \/ (\E q : Step(a, q, Idle)) /\ finishing' # "no"
  PROVE  AccountInv'
<1> USE DEF TurnInv
<1>1. PICK p \in {"gate", "calling", Idle} : \E q :
        /\ Step(a, q, p)
        /\ \/ q \in {"loop", "gate"} /\ p \in {"gate", "calling"}
           \/ p = Idle /\ finishing' # "no"
        /\ finishing' = "no" => finishing = "no"
  OBVIOUS
<1>0. PICK q : /\ Step(a, q, p)
               /\ \/ q \in {"loop", "gate"} /\ p \in {"gate", "calling"}
                  \/ p = Idle /\ finishing' # "no"
               /\ finishing' = "no" => finishing = "no"
  BY <1>1
<1>2. /\ turn[a] = q /\ turn'[a] = p
      /\ \A b \in Actor : b # a => turn'[b] = turn[b]
  BY <1>0, OneStep DEF Where
<1>3. Kept(a)'
  BY <1>0, <1>2, KeptMoving DEF AccountInv
<1>4. \A b \in Actor : b # a => Kept(b)'
  BY <1>0, <1>2, KeptAlone DEF AccountInv
<1> QED
  BY <1>3, <1>4 DEF AccountInv

LEMMA AccountStep == TurnInv /\ AccountInv /\ [Next]_vars => AccountInv'
<1> SUFFICES ASSUME TurnInv, AccountInv, [Next]_vars PROVE AccountInv'
  OBVIOUS
<1>1. ASSUME NEW a \in Actor, StartTurn(a) \/ Answered(a) \/ Batch(a) \/ Finalize(a)
      PROVE  AccountInv'
  BY <1>1, StartAccount, AnsweredAccount, BatchAccount, FinalizeAccount
<1>2. \A b \in Actor : wire[b].call_seq \in Nat
  BY DEF AccountInv
<1>3. ASSUME NEW a \in Actor, StopCheck(a) PROVE AccountInv'
  BY <1>2, <1>3, MovingAccount DEF StopCheck, channelVars, runVars
<1>4. ASSUME NEW a \in Actor, CapReached(a) \/ CompletionFails(a) PROVE AccountInv'
  BY <1>2, <1>4, MovingAccount DEF CapReached, CompletionFails, Finish, channelVars
<1>5. ASSUME NEW a \in Actor, BatchTooLate(a) PROVE AccountInv'
  BY <1>2, <1>5, MovingAccount DEF BatchTooLate, channelVars, runVars
<1>6. ASSUME NEW a \in Actor, Complete(a) PROVE AccountInv'
  <2>1. /\ Step(a, "gate", "calling") /\ UNCHANGED <<loop, finishing, served, spans>>
        /\ wire' = [wire EXCEPT ![a] = Identity(a)]
        /\ callSeq' = [callSeq EXCEPT ![a] = @ + 1]
    BY <1>6 DEF Complete
  <2>2. callSeq \in [Actor -> Nat] /\ wire = [b \in Actor |-> wire[b]]
    BY DEF TurnInv, TypeOK
  <2>3. Identity(a).call_seq \in Nat
    BY <2>2 DEF Identity
  <2>4. \A b \in Actor : wire'[b].call_seq \in Nat
    BY <1>2, <2>1, <2>2, <2>3
  <2>5. \A b \in Actor : b # a => callSeq'[b] = callSeq[b]
    BY <2>1, <2>2
  <2> QED
    BY <2>1, <2>4, <2>5, MovingAccount
<1>7. CASE ForceTerminate \/ UNCHANGED vars
  <2>1. /\ UNCHANGED <<turn, callSeq, wire, loop, served, spans>>
        /\ finishing' = "no" => finishing = "no"
    BY <1>7 DEF ForceTerminate, vars, channelVars, runVars
  <2>2. \A b \in Actor : Kept(b)'
    BY <2>1, KeptAlone DEF AccountInv
  <2> QED
    BY <2>1, <2>2 DEF AccountInv
<1> QED
  BY <1>1, <1>3, <1>4, <1>5, <1>6, <1>7 DEF Next, TurnStep, Over

(* Whatever the endpoint answers and however turns overlap, a turn is      *)
(* recorded as malformed exactly if it made calls and no registry could    *)
(* carry out one of them, and as capped only if it was cut short.          *)
THEOREM RecordsTellTruth == Spec => []RecordsTell
<1>1. Init => AccountInv
  BY InitAccountInv
<1>2. TurnInv /\ AccountInv /\ [Next]_vars => AccountInv'
  BY AccountStep
<1>3. AccountInv => RecordsTell
  BY DEF AccountInv, Kept, Tells, RecordsTell, CallsOf, CallsIn
<1> QED
  BY <1>1, <1>2, <1>3, TurnInvariant, PTL DEF Spec

----------------------------------------------------------------------------
(* The script of an agent, unrolled, is what the endpoint says of it at    *)
(* every cursor.                                                           *)
Says(s, q) ==
  /\ q \in Seq(Reply) /\ Len(s.responses) <= Len(q)
  /\ s.repeat = <<>> => Len(q) = Len(s.responses)
  /\ s.repeat # <<>> => (Len(q) - Len(s.responses)) % Len(s.repeat) = 0
  /\ \A i \in 1 .. Len(q) : q[i] = Scripted(s, i - 1)

LEMMA Division ==
  \A p \in Nat, k \in Nat \ {0} :
    p = k * (p \div k) + (p % k) /\ p \div k \in Nat /\ p % k \in 0 .. k - 1
OBVIOUS

LEMMA UniqueRemainder ==
  ASSUME NEW k \in Nat \ {0}, NEW q \in Int, NEW u \in Int,
         NEW r \in 0 .. k - 1, NEW v \in 0 .. k - 1, k * q + r = k * u + v
  PROVE  r = v
<1> DEFINE d == q - u
<1>1. k * d = v - r
  <2>1. \A x, y, z \in Int : x * (y - z) = x * y - x * z
    OBVIOUS
  <2>2. \A x, y \in Int : x + r = y + v => x - y = v - r
    OBVIOUS
  <2>3. k * q \in Int /\ k * u \in Int
    OBVIOUS
  <2> QED
    BY <2>1, <2>2, <2>3
<1>2. d \in Int
  OBVIOUS
<1> HIDE DEF d
<1>3. \A x \in Int : (x >= 1 => k * x >= k) /\ (x <= -1 => k * x <= -k)
  OBVIOUS
<1>4. d = 0 => k * d = 0
  BY <1>2
<1> QED
  BY <1>1, <1>2, <1>3, <1>4

LEMMA WholeRounds ==
  ASSUME NEW p \in Nat, NEW k \in Nat \ {0}, p % k = 0
  PROVE  /\ \A j \in 0 .. k - 1 : (p + j) % k = j
         /\ (p + k) % k = 0
<1> DEFINE q == p \div k
<1>1. p = k * q /\ q \in Nat
  BY Division
<1> HIDE DEF q
<1>2. ASSUME NEW j \in 0 .. k - 1 PROVE (p + j) % k = j
  <2>1. p + j \in Nat
    OBVIOUS
  <2> DEFINE x == p + j
             u == x \div k
             v == x % k
  <2>2. x = k * u + v /\ u \in Nat /\ v \in 0 .. k - 1
    BY <2>1, Division
  <2>3. x = k * q + j
    BY <1>1, Zenon
  <2> HIDE DEF x, u, v
  <2>4. q \in Int /\ u \in Int /\ k * q + j = k * u + v
    <3>1. q \in Int /\ u \in Int
      BY <1>1, <2>2
    <3> QED
      BY <2>2, <2>3, <3>1, Zenon
  <2>5. j = v
    BY <2>2, <2>4, UniqueRemainder, Zenon
  <2> QED
    BY <2>5 DEF v, x
<1>3. (p + k) % k = 0
  <2>1. p + k \in Nat
    OBVIOUS
  <2> DEFINE x == p + k
             u == x \div k
             v == x % k
  <2>2. x = k * u + v /\ u \in Nat /\ v \in 0 .. k - 1
    BY <2>1, Division
  <2>3. x = k * (q + 1) + 0 /\ q + 1 \in Int /\ 0 \in 0 .. k - 1
    <3>1. \A y \in Nat : k * (y + 1) + 0 = k * y + k
      OBVIOUS
    <3>2. x = k * q + k
      BY <1>1, Zenon
    <3>3. q + 1 \in Int /\ 0 \in 0 .. k - 1
      BY <1>1
    <3> HIDE DEF x
    <3> QED
      BY <1>1, <3>1, <3>2, <3>3, Zenon
  <2> HIDE DEF x, u, v
  <2>4. u \in Int /\ k * (q + 1) + 0 = k * u + v
    <3>1. u \in Int
      BY <2>2
    <3> QED
      BY <2>2, <2>3, <3>1, Zenon
  <2>5. 0 = v
    BY <2>2, <2>3, <2>4, UniqueRemainder, Zenon
  <2> QED
    BY <2>5 DEF v, x
<1> QED
  BY <1>2, <1>3

LEMMA SaysOnceMore ==
  ASSUME NEW s, s.responses \in Seq(Reply), s.repeat \in Seq(Reply), NEW q, Says(s, q)
  PROVE  Says(s, q \o s.repeat)
<1> DEFINE e == q \o s.repeat
           m == Len(s.responses)
           k == Len(s.repeat)
           n == Len(q)
<1>1. m \in Nat /\ k \in Nat /\ n \in Nat /\ m <= n
  BY DEF Says
<1>2. /\ e \in Seq(Reply) /\ Len(e) = n + k
      /\ \A i \in 1 .. n + k : e[i] = IF i <= n THEN q[i] ELSE s.repeat[i - n]
  BY ConcatProperties DEF Says
<1>3. CASE s.repeat = <<>>
  <2>1. e = q
    BY <1>3, ConcatEmptySeq DEF Says
  <2> QED
    BY <2>1
<1>4. CASE s.repeat # <<>>
  <2>1. k # 0 /\ n - m \in Nat /\ (n - m) % k = 0
    <3>1. k # 0
      BY <1>4
    <3>2. (n - m) % k = 0
      BY <1>4 DEF Says
    <3> HIDE DEF m, k, n
    <3>3. n - m \in Nat
      BY <1>1
    <3> QED
      BY <3>1, <3>2, <3>3
  <2> HIDE DEF e, m, k, n
  <2>2. \A j \in 0 .. k - 1 : ((n - m) + j) % k = j
    BY <1>1, <2>1, WholeRounds
  <2>3. ((n - m) + k) % k = 0 /\ (n + k) - m = (n - m) + k
    BY <1>1, <2>1, WholeRounds
  <2>4. ASSUME NEW i \in 1 .. n + k PROVE e[i] = Scripted(s, i - 1)
    <3>1. CASE i <= n
      <4>1. i \in 1 .. n
        BY <1>1, <3>1
      <4> QED
        BY <1>2, <3>1, <4>1 DEF Says, n
    <3>2. CASE ~(i <= n)
      <4>1. /\ (i - n) - 1 \in 0 .. k - 1
            /\ (n - m) + ((i - n) - 1) = (i - 1) - m /\ ~((i - 1) - m < 0)
        BY <1>1, <3>2
      <4>2. (((i - 1) - m) % k) + 1 = i - n
        <5>1. ((i - 1) - m) % k = (i - n) - 1
          BY <2>2, <4>1
        <5> QED
          BY <1>1, <5>1
      <4>3. Scripted(s, i - 1) = s.repeat[(((i - 1) - m) % k) + 1]
        BY <1>4, <4>1 DEF Scripted, m, k
      <4>4. e[i] = s.repeat[i - n]
        BY <1>2, <3>2
      <4> QED
        BY <4>2, <4>3, <4>4
    <3> QED
      BY <3>1, <3>2
  <2>5. m <= Len(e) /\ (Len(e) - m) % k = 0
    BY <1>1, <1>2, <2>3
  <2>6. Says(s, e)
    BY <1>2, <1>4, <2>4, <2>5 DEF Says, m, k
  <2> QED
    BY <2>6 DEF e
<1> QED
  BY <1>3, <1>4

LEMMA UnrolledSays ==
  ASSUME NEW s, NEW first \in Seq(Reply), NEW again \in Seq(Reply),
         s.responses = first, s.repeat = again, NEW n \in Nat
  PROVE  Says(s, Unrolled(s, n))
<1> DEFINE more == CHOOSE f : f = [k \in Nat |-> IF k = 0 THEN s.responses
                                                ELSE f[k - 1] \o s.repeat]
           round == [q \in Seq(Reply) |-> q \o again]
           Sound == {k \in Nat : Says(s, more[k])}
<1>1. more = [k \in Nat |-> IF k = 0 THEN s.responses ELSE more[k - 1] \o s.repeat]
  <2>1. round \in [Seq(Reply) -> Seq(Reply)]
    BY ConcatProperties
  <2> HIDE DEF more, round
  <2>2. PICK f \in [Nat -> Seq(Reply)] :
          f[0] = first /\ \A k \in Nat : k # 0 => f[k] = round[f[k - 1]]
    <3>1. \E f : Iterates(f, Seq(Reply), first, round)
      BY <2>1, Iteration
    <3> QED
      BY <3>1 DEF Iterates
  <2>3. \A k \in Nat : k # 0 => round[f[k - 1]] = f[k - 1] \o again
    <3>1. \A k \in Nat : k # 0 => f[k - 1] \in Seq(Reply)
      OBVIOUS
    <3> QED
      BY <3>1 DEF round
  <2>4. f = [k \in Nat |-> IF k = 0 THEN s.responses ELSE f[k - 1] \o s.repeat]
    BY <2>2, <2>3
  <2> QED
    BY <2>4, Zenon DEF more
<1>2. Unrolled(s, n) = more[n]
  BY DEF Unrolled
<1> HIDE DEF more
<1>3. 0 \in Sound
  <2>1. more[0] = first
    BY <1>1
  <2>2. again # <<>> => (Len(first) - Len(first)) % Len(again) = 0
    <3>1. again # <<>> => Len(again) \in Nat \ {0}
      OBVIOUS
    <3>2. \A k \in Nat \ {0} : 0 % k = 0
      OBVIOUS
    <3>3. Len(first) - Len(first) = 0
      OBVIOUS
    <3> QED
      BY <3>1, <3>2, <3>3
  <2>3. ASSUME NEW i \in 1 .. Len(first) PROVE first[i] = Scripted(s, i - 1)
    <3>1. (i - 1) - Len(first) < 0 /\ (i - 1) + 1 = i
      OBVIOUS
    <3> QED
      BY <3>1 DEF Scripted
  <2>4. Says(s, first)
    BY <2>2, <2>3 DEF Says
  <2> QED
    BY <2>1, <2>4
<1>4. ASSUME NEW k \in Nat, k \in Sound PROVE k + 1 \in Sound
  <2>1. k + 1 # 0 /\ k + 1 \in Nat /\ (k + 1) - 1 = k
    OBVIOUS
  <2>2. more[k + 1] = more[k] \o s.repeat
    BY <1>1, <2>1
  <2>3. Says(s, more[k])
    BY <1>4
  <2>4. Says(s, more[k] \o s.repeat)
    BY <2>3, SaysOnceMore
  <2> QED
    BY <2>1, <2>2, <2>4
<1> HIDE DEF Sound
<1>5. n \in Sound
  BY <1>3, <1>4, SetInduction
<1> QED
  BY <1>2, <1>5 DEF Sound

(* Whom a script is for depends on the handle and the role alone.          *)
Own(a) == Select([agent |-> a, role |-> Role(a)])

(* A completion on its way carries the number of answers before it.        *)
CursorKept(a) ==
  /\ wire[a].user.agent = a /\ wire[a].user.role = Role(a)
  /\ turn[a] = "calling" => wire[a].call_seq = Len(served[a])

Follows(s, answers) ==
  \A i \in 1 .. Len(answers) :
    Scripted(s, i - 1).kind = "say" => answers[i] = Scripted(s, i - 1).calls

ScriptInv == \A a \in Actor : CursorKept(a) /\ \A s \in Own(a) : Follows(s, served[a])

LEMMA SelectByHandle ==
  ASSUME NEW a, NEW user, user.agent = a, user.role = Role(a)
  PROVE  Select(user) = Own(a)
BY DEF Select, Matches, Own

LEMMA UserHandle ==
  ASSUME NEW a PROVE User(a).agent = a /\ User(a).role = Role(a)
BY DEF User

LEMMA OneScript ==
  ASSUME NEW user, NEW s \in Select(user), NEW u \in Select(user) PROVE s = u
<1> DEFINE matching == {i \in DOMAIN Scripts : Matches(Scripts[i], user)}
           exact == {i \in matching : Scripts[i].agent = user.agent}
           best == IF exact # {} THEN exact ELSE matching
<1>1. best \subseteq Int
  BY ScenarioAssumption DEF ScenarioAssumption
<1>2. Select(user) = {Scripts[i] : i \in {i \in best : \A j \in best : i <= j}}
  BY DEF Select
<1> HIDE DEF best
<1>3. PICK i \in best : s = Scripts[i] /\ \A j \in best : i <= j
  BY <1>2
<1>4. PICK k \in best : u = Scripts[k] /\ \A j \in best : k <= j
  BY <1>2
<1>5. i = k
  BY <1>1, <1>3, <1>4
<1> QED
  BY <1>3, <1>4, <1>5

LEMMA InitScriptInv == Init => ScriptInv
<1> SUFFICES ASSUME Init PROVE ScriptInv
  OBVIOUS
<1>1. \A a \in Actor : wire[a].user = User(a) /\ turn[a] # "calling" /\ served[a] = <<>>
  BY DEF Init, Identity, Idle
<1> QED
  BY <1>1, UserHandle DEF ScriptInv, CursorKept, Follows

LEMMA QuietScript ==
  ASSUME ScriptInv, UNCHANGED <<wire, served>>,
         \A a \in Actor : turn'[a] = "calling" => turn[a] = "calling"
  PROVE  ScriptInv'
BY DEF ScriptInv, CursorKept

LEMMA CompleteScript ==
  ASSUME TurnInv, AccountInv, ScriptInv, NEW a \in Actor, Complete(a) PROVE ScriptInv'
<1> USE DEF TurnInv
<1>1. /\ Step(a, "gate", "calling") /\ UNCHANGED served
      /\ wire' = [wire EXCEPT ![a] = Identity(a)]
  BY DEF Complete
<1>2. /\ turn[a] = "gate" /\ \A b \in Actor : b # a => turn'[b] = turn[b]
  BY <1>1, OneStep DEF Where
<1>3. wire'[a] = Identity(a) /\ \A b \in Actor : b # a => wire'[b] = wire[b]
  BY <1>1 DEF TypeOK
<1>4. callSeq[a] = Len(served[a])
  <2>1. callSeq[a] = loop[a].first + loop[a].completions + 0
    BY <1>2 DEF SpansTile, Idle
  <2>2. Len(served[a]) = loop[a].first + loop[a].completions
    BY <1>2 DEF AccountInv, Kept, Judged, Idle
  <2>3. loop[a].first \in Nat /\ loop[a].completions \in Nat
    BY <1>2 DEF TurnsCounted, Counted, Idle
  <2> QED
    BY <2>1, <2>2, <2>3
<1>5. CursorKept(a)'
  BY <1>1, <1>3, <1>4, UserHandle DEF CursorKept, Identity
<1>6. \A b \in Actor : CursorKept(b)'
  BY <1>1, <1>2, <1>3, <1>5 DEF ScriptInv, CursorKept
<1> QED
  BY <1>1, <1>6 DEF ScriptInv

LEMMA AnsweredScript ==
  ASSUME TurnInv, AccountInv, ScriptInv, NEW a \in Actor, Answered(a) PROVE ScriptInv'
<1> USE DEF TurnInv
<1>1. PICK calls \in Chat(wire[a]) :
        /\ Step(a, "calling", IF calls = <<>> THEN "yielded" ELSE "batch")
        /\ served' = [served EXCEPT ![a] = Append(@, calls)]
        /\ UNCHANGED wire
  BY DEF Answered, channelVars
<1>2. /\ turn[a] = "calling" /\ turn'[a] # "calling"
      /\ \A b \in Actor : b # a => turn'[b] = turn[b]
  BY <1>1, OneStep DEF Where
<1>3. wire[a].call_seq = Len(served[a]) /\ Select(wire[a].user) = Own(a)
  BY <1>2, SelectByHandle DEF ScriptInv, CursorKept
<1>4. served[a] \in Seq(Seq(Call)) /\ calls \in Seq(Call)
  BY ChatAnswers DEF AccountInv
<1> DEFINE n == Len(served[a])
           e == Append(served[a], calls)
<1>5. /\ served'[a] = e /\ \A b \in Actor : b # a => served'[b] = served[b]
  BY <1>1 DEF AccountInv
<1>6. /\ n \in Nat /\ Len(e) = n + 1 /\ e[n + 1] = calls
      /\ \A i \in 1 .. n : e[i] = served[a][i]
  BY <1>4
<1>7. ASSUME NEW s \in Own(a), Scripted(s, n).kind = "say" PROVE calls = Scripted(s, n).calls
  <2> DEFINE said == {Scripted(u, n) : u \in Own(a)}
             own == {r \in said : r.kind = "say"}
  <2>1. Chat(wire[a]) = IF own = {} THEN Arc ELSE {r.calls : r \in own}
    BY <1>3 DEF Chat
  <2>2. own = {Scripted(s, n)}
    BY <1>7, OneScript DEF Own
  <2> QED
    BY <2>1, <2>2
<1> HIDE DEF n, e
<1>8. ASSUME NEW s \in Own(a) PROVE Follows(s, e)
  <2>1. ASSUME NEW i \in 1 .. Len(e), Scripted(s, i - 1).kind = "say"
        PROVE  e[i] = Scripted(s, i - 1).calls
    <3>1. CASE i = n + 1
      <4>1. i - 1 = n
        BY <1>6, <3>1
      <4> QED
        BY <1>6, <1>7, <2>1, <3>1, <4>1
    <3>2. CASE i # n + 1
      <4>1. i \in 1 .. n
        BY <1>6, <3>2
      <4>2. Follows(s, served[a])
        BY DEF ScriptInv
      <4> QED
        BY <1>6, <2>1, <4>1, <4>2 DEF Follows, n
    <3> QED
      BY <3>1, <3>2
  <2> QED
    BY <2>1 DEF Follows
<1>9. \A b \in Actor : CursorKept(b)'
  BY <1>1, <1>2, <1>5 DEF ScriptInv, CursorKept
<1>10. \A b \in Actor : \A s \in Own(b) : Follows(s, served[b])'
  BY <1>5, <1>8 DEF ScriptInv
<1> QED
  BY <1>9, <1>10 DEF ScriptInv, Own

LEMMA ScriptStep == TurnInv /\ AccountInv /\ ScriptInv /\ [Next]_vars => ScriptInv'
<1> SUFFICES ASSUME TurnInv, AccountInv, ScriptInv, [Next]_vars PROVE ScriptInv'
  OBVIOUS
<1>1. ASSUME NEW a \in Actor, Complete(a) \/ Answered(a) PROVE ScriptInv'
  BY <1>1, CompleteScript, AnsweredScript
<1>2. ASSUME NEW a \in Actor, NEW p \in Where, NEW q, Step(a, q, p), p # "calling",
             UNCHANGED <<wire, served>>
      PROVE  ScriptInv'
  <2>1. \A b \in Actor : turn'[b] = "calling" => turn[b] = "calling"
    BY <1>2, OneStep DEF TurnInv
  <2> QED
    BY <1>2, <2>1, QuietScript
<1>3. ASSUME NEW a \in Actor, StartTurn(a) PROVE ScriptInv'
  BY <1>2, <1>3 DEF StartTurn, channelVars, Where
<1>4. ASSUME NEW a \in Actor, StopCheck(a) PROVE ScriptInv'
  BY <1>2, <1>4 DEF StopCheck, channelVars, Where, Idle
<1>5. ASSUME NEW a \in Actor, CapReached(a) \/ CompletionFails(a) \/ BatchTooLate(a)
      PROVE  ScriptInv'
  <2>1. PICK q : Step(a, q, Idle)
    BY <1>5 DEF CapReached, CompletionFails, BatchTooLate
  <2>2. UNCHANGED <<wire, served>>
    BY <1>5 DEF CapReached, CompletionFails, BatchTooLate, channelVars
  <2> QED
    BY <1>2, <2>1, <2>2 DEF Where, Idle
<1>6. ASSUME NEW a \in Actor, Batch(a) PROVE ScriptInv'
  <2>1. PICK p \in {"yielded", "capped", "loop"} : Step(a, "batch", p)
    BY <1>6 DEF Batch
  <2>2. UNCHANGED <<wire, served>>
    BY <1>6 DEF Batch
  <2> QED
    BY <1>2, <2>1, <2>2 DEF Where
<1>7. ASSUME NEW a \in Actor, Finalize(a) PROVE ScriptInv'
  <2>1. Step(a, turn[a], Idle) /\ UNCHANGED <<wire, served>>
    BY <1>7 DEF Finalize, Step, channelVars
  <2> QED
    BY <1>2, <2>1 DEF Where, Idle
<1>8. CASE ForceTerminate \/ UNCHANGED vars
  BY <1>8, QuietScript DEF ForceTerminate, vars, channelVars
<1> QED
  BY <1>1, <1>3, <1>4, <1>5, <1>6, <1>7, <1>8 DEF Next, TurnStep, Over

(* ADR 0023, for every scenario: each agent is served its script in order, *)
(* each response once, whatever the other agents do and however its        *)
(* completions fall into turns.  The proof unrolls the script by induction *)
(* over the naturals.                                                      *)
THEOREM ScriptServedInOrder == Spec => []ScriptInOrder
<1>1. Init => ScriptInv
  BY InitScriptInv
<1>2. TurnInv /\ AccountInv /\ ScriptInv /\ [Next]_vars => ScriptInv'
  BY ScriptStep
<1>3. AccountInv /\ ScriptInv => ScriptInOrder
  <2> SUFFICES ASSUME AccountInv, ScriptInv, NEW a \in Actor, NEW s \in Select(User(a))
               PROVE  LET n == Len(served[a])
                          script == Unrolled(s, n)
                      IN  \A i \in 1..n :
                            i <= Len(script) /\ script[i].kind = "say" =>
                              served[a][i] = script[i].calls
    BY DEF ScriptInOrder
  <2> DEFINE n == Len(served[a])
             script == Unrolled(s, n)
  <2>1. n \in Nat
    BY DEF AccountInv
  <2>2. Follows(s, served[a])
    BY UserHandle, SelectByHandle DEF ScriptInv
  <2>3. PICK i \in DOMAIN Scripts : s = Scripts[i]
    BY DEF Select
  <2>4. s.responses \in Seq(Reply) /\ s.repeat \in Seq(Reply)
    BY <2>3, ScenarioAssumption DEF ScenarioAssumption
  <2>5. Says(s, script)
    BY <2>1, <2>4, UnrolledSays
  <2> HIDE DEF n, script
  <2>6. ASSUME NEW k \in 1 .. n, k <= Len(script), script[k].kind = "say"
        PROVE  served[a][k] = script[k].calls
    <3>1. k \in 1 .. Len(script)
      BY <2>1, <2>5, <2>6 DEF Says
    <3>2. script[k] = Scripted(s, k - 1)
      BY <2>5, <3>1 DEF Says
    <3> QED
      BY <2>2, <2>6, <3>2 DEF Follows, n
  <2> QED
    BY <2>6 DEF n, script
<1>4. Init => AccountInv
  BY InitAccountInv
<1>5. TurnInv /\ AccountInv /\ [Next]_vars => AccountInv'
  BY AccountStep
<1> QED
  BY <1>1, <1>2, <1>3, <1>4, <1>5, TurnInvariant, PTL DEF Spec
=============================================================================
