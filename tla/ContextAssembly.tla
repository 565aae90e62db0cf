--------------------------- MODULE ContextAssembly ---------------------------
(* The one assembler (context.rs): each role's policy of budgeted sections, *)
(* the allocation pass that hands out an optional pool in priority order,   *)
(* the drop rule of each section, and the mailbox that carries over what a  *)
(* prompt had no room for.  A line is its cost in tokens, and for the board *)
(* whether its task is terminal; wording and presentation are left out.     *)
EXTENDS Naturals, Sequences, FiniteSets, SequencesExt

CONSTANTS Role,      \* the roles tried: "orchestrator", "team", "meta"
          View,      \* what a turn may find besides its mailbox
          Mail,      \* the mailboxes tried: sequences of lines
          Pool,      \* OPENTEAM_ASSEMBLY_BUDGET: pools tried, NoPool for unset
          NoPool

Line == [cost : Nat, terminal : BOOLEAN]

ASSUME ContextConstants ==
  /\ Role \subseteq {"orchestrator", "team", "meta"}
  /\ View \subseteq [goal : Seq(Line), board : Seq(Line), health : Nat,
                     retrievals : Seq(Line), directives : Seq(Line),
                     claimed : Seq(Line), activity : Seq(Line),
                     outcomes : Seq(Line), digest : Seq(Line), events : Seq(Line)]
  /\ Mail \subseteq Seq(Line)
  /\ NoPool \notin Nat /\ Pool \subseteq Nat \cup {NoPool}

VARIABLES role, pool, view,
          mailbox,    \* the queued messages' lines
          queued,     \* the mailbox the run started with
          delivered,  \* the lines drained into prompts so far
          prompt      \* the sections of the last prompt

contextVars == <<role, pool, view, mailbox, queued, delivered, prompt>>

Section(k, b, p) == [kind |-> k, budget |-> b, priority |-> p]

Policy(r) ==
  CASE r = "orchestrator" ->
         <<Section("goal", 200, 0), Section("board", 800, 2),
           Section("retrievals", 600, 4), Section("messages", 800, 3),
           Section("directives", 400, 1)>>
    [] r = "team" ->
         <<Section("goal", 200, 0), Section("board", 800, 3),
           Section("claimed", 100, 1), Section("activity", 400, 2),
           Section("retrievals", 600, 5), Section("messages", 800, 4)>>
    [] r = "meta" ->
         <<Section("goal", 200, 0), Section("digest", 800, 2),
           Section("outcomes", 400, 1), Section("events", 400, 3)>>

Never == {"goal", "claimed", "directives", "outcomes"}

Only(S) == CHOOSE x \in S : TRUE

(* A loop over a sequence, first to last.  The choice of the only result   *)
(* makes TLC evaluate each step once.                                      *)
Iterate(Step(_, _), start, seq) ==
  LET after[n \in 0 .. Len(seq)] ==
        IF n = 0 THEN start
        ELSE Only({Step(before, item) : before \in {after[n - 1]}, item \in {seq[n]}})
  IN after[Len(seq)]

Cost(lines) == Iterate(LAMBDA n, line : n + line.cost, 0, lines)

(* count() of the literals, four characters to the token. *)
Placeholder(kind) == IF kind = "outcomes" THEN 4 ELSE 2
Marker == 6

(* Remove Victim's choice for as long as the lines do not fit. *)
Shed(lines, Fits(_), Victim(_)) ==
  Iterate(LAMBDA s, line : IF Fits(s) THEN s ELSE RemoveAt(s, Victim(s)),
           lines, lines)

Oldest(lines) == 1
Newest(lines) == Len(lines)
LastOf(S) == CHOOSE i \in S : \A j \in S : j <= i
LastTerminal(lines) ==
  LET terminal == {i \in DOMAIN lines : lines[i].terminal}
  IN IF terminal = {} THEN Len(lines) ELSE LastOf(terminal)

(* Mutant: the oldest message must fit like any other. *)
TakenIfFits(lines, allowed) ==
  Iterate(LAMBDA t, line :
             IF t.more /\ Cost(t.kept) + line.cost <= allowed
             THEN [t EXCEPT !.kept = Append(@, line)]
             ELSE [t EXCEPT !.more = FALSE],
           [kept |-> <<>>, more |-> TRUE], lines).kept

(* Fresh messages: the oldest whatever it costs, then as long as they fit. *)
Taken(lines, allowed) ==
  Iterate(LAMBDA t, line :
             IF t.more /\ (t.kept = <<>> \/ Cost(t.kept) + line.cost <= allowed)
             THEN [t EXCEPT !.kept = Append(@, line)]
             ELSE [t EXCEPT !.more = FALSE],
           [kept |-> <<>>, more |-> TRUE], lines).kept

(* Mutant: the board digest sheds from its end, terminal or not. *)
ShedBoardLastFirst(lines, health, allowed) ==
  Shed(lines, LAMBDA s : s = <<>> \/ Cost(s) + health <= allowed, Newest)

(* The board sheds terminal tasks first and makes room for the health line, *)
(* retrievals their least relevant, the digest all but its first entry and  *)
(* a window of the newest entries all but the last.                         *)
ShedBoard(lines, health, allowed) ==
  Shed(lines, LAMBDA s : s = <<>> \/ Cost(s) + health <= allowed, LastTerminal)
ShedRetrievals(lines, allowed) ==
  Shed(lines, LAMBDA s : s = <<>> \/ Cost(s) <= allowed, Newest)
ShedDigest(lines, allowed) ==
  Shed(lines, LAMBDA s : Len(s) <= 1 \/ Cost(s) <= allowed, Newest)
ShedWindow(lines, allowed) ==
  Shed(lines, LAMBDA s : Len(s) <= 1 \/ Cost(s) <= allowed, Oldest)

Lines(kind, v) == IF kind = "messages" THEN mailbox ELSE v[kind]

(* render_section: what is left of a section's lines in its allowance. *)
Kept(kind, allowed, v) ==
  LET lines == Lines(kind, v) IN
  CASE kind \in Never -> lines
    [] kind = "board" -> ShedBoard(lines, v.health, allowed)
    [] kind = "retrievals" -> ShedRetrievals(lines, allowed)
    [] kind = "messages" -> Taken(lines, allowed)
    [] kind = "digest" -> ShedDigest(lines, allowed)
    [] kind \in {"activity", "events"} -> ShedWindow(lines, allowed)

(* What the section costs: a withheld line leaves a marker, an empty section *)
(* a placeholder, and the run-health line is always there.                  *)
Render(section, allowed, v) ==
  LET kind == section.kind
      kept == Kept(kind, allowed, v)
      lost == Len(Lines(kind, v)) - Len(kept)
      dropped == IF kind = "events" THEN 0 ELSE lost
      note == IF kind \in {"activity", "messages"} /\ dropped > 0 THEN Marker
              ELSE IF kept = <<>> THEN Placeholder(kind) ELSE 0
      health == IF kind = "board" THEN v.health ELSE 0
  IN [kind |-> kind, kept |-> kept, allowed |-> allowed, dropped |-> dropped,
      used |-> Cost(kept) + note + health]

(* Mutant: the pool is handed out in presentation order. *)
PresentationOrder(policy) == [i \in DOMAIN policy |-> i]

(* The allocation pass: by priority, then by place in the policy; a section *)
(* may use up more than the pool still holds.                               *)
AllocationOrder(policy) ==
  LET Before(i, j) == \/ policy[i].priority < policy[j].priority
                      \/ policy[i].priority = policy[j].priority /\ i < j
  IN [n \in DOMAIN policy |-> CHOOSE i \in DOMAIN policy :
        Cardinality({j \in DOMAIN policy : Before(j, i)}) = n - 1]

Lesser(a, b) == IF a < b THEN a ELSE b

Allocate(policy, v, pass, i) ==
  LET allowed == IF pass.left = NoPool THEN policy[i].budget
                 ELSE Lesser(policy[i].budget, pass.left)
      section == Render(policy[i], allowed, v)
  IN [left |-> IF pass.left = NoPool THEN NoPool
               ELSE pass.left - Lesser(pass.left, section.used),
      out |-> [pass.out EXCEPT ![i] = section]]

Assemble(r, p, v) ==
  LET policy == Policy(r)
  IN Iterate(LAMBDA pass, i : Allocate(policy, v, pass, i),
              [left |-> p, out |-> policy], AllocationOrder(policy)).out

(* Mutant: the whole mailbox is drained, whatever the prompt shows. *)
DrainedWhole(sections) == Len(mailbox)

Drained(sections) ==
  Iterate(LAMBDA n, s : IF s.kind = "messages" THEN Len(s.kept) ELSE n,
          0, sections)

----------------------------------------------------------------------------
Init ==
  /\ role \in Role /\ pool \in Pool /\ view \in View /\ mailbox \in Mail
  /\ queued = mailbox /\ delivered = <<>> /\ prompt = <<>>

(* A turn's assembly, and the drain of exactly what the prompt shows. *)
StartTurn ==
  /\ prompt = <<>>
  /\ prompt' = Assemble(role, pool, view)
  /\ LET n == Drained(prompt')
     IN /\ delivered' = delivered \o SubSeq(mailbox, 1, n)
        /\ mailbox' = SubSeq(mailbox, n + 1, Len(mailbox))
  /\ UNCHANGED <<role, pool, view, queued>>

(* The world moves on between turns. *)
EndTurn ==
  /\ prompt # <<>>
  /\ prompt' = <<>> /\ view' \in View
  /\ UNCHANGED <<role, pool, mailbox, queued, delivered>>

Next == StartTurn \/ EndTurn

Spec == Init /\ [][Next]_contextVars /\ WF_contextVars(Next)

----------------------------------------------------------------------------
(* What each drop rule may leave of a section, said without its loop. *)
AtLeastOne(S) == {s \in S : s # <<>>}

Rank(S, i) == Cardinality({j \in S : j <= i})
FirstOf(S, k) == {i \in S : Rank(S, i) <= k}
LinesAt(lines, S) ==
  [n \in 1 .. Cardinality(S) |-> lines[CHOOSE i \in S : Rank(S, i) = n]]

(* The board keeps every open task and the first terminal ones, or the     *)
(* first open tasks and no terminal one.                                   *)
BoardRemains(lines) ==
  LET terminal == {i \in DOMAIN lines : lines[i].terminal}
      open == DOMAIN lines \ terminal
  IN  {LinesAt(lines, open \cup FirstOf(terminal, k)) : k \in 0 .. Len(lines)}
       \cup {LinesAt(lines, FirstOf(open, k)) : k \in 0 .. Len(lines)}

Remains(kind, lines) ==
  CASE kind \in Never -> {lines}
    [] kind = "board" -> BoardRemains(lines)
    [] kind = "retrievals" -> Prefixes(lines)
    [] kind \in {"messages", "digest"} ->
         IF lines = <<>> THEN {<<>>} ELSE AtLeastOne(Prefixes(lines))
    [] kind \in {"activity", "events"} ->
         IF lines = <<>> THEN {<<>>} ELSE AtLeastOne(Suffixes(lines))

(* The mailbox a prompt was drained from. *)
MailBefore(kept) == kept \o SubSeq(queued, Len(delivered) + 1, Len(queued))

(* Every section of every prompt is the longest remainder its drop rule     *)
(* allows within its allowance, or the least it allows when none fits (ADR  *)
(* 0016): nothing is shed without need, and terminal tasks go before others.*)
ShedsMinimally ==
  \A i \in DOMAIN prompt :
    LET s == prompt[i]
        lines == IF s.kind = "messages" THEN MailBefore(s.kept) ELSE view[s.kind]
        health == IF s.kind = "board" THEN view.health ELSE 0
        Fits(r) == Cost(r) + health <= s.allowed
    IN \E remains \in {Remains(s.kind, lines)} :
         /\ s.kept \in remains
         /\ Fits(s.kept) => \A r \in remains : Fits(r) => Len(r) <= Len(s.kept)
         /\ ~Fits(s.kept) => \A r \in remains : Len(s.kept) <= Len(r) /\ ~Fits(r)

(* What the sections at the places in S used. *)
UsedBy(sections, S) ==
  Iterate(LAMBDA n, j : IF j \in S THEN n + sections[j].used ELSE n,
           0, [j \in DOMAIN sections |-> j])

(* Priorities protect: what the sections of higher priority used, and only  *)
(* that, is missing from a section's allowance.                             *)
AllowanceIsWhatIsLeft ==
  \A i \in DOMAIN prompt :
    LET policy == Policy(role)
        ahead == {j \in DOMAIN prompt : policy[j].priority < policy[i].priority}
        used == UsedBy(prompt, ahead)
        left == IF pool = NoPool \/ used >= pool THEN 0 ELSE pool - used
    IN prompt[i].allowed = IF pool = NoPool THEN policy[i].budget
                           ELSE Lesser(policy[i].budget, left)

(* What leaves the mailbox is what the prompt shows of it: the lines drained *)
(* and those still queued are, in order, the ones that came, and a prompt's  *)
(* messages are the last ones drained.                                       *)
MailIsShown ==
  /\ queued = delivered \o mailbox
  /\ role = "meta" => delivered = <<>>
  /\ \A i \in DOMAIN prompt :
       LET kept == prompt[i].kept
           rest == Len(delivered) - Len(kept)
       IN prompt[i].kind = "messages" =>
            /\ Len(kept) <= Len(delivered)
            /\ kept = SubSeq(delivered, rest + 1, Len(delivered))

(* However small the budget and whatever else competes for it, the mailbox *)
(* of a role that receives messages is delivered, in order and in full.    *)
CarryoverDelivers == role # "meta" ~> delivered = queued
=============================================================================
