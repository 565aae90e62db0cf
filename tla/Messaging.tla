------------------------------ MODULE Messaging ------------------------------
(* Messages and the knowledge store on the runtime's serial write path: one *)
(* action per handler of runtime.rs that writes either, each run under the  *)
(* write-path mutex, which it keeps across the embedding call; the team     *)
(* verbs as far as routing depends on them; and the drain at the start of a *)
(* turn.  Bodies, embeddings and search rankings are left out.              *)
EXTENDS Naturals, Sequences, FiniteSets, SequencesExt

CONSTANTS Agent,         \* the team agents
          Orchestrator,
          Team,
          Sender,        \* the endpoints whose verbs are tried
          MemberList,    \* the member lists the team verbs are tried with
          MaxMessage, MaxNote, MaxEvent   \* bounds: messages, other entries, events

Endpoint == Agent \cup {Orchestrator}

ASSUME MessagingConstants ==
  /\ Orchestrator \notin Agent /\ IsFiniteSet(Agent)
  /\ Sender \subseteq Endpoint /\ MemberList \subseteq Seq(Agent)
  /\ {MaxMessage, MaxNote, MaxEvent} \subseteq Nat

VARIABLES
  team,         \* Board.teams: phase and members (a Vec: it may repeat one)
  store,        \* InMemoryVectorStore: its entries, the id is the position
  nextMessage,  \* World.next_message
  messages,     \* World.messages: the accepted ones, by id
  mailbox,      \* Mailboxes: per endpoint the undelivered ids, oldest first
  log           \* World.events, of these handlers; the id is the position

msgVars == <<team, store, nextMessage, messages, mailbox, log>>

Direct(to) == [form |-> "direct", to |-> to]
ToTeam(t) == [form |-> "team", to |-> t]
Broadcast == [form |-> "broadcast", to |-> "all"]
Address == {Direct(r) : r \in Endpoint} \cup {ToTeam(t) : t \in Team} \cup {Broadcast}

Kinds == {"message", "note", "completion"}

(* What comes of an embedding call: the floats, or an error (the transport, *)
(* an empty answer, floats that do not decode).                             *)
Embedding == BOOLEAN

Init ==
  /\ team = [t \in Team |-> [phase |-> "none", members |-> <<>>]]
  /\ store = <<>> /\ nextMessage = 1 /\ messages = <<>>
  /\ mailbox = [r \in Endpoint |-> <<>>]
  /\ log = <<>>

(* A Vec of recipients says how often it lists each; a mailbox does not see *)
(* in which order.  For a team, members is its Vec, which may repeat one.   *)
Times(list, r) == Cardinality({i \in DOMAIN list : list[i] = r})

Addressed(address, members, r) ==
  CASE address.form = "direct" -> IF r = address.to THEN 1 ELSE 0
    [] address.form = "team"   -> Times(members, r)
    [] OTHER -> 1

Routed(sender, address, members) ==
  [r \in Endpoint |-> IF r = sender THEN 0 ELSE Addressed(address, members, r)]

(* Mutant: the sender of a team message is not taken out. *)
RecipientsWithSender(sender, address) ==
  [r \in Endpoint |->
     IF r = sender /\ address.form = "broadcast" THEN 0
     ELSE Addressed(address, team[address.to].members, r)]

(* recipients_for: membership as it is now, the sender left out of every form. *)
RecipientsFor(sender, address) == Routed(sender, address, team[address.to].members)

(* push_for_recipients: one copy per occurrence in the list. *)
Copies(id, times) == [i \in 1 .. times |-> id]
Pushed(recipients, id) ==
  [r \in Endpoint |-> mailbox[r] \o Copies(id, recipients[r])]

(* planned_event is the id the next append mints. *)
PlannedEvent == Len(log) + 1
Append1(event) == log' = Append(log, event)
Room == Len(log) < MaxEvent
RoomForNote == Room /\ Len(SelectSeq(store, LAMBDA e : e.kind # "message")) < MaxNote

(* VectorStore::insert mints the entry id only after the embedding. *)
Insert(author, kind) ==
  store' = Append(store, [author |-> author, event |-> PlannedEvent, kind |-> kind])
Entry == Len(store) + 1

----------------------------------------------------------------------------
(* The verbs: search_knowledge reads only, and has no action.              *)

(* Mutant: the message id is taken before the embedding that may fail. *)
PostEarlyId(sender, address, embedded) ==
  /\ Room /\ nextMessage <= MaxMessage
  /\ address.form = "team" => team[address.to].phase = "live"
  /\ nextMessage' = nextMessage + 1
  /\ IF embedded
     THEN /\ Insert(sender, "message")
          /\ messages' = Append(messages, [id |-> nextMessage, sender |-> sender,
                                           address |-> address, ref |-> Entry])
          /\ Append1([kind |-> "message_sent", source |-> sender,
                      message |-> nextMessage, address |-> address, ref |-> Entry])
          /\ mailbox' = Pushed(RecipientsFor(sender, address), nextMessage)
     ELSE UNCHANGED <<store, messages, mailbox, log>>
  /\ UNCHANGED team

(* post_message: a dissolved or unknown team is refused; a failed embedding *)
(* rejects the call with nothing changed.                                   *)
HandlePostMessage(sender, address, embedded) ==
  /\ Room /\ nextMessage <= MaxMessage
  /\ address.form = "team" => team[address.to].phase = "live"
  /\ IF embedded
     THEN /\ Insert(sender, "message")
          /\ nextMessage' = nextMessage + 1
          /\ messages' = Append(messages, [id |-> nextMessage, sender |-> sender,
                                           address |-> address, ref |-> Entry])
          /\ Append1([kind |-> "message_sent", source |-> sender,
                      message |-> nextMessage, address |-> address, ref |-> Entry])
          /\ mailbox' = Pushed(RecipientsFor(sender, address), nextMessage)
     ELSE UNCHANGED <<store, nextMessage, messages, mailbox, log>>
  /\ UNCHANGED team

(* write_knowledge *)
HandleWriteKnowledge(author) ==
  /\ RoomForNote
  /\ Insert(author, "note")
  /\ Append1([kind |-> "knowledge_written", source |-> author, ref |-> Entry])
  /\ UNCHANGED <<team, nextMessage, messages, mailbox>>

(* complete_task by an agent that holds a claim (checked before the ingest, *)
(* and the mutex is held until the board is told).                          *)
HandleComplete(agent) ==
  /\ RoomForNote
  /\ Insert(agent, "completion")
  /\ Append1([kind |-> "task_completed", source |-> agent, ref |-> Entry])
  /\ UNCHANGED <<team, nextMessage, messages, mailbox>>

(* The team verbs of the orchestrator. *)
HandleFormTeam(t, members) ==
  /\ Room /\ team[t].phase = "none"
  /\ team' = [team EXCEPT ![t] = [phase |-> "live", members |-> members]]
  /\ Append1([kind |-> "team_formed", source |-> Orchestrator,
              team |-> t, members |-> members])
  /\ UNCHANGED <<store, nextMessage, messages, mailbox>>

HandleSetTeamMembers(t, members) ==
  /\ Room /\ team[t].phase = "live"
  /\ team' = [team EXCEPT ![t].members = members]
  /\ Append1([kind |-> "team_members_set", source |-> Orchestrator,
              team |-> t, members |-> members])
  /\ UNCHANGED <<store, nextMessage, messages, mailbox>>

(* Whether the team still has tasks, which refuses it, is not modelled here. *)
HandleDissolveTeam(t) ==
  /\ Room /\ team[t].phase = "live"
  /\ team' = [team EXCEPT ![t].phase = "dissolved"]
  /\ Append1([kind |-> "team_dissolved", source |-> Orchestrator, team |-> t])
  /\ UNCHANGED <<store, nextMessage, messages, mailbox>>

(* Mutant: what did not fit the prompt is dropped instead of carried over. *)
AssembleDropsRest(r, n) ==
  /\ Room /\ n \in 1 .. Len(mailbox[r])
  /\ mailbox' = [mailbox EXCEPT ![r] = <<>>]
  /\ Append1([kind |-> "messages_delivered", source |-> r,
              delivered |-> SubSeq(mailbox[r], 1, n)])
  /\ UNCHANGED <<team, store, nextMessage, messages>>

(* The start of r's turn: the assembled prompt shows the n oldest, how many *)
(* fit its budget (at least one), and they leave the mailbox.               *)
AssembleTurn(r, n) ==
  /\ Room /\ n \in 1 .. Len(mailbox[r])
  /\ mailbox' = [mailbox EXCEPT ![r] = SubSeq(@, n + 1, Len(@))]
  /\ Append1([kind |-> "messages_delivered", source |-> r,
              delivered |-> SubSeq(mailbox[r], 1, n)])
  /\ UNCHANGED <<team, store, nextMessage, messages>>

Next ==
  \/ \E s \in Sender, address \in Address, ok \in Embedding :
       HandlePostMessage(s, address, ok)
  \/ \E s \in Sender : HandleWriteKnowledge(s)
  \/ \E a \in Sender \cap Agent : HandleComplete(a)
  \/ \E t \in Team, m \in MemberList : HandleFormTeam(t, m) \/ HandleSetTeamMembers(t, m)
  \/ \E t \in Team : HandleDissolveTeam(t)
  \/ \E r \in Endpoint : \E n \in 1 .. MaxMessage * 2 : AssembleTurn(r, n)

Spec == Init /\ [][Next]_msgVars

----------------------------------------------------------------------------
(* The three counters of one write-path step stay in step (ADR 0011, 0014): *)
(* every entry names the event that caused it, which names it back and is   *)
(* of its kind; every message id is that of one message, one event and one  *)
(* entry; and no counter has a gap.                                         *)
Causes == [message_sent |-> "message", knowledge_written |-> "note",
           task_completed |-> "completion"]

CrossReferenced ==
  /\ \A e \in DOMAIN store :
       LET event == log[store[e].event]
       IN /\ store[e].event \in DOMAIN log
          /\ event.kind \in DOMAIN Causes /\ Causes[event.kind] = store[e].kind
          /\ event.ref = e /\ event.source = store[e].author
  /\ \A i \in DOMAIN log :
       log[i].kind \in DOMAIN Causes =>
         log[i].ref \in DOMAIN store /\ store[log[i].ref].event = i
  /\ nextMessage = Len(messages) + 1
  /\ \A m \in DOMAIN messages :
       LET event == log[store[messages[m].ref].event]
       IN /\ messages[m].id = m /\ event.kind = "message_sent"
          /\ event.message = m /\ event.address = messages[m].address
          /\ event.source = messages[m].sender

(* What the log alone tells of the traffic. *)
Sent == {i \in DOMAIN log : log[i].kind = "message_sent"}

(* The position in the log of the n-th message_sent. *)
SentAt(n) == CHOOSE i \in Sent : log[i].message = n

(* The members of t at event i are those of the last event that named them. *)
Names(j, t) == log[j].kind \in {"team_formed", "team_members_set"} /\ log[j].team = t
MembersAt(t, i) ==
  LET last == CHOOSE j \in 1 .. i - 1 :
                Names(j, t) /\ \A k \in j + 1 .. i - 1 : ~Names(k, t)
  IN log[last].members

Audience(n) ==
  LET i == SentAt(n)
  IN Routed(log[i].source, log[i].address, MembersAt(log[i].address.to, i))

Delivered(r) ==
  FlattenSeq([i \in DOMAIN log |->
    IF log[i].kind = "messages_delivered" /\ log[i].source = r
    THEN log[i].delivered ELSE <<>>])

(* Read off the log, the traffic is that of a PostOffice: total order at    *)
(* acceptance, membership as of then, every recipient served in that order  *)
(* and nothing lost.                                                        *)
Office == INSTANCE PostOffice WITH
  accepted <- [n \in 1 .. Cardinality(Sent) |-> Audience(n)],
  received <- [r \in Endpoint |-> Delivered(r)]

ImplementsPostOffice == Office!OfficeSpec

(* And what an endpoint is still owed is exactly what its mailbox holds.   *)
MailboxIsOwed ==
  \A r \in Endpoint : Office!Owed(r) = Delivered(r) \o mailbox[r]
=============================================================================
