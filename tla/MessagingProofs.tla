--------------------------- MODULE MessagingProofs ---------------------------
(***************************************************************************)
(* Machine-checked proofs about Messaging and the metrics fold over it:    *)
(* the three counters of a write-path step stay in step, the traffic is    *)
(* that of a post office which loses nothing, and the reported volumes are *)
(* those of the store and the mailboxes it recomputes the real ones, for   *)
(* any agents, teams, member lists and bounds, and whichever embedding     *)
(* calls fail.                                                             *)
(***************************************************************************)
EXTENDS Ledger, Induction, FiniteSetTheorems, SequenceTheorems, TLAPS

Entries == [author : Endpoint, event : Nat, kind : Kinds]
Message == [id : Nat, sender : Endpoint, address : Address, ref : Nat]

LogIsSequence == \E S : log \in Seq(S)

(* The three records as far as the references between them depend on it.   *)
Recorded ==
  /\ store \in Seq(Entries)
  /\ LogIsSequence
  /\ messages \in Seq(Message)
  /\ nextMessage \in Nat

(* Without it the last part of CrossReferenced would read past the store.  *)
MessagesStored == \A m \in DOMAIN messages : messages[m].ref \in DOMAIN store

LedgerInv == Recorded /\ MessagesStored /\ CrossReferenced

LEMMA InitLedgerInv == Init => LedgerInv
<1> SUFFICES ASSUME Init PROVE LedgerInv
  OBVIOUS
<1>1. store = <<>> /\ log = <<>> /\ messages = <<>> /\ nextMessage = 1
  BY DEF Init
<1>2. Recorded
  <2>1. log \in Seq({})
    BY <1>1
  <2> QED
    BY <1>1, <2>1 DEF Recorded, LogIsSequence
<1> QED
  BY <1>1, <1>2 DEF LedgerInv, MessagesStored, CrossReferenced

LEMMA AppendTo ==
  ASSUME NEW S, NEW s \in Seq(S), NEW x
  PROVE  /\ DOMAIN s = 1..Len(s) /\ Len(s) \in Nat
         /\ Len(Append(s, x)) = Len(s) + 1
         /\ DOMAIN Append(s, x) = 1..Len(s) + 1
         /\ \A i \in 1..Len(s) : Append(s, x)[i] = s[i]
         /\ Append(s, x)[Len(s) + 1] = x
         /\ \E R : Append(s, x) \in Seq(R)
<1>1. s \in Seq(S \cup {x})
  OBVIOUS
<1> QED
  BY <1>1

(* The parts of CrossReferenced, each about one element.                   *)
EntryNamed(e) ==
  /\ store[e].event \in DOMAIN log
  /\ log[store[e].event].kind \in DOMAIN Causes
  /\ Causes[log[store[e].event].kind] = store[e].kind
  /\ log[store[e].event].ref = e
  /\ log[store[e].event].source = store[e].author

EventNamed(i) ==
  log[i].kind \in DOMAIN Causes =>
    log[i].ref \in DOMAIN store /\ store[log[i].ref].event = i

MessageNamed(m) ==
  LET i == store[messages[m].ref].event
  IN /\ messages[m].id = m /\ log[i].kind = "message_sent"
     /\ log[i].message = m /\ log[i].address = messages[m].address
     /\ log[i].source = messages[m].sender

LEMMA Parts ==
  CrossReferenced <=> /\ \A e \in DOMAIN store : EntryNamed(e)
                      /\ \A i \in DOMAIN log : EventNamed(i)
                      /\ nextMessage = Len(messages) + 1
                      /\ \A m \in DOMAIN messages : MessageNamed(m)
BY DEF CrossReferenced, EntryNamed, EventNamed, MessageNamed

LEMMA PartsNext ==
  CrossReferenced' <=> /\ \A e \in DOMAIN store' : EntryNamed(e)'
                       /\ \A i \in DOMAIN log' : EventNamed(i)'
                       /\ nextMessage' = Len(messages') + 1
                       /\ \A m \in DOMAIN messages' : MessageNamed(m)'
BY DEF CrossReferenced, EntryNamed, EventNamed, MessageNamed

(* An event that refers to no entry.                                       *)
LEMMA PlainEvent ==
  ASSUME LedgerInv, NEW event, Append1(event), event.kind \notin DOMAIN Causes,
         UNCHANGED <<store, messages, nextMessage>>
  PROVE  LedgerInv'
<1> USE DEF LedgerInv
<1>0. PICK S : log \in Seq(S)
  BY DEF Recorded, LogIsSequence
<1>1. /\ DOMAIN log = 1..Len(log) /\ Len(log) \in Nat
      /\ DOMAIN log' = 1..Len(log) + 1
      /\ \A i \in 1..Len(log) : log'[i] = log[i]
      /\ log'[Len(log) + 1] = event /\ LogIsSequence'
  <2>1. log' = Append(log, event)
    BY DEF Append1
  <2>2. log' \in Seq(S \cup {event})
    BY <1>0, <2>1
  <2> QED
    BY <1>0, <2>1, <2>2 DEF LogIsSequence
<1>2. Recorded' /\ MessagesStored'
  BY <1>1 DEF Recorded, MessagesStored
<1>3. ASSUME NEW e \in DOMAIN store PROVE EntryNamed(e)'
  BY <1>1, Parts DEF EntryNamed
<1>4. ASSUME NEW i \in DOMAIN log' PROVE EventNamed(i)'
  BY <1>1, Parts DEF EventNamed
<1>5. ASSUME NEW m \in DOMAIN messages PROVE MessageNamed(m)'
  BY <1>1, Parts DEF MessagesStored, EntryNamed, MessageNamed
<1>6. nextMessage' = Len(messages') + 1
  BY Parts
<1> QED
  BY <1>2, <1>3, <1>4, <1>5, <1>6, PartsNext

(* One step of the write path: an entry and the event that refers to it.   *)
LEMMA Ingested ==
  ASSUME LedgerInv, NEW entry \in Entries, NEW event,
         store' = Append(store, entry), Append1(event),
         entry.event = Len(log) + 1, event.ref = Len(store) + 1,
         event.kind \in DOMAIN Causes, Causes[event.kind] = entry.kind,
         event.source = entry.author
  PROVE  /\ store' \in Seq(Entries) /\ LogIsSequence'
         /\ \A e \in DOMAIN store' : EntryNamed(e)'
         /\ \A i \in DOMAIN log' : EventNamed(i)'
         /\ \A m \in DOMAIN messages : MessageNamed(m) =>
              /\ messages[m].ref \in DOMAIN store'
              /\ store'[messages[m].ref] = store[messages[m].ref]
              /\ log'[store[messages[m].ref].event] = log[store[messages[m].ref].event]
         /\ store'[Len(store) + 1] = entry /\ Len(store) + 1 \in DOMAIN store'
         /\ log'[Len(log) + 1] = event
<1> USE DEF LedgerInv
<1>0. PICK S : log \in Seq(S)
  BY DEF Recorded, LogIsSequence
<1>1. /\ DOMAIN log = 1..Len(log) /\ Len(log) \in Nat
      /\ DOMAIN log' = 1..Len(log) + 1
      /\ \A i \in 1..Len(log) : log'[i] = log[i]
      /\ log'[Len(log) + 1] = event /\ LogIsSequence'
  <2>1. log' = Append(log, event)
    BY DEF Append1
  <2>2. log' \in Seq(S \cup {event})
    BY <1>0, <2>1
  <2> QED
    BY <1>0, <2>1, <2>2 DEF LogIsSequence
<1>2. /\ DOMAIN store = 1..Len(store) /\ Len(store) \in Nat
      /\ DOMAIN store' = 1..Len(store) + 1
      /\ \A e \in 1..Len(store) : store'[e] = store[e]
      /\ store'[Len(store) + 1] = entry
      /\ store' \in Seq(Entries)
  BY AppendTo DEF Recorded
<1>3. ASSUME NEW e \in DOMAIN store' PROVE EntryNamed(e)'
  <2>1. CASE e = Len(store) + 1
    <3>1. store'[e] = entry /\ log'[entry.event] = event /\ entry.event \in DOMAIN log'
      BY <1>1, <1>2, <2>1
    <3> QED
      BY <2>1, <3>1 DEF EntryNamed, Causes
  <2>2. CASE e # Len(store) + 1
    <3>1. e \in DOMAIN store /\ EntryNamed(e) /\ store'[e] = store[e]
      BY <1>2, <2>2, Parts
    <3>2. store[e].event \in DOMAIN log'
          /\ log'[store[e].event] = log[store[e].event]
      BY <1>1, <3>1 DEF EntryNamed
    <3> QED
      BY <3>1, <3>2 DEF EntryNamed, Causes
  <2> QED
    BY <2>1, <2>2
<1>4. ASSUME NEW i \in DOMAIN log' PROVE EventNamed(i)'
  <2>1. CASE i = Len(log) + 1
    BY <1>1, <1>2, <2>1 DEF EventNamed, Causes
  <2>2. CASE i # Len(log) + 1
    <3>1. i \in DOMAIN log /\ EventNamed(i) /\ log'[i] = log[i]
      BY <1>1, <2>2, Parts
    <3> QED
      BY <1>2, <3>1 DEF EventNamed, Causes
  <2> QED
    BY <2>1, <2>2
<1>5. ASSUME NEW m \in DOMAIN messages
      PROVE  /\ messages[m].ref \in DOMAIN store'
             /\ store'[messages[m].ref] = store[messages[m].ref]
             /\ log'[store[messages[m].ref].event] = log[store[messages[m].ref].event]
  <2>1. messages[m].ref \in DOMAIN store /\ EntryNamed(messages[m].ref)
    BY <1>5, Parts DEF MessagesStored
  <2> QED
    BY <1>1, <1>2, <2>1 DEF EntryNamed
<1> QED
  BY <1>1, <1>2, <1>3, <1>4, <1>5

(* A note or a completion: no message refers to its entry.                 *)
LEMMA NoteKeeps ==
  ASSUME LedgerInv, NEW author \in Endpoint, NEW kind, NEW event,
         Insert(author, kind), Append1(event), event.ref = Entry,
         event.kind \in {"knowledge_written", "task_completed"},
         Causes[event.kind] = kind, event.source = author,
         UNCHANGED <<messages, nextMessage>>
  PROVE  LedgerInv'
<1> DEFINE entry == [author |-> author, event |-> PlannedEvent, kind |-> kind]
<1>1. /\ Len(log) \in Nat /\ event.kind \in DOMAIN Causes /\ kind \in Kinds
  BY DEF LedgerInv, Recorded, Causes, Kinds
<1>2. /\ entry \in Entries /\ entry.event = Len(log) + 1
      /\ entry.kind = kind /\ entry.author = author
      /\ store' = Append(store, entry) /\ event.ref = Len(store) + 1
  BY <1>1 DEF Entries, PlannedEvent, Insert, Entry
<1> HIDE DEF entry
<1>3. /\ store' \in Seq(Entries) /\ LogIsSequence'
      /\ \A e \in DOMAIN store' : EntryNamed(e)'
      /\ \A i \in DOMAIN log' : EventNamed(i)'
      /\ \A m \in DOMAIN messages : MessageNamed(m) =>
           /\ messages[m].ref \in DOMAIN store'
           /\ store'[messages[m].ref] = store[messages[m].ref]
           /\ log'[store[messages[m].ref].event] = log[store[messages[m].ref].event]
  BY <1>1, <1>2, Ingested
<1>4. Recorded' /\ MessagesStored'
  BY <1>3, Parts DEF LedgerInv, Recorded, MessagesStored
<1>5. \A m \in DOMAIN messages' : MessageNamed(m)'
  BY <1>3, Parts DEF LedgerInv, MessageNamed
<1>6. nextMessage' = Len(messages') + 1
  BY Parts DEF LedgerInv
<1> QED
  BY <1>3, <1>4, <1>5, <1>6, PartsNext DEF LedgerInv

LEMMA LedgerSame ==
  ASSUME LedgerInv, UNCHANGED <<store, messages, nextMessage, log>> PROVE LedgerInv'
BY DEF LedgerInv, Recorded, LogIsSequence, MessagesStored, CrossReferenced

LEMMA PostKeeps ==
  ASSUME LedgerInv, NEW sender \in Endpoint, NEW address \in Address,
         NEW ok \in Embedding, HandlePostMessage(sender, address, ok)
  PROVE  LedgerInv'
<1> DEFINE entry == [author |-> sender, event |-> PlannedEvent, kind |-> "message"]
           event == [kind |-> "message_sent", source |-> sender,
                     message |-> nextMessage, address |-> address, ref |-> Entry]
           msg == [id |-> nextMessage, sender |-> sender, address |-> address,
                   ref |-> Entry]
<1>1. CASE ok
  <2>1. /\ store' = Append(store, entry) /\ Append1(event)
        /\ messages' = Append(messages, msg) /\ nextMessage' = nextMessage + 1
    BY <1>1 DEF HandlePostMessage, Insert
  <2>2. /\ Len(log) \in Nat /\ Len(store) \in Nat /\ nextMessage \in Nat
        /\ messages \in Seq(Message) /\ nextMessage = Len(messages) + 1
    BY Parts DEF LedgerInv, Recorded, LogIsSequence
  <2>3. /\ entry \in Entries /\ entry.event = Len(log) + 1
        /\ entry.kind = "message" /\ entry.author = sender
    BY <2>2 DEF Entries, PlannedEvent, Kinds
  <2>4. /\ event.kind = "message_sent" /\ event.source = sender
        /\ event.message = nextMessage /\ event.address = address
        /\ event.ref = Len(store) + 1
    BY DEF Entry
  <2>5. /\ msg \in Message /\ msg.id = nextMessage /\ msg.sender = sender
        /\ msg.address = address /\ msg.ref = Len(store) + 1
    BY <2>2 DEF Message, Entry
  <2> HIDE DEF entry, event, msg
  <2>6. /\ event.kind \in DOMAIN Causes /\ Causes[event.kind] = entry.kind
    BY <2>3, <2>4 DEF Causes
  <2>7. /\ store' \in Seq(Entries) /\ LogIsSequence'
        /\ \A e \in DOMAIN store' : EntryNamed(e)'
        /\ \A i \in DOMAIN log' : EventNamed(i)'
        /\ \A m \in DOMAIN messages : MessageNamed(m) =>
             /\ messages[m].ref \in DOMAIN store'
             /\ store'[messages[m].ref] = store[messages[m].ref]
             /\ log'[store[messages[m].ref].event] = log[store[messages[m].ref].event]
        /\ store'[Len(store) + 1] = entry /\ Len(store) + 1 \in DOMAIN store'
        /\ log'[Len(log) + 1] = event
    BY <2>1, <2>3, <2>4, <2>6, Ingested
  <2>8. /\ DOMAIN messages' = 1..Len(messages) + 1 /\ DOMAIN messages = 1..Len(messages)
        /\ \A m \in 1..Len(messages) : messages'[m] = messages[m]
        /\ messages'[Len(messages) + 1] = msg /\ messages' \in Seq(Message)
        /\ Len(messages') = Len(messages) + 1 /\ Len(messages) \in Nat
    BY <2>1, <2>2, <2>5
  <2>9. ASSUME NEW m \in DOMAIN messages'
        PROVE  MessageNamed(m)' /\ messages'[m].ref \in DOMAIN store'
    <3>1. CASE m = Len(messages) + 1
      BY <2>2, <2>3, <2>4, <2>5, <2>7, <2>8, <3>1 DEF MessageNamed
    <3>2. CASE m # Len(messages) + 1
      <4>1. m \in DOMAIN messages /\ MessageNamed(m) /\ messages'[m] = messages[m]
        BY <2>8, <3>2, Parts DEF LedgerInv
      <4> QED
        BY <2>7, <4>1 DEF MessageNamed
    <3> QED
      BY <3>1, <3>2
  <2>10. nextMessage' = Len(messages') + 1 /\ nextMessage' \in Nat
    BY <2>1, <2>2, <2>8
  <2>11. Recorded' /\ MessagesStored'
    BY <2>7, <2>8, <2>9, <2>10 DEF Recorded, MessagesStored
  <2> QED
    BY <2>7, <2>9, <2>10, <2>11, PartsNext DEF LedgerInv
<1>2. CASE ~ok
  BY <1>2, LedgerSame DEF HandlePostMessage
<1> QED
  BY <1>1, <1>2

LEMMA LedgerStep == LedgerInv /\ [Next]_msgVars => LedgerInv'
<1> SUFFICES ASSUME LedgerInv, [Next]_msgVars PROVE LedgerInv'
  OBVIOUS
<1>1. ASSUME NEW s \in Sender, NEW address \in Address, NEW ok \in Embedding,
             HandlePostMessage(s, address, ok)
      PROVE  LedgerInv'
  BY <1>1, PostKeeps, MessagingConstants DEF MessagingConstants
<1>2. ASSUME NEW s \in Sender, HandleWriteKnowledge(s) PROVE LedgerInv'
  <2> DEFINE event == [kind |-> "knowledge_written", source |-> s, ref |-> Entry]
  <2>1. /\ s \in Endpoint /\ Insert(s, "note") /\ Append1(event)
        /\ UNCHANGED <<messages, nextMessage>>
    BY <1>2, MessagingConstants DEF MessagingConstants, HandleWriteKnowledge
  <2>2. /\ event.ref = Entry /\ event.source = s /\ event.kind = "knowledge_written"
        /\ Causes[event.kind] = "note"
    BY DEF Causes
  <2> HIDE DEF event
  <2> QED
    BY <2>1, <2>2, NoteKeeps
<1>3. ASSUME NEW a \in Sender \cap Agent, HandleComplete(a) PROVE LedgerInv'
  <2> DEFINE event == [kind |-> "task_completed", source |-> a, ref |-> Entry]
  <2>1. /\ a \in Endpoint /\ Insert(a, "completion") /\ Append1(event)
        /\ UNCHANGED <<messages, nextMessage>>
    BY <1>3, MessagingConstants DEF MessagingConstants, HandleComplete
  <2>2. /\ event.ref = Entry /\ event.source = a /\ event.kind = "task_completed"
        /\ Causes[event.kind] = "completion"
    BY DEF Causes
  <2> HIDE DEF event
  <2> QED
    BY <2>1, <2>2, NoteKeeps
<1>4. ASSUME NEW event, Append1(event), event.kind \notin DOMAIN Causes,
             UNCHANGED <<store, messages, nextMessage>>
      PROVE  LedgerInv'
  BY <1>4, PlainEvent
<1>5. ASSUME NEW t \in Team, NEW m \in MemberList,
             HandleFormTeam(t, m) \/ HandleSetTeamMembers(t, m)
      PROVE  LedgerInv'
  BY <1>4, <1>5 DEF HandleFormTeam, HandleSetTeamMembers, Causes
<1>6. ASSUME NEW t \in Team, HandleDissolveTeam(t) PROVE LedgerInv'
  BY <1>4, <1>6 DEF HandleDissolveTeam, Causes
<1>7. ASSUME NEW r \in Endpoint, NEW n, AssembleTurn(r, n) PROVE LedgerInv'
  BY <1>4, <1>7 DEF AssembleTurn, Causes
<1>8. CASE UNCHANGED msgVars
  BY <1>8, LedgerSame DEF msgVars
<1> QED
  BY <1>1, <1>2, <1>3, <1>5, <1>6, <1>7, <1>8 DEF Next

(* Entry, event and message ids refer to each other as ADR 0011 and 0014   *)
(* say, whichever embedding calls fail in between (runtime.rs plans the    *)
(* event id before the store mints the entry).                             *)
THEOREM IdsInStep == Spec => []CrossReferenced
<1>1. Init => LedgerInv
  BY InitLedgerInv
<1>2. LedgerInv /\ [Next]_msgVars => LedgerInv'
  BY LedgerStep
<1>3. LedgerInv => CrossReferenced
  BY DEF LedgerInv
<1> QED
  BY <1>1, <1>2, <1>3, PTL DEF Spec

(* And so they do beside the fold, which only watches.                     *)
THEOREM IdsInStepFolded == LSpec => []CrossReferenced
<1>1. LInit => Init
  BY DEF LInit
<1>2. [LNext]_ledgerVars => [Next]_msgVars
  BY DEF LNext, ledgerVars
<1> QED
  BY <1>1, <1>2, IdsInStep, PTL DEF Spec, LSpec

----------------------------------------------------------------------------
(* Messaging implements a PostOffice.                                       *)

Naming(event, t) ==
  event.kind \in {"team_formed", "team_members_set"} /\ event.team = t

(* Event j is the last before i that named the members of t.               *)
NamedLast(j, t, i) ==
  j \in 1 .. i - 1 /\ Naming(log[j], t)
  /\ \A k \in j + 1 .. i - 1 : ~Naming(log[k], t)

TeamType == [Team -> [phase : {"none", "live", "dissolved"}, members : Seq(Agent)]]

Held ==
  /\ mailbox \in [Endpoint -> Seq(Nat)]
  /\ team \in TeamType
  /\ \A i \in DOMAIN log : log[i].kind = "messages_delivered" =>
       log[i].delivered \in Seq(Nat)

(* The message_sent events are the messages, each sent once.               *)
Numbered ==
  /\ \A i \in Sent : /\ log[i].message \in 1 .. Len(messages)
                      /\ log[i].source \in Endpoint /\ log[i].address \in Address
  /\ \A n \in 1 .. Len(messages) : \E i \in Sent : log[i].message = n
  /\ \A i, j \in Sent : log[i].message = log[j].message => i = j
  /\ IsFiniteSet(Sent) /\ Cardinality(Sent) = Len(messages)

(* The log tells the members of every team that has been formed, and has   *)
(* told them of a team a message went to.                                  *)
TeamsKnown ==
  \A t \in Team : team[t].phase # "none" =>
    \E j : NamedLast(j, t, Len(log) + 1) /\ log[j].members = team[t].members

AudiencesKnown ==
  /\ \A i \in Sent : log[i].address.form = "team" =>
       \E j : NamedLast(j, log[i].address.to, i)
  /\ \A n \in 1 .. Len(messages) : Audience(n) \in [Endpoint -> Nat]

TrafficInv ==
  LedgerInv /\ Held /\ Numbered /\ TeamsKnown /\ AudiencesKnown /\ MailboxIsOwed

(* What an append leaves of the log.                                       *)
Grown(event) ==
  /\ Len(log) \in Nat /\ DOMAIN log = 1 .. Len(log)
  /\ Len(log') = Len(log) + 1 /\ DOMAIN log' = 1 .. Len(log) + 1
  /\ \A i \in 1 .. Len(log) : log'[i] = log[i]
  /\ log'[Len(log) + 1] = event

LEMMA LogGrows ==
  ASSUME LedgerInv, NEW event, Append1(event)
  PROVE  Grown(event)
<1>0. PICK S : log \in Seq(S)
  BY DEF LedgerInv, Recorded, LogIsSequence
<1>1. log' = Append(log, event)
  BY DEF Append1
<1> QED
  BY <1>0, <1>1, AppendTo DEF Grown

(* The two choices of the log's reading are determined.                    *)
LEMMA MembersAtIs ==
  ASSUME NEW t, NEW i \in Nat, NEW j, NamedLast(j, t, i)
  PROVE  MembersAt(t, i) = log[j].members
<1> DEFINE Is(k) == Naming(log[k], t) /\ \A l \in k + 1 .. i - 1 : ~Naming(log[l], t)
           last == CHOOSE k \in 1 .. i - 1 : Is(k)
<1>1. j \in 1 .. i - 1 /\ Is(j)
  BY DEF NamedLast
<1>2. last \in 1 .. i - 1 /\ Is(last)
  <2> HIDE DEF Is
  <2> QED
    BY <1>1, Zenon
<1>3. MembersAt(t, i) = log[last].members
  BY DEF MembersAt, Names, Naming
<1> HIDE DEF last
<1>4. last = j
  <2>1. last < j => j \in last + 1 .. i - 1
    BY <1>1, <1>2
  <2>2. j < last => last \in j + 1 .. i - 1
    BY <1>1, <1>2
  <2>3. j \in Nat /\ last \in Nat
    BY <1>1, <1>2
  <2> HIDE DEF NamedLast
  <2>4. ~(last < j) /\ ~(j < last)
    BY <1>1, <1>2, <2>1, <2>2
  <2> QED
    BY <2>3, <2>4
<1> QED
  BY <1>3, <1>4

LEMMA MembersAtIsNext ==
  ASSUME NEW t, NEW i \in Nat, NEW j, NamedLast(j, t, i)'
  PROVE  MembersAt(t, i)' = log'[j].members
<1> DEFINE Is(k) == Naming(log'[k], t) /\ \A l \in k + 1 .. i - 1 : ~Naming(log'[l], t)
           last == CHOOSE k \in 1 .. i - 1 : Is(k)
<1>1. j \in 1 .. i - 1 /\ Is(j)
  BY DEF NamedLast
<1>2. last \in 1 .. i - 1 /\ Is(last)
  <2> HIDE DEF Is
  <2> QED
    BY <1>1, Zenon
<1>3. MembersAt(t, i)' = log'[last].members
  BY DEF MembersAt, Names, Naming
<1> HIDE DEF last
<1>4. last = j
  <2>1. last < j => j \in last + 1 .. i - 1
    BY <1>1, <1>2
  <2>2. j < last => last \in j + 1 .. i - 1
    BY <1>1, <1>2
  <2>3. j \in Nat /\ last \in Nat
    BY <1>1, <1>2
  <2>4. ~(last < j) /\ ~(j < last)
    BY <1>1, <1>2, <2>1, <2>2
  <2> QED
    BY <2>3, <2>4
<1> QED
  BY <1>3, <1>4

LEMMA SentAtIs ==
  ASSUME Numbered, NEW i \in Sent, NEW n, log[i].message = n
  PROVE  SentAt(n) = i
<1> DEFINE at == CHOOSE j \in Sent : log[j].message = n
<1>1. at \in Sent /\ log[at].message = n
  BY Zenon
<1>2. SentAt(n) = at
  BY DEF SentAt
<1> HIDE DEF at
<1> QED
  BY <1>1, <1>2 DEF Numbered

LEMMA SentAtIsNext ==
  ASSUME Numbered', NEW i \in Sent', NEW n, log'[i].message = n
  PROVE  SentAt(n)' = i
<1> DEFINE at == CHOOSE j \in Sent' : log'[j].message = n
<1>1. at \in Sent' /\ log'[at].message = n
  BY Zenon
<1>2. SentAt(n)' = at
  BY DEF SentAt
<1> HIDE DEF at
<1> QED
  BY <1>1, <1>2 DEF Numbered

LEMMA TimesIsNat ==
  ASSUME NEW S, NEW list \in Seq(S), NEW r
  PROVE  Times(list, r) \in Nat
<1> DEFINE at == {i \in DOMAIN list : list[i] = r}
<1>1. IsFiniteSet(1 .. Len(list))
  BY FS_Interval
<1>2. at \in SUBSET (1 .. Len(list))
  OBVIOUS
<1>3. IsFiniteSet(at)
  BY <1>1, <1>2, FS_Subset
<1>4. Cardinality(at) \in Nat
  BY <1>3, FS_CardinalityType
<1> QED
  BY <1>4 DEF Times

LEMMA RoutedIsNat ==
  ASSUME NEW sender \in Endpoint, NEW address \in Address, NEW members,
         address.form = "team" => members \in Seq(Agent)
  PROVE  Routed(sender, address, members) \in [Endpoint -> Nat]
<1>1. ASSUME NEW r \in Endpoint PROVE Addressed(address, members, r) \in Nat
  <2>1. CASE address.form = "team"
    <3>1. Times(members, r) \in Nat
      BY <2>1, TimesIsNat
    <3> QED
      BY <2>1, <3>1 DEF Addressed
  <2>2. CASE address.form # "team"
    BY <2>2 DEF Addressed
  <2> QED
    BY <2>1, <2>2
<1> QED
  BY <1>1 DEF Routed

(* Only a team message looks at members.                                   *)
LEMMA RoutedWithout ==
  ASSUME NEW sender, NEW address, address.form # "team", NEW one, NEW other
  PROVE  Routed(sender, address, one) = Routed(sender, address, other)
<1>1. \A r : Addressed(address, one, r) = Addressed(address, other, r)
  BY DEF Addressed
<1> QED
  BY <1>1 DEF Routed

(* How the audience of a message is read off the log.                      *)
LEMMA AudienceIs ==
  ASSUME Numbered, NEW i \in Sent, NEW n, log[i].message = n
  PROVE  Audience(n) = Routed(log[i].source, log[i].address,
                              MembersAt(log[i].address.to, i))
BY SentAtIs DEF Audience

LEMMA AudienceIsNext ==
  ASSUME Numbered', NEW i \in Sent', NEW n, log'[i].message = n
  PROVE  Audience(n)' = Routed(log'[i].source, log'[i].address,
                               MembersAt(log[i].address.to, i)')
<1>1. SentAt(n)' = i
  BY SentAtIsNext
<1> QED
  BY <1>1 DEF Audience

(* What is before event i stays what it was.                               *)
LEMMA NamedLastKept ==
  ASSUME NEW event, Grown(event), NEW t, NEW i \in 1 .. Len(log) + 1, NEW j
  PROVE  NamedLast(j, t, i) <=> NamedLast(j, t, i)'
<1>1. \A k \in 1 .. i - 1 : log'[k] = log[k]
  BY DEF Grown
<1>2. \A k \in j + 1 .. i - 1 : j \in 1 .. i - 1 => k \in 1 .. i - 1
  BY DEF Grown
<1> QED
  BY <1>1, <1>2 DEF NamedLast, Naming

LEMMA AudienceKept ==
  ASSUME Numbered, Numbered', AudiencesKnown, NEW event, Grown(event),
         NEW n \in 1 .. Len(messages)
  PROVE  Audience(n)' = Audience(n)
<1>1. PICK i \in Sent : log[i].message = n
  BY DEF Numbered
<1>2. i \in 1 .. Len(log) /\ i \in 1 .. Len(log) + 1 /\ i \in Nat
      /\ i \in Sent' /\ log'[i] = log[i]
  BY <1>1 DEF Sent, Grown
<1> DEFINE t == log[i].address.to
<1>3. Audience(n) = Routed(log[i].source, log[i].address, MembersAt(t, i))
  BY <1>1, AudienceIs
<1>4. Audience(n)' = Routed(log[i].source, log[i].address, MembersAt(t, i)')
  BY <1>1, <1>2, AudienceIsNext
<1>5. CASE log[i].address.form = "team"
  <2>1. PICK j : NamedLast(j, t, i)
    BY <1>1, <1>5 DEF AudiencesKnown
  <2>2. NamedLast(j, t, i)'
    BY <1>2, <2>1, NamedLastKept
  <2>3. MembersAt(t, i) = log[j].members /\ MembersAt(t, i)' = log'[j].members
    BY <1>2, <2>1, <2>2, MembersAtIs, MembersAtIsNext
  <2>4. log'[j] = log[j]
    BY <1>2, <2>1 DEF NamedLast, Grown
  <2> QED
    BY <1>3, <1>4, <2>3, <2>4
<1>6. CASE log[i].address.form # "team"
  BY <1>3, <1>4, <1>6, RoutedWithout
<1> QED
  BY <1>5, <1>6

(* An event that sends nothing.                                            *)
LEMMA SentPlain ==
  ASSUME NEW event, Grown(event), event.kind # "message_sent"
  PROVE  Sent' = Sent /\ \A i \in Sent : log'[i] = log[i]
BY DEF Sent, Grown

LEMMA NumberedPlain ==
  ASSUME Numbered, NEW event, Grown(event), event.kind # "message_sent",
         UNCHANGED messages
  PROVE  Numbered'
<1>1. Sent' = Sent /\ \A i \in Sent : log'[i] = log[i]
  BY SentPlain
<1> QED
  BY <1>1 DEF Numbered

(* The event of the next message.                                          *)
LEMMA NumberedPost ==
  ASSUME Numbered, NEW event, Grown(event), event.kind = "message_sent",
         Len(messages) \in Nat, event.message = Len(messages) + 1,
         event.source \in Endpoint, event.address \in Address,
         Len(messages') = Len(messages) + 1
  PROVE  Numbered'
<1> DEFINE N == Len(messages)
           at == Len(log) + 1
<1>1. Sent' = Sent \cup {at} /\ at \notin Sent
  BY DEF Sent, Grown
<1>2. /\ \A i \in Sent : log'[i] = log[i]
      /\ log'[at] = event
  BY DEF Sent, Grown
<1>3. IsFiniteSet(Sent') /\ Cardinality(Sent') = N + 1
  <2>1. IsFiniteSet(Sent) /\ Cardinality(Sent) = N
    BY DEF Numbered
  <2> HIDE DEF at, N
  <2>2. /\ IsFiniteSet(Sent \cup {at})
        /\ Cardinality(Sent \cup {at}) =
             IF at \in Sent THEN Cardinality(Sent) ELSE Cardinality(Sent) + 1
    BY <2>1, FS_AddElement
  <2> QED
    BY <1>1, <2>1, <2>2
<1>4. ASSUME NEW i \in Sent'
      PROVE  /\ log'[i].message \in 1 .. N + 1
             /\ log'[i].source \in Endpoint /\ log'[i].address \in Address
  BY <1>1, <1>2 DEF Numbered
<1>5. ASSUME NEW n \in 1 .. N + 1 PROVE \E i \in Sent' : log'[i].message = n
  <2>1. CASE n = N + 1
    BY <1>1, <1>2, <2>1
  <2>2. CASE n # N + 1
    <3>1. PICK i \in Sent : log[i].message = n
      BY <2>2 DEF Numbered
    <3> QED
      BY <1>1, <1>2, <3>1
  <2> QED
    BY <2>1, <2>2
<1>6. ASSUME NEW i \in Sent', NEW j \in Sent', log'[i].message = log'[j].message
      PROVE  i = j
  <2>1. \A k \in Sent : log'[k].message # N + 1
    BY <1>2 DEF Numbered
  <2> QED
    BY <1>1, <1>2, <1>6, <2>1 DEF Numbered
<1> HIDE DEF at
<1> QED
  BY <1>3, <1>4, <1>5, <1>6 DEF Numbered

(* Every team is told of again, or is as the log last told.                *)
LEMMA TeamsKnownNext ==
  ASSUME TeamsKnown, NEW event, Grown(event),
         \A t \in Team : team'[t].phase # "none" =>
           \/ Naming(event, t) /\ event.members = team'[t].members
           \/ /\ ~Naming(event, t) /\ team[t].phase # "none"
              /\ team'[t].members = team[t].members
  PROVE  TeamsKnown'
<1> SUFFICES ASSUME NEW t \in Team, team'[t].phase # "none"
             PROVE  \E j : NamedLast(j, t, Len(log) + 1)'
                           /\ log'[j].members = team'[t].members
  BY DEF TeamsKnown
<1>0. PICK at \in Nat : at = Len(log) + 1
  BY DEF Grown
<1>3. Len(log') = at /\ log'[at] = event /\ \A i \in 1 .. at - 1 : log'[i] = log[i]
  BY <1>0 DEF Grown
<1>1. CASE Naming(event, t) /\ event.members = team'[t].members
  <2>1. at \in 1 .. (at + 1) - 1 /\ \A k \in at + 1 .. (at + 1) - 1 : FALSE
    BY <1>0 DEF Grown
  <2>2. NamedLast(at, t, at + 1)'
    BY <1>1, <1>3, <2>1 DEF NamedLast
  <2> QED
    BY <1>3, <1>1, <2>2
<1>2. CASE /\ ~Naming(event, t) /\ team[t].phase # "none"
           /\ team'[t].members = team[t].members
  <2>1. PICK j : NamedLast(j, t, at) /\ log[j].members = team[t].members
    BY <1>0, <1>2 DEF TeamsKnown
  <2>2. /\ j \in 1 .. at - 1 /\ j \in 1 .. (at + 1) - 1
        /\ \A k \in j + 1 .. (at + 1) - 1 : k = at \/ (k \in j + 1 .. at - 1 /\ k \in 1 .. at - 1)
    BY <2>1 DEF NamedLast
  <2>3. \A k \in j + 1 .. (at + 1) - 1 : ~Naming(log'[k], t)
    BY <1>3, <1>2, <2>1, <2>2 DEF NamedLast
  <2>4. NamedLast(j, t, at + 1)' /\ log'[j] = log[j]
    BY <1>3, <2>1, <2>2, <2>3 DEF NamedLast
  <2> QED
    BY <1>3, <1>2, <2>1, <2>4
<1> QED
  BY <1>1, <1>2

LEMMA AudiencesPlain ==
  ASSUME Numbered, AudiencesKnown, NEW event, Grown(event),
         event.kind # "message_sent", UNCHANGED messages
  PROVE  AudiencesKnown'
<1>1. Numbered'
  BY NumberedPlain
<1>2. \A n \in 1 .. Len(messages) : Audience(n)' = Audience(n)
  BY <1>1, AudienceKept
<1>3. ASSUME NEW i \in Sent', log'[i].address.form = "team"
      PROVE  \E j : NamedLast(j, log[i].address.to, i)'
  <2>1. i \in Sent /\ i \in 1 .. Len(log) + 1 /\ log'[i] = log[i]
    BY SentPlain DEF Sent, Grown
  <2>2. PICK j : NamedLast(j, log[i].address.to, i)
    BY <1>3, <2>1 DEF AudiencesKnown
  <2>3. NamedLast(j, log[i].address.to, i)'
    BY <2>1, <2>2, NamedLastKept
  <2> QED
    BY <2>3
<1> QED
  BY <1>2, <1>3 DEF AudiencesKnown

(* The next message is for those recipients_for names now.                 *)
LEMMA AudiencesPost ==
  ASSUME Numbered, Numbered', TeamsKnown, AudiencesKnown, Held,
         NEW s \in Endpoint, NEW address \in Address,
         address.form = "team" => team[address.to].phase = "live",
         NEW event, Grown(event), event.kind = "message_sent",
         event.source = s, event.address = address,
         NEW n \in Nat \ {0}, n = Len(messages) + 1, event.message = n,
         Len(messages) \in Nat, Len(messages') = n
  PROVE  /\ AudiencesKnown'
         /\ Audience(n)' = RecipientsFor(s, address)
         /\ \A m \in 1 .. Len(messages) : Audience(m)' = Audience(m)
<1>0. PICK at \in Nat : at = Len(log) + 1
  BY DEF Grown
<1>1. at \in Sent' /\ log'[at] = event
  BY <1>0 DEF Sent, Grown
<1>2. Audience(n)' = Routed(s, address, MembersAt(address.to, at)')
  BY <1>1, AudienceIsNext
<1>3. \A m \in 1 .. Len(messages) : Audience(m)' = Audience(m)
  BY AudienceKept
<1>4. ASSUME address.form = "team"
      PROVE  /\ \E j : NamedLast(j, address.to, at)'
             /\ MembersAt(address.to, at)' = team[address.to].members
             /\ team[address.to].members \in Seq(Agent)
  <2>1. PICK t \in Team : t = address.to
    BY <1>4 DEF Address, Direct, ToTeam, Broadcast
  <2>2. team[t].phase # "none" /\ team[t].members \in Seq(Agent)
    BY <1>4, <2>1 DEF Held, TeamType
  <2>3. PICK j : NamedLast(j, t, at) /\ log[j].members = team[t].members
    BY <1>0, <2>2 DEF TeamsKnown
  <2>4. NamedLast(j, t, at)' /\ log'[j] = log[j]
    <3>1. at \in 1 .. Len(log) + 1 /\ j \in 1 .. Len(log)
      BY <1>0, <2>3 DEF NamedLast, Grown
    <3> QED
      BY <2>3, <3>1, NamedLastKept DEF Grown
  <2>5. MembersAt(t, at)' = log'[j].members
    BY <2>4, MembersAtIsNext
  <2> QED
    BY <2>1, <2>2, <2>3, <2>4, <2>5
<1>5. Audience(n)' = RecipientsFor(s, address)
  <2>1. CASE address.form = "team"
    BY <1>2, <1>4, <2>1 DEF RecipientsFor
  <2>2. CASE address.form # "team"
    BY <1>2, <2>2, RoutedWithout DEF RecipientsFor
  <2> QED
    BY <2>1, <2>2
<1>6. RecipientsFor(s, address) \in [Endpoint -> Nat]
  BY <1>4, RoutedIsNat DEF RecipientsFor
<1>7. ASSUME NEW m \in 1 .. Len(messages')
      PROVE  Audience(m)' \in [Endpoint -> Nat]
  <2>1. CASE m = n
    BY <1>5, <1>6, <2>1
  <2>2. CASE m # n
    <3>1. m \in 1 .. Len(messages)
      BY <1>7, <2>2
    <3> QED
      BY <1>3, <3>1 DEF AudiencesKnown
  <2> QED
    BY <2>1, <2>2
<1>8. ASSUME NEW i \in Sent', log'[i].address.form = "team"
      PROVE  \E j : NamedLast(j, log[i].address.to, i)'
  <2>1. CASE i = at
    BY <1>1, <1>4, <1>8, <2>1
  <2>2. CASE i # at
    <3>1. i \in Sent /\ i \in 1 .. Len(log) + 1 /\ log'[i] = log[i]
      BY <1>0, <1>8, <2>2 DEF Sent, Grown
    <3>2. PICK j : NamedLast(j, log[i].address.to, i)
      BY <1>8, <3>1 DEF AudiencesKnown
    <3>3. NamedLast(j, log[i].address.to, i)'
      BY <3>1, <3>2, NamedLastKept
    <3> QED
      BY <3>3
  <2> QED
    BY <2>1, <2>2
<1>9. AudiencesKnown'
  BY <1>7, <1>8 DEF AudiencesKnown
<1> QED
  BY <1>3, <1>5, <1>9

(* What the office owes an endpoint, message by message.                   *)
Lists(r) == [n \in 1 .. Len(messages) |-> Copies(n, Audience(n)[r])]

LEMMA CopiesIsSeq ==
  ASSUME NEW n \in Nat, NEW times \in Nat
  PROVE  Copies(n, times) \in Seq(Nat) /\ Office!Copies(n, times) = Copies(n, times)
BY DEF Copies, Office!Copies

LEMMA ListsType ==
  ASSUME AudiencesKnown, Len(messages) \in Nat, NEW r \in Endpoint
  PROVE  Lists(r) \in Seq(Seq(Nat))
<1>1. \A n \in 1 .. Len(messages) : Copies(n, Audience(n)[r]) \in Seq(Nat)
  <2> TAKE n \in 1 .. Len(messages)
  <2>1. Audience(n)[r] \in Nat /\ n \in Nat
    BY DEF AudiencesKnown
  <2> QED
    BY <2>1, CopiesIsSeq
<1> QED
  BY <1>1 DEF Lists

LEMMA SameFlatten ==
  ASSUME NEW s
  PROVE  Office!FlattenSeq(s) = FlattenSeq(s)
BY Zenon DEF FlattenSeq, Office!FlattenSeq

LEMMA OwedIs ==
  ASSUME Numbered, NEW r
  PROVE  Office!Owed(r) = FlattenSeq(Lists(r))
<1> DEFINE lists == [n \in DOMAIN [n \in 1 .. Cardinality(Sent) |-> Audience(n)] |->
                       Office!Copies(n, [m \in 1 .. Cardinality(Sent) |-> Audience(m)][n][r])]
<1>1. Cardinality(Sent) = Len(messages)
  BY DEF Numbered
<1>2. lists = Lists(r)
  BY <1>1 DEF Lists, Copies, Office!Copies
<1>3. Office!Owed(r) = Office!FlattenSeq(lists)
  BY DEF Office!Owed
<1> QED
  BY <1>2, <1>3, SameFlatten

LEMMA OwedIsNext ==
  ASSUME Numbered', NEW r
  PROVE  Office!Owed(r)' = FlattenSeq(Lists(r)')
<1> DEFINE lists == [n \in DOMAIN [n \in 1 .. Cardinality(Sent') |-> Audience(n)'] |->
                       Office!Copies(n, [m \in 1 .. Cardinality(Sent') |-> Audience(m)'][n][r])]
<1>1. Cardinality(Sent') = Len(messages')
  BY DEF Numbered
<1>2. lists = Lists(r)'
  BY <1>1 DEF Lists, Copies, Office!Copies
<1>3. Office!Owed(r)' = Office!FlattenSeq(lists)
  BY DEF Office!Owed
<1> QED
  BY <1>2, <1>3, SameFlatten

OneLonger(two, one, last) ==
  /\ two = [i \in 1 .. Len(one) + 1 |-> two[i]]
  /\ \A i \in 1 .. Len(one) : two[i] = one[i]
  /\ two[Len(one) + 1] = last

LEMMA AppendIs ==
  ASSUME NEW S, NEW one \in Seq(S), NEW last \in S, NEW two,
         OneLonger(two, one, last)
  PROVE  two = Append(one, last)
<1> DEFINE more == Append(one, last)
<1> DEFINE n == Len(one)
<1>1. /\ more \in Seq(S) /\ Len(more) = n + 1 /\ n \in Nat
      /\ \A i \in 1 .. n : more[i] = one[i]
      /\ more[n + 1] = last
  BY AppendProperties
<1>2. DOMAIN more = 1 .. n + 1 /\ more = [i \in DOMAIN more |-> more[i]]
  <2> HIDE DEF more
  <2>1. more = [i \in 1 .. Len(more) |-> more[i]] /\ DOMAIN more = 1 .. Len(more)
    BY <1>1
  <2> QED
    BY <1>1, <2>1
<1> HIDE DEF more
<1>3. \A i \in 1 .. n + 1 : i \in 1 .. n \/ i = n + 1
  BY <1>1
<1>4. \A i \in 1 .. n + 1 : two[i] = more[i]
  BY <1>1, <1>3 DEF OneLonger
<1>5. two = more
  BY <1>2, <1>4 DEF OneLonger
<1> QED
  BY <1>5 DEF more

LEMMA OwedPlain ==
  ASSUME Numbered, AudiencesKnown, NEW event, Grown(event),
         event.kind # "message_sent", UNCHANGED messages, NEW r
  PROVE  Office!Owed(r)' = Office!Owed(r)
<1>1. Numbered'
  BY NumberedPlain
<1>2. \A n \in 1 .. Len(messages) : Audience(n)' = Audience(n)
  BY <1>1, AudienceKept
<1>3. Lists(r)' = Lists(r)
  BY <1>2 DEF Lists
<1> QED
  BY <1>1, <1>3, OwedIs, OwedIsNext

LEMMA OwedPost ==
  ASSUME Numbered, Numbered', AudiencesKnown, AudiencesKnown',
         NEW r \in Endpoint, NEW n \in Nat \ {0}, n = Len(messages) + 1,
         Len(messages) \in Nat, Len(messages') = n,
         \A m \in 1 .. Len(messages) : Audience(m)' = Audience(m),
         NEW times \in Nat, Audience(n)'[r] = times
  PROVE  Office!Owed(r)' = Office!Owed(r) \o Copies(n, times)
<1>1. Lists(r) \in Seq(Seq(Nat)) /\ Copies(n, times) \in Seq(Nat)
  BY ListsType, CopiesIsSeq
<1>2. Lists(r)' = Append(Lists(r), Copies(n, times))
  <2>1. /\ Len(Lists(r)) = n - 1
        /\ \A m \in 1 .. n - 1 : Lists(r)[m] = Copies(m, Audience(m)[r])
    BY DEF Lists
  <2>2. /\ DOMAIN Lists(r)' = 1 .. n
        /\ Lists(r)'[n] = Copies(n, times)
        /\ \A m \in 1 .. n - 1 : Lists(r)'[m] = Copies(m, Audience(m)[r])
        /\ Lists(r)' = [m \in 1 .. n |-> Lists(r)'[m]]
    BY DEF Lists
  <2> DEFINE one == Lists(r)
             two == Lists(r)'
  <2>3. /\ one \in Seq(Seq(Nat)) /\ Len(one) = n - 1
        /\ two = [m \in 1 .. n |-> two[m]]
        /\ \A m \in 1 .. n - 1 : two[m] = one[m]
        /\ two[n] = Copies(n, times)
    BY <1>1, <2>1, <2>2
  <2> HIDE DEF one, two
  <2>4. two = Append(one, Copies(n, times))
    <3>1. (n - 1) + 1 = n
      OBVIOUS
    <3>2. OneLonger(two, one, Copies(n, times))
      BY <2>3, <3>1 DEF OneLonger
    <3> QED
      BY <1>1, <2>3, <3>2, AppendIs
  <2> QED
    BY <2>4 DEF one, two
<1>3. FlattenSeq(Append(Lists(r), Copies(n, times))) =
        FlattenSeq(Lists(r)) \o Copies(n, times)
  BY <1>1, FlattenAppend
<1> QED
  BY <1>2, <1>3, OwedIs, OwedIsNext

(* What an endpoint has been given, delivery by delivery.                  *)
Portion(event, r) ==
  IF event.kind = "messages_delivered" /\ event.source = r THEN event.delivered ELSE <<>>
Served(r) == [i \in DOMAIN log |-> Portion(log[i], r)]

LEMMA ServedType ==
  ASSUME Held, Len(log) \in Nat, DOMAIN log = 1 .. Len(log), NEW r
  PROVE  /\ Served(r) \in Seq(Seq(Nat)) /\ Len(Served(r)) = Len(log)
         /\ Delivered(r) = FlattenSeq(Served(r)) /\ Delivered(r) \in Seq(Nat)
<1>1. \A i \in DOMAIN log : Portion(log[i], r) \in Seq(Nat)
  BY DEF Portion, Held
<1>2. Served(r) \in Seq(Seq(Nat)) /\ Len(Served(r)) = Len(log)
  BY <1>1 DEF Served
<1>3. Delivered(r) = FlattenSeq(Served(r))
  BY DEF Delivered, Served, Portion
<1> QED
  BY <1>2, <1>3, FlattenType

LEMMA DeliveredNext ==
  ASSUME Held, NEW event, Grown(event), NEW r,
         event.kind = "messages_delivered" => event.delivered \in Seq(Nat)
  PROVE  Delivered(r)' = Delivered(r) \o Portion(event, r)
<1> DEFINE one == Served(r)
           two == Served(r)'
           last == Portion(event, r)
<1>1. /\ one \in Seq(Seq(Nat)) /\ Len(one) = Len(log)
      /\ Delivered(r) = FlattenSeq(one)
  BY ServedType DEF Grown
<1>2. last \in Seq(Nat)
  BY DEF Portion
<1>3. /\ two = [i \in 1 .. Len(log) + 1 |-> two[i]]
      /\ \A i \in 1 .. Len(log) : two[i] = one[i]
      /\ two[Len(log) + 1] = last /\ Len(log) \in Nat
  BY DEF Served, Grown
<1>4. Delivered(r)' = FlattenSeq(two)
  BY DEF Delivered, Served, Portion
<1> HIDE DEF one, two, last
<1>5. two = Append(one, last)
  <2>1. OneLonger(two, one, last)
    BY <1>1, <1>3 DEF OneLonger
  <2> QED
    BY <1>1, <1>2, <2>1, AppendIs
<1>6. FlattenSeq(two) = FlattenSeq(one) \o last
  BY <1>1, <1>2, <1>5, FlattenAppend
<1> QED
  BY <1>1, <1>4, <1>6 DEF last

LEMMA DeliveredPlain ==
  ASSUME Held, NEW event, Grown(event), event.kind # "messages_delivered", NEW r
  PROVE  Delivered(r)' = Delivered(r)
<1>1. Delivered(r)' = Delivered(r) \o <<>>
  BY DeliveredNext DEF Portion
<1>2. Delivered(r) \in Seq(Nat)
  BY ServedType DEF Grown
<1> QED
  BY <1>1, <1>2, ConcatEmptySeq

LEMMA HeldNext ==
  ASSUME Held, NEW event, Grown(event), team' \in TeamType,
         mailbox' \in [Endpoint -> Seq(Nat)],
         event.kind = "messages_delivered" => event.delivered \in Seq(Nat)
  PROVE  Held'
<1>1. ASSUME NEW i \in DOMAIN log', log'[i].kind = "messages_delivered"
      PROVE  log'[i].delivered \in Seq(Nat)
  <2>1. i = Len(log) + 1 \/ (i \in DOMAIN log /\ log'[i] = log[i])
    BY DEF Grown
  <2>2. log'[Len(log) + 1] = event
    BY DEF Grown
  <2> QED
    BY <1>1, <2>1, <2>2 DEF Held
<1> QED
  BY <1>1 DEF Held

LEMMA NatAssociative ==
  ASSUME NEW s \in Seq(Nat), NEW t \in Seq(Nat), NEW u \in Seq(Nat)
  PROVE  (s \o t) \o u = s \o (t \o u)
<1> DEFINE X == Nat
<1>1. s \in Seq(X) /\ t \in Seq(X) /\ u \in Seq(X)
  OBVIOUS
<1> HIDE DEF X
<1> QED
  BY <1>1, ConcatAssociative, SMTT(60)

(* A step that sends nothing: what leaves a mailbox is what is delivered.  *)
LEMMA PlainTraffic ==
  ASSUME TrafficInv, LedgerInv', NEW event, Append1(event),
         event.kind # "message_sent", UNCHANGED messages, team' \in TeamType,
         mailbox' \in [Endpoint -> Seq(Nat)],
         event.kind = "messages_delivered" => event.delivered \in Seq(Nat),
         \A t \in Team : team'[t].phase # "none" =>
           \/ Naming(event, t) /\ event.members = team'[t].members
           \/ /\ ~Naming(event, t) /\ team[t].phase # "none"
              /\ team'[t].members = team[t].members,
         \A r \in Endpoint : mailbox[r] = Portion(event, r) \o mailbox'[r]
  PROVE  TrafficInv'
<1> USE DEF TrafficInv
<1>1. Grown(event)
  BY LogGrows
<1>2. Held' /\ Numbered' /\ TeamsKnown' /\ AudiencesKnown'
  BY <1>1, HeldNext, NumberedPlain, TeamsKnownNext, AudiencesPlain
<1>3. ASSUME NEW r \in Endpoint
      PROVE  Office!Owed(r)' = Delivered(r)' \o mailbox'[r]
  <2>1. Office!Owed(r)' = Office!Owed(r)
    BY <1>1, OwedPlain
  <2>2. Office!Owed(r) = Delivered(r) \o mailbox[r]
    BY DEF MailboxIsOwed
  <2>3. Delivered(r)' = Delivered(r) \o Portion(event, r)
    BY <1>1, DeliveredNext
  <2>4. /\ Delivered(r) \in Seq(Nat) /\ Portion(event, r) \in Seq(Nat)
        /\ mailbox'[r] \in Seq(Nat)
    BY <1>1, ServedType DEF Grown, Portion
  <2>5. Delivered(r) \o (Portion(event, r) \o mailbox'[r]) =
          (Delivered(r) \o Portion(event, r)) \o mailbox'[r]
    BY <2>4, NatAssociative
  <2> QED
    BY <2>1, <2>2, <2>3, <2>5
<1>4. MailboxIsOwed'
  BY <1>3 DEF MailboxIsOwed
<1> QED
  BY <1>2, <1>4

LEMMA PostTraffic ==
  ASSUME TrafficInv, LedgerInv', NEW s \in Endpoint, NEW address \in Address,
         HandlePostMessage(s, address, TRUE)
  PROVE  /\ TrafficInv' /\ \A r \in Endpoint : Delivered(r)' = Delivered(r)
         /\ \A n : n = Len(messages) + 1 => Audience(n)' = RecipientsFor(s, address)
<1> USE DEF TrafficInv
<1> DEFINE event == [kind |-> "message_sent", source |-> s, message |-> nextMessage,
                     address |-> address, ref |-> Entry]
<1>0. PICK n \in Nat \ {0} : n = Len(messages) + 1
  BY DEF LedgerInv, Recorded
<1>1. /\ Append1(event) /\ event.kind = "message_sent" /\ event.source = s
      /\ event.address = address /\ event.message = n
      /\ Len(messages) \in Nat /\ Len(messages') = n /\ UNCHANGED team
      /\ mailbox' = Pushed(RecipientsFor(s, address), n)
      /\ address.form = "team" => team[address.to].phase = "live"
  BY <1>0, Parts DEF HandlePostMessage, LedgerInv, Recorded
<1> HIDE DEF event
<1>2. Grown(event)
  BY <1>1, LogGrows
<1>3. Numbered'
  BY <1>0, <1>1, <1>2, NumberedPost
<1>4. /\ AudiencesKnown' /\ Audience(n)' = RecipientsFor(s, address)
      /\ \A m \in 1 .. Len(messages) : Audience(m)' = Audience(m)
  BY <1>0, <1>1, <1>2, <1>3, AudiencesPost
<1>5. RecipientsFor(s, address) \in [Endpoint -> Nat]
  BY <1>0, <1>1, <1>4 DEF AudiencesKnown
<1>6. ASSUME NEW r \in Endpoint
      PROVE  /\ mailbox'[r] = mailbox[r] \o Copies(n, RecipientsFor(s, address)[r])
             /\ mailbox'[r] \in Seq(Nat)
             /\ mailbox[r] \in Seq(Nat)
             /\ Copies(n, RecipientsFor(s, address)[r]) \in Seq(Nat)
  <2>1. mailbox'[r] = mailbox[r] \o Copies(n, RecipientsFor(s, address)[r])
    BY <1>1 DEF Pushed
  <2>2. mailbox[r] \in Seq(Nat) /\ Copies(n, RecipientsFor(s, address)[r]) \in Seq(Nat)
    BY <1>0, <1>5, CopiesIsSeq DEF Held
  <2> QED
    BY <2>1, <2>2, ConcatProperties
<1>7. mailbox' \in [Endpoint -> Seq(Nat)]
  BY <1>1, <1>6 DEF Pushed
<1>8. TeamsKnown' /\ Held'
  <2>1. team' \in TeamType /\ \A t \in Team : ~Naming(event, t)
    BY <1>1 DEF Held, TeamType, Naming
  <2>2. TeamsKnown'
    BY <1>1, <1>2, <2>1, TeamsKnownNext
  <2>3. Held'
    BY <1>1, <1>2, <1>7, <2>1, HeldNext
  <2> QED
    BY <2>2, <2>3
<1>9. \A r \in Endpoint : Delivered(r)' = Delivered(r)
  BY <1>1, <1>2, DeliveredPlain
<1>10. ASSUME NEW r \in Endpoint
       PROVE  Office!Owed(r)' = Delivered(r)' \o mailbox'[r]
  <2> DEFINE times == RecipientsFor(s, address)[r]
  <2>1. times \in Nat /\ Audience(n)'[r] = times
    BY <1>4, <1>5
  <2> HIDE DEF times
  <2>2. Office!Owed(r)' = Office!Owed(r) \o Copies(n, times)
    BY <1>0, <1>1, <1>3, <1>4, <2>1, OwedPost
  <2>3. Office!Owed(r) = Delivered(r) \o mailbox[r]
    BY DEF MailboxIsOwed
  <2>4. Delivered(r) \in Seq(Nat)
    BY <1>2, ServedType DEF Grown
  <2>5. (Delivered(r) \o mailbox[r]) \o Copies(n, times) =
          Delivered(r) \o (mailbox[r] \o Copies(n, times))
    BY <1>6, <2>4, NatAssociative DEF times
  <2>6. mailbox'[r] = mailbox[r] \o Copies(n, times)
    BY <1>6 DEF times
  <2> QED
    BY <1>9, <2>2, <2>3, <2>5, <2>6
<1>11. MailboxIsOwed'
  BY <1>10 DEF MailboxIsOwed
<1>12. \A k : k = Len(messages) + 1 => Audience(k)' = RecipientsFor(s, address)
  BY <1>0, <1>1, <1>4
<1> QED
  BY <1>3, <1>4, <1>8, <1>9, <1>11, <1>12

(* A step that moves no mail either.                                       *)
LEMMA QuietTraffic ==
  ASSUME TrafficInv, LedgerInv', NEW event, Append1(event),
         event.kind \notin {"message_sent", "messages_delivered"},
         UNCHANGED <<messages, mailbox>>, team' \in TeamType,
         \A t \in Team : team'[t].phase # "none" =>
           \/ Naming(event, t) /\ event.members = team'[t].members
           \/ /\ ~Naming(event, t) /\ team[t].phase # "none"
              /\ team'[t].members = team[t].members
  PROVE  TrafficInv' /\ \A r \in Endpoint : Delivered(r)' = Delivered(r)
<1>1. Held
  BY DEF TrafficInv
<1>2. \A r \in Endpoint : mailbox[r] = Portion(event, r) \o mailbox'[r]
  <2> TAKE r \in Endpoint
  <2>1. mailbox'[r] = mailbox[r] /\ Portion(event, r) = <<>>
    BY DEF Portion
  <2>2. mailbox[r] \in Seq(Nat)
    BY <1>1 DEF Held
  <2> QED
    BY <2>1, <2>2, ConcatEmptySeq
<1>3. mailbox' \in [Endpoint -> Seq(Nat)]
  BY <1>1 DEF Held
<1>4. TrafficInv'
  BY <1>2, <1>3, PlainTraffic
<1>5. \A r \in Endpoint : Delivered(r)' = Delivered(r)
  BY <1>1, LogGrows, DeliveredPlain DEF TrafficInv
<1> QED
  BY <1>4, <1>5

(* A drain: the oldest go, the rest stays in order behind them.            *)
LEMMA DrainTraffic ==
  ASSUME TrafficInv, LedgerInv', NEW r \in Endpoint, NEW n, AssembleTurn(r, n)
  PROVE  /\ TrafficInv' /\ UNCHANGED messages
         /\ n \in 1 .. Len(mailbox[r])
         /\ \A q \in Endpoint :
              Delivered(q)' = Delivered(q) \o
                (IF q = r THEN SubSeq(mailbox[r], 1, n) ELSE <<>>)
<1> DEFINE event == [kind |-> "messages_delivered", source |-> r,
                     delivered |-> SubSeq(mailbox[r], 1, n)]
           mail == mailbox[r]
<1>1. Held /\ mail \in Seq(Nat)
  BY DEF TrafficInv, Held
<1>2. n \in 1 .. Len(mail) /\ Append1(event) /\ UNCHANGED <<messages, team>>
      /\ mailbox' = [mailbox EXCEPT ![r] = SubSeq(mail, n + 1, Len(mail))]
  BY DEF AssembleTurn
<1>3. /\ event.kind = "messages_delivered" /\ event.source = r
      /\ event.delivered = SubSeq(mail, 1, n)
  OBVIOUS
<1>4. /\ SubSeq(mail, 1, n) \in Seq(Nat) /\ SubSeq(mail, n + 1, Len(mail)) \in Seq(Nat)
      /\ SubSeq(mail, 1, n) \o SubSeq(mail, n + 1, Len(mail)) = mail
  <2> HIDE DEF mail
  <2>1. /\ n \in Int /\ Len(mail) \in Nat /\ n \in 0 .. Len(mail) /\ Len(mail) \in n .. Len(mail)
        /\ 1 \in 1 .. Len(mail) + 1
    BY <1>1, <1>2
  <2>2. SubSeq(mail, 1, n) \o SubSeq(mail, n + 1, Len(mail)) = SubSeq(mail, 1, Len(mail))
    <3>1. n \in 1 - 1 .. Len(mail)
      BY <2>1
    <3> QED
      BY <1>1, <2>1, <3>1, ConcatAdjacentSubSeq
  <2>3. SubSeq(mail, 1, Len(mail)) = mail
    BY <1>1, SubSeqFull
  <2>4. SubSeq(mail, 1, n) \in Seq(Nat) /\ SubSeq(mail, n + 1, Len(mail)) \in Seq(Nat)
    <3>1. \A i \in 1 .. n : mail[i] \in Nat
      BY <1>1, <2>1
    <3>2. \A i \in n + 1 .. Len(mail) : mail[i] \in Nat
      BY <1>1, <2>1
    <3> QED
      BY <2>1, <3>1, <3>2, SubSeqProperties
  <2> QED
    BY <2>2, <2>3, <2>4
<1> HIDE DEF event, mail
<1>5. mailbox' \in [Endpoint -> Seq(Nat)]
  BY <1>1, <1>2, <1>4 DEF Held
<1>6. \A q \in Endpoint :
        Portion(event, q) = IF q = r THEN SubSeq(mail, 1, n) ELSE <<>>
  BY <1>3 DEF Portion
<1>7. ASSUME NEW q \in Endpoint
      PROVE  mailbox[q] = Portion(event, q) \o mailbox'[q]
  <2>1. CASE q = r
    BY <1>1, <1>2, <1>4, <1>6, <2>1 DEF Held, mail
  <2>2. CASE q # r
    <3>1. mailbox'[q] = mailbox[q] /\ Portion(event, q) = <<>> /\ mailbox[q] \in Seq(Nat)
      BY <1>1, <1>2, <1>6, <2>2 DEF Held
    <3> QED
      BY <3>1, ConcatEmptySeq
  <2> QED
    BY <2>1, <2>2
<1>8. team' \in TeamType /\ \A t \in Team : ~Naming(event, t)
  BY <1>1, <1>2, <1>3 DEF Held, Naming
<1>9. TrafficInv'
  BY <1>2, <1>3, <1>4, <1>5, <1>7, <1>8, PlainTraffic
<1>10. ASSUME NEW q \in Endpoint
       PROVE  Delivered(q)' = Delivered(q) \o Portion(event, q)
  BY <1>1, <1>2, <1>3, <1>4, LogGrows, DeliveredNext DEF TrafficInv
<1> QED
  BY <1>2, <1>6, <1>9, <1>10 DEF mail

(* The office's variables as the log tells them.                           *)
Accepted == [n \in 1 .. Cardinality(Sent) |-> Audience(n)]
Received == [r \in Endpoint |-> Delivered(r)]

OfficeStep == [Office!OfficeNext]_(Office!officeVars)

LEMMA OfficeStutters ==
  ASSUME UNCHANGED <<Accepted, Received>>
  PROVE  OfficeStep
BY DEF OfficeStep, Office!officeVars, Accepted, Received

LEMMA ReceivedSame ==
  ASSUME \A r \in Endpoint : Delivered(r)' = Delivered(r)
  PROVE  UNCHANGED Received
BY DEF Received

LEMMA AcceptedSame ==
  ASSUME TrafficInv, TrafficInv', NEW event, Append1(event), UNCHANGED messages
  PROVE  UNCHANGED Accepted
<1>1. Cardinality(Sent) = Len(messages) /\ Cardinality(Sent') = Len(messages)
  BY DEF TrafficInv, Numbered
<1>2. \A n \in 1 .. Len(messages) : Audience(n)' = Audience(n)
  BY LogGrows, AudienceKept DEF TrafficInv
<1> QED
  BY <1>1, <1>2 DEF Accepted

(* An accepted message is the office's next.                               *)
LEMMA OfficeAccepts ==
  ASSUME TrafficInv, TrafficInv', NEW event, Append1(event),
         Len(messages') = Len(messages) + 1, UNCHANGED Received
  PROVE  OfficeStep
<1>0. Len(messages) \in Nat
  BY DEF TrafficInv, LedgerInv, Recorded
<1> DEFINE N == Len(messages)
<1>1. Cardinality(Sent) = N /\ Cardinality(Sent') = N + 1
  BY DEF TrafficInv, Numbered
<1>2. \A n \in 1 .. N : Audience(n)' = Audience(n)
  BY LogGrows, AudienceKept DEF TrafficInv
<1>3. \A n \in 1 .. N + 1 : Audience(n)' \in [Endpoint -> Nat]
  BY DEF TrafficInv, AudiencesKnown
<1> DEFINE one == Accepted
           two == Accepted'
<1>4. one = [n \in 1 .. N |-> one[n]] /\ two = [n \in 1 .. N + 1 |-> two[n]]
  BY <1>1 DEF Accepted
<1>5. /\ \A n \in 1 .. N : two[n] = one[n]
      /\ \A n \in 1 .. N + 1 : two[n] \in [Endpoint -> Nat]
  BY <1>1, <1>2, <1>3 DEF Accepted
<1> HIDE DEF one, two, N
<1>6. /\ one \in Seq([Endpoint -> Nat]) /\ Len(one) = N
      /\ two \in Seq([Endpoint -> Nat]) /\ Len(two) = N + 1
  <2> DEFINE To == [Endpoint -> Nat]
  <2>1. N \in Nat /\ N + 1 \in Nat /\ \A n \in 1 .. N : n \in 1 .. N + 1
    BY <1>0 DEF N
  <2>2. (\A n \in 1 .. N : one[n] \in To) /\ \A n \in 1 .. N + 1 : two[n] \in To
    BY <1>5, <2>1
  <2> HIDE DEF To
  <2>3. one \in [1 .. N -> To] /\ two \in [1 .. N + 1 -> To]
    BY <1>4, <2>2
  <2>4. /\ one \in Seq(To) /\ Len(one) = N
        /\ two \in Seq(To) /\ Len(two) = N + 1
    BY <2>1, <2>3
  <2> QED
    BY <2>4 DEF To
<1>7. SubSeq(two, 1, Len(two) - 1) = one
  <2>1. Len(two) - 1 = N /\ N \in Nat
    BY <1>0, <1>6 DEF N
  <2> DEFINE front == SubSeq(two, 1, N)
  <2>2. front = [n \in 1 .. N |-> two[n]]
    BY <1>6, <2>1
  <2> QED
    BY <1>4, <1>5, <2>1, <2>2
<1>8. two[Len(two)] \in [Endpoint -> Nat]
  BY <1>0, <1>5, <1>6 DEF N
<1>9. Office!Accept
  BY <1>6, <1>7, <1>8
     DEF Office!Accept, Office!Front, Office!Last, one, two, Accepted, Received
<1> QED
  BY <1>9 DEF OfficeStep, Office!OfficeNext

LEMMA PrefixOfConcat ==
  ASSUME NEW s \in Seq(Nat), NEW t \in Seq(Nat), NEW n \in 1 .. Len(t)
  PROVE  SubSeq(s \o t, 1, Len(s) + n) = s \o SubSeq(t, 1, n)
<1> DEFINE all == s \o t
           k == Len(s)
<1>1. /\ all \in Seq(Nat) /\ Len(all) = k + Len(t)
      /\ k \in Nat /\ Len(t) \in Nat
  BY ConcatProperties
<1>2. SubSeq(all, 1, k) = s
  <2>1. CASE k = 0
    <3>1. s = <<>>
      BY <2>1
    <3>2. SubSeq(all, 1, 0) = <<>>
      BY SubSeqEmpty
    <3> QED
      BY <2>1, <3>1, <3>2
  <2>2. CASE k # 0
    <3>1. 1 \in 1 .. k /\ k \in 1 .. k
      BY <1>1, <2>2
    <3>2. SubSeq(all, 1, k) = SubSeq(s, 1, k)
      BY <3>1, SubSeqOfConcat1
    <3>3. SubSeq(s, 1, k) = s
      BY SubSeqFull
    <3> QED
      BY <3>2, <3>3
  <2> QED
    BY <2>1, <2>2
<1>3. SubSeq(all, k + 1, k + n) = SubSeq(t, 1, n)
  <2>1. /\ k + 1 \in Len(s) + 1 .. Len(s) + Len(t)
        /\ k + n \in Len(s) + 1 .. Len(s) + Len(t)
        /\ (k + 1) - Len(s) = 1 /\ (k + n) - Len(s) = n
    BY <1>1
  <2>2. SubSeq(all, k + 1, k + n) = SubSeq(t, (k + 1) - Len(s), (k + n) - Len(s))
    BY <2>1, SubSeqOfConcat2
  <2> QED
    BY <2>1, <2>2
<1>4. SubSeq(all, 1, k) \o SubSeq(all, k + 1, k + n) = SubSeq(all, 1, k + n)
  <2>1. /\ 1 \in 1 .. Len(all) + 1 /\ k \in 1 - 1 .. Len(all)
        /\ k + n \in k .. Len(all)
    BY <1>1
  <2> HIDE DEF all, k
  <2> QED
    BY <1>1, <2>1, ConcatAdjacentSubSeq
<1> QED
  BY <1>2, <1>3, <1>4

(* A drain is what the office hands over: the next of what it still owes.  *)
LEMMA OfficeHandsOver ==
  ASSUME TrafficInv, LedgerInv', NEW r \in Endpoint, NEW n, AssembleTurn(r, n)
  PROVE  OfficeStep
<1> DEFINE given == Delivered(r)
           mail == mailbox[r]
           k == Len(given) + n
<1>1. /\ TrafficInv' /\ UNCHANGED messages /\ n \in 1 .. Len(mail)
      /\ \A q \in Endpoint :
           Delivered(q)' = Delivered(q) \o (IF q = r THEN SubSeq(mail, 1, n) ELSE <<>>)
  BY DrainTraffic
<1>2. \A q \in Endpoint : Delivered(q) \in Seq(Nat)
  <2>1. Held /\ Len(log) \in Nat /\ DOMAIN log = 1 .. Len(log)
    BY DEF TrafficInv, LedgerInv, Recorded, LogIsSequence
  <2> QED
    BY <2>1, ServedType
<1>3. given \in Seq(Nat) /\ mail \in Seq(Nat) /\ Office!Owed(r) = given \o mail
  BY <1>2 DEF TrafficInv, Held, MailboxIsOwed
<1>4. Delivered(r)' = SubSeq(Office!Owed(r), 1, k)
  <2>1. Delivered(r)' = given \o SubSeq(mail, 1, n)
    BY <1>1
  <2> HIDE DEF given, mail
  <2>2. SubSeq(given \o mail, 1, Len(given) + n) = given \o SubSeq(mail, 1, n)
    BY <1>1, <1>3, PrefixOfConcat
  <2> QED
    BY <1>3, <2>1, <2>2
<1>5. Received' = [Received EXCEPT ![r] = SubSeq(Office!Owed(r), 1, k)]
  <2>1. ASSUME NEW q \in Endpoint, q # r PROVE Delivered(q)' = Delivered(q)
    <3>1. Delivered(q)' = Delivered(q) \o <<>>
      BY <1>1, <2>1
    <3> QED
      BY <1>2, <3>1, ConcatEmptySeq
  <2> QED
    BY <1>4, <2>1 DEF Received
<1>6. k \in Len(Received[r]) + 1 .. Len(Office!Owed(r))
  <2>1. Received[r] = given /\ Len(Office!Owed(r)) = Len(given) + Len(mail)
    BY <1>3, ConcatProperties DEF Received
  <2> HIDE DEF given, mail
  <2>2. Len(given) \in Nat /\ Len(mail) \in Nat
    BY <1>3
  <2> QED
    BY <1>1, <2>1, <2>2
<1>7. UNCHANGED Accepted
  BY <1>1, AcceptedSame DEF AssembleTurn
<1> HIDE DEF k
<1>8. Office!HandOver(r)
  BY <1>5, <1>6, <1>7 DEF Office!HandOver, Accepted, Received
<1> QED
  BY <1>8 DEF OfficeStep, Office!OfficeNext

LEMMA QuietStep ==
  ASSUME TrafficInv, LedgerInv', NEW event, Append1(event),
         event.kind \notin {"message_sent", "messages_delivered"},
         UNCHANGED <<messages, mailbox>>, team' \in TeamType,
         \A t \in Team : team'[t].phase # "none" =>
           \/ Naming(event, t) /\ event.members = team'[t].members
           \/ /\ ~Naming(event, t) /\ team[t].phase # "none"
              /\ team'[t].members = team[t].members
  PROVE  TrafficInv' /\ OfficeStep
<1>1. TrafficInv' /\ \A r \in Endpoint : Delivered(r)' = Delivered(r)
  BY QuietTraffic
<1> QED
  BY <1>1, ReceivedSame, AcceptedSame, OfficeStutters

LEMMA SameTraffic ==
  ASSUME TrafficInv, UNCHANGED <<team, store, nextMessage, messages, mailbox, log>>
  PROVE  TrafficInv' /\ OfficeStep
<1>1. \A r : Delivered(r)' = Delivered(r)
  BY DEF Delivered
<1>2. Sent' = Sent
  BY DEF Sent
<1>3. \A n : Audience(n)' = Audience(n)
  BY <1>2 DEF Audience, SentAt, MembersAt, Names
<1>4. \A r : Office!Owed(r)' = Office!Owed(r)
  BY <1>2, <1>3 DEF Office!Owed
<1>5. LedgerInv'
  BY LedgerSame DEF TrafficInv
<1>6. Held' /\ Numbered' /\ TeamsKnown'
  BY <1>2 DEF TrafficInv, Held, Numbered, TeamsKnown, NamedLast
<1>7. AudiencesKnown'
  BY <1>2, <1>3 DEF TrafficInv, AudiencesKnown, NamedLast
<1>8. MailboxIsOwed'
  BY <1>1, <1>4 DEF TrafficInv, MailboxIsOwed
<1>9. UNCHANGED <<Accepted, Received>>
  BY <1>1, <1>2, <1>3 DEF Accepted, Received
<1> QED
  BY <1>5, <1>6, <1>7, <1>8, <1>9, OfficeStutters DEF TrafficInv

LEMMA TrafficStep ==
  ASSUME TrafficInv, LedgerInv', [Next]_msgVars
  PROVE  TrafficInv' /\ OfficeStep
<1>0. team \in TeamType
  BY DEF TrafficInv, Held
<1>1. ASSUME NEW s \in Sender, NEW address \in Address, NEW ok \in Embedding,
             HandlePostMessage(s, address, ok)
      PROVE  TrafficInv' /\ OfficeStep
  <2>1. s \in Endpoint
    BY MessagingConstants DEF MessagingConstants
  <2>2. CASE ok
    <3>1. HandlePostMessage(s, address, TRUE)
      BY <1>1, <2>2 DEF HandlePostMessage
    <3>2. TrafficInv' /\ \A r \in Endpoint : Delivered(r)' = Delivered(r)
      BY <2>1, <3>1, PostTraffic
    <3>3. PICK event : Append1(event)
      BY <3>1 DEF HandlePostMessage
    <3>4. Len(messages') = Len(messages) + 1
      BY <3>1 DEF HandlePostMessage, TrafficInv, LedgerInv, Recorded
    <3> QED
      BY <3>2, <3>3, <3>4, ReceivedSame, OfficeAccepts
  <2>3. CASE ~ok
    BY <1>1, <2>3, SameTraffic DEF HandlePostMessage
  <2> QED
    BY <2>2, <2>3
<1>2. ASSUME NEW s \in Sender, HandleWriteKnowledge(s) PROVE TrafficInv' /\ OfficeStep
  <2> DEFINE event == [kind |-> "knowledge_written", source |-> s, ref |-> Entry]
  <2>1. Append1(event) /\ UNCHANGED <<messages, mailbox, team>>
    BY <1>2 DEF HandleWriteKnowledge
  <2>2. event.kind = "knowledge_written" /\ \A t : ~Naming(event, t)
    BY DEF Naming
  <2> HIDE DEF event
  <2> QED
    BY <1>0, <2>1, <2>2, QuietStep
<1>3. ASSUME NEW a \in Sender, HandleComplete(a) PROVE TrafficInv' /\ OfficeStep
  <2> DEFINE event == [kind |-> "task_completed", source |-> a, ref |-> Entry]
  <2>1. Append1(event) /\ UNCHANGED <<messages, mailbox, team>>
    BY <1>3 DEF HandleComplete
  <2>2. event.kind = "task_completed" /\ \A t : ~Naming(event, t)
    BY DEF Naming
  <2> HIDE DEF event
  <2> QED
    BY <1>0, <2>1, <2>2, QuietStep
<1>4. ASSUME NEW t \in Team, NEW m \in MemberList, HandleFormTeam(t, m)
      PROVE  TrafficInv' /\ OfficeStep
  <2> DEFINE event == [kind |-> "team_formed", source |-> Orchestrator,
                       team |-> t, members |-> m]
  <2>1. /\ Append1(event) /\ UNCHANGED <<messages, mailbox>>
        /\ team' = [team EXCEPT ![t] = [phase |-> "live", members |-> m]]
    BY <1>4 DEF HandleFormTeam
  <2>2. /\ event.kind = "team_formed" /\ event.members = m
        /\ \A u : Naming(event, u) <=> u = t
    BY DEF Naming
  <2>3. m \in Seq(Agent)
    BY MessagingConstants DEF MessagingConstants
  <2> HIDE DEF event
  <2>4. team' \in TeamType
    BY <1>0, <2>1, <2>3 DEF TeamType
  <2>5. \A u \in Team : IF u = t THEN team'[u].members = m ELSE team'[u] = team[u]
    BY <1>0, <2>1 DEF TeamType
  <2> QED
    BY <2>1, <2>2, <2>4, <2>5, QuietStep
<1>5. ASSUME NEW t \in Team, NEW m \in MemberList, HandleSetTeamMembers(t, m)
      PROVE  TrafficInv' /\ OfficeStep
  <2> DEFINE event == [kind |-> "team_members_set", source |-> Orchestrator,
                       team |-> t, members |-> m]
  <2>1. /\ Append1(event) /\ UNCHANGED <<messages, mailbox>>
        /\ team' = [team EXCEPT ![t].members = m]
    BY <1>5 DEF HandleSetTeamMembers
  <2>2. /\ event.kind = "team_members_set" /\ event.members = m
        /\ \A u : Naming(event, u) <=> u = t
    BY DEF Naming
  <2>3. m \in Seq(Agent)
    BY MessagingConstants DEF MessagingConstants
  <2> HIDE DEF event
  <2>4. team' \in TeamType
    BY <1>0, <2>1, <2>3 DEF TeamType
  <2>5. \A u \in Team : IF u = t THEN team'[u].members = m ELSE team'[u] = team[u]
    BY <1>0, <2>1 DEF TeamType
  <2> QED
    BY <2>1, <2>2, <2>4, <2>5, QuietStep
<1>6. ASSUME NEW t \in Team, HandleDissolveTeam(t) PROVE TrafficInv' /\ OfficeStep
  <2> DEFINE event == [kind |-> "team_dissolved", source |-> Orchestrator, team |-> t]
  <2>1. /\ Append1(event) /\ UNCHANGED <<messages, mailbox>>
        /\ team[t].phase = "live"
        /\ team' = [team EXCEPT ![t].phase = "dissolved"]
    BY <1>6 DEF HandleDissolveTeam
  <2>2. event.kind = "team_dissolved" /\ \A u : ~Naming(event, u)
    BY DEF Naming
  <2> HIDE DEF event
  <2>4. team' \in TeamType
    BY <1>0, <2>1 DEF TeamType
  <2>5. \A u \in Team : /\ team'[u].members = team[u].members
                        /\ team'[u].phase # "none" => team[u].phase # "none"
    BY <1>0, <2>1 DEF TeamType
  <2> QED
    BY <2>1, <2>2, <2>4, <2>5, QuietStep
<1>7. ASSUME NEW r \in Endpoint, NEW n, AssembleTurn(r, n)
      PROVE  TrafficInv' /\ OfficeStep
  BY <1>7, DrainTraffic, OfficeHandsOver
<1>8. CASE UNCHANGED msgVars
  BY <1>8, SameTraffic DEF msgVars
<1> QED
  BY <1>1, <1>2, <1>3, <1>4, <1>5, <1>6, <1>7, <1>8 DEF Next

LEMMA InitTraffic == Init => TrafficInv /\ Office!OfficeInit
<1> SUFFICES ASSUME Init PROVE TrafficInv /\ Office!OfficeInit
  OBVIOUS
<1>1. /\ log = <<>> /\ messages = <<>> /\ mailbox = [r \in Endpoint |-> <<>>]
      /\ team = [t \in Team |-> [phase |-> "none", members |-> <<>>]]
  BY DEF Init
<1>2. Sent = {} /\ IsFiniteSet(Sent) /\ Cardinality(Sent) = 0 /\ Len(messages) = 0
  BY <1>1, FS_EmptySet DEF Sent
<1>3. Held
  BY <1>1 DEF Held, TeamType
<1>4. Numbered /\ TeamsKnown /\ AudiencesKnown
  BY <1>1, <1>2 DEF Numbered, TeamsKnown, AudiencesKnown
<1>5. \A r : Delivered(r) = <<>>
  <2> TAKE r
  <2>1. Served(r) = <<>> /\ Delivered(r) = FlattenSeq(Served(r))
    BY <1>1 DEF Served, Delivered, Portion
  <2> QED
    BY <2>1, FlattenEmpty
<1>6. MailboxIsOwed
  <2> SUFFICES ASSUME NEW r \in Endpoint
               PROVE  Office!Owed(r) = Delivered(r) \o mailbox[r]
    BY DEF MailboxIsOwed
  <2>1. Lists(r) = <<>>
    BY <1>2 DEF Lists
  <2>2. Office!Owed(r) = <<>>
    BY <1>4, <2>1, OwedIs, FlattenEmpty
  <2> QED
    BY <1>1, <1>5, <2>2
<1>7. Office!OfficeInit
  <2>1. Accepted = <<>>
    BY <1>2 DEF Accepted
  <2>2. Received = [r \in Endpoint |-> <<>>]
    BY <1>5 DEF Received
  <2> QED
    BY <2>1, <2>2 DEF Office!OfficeInit, Accepted, Received
<1> QED
  BY <1>3, <1>4, <1>6, <1>7, InitLedgerInv DEF TrafficInv

(* What an endpoint has been delivered and what its mailbox holds are      *)
(* together exactly what the messages accepted so far owe it, in the order *)
(* of acceptance and with the membership of that moment: nothing is lost,  *)
(* doubled or overtaken by a partial drain.                                *)
THEOREM NothingLost == Spec => []MailboxIsOwed
<1>1. Init => LedgerInv /\ TrafficInv
  BY InitLedgerInv, InitTraffic
<1>2. LedgerInv /\ TrafficInv /\ [Next]_msgVars => LedgerInv' /\ TrafficInv'
  BY LedgerStep, TrafficStep
<1>3. TrafficInv => MailboxIsOwed
  BY DEF TrafficInv
<1> QED
  BY <1>1, <1>2, <1>3, PTL DEF Spec

(* Messaging is a post office: every step of the write path is one of the  *)
(* office's or none.                                                       *)
THEOREM IsPostOffice == Spec => ImplementsPostOffice
<1>1. Init => LedgerInv /\ TrafficInv /\ Office!OfficeInit
  BY InitLedgerInv, InitTraffic
<1>2. LedgerInv /\ TrafficInv /\ [Next]_msgVars =>
        LedgerInv' /\ TrafficInv' /\ [Office!OfficeNext]_(Office!officeVars)
  BY LedgerStep, TrafficStep DEF OfficeStep
<1> QED
  BY <1>1, <1>2, PTL DEF Spec, ImplementsPostOffice, Office!OfficeSpec

(* Both hold beside the fold as well.                                      *)
THEOREM PostOfficeFolded == LSpec => []MailboxIsOwed /\ ImplementsPostOffice
<1>1. LInit => Init
  BY DEF LInit
<1>2. [LNext]_ledgerVars => [Next]_msgVars
  BY DEF LNext, ledgerVars
<1> QED
  BY <1>1, <1>2, NothingLost, IsPostOffice, PTL DEF Spec, LSpec

----------------------------------------------------------------------------
(* What the fold makes of the events.                                       *)

LEMMA Folds ==
  ASSUME LedgerInv, LNext, NEW event, Append1(event)
  PROVE  FoldEvent(event, Len(log) + 1)
<1>1. Grown(event)
  BY LogGrows
<1>2. log' # log /\ log'[Len(log')] = event /\ Len(log') = Len(log) + 1
  BY <1>1 DEF Grown
<1> QED
  BY <1>2 DEF LNext

LEMMA FoldsNothing ==
  ASSUME LNext, log' = log
  PROVE  UNCHANGED <<teams, pending, volume>>
BY DEF LNext

LEMMA FoldKinds ==
  ASSUME NEW event, NEW id, FoldEvent(event, id)
  PROVE  /\ event.kind = "message_sent" => FoldSent(event, id)
         /\ event.kind = "messages_delivered" => FoldDelivered(event)
         /\ event.kind = "knowledge_written" =>
              volume' = [volume EXCEPT !.note = @ + 1] /\ UNCHANGED <<teams, pending>>
         /\ event.kind = "task_completed" =>
              volume' = [volume EXCEPT !.completion = @ + 1] /\ UNCHANGED <<teams, pending>>
         /\ event.kind \in {"team_formed", "team_members_set"} =>
              /\ teams' = [t \in DOMAIN teams \cup {event.team} |->
                             IF t = event.team THEN event.members ELSE teams[t]]
              /\ UNCHANGED <<pending, volume>>
         /\ event.kind = "team_dissolved" =>
              /\ teams' = [t \in DOMAIN teams \ {event.team} |-> teams[t]]
              /\ UNCHANGED <<pending, volume>>
BY DEF FoldEvent

Holding(k) == {e \in DOMAIN store : store[e].kind = k}

Forms == {"direct", "team", "broadcast"}
VolumeInv ==
  /\ DOMAIN volume = Forms \cup Kinds \cup {"maxDepth"}
  /\ \A form \in Forms : volume[form] \in Nat
  /\ VolumeIsStore

LEMMA HoldingNext ==
  ASSUME LedgerInv, NEW author, NEW kind \in Kinds, Insert(author, kind), NEW k
  PROVE  Cardinality(Holding(k)') =
           IF k = kind THEN Cardinality(Holding(k)) + 1 ELSE Cardinality(Holding(k))
<1> DEFINE entry == [author |-> author, event |-> PlannedEvent, kind |-> kind]
           at == Len(store) + 1
<1>1. store \in Seq(Entries)
  BY DEF LedgerInv, Recorded
<1>2. /\ DOMAIN store = 1 .. Len(store) /\ Len(store) \in Nat
      /\ DOMAIN store' = 1 .. at
      /\ \A e \in 1 .. Len(store) : store'[e] = store[e]
      /\ store'[at] = entry
  <2>1. store' = Append(store, entry)
    BY DEF Insert
  <2> HIDE DEF entry
  <2> QED
    BY <1>1, <2>1, AppendTo
<1>3. entry.kind = kind
  OBVIOUS
<1>4. IsFiniteSet(Holding(k))
  <2>1. IsFiniteSet(1 .. Len(store))
    BY <1>2, FS_Interval
  <2>2. Holding(k) \in SUBSET (1 .. Len(store))
    BY <1>2 DEF Holding
  <2> QED
    BY <2>1, <2>2, FS_Subset
<1>5. CASE k = kind
  <2>1. Holding(k)' = Holding(k) \cup {at} /\ at \notin Holding(k)
    <3> HIDE DEF entry
    <3> QED
      BY <1>2, <1>3, <1>5 DEF Holding
  <2> HIDE DEF at
  <2>2. Cardinality(Holding(k) \cup {at}) =
          IF at \in Holding(k) THEN Cardinality(Holding(k)) ELSE Cardinality(Holding(k)) + 1
    BY <1>4, FS_AddElement
  <2> QED
    BY <1>5, <2>1, <2>2
<1>6. CASE k # kind
  <2>1. Holding(k)' = Holding(k)
    <3> HIDE DEF entry
    <3> QED
      BY <1>2, <1>3, <1>6 DEF Holding
  <2> QED
    BY <1>6, <2>1
<1> QED
  BY <1>5, <1>6

(* An entry and what the fold counts for it.                               *)
LEMMA VolumeNote ==
  ASSUME LedgerInv, VolumeInv, NEW author, NEW kind \in {"note", "completion"},
         Insert(author, kind), UNCHANGED messages,
         volume' = [volume EXCEPT ![kind] = @ + 1]
  PROVE  VolumeInv'
<1>1. \A k \in Kinds : Cardinality(Holding(k)') =
        IF k = kind THEN Cardinality(Holding(k)) + 1 ELSE Cardinality(Holding(k))
  BY HoldingNext DEF Kinds
<1>2. \A k \in Kinds : volume[k] = Cardinality(Holding(k))
  BY DEF VolumeInv, VolumeIsStore, Holding
<1>3. /\ DOMAIN volume' = DOMAIN volume /\ kind \in DOMAIN volume
      /\ \A f \in DOMAIN volume : volume'[f] = IF f = kind THEN volume[f] + 1 ELSE volume[f]
  BY DEF VolumeInv, Kinds
<1>4. \A k \in Kinds : volume'[k] = Cardinality(Holding(k)')
  BY <1>1, <1>2, <1>3 DEF VolumeInv
<1>5. \A f \in Forms : volume'[f] = volume[f] /\ volume[f] \in Nat
  BY <1>3 DEF VolumeInv, Forms
<1>6. volume'.direct + volume'.team + volume'.broadcast = Len(messages')
  BY <1>5 DEF VolumeInv, VolumeIsStore, Forms
<1> QED
  BY <1>3, <1>4, <1>5, <1>6 DEF VolumeInv, VolumeIsStore, Holding

LEMMA FormsCounted ==
  ASSUME VolumeInv
  PROVE  \A f \in Forms : volume[f] \in Nat /\ volume[f] + 1 \in Nat
<1>1. \A f \in Forms : volume[f] \in Nat
  BY DEF VolumeInv
<1>2. \A n \in Nat : n + 1 \in Nat
  OBVIOUS
<1> QED
  BY <1>1, <1>2, Zenon

Tallied(form, depth) ==
  volume' = [volume EXCEPT ![form] = @ + 1, !.message = @ + 1, !.maxDepth = depth]

LEMMA VolumeSent ==
  ASSUME LedgerInv, VolumeInv, NEW author, Insert(author, "message"),
         Len(messages') = Len(messages) + 1, NEW form \in Forms, NEW depth,
         Tallied(form, depth)
  PROVE  VolumeInv'
<1>1. \A k \in Kinds : Cardinality(Holding(k)') =
        IF k = "message" THEN Cardinality(Holding(k)) + 1 ELSE Cardinality(Holding(k))
  BY HoldingNext DEF Kinds
<1>2. \A k \in Kinds : volume[k] = Cardinality(Holding(k))
  BY DEF VolumeInv, VolumeIsStore, Holding
<1>3. /\ DOMAIN volume' = DOMAIN volume
      /\ \A k \in Kinds : volume'[k] = IF k = "message" THEN volume[k] + 1 ELSE volume[k]
      /\ \A f \in Forms : volume'[f] = IF f = form THEN volume[f] + 1 ELSE volume[f]
  BY DEF VolumeInv, Kinds, Forms, Tallied
<1>4. \A k \in Kinds : volume'[k] = Cardinality(Holding(k)')
  BY <1>1, <1>2, <1>3
<1>5. \A f \in Forms : volume[f] \in Nat /\ volume'[f] \in Nat
  <2>1. \A f \in Forms : volume[f] \in Nat /\ volume[f] + 1 \in Nat
    BY FormsCounted
  <2> QED
    BY <1>3, <2>1, Zenon
<1>6. volume'.direct + volume'.team + volume'.broadcast = Len(messages')
  <2> DEFINE d == volume["direct"]  t == volume["team"]  b == volume["broadcast"]
             D == volume'["direct"] T == volume'["team"] B == volume'["broadcast"]
  <2>1. /\ volume.direct + volume.team + volume.broadcast = d + t + b
        /\ volume'.direct + volume'.team + volume'.broadcast = D + T + B
    OBVIOUS
  <2>2. d + t + b = Len(messages)
    BY <2>1 DEF VolumeInv, VolumeIsStore
  <2>3. d \in Nat /\ t \in Nat /\ b \in Nat
    BY <1>5 DEF Forms
  <2>4. \/ D = d + 1 /\ T = t /\ B = b
        \/ D = d /\ T = t + 1 /\ B = b
        \/ D = d /\ T = t /\ B = b + 1
    BY <1>3, Zenon DEF Forms
  <2> HIDE DEF d, t, b, D, T, B
  <2>5. D + T + B = (d + t + b) + 1
    BY <2>3, <2>4
  <2> QED
    BY <2>1, <2>2, <2>5
<1> QED
  BY <1>3, <1>4, <1>5, <1>6 DEF VolumeInv, VolumeIsStore, Holding

LEMMA VolumeStep ==
  ASSUME LedgerInv, VolumeInv, [LNext]_ledgerVars
  PROVE  VolumeInv'
<1>1. ASSUME UNCHANGED <<volume, store, messages>> PROVE VolumeInv'
  BY <1>1 DEF VolumeInv, VolumeIsStore
<1>2. ASSUME NEW s \in Sender, NEW address \in Address, NEW ok \in Embedding,
             HandlePostMessage(s, address, ok), LNext
      PROVE  VolumeInv'
  <2>1. CASE ok
    <3> DEFINE event == [kind |-> "message_sent", source |-> s, message |-> nextMessage,
                         address |-> address, ref |-> Entry]
    <3>1. /\ Append1(event) /\ Insert(s, "message")
          /\ Len(messages') = Len(messages) + 1
      BY <1>2, <2>1 DEF HandlePostMessage, LedgerInv, Recorded
    <3>2. event.kind = "message_sent" /\ event.address = address
      OBVIOUS
    <3> HIDE DEF event
    <3>3. FoldSent(event, Len(log) + 1)
      BY <1>2, <3>1, <3>2, Folds, FoldKinds
    <3>4. address.form \in Forms
      BY DEF Address, Direct, ToTeam, Broadcast, Forms
    <3>5. \E depth : Tallied(address.form, depth)
      BY <3>2, <3>3 DEF FoldSent, Tallied
    <3> QED
      BY <3>1, <3>4, <3>5, VolumeSent
  <2>2. CASE ~ok
    <3>1. UNCHANGED <<log, store, messages>>
      BY <1>2, <2>2 DEF HandlePostMessage
    <3> QED
      BY <1>1, <1>2, <3>1, FoldsNothing
  <2> QED
    BY <2>1, <2>2
<1>3. ASSUME NEW s \in Sender, HandleWriteKnowledge(s), LNext PROVE VolumeInv'
  <2> DEFINE event == [kind |-> "knowledge_written", source |-> s, ref |-> Entry]
  <2>1. Append1(event) /\ Insert(s, "note") /\ UNCHANGED messages
    BY <1>3 DEF HandleWriteKnowledge
  <2>2. event.kind = "knowledge_written"
    OBVIOUS
  <2> HIDE DEF event
  <2>3. volume' = [volume EXCEPT !["note"] = @ + 1]
    BY <1>3, <2>1, <2>2, Folds, FoldKinds
  <2> QED
    BY <2>1, <2>3, VolumeNote
<1>4. ASSUME NEW a \in Sender, HandleComplete(a), LNext PROVE VolumeInv'
  <2> DEFINE event == [kind |-> "task_completed", source |-> a, ref |-> Entry]
  <2>1. Append1(event) /\ Insert(a, "completion") /\ UNCHANGED messages
    BY <1>4 DEF HandleComplete
  <2>2. event.kind = "task_completed"
    OBVIOUS
  <2> HIDE DEF event
  <2>3. volume' = [volume EXCEPT !["completion"] = @ + 1]
    BY <1>4, <2>1, <2>2, Folds, FoldKinds
  <2> QED
    BY <2>1, <2>3, VolumeNote
<1>5. ASSUME NEW event, Append1(event), LNext, UNCHANGED <<store, messages>>,
             event.kind \in {"team_formed", "team_members_set", "team_dissolved",
                             "messages_delivered"}
      PROVE  VolumeInv'
  <2>1. UNCHANGED volume
    BY <1>5, Folds, FoldKinds DEF FoldDelivered
  <2> QED
    BY <1>1, <1>5, <2>1
<1>6. ASSUME NEW t \in Team, NEW m \in MemberList, LNext,
             HandleFormTeam(t, m) \/ HandleSetTeamMembers(t, m) \/ HandleDissolveTeam(t)
      PROVE  VolumeInv'
  BY <1>5, <1>6 DEF HandleFormTeam, HandleSetTeamMembers, HandleDissolveTeam
<1>7. ASSUME NEW t \in Team, LNext, HandleDissolveTeam(t) PROVE VolumeInv'
  BY <1>5, <1>7 DEF HandleDissolveTeam
<1>8. ASSUME NEW r \in Endpoint, NEW n, AssembleTurn(r, n), LNext PROVE VolumeInv'
  BY <1>5, <1>8 DEF AssembleTurn
<1>9. CASE UNCHANGED ledgerVars
  BY <1>1, <1>9 DEF ledgerVars, msgVars
<1> QED
  BY <1>2, <1>3, <1>4, <1>6, <1>7, <1>8, <1>9 DEF LNext, Next

(* The summary's volumes are those of the store, and its messages by form  *)
(* add up to the messages accepted: the fold counts every ingest once and  *)
(* a failed embedding not at all.                                          *)
THEOREM VolumesAddUp == LSpec => []VolumeIsStore
<1>1. LInit => LedgerInv /\ VolumeInv
  <2> SUFFICES ASSUME LInit PROVE VolumeInv
    BY InitLedgerInv DEF LInit
  <2>1. /\ store = <<>> /\ messages = <<>>
        /\ volume = [direct |-> 0, team |-> 0, broadcast |-> 0, message |-> 0,
                     note |-> 0, completion |-> 0, maxDepth |-> 0]
    BY DEF LInit, Init
  <2>2. \A k : {e \in DOMAIN store : store[e].kind = k} = {}
    BY <2>1
  <2> QED
    BY <2>1, <2>2, FS_EmptySet DEF VolumeInv, VolumeIsStore, Forms, Kinds
<1>2. LedgerInv /\ VolumeInv /\ [LNext]_ledgerVars => LedgerInv' /\ VolumeInv'
  <2>1. [LNext]_ledgerVars => [Next]_msgVars
    BY DEF LNext, ledgerVars
  <2> QED
    BY <2>1, LedgerStep, VolumeStep
<1>3. VolumeInv => VolumeIsStore
  BY DEF VolumeInv
<1> QED
  BY <1>1, <1>2, <1>3, PTL DEF LSpec

----------------------------------------------------------------------------
(* The folded mailboxes.  First one endpoint's: its mail, what the fold    *)
(* holds of it, and the ids that are not compared.                         *)
Pending(N) == [id : 1 .. N, sent : Nat]
Ids(s) == [i \in DOMAIN s |-> s[i].id]
SameMail(p, m, apart) == Without(Ids(p), apart) = Without(m, apart)
Once(m, apart) == \A i, j \in DOMAIN m : m[i] = m[j] => i = j \/ m[i] \in apart

LEMMA IdsType ==
  ASSUME NEW N \in Nat, NEW s \in Seq(Pending(N))
  PROVE  Ids(s) \in Seq(1 .. N) /\ Len(Ids(s)) = Len(s)
<1>1. \A i \in 1 .. Len(s) : s[i].id \in 1 .. N
  <2>1. \A i \in 1 .. Len(s) : s[i] \in Pending(N)
    OBVIOUS
  <2> QED
    BY <2>1 DEF Pending
<1> QED
  BY <1>1 DEF Ids

LEMMA IdsAppend ==
  ASSUME NEW N \in Nat, NEW s \in Seq(Pending(N)), NEW p \in Pending(N)
  PROVE  Ids(Append(s, p)) = Append(Ids(s), p.id)
<1> DEFINE t == Append(s, p)
<1>1. /\ t \in Seq(Pending(N)) /\ Len(t) = Len(s) + 1 /\ Len(s) \in Nat
      /\ \A i \in 1 .. Len(s) : t[i] = s[i]
      /\ t[Len(s) + 1] = p
  BY AppendProperties
<1> HIDE DEF t
<1>2. Ids(s) \in Seq(1 .. N) /\ Len(Ids(s)) = Len(s) /\ p.id \in 1 .. N
  BY IdsType DEF Pending
<1>3. DOMAIN t = 1 .. Len(s) + 1 /\ DOMAIN s = 1 .. Len(s)
  BY <1>1
<1>4. OneLonger(Ids(t), Ids(s), p.id)
  BY <1>1, <1>2, <1>3 DEF OneLonger, Ids
<1> QED
  BY <1>2, <1>4, AppendIs DEF t

LEMMA IdsCopies ==
  ASSUME NEW N \in Nat, NEW s \in Seq(Pending(N)), NEW p \in Pending(N), NEW k \in Nat
  PROVE  /\ s \o Copies(p, k) \in Seq(Pending(N))
         /\ Ids(s \o Copies(p, k)) = Ids(s) \o Copies(p.id, k)
<1> DEFINE c == Copies(p, k)
           d == Copies(p.id, k)
           ids == Ids(s)
           t == s \o c
           u == ids \o d
<1>1. /\ c \in Seq(Pending(N)) /\ Len(c) = k /\ \A i \in 1 .. k : c[i] = p
      /\ d \in Seq(1 .. N) /\ Len(d) = k /\ \A i \in 1 .. k : d[i] = p.id
  BY DEF Copies, Pending
<1> HIDE DEF c, d
<1>2. /\ t \in Seq(Pending(N)) /\ Len(t) = Len(s) + k
      /\ \A i \in 1 .. Len(s) + k : t[i] = IF i <= Len(s) THEN s[i] ELSE c[i - Len(s)]
  <2> DEFINE Y == Pending(N)
  <2>1. s \in Seq(Y) /\ c \in Seq(Y) /\ Len(c) = k
    BY <1>1
  <2> HIDE DEF Y
  <2>2. /\ s \o c \in Seq(Y) /\ Len(s \o c) = Len(s) + Len(c)
        /\ \A i \in 1 .. Len(s) + Len(c) :
             (s \o c)[i] = IF i <= Len(s) THEN s[i] ELSE c[i - Len(s)]
    BY <2>1, ConcatProperties, Zenon
  <2> QED
    BY <2>1, <2>2 DEF Y
<1>3. /\ ids \in Seq(1 .. N) /\ Len(ids) = Len(s) /\ Len(s) \in Nat
      /\ \A i \in 1 .. Len(s) : ids[i] = s[i].id
  BY IdsType DEF Ids
<1> HIDE DEF ids
<1>4. /\ u \in Seq(1 .. N) /\ Len(u) = Len(s) + k
      /\ \A i \in 1 .. Len(s) + k : u[i] = IF i <= Len(s) THEN ids[i] ELSE d[i - Len(s)]
  <2> DEFINE Y == 1 .. N
  <2>1. ids \in Seq(Y) /\ d \in Seq(Y) /\ Len(ids) = Len(s) /\ Len(d) = k
    BY <1>1, <1>3
  <2> HIDE DEF Y
  <2>2. /\ ids \o d \in Seq(Y) /\ Len(ids \o d) = Len(ids) + Len(d)
        /\ \A i \in 1 .. Len(ids) + Len(d) :
             (ids \o d)[i] = IF i <= Len(ids) THEN ids[i] ELSE d[i - Len(ids)]
    BY <2>1, ConcatProperties, Zenon
  <2> QED
    BY <2>1, <2>2 DEF Y
<1> HIDE DEF t, u
<1>5. Ids(t) \in Seq(1 .. N) /\ Len(Ids(t)) = Len(t) /\ DOMAIN t = 1 .. Len(t)
  BY <1>2, IdsType
<1>6. ASSUME NEW i \in 1 .. Len(s) + k PROVE Ids(t)[i] = u[i]
  <2>1. Ids(t)[i] = t[i].id
    BY <1>2, <1>5 DEF Ids
  <2>2. CASE i <= Len(s)
    <3>1. i \in 1 .. Len(s)
      BY <1>3, <2>2
    <3>2. ids[i] = s[i].id
      BY <1>3, <3>1
    <3> QED
      BY <1>2, <1>4, <2>1, <2>2, <3>2
  <2>3. CASE ~(i <= Len(s))
    <3>1. i - Len(s) \in 1 .. k
      BY <1>3, <2>3
    <3> QED
      BY <1>1, <1>2, <1>4, <2>1, <2>3, <3>1
  <2> QED
    BY <2>2, <2>3
<1>7. Ids(t) = u
  BY <1>2, <1>4, <1>5, <1>6, SeqEqual
<1> QED
  BY <1>2, <1>7 DEF t, u, c, d, ids

(* To filter by id and to read the ids commute.                            *)
LEMMA IdsWithout ==
  ASSUME NEW N \in Nat, NEW D
  PROVE  \A s \in Seq(Pending(N)) :
           Ids(Without(s, {p \in Pending(N) : p.id \in D})) = Without(Ids(s), D)
<1> DEFINE X == Pending(N)
           gone == {p \in X : p.id \in D}
           S == {s \in Seq(X) : Ids(Without(s, gone)) = Without(Ids(s), D)}
<1>1. <<>> \in S
  <2>1. Ids(<<>>) = <<>>
    BY DEF Ids
  <2> QED
    BY <2>1, WithoutEmpty
<1>2. ASSUME NEW s \in Seq(X), NEW p \in X, s \in S PROVE Append(s, p) \in S
  <2>1. Append(s, p) \in Seq(X) /\ Ids(Append(s, p)) = Append(Ids(s), p.id)
    BY IdsAppend
  <2>2. Ids(s) \in Seq(1 .. N) /\ p.id \in 1 .. N
    BY IdsType DEF Pending
  <2>3. Without(Append(Ids(s), p.id), D) =
          IF p.id \in D THEN Without(Ids(s), D) ELSE Append(Without(Ids(s), D), p.id)
    <3> DEFINE ids == Ids(s)
               id == p.id
    <3>1. ids \in Seq(1 .. N) /\ id \in 1 .. N
      BY <2>2
    <3> HIDE DEF ids, id
    <3>2. Without(Append(ids, id), D) =
            IF id \in D THEN Without(ids, D) ELSE Append(Without(ids, D), id)
      BY <3>1, WithoutAppend
    <3> QED
      BY <3>2 DEF ids, id
  <2>4. Without(Append(s, p), gone) =
          IF p \in gone THEN Without(s, gone) ELSE Append(Without(s, gone), p)
    BY WithoutAppend
  <2>5. p \in gone <=> p.id \in D
    OBVIOUS
  <2>6. Without(s, gone) \in Seq(X) /\ Ids(Without(s, gone)) = Without(Ids(s), D)
    BY <1>2, WithoutType
  <2> HIDE DEF gone
  <2>7. Ids(Append(Without(s, gone), p)) = Append(Ids(Without(s, gone)), p.id)
    BY <2>6, IdsAppend
  <2> QED
    BY <2>1, <2>3, <2>4, <2>5, <2>6, <2>7
<1>3. \A s \in Seq(X), p \in X : s \in S => Append(s, p) \in S
  BY <1>2
<1> HIDE DEF S, X
<1>4. \A s \in Seq(X) : s \in S
  BY <1>1, <1>3, SequenceInduction
<1> QED
  BY <1>4 DEF S, X

(* A message that is posted is compared and stands in both as often, or it *)
(* is not compared.                                                        *)
LEMMA MailPosted ==
  ASSUME NEW N \in Nat, NEW n \in Nat, n = N + 1, NEW A \in SUBSET (1 .. N),
         NEW B, \A x \in 1 .. N : x \in A <=> x \in B,
         NEW m \in Seq(1 .. N), NEW p \in Seq(Pending(N)), NEW at \in Nat,
         NEW k \in Nat, NEW f \in Nat, n \in B \/ (k = f /\ k <= 1),
         SameMail(p, m, A), Once(m, A)
  PROVE  /\ SameMail(p \o Copies([id |-> n, sent |-> at], f), m \o Copies(n, k), B)
         /\ Once(m \o Copies(n, k), B)
<1> DEFINE new == [id |-> n, sent |-> at]
<1>1. /\ m \in Seq(1 .. n) /\ p \in Seq(Pending(n)) /\ new \in Pending(n) /\ new.id = n
      /\ n \in 1 .. n
  <2>1. \A x \in 1 .. N : x \in 1 .. n
    OBVIOUS
  <2>2. m \in Seq(1 .. n)
    BY <2>1
  <2>3. \A x \in Pending(N) : x \in Pending(n)
    BY <2>1 DEF Pending
  <2>4. p \in Seq(Pending(n))
    BY <2>3
  <2>5. n \in 1 .. n
    OBVIOUS
  <2> QED
    BY <2>2, <2>4, <2>5 DEF Pending
<1> HIDE DEF new
<1>2. Ids(p \o Copies(new, f)) = Ids(p) \o Copies(n, f) /\ Ids(p) \in Seq(1 .. N)
  <2>1. Ids(p) \in Seq(1 .. N)
    BY IdsType
  <2>2. Ids(p \o Copies(new, f)) = Ids(p) \o Copies(new.id, f)
    BY <1>1, IdsCopies
  <2> QED
    BY <1>1, <2>1, <2>2
<1>3. Ids(p) \in Seq(1 .. n)
  BY <1>1, IdsType
<1>4. \A c \in Nat : Copies(n, c) \in Seq({n}) /\ Copies(n, c) \in Seq(1 .. n)
  BY <1>1 DEF Copies
<1>5. \A s \in Seq(1 .. N) : Without(s, A) = Without(s, B)
  BY WithoutMatters
<1>6. Without(m, B) = Without(Ids(p), B)
  BY <1>2, <1>5 DEF SameMail
<1>7. Without(Copies(n, k), B) = Without(Copies(n, f), B)
  <2>1. CASE n \in B
    <3>1. \A s \in Seq({n}) : s \in Seq(B)
      BY <2>1
    <3>2. Copies(n, k) \in Seq(B) /\ Copies(n, f) \in Seq(B)
      BY <1>4, <3>1
    <3> QED
      BY <3>2, WithoutAll
  <2> QED
    BY <2>1
<1>8. /\ Without(m \o Copies(n, k), B) = Without(m, B) \o Without(Copies(n, k), B)
      /\ Without(Ids(p) \o Copies(n, f), B) = Without(Ids(p), B) \o Without(Copies(n, f), B)
  <2> DEFINE ids == Ids(p)
             c == Copies(n, k)
             d == Copies(n, f)
  <2>1. ids \in Seq(1 .. n) /\ c \in Seq(1 .. n) /\ d \in Seq(1 .. n)
    BY <1>3, <1>4
  <2> HIDE DEF ids, c, d
  <2>2. /\ Without(m \o c, B) = Without(m, B) \o Without(c, B)
        /\ Without(ids \o d, B) = Without(ids, B) \o Without(d, B)
    BY <1>1, <2>1, WithoutConcat, SMTT(30)
  <2> QED
    BY <2>2 DEF ids, c, d
<1>9. SameMail(p \o Copies(new, f), m \o Copies(n, k), B)
  BY <1>2, <1>6, <1>7, <1>8 DEF SameMail
<1>10. Once(m \o Copies(n, k), B)
  <2> DEFINE c == Copies(n, k)
             t == m \o c
  <2>1. Len(c) = k /\ \A i \in 1 .. k : c[i] = n
    BY DEF Copies
  <2>2. c \in Seq(1 .. n)
    BY <1>4
  <2> HIDE DEF c
  <2>3. /\ DOMAIN t = 1 .. Len(m) + k /\ Len(m) \in Nat
        /\ \A i \in 1 .. Len(m) + k : t[i] = IF i <= Len(m) THEN m[i] ELSE c[i - Len(m)]
    <3>1. t \in Seq(1 .. n) /\ Len(t) = Len(m) + k
      BY <1>1, <2>1, <2>2, ConcatProperties
    <3> HIDE DEF t
    <3>2. DOMAIN t = 1 .. Len(m) + k
      BY <3>1
    <3> QED
      BY <1>1, <2>1, <2>2, <3>2, ConcatProperties DEF t
  <2> HIDE DEF t
  <2>4. ASSUME NEW i \in 1 .. Len(m) + k
        PROVE  \/ i \in DOMAIN m /\ t[i] = m[i] /\ m[i] \in 1 .. N
               \/ i \in Len(m) + 1 .. Len(m) + k /\ t[i] = n
    <3>1. CASE i <= Len(m)
      <4>1. i \in 1 .. Len(m)
        BY <2>3, <3>1
      <4> QED
        BY <2>3, <3>1, <4>1
    <3>2. CASE ~(i <= Len(m))
      <4>1. i - Len(m) \in 1 .. k /\ i \in Len(m) + 1 .. Len(m) + k
        BY <2>3, <3>2
      <4> QED
        BY <2>1, <2>3, <3>2, <4>1
    <3> QED
      BY <3>1, <3>2
  <2>5. ASSUME NEW i \in DOMAIN t, NEW j \in DOMAIN t, t[i] = t[j], t[i] \notin B
        PROVE  i = j
    <3>1. n \notin 1 .. N
      OBVIOUS
    <3>2. CASE i \in DOMAIN m /\ t[i] = m[i] /\ m[i] \in 1 .. N
      <4>1. j \in DOMAIN m /\ t[j] = m[j]
        BY <2>3, <2>4, <2>5, <3>1, <3>2, ZenonT(60)
      <4>2. m[i] \notin A
        BY <2>5, <3>2
      <4> QED
        BY <2>5, <3>2, <4>1, <4>2 DEF Once
    <3>3. CASE i \in Len(m) + 1 .. Len(m) + k /\ t[i] = n
      <4>1. j \in Len(m) + 1 .. Len(m) + k
        BY <2>3, <2>4, <2>5, <3>1, <3>3
      <4>2. k <= 1
        BY <2>5, <3>3
      <4> QED
        BY <2>3, <3>3, <4>1, <4>2
    <3> QED
      BY <2>3, <2>4, <2>5, <3>2, <3>3
  <2> QED
    BY <2>5 DEF Once, t, c
<1> QED
  BY <1>9, <1>10 DEF new

(* The oldest of the mail are delivered: the fold takes those it holds out *)
(* wherever they stand, and of the compared none is delivered twice.       *)
LEMMA MailDrained ==
  ASSUME NEW N \in Nat, NEW A, NEW m \in Seq(1 .. N), NEW p \in Seq(Pending(N)),
         NEW n \in 1 .. Len(m), SameMail(p, m, A), Once(m, A)
  PROVE  LET given == SubSeq(m, 1, n)
             rest == SubSeq(m, n + 1, Len(m))
         IN  /\ Undelivered(p, given) \in Seq(Pending(N)) /\ rest \in Seq(1 .. N)
             /\ \A i \in DOMAIN Undelivered(p, given) : \E j \in DOMAIN p :
                  Undelivered(p, given)[i] = p[j]
             /\ SameMail(Undelivered(p, given), rest, A) /\ Once(rest, A)
<1> DEFINE given == SubSeq(m, 1, n)
           rest == SubSeq(m, n + 1, Len(m))
           D == ToSet(given)
           left == Undelivered(p, given)
           Y == 1 .. N
<1>1. /\ given \in Seq(Y) /\ Len(given) = n /\ \A i \in 1 .. n : given[i] = m[i]
      /\ rest \in Seq(Y) /\ Len(rest) = Len(m) - n
      /\ \A i \in 1 .. Len(m) - n : rest[i] = m[n + i]
      /\ given \o rest = m /\ Len(m) \in Nat /\ n \in Nat
  <2>1. /\ n \in Int /\ Len(m) \in Nat /\ n \in 1 - 1 .. Len(m) /\ Len(m) \in n .. Len(m)
        /\ 1 \in 1 .. Len(m) + 1 /\ n \in Nat
    OBVIOUS
  <2>2. \A i \in 1 .. Len(m) : m[i] \in Y
    OBVIOUS
  <2>3. given \o rest = SubSeq(m, 1, Len(m))
    BY <2>1, ConcatAdjacentSubSeq
  <2>4. SubSeq(m, 1, Len(m)) = m
    BY SubSeqFull
  <2>5. (\A i \in 1 .. n : m[i] \in Y) /\ \A i \in n + 1 .. Len(m) : m[i] \in Y
    BY <2>1, <2>2
  <2> HIDE DEF Y
  <2>6. /\ given \in Seq(Y) /\ Len(given) = n
        /\ \A i \in 1 .. n : given[i] = m[i]
    BY <2>1, <2>5, SubSeqProperties
  <2>7. /\ rest \in Seq(Y) /\ Len(rest) = Len(m) - n
        /\ \A i \in 1 .. Len(m) - n : rest[i] = m[n + i]
    BY <2>1, <2>5, SubSeqProperties
  <2> QED
    BY <2>1, <2>3, <2>4, <2>6, <2>7
<1> HIDE DEF given, rest
<1>0. PICK l \in Nat : l = Len(m)
  BY <1>1
<1>9. /\ DOMAIN m = 1 .. l /\ DOMAIN rest = 1 .. l - n /\ DOMAIN given = 1 .. n
      /\ \A j \in 1 .. l - n : n + j \in 1 .. l /\ rest[j] = m[n + j]
      /\ \A i \in 1 .. n : i \in 1 .. l /\ \A j \in 1 .. l - n : i # n + j
      /\ \A i, j \in 1 .. l - n : n + i = n + j => i = j
  <2>1. n \in 1 .. l /\ n \in Nat
    BY <1>0, <1>1
  <2>2. \A j \in 1 .. l - n : n + j \in 1 .. l
    BY <1>0, <2>1
  <2>3. \A i \in 1 .. n : i \in 1 .. l /\ \A j \in 1 .. l - n : i # n + j
    BY <1>0, <2>1
  <2>4. \A i, j \in 1 .. l - n : n + i = n + j => i = j
    BY <2>1
  <2>5. \A j \in 1 .. l - n : rest[j] = m[n + j]
    BY <1>0, <1>1
  <2>6. DOMAIN m = 1 .. l /\ DOMAIN rest = 1 .. l - n /\ DOMAIN given = 1 .. n
    BY <1>0, <1>1
  <2> QED
    BY <2>2, <2>3, <2>4, <2>5, <2>6
<1>2. \A x : x \in D <=> \E i \in 1 .. n : x = m[i]
  <2>1. DOMAIN given = 1 .. n /\ \A i \in 1 .. n : given[i] = m[i]
    BY <1>1, <1>9
  <2> QED
    BY <2>1 DEF ToSet
<1>3. /\ left \in Seq(Pending(N))
      /\ left = Without(p, {q \in Pending(N) : q.id \in D})
      /\ \A x : Occurs(x, left) => Occurs(x, p)
  <2> DEFINE out == {q \in ToSet(p) : q.id \in D}
             gone == {q \in Pending(N) : q.id \in D}
  <2>1. left = Without(p, out)
    BY DEF Undelivered
  <2>2. \A x \in Pending(N) : Occurs(x, p) => x \in ToSet(p)
    BY DEF Occurs, ToSet
  <2>3. \A x \in Pending(N) : Occurs(x, p) => (x \in out <=> x \in gone)
    BY <2>2
  <2> HIDE DEF out, gone, left
  <2>4. Without(p, out) = Without(p, gone)
    BY <2>3, WithoutMatters
  <2>5. Without(p, gone) \in Seq(Pending(N))
    BY WithoutType
  <2>6. \A x : Occurs(x, Without(p, gone)) => Occurs(x, p)
    BY WithoutOccurs
  <2> QED
    BY <2>1, <2>4, <2>5, <2>6 DEF gone
<1> HIDE DEF left
<1>4. Ids(left) = Without(Ids(p), D) /\ Ids(p) \in Seq(Y)
  BY <1>3, IdsWithout, IdsType
<1>5. Once(rest, A)
  <2>1. ASSUME NEW i \in 1 .. l - n, NEW j \in 1 .. l - n, rest[i] = rest[j]
        PROVE  i = j \/ rest[i] \in A
    <3>1. n + i = n + j \/ m[n + i] \in A
      BY <1>9, <2>1, Zenon DEF Once
    <3> QED
      BY <1>9, <2>1, <3>1, Zenon
  <2> QED
    BY <1>9, <2>1, Zenon DEF Once
<1>6. \A x \in Y : Occurs(x, rest) => (x \in A \cup D <=> x \in A)
  <2> SUFFICES ASSUME NEW x, Occurs(x, rest), x \in D PROVE x \in A
    OBVIOUS
  <2>1. PICK i \in 1 .. n : x = m[i]
    BY <1>2
  <2>2. PICK j \in 1 .. l - n : x = rest[j]
    BY <1>9, Zenon DEF Occurs
  <2>3. x = m[n + j] /\ n + j \in 1 .. l /\ i \in 1 .. l /\ i # n + j
    BY <1>9, <2>2, Zenon
  <2> QED
    BY <1>9, <2>1, <2>3, ZenonT(60) DEF Once
<1>7. SameMail(left, rest, A)
  <2> HIDE DEF D, Y
  <2> DEFINE ids == Ids(p)
             G == A \cup D
  <2>0. ids \in Seq(Y) /\ m \in Seq(Y) /\ Without(ids, A) = Without(m, A)
    BY <1>4 DEF SameMail, Y
  <2> HIDE DEF ids
  <2>1. Without(Without(ids, D), A) = Without(ids, D \cup A)
    BY <2>0, WithoutBoth
  <2>2. /\ Without(Without(ids, A), D) = Without(ids, G)
        /\ Without(Without(m, A), D) = Without(m, G)
    BY <2>0, WithoutBoth
  <2>3. D \cup A = G
    OBVIOUS
  <2>4. /\ \A i \in 1 .. n : given[i] \in G
        /\ \A x \in Y : Occurs(x, rest) => (x \in G <=> x \in A)
    BY <1>1, <1>2, <1>6
  <2> HIDE DEF G
  <2>5. Without(m, G) = Without(given, G) \o Without(rest, G)
    <3>1. given \in Seq(Y) /\ rest \in Seq(Y) /\ given \o rest = m
      BY <1>1
    <3>2. Without(given \o rest, G) = Without(given, G) \o Without(rest, G)
      BY <3>1, WithoutConcat
    <3> QED
      BY <3>1, <3>2
  <2>6. Without(given, G) = <<>>
    <3>1. given \in Seq(G)
      <4>1. given \in Seq(Y) /\ DOMAIN given = 1 .. Len(given) /\ Len(given) = n
        BY <1>1
      <4>2. \A i \in 1 .. Len(given) : given[i] \in G
        BY <2>4, <4>1
      <4> QED
        BY <4>1, <4>2
    <3> QED
      BY <3>1, WithoutAll
  <2>10. Without(rest, G) = Without(rest, A)
    <3>1. rest \in Seq(Y)
      BY <1>1
    <3> QED
      BY <2>4, <3>1, WithoutMatters
  <2>7. Without(rest, A) \in Seq(Y)
    BY <1>1, WithoutType
  <2>8. <<>> \o Without(rest, A) = Without(rest, A)
    BY <2>7, ConcatEmptySeq
  <2>9. Without(Ids(left), A) = Without(rest, A)
    BY <1>4, <2>0, <2>1, <2>2, <2>3, <2>5, <2>6, <2>8, <2>10 DEF ids
  <2> QED
    BY <2>9 DEF SameMail
<1>8. \A i \in DOMAIN left : \E j \in DOMAIN p : left[i] = p[j]
  BY <1>3 DEF Occurs
<1> QED
  BY <1>1, <1>3, <1>5, <1>7, <1>8 DEF given, rest, left, Y

(* The teams the fold holds are the live ones, with their members.         *)
TeamsFolded ==
  \A t \in Team :
    /\ t \in DOMAIN teams <=> team[t].phase = "live"
    /\ t \in DOMAIN teams => teams[t] = team[t].members

MailHeld(r) ==
  /\ mailbox[r] \in Seq(1 .. Len(messages))
  /\ pending[r] \in Seq(Pending(Len(messages)))
  /\ SameMail(pending[r], mailbox[r], Apart(r)) /\ Once(mailbox[r], Apart(r))
  /\ \A i \in DOMAIN pending[r] : pending[r][i].sent = SentAt(pending[r][i].id)

MailInv ==
  /\ TeamsFolded
  /\ DOMAIN pending = Endpoint
  /\ \A r \in Endpoint : MailHeld(r)

LEMMA MailIsMail == MailInv => FoldedMailboxIsMailbox
BY DEF MailInv, MailHeld, FoldedMailboxIsMailbox, SameMail, Ids, PendingIds

LEMMA SentAtKept ==
  ASSUME Numbered, Numbered', NEW event, Grown(event), NEW n \in 1 .. Len(messages)
  PROVE  SentAt(n)' = SentAt(n)
<1>1. PICK i \in Sent : log[i].message = n
  BY DEF Numbered
<1>2. i \in Sent' /\ log'[i].message = n
  BY <1>1 DEF Sent, Grown
<1> QED
  BY <1>1, <1>2, SentAtIs, SentAtIsNext

LEMMA ApartKept ==
  ASSUME TrafficInv, TrafficInv', NEW event, Append1(event), UNCHANGED messages, NEW r
  PROVE  /\ Apart(r)' = Apart(r)
         /\ \A n \in 1 .. Len(messages) : SentAt(n)' = SentAt(n)
<1>1. Grown(event)
  BY LogGrows DEF TrafficInv
<1>2. \A n \in 1 .. Len(messages) : Audience(n)' = Audience(n) /\ SentAt(n)' = SentAt(n)
  BY <1>1, AudienceKept, SentAtKept DEF TrafficInv
<1>3. DOMAIN messages = 1 .. Len(messages)
  BY DEF TrafficInv, LedgerInv, Recorded
<1>4. \A m \in DOMAIN messages : Comparable(r, m)' <=> Comparable(r, m)
  BY <1>2, <1>3 DEF Comparable
<1> QED
  BY <1>2, <1>4 DEF Apart

(* An event that moves no mail.                                            *)
LEMMA MailUnmoved ==
  ASSUME TrafficInv, TrafficInv', NEW event, Append1(event), UNCHANGED messages,
         NEW r, MailHeld(r), mailbox'[r] = mailbox[r], pending'[r] = pending[r]
  PROVE  MailHeld(r)'
<1>1. /\ Apart(r)' = Apart(r)
      /\ \A n \in 1 .. Len(messages) : SentAt(n)' = SentAt(n)
  BY ApartKept
<1>2. ASSUME NEW i \in DOMAIN pending[r]
      PROVE  pending[r][i].sent = SentAt(pending[r][i].id)'
  <2>1. pending[r][i] \in Pending(Len(messages))
    BY DEF MailHeld
  <2>2. pending[r][i].id \in 1 .. Len(messages)
    BY <2>1 DEF Pending
  <2> QED
    BY <1>1, <2>2 DEF MailHeld
<1> QED
  BY <1>1, <1>2 DEF MailHeld

LEMMA TimesBounded ==
  ASSUME Held, NEW s \in Endpoint, NEW address \in Address,
         address.form = "team" => address.to \in DOMAIN teams,
         TeamsFolded, NEW r \in Endpoint
  PROVE  /\ RecipientsFor(s, address)[r] \in Nat
         /\ FoldedRecipients(s, address)[r] \in Nat
         /\ r # s => FoldedRecipients(s, address)[r] = RecipientsFor(s, address)[r]
<1> DEFINE one == team[address.to].members
           two == FoldedMembers(address.to)
<1>1. ASSUME address.form = "team"
      PROVE  one \in Seq(Agent) /\ two = one
  <2>1. address.to \in Team
    BY <1>1 DEF Address, Direct, ToTeam, Broadcast
  <2> QED
    BY <1>1, <2>1 DEF FoldedMembers, TeamsFolded, Held, TeamType
<1>2. Addressed(address, one, r) = Addressed(address, two, r)
  BY <1>1 DEF Addressed
<1>3. Addressed(address, one, r) \in Nat
  <2>1. CASE address.form = "team"
    BY <1>1, <2>1, TimesIsNat DEF Addressed
  <2>2. CASE address.form # "team"
    BY <2>2 DEF Addressed
  <2> QED
    BY <2>1, <2>2
<1>4. RecipientsFor(s, address)[r] = IF r = s THEN 0 ELSE Addressed(address, one, r)
  BY DEF RecipientsFor, Routed
<1>5. FoldedRecipients(s, address)[r] =
        IF r = s /\ address.form # "direct" THEN 0 ELSE Addressed(address, two, r)
  BY DEF FoldedRecipients
<1> HIDE DEF one, two
<1> QED
  BY <1>2, <1>3, <1>4, <1>5

LEMMA PostMail ==
  ASSUME TrafficInv, LedgerInv', MailInv, NEW s \in Endpoint, NEW address \in Address,
         HandlePostMessage(s, address, TRUE), LNext
  PROVE  MailInv'
<1> DEFINE event == [kind |-> "message_sent", source |-> s, message |-> nextMessage,
                     address |-> address, ref |-> Entry]
           msg == [id |-> nextMessage, sender |-> s, address |-> address, ref |-> Entry]
<1>0. PICK N \in Nat, n \in Nat, at \in Nat :
              N = Len(messages) /\ n = N + 1 /\ at = Len(log) + 1
  <2>1. Len(messages) \in Nat /\ Len(log) \in Nat
    BY DEF TrafficInv, LedgerInv, Recorded, LogIsSequence
  <2>2. \A i \in Nat : i + 1 \in Nat
    OBVIOUS
  <2> QED
    BY <2>1, <2>2, Zenon
<1> DEFINE new == [id |-> n, sent |-> at]
<1>1. /\ Append1(event) /\ event.kind = "message_sent" /\ event.source = s
      /\ event.address = address /\ event.message = n
      /\ nextMessage = n /\ UNCHANGED team
      /\ mailbox' = Pushed(RecipientsFor(s, address), n)
      /\ messages' = Append(messages, msg) /\ messages \in Seq(Message)
      /\ address.form = "team" => team[address.to].phase = "live"
  BY <1>0, Parts DEF HandlePostMessage, TrafficInv, LedgerInv, Recorded
<1>2. msg.sender = s
  OBVIOUS
<1> HIDE DEF event, msg
<1>3. /\ TrafficInv' /\ Audience(n)' = RecipientsFor(s, address)
  BY <1>0, PostTraffic
<1>4. Grown(event) /\ Numbered /\ Numbered' /\ AudiencesKnown /\ Held
  BY <1>1, <1>3, LogGrows DEF TrafficInv
<1>5. FoldSent(event, at)
  BY <1>0, <1>1, Folds, FoldKinds DEF TrafficInv
<1>6. /\ pending' = [r \in Endpoint |->
             pending[r] \o Copies(new, FoldedRecipients(s, address)[r])]
      /\ UNCHANGED teams
  BY <1>1, <1>5 DEF FoldSent
<1>7. /\ DOMAIN messages = 1 .. N /\ DOMAIN messages' = 1 .. n
      /\ \A m \in 1 .. N : messages'[m] = messages[m]
      /\ messages'[n] = msg /\ Len(messages') = n
  BY <1>0, <1>1
<1>8. TeamsFolded'
  BY <1>1, <1>6 DEF MailInv, TeamsFolded
<1>9. \A m \in 1 .. N : Audience(m)' = Audience(m) /\ SentAt(m)' = SentAt(m)
  BY <1>0, <1>4, AudienceKept, SentAtKept
<1>10. SentAt(n)' = at
  <2>1. at \in Sent' /\ log'[at].message = n
    BY <1>0, <1>1, <1>4 DEF Sent, Grown
  <2> QED
    BY <1>4, <2>1, SentAtIsNext
<1>11. ASSUME NEW r \in Endpoint PROVE MailHeld(r)'
  <2> DEFINE k == RecipientsFor(s, address)[r]
             f == FoldedRecipients(s, address)[r]
             A == Apart(r)
             B == Apart(r)'
             m == mailbox[r]
             p == pending[r]
  <2>1. address.form = "team" => address.to \in DOMAIN teams
    BY <1>1 DEF Address, Direct, ToTeam, Broadcast, MailInv, TeamsFolded
  <2>2. k \in Nat /\ f \in Nat /\ (r # s => f = k)
    BY <1>1, <1>4, <2>1, TimesBounded DEF MailInv
  <2>3. A \in SUBSET (1 .. N) /\ \A x \in 1 .. N : x \in A <=> x \in B
    <3>1. \A x \in 1 .. N : x \in 1 .. n
      BY <1>0
    <3> QED
      BY <1>7, <1>9, <3>1 DEF Apart, Comparable
  <2>4. n \in B \/ (k = f /\ k <= 1)
    <3>1. n \in B <=> n \in DOMAIN messages' /\ ~(messages'[n].sender # r /\ Audience(n)'[r] <= 1)
      BY DEF Apart, Comparable
    <3>2. n \in DOMAIN messages'
      BY <1>0, <1>7
    <3> HIDE DEF k, f
    <3> QED
      BY <1>2, <1>3, <1>7, <2>2, <3>1, <3>2 DEF k
  <2>5. /\ m \in Seq(1 .. N) /\ p \in Seq(Pending(N)) /\ SameMail(p, m, A) /\ Once(m, A)
        /\ \A i \in DOMAIN p : p[i].sent = SentAt(p[i].id)
    BY <1>0 DEF MailInv, MailHeld
  <2>6. mailbox'[r] = m \o Copies(n, k) /\ pending'[r] = p \o Copies(new, f)
    BY <1>1, <1>6 DEF Pushed
  <2> HIDE DEF k, f, A, B, m, p
  <2>7. /\ SameMail(p \o Copies(new, f), m \o Copies(n, k), B)
        /\ Once(m \o Copies(n, k), B)
    <3>1. /\ SameMail(p \o Copies([id |-> n, sent |-> at], f), m \o Copies(n, k), B)
          /\ Once(m \o Copies(n, k), B)
      BY <1>0, <2>2, <2>3, <2>4, <2>5, MailPosted, ZenonT(30)
    <3> QED
      BY <3>1
  <2>8. m \o Copies(n, k) \in Seq(1 .. n)
    <3>1. \A x \in 1 .. N : x \in 1 .. n
      BY <1>0
    <3>2. m \in Seq(1 .. n) /\ n \in 1 .. n
      BY <1>0, <2>5, <3>1
    <3>3. Copies(n, k) \in Seq(1 .. n)
      BY <2>2, <3>2 DEF Copies
    <3> QED
      BY <3>2, <3>3, ConcatProperties
  <2>9. /\ p \in Seq(Pending(n)) /\ new \in Pending(n) /\ new.id = n /\ new.sent = at
    <3>1. \A x \in 1 .. N : x \in 1 .. n
      BY <1>0
    <3>2. \A x \in Pending(N) : x \in Pending(n)
      BY <3>1 DEF Pending
    <3>3. p \in Seq(Pending(n))
      BY <2>5, <3>2
    <3>4. n \in 1 .. n
      BY <1>0
    <3> QED
      BY <1>0, <3>3, <3>4 DEF Pending
  <2> HIDE DEF new
  <2>10. /\ Copies(new, f) \in Seq(Pending(n)) /\ Len(Copies(new, f)) = f
         /\ \A i \in 1 .. f : Copies(new, f)[i] = new
    BY <2>2, <2>9 DEF Copies
  <2> DEFINE c == Copies(new, f)
             q == p \o c
  <2> HIDE DEF c
  <2>11. /\ q \in Seq(Pending(n)) /\ Len(q) = Len(p) + f /\ Len(p) \in Nat
         /\ \A i \in 1 .. Len(p) + f : q[i] = IF i <= Len(p) THEN p[i] ELSE c[i - Len(p)]
    <3> DEFINE Y == Pending(n)
    <3>1. p \in Seq(Y) /\ c \in Seq(Y) /\ Len(c) = f
      BY <2>9, <2>10 DEF c
    <3> HIDE DEF Y
    <3>2. /\ p \o c \in Seq(Y) /\ Len(p \o c) = Len(p) + Len(c)
          /\ \A i \in 1 .. Len(p) + Len(c) :
               (p \o c)[i] = IF i <= Len(p) THEN p[i] ELSE c[i - Len(p)]
      BY <3>1, ConcatProperties, Zenon
    <3>3. Len(p) \in Nat
      BY <3>1
    <3> QED
      BY <3>1, <3>2, <3>3 DEF Y
  <2> HIDE DEF q
  <2>13. pending'[r] = q
    BY <2>6 DEF q, c
  <2>12. ASSUME NEW i \in DOMAIN q
         PROVE  pending'[r][i].sent = SentAt(pending[r][i].id)'
    <3>1. i \in 1 .. Len(p) + f
      BY <2>11
    <3>2. CASE i <= Len(p)
      <4>1. i \in DOMAIN p /\ q[i] = p[i] /\ p[i] \in Pending(N)
        BY <2>5, <2>11, <3>1, <3>2
      <4>2. PICK x \in 1 .. N : x = p[i].id
        BY <4>1 DEF Pending
      <4>3. SentAt(x)' = SentAt(x) /\ p[i].sent = SentAt(x)
        BY <1>9, <2>5, <4>1, <4>2
      <4>4. pending'[r][i].id = x /\ pending'[r][i].sent = SentAt(x)'
        BY <2>13, <4>1, <4>2, <4>3
      <4> QED
        BY <4>4
    <3>3. CASE ~(i <= Len(p))
      <4>1. i - Len(p) \in 1 .. f
        BY <2>2, <2>11, <3>1, <3>3
      <4>2. q[i] = new
        BY <2>10, <2>11, <3>1, <3>3, <4>1 DEF c
      <4>3. pending'[r][i].id = n /\ pending'[r][i].sent = at
        BY <2>9, <2>13, <4>2
      <4> QED
        BY <1>10, <4>3
    <3> QED
      BY <3>2, <3>3
  <2> QED
    BY <1>7, <2>6, <2>7, <2>8, <2>11, <2>12, <2>13 DEF MailHeld, B, q, c
<1>12. DOMAIN pending' = Endpoint
  BY <1>6
<1> QED
  BY <1>8, <1>11, <1>12 DEF MailInv

LEMMA DrainMail ==
  ASSUME TrafficInv, TrafficInv', MailInv, NEW r \in Endpoint, NEW n,
         AssembleTurn(r, n), LNext
  PROVE  MailInv'
<1> DEFINE event == [kind |-> "messages_delivered", source |-> r,
                     delivered |-> SubSeq(mailbox[r], 1, n)]
<1>1. /\ Append1(event) /\ UNCHANGED <<messages, team>>
      /\ n \in 1 .. Len(mailbox[r])
      /\ mailbox' = [mailbox EXCEPT ![r] = SubSeq(mailbox[r], n + 1, Len(mailbox[r]))]
  BY DEF AssembleTurn
<1>2. /\ event.kind = "messages_delivered" /\ event.source = r
      /\ event.delivered = SubSeq(mailbox[r], 1, n)
  OBVIOUS
<1> HIDE DEF event
<1>3. FoldDelivered(event)
  BY <1>1, <1>2, Folds, FoldKinds DEF TrafficInv
<1>4. /\ pending' = [pending EXCEPT ![r] = Undelivered(pending[r], SubSeq(mailbox[r], 1, n))]
      /\ UNCHANGED teams
  BY <1>2, <1>3 DEF FoldDelivered
<1>5. TeamsFolded' /\ DOMAIN pending' = Endpoint
  BY <1>1, <1>4 DEF MailInv, TeamsFolded
<1>6. ASSUME NEW q \in Endpoint, q # r PROVE MailHeld(q)'
  <2>1. mailbox'[q] = mailbox[q] /\ pending'[q] = pending[q] /\ MailHeld(q)
    BY <1>1, <1>4, <1>6 DEF TrafficInv, Held, MailInv
  <2> QED
    BY <1>1, <2>1, MailUnmoved
<1>7. MailHeld(r)'
  <2> DEFINE m == mailbox[r]
             p == pending[r]
             A == Apart(r)
             given == SubSeq(m, 1, n)
             rest == SubSeq(m, n + 1, Len(m))
             left == Undelivered(p, given)
  <2>1. PICK N \in Nat : N = Len(messages)
    BY DEF TrafficInv, LedgerInv, Recorded
  <2>2. /\ m \in Seq(1 .. N) /\ p \in Seq(Pending(N)) /\ SameMail(p, m, A) /\ Once(m, A)
        /\ \A i \in DOMAIN p : p[i].sent = SentAt(p[i].id)
    BY <2>1 DEF MailInv, MailHeld
  <2>3. mailbox'[r] = rest /\ pending'[r] = left
    BY <1>1, <1>4 DEF TrafficInv, Held, MailInv
  <2>4. /\ Apart(r)' = A /\ Len(messages') = N
        /\ \A x \in 1 .. N : SentAt(x)' = SentAt(x)
    BY <1>1, <2>1, ApartKept
  <2> HIDE DEF m, p, A
  <2>5. /\ left \in Seq(Pending(N)) /\ rest \in Seq(1 .. N)
        /\ \A i \in DOMAIN left : \E j \in DOMAIN p : left[i] = p[j]
        /\ SameMail(left, rest, A) /\ Once(rest, A)
    <3>1. n \in 1 .. Len(m)
      BY <1>1 DEF m
    <3> QED
      BY <2>2, <3>1, MailDrained
  <2> HIDE DEF left, rest
  <2>6. ASSUME NEW i \in DOMAIN left
        PROVE  pending'[r][i].sent = SentAt(pending[r][i].id)'
    <3>1. PICK j \in DOMAIN p : left[i] = p[j]
      BY <2>5
    <3>2. p[j] \in Pending(N)
      BY <2>2
    <3>3. PICK x \in 1 .. N : x = p[j].id
      BY <3>2 DEF Pending
    <3>4. pending'[r][i].id = x /\ pending'[r][i].sent = SentAt(x)'
      BY <2>2, <2>3, <2>4, <3>1, <3>3
    <3> QED
      BY <3>4
  <2> QED
    BY <2>3, <2>4, <2>5, <2>6 DEF MailHeld
<1> QED
  BY <1>5, <1>6, <1>7 DEF MailInv

LEMMA TeamMail ==
  ASSUME TrafficInv, TrafficInv', MailInv, NEW event, Append1(event),
         UNCHANGED <<messages, mailbox, pending>>, TeamsFolded'
  PROVE  MailInv'
BY MailUnmoved DEF MailInv

LEMMA MailStep ==
  ASSUME TrafficInv, LedgerInv', MailInv, [LNext]_ledgerVars
  PROVE  MailInv'
<1>0. TrafficInv'
  BY TrafficStep DEF LNext, ledgerVars
<1>1. ASSUME UNCHANGED <<team, store, nextMessage, messages, mailbox, log, teams, pending>>
      PROVE  MailInv'
  <2>1. Sent' = Sent
    BY <1>1 DEF Sent
  <2>2. \A n : SentAt(n)' = SentAt(n) /\ Audience(n)' = Audience(n)
    BY <1>1, <2>1 DEF Audience, SentAt, MembersAt, Names
  <2>3. \A r : Apart(r)' = Apart(r)
    BY <1>1, <2>2 DEF Apart, Comparable
  <2>4. ASSUME NEW r \in Endpoint PROVE MailHeld(r)'
    <3>1. MailHeld(r)
      BY DEF MailInv
    <3> QED
      BY <1>1, <2>2, <2>3, <3>1 DEF MailHeld
  <2> QED
    BY <1>1, <2>4 DEF MailInv, TeamsFolded
<1>2. ASSUME NEW s \in Sender, NEW address \in Address, NEW ok \in Embedding,
             HandlePostMessage(s, address, ok), LNext
      PROVE  MailInv'
  <2>1. s \in Endpoint
    BY MessagingConstants DEF MessagingConstants
  <2>2. CASE ok
    <3>1. HandlePostMessage(s, address, TRUE)
      BY <1>2, <2>2 DEF HandlePostMessage
    <3> QED
      BY <1>2, <2>1, <3>1, PostMail
  <2>3. CASE ~ok
    <3>1. UNCHANGED <<team, store, nextMessage, messages, mailbox, log>>
      BY <1>2, <2>3 DEF HandlePostMessage
    <3> QED
      BY <1>1, <1>2, <3>1, FoldsNothing
  <2> QED
    BY <2>2, <2>3
<1>3. ASSUME NEW s \in Sender, HandleWriteKnowledge(s), LNext PROVE MailInv'
  <2> DEFINE event == [kind |-> "knowledge_written", source |-> s, ref |-> Entry]
  <2>1. Append1(event) /\ UNCHANGED <<team, messages, mailbox>>
    BY <1>3 DEF HandleWriteKnowledge
  <2>2. event.kind = "knowledge_written"
    OBVIOUS
  <2> HIDE DEF event
  <2>3. UNCHANGED <<teams, pending>>
    BY <1>3, <2>1, <2>2, Folds, FoldKinds DEF TrafficInv
  <2>4. TeamsFolded'
    BY <2>1, <2>3 DEF MailInv, TeamsFolded
  <2> QED
    BY <1>0, <2>1, <2>3, <2>4, TeamMail
<1>4. ASSUME NEW a \in Sender, HandleComplete(a), LNext PROVE MailInv'
  <2> DEFINE event == [kind |-> "task_completed", source |-> a, ref |-> Entry]
  <2>1. Append1(event) /\ UNCHANGED <<team, messages, mailbox>>
    BY <1>4 DEF HandleComplete
  <2>2. event.kind = "task_completed"
    OBVIOUS
  <2> HIDE DEF event
  <2>3. UNCHANGED <<teams, pending>>
    BY <1>4, <2>1, <2>2, Folds, FoldKinds DEF TrafficInv
  <2>4. TeamsFolded'
    BY <2>1, <2>3 DEF MailInv, TeamsFolded
  <2> QED
    BY <1>0, <2>1, <2>3, <2>4, TeamMail
<1>5. ASSUME NEW t \in Team, NEW m \in MemberList, LNext, NEW event, Append1(event),
             event.kind \in {"team_formed", "team_members_set"},
             event.team = t, event.members = m, UNCHANGED <<messages, mailbox>>,
             team'[t].phase = "live", team'[t].members = m,
             \A u \in Team : u # t => team'[u] = team[u]
      PROVE  MailInv'
  <2>1. /\ teams' = [u \in DOMAIN teams \cup {t} |-> IF u = t THEN m ELSE teams[u]]
        /\ UNCHANGED pending
    <3>1. FoldEvent(event, Len(log) + 1)
      BY <1>5, Folds DEF TrafficInv
    <3>2. /\ teams' = [u \in DOMAIN teams \cup {event.team} |->
                         IF u = event.team THEN event.members ELSE teams[u]]
          /\ UNCHANGED <<pending, volume>>
      BY <1>5, <3>1, FoldKinds
    <3> QED
      BY <1>5, <3>2
  <2>2. TeamsFolded'
    BY <1>5, <2>1 DEF MailInv, TeamsFolded
  <2> QED
    BY <1>0, <1>5, <2>1, <2>2, TeamMail
<1>6. ASSUME NEW t \in Team, NEW m \in MemberList, HandleFormTeam(t, m), LNext
      PROVE  MailInv'
  <2> DEFINE event == [kind |-> "team_formed", source |-> Orchestrator,
                       team |-> t, members |-> m]
  <2>1. /\ Append1(event) /\ UNCHANGED <<messages, mailbox>>
        /\ team' = [team EXCEPT ![t] = [phase |-> "live", members |-> m]]
    BY <1>6 DEF HandleFormTeam
  <2>2. event.kind = "team_formed" /\ event.team = t /\ event.members = m
    OBVIOUS
  <2> HIDE DEF event
  <2>3. /\ team'[t].phase = "live" /\ team'[t].members = m
        /\ \A u \in Team : u # t => team'[u] = team[u]
    BY <2>1 DEF TrafficInv, Held, TeamType
  <2> QED
    BY <1>5, <1>6, <2>1, <2>2, <2>3
<1>7. ASSUME NEW t \in Team, NEW m \in MemberList, HandleSetTeamMembers(t, m), LNext
      PROVE  MailInv'
  <2> DEFINE event == [kind |-> "team_members_set", source |-> Orchestrator,
                       team |-> t, members |-> m]
  <2>1. /\ Append1(event) /\ UNCHANGED <<messages, mailbox>>
        /\ team[t].phase = "live" /\ team' = [team EXCEPT ![t].members = m]
    BY <1>7 DEF HandleSetTeamMembers
  <2>2. event.kind = "team_members_set" /\ event.team = t /\ event.members = m
    OBVIOUS
  <2> HIDE DEF event
  <2>3. /\ team'[t].phase = "live" /\ team'[t].members = m
        /\ \A u \in Team : u # t => team'[u] = team[u]
    BY <2>1 DEF TrafficInv, Held, TeamType
  <2> QED
    BY <1>5, <1>7, <2>1, <2>2, <2>3
<1>8. ASSUME NEW t \in Team, HandleDissolveTeam(t), LNext PROVE MailInv'
  <2> DEFINE event == [kind |-> "team_dissolved", source |-> Orchestrator, team |-> t]
  <2>1. /\ Append1(event) /\ UNCHANGED <<messages, mailbox>>
        /\ team' = [team EXCEPT ![t].phase = "dissolved"]
    BY <1>8 DEF HandleDissolveTeam
  <2>2. event.kind = "team_dissolved" /\ event.team = t
    OBVIOUS
  <2> HIDE DEF event
  <2>3. /\ team'[t].phase = "dissolved" /\ \A u \in Team : u # t => team'[u] = team[u]
    BY <2>1 DEF TrafficInv, Held, TeamType
  <2>4. /\ teams' = [u \in DOMAIN teams \ {t} |-> teams[u]] /\ UNCHANGED pending
    BY <1>8, <2>1, <2>2, Folds, FoldKinds DEF TrafficInv
  <2>5. TeamsFolded'
    BY <2>3, <2>4 DEF MailInv, TeamsFolded
  <2> QED
    BY <1>0, <2>1, <2>4, <2>5, TeamMail
<1>9. ASSUME NEW r \in Endpoint, NEW n, AssembleTurn(r, n), LNext PROVE MailInv'
  BY <1>0, <1>9, DrainMail
<1>10. CASE UNCHANGED ledgerVars
  BY <1>1, <1>10 DEF ledgerVars, msgVars
<1> QED
  BY <1>2, <1>3, <1>4, <1>6, <1>7, <1>8, <1>9, <1>10 DEF LNext, Next

LEMMA InitMail == LInit => MailInv
<1> SUFFICES ASSUME LInit PROVE MailInv
  OBVIOUS
<1>1. /\ messages = <<>> /\ mailbox = [r \in Endpoint |-> <<>>]
      /\ team = [t \in Team |-> [phase |-> "none", members |-> <<>>]]
      /\ teams = <<>> /\ pending = [r \in Endpoint |-> <<>>]
  BY DEF LInit, Init
<1>2. TeamsFolded
  BY <1>1 DEF TeamsFolded
<1>3. ASSUME NEW r \in Endpoint PROVE MailHeld(r)
  <2>1. mailbox[r] = <<>> /\ pending[r] = <<>> /\ Ids(<<>>) = <<>>
    BY <1>1 DEF Ids
  <2> QED
    BY <2>1 DEF MailHeld, SameMail, Once
<1> QED
  BY <1>1, <1>2, <1>3 DEF MailInv

(* The mailbox the metas see of an endpoint is the one it has: the fold,   *)
(* which knows events only, recomputes recipients from the teams it folded *)
(* and drops what was delivered by id, ends up with the same ids in the    *)
(* same order, as old as they are, whatever teams and drains come between. *)
THEOREM FoldedMail == LSpec => []FoldedMailboxIsMailbox
<1>1. LInit => LedgerInv /\ TrafficInv /\ MailInv
  BY InitLedgerInv, InitTraffic, InitMail DEF LInit
<1>2. LedgerInv /\ TrafficInv /\ MailInv /\ [LNext]_ledgerVars
        => LedgerInv' /\ TrafficInv' /\ MailInv'
  <2>1. [LNext]_ledgerVars => [Next]_msgVars
    BY DEF LNext, ledgerVars
  <2> QED
    BY <2>1, LedgerStep, TrafficStep, MailStep
<1>3. MailInv => FoldedMailboxIsMailbox
  BY MailIsMail
<1> QED
  BY <1>1, <1>2, <1>3, PTL DEF LSpec
=============================================================================
