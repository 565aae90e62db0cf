------------------------------- MODULE Ledger -------------------------------
(* The metrics fold (metrics.rs) over the events of Messaging: message      *)
(* traffic, mailbox pressure and knowledge volume as the metas' digest and  *)
(* the run summary report them.  The fold sees events only and recomputes   *)
(* recipients from the membership it has folded.                            *)
EXTENDS Messaging, Filtering

VARIABLES
  teams,    \* Metrics.teams: the live teams' members
  pending,  \* per endpoint the sent and undelivered, with the event of the send
  volume    \* messages_*, knowledge_*, mailbox_max_depth

ledgerVars == <<msgVars, teams, pending, volume>>

LInit ==
  /\ Init
  /\ teams = <<>>
  /\ pending = [r \in Endpoint |-> <<>>]
  /\ volume = [direct |-> 0, team |-> 0, broadcast |-> 0,
               message |-> 0, note |-> 0, completion |-> 0, maxDepth |-> 0]

(* Metrics::recipients: the sender is left out of team and broadcast only. *)
FoldedMembers(t) == IF t \in DOMAIN teams THEN teams[t] ELSE <<>>
FoldedRecipients(sender, address) ==
  [r \in Endpoint |-> IF r = sender /\ address.form # "direct" THEN 0
                      ELSE Addressed(address, FoldedMembers(address.to), r)]

Deepest(queues) ==
  CHOOSE n \in {Len(queues[r]) : r \in Endpoint} :
    \A r \in Endpoint : Len(queues[r]) <= n

(* retain(|p| !delivered.contains(p)) over one queue. *)
Undelivered(queue, delivered) ==
  Without(queue, {p \in ToSet(queue) : p.id \in ToSet(delivered)})

(* Mutant: a delivery is taken off every queue, not only the recipient's. *)
FoldDeliveredEverywhere(event) ==
  /\ pending' = [r \in Endpoint |-> Undelivered(pending[r], event.delivered)]
  /\ UNCHANGED <<teams, volume>>

FoldDelivered(event) ==
  /\ pending' = [pending EXCEPT ![event.source] = Undelivered(@, event.delivered)]
  /\ UNCHANGED <<teams, volume>>

FoldSent(event, id) ==
  LET to == FoldedRecipients(event.source, event.address)
      queues == [r \in Endpoint |-> pending[r] \o
                  Copies([id |-> event.message, sent |-> id], to[r])]
      form == event.address.form
  IN /\ pending' = queues
     /\ volume' = [volume EXCEPT ![form] = @ + 1, !.message = @ + 1,
                                 !.maxDepth = IF Deepest(queues) > @
                                              THEN Deepest(queues) ELSE @]
     /\ UNCHANGED teams

(* Mutant: completions are not counted as knowledge. *)
FoldWithoutCompletions(event, id) ==
  CASE event.kind = "message_sent" -> FoldSent(event, id)
    [] event.kind = "messages_delivered" -> FoldDelivered(event)
    [] event.kind = "knowledge_written" ->
         volume' = [volume EXCEPT !.note = @ + 1] /\ UNCHANGED <<teams, pending>>
    [] OTHER -> UNCHANGED <<teams, pending, volume>>

(* Metrics::fold *)
FoldEvent(event, id) ==
  CASE event.kind = "message_sent" -> FoldSent(event, id)
    [] event.kind = "messages_delivered" -> FoldDelivered(event)
    [] event.kind = "knowledge_written" ->
         volume' = [volume EXCEPT !.note = @ + 1] /\ UNCHANGED <<teams, pending>>
    [] event.kind = "task_completed" ->
         volume' = [volume EXCEPT !.completion = @ + 1] /\ UNCHANGED <<teams, pending>>
    [] event.kind \in {"team_formed", "team_members_set"} ->
         /\ teams' = [t \in DOMAIN teams \cup {event.team} |->
                        IF t = event.team THEN event.members ELSE teams[t]]
         /\ UNCHANGED <<pending, volume>>
    [] event.kind = "team_dissolved" ->
         /\ teams' = [t \in DOMAIN teams \ {event.team} |-> teams[t]]
         /\ UNCHANGED <<pending, volume>>

(* append_event folds the event it appends, inside the same write. *)
LNext ==
  /\ Next
  /\ IF log' = log THEN UNCHANGED <<teams, pending, volume>>
     ELSE FoldEvent(log'[Len(log')], Len(log'))

LSpec == LInit /\ [][LNext]_ledgerVars

----------------------------------------------------------------------------
PendingIds(r) == [i \in DOMAIN pending[r] |-> pending[r][i].id]

(* The folded mailbox of r is its mailbox, in the same order and with the   *)
(* ages of its messages, although the two are kept from different data and  *)
(* read membership in different places.  Two kinds of message are outside:  *)
(* r's own direct messages to itself, and those of a team that lists r      *)
(* twice, of which one delivery removes both copies from the fold.          *)
Comparable(r, m) ==
  /\ messages[m].sender # r
  /\ Audience(m)[r] <= 1
Apart(r) == {m \in DOMAIN messages : ~Comparable(r, m)}

FoldedMailboxIsMailbox ==
  \A r \in Endpoint :
    /\ Without(PendingIds(r), Apart(r)) = Without(mailbox[r], Apart(r))
    /\ \A i \in DOMAIN pending[r] : pending[r][i].sent = SentAt(pending[r][i].id)

(* What the summary reports of the store is what the store holds. *)
VolumeIsStore ==
  /\ \A k \in Kinds : volume[k] = Cardinality({e \in DOMAIN store : store[e].kind = k})
  /\ volume.direct + volume.team + volume.broadcast = Len(messages)

----------------------------------------------------------------------------
(* metrics.rs:71-74: depth is sent-not-yet-delivered per recipient. *)
DepthIsUndelivered ==
  \A r \in Endpoint :
    \A i \in DOMAIN pending[r] : \E j \in DOMAIN mailbox[r] :
      mailbox[r][j] = pending[r][i].id
=============================================================================
