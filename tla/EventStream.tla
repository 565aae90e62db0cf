---------------------------- MODULE EventStream ----------------------------
(* The live stream of one run (openteam-serve stream.rs): connections that  *)
(* subscribe to the run's broadcast, catch up from the file, then follow    *)
(* the broadcast; the poll-tailer that feeds it; and the clients, which     *)
(* reconnect with the last id they saw until they are answered 204.         *)
(* Connections, tailer and run share only the run directory (RunDir) and    *)
(* the registry of broadcasts, whose mutex makes a subscription atomic.     *)
EXTENDS RunDir, Filtering, FiniteSets

CONSTANTS Client,    \* one EventSource each
          Tailer,    \* the tail task, as a reader of the run directory
          From,      \* From[c]: the ?from= of c's URL, or NoId
          NoId,
          Abort,     \* LiveMsg::Aborted; the other messages are event ids
          Capacity   \* ServeConfig.broadcast_capacity

ASSUME StreamConstants ==
  /\ Client \cup {Tailer} \subseteq Reader /\ Tailer \notin Client
  /\ IsFiniteSet(Client)
  /\ {NoId, Abort} \cap Nat = {} /\ From \in [Client -> Nat \cup {NoId}]
  /\ Capacity \in Nat \ {0}

NoChan == 0
Chan == 1 .. Cardinality(Client) + 1

VARIABLES chans,     \* the broadcasts: what was sent so far, sender alive
          registry,  \* LiveRegistry: the broadcast of the run, or NoChan
          task,      \* the tail task: pc, offset (in lines), lines to send
          conn,      \* per client, its connection
          view,      \* per client, the ids received over all connections
          aborts     \* the clients that were sent the abort frame

streamVars == <<chans, registry, task, conn, view, aborts>>
vars == <<dirVars, streamVars>>

Closed == [msgs |-> <<>>, open |-> FALSE]
NoTask == [pc |-> "none", offset |-> 0, batch |-> <<>>]
Disconnected ==
  [pc |-> "off", next |-> 0, queue |-> <<>>, frame |-> FALSE,
   chan |-> NoChan, pos |-> 0]

Init ==
  /\ DirInit
  /\ chans = [k \in Chan |-> Closed] /\ registry = NoChan /\ task = NoTask
  /\ conn = [c \in Client |-> Disconnected]
  /\ view = [c \in Client |-> <<>>] /\ aborts = {}

Receivers(k) == {c \in Client : conn[c].chan = k}

(* Mutant: the resume point itself is sent again. *)
ResumeAt(header, from) ==
  IF header # NoId THEN header ELSE IF from # NoId THEN from + 1 ELSE 0

(* resume_start: the header wins over ?from=; a resume point n means n + 1. *)
ResumeStart(header, from) ==
  IF header # NoId THEN header + 1 ELSE IF from # NoId THEN from + 1 ELSE 0

LastEventId(c) == IF view[c] = <<>> THEN NoId ELSE view[c][Len(view[c])]

(* read_event_lines, filtered as replay_from does. *)
ReplayFrom(n) == Without(LineIds(file), 0 .. n - 1)

----------------------------------------------------------------------------
(* The tail task. *)

TailVars(t) == task' = t /\ UNCHANGED <<conn, view, aborts>>

TailPoll ==
  /\ task.pc = "poll"
  /\ LET fresh == SubSeq(file, task.offset + 1, Len(file))
     IN TailVars([pc |-> "send", offset |-> Len(file), batch |-> LineIds(fresh)])
  /\ UNCHANGED <<dirVars, chans, registry>>

Send(msg) ==
  chans' = [chans EXCEPT ![registry].msgs = Append(@, msg)]

TailSend ==
  /\ task.pc = "send" /\ task.batch # <<>>
  /\ Send(Head(task.batch))
  /\ TailVars([task EXCEPT !.batch = Tail(@)])
  /\ UNCHANGED <<dirVars, registry>>

TailClassify ==
  /\ task.pc = "send" /\ task.batch = <<>> /\ cls[Tailer] = "idle"
  /\ ReadBookend(Tailer)
  /\ TailVars([task EXCEPT !.pc = "classify"])
  /\ UNCHANGED <<fileVars, faults, chans, registry>>

(* Mutant: the task ends for aborted runs only. *)
TailAnswerFinishedGoesOn ==
  /\ task.pc = "classify" /\ cls[Tailer] \in Answer
  /\ cls' = [cls EXCEPT ![Tailer] = "idle"]
  /\ IF cls[Tailer] = "aborted" THEN Send(Abort) ELSE UNCHANGED chans
  /\ TailVars([task EXCEPT !.pc =
                 IF cls[Tailer] = "aborted" THEN "remove"
                 ELSE IF Receivers(registry) = {} THEN "recheck" ELSE "poll"])
  /\ UNCHANGED <<fileVars, faults, registry>>

(* Finished and aborted runs end the task, an aborted one with its frame;  *)
(* on a live one the task stops, in a second look under the registry's     *)
(* mutex, only if nobody listens.                                          *)
TailAnswer ==
  /\ task.pc = "classify" /\ cls[Tailer] \in Answer
  /\ cls' = [cls EXCEPT ![Tailer] = "idle"]
  /\ IF cls[Tailer] = "aborted" THEN Send(Abort) ELSE UNCHANGED chans
  /\ TailVars([task EXCEPT !.pc =
                 IF cls[Tailer] # "live" THEN "remove"
                 ELSE IF Receivers(registry) = {} THEN "recheck" ELSE "poll"])
  /\ UNCHANGED <<fileVars, faults, registry>>

DropSender ==
  /\ chans' = [chans EXCEPT ![registry].open = FALSE]
  /\ registry' = NoChan
  /\ TailVars(NoTask)

(* Mutant: the task ends and leaves its broadcast in the registry. *)
RemoveNothing ==
  task.pc = "remove" /\ TailVars(NoTask) /\ UNCHANGED <<dirVars, chans, registry>>

TailRecheck ==
  /\ task.pc = "recheck"
  /\ IF Receivers(registry) = {}
     THEN DropSender
     ELSE TailVars([task EXCEPT !.pc = "poll"]) /\ UNCHANGED <<chans, registry>>
  /\ UNCHANGED dirVars

TailRemove == task.pc = "remove" /\ DropSender /\ UNCHANGED dirVars

TailStep ==
  \/ TailPoll \/ TailSend \/ TailClassify \/ TailAnswer \/ TailRecheck
  \/ TailRemove

----------------------------------------------------------------------------
(* A connection. *)

ConnVars(c, r) == conn' = [conn EXCEPT ![c] = r]

(* GET events: the resume point, then find_run (a run without a header is  *)
(* a 404, on which the client gives up; it asks for listed runs only).     *)
Connect(c) ==
  /\ conn[c].pc = "off" /\ HasHeader
  /\ ReadBookend(c)
  /\ ConnVars(c, [Disconnected EXCEPT
                    !.pc = "classify",
                    !.next = ResumeStart(LastEventId(c), From[c])])
  /\ UNCHANGED <<fileVars, faults, chans, registry, task, view, aborts>>

(* Mutant: the tailer skips past the torn line, not to the last newline. *)
SubscribeAtEof(c) ==
  /\ conn[c].pc = "classify" /\ cls[c] = "live"
  /\ cls' = [cls EXCEPT ![c] = "idle"]
  /\ IF registry # NoChan
     THEN /\ ConnVars(c, [conn[c] EXCEPT !.pc = "read", !.chan = registry,
                                         !.pos = Len(chans[registry].msgs)])
          /\ UNCHANGED <<chans, registry, task>>
     ELSE LET k == CHOOSE k \in Chan : ~chans[k].open /\ Receivers(k) = {}
          IN /\ ConnVars(c, [conn[c] EXCEPT !.pc = "read", !.chan = k])
             /\ chans' = [chans EXCEPT ![k] = [msgs |-> <<>>, open |-> TRUE]]
             /\ registry' = k
             /\ task' = [NoTask EXCEPT !.pc = "poll",
                            !.offset = Len(file) + (IF tail = "torn" THEN 1 ELSE 0)]
  /\ UNCHANGED <<fileVars, faults, view, aborts>>

(* LiveRegistry::subscribe: join the run's broadcast, or open one and start *)
(* its tail task at the end of the file as it is now.                       *)
Subscribe(c) ==
  /\ conn[c].pc = "classify" /\ cls[c] = "live"
  /\ cls' = [cls EXCEPT ![c] = "idle"]
  /\ IF registry # NoChan
     THEN /\ ConnVars(c, [conn[c] EXCEPT !.pc = "read", !.chan = registry,
                                         !.pos = Len(chans[registry].msgs)])
          /\ UNCHANGED <<chans, registry, task>>
     ELSE LET k == CHOOSE k \in Chan : ~chans[k].open /\ Receivers(k) = {}
          IN /\ ConnVars(c, [conn[c] EXCEPT !.pc = "read", !.chan = k])
             /\ chans' = [chans EXCEPT ![k] = [msgs |-> <<>>, open |-> TRUE]]
             /\ registry' = k
             /\ task' = [NoTask EXCEPT !.pc = "poll", !.offset = Len(file)]
  /\ UNCHANGED <<fileVars, faults, view, aborts>>

(* The file is read for the catch-up after the subscription. *)
ReadReplay(c) ==
  /\ conn[c].pc = "read"
  /\ ConnVars(c, [conn[c] EXCEPT !.pc = "replay",
                                 !.queue = ReplayFrom(conn[c].next)])
  /\ UNCHANGED <<dirVars, chans, registry, task, view, aborts>>

(* A run that is over is served from the file; a client that has it all is *)
(* answered 204 and never comes back.                                      *)
ReadTerminal(c) ==
  /\ conn[c].pc = "classify" /\ cls[c] \in {"finished", "aborted"}
  /\ cls' = [cls EXCEPT ![c] = "idle"]
  /\ LET replay == ReplayFrom(conn[c].next)
     IN ConnVars(c, IF replay = <<>>
                    THEN [Disconnected EXCEPT !.pc = "stopped"]
                    ELSE [conn[c] EXCEPT !.pc = "terminal", !.queue = replay,
                                         !.frame = (cls[c] = "aborted")])
  /\ UNCHANGED <<fileVars, faults, chans, registry, task, view, aborts>>

(* A data frame reaches the client, or finds it gone and ends the stream.  *)
Frame(c, id, r) ==
  \/ /\ view' = [view EXCEPT ![c] = Append(@, id)]
     /\ ConnVars(c, r)
     /\ UNCHANGED faults
  \/ /\ Fault
     /\ ConnVars(c, Disconnected)
     /\ UNCHANGED view

SendReplay(c) ==
  /\ conn[c].pc \in {"replay", "terminal"} /\ conn[c].queue # <<>>
  /\ LET id == Head(conn[c].queue)
         rest == [conn[c] EXCEPT !.queue = Tail(@)]
     IN IF id >= conn[c].next
        THEN Frame(c, id, [rest EXCEPT !.next = id + 1])
        ELSE ConnVars(c, rest) /\ UNCHANGED <<view, faults>>
  /\ UNCHANGED <<fileVars, cls, chans, registry, task, aborts>>

(* recv: a message, a lag past the buffer, or a sender that is gone. *)
Lagged(c) == Len(chans[conn[c].chan].msgs) - conn[c].pos > Capacity
Unread(c) == conn[c].pos < Len(chans[conn[c].chan].msgs)
Recv(c) ==
  /\ conn[c].pc = "replay" /\ conn[c].queue = <<>> /\ Unread(c) /\ ~Lagged(c)
  /\ LET msg == chans[conn[c].chan].msgs[conn[c].pos + 1]
         read == [conn[c] EXCEPT !.pos = @ + 1]
     IN IF msg = Abort
        THEN /\ aborts' = aborts \cup {c}
             /\ ConnVars(c, Disconnected)
             /\ UNCHANGED <<view, faults>>
        ELSE /\ IF msg >= conn[c].next
                THEN Frame(c, msg, [read EXCEPT !.next = msg + 1])
                ELSE ConnVars(c, read) /\ UNCHANGED <<view, faults>>
             /\ UNCHANGED aborts
  /\ UNCHANGED <<fileVars, cls, chans, registry, task>>

(* The streams that end without a frame: the client lagged or the sender   *)
(* was dropped.                                                            *)
EndLive(c) ==
  /\ conn[c].pc = "replay" /\ conn[c].queue = <<>>
  /\ \/ Unread(c) /\ Lagged(c)
     \/ ~Unread(c) /\ ~chans[conn[c].chan].open
  /\ ConnVars(c, Disconnected)
  /\ UNCHANGED <<dirVars, chans, registry, task, view, aborts>>

EndTerminal(c) ==
  /\ conn[c].pc = "terminal" /\ conn[c].queue = <<>>
  /\ aborts' = IF conn[c].frame THEN aborts \cup {c} ELSE aborts
  /\ ConnVars(c, Disconnected)
  /\ UNCHANGED <<dirVars, chans, registry, task, view>>

ConnStep(c) ==
  \/ Connect(c) \/ Subscribe(c) \/ ReadReplay(c) \/ ReadTerminal(c)
  \/ SendReplay(c) \/ Recv(c) \/ EndLive(c) \/ EndTerminal(c)

----------------------------------------------------------------------------
(* Termination: not an action of the code. *)
AllStopped ==
  /\ writer = "gone" /\ task = NoTask
  /\ \A c \in Client : conn[c].pc = "stopped" \/ ~HasHeader
  /\ UNCHANGED vars

Next ==
  \/ (WriterStep \/ CrashRun \/ \E r \in Reader : TryLock(r)) /\ UNCHANGED streamVars
  \/ TailStep
  \/ \E c \in Client : ConnStep(c)
  \/ AllStopped

(* The run ends (its events are bounded here, by its caps in the code), the *)
(* server's tasks are scheduled, a client reconnects.                       *)
Fairness ==
  /\ WF_vars(WriterStep /\ UNCHANGED streamVars)
  /\ WF_vars(TailStep)
  /\ \A c \in Client : WF_vars(ConnStep(c))
  /\ \A r \in Reader : WF_vars(TryLock(r) /\ UNCHANGED streamVars)

Spec == Init /\ [][Next]_vars /\ Fairness

----------------------------------------------------------------------------
(* A connection that waits on a broadcast is never left waiting on one that *)
(* nobody feeds: either the sender is gone, and the receiver is told, or it *)
(* is the registered broadcast of a running tail task.  (subscribe and the  *)
(* end of tail_task race for the registry.)                                 *)
ReceiverIsFed ==
  /\ (registry # NoChan) <=> (task.pc # "none")
  /\ \A k \in Chan : chans[k].open => k = registry

(* Nothing falls between the catch-up and the broadcast: of the events a   *)
(* following connection still lacks, each is unread in its queue or its    *)
(* broadcast, or the tailer is still to send it - unless it lagged, or its *)
(* broadcast is closed, which both end the stream.                         *)
NoGapBehindTail ==
  \A c \in Client : conn[c].pc = "replay" /\ ~Lagged(c) =>
    \A n \in {file[i].id : i \in {j \in DOMAIN file : file[j].readable}} :
      n >= conn[c].next =>
        \/ \E i \in DOMAIN conn[c].queue : conn[c].queue[i] = n
        \/ \E i \in conn[c].pos + 1 .. Len(chans[conn[c].chan].msgs) :
             chans[conn[c].chan].msgs[i] = n
        \/ conn[c].chan # registry
        \/ \E i \in DOMAIN task.batch : task.batch[i] = n
        \/ \E i \in task.offset + 1 .. Len(file) : file[i].readable /\ file[i].id = n

(* The stream implements what it promises: verbatim resume arithmetic,     *)
(* subscribe before catch-up, dedupe and disconnect on lag add up to every *)
(* wanted event once and in order, and to a 204 only for a client that has *)
(* the whole log of a run that is over.                                    *)
Promise == INSTANCE Delivery WITH
  First <- [c \in Client |-> ResumeStart(NoId, From[c])],
  log <- LineIds(file),
  over <- writer \in {"finished", "gone"},
  stopped <- {c \in Client : conn[c].pc = "stopped"}

ImplementsDelivery == Promise!DeliverySpec

(* Every client of a run that has started gets to the end of it, through   *)
(* lags, lost connections, a crash of the run and classifiers that take    *)
(* each other's momentary lock for the run's.                              *)
EveryClientStops == \A c \in Client : HasHeader ~> conn[c].pc = "stopped"

----------------------------------------------------------------------------
(* What the documents say and the code does not do. *)

(* discovery.rs:7-11 and ADR 0027: a run is aborted when its bookend is    *)
(* absent and its lock free; a finished run is never reported aborted.     *)
FinishedRunNotAborted == aborts # {} => ~HasBookend

(* stream.rs:98-99: the tailer stops on a finished run since run_finished  *)
(* was delivered in-band.                                                  *)
FinishDeliveredInBand ==
  [][task.pc = "remove" /\ task'.pc = "none" /\ HasBookend =>
       \E i \in DOMAIN chans[registry].msgs :
         chans[registry].msgs[i] \in {Abort, file[Len(file)].id}]_vars
=============================================================================
