---------------------------- MODULE StreamProofs ----------------------------
(***************************************************************************)
(* Machine-checked proofs about RunDir and EventStream, for any number of  *)
(* clients and readers and a log of any length: what the classifier's two  *)
(* separate reads are worth, that no receiver waits on a broadcast nobody  *)
(* feeds, that no event is lost between the catch-up and the broadcast,    *)
(* and that the stream implements Delivery.                                *)
(***************************************************************************)
EXTENDS EventStream, FiniteSetTheorems, SequenceTheorems, Induction, TLAPS

(* The order of the writer's life that the readers rely on. *)
WriterFirst ==
  /\ HasBookend => writer \in {"finished", "gone"}
  /\ file # <<>> => writer # "starting"
  /\ \A r \in Reader : cls[r] # "idle" => writer # "starting"

DirInv == DirTypeOK /\ LockMatchesHolders /\ AnswersJustified /\ WriterFirst

Lines == Seq([id : Nat, bookend : BOOLEAN, readable : BOOLEAN])

LEMMA PutLines ==
  ASSUME file \in Lines, NEW n \in Nat, NEW last \in BOOLEAN, Put(Line(n, last))
  PROVE  /\ file' \in Lines /\ file' # <<>>
         /\ HasBookend' => last
<1> DEFINE l == IF tail = "junk" THEN Garbled ELSE Line(n, last)
<1>1. file' = Append(file, l)
  BY DEF Put
<1>2. l \in [id : Nat, bookend : BOOLEAN, readable : BOOLEAN]
      /\ (l.bookend => last)
  BY DEF Line, Garbled
<1> DEFINE R == [id : Nat, bookend : BOOLEAN, readable : BOOLEAN]
<1>3. file \in Seq(R) /\ l \in R
  BY <1>2 DEF Lines
<1> HIDE DEF R, l
<1>4. /\ file' \in Seq(R) /\ Len(file') = Len(file) + 1 /\ file'[Len(file')] = l
      /\ file' # <<>>
  BY <1>1, <1>3
<1> QED
  BY <1>2, <1>4 DEF Lines, HasBookend, R

LEMMA InitDirInv == DirInit => DirInv
BY RunDirConstants
DEF RunDirConstants, DirInit, DirInv, DirTypeOK, LockMatchesHolders, AnswersJustified,
    WriterFirst, HasBookend, ClassifyStep, Answer

(* A line is only appended while the run is alive, when no answer says it  *)
(* is over.                                                                *)
LEMMA WriterKeeps ==
  ASSUME DirInv, WriterStep \/ CrashRun PROVE DirInv'
<1> USE DEF DirInv
<1>0. file \in Lines
  BY DEF DirTypeOK, Lines
<1>1. CASE AcquireRunLock
  BY <1>1, RunDirConstants
  DEF RunDirConstants, AcquireRunLock, DirTypeOK, LockMatchesHolders, AnswersJustified,
      WriterFirst, HasBookend
<1>2. CASE AppendEvent \/ CompleteLine
  <2>1. /\ writer = "running" /\ writer' = writer /\ Put(Line(nextEvent, FALSE))
        /\ tail' = "none" /\ nextEvent' = nextEvent + 1
        /\ UNCHANGED <<runLock, cls, faults>>
    BY <1>2 DEF AppendEvent, CompleteLine
  <2>2. file' \in Lines /\ ~HasBookend'
    BY <1>0, <2>1, PutLines DEF DirTypeOK
  <2> QED
    BY <2>1, <2>2
    DEF Lines, DirTypeOK, LockMatchesHolders, AnswersJustified, WriterFirst
<1>3. CASE TearLine \/ FailLine
  <2>1. /\ tail' \in {"torn", "junk"} /\ nextEvent' \in Nat /\ faults' \in Nat
        /\ UNCHANGED <<writer, file, runLock, cls>>
    BY <1>3 DEF TearLine, FailLine, Fault, DirTypeOK
  <2>2. HasBookend' = HasBookend
    BY <2>1 DEF HasBookend
  <2> QED
    BY <2>1, <2>2 DEF DirTypeOK, LockMatchesHolders, AnswersJustified, WriterFirst
<1>4. CASE FinishRun
  <2>1. /\ writer = "running" /\ writer' = "finished" /\ Put(Line(nextEvent, TRUE))
        /\ tail' = "none" /\ nextEvent' = nextEvent + 1
        /\ UNCHANGED <<runLock, cls, faults>>
    BY <1>4 DEF FinishRun
  <2>2. file' \in Lines
    BY <1>0, <2>1, PutLines DEF DirTypeOK
  <2> QED
    BY <2>1, <2>2
    DEF Lines, DirTypeOK, LockMatchesHolders, AnswersJustified, WriterFirst
<1>5. CASE ExitRun \/ CrashRun
  <2>1. /\ writer \in {"running", "finished"} /\ writer' = "gone"
        /\ runLock = Writer /\ runLock' = Free
        /\ UNCHANGED <<file, tail, nextEvent, cls, faults>>
    BY <1>5 DEF ExitRun, CrashRun, LeaveRun, LockMatchesHolders
  <2>2. HasBookend' = HasBookend
    BY <2>1 DEF HasBookend
  <2> QED
    BY <2>1, <2>2, RunDirConstants
    DEF RunDirConstants, DirTypeOK, LockMatchesHolders, AnswersJustified, WriterFirst
<1> QED
  BY <1>1, <1>2, <1>3, <1>4, <1>5 DEF WriterStep

(* The classifier's steps. *)
LEMMA TryLockKeeps ==
  ASSUME DirInv, NEW r \in Reader, TryLock(r) PROVE DirInv'
<1> USE DEF DirInv
<1>1. CASE TryLockFree(r)
  <2>1. writer = "gone"
    BY <1>1, RunDirConstants
    DEF RunDirConstants, TryLockFree, LockMatchesHolders, WriterFirst, DirTypeOK
  <2>2. HasBookend' = HasBookend
    BY <1>1 DEF TryLockFree, HasBookend
  <2> QED
    BY <1>1, <2>1, <2>2, RunDirConstants
    DEF RunDirConstants, TryLockFree, DirTypeOK, ClassifyStep, Answer,
        LockMatchesHolders, AnswersJustified, WriterFirst
<1>2. CASE TryLockHeld(r)
  <2>1. HasBookend' = HasBookend
    BY <1>2 DEF TryLockHeld, HasBookend, fileVars
  <2>2. faults' \in Nat
    BY <1>2 DEF TryLockHeld, Fault, DirTypeOK
  <2> QED
    BY <1>2, <2>1, <2>2
    DEF TryLockHeld, fileVars, DirTypeOK, ClassifyStep, Answer,
        LockMatchesHolders, AnswersJustified, WriterFirst
<1>3. CASE DropLock(r)
  <2>1. HasBookend' = HasBookend
    BY <1>3 DEF DropLock, HasBookend
  <2> QED
    BY <1>3, <2>1, RunDirConstants
    DEF RunDirConstants, DropLock, DirTypeOK, ClassifyStep, Answer,
        LockMatchesHolders, AnswersJustified, WriterFirst
<1> QED
  BY <1>1, <1>2, <1>3 DEF TryLock

LEMMA ReadKeeps ==
  ASSUME DirInv, NEW r \in Reader, cls[r] = "idle", writer # "starting",
         ReadBookend(r), UNCHANGED fileVars, faults' = faults
  PROVE  DirInv'
<1>1. HasBookend' = HasBookend
  BY DEF HasBookend, fileVars
<1> QED
  BY <1>1
  DEF ReadBookend, fileVars, DirInv, DirTypeOK, ClassifyStep, Answer,
      LockMatchesHolders, AnswersJustified, WriterFirst

LEMMA AnswerKeeps ==
  ASSUME DirInv, NEW r \in Reader, cls[r] \in Answer,
         cls' = [cls EXCEPT ![r] = "idle"], UNCHANGED fileVars, faults' = faults
  PROVE  DirInv'
<1>1. HasBookend' = HasBookend
  BY DEF HasBookend, fileVars
<1> QED
  BY <1>1
  DEF fileVars, DirInv, DirTypeOK, ClassifyStep, Answer,
      LockMatchesHolders, AnswersJustified, WriterFirst

LEMMA DirKeeps ==
  ASSUME DirInv, UNCHANGED <<fileVars, cls>>, faults' \in Nat PROVE DirInv'
<1>1. HasBookend' = HasBookend
  BY DEF HasBookend, fileVars
<1> QED
  BY <1>1
  DEF fileVars, DirInv, DirTypeOK, LockMatchesHolders, AnswersJustified, WriterFirst

----------------------------------------------------------------------------
(* The parts of the server's state that the dispatch on it needs.          *)
ChansShape == chans = [k \in Chan |-> [msgs |-> chans[k].msgs, open |-> chans[k].open]]

Shape ==
  /\ ChansShape
  /\ task = [pc |-> task.pc, offset |-> task.offset, batch |-> task.batch]
  /\ conn = [c \in Client |->
               [pc |-> conn[c].pc, next |-> conn[c].next, queue |-> conn[c].queue,
                frame |-> conn[c].frame, chan |-> conn[c].chan, pos |-> conn[c].pos]]

(* Only a connection that asks has a classification under way, and the     *)
(* tail task exists only for a run that has begun.                         *)
AskersOnly ==
  /\ \A c \in Client : cls[c] # "idle" => conn[c].pc = "classify"
  /\ task.pc # "none" => writer # "starting"

StreamInv == DirInv /\ Shape /\ AskersOnly /\ ReceiverIsFed

LEMMA InitStreamInv == Init => StreamInv
<1> SUFFICES ASSUME Init PROVE StreamInv
  OBVIOUS
<1>1. DirInv
  BY InitDirInv DEF Init
<1>2. Shape
  BY DEF Init, Shape, ChansShape, Closed, NoTask, Disconnected
<1>3. AskersOnly
  BY StreamConstants DEF StreamConstants, Init, DirInit, AskersOnly, NoTask
<1>4. ReceiverIsFed
  BY DEF Init, ReceiverIsFed, Closed, NoTask
<1> QED
  BY <1>1, <1>2, <1>3, <1>4 DEF StreamInv

(* There are more broadcasts than connections, so one has no receiver.     *)
LEMMA SpareChan ==
  ASSUME registry = NoChan, ReceiverIsFed
  PROVE  \E k \in Chan : ~chans[k].open /\ Receivers(k) = {}
<1>1. SUFFICES ASSUME \A k \in Chan : Receivers(k) # {} PROVE FALSE
  BY DEF ReceiverIsFed, Chan, NoChan
<1> DEFINE f == [k \in Chan |-> CHOOSE c \in Client : conn[c].chan = k]
<1>2. \A k \in Chan : f[k] \in Client /\ conn[f[k]].chan = k
  BY <1>1 DEF Receivers
<1>3. IsFiniteSet(Client) /\ Cardinality(Client) \in Nat
  BY StreamConstants, FS_CardinalityType DEF StreamConstants
<1>4. IsFiniteSet(Chan) /\ Cardinality(Chan) = Cardinality(Client) + 1
  BY <1>3, FS_Interval DEF Chan
<1>5. f \in [Chan -> Client]
  BY <1>2
<1> HIDE DEF f
<1>6. PICK x, y \in Chan : x # y /\ f[x] = f[y]
  <2>1. Cardinality(Client) < Cardinality(Chan)
    BY <1>3, <1>4
  <2> QED
    BY <1>3, <1>4, <1>5, <2>1, FS_PigeonHole
<1> QED
  BY <1>2, <1>6

(* A message leaves every broadcast as open as it was, and closing one     *)
(* closes that one.                                                        *)
LEMMA SendShape ==
  ASSUME ChansShape, NEW msg, Send(msg)
  PROVE  /\ ChansShape'
         /\ \A k \in Chan : chans'[k].open = chans[k].open
<1>1. /\ DOMAIN chans = Chan
      /\ \A k \in Chan : chans[k] = [msgs |-> chans[k].msgs, open |-> chans[k].open]
  BY DEF ChansShape
<1>2. chans' = [k \in Chan |-> IF k = registry THEN [chans[k] EXCEPT !.msgs = Append(chans[k].msgs, msg)]
                                             ELSE chans[k]]
  BY <1>1 DEF Send
<1>3. ASSUME NEW k \in Chan
      PROVE  /\ chans'[k] = [msgs |-> chans'[k].msgs, open |-> chans'[k].open]
             /\ chans'[k].open = chans[k].open
  <2>1. CASE k = registry
    <3>1. chans'[k] = [chans[k] EXCEPT !.msgs = Append(chans[k].msgs, msg)]
      BY <1>2, <2>1
    <3>2. chans'[k] = [msgs |-> Append(chans[k].msgs, msg), open |-> chans[k].open]
      BY <1>1, <3>1
    <3> QED
      BY <2>1, <3>2
  <2>2. CASE k # registry
    <3>1. chans'[k] = chans[k]
      BY <1>2, <2>2
    <3> QED
      BY <1>1, <2>2, <3>1
  <2> QED
    BY <2>1, <2>2
<1>4. ChansShape'
  <2>1. DOMAIN chans' = Chan /\ chans' = [k \in Chan |-> chans'[k]]
    BY <1>2
  <2> QED
    BY <1>3, <2>1, Zenon DEF ChansShape
<1> QED
  BY <1>3, <1>4

LEMMA CloseShape ==
  ASSUME ChansShape, chans' = [chans EXCEPT ![registry].open = FALSE]
  PROVE  /\ ChansShape'
         /\ \A k \in Chan : chans'[k].open = IF k = registry THEN FALSE ELSE chans[k].open
<1>1. /\ DOMAIN chans = Chan
      /\ \A k \in Chan : chans[k] = [msgs |-> chans[k].msgs, open |-> chans[k].open]
  BY DEF ChansShape
<1>2. chans' = [k \in Chan |-> IF k = registry THEN [chans[k] EXCEPT !.open = FALSE]
                                             ELSE chans[k]]
  BY <1>1
<1>3. ASSUME NEW k \in Chan
      PROVE  /\ chans'[k] = [msgs |-> chans'[k].msgs, open |-> chans'[k].open]
             /\ chans'[k].open = IF k = registry THEN FALSE ELSE chans[k].open
  <2>1. CASE k = registry
    <3>1. chans'[k] = [chans[k] EXCEPT !.open = FALSE]
      BY <1>2, <2>1
    <3>2. chans'[k] = [msgs |-> chans[k].msgs, open |-> FALSE]
      BY <1>1, <3>1
    <3>3. chans'[k].open = FALSE /\ chans'[k].msgs = chans[k].msgs
      BY <3>2
    <3> QED
      BY <2>1, <3>2, <3>3, Zenon
  <2>2. CASE k # registry
    <3>1. chans'[k] = chans[k]
      BY <1>2, <2>2
    <3> QED
      BY <1>1, <2>2, <3>1
  <2> QED
    BY <2>1, <2>2
<1>4. ChansShape'
  <2>1. DOMAIN chans' = Chan /\ chans' = [k \in Chan |-> chans'[k]]
    BY <1>2
  <2> QED
    BY <1>3, <2>1, Zenon DEF ChansShape
<1> QED
  BY <1>3, <1>4

LEMMA TailStepKeeps == ASSUME StreamInv, TailStep PROVE StreamInv'
<1> USE DEF StreamInv
<1>0. Tailer \in Reader /\ Tailer \notin Client
  BY StreamConstants DEF StreamConstants
<1>1. CASE TailPoll \/ TailSend
  <2>1. /\ UNCHANGED <<dirVars, registry, conn>>
        /\ task.pc # "none" /\ task'.pc = "send"
        /\ task' = [pc |-> task'.pc, offset |-> task'.offset, batch |-> task'.batch]
    BY <1>1 DEF TailPoll, TailSend, TailVars, Shape
  <2>2. ChansShape' /\ \A k \in Chan : chans'[k].open = chans[k].open
    <3>1. CASE TailPoll
      BY <3>1 DEF TailPoll, Shape, ChansShape
    <3>2. CASE TailSend
      BY <3>2, SendShape DEF TailSend, Shape
    <3> QED
      BY <1>1, <3>1, <3>2
  <2>3. DirInv'
    BY <2>1, DirKeeps DEF dirVars, DirInv, DirTypeOK
  <2> QED
    BY <2>1, <2>2, <2>3 DEF dirVars, fileVars, Shape, AskersOnly, ReceiverIsFed
<1>2. CASE TailClassify
  <2>1. /\ ReadBookend(Tailer) /\ cls[Tailer] = "idle" /\ task.pc = "send"
        /\ task' = [task EXCEPT !.pc = "classify"]
        /\ UNCHANGED <<fileVars, faults, chans, registry, conn>>
    BY <1>2 DEF TailClassify, TailVars
  <2>2. /\ task'.pc = "classify"
        /\ task' = [pc |-> task'.pc, offset |-> task'.offset, batch |-> task'.batch]
    BY <2>1 DEF Shape
  <2>3. DirInv'
    BY <1>0, <2>1, ReadKeeps DEF AskersOnly
  <2>4. \A c \in Client : cls'[c] = cls[c]
    BY <1>0, <2>1, StreamConstants
    DEF StreamConstants, ReadBookend, DirInv, DirTypeOK
  <2> QED
    BY <2>1, <2>2, <2>3, <2>4 DEF fileVars, Shape, ChansShape, AskersOnly, ReceiverIsFed
<1>3. CASE TailAnswer
  <2>1. /\ cls[Tailer] \in Answer /\ task.pc = "classify"
        /\ cls' = [cls EXCEPT ![Tailer] = "idle"]
        /\ UNCHANGED <<fileVars, faults, registry, conn>>
    BY <1>3 DEF TailAnswer, TailVars
  <2>2. /\ task'.pc \in {"remove", "recheck", "poll"}
        /\ task' = [pc |-> task'.pc, offset |-> task'.offset, batch |-> task'.batch]
    BY <1>3 DEF TailAnswer, TailVars, Shape
  <2>3. ChansShape' /\ \A k \in Chan : chans'[k].open = chans[k].open
    <3>1. CASE cls[Tailer] = "aborted"
      BY <1>3, <3>1, SendShape DEF TailAnswer, Shape
    <3>2. CASE cls[Tailer] # "aborted"
      BY <1>3, <3>2 DEF TailAnswer, Shape, ChansShape
    <3> QED
      BY <3>1, <3>2
  <2>4. DirInv'
    BY <1>0, <2>1, AnswerKeeps
  <2>5. \A c \in Client : cls'[c] = cls[c]
    BY <1>0, <2>1, StreamConstants DEF StreamConstants, DirInv, DirTypeOK
  <2> QED
    BY <2>1, <2>2, <2>3, <2>4, <2>5 DEF fileVars, Shape, AskersOnly, ReceiverIsFed
<1>4. CASE DropSender /\ UNCHANGED dirVars
  <2>1. /\ registry' = NoChan /\ task' = NoTask
        /\ UNCHANGED <<fileVars, cls, faults, conn>>
        /\ chans' = [chans EXCEPT ![registry].open = FALSE]
    BY <1>4 DEF DropSender, TailVars, dirVars
  <2>2. /\ ChansShape'
        /\ \A k \in Chan : chans'[k].open = IF k = registry THEN FALSE ELSE chans[k].open
    BY <2>1, CloseShape DEF Shape
  <2>3. ReceiverIsFed'
    BY <2>1, <2>2 DEF ReceiverIsFed, NoTask
  <2>4. DirInv'
    BY <2>1, DirKeeps DEF DirInv, DirTypeOK
  <2>5. AskersOnly'
    BY <2>1 DEF AskersOnly, NoTask, fileVars
  <2>6. Shape'
    BY <2>1, <2>2 DEF Shape, NoTask
  <2> QED
    BY <2>3, <2>4, <2>5, <2>6
<1>5. CASE task' = [task EXCEPT !.pc = "poll"] /\ task.pc = "recheck"
           /\ UNCHANGED <<dirVars, chans, registry, conn>>
  <2>1. DirInv' /\ ChansShape'
    BY <1>5, DirKeeps DEF dirVars, DirInv, DirTypeOK, Shape, ChansShape
  <2>2. /\ task'.pc = "poll"
        /\ task' = [pc |-> task'.pc, offset |-> task'.offset, batch |-> task'.batch]
    BY <1>5 DEF Shape
  <2> QED
    BY <1>5, <2>1, <2>2 DEF dirVars, fileVars, Shape, AskersOnly, ReceiverIsFed
<1> QED
  BY <1>1, <1>2, <1>3, <1>4, <1>5 DEF TailStep, TailRecheck, TailRemove, TailVars

(* A connection other than at its classification. *)
LEMMA FollowKeeps ==
  ASSUME StreamInv, NEW c \in Client, NEW r, UNCHANGED <<fileVars, cls, chans, registry, task>>,
         faults' \in Nat, conn[c].pc # "classify",
         ConnVars(c, r), r.pc # "classify",
         r = [pc |-> r.pc, next |-> r.next, queue |-> r.queue,
              frame |-> r.frame, chan |-> r.chan, pos |-> r.pos]
  PROVE  StreamInv'
<1>1. DirInv'
  BY DirKeeps DEF StreamInv
<1>2. Shape'
  BY DEF StreamInv, Shape, ChansShape, ConnVars
<1>3. AskersOnly'
  BY DEF StreamInv, Shape, ConnVars, AskersOnly, fileVars
<1> QED
  BY <1>1, <1>2, <1>3 DEF StreamInv, ReceiverIsFed

ConnShape(r) ==
  r = [pc |-> r.pc, next |-> r.next, queue |-> r.queue,
       frame |-> r.frame, chan |-> r.chan, pos |-> r.pos]

(* What the connections' updates leave of a connection. *)
Stopped(d, p) == [d EXCEPT !.pc = p]
Asking(d, p, x) == [d EXCEPT !.pc = p, !.next = x]
Joined(d, p, x) == [d EXCEPT !.pc = p, !.chan = x]
Replaying(d, p, x) == [d EXCEPT !.pc = p, !.queue = x]
JoinedAt(d, p, x, y) == [d EXCEPT !.pc = p, !.chan = x, !.pos = y]
Terminal(d, p, x, y) == [d EXCEPT !.pc = p, !.queue = x, !.frame = y]

LEMMA UpdateMoves ==
  ASSUME NEW d, ConnShape(d), NEW p, NEW x, NEW y
  PROVE  /\ Stopped(d, p).pc = p /\ ConnShape(Stopped(d, p))
         /\ Asking(d, p, x).pc = p /\ ConnShape(Asking(d, p, x))
         /\ Joined(d, p, x).pc = p /\ ConnShape(Joined(d, p, x))
         /\ Replaying(d, p, x).pc = p /\ ConnShape(Replaying(d, p, x))
         /\ JoinedAt(d, p, x, y).pc = p /\ ConnShape(JoinedAt(d, p, x, y))
         /\ Terminal(d, p, x, y).pc = p /\ ConnShape(Terminal(d, p, x, y))
<1>1. ASSUME NEW e, e = Stopped(d, p) PROVE e.pc = p /\ ConnShape(e)
  BY <1>1 DEF ConnShape, Stopped
<1>2. ASSUME NEW e, e = Asking(d, p, x) PROVE e.pc = p /\ ConnShape(e)
  BY <1>2 DEF ConnShape, Asking
<1>3. ASSUME NEW e, e = Joined(d, p, x) PROVE e.pc = p /\ ConnShape(e)
  BY <1>3 DEF ConnShape, Joined
<1>4. ASSUME NEW e, e = Replaying(d, p, x) PROVE e.pc = p /\ ConnShape(e)
  BY <1>4 DEF ConnShape, Replaying
<1>5. ASSUME NEW e, e = JoinedAt(d, p, x, y) PROVE e.pc = p /\ ConnShape(e)
  BY <1>5 DEF ConnShape, JoinedAt
<1>6. ASSUME NEW e, e = Terminal(d, p, x, y) PROVE e.pc = p /\ ConnShape(e)
  BY <1>6 DEF ConnShape, Terminal
<1> QED
  BY <1>1, <1>2, <1>3, <1>4, <1>5, <1>6

LEMMA UpdateFollow ==
  ASSUME NEW d, ConnShape(d), NEW x, NEW e,
         \/ e = [d EXCEPT !.queue = x]
         \/ e = [d EXCEPT !.pos = x]
         \/ e = [d EXCEPT !.next = x]
  PROVE  e.pc = d.pc /\ ConnShape(e)
<1>1. CASE e = [d EXCEPT !.queue = x]
  BY <1>1 DEF ConnShape
<1>2. CASE e = [d EXCEPT !.pos = x]
  BY <1>2 DEF ConnShape
<1>3. CASE e = [d EXCEPT !.next = x]
  BY <1>3 DEF ConnShape
<1> QED
  BY <1>1, <1>2, <1>3

LEMMA OffShape == Disconnected.pc = "off" /\ ConnShape(Disconnected)
BY DEF Disconnected, ConnShape

LEMMA FrameKeeps ==
  ASSUME StreamInv, NEW c \in Client, NEW id, NEW r, Frame(c, id, r),
         UNCHANGED <<fileVars, cls, chans, registry, task>>,
         conn[c].pc # "classify", r.pc # "classify", ConnShape(r)
  PROVE  StreamInv'
<1>1. CASE ConnVars(c, r) /\ UNCHANGED faults
  BY <1>1, FollowKeeps DEF ConnShape, StreamInv, DirInv, DirTypeOK
<1>2. CASE ConnVars(c, Disconnected) /\ Fault
  <2>1. faults' \in Nat
    BY <1>2 DEF Fault, StreamInv, DirInv, DirTypeOK
  <2> QED
    BY <1>2, <2>1, OffShape, FollowKeeps DEF ConnShape
<1> QED
  BY <1>1, <1>2 DEF Frame

LEMMA ConnectKeeps == ASSUME StreamInv, NEW c \in Client, Connect(c) PROVE StreamInv'
<1> USE DEF StreamInv
<1> DEFINE r == [Disconnected EXCEPT !.pc = "classify",
                                     !.next = ResumeStart(LastEventId(c), From[c])]
<1>1. /\ conn[c].pc = "off" /\ ReadBookend(c) /\ ConnVars(c, r) /\ HasHeader
      /\ UNCHANGED <<fileVars, faults, chans, registry, task>>
  BY DEF Connect
<1>2. r.pc = "classify" /\ ConnShape(r)
  <2>1. r = Asking(Disconnected, "classify", ResumeStart(LastEventId(c), From[c]))
    BY DEF Asking
  <2> HIDE DEF r
  <2> QED
    BY <2>1, OffShape, UpdateMoves
<1> HIDE DEF r
<1>3. c \in Reader /\ cls[c] = "idle" /\ writer # "starting"
  BY <1>1, StreamConstants
  DEF StreamConstants, AskersOnly, DirInv, WriterFirst, HasHeader
<1>4. DirInv'
  BY <1>1, <1>3, ReadKeeps
<1>5. Shape'
  BY <1>1, <1>2 DEF Shape, ChansShape, ConnVars, ConnShape
<1>6. AskersOnly'
  <2>1. ASSUME NEW d \in Client, d # c PROVE cls'[d] = cls[d] /\ conn'[d] = conn[d]
    BY <1>1, <2>1, StreamConstants
    DEF StreamConstants, ReadBookend, ConnVars, DirInv, DirTypeOK, Shape
  <2>2. conn'[c].pc = "classify"
    BY <1>1, <1>2 DEF ConnVars, Shape
  <2> QED
    BY <1>1, <2>1, <2>2 DEF AskersOnly, fileVars
<1> QED
  BY <1>1, <1>4, <1>5, <1>6 DEF ReceiverIsFed

(* The answer of c's classification is used, and c goes on elsewhere.      *)
LEMMA AnswerUsed ==
  ASSUME StreamInv, NEW c \in Client, cls[c] \in Answer,
         cls' = [cls EXCEPT ![c] = "idle"], UNCHANGED <<fileVars, faults>>,
         NEW r, ConnVars(c, r), r.pc # "classify", ConnShape(r)
  PROVE  /\ DirInv'
         /\ ChansShape' => (task' = [pc |-> task'.pc, offset |-> task'.offset,
                                     batch |-> task'.batch] => Shape')
         /\ writer # "starting"
         /\ \A d \in Client : cls'[d] # "idle" => conn'[d].pc = "classify"
<1> USE DEF StreamInv
<1>1. c \in Reader
  BY StreamConstants DEF StreamConstants
<1>2. DirInv'
  BY <1>1, AnswerKeeps
<1>3. writer # "starting"
  BY <1>1 DEF DirInv, WriterFirst, Answer
<1>4. conn' = [d \in Client |-> IF d = c THEN r ELSE conn[d]]
  BY DEF ConnVars, Shape
<1>5. \A d \in Client : cls'[d] # "idle" => conn'[d].pc = "classify"
  BY <1>1, <1>4, StreamConstants DEF StreamConstants, AskersOnly, DirInv, DirTypeOK
<1>6. \A d \in Client : ConnShape(conn'[d])
  BY <1>4 DEF Shape, ConnShape
<1>7. conn' = [d \in Client |->
               [pc |-> conn'[d].pc, next |-> conn'[d].next, queue |-> conn'[d].queue,
                frame |-> conn'[d].frame, chan |-> conn'[d].chan, pos |-> conn'[d].pos]]
  BY <1>4, <1>6 DEF ConnShape
<1> QED
  BY <1>2, <1>3, <1>5, <1>7 DEF Shape

LEMMA SubscribeKeeps == ASSUME StreamInv, NEW c \in Client, Subscribe(c) PROVE StreamInv'
<1> USE DEF StreamInv
<1>0. /\ cls[c] \in Answer /\ cls' = [cls EXCEPT ![c] = "idle"]
      /\ UNCHANGED <<fileVars, faults>>
  BY DEF Subscribe, Answer
<1>c. ConnShape(conn[c])
  BY DEF Shape, ConnShape
<1>1. CASE registry # NoChan
  <2> DEFINE r == [conn[c] EXCEPT !.pc = "read", !.chan = registry,
                                  !.pos = Len(chans[registry].msgs)]
  <2>1. ConnVars(c, r) /\ UNCHANGED <<chans, registry, task>>
    BY <1>1 DEF Subscribe
  <2>2. r.pc = "read" /\ ConnShape(r)
    <3>1. r = JoinedAt(conn[c], "read", registry, Len(chans[registry].msgs))
      BY DEF JoinedAt
    <3> HIDE DEF r
    <3> QED
      BY <1>c, <3>1, UpdateMoves
  <2> HIDE DEF r
  <2>3. ChansShape' /\ task' = [pc |-> task'.pc, offset |-> task'.offset, batch |-> task'.batch]
    BY <2>1 DEF Shape, ChansShape
  <2>4. /\ DirInv' /\ Shape' /\ writer # "starting"
        /\ \A d \in Client : cls'[d] # "idle" => conn'[d].pc = "classify"
    BY <1>0, <2>1, <2>2, <2>3, AnswerUsed
  <2> QED
    BY <1>0, <2>1, <2>4 DEF AskersOnly, ReceiverIsFed, fileVars
<1>2. CASE registry = NoChan
  <2> DEFINE k == CHOOSE k \in Chan : ~chans[k].open /\ Receivers(k) = {}
             r == [conn[c] EXCEPT !.pc = "read", !.chan = k]
  <2>1. /\ ConnVars(c, r)
        /\ chans' = [chans EXCEPT ![k] = [msgs |-> <<>>, open |-> TRUE]]
        /\ registry' = k
        /\ task' = [NoTask EXCEPT !.pc = "poll", !.offset = Len(file)]
    BY <1>2 DEF Subscribe
  <2>2. k \in Chan
    BY <1>2, SpareChan
  <2>3. r.pc = "read" /\ ConnShape(r)
    <3>1. r = Joined(conn[c], "read", k)
      BY DEF Joined
    <3> HIDE DEF r
    <3> QED
      BY <1>c, <3>1, UpdateMoves
  <2> HIDE DEF k, r
  <2>4. ChansShape'
    <3>1. chans' = [j \in Chan |-> IF j = k THEN [msgs |-> <<>>, open |-> TRUE] ELSE chans[j]]
      BY <2>1 DEF Shape, ChansShape
    <3>2. \A j \in Chan : chans[j] = [msgs |-> chans[j].msgs, open |-> chans[j].open]
      BY DEF Shape, ChansShape
    <3>3. \A j \in Chan : chans'[j] = [msgs |-> chans'[j].msgs, open |-> chans'[j].open]
      BY <3>1, <3>2
    <3>4. chans' = [j \in Chan |-> chans'[j]]
      BY <3>1
    <3> QED
      BY <3>3, <3>4, Zenon DEF ChansShape
  <2>5. \A j \in Chan : chans'[j].open => j = k
    BY <1>2, <2>1, <2>2 DEF Shape, ChansShape, ReceiverIsFed, Chan, NoChan
  <2>6. /\ task'.pc = "poll"
        /\ task' = [pc |-> task'.pc, offset |-> task'.offset, batch |-> task'.batch]
    BY <2>1 DEF NoTask
  <2>7. /\ DirInv' /\ Shape' /\ writer # "starting"
        /\ \A d \in Client : cls'[d] # "idle" => conn'[d].pc = "classify"
    BY <1>0, <2>1, <2>3, <2>4, <2>6, AnswerUsed
  <2>8. ReceiverIsFed'
    BY <2>1, <2>2, <2>5, <2>6 DEF ReceiverIsFed, Chan, NoChan
  <2> QED
    BY <1>0, <2>7, <2>8 DEF AskersOnly, fileVars
<1> QED
  BY <1>1, <1>2

LEMMA ReadTerminalKeeps ==
  ASSUME StreamInv, NEW c \in Client, ReadTerminal(c) PROVE StreamInv'
<1> USE DEF StreamInv
<1>1. /\ cls[c] \in Answer /\ cls' = [cls EXCEPT ![c] = "idle"]
      /\ UNCHANGED <<fileVars, faults, chans, registry, task>>
  BY DEF ReadTerminal, Answer
<1>2. PICK r : ConnVars(c, r) /\ r.pc # "classify" /\ ConnShape(r)
  <2> DEFINE replay == ReplayFrom(conn[c].next)
             over == [Disconnected EXCEPT !.pc = "stopped"]
             rest == [conn[c] EXCEPT !.pc = "terminal", !.queue = replay,
                                     !.frame = (cls[c] = "aborted")]
  <2>1. ConnVars(c, IF replay = <<>> THEN over ELSE rest)
    BY DEF ReadTerminal
  <2>2. over = Stopped(Disconnected, "stopped")
    BY DEF Stopped
  <2>3. rest = Terminal(conn[c], "terminal", replay, cls[c] = "aborted")
    BY DEF Terminal
  <2>4. ConnShape(conn[c])
    BY DEF Shape, ConnShape
  <2> HIDE DEF replay, over, rest
  <2>5. over.pc = "stopped" /\ ConnShape(over)
    BY <2>2, OffShape, UpdateMoves
  <2>6. rest.pc = "terminal" /\ ConnShape(rest)
    BY <2>3, <2>4, UpdateMoves
  <2> QED
    BY <2>1, <2>5, <2>6
<1>3. ChansShape' /\ task' = [pc |-> task'.pc, offset |-> task'.offset, batch |-> task'.batch]
  BY <1>1 DEF Shape, ChansShape
<1>4. /\ DirInv' /\ Shape' /\ writer # "starting"
      /\ \A d \in Client : cls'[d] # "idle" => conn'[d].pc = "classify"
  BY <1>1, <1>2, <1>3, AnswerUsed
<1> QED
  BY <1>1, <1>4 DEF AskersOnly, ReceiverIsFed, fileVars

(* Past its classification a connection touches nothing of the server's.   *)
LEMMA FollowStepsKeep ==
  ASSUME StreamInv, NEW c \in Client,
         ReadReplay(c) \/ SendReplay(c) \/ Recv(c) \/ EndLive(c) \/ EndTerminal(c)
  PROVE  StreamInv'
<1> USE DEF StreamInv
<1>f. faults \in Nat
  BY DEF DirInv, DirTypeOK
<1>c. ConnShape(conn[c])
  BY DEF Shape, ConnShape
<1>1. CASE ReadReplay(c)
  <2> DEFINE r == [conn[c] EXCEPT !.pc = "replay", !.queue = ReplayFrom(conn[c].next)]
  <2>1. /\ ConnVars(c, r) /\ conn[c].pc # "classify"
        /\ UNCHANGED <<fileVars, cls, faults, chans, registry, task>>
    BY <1>1 DEF ReadReplay, dirVars
  <2>2. r = Replaying(conn[c], "replay", ReplayFrom(conn[c].next))
    BY DEF Replaying
  <2> HIDE DEF r
  <2>3. r.pc = "replay" /\ ConnShape(r)
    BY <1>c, <2>2, UpdateMoves
  <2> QED
    BY <1>f, <2>1, <2>3, FollowKeeps DEF ConnShape
<1>2. CASE EndLive(c) \/ EndTerminal(c)
  <2>1. /\ ConnVars(c, Disconnected) /\ conn[c].pc # "classify"
        /\ UNCHANGED <<fileVars, cls, faults, chans, registry, task>>
    BY <1>2 DEF EndLive, EndTerminal, dirVars
  <2> QED
    BY <1>f, <2>1, OffShape, FollowKeeps DEF ConnShape
<1>3. CASE SendReplay(c)
  <2> DEFINE id == Head(conn[c].queue)
             rest == [conn[c] EXCEPT !.queue = Tail(@)]
             sent == [rest EXCEPT !.next = id + 1]
  <2>1. /\ Frame(c, id, sent) \/ (ConnVars(c, rest) /\ UNCHANGED faults)
        /\ conn[c].pc \in {"replay", "terminal"}
        /\ UNCHANGED <<fileVars, cls, chans, registry, task>>
    BY <1>3 DEF SendReplay
  <2>2. rest = [conn[c] EXCEPT !.queue = Tail(conn[c].queue)]
    OBVIOUS
  <2>3. sent = [rest EXCEPT !.next = id + 1]
    OBVIOUS
  <2> HIDE DEF id, rest, sent
  <2>4. rest.pc = conn[c].pc /\ ConnShape(rest)
    BY <1>c, <2>2, UpdateFollow
  <2>5. sent.pc = conn[c].pc /\ ConnShape(sent)
    BY <2>3, <2>4, UpdateFollow
  <2>6. CASE Frame(c, id, sent)
    BY <2>1, <2>5, <2>6, FrameKeeps
  <2>7. CASE ConnVars(c, rest) /\ UNCHANGED faults
    BY <1>f, <2>1, <2>4, <2>7, FollowKeeps DEF ConnShape
  <2> QED
    BY <2>1, <2>6, <2>7
<1>4. CASE Recv(c)
  <2> DEFINE msg == chans[conn[c].chan].msgs[conn[c].pos + 1]
             read == [conn[c] EXCEPT !.pos = @ + 1]
             sent == [read EXCEPT !.next = msg + 1]
  <2>1. /\ \/ Frame(c, msg, sent)
           \/ ConnVars(c, read) /\ UNCHANGED faults
           \/ ConnVars(c, Disconnected) /\ UNCHANGED faults
        /\ conn[c].pc = "replay"
        /\ UNCHANGED <<fileVars, cls, chans, registry, task>>
    BY <1>4 DEF Recv
  <2>2. read = [conn[c] EXCEPT !.pos = conn[c].pos + 1]
    OBVIOUS
  <2>3. sent = [read EXCEPT !.next = msg + 1]
    OBVIOUS
  <2> HIDE DEF msg, read, sent
  <2>4. read.pc = conn[c].pc /\ ConnShape(read)
    BY <1>c, <2>2, UpdateFollow
  <2>5. sent.pc = conn[c].pc /\ ConnShape(sent)
    BY <2>3, <2>4, UpdateFollow
  <2>6. CASE Frame(c, msg, sent)
    BY <2>1, <2>5, <2>6, FrameKeeps
  <2>7. CASE ConnVars(c, read) /\ UNCHANGED faults
    BY <1>f, <2>1, <2>4, <2>7, FollowKeeps DEF ConnShape
  <2>8. CASE ConnVars(c, Disconnected) /\ UNCHANGED faults
    BY <1>f, <2>1, <2>8, OffShape, FollowKeeps DEF ConnShape
  <2> QED
    BY <2>1, <2>6, <2>7, <2>8
<1> QED
  BY <1>1, <1>2, <1>3, <1>4

----------------------------------------------------------------------------
(* The run's steps and the classifiers' see nothing of the server.         *)
LEMMA RunStepKeeps ==
  ASSUME StreamInv, WriterStep \/ CrashRun \/ \E r \in Reader : TryLock(r),
         UNCHANGED streamVars
  PROVE  StreamInv'
<1> USE DEF StreamInv
<1>1. DirInv'
  BY WriterKeeps, TryLockKeeps
<1>2. \A r \in Reader : cls'[r] # "idle" => cls[r] # "idle"
  <2>1. CASE WriterStep \/ CrashRun
    BY <2>1
    DEF WriterStep, AcquireRunLock, AppendEvent, TearLine, CompleteLine, FailLine,
        FinishRun, ExitRun, CrashRun, LeaveRun
  <2>2. ASSUME NEW r \in Reader, TryLock(r)
        PROVE  \A q \in Reader : cls'[q] # "idle" => cls[q] # "idle"
    BY <2>2
    DEF TryLock, TryLockFree, TryLockHeld, DropLock, DirInv, DirTypeOK
  <2> QED
    BY <2>1, <2>2
<1>3. writer # "starting" => writer' # "starting"
  BY DEF WriterStep, AcquireRunLock, AppendEvent, TearLine, CompleteLine, FailLine,
         FinishRun, ExitRun, CrashRun, LeaveRun, TryLock, TryLockFree, TryLockHeld,
         DropLock, fileVars
<1>4. AskersOnly'
  BY <1>2, <1>3, StreamConstants DEF StreamConstants, AskersOnly, streamVars
<1>5. Shape' /\ ReceiverIsFed'
  BY DEF Shape, ChansShape, ReceiverIsFed, streamVars
<1> QED
  BY <1>1, <1>4, <1>5

LEMMA StreamStep == StreamInv /\ [Next]_vars => StreamInv'
<1> SUFFICES ASSUME StreamInv, [Next]_vars PROVE StreamInv'
  OBVIOUS
<1>1. CASE (WriterStep \/ CrashRun \/ \E r \in Reader : TryLock(r)) /\ UNCHANGED streamVars
  BY <1>1, RunStepKeeps
<1>2. CASE TailStep
  BY <1>2, TailStepKeeps
<1>3. ASSUME NEW c \in Client, ConnStep(c) PROVE StreamInv'
  BY <1>3, ConnectKeeps, SubscribeKeeps, ReadTerminalKeeps, FollowStepsKeep DEF ConnStep
<1>4. CASE UNCHANGED vars
  <2>1. DirInv'
    BY <1>4, DirKeeps DEF vars, dirVars, StreamInv, DirInv, DirTypeOK
  <2> QED
    BY <1>4, <2>1
    DEF vars, dirVars, fileVars, streamVars, StreamInv, Shape, ChansShape, AskersOnly,
        ReceiverIsFed
<1> QED
  BY <1>1, <1>2, <1>3, <1>4 DEF Next, AllStopped

LEMMA StreamInvariant == Spec => []StreamInv
<1>1. Init => StreamInv
  BY InitStreamInv
<1>2. StreamInv /\ [Next]_vars => StreamInv'
  BY StreamStep
<1> QED
  BY <1>1, <1>2, PTL DEF Spec

(* Whatever the interleaving of the run, of any number of readers and of   *)
(* the two reads of each classification, an answer is worth what a reader  *)
(* takes it for (discovery.rs classify).                                   *)
THEOREM ClassifierAnswers == Spec => []AnswersJustified
<1>1. StreamInv => AnswersJustified
  BY DEF StreamInv, DirInv
<1> QED
  BY <1>1, StreamInvariant, PTL

(* subscribe and the end of tail_task race for the registry, and never     *)
(* leave an open broadcast without its tail task.                          *)
THEOREM EveryReceiverFed == Spec => []ReceiverIsFed
<1>1. StreamInv => ReceiverIsFed
  BY DEF StreamInv
<1> QED
  BY <1>1, StreamInvariant, PTL

(* run.lock is held by the run exactly while it lives, and by a reader     *)
(* exactly inside its classification; and the run directory is well-typed. *)
THEOREM LockHeldByLife == Spec => [](DirTypeOK /\ LockMatchesHolders)
<1>1. StreamInv => DirTypeOK /\ LockMatchesHolders
  BY DEF StreamInv, DirInv
<1> QED
  BY <1>1, StreamInvariant, PTL

----------------------------------------------------------------------------
(* The ids of a file, line by line.                                        *)
FileLine == [id : Nat, bookend : BOOLEAN, readable : BOOLEAN]
IdOf(l) == IF l.readable THEN <<l.id>> ELSE <<>>
IdsByLine(f) == [i \in DOMAIN f |-> IdOf(f[i])]

LEMMA IdOfType == ASSUME NEW l \in FileLine PROVE IdOf(l) \in Seq(Nat)
<1>1. l.id \in Nat
  BY DEF FileLine
<1>2. <<l.id>> \in Seq(Nat)
  BY <1>1
<1> QED
  BY <1>2 DEF IdOf

LEMMA LineIdsAre ==
  ASSUME NEW f \in Seq(FileLine)
  PROVE  /\ IdsByLine(f) \in Seq(Seq(Nat)) /\ Len(IdsByLine(f)) = Len(f)
         /\ LineIds(f) = FlattenSeq(IdsByLine(f))
         /\ LineIds(f) \in Seq(Nat)
<1>1. \A i \in 1 .. Len(f) : IdOf(f[i]) \in Seq(Nat)
  BY IdOfType
<1> DEFINE g == IdsByLine(f)
<1>2. g = [i \in 1 .. Len(f) |-> IdOf(f[i])]
  BY DEF IdsByLine
<1>3. g \in [1 .. Len(f) -> Seq(Nat)] /\ Len(f) \in Nat
  BY <1>1, <1>2
<1> HIDE DEF g
<1>4. g \in Seq(Seq(Nat)) /\ Len(g) = Len(f)
  BY <1>3
<1>5. LineIds(f) = FlattenSeq(g)
  <2>1. PICK h \in [0 .. Len(f) -> Seq(Nat)] : Accumulates(h, g)
    BY <1>4, FlattenByParts
  <2>2. ASSUME NEW i \in 1 .. Len(f)
        PROVE  h[i] = IF f[i].readable THEN Append(h[i - 1], f[i].id) ELSE h[i - 1]
    <3>1. i - 1 \in 0 .. Len(f) /\ f[i].id \in Nat
      <4>1. f[i] \in FileLine
        OBVIOUS
      <4> QED
        BY <4>1 DEF FileLine
    <3>2. h[i - 1] \in Seq(Nat)
      BY <3>1
    <3>3. h[i] = h[i - 1] \o IdOf(f[i])
      BY <1>2, <1>4, <2>1 DEF Accumulates
    <3>4. CASE ~f[i].readable
      BY <3>2, <3>3, <3>4, ConcatEmptySeq DEF IdOf
    <3>5. CASE f[i].readable
      <4>1. h[i] = h[i - 1] \o <<f[i].id>>
        BY <3>3, <3>5 DEF IdOf
      <4>2. Append(h[i - 1], f[i].id) = h[i - 1] \o <<f[i].id>>
        BY <3>1, <3>2, AppendIsConcat
      <4> QED
        BY <3>5, <4>1, <4>2
    <3> QED
      BY <3>4, <3>5
  <2> DEFINE Body(e, i) == IF i = 0 THEN <<>>
                           ELSE IF f[i].readable THEN Append(e[i - 1], f[i].id) ELSE e[i - 1]
             ids == CHOOSE e : e = [i \in 0 .. Len(f) |-> Body(e, i)]
  <2>3. ids = [i \in 0 .. Len(f) |-> Body(ids, i)]
    <3>1. h[0] = <<>>
      BY <2>1 DEF Accumulates
    <3>2. \A i \in 0 .. Len(f) : i = 0 \/ i \in 1 .. Len(f)
      BY <1>3
    <3>3. \A i \in 0 .. Len(f) : h[i] = Body(h, i)
      BY <2>2, <3>1, <3>2
    <3>4. h = [i \in 0 .. Len(f) |-> Body(h, i)]
      BY <3>3
    <3> QED
      BY <3>4, Zenon
  <2>4. LineIds(f) = ids[Len(f)]
    BY DEF LineIds
  <2> HIDE DEF ids
  <2>5. \A i \in 0 .. Len(f) : ids[i] = Body(ids, i)
    BY <2>3
  <2> DEFINE Same == {n \in Nat : n \in 0 .. Len(f) => ids[n] = h[n]}
  <2>6. 0 \in Same
    <3>1. 0 \in 0 .. Len(f) /\ h[0] = <<>>
      BY <1>3, <2>1 DEF Accumulates
    <3> QED
      BY <2>5, <3>1
  <2>7. ASSUME NEW n \in Nat, n \in Same PROVE n + 1 \in Same
    <3>1. CASE n + 1 \in 0 .. Len(f)
      <4>1. /\ n \in 0 .. Len(f) /\ n + 1 # 0 /\ (n + 1) - 1 = n
            /\ n + 1 \in 1 .. Len(f) /\ n + 1 \in Nat
        BY <1>3, <3>1
      <4>2. ids[n] = h[n]
        BY <2>7, <4>1
      <4>3. ids[n + 1] = IF f[n + 1].readable THEN Append(ids[n], f[n + 1].id) ELSE ids[n]
        BY <2>5, <3>1, <4>1
      <4>4. h[n + 1] = IF f[n + 1].readable THEN Append(h[n], f[n + 1].id) ELSE h[n]
        BY <2>2, <4>1
      <4> QED
        BY <4>1, <4>2, <4>3, <4>4
    <3> QED
      BY <3>1
  <2>8. \A n \in Nat : n \in Same
    <3> HIDE DEF Same
    <3> QED
      BY <2>6, <2>7, SetInduction
  <2>9. ids[Len(f)] = h[Len(f)]
    BY <1>3, <2>8
  <2> QED
    BY <1>4, <2>1, <2>4, <2>9 DEF Accumulates
<1>6. LineIds(f) \in Seq(Nat)
  BY <1>4, <1>5, FlattenType
<1> QED
  BY <1>4, <1>5, <1>6 DEF g

LEMMA LineIdsEmpty == LineIds(<<>>) = <<>>
<1>1. <<>> \in Seq(FileLine)
  OBVIOUS
<1>2. IdsByLine(<<>>) = <<>>
  BY DEF IdsByLine
<1> QED
  BY <1>1, <1>2, LineIdsAre, FlattenEmpty

LEMMA LineIdsAppend ==
  ASSUME NEW f \in Seq(FileLine), NEW l \in FileLine
  PROVE  LineIds(Append(f, l)) =
           IF l.readable THEN Append(LineIds(f), l.id) ELSE LineIds(f)
<1> DEFINE g == Append(f, l)
<1>1. /\ g \in Seq(FileLine) /\ Len(g) = Len(f) + 1 /\ g[Len(f) + 1] = l
      /\ (\A i \in 1 .. Len(f) : g[i] = f[i]) /\ Len(f) \in Nat
  OBVIOUS
<1> HIDE DEF g
<1>2. IdsByLine(f) \in Seq(Seq(Nat)) /\ Len(IdsByLine(f)) = Len(f) /\ IdOf(l) \in Seq(Nat)
  BY LineIdsAre, IdOfType
<1>3. IdsByLine(g) = Append(IdsByLine(f), IdOf(l))
  <2> DEFINE h == Append(IdsByLine(f), IdOf(l))
  <2>1. /\ DOMAIN h = 1 .. Len(f) + 1
        /\ \A i \in 1 .. Len(f) : h[i] = IdsByLine(f)[i]
        /\ h[Len(f) + 1] = IdOf(l)
    BY <1>2, AppendProperties
  <2>2. h = [i \in DOMAIN h |-> h[i]]
    <3>1. h \in Seq(Seq(Nat))
      BY <1>2
    <3> HIDE DEF h
    <3> QED
      BY <3>1
  <2>3. \A i \in 1 .. Len(f) : IdsByLine(f)[i] = IdOf(f[i])
    BY DEF IdsByLine
  <2> HIDE DEF h
  <2>4. \A i \in 1 .. Len(f) + 1 : h[i] = IdOf(g[i])
    <3>1. \A i \in 1 .. Len(f) : h[i] = IdOf(g[i])
      BY <1>1, <2>1, <2>3
    <3>2. h[Len(f) + 1] = IdOf(g[Len(f) + 1])
      BY <1>1, <2>1
    <3>3. \A i \in 1 .. Len(f) + 1 : i \in 1 .. Len(f) \/ i = Len(f) + 1
      BY <1>1
    <3> QED
      BY <3>1, <3>2, <3>3
  <2>5. IdsByLine(g) = [i \in 1 .. Len(f) + 1 |-> IdOf(g[i])]
    BY <1>1 DEF IdsByLine
  <2>6. IdsByLine(g) = h
    BY <2>1, <2>2, <2>4, <2>5
  <2> QED
    BY <2>6 DEF h
<1>4. LineIds(g) = LineIds(f) \o IdOf(l)
  <2>1. LineIds(g) = FlattenSeq(Append(IdsByLine(f), IdOf(l)))
    BY <1>1, <1>3, LineIdsAre
  <2>2. LineIds(f) = FlattenSeq(IdsByLine(f))
    BY LineIdsAre
  <2> QED
    BY <1>2, <2>1, <2>2, FlattenAppend
<1>5. LineIds(f) \in Seq(Nat) /\ l.id \in Nat
  BY LineIdsAre DEF FileLine
<1>6. CASE l.readable
  <2>1. IdOf(l) = <<l.id>>
    BY <1>6 DEF IdOf
  <2>2. Append(LineIds(f), l.id) = LineIds(f) \o <<l.id>>
    BY <1>5, AppendIsConcat
  <2> QED
    BY <1>4, <1>6, <2>1, <2>2 DEF g
<1>7. CASE ~l.readable
  <2>1. IdOf(l) = <<>>
    BY <1>7 DEF IdOf
  <2> QED
    BY <1>4, <1>5, <1>7, <2>1, ConcatEmptySeq DEF g
<1> QED
  BY <1>6, <1>7

Logged(n, f) == \E i \in DOMAIN f : f[i].readable /\ f[i].id = n

(* Its readable lines are numbered in order, all below next. *)
NumberedLines(f, next) ==
  /\ \A i \in DOMAIN f : f[i].readable => f[i].id < next
  /\ \A i, j \in DOMAIN f :
       i < j /\ f[i].readable /\ f[j].readable => f[i].id < f[j].id

LEMMA AppendLine ==
  ASSUME NEW f \in Seq(FileLine), NEW l \in FileLine
  PROVE  /\ Append(f, l) \in Seq(FileLine) /\ Len(Append(f, l)) = Len(f) + 1
         /\ DOMAIN f = 1 .. Len(f) /\ DOMAIN Append(f, l) = 1 .. Len(f) + 1
         /\ \A i \in 1 .. Len(f) : Append(f, l)[i] = f[i]
         /\ Append(f, l)[Len(f) + 1] = l
         /\ Len(f) \in Nat
         /\ \A n : Logged(n, Append(f, l)) <=> Logged(n, f) \/ (l.readable /\ n = l.id)
<1>1. /\ Append(f, l) \in Seq(FileLine) /\ Len(Append(f, l)) = Len(f) + 1
      /\ DOMAIN f = 1 .. Len(f) /\ DOMAIN Append(f, l) = 1 .. Len(f) + 1
      /\ \A i \in 1 .. Len(f) : Append(f, l)[i] = f[i]
      /\ Append(f, l)[Len(f) + 1] = l
      /\ Len(f) \in Nat
  OBVIOUS
<1> DEFINE g == Append(f, l)
<1> HIDE DEF g
<1>2. \A n : Logged(n, g) <=> Logged(n, f) \/ (l.readable /\ n = l.id)
  BY <1>1 DEF Logged, g
<1> QED
  BY <1>1, <1>2 DEF g

LEMMA LineIdsOccur ==
  \A f \in Seq(FileLine) : \A n \in Nat : Occurs(n, LineIds(f)) <=> Logged(n, f)
<1> DEFINE S == {f \in Seq(FileLine) :
                   \A n \in Nat : Occurs(n, LineIds(f)) <=> Logged(n, f)}
<1>1. <<>> \in S
  BY LineIdsEmpty DEF Occurs, Logged
<1>2. ASSUME NEW f \in Seq(FileLine), NEW l \in FileLine, f \in S PROVE Append(f, l) \in S
  <2>1. ASSUME NEW n \in Nat
        PROVE  Occurs(n, LineIds(Append(f, l))) <=> Logged(n, Append(f, l))
    <3>1. Occurs(n, LineIds(f)) <=> Logged(n, f)
      BY <1>2
    <3>2. Logged(n, Append(f, l)) <=> Logged(n, f) \/ (l.readable /\ n = l.id)
      BY AppendLine
    <3>3. CASE l.readable
      <4>1. l.id \in Nat
        BY DEF FileLine
      <4>2. Occurs(n, Append(LineIds(f), l.id)) <=> Occurs(n, LineIds(f)) \/ n = l.id
        BY <4>1, LineIdsAre, AppendOccurs
      <4>3. LineIds(Append(f, l)) = Append(LineIds(f), l.id)
        BY <3>3, LineIdsAppend
      <4> QED
        BY <3>1, <3>2, <3>3, <4>2, <4>3, Zenon
    <3>4. CASE ~l.readable
      <4>1. LineIds(Append(f, l)) = LineIds(f)
        BY <3>4, LineIdsAppend
      <4> QED
        BY <3>1, <3>2, <3>4, <4>1, Zenon
    <3> QED
      BY <3>3, <3>4
  <2>2. Append(f, l) \in Seq(FileLine)
    BY AppendLine
  <2> QED
    BY <2>1, <2>2
<1>3. \A f \in Seq(FileLine) : f \in S
  <2> HIDE DEF S
  <2> QED
    BY <1>1, <1>2, SequenceInduction
<1> QED
  BY <1>3

LEMMA LineIdsIncrease ==
  \A f \in Seq(FileLine) : \A next \in Nat : NumberedLines(f, next) => Increasing(LineIds(f))
<1> DEFINE S == {f \in Seq(FileLine) :
                   \A next \in Nat : NumberedLines(f, next) => Increasing(LineIds(f))}
<1>1. <<>> \in S
  BY LineIdsEmpty DEF Increasing
<1>2. ASSUME NEW f \in Seq(FileLine), NEW l \in FileLine, f \in S,
             NEW next \in Nat, NumberedLines(Append(f, l), next)
      PROVE  Increasing(LineIds(Append(f, l)))
  <2>0. l.id \in Nat /\ LineIds(f) \in Seq(Nat)
    BY LineIdsAre DEF FileLine
  <2>1. NumberedLines(f, next) /\ (l.readable => \A n \in Nat : Logged(n, f) => n < l.id)
    <3> DEFINE g == Append(f, l)
    <3>1. /\ DOMAIN f = 1 .. Len(f) /\ DOMAIN g = 1 .. Len(f) + 1
          /\ \A i \in 1 .. Len(f) : g[i] = f[i]
          /\ g[Len(f) + 1] = l /\ Len(f) \in Nat
      BY AppendLine
    <3>2. NumberedLines(g, next)
      BY <1>2
    <3> HIDE DEF g
    <3>3. \A i \in 1 .. Len(f) : i < Len(f) + 1 /\ i \in DOMAIN g /\ Len(f) + 1 \in DOMAIN g
      BY <3>1
    <3>4. NumberedLines(f, next)
      BY <3>1, <3>2, <3>3 DEF NumberedLines
    <3>5. ASSUME l.readable, NEW n \in Nat, Logged(n, f) PROVE n < l.id
      <4>1. PICK i \in DOMAIN f : f[i].readable /\ f[i].id = n
        BY <3>5 DEF Logged
      <4>2. g[i] = f[i] /\ i \in DOMAIN g /\ Len(f) + 1 \in DOMAIN g /\ i < Len(f) + 1
        BY <3>1, <3>3
      <4>3. g[i].id < g[Len(f) + 1].id
        BY <3>1, <3>2, <3>5, <4>1, <4>2 DEF NumberedLines
      <4> QED
        BY <3>1, <4>1, <4>2, <4>3
    <3> QED
      BY <3>4, <3>5
  <2>2. Increasing(LineIds(f))
    BY <1>2, <2>1
  <2>3. CASE l.readable
    <3>1. \A n \in Nat : Occurs(n, LineIds(f)) => n < l.id
      BY <2>1, <2>3, LineIdsOccur
    <3>2. Increasing(Append(LineIds(f), l.id))
      BY <2>0, <2>2, <3>1, AppendIncreasing
    <3> QED
      BY <2>3, <3>2, LineIdsAppend
  <2>4. CASE ~l.readable
    BY <2>2, <2>4, LineIdsAppend
  <2> QED
    BY <2>3, <2>4
<1>3. \A f \in Seq(FileLine) : f \in S
  <2>1. \A f \in Seq(FileLine), l \in FileLine : f \in S => Append(f, l) \in S
    <3>1. \A f \in Seq(FileLine), l \in FileLine : Append(f, l) \in Seq(FileLine)
      BY AppendLine
    <3> QED
      BY <1>2, <3>1
  <2> HIDE DEF S
  <2> QED
    BY <1>1, <2>1, SequenceInduction
<1> QED
  BY <1>3

----------------------------------------------------------------------------
(* The delivery of the log.  Where the ids of the file are: with the tail  *)
(* task (still to be sent), in the broadcasts, in the queue of a           *)
(* connection, and in the view of a client.                                *)

(* The tail task still has to send n. *)
Coming(n, t, f) ==
  \/ Occurs(n, t.batch)
  \/ \E i \in t.offset + 1 .. Len(f) : f[i].readable /\ f[i].id = n

(* All it still has to send is later than m. *)
Later(m, t, f) ==
  /\ \A n \in Nat : Occurs(n, t.batch) => m < n
  /\ \A i \in t.offset + 1 .. Len(f) : f[i].readable => m < f[i].id

TailInOrder(t, f) ==
  /\ t.offset \in 0 .. Len(f)
  /\ t.batch \in Seq(Nat) /\ Increasing(t.batch)
  /\ t.pc # "send" => t.batch = <<>>
  /\ \A n \in Nat : Occurs(n, t.batch) =>
       /\ Logged(n, f)
       /\ \A i \in t.offset + 1 .. Len(f) : f[i].readable => n < f[i].id

MessagesInOrder(ms, f) ==
  /\ ms \in Seq(Nat \cup {Abort})
  /\ \A i, j \in DOMAIN ms : i < j /\ ms[i] \in Nat /\ ms[j] \in Nat => ms[i] < ms[j]
  /\ \A i \in DOMAIN ms : ms[i] \in Nat => Logged(ms[i], f)

CastInOrder(ch, reg, t, f) ==
  /\ reg \in Chan \cup {NoChan}
  /\ \A k \in Chan : MessagesInOrder(ch[k].msgs, f)
  /\ reg # NoChan => \A m \in Nat : Occurs(m, ch[reg].msgs) => Later(m, t, f)

(* What a queue holds of the ids still wanted comes before the others. *)
QueueFirst(r, f) ==
  \A n \in Nat : Logged(n, f) /\ n >= r.next =>
    Occurs(n, r.queue) \/ \A q \in Nat : Occurs(q, r.queue) => q < n

Behindhand(r, ch) == Len(ch[r.chan].msgs) - r.pos > Capacity

(* Likewise what a broadcast holds for a receiver, and what is in neither  *)
(* is on its way, if the broadcast is still fed.                           *)
CastNext(r, ch, reg, t, f) ==
  \A n \in Nat : Logged(n, f) /\ n >= r.next =>
    \/ Occurs(n, r.queue)
    \/ \E i \in r.pos + 1 .. Len(ch[r.chan].msgs) : ch[r.chan].msgs[i] = n
    \/ /\ \A i \in r.pos + 1 .. Len(ch[r.chan].msgs) :
            ch[r.chan].msgs[i] \in Nat => ch[r.chan].msgs[i] < n
       /\ r.chan = reg => Coming(n, t, f)

ConnInOrder(r, ch, reg, t, f) ==
  /\ r.next \in Nat /\ r.queue \in Seq(Nat) /\ Increasing(r.queue)
  /\ \A n \in Nat : Occurs(n, r.queue) => Logged(n, f)
  /\ r.pc = "classify" => r.pos = 0
  /\ r.pc \in {"read", "replay"} =>
       r.chan \in Chan /\ r.pos \in 0 .. Len(ch[r.chan].msgs)
  /\ r.pc \in {"replay", "terminal"} => QueueFirst(r, f)
  /\ r.pc = "replay" /\ ~Behindhand(r, ch) => CastNext(r, ch, reg, t, f)

(* A view is a beginning of what is wanted, and a connection goes on where *)
(* the view ends.                                                          *)
WantedOf(from, f) == Without(LineIds(f), 0 .. ResumeStart(NoId, from) - 1)
GoesOn(v, from) == ResumeStart(IF v = <<>> THEN NoId ELSE v[Len(v)], from)

Begins(v, w) == Len(v) <= Len(w) /\ \A i \in 1 .. Len(v) : v[i] = w[i]

ViewInOrder(v, r, from, f) ==
  /\ v \in Seq(Nat) /\ Begins(v, WantedOf(from, f))
  /\ r.pc \in {"classify", "read", "replay", "terminal"} => r.next = GoesOn(v, from)

DeliveryInv ==
  /\ NumberedLines(file, nextEvent)
  /\ TailInOrder(task, file)
  /\ CastInOrder(chans, registry, task, file)
  /\ \A c \in Client :
       /\ ConnInOrder(conn[c], chans, registry, task, file)
       /\ ViewInOrder(view[c], conn[c], From[c], file)
  /\ view = [c \in Client |-> view[c]]

LEMMA FromWhere ==
  ASSUME NEW from \in Nat \cup {NoId}
  PROVE  /\ ResumeStart(NoId, from) \in Nat
         /\ \A n \in Nat : n \in 0 .. ResumeStart(NoId, from) - 1 <=> ~(n >= ResumeStart(NoId, from))
         /\ \A n \in Nat : ResumeStart(n, from) = n + 1
<1>1. NoId \notin Nat
  BY StreamConstants DEF StreamConstants
<1>2. ResumeStart(NoId, from) \in Nat
  BY <1>1 DEF ResumeStart
<1>3. \A n \in Nat : ResumeStart(n, from) = n + 1
  BY <1>1 DEF ResumeStart
<1> QED
  BY <1>2, <1>3

LEMMA WantedIs ==
  ASSUME NEW f \in Seq(FileLine), NEW next \in Nat, NumberedLines(f, next),
         NEW from \in Nat \cup {NoId}
  PROVE  /\ WantedOf(from, f) \in Seq(Nat) /\ Increasing(WantedOf(from, f))
         /\ \A n \in Nat : Occurs(n, WantedOf(from, f)) <=>
              Logged(n, f) /\ n >= ResumeStart(NoId, from)
<1> DEFINE gone == 0 .. ResumeStart(NoId, from) - 1
<1>1. LineIds(f) \in Seq(Nat) /\ Increasing(LineIds(f))
  BY LineIdsAre, LineIdsIncrease
<1>2. \A n \in Nat : n \in gone <=> ~(n >= ResumeStart(NoId, from))
  BY FromWhere
<1>3. WantedOf(from, f) = Without(LineIds(f), gone)
  BY DEF WantedOf
<1> HIDE DEF gone
<1>4. WantedOf(from, f) \in Seq(Nat)
  BY <1>1, <1>3, WithoutType
<1>5. Increasing(WantedOf(from, f))
  BY <1>1, <1>3, WithoutIncreasing
<1>6. \A n \in Nat : Occurs(n, LineIds(f)) <=> Logged(n, f)
  BY LineIdsOccur
<1>7. \A n \in Nat : Occurs(n, Without(LineIds(f), gone)) <=> Occurs(n, LineIds(f)) /\ n \notin gone
  BY <1>1, WithoutOccurs
<1> QED
  BY <1>2, <1>3, <1>4, <1>5, <1>6, <1>7

LEMMA WantedGrows ==
  ASSUME NEW f \in Seq(FileLine), NEW l \in FileLine, NEW from \in Nat \cup {NoId}
  PROVE  \/ WantedOf(from, Append(f, l)) = WantedOf(from, f)
         \/ WantedOf(from, Append(f, l)) = Append(WantedOf(from, f), l.id)
<1> DEFINE gone == 0 .. ResumeStart(NoId, from) - 1
<1>1. LineIds(f) \in Seq(Nat) /\ l.id \in Nat
  BY LineIdsAre DEF FileLine
<1>2. \A g : WantedOf(from, g) = Without(LineIds(g), gone)
  BY DEF WantedOf
<1> HIDE DEF gone
<1>3. CASE l.readable
  <2>1. LineIds(Append(f, l)) = Append(LineIds(f), l.id)
    BY <1>3, LineIdsAppend
  <2>2. \/ Without(Append(LineIds(f), l.id), gone) = Without(LineIds(f), gone)
        \/ Without(Append(LineIds(f), l.id), gone) = Append(Without(LineIds(f), gone), l.id)
    BY <1>1, WithoutAppend
  <2> QED
    BY <1>2, <2>1, <2>2
<1>4. CASE ~l.readable
  <2>1. LineIds(Append(f, l)) = LineIds(f)
    BY <1>4, LineIdsAppend
  <2> QED
    BY <1>2, <2>1
<1> QED
  BY <1>3, <1>4

----------------------------------------------------------------------------
(* One more line in the file: its id is later than every other.            *)
NextLine(l, next) == l \in FileLine /\ (l.readable => l.id = next)

LEMMA LineNumbered ==
  ASSUME NEW f \in Seq(FileLine), NEW next \in Nat, NumberedLines(f, next),
         NEW l, NextLine(l, next)
  PROVE  /\ NumberedLines(Append(f, l), next + 1)
         /\ \A n \in Nat : Logged(n, f) => Logged(n, Append(f, l)) /\ n < next
         /\ \A n \in Nat : Logged(n, Append(f, l)) =>
              Logged(n, f) \/ (n = next /\ l.readable)
<1>0. l \in FileLine
  BY DEF NextLine
<1> DEFINE g == Append(f, l)
<1>1. /\ DOMAIN f = 1 .. Len(f) /\ DOMAIN g = 1 .. Len(f) + 1 /\ Len(f) \in Nat
      /\ \A i \in 1 .. Len(f) : g[i] = f[i] /\ f[i].id \in Nat
      /\ g[Len(f) + 1] = l
      /\ \A n : Logged(n, g) <=> Logged(n, f) \/ (l.readable /\ n = l.id)
  <2>1. \A i \in 1 .. Len(f) : f[i] \in FileLine
    OBVIOUS
  <2>2. \A i \in 1 .. Len(f) : f[i].id \in Nat
    BY <2>1 DEF FileLine
  <2> QED
    BY <1>0, <2>2, AppendLine
<1> HIDE DEF g
<1>2. \A i \in 1 .. Len(f) + 1 : i \in 1 .. Len(f) \/ i = Len(f) + 1
  BY <1>1
<1>3. \A i \in 1 .. Len(f) : f[i].readable => f[i].id < next
  BY <1>1 DEF NumberedLines
<1>4. \A n \in Nat : Logged(n, f) => n < next
  BY <1>1, <1>3 DEF Logged
<1>5. NumberedLines(g, next + 1)
  <2>1. \A i \in 1 .. Len(f) + 1 : g[i].readable => g[i].id < next + 1
    BY <1>1, <1>2, <1>3 DEF NextLine
  <2>2. ASSUME NEW i \in 1 .. Len(f) + 1, NEW j \in 1 .. Len(f) + 1, i < j,
               g[i].readable, g[j].readable
        PROVE  g[i].id < g[j].id
    <3>1. i \in 1 .. Len(f)
      BY <1>1, <2>2
    <3>2. CASE j \in 1 .. Len(f)
      BY <1>1, <2>2, <3>1, <3>2 DEF NumberedLines
    <3>3. CASE j = Len(f) + 1
      BY <1>1, <1>3, <2>2, <3>1, <3>3 DEF NextLine
    <3> QED
      BY <1>2, <3>2, <3>3
  <2> QED
    BY <1>1, <2>1, <2>2 DEF NumberedLines
<1> QED
  BY <1>1, <1>4, <1>5 DEF NextLine, g

LEMMA LineTail ==
  ASSUME NEW f \in Seq(FileLine), NEW next \in Nat, NumberedLines(f, next),
         NEW l, NextLine(l, next), NEW t, TailInOrder(t, f)
  PROVE  /\ TailInOrder(t, Append(f, l))
         /\ \A n \in Nat : Coming(n, t, f) => Coming(n, t, Append(f, l))
         /\ l.readable => Coming(next, t, Append(f, l))
         /\ \A m \in Nat : Logged(m, f) /\ Later(m, t, f) => Later(m, t, Append(f, l))
<1>0. l \in FileLine
  BY DEF NextLine
<1> DEFINE g == Append(f, l)
<1>1. /\ Len(g) = Len(f) + 1 /\ Len(f) \in Nat
      /\ \A i \in 1 .. Len(f) : g[i] = f[i]
      /\ g[Len(f) + 1] = l
  BY <1>0, AppendLine
<1>2. \A n \in Nat : Logged(n, f) => Logged(n, g) /\ n < next
  BY LineNumbered
<1> HIDE DEF g
<1>3. t.offset \in 0 .. Len(f)
  BY DEF TailInOrder
<1>4. \A i \in t.offset + 1 .. Len(g) :
        \/ i \in t.offset + 1 .. Len(f) /\ i \in 1 .. Len(f)
        \/ i = Len(f) + 1
  BY <1>1, <1>3
<1>5. \A i \in t.offset + 1 .. Len(f) : i \in t.offset + 1 .. Len(g) /\ i \in 1 .. Len(f)
  BY <1>1, <1>3
<1>6. TailInOrder(t, g)
  <2>1. ASSUME NEW n \in Nat, Occurs(n, t.batch)
        PROVE  Logged(n, g) /\ \A i \in t.offset + 1 .. Len(g) : g[i].readable => n < g[i].id
    <3>1. Logged(n, f) /\ \A i \in t.offset + 1 .. Len(f) : f[i].readable => n < f[i].id
      BY <2>1 DEF TailInOrder
    <3> QED
      BY <1>1, <1>2, <1>4, <3>1 DEF NextLine
  <2>2. t.offset \in 0 .. Len(g)
    BY <1>1, <1>3
  <2> QED
    BY <2>1, <2>2 DEF TailInOrder
<1>7. \A n \in Nat : Coming(n, t, f) => Coming(n, t, g)
  BY <1>1, <1>5 DEF Coming
<1>8. l.readable => Coming(next, t, g)
  <2>1. Len(f) + 1 \in t.offset + 1 .. Len(g)
    BY <1>1, <1>3
  <2> QED
    BY <1>1, <2>1 DEF Coming, NextLine
<1>9. ASSUME NEW m \in Nat, Logged(m, f), Later(m, t, f) PROVE Later(m, t, g)
  BY <1>1, <1>2, <1>4, <1>9 DEF Later, NextLine
<1> QED
  BY <1>6, <1>7, <1>8, <1>9 DEF g

LEMMA LineCast ==
  ASSUME NEW f \in Seq(FileLine), NEW next \in Nat, NumberedLines(f, next),
         NEW l, NextLine(l, next), NEW t, TailInOrder(t, f),
         NEW ch, NEW reg, CastInOrder(ch, reg, t, f)
  PROVE  CastInOrder(ch, reg, t, Append(f, l))
<1> DEFINE g == Append(f, l)
<1>1. \A n \in Nat : Logged(n, f) => Logged(n, g)
  BY LineNumbered
<1>2. \A m \in Nat : Logged(m, f) /\ Later(m, t, f) => Later(m, t, g)
  BY LineTail
<1> HIDE DEF g
<1>3. \A k \in Chan : MessagesInOrder(ch[k].msgs, f)
  BY DEF CastInOrder
<1>4. \A k \in Chan : MessagesInOrder(ch[k].msgs, g)
  BY <1>1, <1>3 DEF MessagesInOrder
<1>5. ASSUME reg # NoChan, NEW m \in Nat, Occurs(m, ch[reg].msgs) PROVE Later(m, t, g)
  <2>1. reg \in Chan /\ Later(m, t, f)
    BY <1>5 DEF CastInOrder
  <2>2. Logged(m, f)
    BY <1>3, <1>5, <2>1 DEF MessagesInOrder, Occurs
  <2> QED
    BY <1>2, <2>1, <2>2
<1> QED
  BY <1>4, <1>5 DEF CastInOrder, g

LEMMA LineConn ==
  ASSUME NEW f \in Seq(FileLine), NEW next \in Nat, NumberedLines(f, next),
         NEW l, NextLine(l, next), NEW t, TailInOrder(t, f),
         NEW ch, NEW reg, CastInOrder(ch, reg, t, f),
         NEW r, ConnInOrder(r, ch, reg, t, f)
  PROVE  ConnInOrder(r, ch, reg, t, Append(f, l))
<1> DEFINE g == Append(f, l)
<1>1. /\ \A n \in Nat : Logged(n, f) => Logged(n, g) /\ n < next
      /\ \A n \in Nat : Logged(n, g) => Logged(n, f) \/ (n = next /\ l.readable)
  BY LineNumbered
<1>2. /\ \A n \in Nat : Coming(n, t, f) => Coming(n, t, g)
      /\ l.readable => Coming(next, t, g)
  BY LineTail
<1> HIDE DEF g
<1>3. \A n \in Nat : Occurs(n, r.queue) => Logged(n, f)
  BY DEF ConnInOrder
<1>4. ASSUME QueueFirst(r, f) PROVE QueueFirst(r, g)
  BY <1>1, <1>3, <1>4 DEF QueueFirst
<1>5. ASSUME r.pc = "replay", CastNext(r, ch, reg, t, f) PROVE CastNext(r, ch, reg, t, g)
  <2>1. r.chan \in Chan /\ r.pos \in 0 .. Len(ch[r.chan].msgs)
    BY <1>5 DEF ConnInOrder
  <2>2. MessagesInOrder(ch[r.chan].msgs, f)
    BY <2>1 DEF CastInOrder
  <2>3. \A i \in r.pos + 1 .. Len(ch[r.chan].msgs) :
          ch[r.chan].msgs[i] \in Nat => ch[r.chan].msgs[i] < next
    <3>1. \A i \in r.pos + 1 .. Len(ch[r.chan].msgs) : i \in DOMAIN ch[r.chan].msgs
      BY <2>1, <2>2 DEF MessagesInOrder
    <3> QED
      BY <1>1, <2>2, <3>1 DEF MessagesInOrder
  <2>4. ASSUME NEW n \in Nat, Logged(n, g), n >= r.next
        PROVE  \/ Occurs(n, r.queue)
               \/ \E i \in r.pos + 1 .. Len(ch[r.chan].msgs) : ch[r.chan].msgs[i] = n
               \/ /\ \A i \in r.pos + 1 .. Len(ch[r.chan].msgs) :
                       ch[r.chan].msgs[i] \in Nat => ch[r.chan].msgs[i] < n
                  /\ r.chan = reg => Coming(n, t, g)
    <3>1. CASE Logged(n, f)
      BY <1>2, <1>5, <2>4, <3>1 DEF CastNext
    <3>2. CASE n = next /\ l.readable
      BY <1>2, <2>3, <3>2
    <3> QED
      BY <1>1, <2>4, <3>1, <3>2
  <2> QED
    BY <2>4 DEF CastNext
<1> QED
  BY <1>1, <1>4, <1>5 DEF ConnInOrder, g

LEMMA LineView ==
  ASSUME NEW f \in Seq(FileLine), NEW next \in Nat, NumberedLines(f, next),
         NEW l, NextLine(l, next), NEW from \in Nat \cup {NoId},
         NEW v, NEW r, ViewInOrder(v, r, from, f)
  PROVE  ViewInOrder(v, r, from, Append(f, l))
<1> DEFINE w == WantedOf(from, f)
           x == WantedOf(from, Append(f, l))
<1>1. w \in Seq(Nat) /\ l.id \in Nat /\ (x = w \/ x = Append(w, l.id))
  <2>1. l \in FileLine
    BY DEF NextLine
  <2>2. l.id \in Nat
    BY <2>1 DEF FileLine
  <2>3. x = w \/ x = Append(w, l.id)
    BY <2>1, WantedGrows
  <2> QED
    BY <2>2, <2>3, WantedIs
<1>2. Len(v) \in Nat /\ Len(v) <= Len(w) /\ \A i \in 1 .. Len(v) : v[i] = w[i]
  BY DEF ViewInOrder, Begins
<1> HIDE DEF w, x
<1>3. Len(w) <= Len(x) /\ \A i \in 1 .. Len(w) : x[i] = w[i]
  BY <1>1, SMTT(30)
<1>4. Len(v) <= Len(x) /\ \A i \in 1 .. Len(v) : v[i] = x[i]
  BY <1>1, <1>2, <1>3
<1> QED
  BY <1>4 DEF ViewInOrder, Begins, x

----------------------------------------------------------------------------
(* The tail task.  A step that keeps what is coming and makes nothing come *)
(* earlier changes nothing for the broadcasts and the connections.         *)
Moves(t, u, f) ==
  /\ \A n \in Nat : Coming(n, t, f) => Coming(n, u, f)
  /\ \A m \in Nat : Later(m, t, f) => Later(m, u, f)

LEMMA MovedCast ==
  ASSUME NEW f, NEW t, NEW u, Moves(t, u, f), NEW ch, NEW reg, CastInOrder(ch, reg, t, f)
  PROVE  CastInOrder(ch, reg, u, f)
BY DEF Moves, CastInOrder

LEMMA MovedConn ==
  ASSUME NEW f, NEW t, NEW u, Moves(t, u, f), NEW ch, NEW reg,
         NEW r, ConnInOrder(r, ch, reg, t, f)
  PROVE  ConnInOrder(r, ch, reg, u, f)
<1>1. ASSUME CastNext(r, ch, reg, t, f) PROVE CastNext(r, ch, reg, u, f)
  BY <1>1 DEF CastNext, Moves
<1> QED
  BY <1>1 DEF ConnInOrder

(* A poll takes the lines behind the offset into the batch.                *)
Fresh(t, f) == SubSeq(f, t.offset + 1, Len(f))

LEMMA FreshLines ==
  ASSUME NEW f \in Seq(FileLine), NEW next \in Nat, NumberedLines(f, next),
         NEW t, t.offset \in 0 .. Len(f)
  PROVE  /\ LineIds(Fresh(t, f)) \in Seq(Nat) /\ Increasing(LineIds(Fresh(t, f)))
         /\ \A n \in Nat : Occurs(n, LineIds(Fresh(t, f))) <=>
              \E i \in t.offset + 1 .. Len(f) : f[i].readable /\ f[i].id = n
<1> DEFINE g == Fresh(t, f)
<1>1. PICK o \in Nat : o = t.offset /\ o <= Len(f) /\ Len(f) \in Nat
  OBVIOUS
<1>2. /\ g \in Seq(FileLine) /\ Len(g) = Len(f) - o
      /\ \A j \in 1 .. Len(f) - o : g[j] = f[o + j]
  <2>1. g = SubSeq(f, o + 1, Len(f))
    BY <1>1 DEF Fresh
  <2>2. \A i \in o + 1 .. Len(f) : f[i] \in FileLine
    BY <1>1
  <2>3. PICK p \in Nat, q \in Nat, N \in Nat : p = o + 1 /\ q = Len(f) /\ N = Len(f) - o
    BY <1>1
  <2>4. \A i \in p .. q : i \in 1 .. Len(f)
    BY <2>3
  <2>5. p \in 1 .. (Len(f) + 1) /\ q \in (p - 1) .. Len(f) /\ q - p + 1 = N
    BY <1>1, <2>3
  <2>6. SubSeq(f, p, q) \in Seq(FileLine) /\ Len(SubSeq(f, p, q)) = N
    <3>1. Len(SubSeq(f, p, q)) = IF p <= q THEN q - p + 1 ELSE 0
      BY <2>4, SubSeqProperties
    <3>2. SubSeq(f, p, q) \in Seq(FileLine)
      BY <2>4, SubSeqProperties
    <3> QED
      BY <2>3, <3>1, <3>2
  <2>7. \A j \in 1 .. q - p + 1 : SubSeq(f, p, q)[j] = f[p + j - 1]
    BY <2>4, SubSeqProperties
  <2>8. \A j \in 1 .. N : SubSeq(f, p, q)[j] = f[o + j]
    BY <2>3, <2>5, <2>7
  <2> QED
    BY <2>1, <2>3, <2>6, <2>8
<1> HIDE DEF g
<1>3. \A j \in 1 .. Len(f) - o : o + j \in 1 .. Len(f) /\ o + j \in o + 1 .. Len(f)
  BY <1>1
<1>4. NumberedLines(g, next)
  <2>1. DOMAIN g = 1 .. Len(f) - o /\ DOMAIN f = 1 .. Len(f)
    BY <1>2
  <2>2. \A i, j \in 1 .. Len(f) - o : i < j => o + i < o + j
    BY <1>1
  <2>3. \A i \in 1 .. Len(f) - o : g[i].readable => g[i].id < next
    BY <1>2, <1>3, <2>1 DEF NumberedLines
  <2>4. \A i, j \in 1 .. Len(f) - o : i < j /\ g[i].readable /\ g[j].readable => g[i].id < g[j].id
    BY <1>2, <1>3, <2>1, <2>2 DEF NumberedLines
  <2> QED
    BY <2>1, <2>3, <2>4 DEF NumberedLines
<1>5. LineIds(g) \in Seq(Nat) /\ Increasing(LineIds(g))
  BY <1>2, <1>4, LineIdsAre, LineIdsIncrease
<1>6. ASSUME NEW n \in Nat
      PROVE  Occurs(n, LineIds(g)) <=> \E i \in o + 1 .. Len(f) : f[i].readable /\ f[i].id = n
  <2>1. Occurs(n, LineIds(g)) <=> \E j \in 1 .. Len(f) - o : g[j].readable /\ g[j].id = n
    BY <1>2, LineIdsOccur DEF Logged
  <2>2. \A i \in o + 1 .. Len(f) : i - o \in 1 .. Len(f) - o /\ o + (i - o) = i
    BY <1>1
  <2>3. ASSUME NEW i \in o + 1 .. Len(f), f[i].readable, f[i].id = n
        PROVE  \E j \in 1 .. Len(f) - o : g[j].readable /\ g[j].id = n
    BY <1>2, <2>2, <2>3
  <2> QED
    BY <1>2, <1>3, <2>1, <2>3
<1> QED
  BY <1>1, <1>5, <1>6 DEF g

LEMMA PollMoves ==
  ASSUME NEW f \in Seq(FileLine), NEW next \in Nat, NumberedLines(f, next),
         NEW t, TailInOrder(t, f), t.pc = "poll",
         NEW u, u.pc = "send", u.offset = Len(f), u.batch = LineIds(Fresh(t, f))
  PROVE  TailInOrder(u, f) /\ Moves(t, u, f)
<1>1. t.offset \in 0 .. Len(f) /\ t.batch = <<>> /\ Len(f) \in Nat
  BY DEF TailInOrder
<1>2. /\ u.batch \in Seq(Nat) /\ Increasing(u.batch)
      /\ \A n \in Nat : Occurs(n, u.batch) <=>
           \E i \in t.offset + 1 .. Len(f) : f[i].readable /\ f[i].id = n
  BY <1>1, FreshLines
<1>3. u.offset + 1 .. Len(f) = {}
  BY <1>1
<1>4. \A n \in Nat : Occurs(n, u.batch) => Logged(n, f)
  <2>1. t.offset + 1 .. Len(f) \subseteq DOMAIN f
    BY <1>1
  <2> QED
    BY <1>2, <2>1 DEF Logged
<1>5. TailInOrder(u, f)
  BY <1>1, <1>2, <1>3, <1>4 DEF TailInOrder
<1>6. \A n : ~Occurs(n, t.batch)
  BY <1>1 DEF Occurs
<1>7. Moves(t, u, f)
  BY <1>2, <1>3, <1>6 DEF Moves, Coming, Later
<1> QED
  BY <1>5, <1>7

(* The tail task gives the head of its batch away.                         *)
LEMMA HeadFirst ==
  ASSUME NEW b \in Seq(Nat), Increasing(b), b # <<>>
  PROVE  /\ Head(b) \in Nat /\ Occurs(Head(b), b) /\ Tail(b) \in Seq(Nat) /\ Increasing(Tail(b))
         /\ \A n \in Nat : Occurs(n, b) <=> n = Head(b) \/ Occurs(n, Tail(b))
         /\ \A n \in Nat : Occurs(n, Tail(b)) => Head(b) < n
<1>1. /\ DOMAIN b = 1 .. Len(b) /\ Len(b) \in Nat /\ Len(b) >= 1 /\ Head(b) = b[1]
      /\ \A i \in 1 .. Len(b) : b[i] \in Nat
  OBVIOUS
<1>2. /\ Tail(b) \in Seq(Nat) /\ DOMAIN Tail(b) = 1 .. Len(b) - 1
      /\ \A i \in 1 .. Len(b) - 1 : Tail(b)[i] = b[i + 1]
  OBVIOUS
<1>3. \A i \in 1 .. Len(b) - 1 : i + 1 \in 1 .. Len(b) /\ 1 < i + 1 /\ 1 \in 1 .. Len(b)
  BY <1>1
<1>4. \A i \in 1 .. Len(b) : i = 1 \/ (i - 1 \in 1 .. Len(b) - 1 /\ (i - 1) + 1 = i)
  BY <1>1
<1> DEFINE c == Tail(b)
<1> HIDE DEF c
<1>5. DOMAIN c = 1 .. Len(b) - 1 /\ \A i \in 1 .. Len(b) - 1 : c[i] = b[i + 1]
  BY <1>2 DEF c
<1>6. Increasing(c)
  <2>1. \A i, j \in 1 .. Len(b) - 1 : i < j => i + 1 < j + 1
    BY <1>1
  <2> QED
    BY <1>1, <1>3, <1>5, <2>1 DEF Increasing
<1>7. \A n \in Nat : Occurs(n, b) <=> n = b[1] \/ Occurs(n, c)
  <2>1. ASSUME NEW n \in Nat, Occurs(n, b) PROVE n = b[1] \/ Occurs(n, c)
    <3>1. PICK i \in 1 .. Len(b) : b[i] = n
      BY <1>1, <2>1 DEF Occurs
    <3>2. CASE i = 1
      BY <3>1, <3>2
    <3>3. CASE i # 1
      <4>1. i - 1 \in 1 .. Len(b) - 1 /\ c[i - 1] = b[i]
        BY <1>4, <1>5, <3>3
      <4> QED
        BY <1>5, <3>1, <4>1 DEF Occurs
    <3> QED
      BY <3>2, <3>3
  <2>2. ASSUME NEW n \in Nat, n = b[1] \/ Occurs(n, c) PROVE Occurs(n, b)
    <3>1. CASE n = b[1]
      <4>1. 1 \in DOMAIN b
        BY <1>1
      <4> QED
        BY <3>1, <4>1 DEF Occurs
    <3>2. CASE Occurs(n, c)
      BY <1>1, <1>3, <1>5, <3>2 DEF Occurs
    <3> QED
      BY <2>2, <3>1, <3>2
  <2> QED
    BY <2>1, <2>2
<1>8. ASSUME NEW n \in Nat, Occurs(n, c) PROVE b[1] < n
  <2>1. PICK i \in 1 .. Len(b) - 1 : b[i + 1] = n
    BY <1>5, <1>8 DEF Occurs
  <2>2. 1 \in 1 .. Len(b) /\ i + 1 \in 1 .. Len(b) /\ 1 < i + 1
    BY <1>3
  <2>3. \A x, y \in 1 .. Len(b) : x < y => b[x] < b[y]
    BY <1>1 DEF Increasing
  <2> QED
    BY <2>1, <2>2, <2>3
<1>9. Head(b) \in Nat /\ Occurs(Head(b), b)
  <2>1. 1 \in 1 .. Len(b)
    BY <1>1
  <2> QED
    BY <1>1, <2>1 DEF Occurs
<1> QED
  BY <1>1, <1>2, <1>6, <1>7, <1>8, <1>9 DEF c

LEMMA AppendMessage ==
  ASSUME NEW ms \in Seq(Nat \cup {Abort}), NEW m \in Nat \cup {Abort}
  PROVE  /\ Append(ms, m) \in Seq(Nat \cup {Abort}) /\ Len(Append(ms, m)) = Len(ms) + 1
         /\ DOMAIN ms = 1 .. Len(ms) /\ DOMAIN Append(ms, m) = 1 .. Len(ms) + 1
         /\ \A i \in 1 .. Len(ms) : Append(ms, m)[i] = ms[i]
         /\ Append(ms, m)[Len(ms) + 1] = m /\ Len(ms) \in Nat
OBVIOUS

(* A message that is later than those before it, or the abort frame, joins *)
(* a broadcast.                                                            *)
LEMMA MessageJoins ==
  ASSUME NEW f, NEW ms, MessagesInOrder(ms, f), NEW m \in Nat \cup {Abort},
         m \in Nat => Logged(m, f) /\ \A n \in Nat : Occurs(n, ms) => n < m
  PROVE  MessagesInOrder(Append(ms, m), f)
<1> DEFINE ns == Append(ms, m)
<1>0. ms \in Seq(Nat \cup {Abort})
  BY DEF MessagesInOrder
<1>1. /\ ns \in Seq(Nat \cup {Abort})
      /\ DOMAIN ms = 1 .. Len(ms) /\ DOMAIN ns = 1 .. Len(ms) + 1
      /\ \A i \in 1 .. Len(ms) : ns[i] = ms[i]
      /\ ns[Len(ms) + 1] = m /\ Len(ms) \in Nat
  BY <1>0, AppendMessage
<1> HIDE DEF ns
<1>2. \A i \in 1 .. Len(ms) + 1 : i \in 1 .. Len(ms) \/ i = Len(ms) + 1
  BY <1>1
<1>3. \A i \in DOMAIN ns : ns[i] \in Nat => Logged(ns[i], f)
  BY <1>1, <1>2 DEF MessagesInOrder
<1>4. ASSUME NEW i \in 1 .. Len(ms) + 1, NEW j \in 1 .. Len(ms) + 1, i < j,
             ns[i] \in Nat, ns[j] \in Nat
      PROVE  ns[i] < ns[j]
  <2>1. i \in 1 .. Len(ms)
    BY <1>1, <1>4
  <2>2. CASE j \in 1 .. Len(ms)
    BY <1>1, <1>4, <2>1, <2>2 DEF MessagesInOrder
  <2>3. CASE j = Len(ms) + 1
    BY <1>1, <1>4, <2>1, <2>3 DEF Occurs
  <2> QED
    BY <1>2, <2>2, <2>3
<1> QED
  BY <1>1, <1>3, <1>4 DEF MessagesInOrder, ns

(* The tail task and its broadcast after the head of the batch is sent.    *)
Sends(t, u, m, ch, di, reg) ==
  /\ u.pc = "send" /\ u.offset = t.offset /\ u.batch = Tail(t.batch) /\ m = Head(t.batch)
  /\ \A k \in Chan : di[k].msgs = IF k = reg THEN Append(ch[k].msgs, m) ELSE ch[k].msgs

LEMMA SendTail ==
  ASSUME NEW f, NEW t, TailInOrder(t, f), t.batch # <<>>,
         NEW u, u.offset = t.offset, u.batch = Tail(t.batch), u.pc = "send"
  PROVE  /\ Head(t.batch) \in Nat /\ Logged(Head(t.batch), f) /\ Later(Head(t.batch), u, f)
         /\ TailInOrder(u, f)
         /\ \A n \in Nat : Coming(n, t, f) =>
              n = Head(t.batch) \/ (Head(t.batch) < n /\ Coming(n, u, f))
         /\ \A n \in Nat : Later(n, t, f) => n < Head(t.batch) /\ Later(n, u, f)
<1>1. /\ t.batch \in Seq(Nat) /\ Increasing(t.batch) /\ t.offset \in 0 .. Len(f)
      /\ \A n \in Nat : Occurs(n, t.batch) =>
           /\ Logged(n, f)
           /\ \A i \in t.offset + 1 .. Len(f) : f[i].readable => n < f[i].id
  BY DEF TailInOrder
<1> DEFINE m == Head(t.batch)
<1>2. /\ m \in Nat /\ Occurs(m, t.batch) /\ u.batch \in Seq(Nat) /\ Increasing(u.batch)
      /\ \A n \in Nat : Occurs(n, t.batch) <=> n = m \/ Occurs(n, u.batch)
      /\ \A n \in Nat : Occurs(n, u.batch) => m < n
  BY <1>1, HeadFirst
<1> HIDE DEF m
<1>3. TailInOrder(u, f)
  BY <1>1, <1>2 DEF TailInOrder
<1>4. Logged(m, f) /\ \A i \in t.offset + 1 .. Len(f) : f[i].readable => m < f[i].id
  BY <1>1, <1>2
<1>5. Later(m, u, f)
  BY <1>2, <1>4 DEF Later
<1>6. ASSUME NEW n \in Nat, Coming(n, t, f) PROVE n = m \/ (m < n /\ Coming(n, u, f))
  <2>1. CASE Occurs(n, t.batch)
    BY <1>2, <2>1 DEF Coming
  <2>2. CASE \E i \in t.offset + 1 .. Len(f) : f[i].readable /\ f[i].id = n
    BY <1>4, <2>2 DEF Coming
  <2> QED
    BY <1>6, <2>1, <2>2 DEF Coming
<1>7. ASSUME NEW n \in Nat, Later(n, t, f) PROVE n < m /\ Later(n, u, f)
  BY <1>2, <1>7 DEF Later
<1> QED
  BY <1>2, <1>3, <1>4, <1>5, <1>6, <1>7 DEF m

LEMMA SendCast ==
  ASSUME NEW f, NEW t, TailInOrder(t, f), t.batch # <<>>, NEW reg \in Chan,
         NEW ch, CastInOrder(ch, reg, t, f),
         NEW u, NEW m, NEW di, Sends(t, u, m, ch, di, reg)
  PROVE  TailInOrder(u, f) /\ CastInOrder(di, reg, u, f)
<1>1. /\ m \in Nat /\ Logged(m, f) /\ Later(m, u, f) /\ TailInOrder(u, f)
      /\ \A n \in Nat : Later(n, t, f) => n < m /\ Later(n, u, f)
  BY SendTail DEF Sends
<1>2. reg # NoChan
  BY DEF Chan, NoChan
<1>3. /\ \A k \in Chan : MessagesInOrder(ch[k].msgs, f)
      /\ \A n \in Nat : Occurs(n, ch[reg].msgs) => Later(n, t, f)
  BY <1>2 DEF CastInOrder
<1>4. di[reg].msgs = Append(ch[reg].msgs, m) /\ \A k \in Chan \ {reg} : di[k].msgs = ch[k].msgs
  BY DEF Sends
<1>5. MessagesInOrder(di[reg].msgs, f)
  BY <1>1, <1>3, <1>4, MessageJoins
<1>6. \A k \in Chan : MessagesInOrder(di[k].msgs, f)
  BY <1>3, <1>4, <1>5
<1>7. ASSUME NEW n \in Nat, Occurs(n, di[reg].msgs) PROVE Later(n, u, f)
  <2>1. ch[reg].msgs \in Seq(Nat \cup {Abort}) /\ m \in Nat \cup {Abort}
    BY <1>1, <1>3 DEF MessagesInOrder
  <2>2. Occurs(n, ch[reg].msgs) \/ n = m
    BY <1>4, <1>7, <2>1, AppendOccurs
  <2> QED
    BY <1>1, <1>3, <2>2
<1> QED
  BY <1>1, <1>6, <1>7 DEF CastInOrder

LEMMA SendConn ==
  ASSUME NEW f, NEW t, TailInOrder(t, f), t.batch # <<>>, NEW reg \in Chan,
         NEW ch, CastInOrder(ch, reg, t, f),
         NEW u, NEW m, NEW di, Sends(t, u, m, ch, di, reg),
         NEW r, ConnInOrder(r, ch, reg, t, f)
  PROVE  ConnInOrder(r, di, reg, u, f)
<1>1. /\ m \in Nat
      /\ \A n \in Nat : Coming(n, t, f) => n = m \/ (m < n /\ Coming(n, u, f))
  BY SendTail DEF Sends
<1>2. di[reg].msgs = Append(ch[reg].msgs, m) /\ \A k \in Chan \ {reg} : di[k].msgs = ch[k].msgs
  BY DEF Sends
<1>3. \A k \in Chan : ch[k].msgs \in Seq(Nat \cup {Abort})
  BY DEF CastInOrder, MessagesInOrder
<1>4. /\ Len(di[reg].msgs) = Len(ch[reg].msgs) + 1 /\ Len(ch[reg].msgs) \in Nat
      /\ \A i \in 1 .. Len(ch[reg].msgs) : di[reg].msgs[i] = ch[reg].msgs[i]
      /\ di[reg].msgs[Len(ch[reg].msgs) + 1] = m
  BY <1>1, <1>2, <1>3, AppendMessage
<1>5. ASSUME r.chan \in Chan, r.pos \in 0 .. Len(ch[r.chan].msgs)
      PROVE  /\ r.pos \in 0 .. Len(di[r.chan].msgs)
             /\ ~Behindhand(r, di) => ~Behindhand(r, ch)
             /\ CastNext(r, ch, reg, t, f) => CastNext(r, di, reg, u, f)
  <2>1. CASE r.chan # reg
    <3>1. di[r.chan].msgs = ch[r.chan].msgs
      BY <1>2, <1>5, <2>1
    <3> QED
      BY <1>5, <2>1, <3>1 DEF Behindhand, CastNext
  <2>2. CASE r.chan = reg
    <3>1. /\ r.pos \in 0 .. Len(di[r.chan].msgs)
          /\ ~Behindhand(r, di) => ~Behindhand(r, ch)
      BY <1>4, <1>5, <2>2, StreamConstants DEF StreamConstants, Behindhand
    <3>2. \A i \in r.pos + 1 .. Len(di[reg].msgs) :
            \/ i \in r.pos + 1 .. Len(ch[reg].msgs) /\ i \in 1 .. Len(ch[reg].msgs)
            \/ i = Len(ch[reg].msgs) + 1
      BY <1>4, <1>5, <2>2
    <3>3. \A i \in r.pos + 1 .. Len(ch[reg].msgs) :
            i \in r.pos + 1 .. Len(di[reg].msgs) /\ i \in 1 .. Len(ch[reg].msgs)
      BY <1>4, <1>5, <2>2
    <3>4. Len(ch[reg].msgs) + 1 \in r.pos + 1 .. Len(di[reg].msgs)
      BY <1>4, <1>5, <2>2
    <3>5. ASSUME CastNext(r, ch, reg, t, f), NEW n \in Nat, Logged(n, f), n >= r.next
          PROVE  \/ Occurs(n, r.queue)
                 \/ \E i \in r.pos + 1 .. Len(di[reg].msgs) : di[reg].msgs[i] = n
                 \/ /\ \A i \in r.pos + 1 .. Len(di[reg].msgs) :
                         di[reg].msgs[i] \in Nat => di[reg].msgs[i] < n
                    /\ Coming(n, u, f)
      <4>1. \/ Occurs(n, r.queue)
            \/ \E i \in r.pos + 1 .. Len(ch[reg].msgs) : ch[reg].msgs[i] = n
            \/ /\ \A i \in r.pos + 1 .. Len(ch[reg].msgs) :
                    ch[reg].msgs[i] \in Nat => ch[reg].msgs[i] < n
               /\ Coming(n, t, f)
        BY <2>2, <3>5 DEF CastNext
      <4>2. CASE \E i \in r.pos + 1 .. Len(ch[reg].msgs) : ch[reg].msgs[i] = n
        BY <1>4, <3>3, <4>2
      <4>3. CASE /\ \A i \in r.pos + 1 .. Len(ch[reg].msgs) :
                      ch[reg].msgs[i] \in Nat => ch[reg].msgs[i] < n
                 /\ Coming(n, t, f)
        <5>1. CASE n = m
          BY <1>4, <3>4, <5>1
        <5>2. CASE m < n /\ Coming(n, u, f)
          BY <1>4, <3>2, <4>3, <5>2
        <5> QED
          BY <1>1, <4>3, <5>1, <5>2
      <4> QED
        BY <4>1, <4>2, <4>3
    <3>6. CastNext(r, ch, reg, t, f) => CastNext(r, di, reg, u, f)
      BY <2>2, <3>5 DEF CastNext
    <3> QED
      BY <3>1, <3>6
  <2> QED
    BY <2>1, <2>2
<1> QED
  BY <1>5 DEF ConnInOrder

(* The abort frame joins the broadcast: it is no event.                    *)
LEMMA AbortJoins ==
  ASSUME NEW f, NEW t, NEW reg \in Chan, NEW ch, CastInOrder(ch, reg, t, f),
         NEW di, \A k \in Chan : di[k].msgs = IF k = reg THEN Append(ch[k].msgs, Abort)
                                                        ELSE ch[k].msgs
  PROVE  /\ CastInOrder(di, reg, t, f)
         /\ \A r : ConnInOrder(r, ch, reg, t, f) => ConnInOrder(r, di, reg, t, f)
<1>1. Abort \notin Nat
  BY StreamConstants DEF StreamConstants
<1>2. di[reg].msgs = Append(ch[reg].msgs, Abort) /\ \A k \in Chan \ {reg} : di[k].msgs = ch[k].msgs
  OBVIOUS
<1>3. \A k \in Chan : MessagesInOrder(ch[k].msgs, f) /\ ch[k].msgs \in Seq(Nat \cup {Abort})
  BY DEF CastInOrder, MessagesInOrder
<1>4. /\ Len(di[reg].msgs) = Len(ch[reg].msgs) + 1 /\ Len(ch[reg].msgs) \in Nat
      /\ \A i \in 1 .. Len(ch[reg].msgs) : di[reg].msgs[i] = ch[reg].msgs[i]
      /\ di[reg].msgs[Len(ch[reg].msgs) + 1] = Abort
  BY <1>2, <1>3, AppendMessage
<1>5. CastInOrder(di, reg, t, f)
  <2>1. MessagesInOrder(di[reg].msgs, f)
    <3>1. PICK m \in Nat \cup {Abort} : m = Abort /\ m \notin Nat
      BY <1>1
    <3>2. MessagesInOrder(ch[reg].msgs, f)
      BY <1>3
    <3>3. MessagesInOrder(Append(ch[reg].msgs, m), f)
      BY <3>1, <3>2, MessageJoins
    <3> QED
      BY <1>2, <3>1, <3>3
  <2>2. \A k \in Chan : MessagesInOrder(di[k].msgs, f)
    BY <1>2, <1>3, <2>1
  <2>3. \A n \in Nat : Occurs(n, di[reg].msgs) => Occurs(n, ch[reg].msgs)
    BY <1>1, <1>2, <1>3, AppendOccurs
  <2> QED
    BY <2>2, <2>3 DEF CastInOrder
<1>6. ASSUME NEW r, ConnInOrder(r, ch, reg, t, f) PROVE ConnInOrder(r, di, reg, t, f)
  <2>1. ASSUME r.chan \in Chan, r.pos \in 0 .. Len(ch[r.chan].msgs)
        PROVE  /\ r.pos \in 0 .. Len(di[r.chan].msgs)
               /\ ~Behindhand(r, di) => ~Behindhand(r, ch)
               /\ CastNext(r, ch, reg, t, f) => CastNext(r, di, reg, t, f)
    <3>1. CASE r.chan # reg
      <4>1. di[r.chan].msgs = ch[r.chan].msgs
        BY <1>2, <2>1, <3>1
      <4> QED
        BY <2>1, <3>1, <4>1 DEF Behindhand, CastNext
    <3>2. CASE r.chan = reg
      <4>1. /\ r.pos \in 0 .. Len(di[r.chan].msgs)
            /\ ~Behindhand(r, di) => ~Behindhand(r, ch)
        BY <1>4, <2>1, <3>2, StreamConstants DEF StreamConstants, Behindhand
      <4>2. \A i \in r.pos + 1 .. Len(di[reg].msgs) :
              \/ i \in r.pos + 1 .. Len(ch[reg].msgs) /\ di[reg].msgs[i] = ch[reg].msgs[i]
              \/ di[reg].msgs[i] \notin Nat
        <5>1. \A i \in r.pos + 1 .. Len(di[reg].msgs) :
                \/ i \in r.pos + 1 .. Len(ch[reg].msgs) /\ i \in 1 .. Len(ch[reg].msgs)
                \/ i = Len(ch[reg].msgs) + 1
          BY <1>4, <2>1, <3>2
        <5> QED
          BY <1>1, <1>4, <5>1
      <4>3. \A i \in r.pos + 1 .. Len(ch[reg].msgs) :
              i \in r.pos + 1 .. Len(di[reg].msgs) /\ di[reg].msgs[i] = ch[reg].msgs[i]
        BY <1>4, <2>1, <3>2
      <4>4. CastNext(r, ch, reg, t, f) => CastNext(r, di, reg, t, f)
        BY <3>2, <4>2, <4>3 DEF CastNext
      <4> QED
        BY <4>1, <4>4
    <3> QED
      BY <3>1, <3>2
  <2> QED
    BY <1>6, <2>1 DEF ConnInOrder
<1> QED
  BY <1>5, <1>6

(* The sender is dropped: nothing is promised of a broadcast but what it   *)
(* holds.                                                                  *)
LEMMA SenderDropped ==
  ASSUME NEW f, NEW t, NEW reg, NEW ch, CastInOrder(ch, reg, t, f), NEW u,
         NEW di, \A k \in Chan : di[k].msgs = ch[k].msgs
  PROVE  /\ CastInOrder(di, NoChan, u, f)
         /\ \A r : ConnInOrder(r, ch, reg, t, f) => ConnInOrder(r, di, NoChan, u, f)
<1>1. CastInOrder(di, NoChan, u, f)
  BY DEF CastInOrder
<1>2. NoChan \notin Chan
  BY DEF Chan, NoChan
<1>3. ASSUME NEW r, ConnInOrder(r, ch, reg, t, f) PROVE ConnInOrder(r, di, NoChan, u, f)
  <2>1. ASSUME r.chan \in Chan, CastNext(r, ch, reg, t, f) PROVE CastNext(r, di, NoChan, u, f)
    BY <1>2, <2>1 DEF CastNext
  <2> QED
    BY <1>3, <2>1 DEF ConnInOrder, Behindhand
<1> QED
  BY <1>1, <1>3

LEMMA SentMessages ==
  ASSUME ChansShape, NEW msg, Send(msg)
  PROVE  \A k \in Chan :
           chans'[k].msgs = IF k = registry THEN Append(chans[k].msgs, msg) ELSE chans[k].msgs
<1>1. /\ DOMAIN chans = Chan
      /\ \A k \in Chan : chans[k] = [msgs |-> chans[k].msgs, open |-> chans[k].open]
  BY DEF ChansShape
<1>2. chans' = [k \in Chan |-> IF k = registry THEN [chans[k] EXCEPT !.msgs = Append(chans[k].msgs, msg)]
                                             ELSE chans[k]]
  BY <1>1 DEF Send
<1> TAKE k \in Chan
<1>3. CASE k = registry
  <2>1. chans'[k] = [chans[k] EXCEPT !.msgs = Append(chans[k].msgs, msg)]
    BY <1>2, <1>3
  <2>2. chans'[k] = [msgs |-> Append(chans[k].msgs, msg), open |-> chans[k].open]
    BY <1>1, <2>1
  <2> QED
    BY <1>3, <2>2
<1>4. CASE k # registry
  BY <1>2, <1>4
<1> QED
  BY <1>3, <1>4

LEMMA ClosedMessages ==
  ASSUME ChansShape, chans' = [chans EXCEPT ![registry].open = FALSE]
  PROVE  \A k \in Chan : chans'[k].msgs = chans[k].msgs
<1>1. /\ DOMAIN chans = Chan
      /\ \A k \in Chan : chans[k] = [msgs |-> chans[k].msgs, open |-> chans[k].open]
  BY DEF ChansShape
<1>2. chans' = [k \in Chan |-> IF k = registry THEN [chans[k] EXCEPT !.open = FALSE]
                                             ELSE chans[k]]
  BY <1>1
<1> TAKE k \in Chan
<1>3. CASE k = registry
  <2>1. chans'[k] = [chans[k] EXCEPT !.open = FALSE]
    BY <1>2, <1>3
  <2>2. chans'[k] = [msgs |-> chans[k].msgs, open |-> FALSE]
    BY <1>1, <2>1
  <2> QED
    BY <2>2
<1>4. CASE k # registry
  BY <1>2, <1>4
<1> QED
  BY <1>3, <1>4

LEMMA TailMoves ==
  ASSUME DeliveryInv, UNCHANGED <<file, nextEvent, conn, view>>,
         TailInOrder(task', file), CastInOrder(chans', registry', task', file),
         \A r : ConnInOrder(r, chans, registry, task, file) =>
                  ConnInOrder(r, chans', registry', task', file)
  PROVE  DeliveryInv'
<1>1. \A c \in Client : ConnInOrder(conn[c], chans', registry', task', file)
  BY DEF DeliveryInv
<1> QED
  BY <1>1 DEF DeliveryInv

LEMMA TailStepDelivers ==
  ASSUME StreamInv, DeliveryInv, TailStep PROVE DeliveryInv'
<1>1. /\ TailInOrder(task, file) /\ CastInOrder(chans, registry, task, file)
      /\ NumberedLines(file, nextEvent)
  BY DEF DeliveryInv
<1>2. file \in Seq(FileLine) /\ nextEvent \in Nat
  BY DEF StreamInv, DirInv, DirTypeOK, FileLine
<1>3. ChansShape /\ task = [pc |-> task.pc, offset |-> task.offset, batch |-> task.batch]
  BY DEF StreamInv, Shape
<1>4. ASSUME task.pc # "none" PROVE registry \in Chan
  BY <1>1, <1>4 DEF StreamInv, ReceiverIsFed, CastInOrder
<1>5. ASSUME NEW t, TailInOrder(t, file), Moves(task, t, file)
      PROVE  /\ CastInOrder(chans, registry, t, file)
             /\ \A r : ConnInOrder(r, chans, registry, task, file) =>
                         ConnInOrder(r, chans, registry, t, file)
  BY <1>1, <1>5, MovedCast, MovedConn
<1>6. CASE TailPoll
  <2>1. /\ task.pc = "poll" /\ UNCHANGED <<file, nextEvent, conn, view, chans, registry>>
        /\ task' = [pc |-> "send", offset |-> Len(file), batch |-> LineIds(Fresh(task, file))]
    BY <1>6 DEF TailPoll, TailVars, Fresh, dirVars, fileVars
  <2>2. /\ task'.pc = "send" /\ task'.offset = Len(file)
        /\ task'.batch = LineIds(Fresh(task, file))
    BY <2>1
  <2>3. TailInOrder(task', file) /\ Moves(task, task', file)
    BY <1>1, <1>2, <2>1, <2>2, PollMoves
  <2> QED
    BY <1>5, <2>1, <2>3, TailMoves
<1>7. CASE TailSend
  <2>1. /\ task.pc = "send" /\ task.batch # <<>> /\ Send(Head(task.batch))
        /\ task' = [task EXCEPT !.batch = Tail(task.batch)]
        /\ UNCHANGED <<file, nextEvent, conn, view, registry>>
    BY <1>7 DEF TailSend, TailVars, dirVars, fileVars
  <2>2. task'.pc = "send" /\ task'.offset = task.offset /\ task'.batch = Tail(task.batch)
    BY <1>3, <2>1
  <2>3. registry \in Chan
    BY <1>4, <2>1
  <2>4. Sends(task, task', Head(task.batch), chans, chans', registry)
    BY <1>3, <2>1, <2>2, SentMessages DEF Sends
  <2>5. TailInOrder(task', file) /\ CastInOrder(chans', registry, task', file)
    BY <1>1, <2>1, <2>3, <2>4, SendCast
  <2>6. \A r : ConnInOrder(r, chans, registry, task, file) =>
                 ConnInOrder(r, chans', registry, task', file)
    BY <1>1, <2>1, <2>3, <2>4, SendConn
  <2> QED
    BY <2>1, <2>5, <2>6, TailMoves
<1>8. ASSUME NEW p, task' = [task EXCEPT !.pc = p], task.batch = <<>>
      PROVE  TailInOrder(task', file) /\ Moves(task, task', file)
  <2>1. task'.pc = p /\ task'.offset = task.offset /\ task'.batch = task.batch
    BY <1>3, <1>8
  <2> QED
    BY <1>1, <1>8, <2>1 DEF TailInOrder, Moves, Coming, Later
<1>9. ASSUME UNCHANGED <<file, nextEvent, conn, view, chans, registry>>,
             NEW p, task' = [task EXCEPT !.pc = p], task.batch = <<>>
      PROVE  DeliveryInv'
  <2>1. TailInOrder(task', file) /\ Moves(task, task', file)
    BY <1>8, <1>9
  <2> QED
    BY <1>5, <1>9, <2>1, TailMoves
<1>10. CASE TailClassify
  <2>1. /\ task.batch = <<>> /\ task' = [task EXCEPT !.pc = "classify"]
        /\ UNCHANGED <<file, nextEvent, conn, view, chans, registry>>
    BY <1>10 DEF TailClassify, TailVars, fileVars
  <2> QED
    BY <1>9, <2>1
<1>11. CASE TailAnswer
  <2>1. /\ task.pc = "classify" /\ UNCHANGED <<file, nextEvent, conn, view, registry>>
        /\ IF cls[Tailer] = "aborted" THEN Send(Abort) ELSE UNCHANGED chans
    BY <1>11 DEF TailAnswer, TailVars, fileVars
  <2>2. PICK p : task' = [task EXCEPT !.pc = p]
    BY <1>11 DEF TailAnswer, TailVars
  <2>3. task.batch = <<>>
    BY <1>1, <2>1 DEF TailInOrder
  <2>4. CASE cls[Tailer] # "aborted"
    BY <1>9, <2>1, <2>2, <2>3, <2>4
  <2>5. CASE cls[Tailer] = "aborted"
    <3>1. TailInOrder(task', file) /\ Moves(task, task', file)
      BY <1>8, <2>2, <2>3
    <3>2. /\ CastInOrder(chans, registry, task', file)
          /\ \A r : ConnInOrder(r, chans, registry, task, file) =>
                      ConnInOrder(r, chans, registry, task', file)
      BY <1>5, <3>1
    <3>3. registry \in Chan
      BY <1>4, <2>1
    <3>4. \A k \in Chan : chans'[k].msgs = IF k = registry THEN Append(chans[k].msgs, Abort)
                                                            ELSE chans[k].msgs
      BY <1>3, <2>1, <2>5, SentMessages
    <3>5. /\ CastInOrder(chans', registry, task', file)
          /\ \A r : ConnInOrder(r, chans, registry, task', file) =>
                      ConnInOrder(r, chans', registry, task', file)
      BY <3>2, <3>3, <3>4, AbortJoins
    <3> QED
      BY <2>1, <3>1, <3>2, <3>5, TailMoves
  <2> QED
    BY <2>4, <2>5
<1>12. CASE DropSender /\ UNCHANGED dirVars
  <2>1. /\ registry' = NoChan /\ task' = NoTask
        /\ UNCHANGED <<file, nextEvent, conn, view>>
        /\ chans' = [chans EXCEPT ![registry].open = FALSE]
    BY <1>12 DEF DropSender, TailVars, dirVars, fileVars
  <2>2. \A k \in Chan : chans'[k].msgs = chans[k].msgs
    BY <1>3, <2>1, ClosedMessages
  <2>3. /\ CastInOrder(chans', NoChan, task', file)
        /\ \A r : ConnInOrder(r, chans, registry, task, file) =>
                    ConnInOrder(r, chans', NoChan, task', file)
    BY <1>1, <2>2, SenderDropped
  <2>4. TailInOrder(task', file)
    BY <1>2, <2>1 DEF TailInOrder, NoTask, Increasing, Occurs
  <2> QED
    BY <2>1, <2>3, <2>4, TailMoves
<1>13. CASE task' = [task EXCEPT !.pc = "poll"] /\ task.pc = "recheck"
            /\ UNCHANGED <<dirVars, chans, registry, conn, view>>
  <2>1. task.batch = <<>>
    BY <1>1, <1>13 DEF TailInOrder
  <2> QED
    BY <1>9, <1>13, <2>1 DEF dirVars, fileVars
<1> QED
  BY <1>6, <1>7, <1>10, <1>11, <1>12, <1>13
  DEF TailStep, TailRecheck, TailRemove, TailVars

----------------------------------------------------------------------------
(* The run: a step leaves the file alone or appends the next line.         *)
LEMMA FileGrows ==
  ASSUME DeliveryInv, file \in Seq(FileLine), nextEvent \in Nat, UNCHANGED streamVars,
         NEW l, NextLine(l, nextEvent), file' = Append(file, l), nextEvent' = nextEvent + 1
  PROVE  DeliveryInv'
<1>1. /\ UNCHANGED <<chans, registry, task, conn, view>>
      /\ NumberedLines(file, nextEvent) /\ TailInOrder(task, file)
      /\ CastInOrder(chans, registry, task, file)
  BY DEF streamVars, DeliveryInv
<1>2. \A c \in Client : From[c] \in Nat \cup {NoId}
  BY StreamConstants DEF StreamConstants
<1>3. NumberedLines(file', nextEvent')
  BY <1>1, LineNumbered
<1>4. TailInOrder(task, file')
  BY <1>1, LineTail
<1>5. CastInOrder(chans, registry, task, file')
  BY <1>1, LineCast
<1>6. \A c \in Client : ConnInOrder(conn[c], chans, registry, task, file')
  BY <1>1, LineConn DEF DeliveryInv
<1>7. \A c \in Client : ViewInOrder(view[c], conn[c], From[c], file')
  BY <1>1, <1>2, LineView DEF DeliveryInv
<1> QED
  BY <1>1, <1>3, <1>4, <1>5, <1>6, <1>7 DEF DeliveryInv

LEMMA IdSpent ==
  ASSUME DeliveryInv, file \in Seq(FileLine), nextEvent \in Nat, UNCHANGED streamVars,
         file' = file, nextEvent' \in {nextEvent, nextEvent + 1}
  PROVE  DeliveryInv'
<1>1. NumberedLines(file, nextEvent)
  BY DEF DeliveryInv
<1>2. \A i \in DOMAIN file : file[i].id \in Nat
  <2>1. \A i \in DOMAIN file : file[i] \in FileLine
    OBVIOUS
  <2> QED
    BY <2>1 DEF FileLine
<1>3. NumberedLines(file, nextEvent')
  BY <1>1, <1>2 DEF NumberedLines
<1> QED
  BY <1>3 DEF DeliveryInv, streamVars

LEMMA RunStepDelivers ==
  ASSUME StreamInv, DeliveryInv, UNCHANGED streamVars,
         WriterStep \/ CrashRun \/ \E r \in Reader : TryLock(r)
  PROVE  DeliveryInv'
<1>1. file \in Seq(FileLine) /\ nextEvent \in Nat
  BY DEF StreamInv, DirInv, DirTypeOK, FileLine
<1>2. CASE AppendEvent \/ CompleteLine \/ FinishRun
  <2>1. PICK last \in BOOLEAN : Put(Line(nextEvent, last)) /\ nextEvent' = nextEvent + 1
    BY <1>2 DEF AppendEvent, CompleteLine, FinishRun
  <2>2. PICK l : NextLine(l, nextEvent) /\ file' = Append(file, l)
    <3> DEFINE l == IF tail = "junk" THEN Garbled ELSE Line(nextEvent, last)
    <3>1. NextLine(l, nextEvent)
      BY <1>1 DEF NextLine, Garbled, Line, FileLine
    <3> QED
      BY <2>1, <3>1 DEF Put
  <2> QED
    BY <1>1, <2>1, <2>2, FileGrows
<1>3. CASE ~(AppendEvent \/ CompleteLine \/ FinishRun)
  <2>1. file' = file /\ nextEvent' \in {nextEvent, nextEvent + 1}
    BY <1>3
    DEF WriterStep, AcquireRunLock, TearLine, FailLine, ExitRun, CrashRun, LeaveRun,
        TryLock, TryLockFree, TryLockHeld, DropLock, fileVars
  <2> QED
    BY <1>1, <2>1, IdSpent
<1> QED
  BY <1>2, <1>3

----------------------------------------------------------------------------
(* The connections.  What is read from the file, from a resume point on.   *)
Replay(n, f) == Without(LineIds(f), 0 .. n - 1)

LEMMA ReplayIs ==
  ASSUME NEW f \in Seq(FileLine), NEW next \in Nat, NumberedLines(f, next), NEW n \in Nat
  PROVE  /\ Replay(n, f) \in Seq(Nat) /\ Increasing(Replay(n, f))
         /\ \A m \in Nat : Occurs(m, Replay(n, f)) <=> Logged(m, f) /\ m >= n
<1>1. LineIds(f) \in Seq(Nat) /\ Increasing(LineIds(f))
  BY LineIdsAre, LineIdsIncrease
<1>2. \A m \in Nat : m \in 0 .. n - 1 <=> ~(m >= n)
  OBVIOUS
<1>3. Replay(n, f) \in Seq(Nat) /\ Increasing(Replay(n, f))
  BY <1>1, WithoutType, WithoutIncreasing DEF Replay
<1>4. ASSUME NEW m \in Nat PROVE Occurs(m, Replay(n, f)) <=> Logged(m, f) /\ m >= n
  <2>1. Occurs(m, Replay(n, f)) <=> Occurs(m, LineIds(f)) /\ m \notin 0 .. n - 1
    BY <1>1, WithoutOccurs DEF Replay
  <2>2. Occurs(m, LineIds(f)) <=> Logged(m, f)
    BY LineIdsOccur
  <2> QED
    BY <1>2, <2>1, <2>2
<1> QED
  BY <1>3, <1>4

LEMMA IncreasingBetween ==
  ASSUME NEW w \in Seq(Nat), Increasing(w), NEW N \in Nat, N = Len(w)
  PROVE  /\ DOMAIN w = 1 .. N
         /\ \A i \in 1 .. N : w[i] \in Nat
         /\ \A i, j \in 1 .. N : i < j => w[i] < w[j]
<1>1. DOMAIN w = 1 .. N
  OBVIOUS
<1>2. \A i \in 1 .. N : w[i] \in Nat
  OBVIOUS
<1>3. \A i, j \in 1 .. N : i < j => w[i] < w[j]
  BY <1>1 DEF Increasing
<1> QED
  BY <1>1, <1>2, <1>3

(* Where a beginning of an increasing sequence ends.                       *)
LEMMA BeginningEnds ==
  ASSUME NEW w \in Seq(Nat), Increasing(w), NEW s \in Nat, \A i \in 1 .. Len(w) : w[i] >= s,
         NEW k \in 0 .. Len(w), NEW g, g = IF k = 0 THEN s ELSE w[k] + 1
  PROVE  /\ g \in Nat /\ g >= s
         /\ \A i \in 1 .. k : w[i] < g
         /\ k < Len(w) => w[k + 1] >= g
<1>1. PICK N \in Nat : N = Len(w)
  OBVIOUS
<1>2. /\ k \in 0 .. N
      /\ \A i \in 1 .. N : w[i] \in Nat /\ w[i] >= s
      /\ \A i, j \in 1 .. N : i < j => w[i] < w[j]
  <2>1. \A i \in 1 .. N : w[i] >= s
    BY <1>1
  <2>2. k \in 0 .. N
    BY <1>1
  <2> QED
    BY <1>1, <2>1, <2>2, IncreasingBetween
<1>3. CASE k = 0
  <2>1. k < N => k + 1 \in 1 .. N
    BY <1>1, <1>3
  <2> QED
    BY <1>1, <1>2, <1>3, <2>1
<1>4. CASE k # 0
  <2>1. PICK x \in Nat : x = w[k] /\ x >= s /\ k \in 1 .. N
    BY <1>2, <1>4
  <2>2. g = x + 1
    BY <1>4, <2>1
  <2>3. ASSUME NEW i \in 1 .. k PROVE w[i] < g
    <3>1. PICK y \in Nat : y = w[i]
      BY <1>2
    <3>2. CASE i = k
      BY <2>1, <2>2, <3>2
    <3>3. CASE i # k
      <4>1. i \in 1 .. N /\ i < k
        BY <1>2, <3>3
      <4>2. y < x
        BY <1>2, <2>1, <3>1, <4>1
      <4> QED
        BY <2>2, <3>1, <4>2
    <3> QED
      BY <3>2, <3>3
  <2>4. ASSUME k < N PROVE w[k + 1] >= g
    <3>1. k + 1 \in 1 .. N /\ k < k + 1
      BY <1>2, <2>4
    <3>2. PICK y \in Nat : y = w[k + 1]
      BY <1>2, <3>1
    <3>3. x < y
      BY <1>2, <2>1, <3>1, <3>2
    <3> QED
      BY <2>2, <3>2, <3>3
  <2> QED
    BY <1>1, <2>1, <2>2, <2>3, <2>4
<1> QED
  BY <1>3, <1>4

(* Where a view ends: behind all it holds, and not behind what follows.    *)
LEMMA ViewEnds ==
  ASSUME NEW f \in Seq(FileLine), NEW next \in Nat, NumberedLines(f, next),
         NEW from \in Nat \cup {NoId}, NEW v \in Seq(Nat), Begins(v, WantedOf(from, f))
  PROVE  /\ GoesOn(v, from) \in Nat /\ GoesOn(v, from) >= ResumeStart(NoId, from)
         /\ \A i \in 1 .. Len(v) : v[i] < GoesOn(v, from)
         /\ Len(v) < Len(WantedOf(from, f)) =>
              WantedOf(from, f)[Len(v) + 1] >= GoesOn(v, from)
<1>1. PICK w \in Seq(Nat) :
        /\ w = WantedOf(from, f) /\ Increasing(w)
        /\ \A n \in Nat : Occurs(n, w) => n >= ResumeStart(NoId, from)
  BY WantedIs
<1>2. PICK s \in Nat : s = ResumeStart(NoId, from)
  BY FromWhere
<1>3. \A i \in 1 .. Len(w) : w[i] >= s
  BY <1>1, <1>2 DEF Occurs
<1>4. PICK k \in 0 .. Len(w) : k = Len(v)
  BY <1>1 DEF Begins
<1>5. \A i \in 1 .. k : v[i] = w[i] /\ v[i] \in Nat
  BY <1>1, <1>4 DEF Begins
<1>6. GoesOn(v, from) = IF k = 0 THEN s ELSE w[k] + 1
  <2>1. CASE v = <<>>
    BY <1>2, <1>4, <2>1 DEF GoesOn
  <2>2. CASE v # <<>>
    <3>1. k # 0 /\ k \in 1 .. k
      BY <1>4, <2>2
    <3>2. v[k] = w[k] /\ v[k] \in Nat
      BY <1>5, <3>1
    <3>3. ResumeStart(v[k], from) = v[k] + 1
      BY <3>2, FromWhere
    <3> QED
      BY <1>4, <2>2, <3>1, <3>2, <3>3 DEF GoesOn
  <2> QED
    BY <2>1, <2>2
<1>7. PICK g : g = GoesOn(v, from)
  OBVIOUS
<1>8. /\ g \in Nat /\ g >= s
      /\ \A i \in 1 .. k : w[i] < g
      /\ k < Len(w) => w[k + 1] >= g
  BY <1>1, <1>3, <1>6, <1>7, BeginningEnds
<1> QED
  BY <1>1, <1>2, <1>4, <1>5, <1>7, <1>8

(* The earliest logged id from where the view ends is the next one wanted. *)
LEMMA NextWanted ==
  ASSUME NEW f \in Seq(FileLine), NEW next \in Nat, NumberedLines(f, next),
         NEW from \in Nat \cup {NoId}, NEW v \in Seq(Nat), Begins(v, WantedOf(from, f)),
         NEW id \in Nat, Logged(id, f), id >= GoesOn(v, from),
         \A n \in Nat : Logged(n, f) /\ n >= GoesOn(v, from) => id <= n
  PROVE  Len(v) < Len(WantedOf(from, f)) /\ WantedOf(from, f)[Len(v) + 1] = id
<1>1. PICK w \in Seq(Nat) :
        /\ w = WantedOf(from, f) /\ Increasing(w)
        /\ \A n \in Nat : Occurs(n, w) <=> Logged(n, f) /\ n >= ResumeStart(NoId, from)
  BY WantedIs
<1>2. PICK g \in Nat :
        /\ g = GoesOn(v, from)
        /\ g >= ResumeStart(NoId, from) /\ ResumeStart(NoId, from) \in Nat
        /\ \A i \in 1 .. Len(v) : v[i] < g
        /\ Len(v) < Len(w) => w[Len(v) + 1] >= g
  BY <1>1, ViewEnds, FromWhere
<1>3. PICK k \in Nat, N \in Nat : k = Len(v) /\ N = Len(w) /\ k <= N
  BY <1>1 DEF Begins
<1>4. \A i \in 1 .. k : w[i] < g
  BY <1>1, <1>2, <1>3 DEF Begins
<1>5. /\ \A i \in 1 .. N : w[i] \in Nat
      /\ \A i, j \in 1 .. N : i < j => w[i] < w[j]
  BY <1>1, <1>3, IncreasingBetween
<1>6. PICK i \in 1 .. N : w[i] = id
  <2>1. Occurs(id, w)
    BY <1>1, <1>2
  <2> QED
    BY <1>1, <1>3, <2>1 DEF Occurs
<1>7. i > k
  <2>1. SUFFICES ASSUME i <= k PROVE FALSE
    BY <1>3
  <2>2. w[i] < g
    BY <1>3, <1>4, <2>1
  <2> QED
    BY <1>2, <1>6, <2>2
<1>8. k < N /\ k + 1 \in 1 .. N /\ (k + 1 = i \/ k + 1 < i)
  BY <1>3, <1>7
<1>9. PICK m \in Nat : m = w[k + 1] /\ m <= id /\ m >= g
  <2>1. w[k + 1] \in Nat /\ w[k + 1] <= id
    BY <1>5, <1>6, <1>8, SMTT(30)
  <2> QED
    BY <1>2, <1>3, <1>8, <2>1
<1>10. id <= m
  <2>1. Occurs(m, w)
    BY <1>1, <1>3, <1>8, <1>9 DEF Occurs
  <2> QED
    BY <1>1, <1>2, <1>9, <2>1
<1> QED
  BY <1>1, <1>3, <1>8, <1>9, <1>10

(* Nothing is logged from where the view ends: it holds all that is wanted. *)
LEMMA AllSeen ==
  ASSUME NEW f \in Seq(FileLine), NEW next \in Nat, NumberedLines(f, next),
         NEW from \in Nat \cup {NoId}, NEW v \in Seq(Nat), Begins(v, WantedOf(from, f)),
         \A n \in Nat : Logged(n, f) => ~(n >= GoesOn(v, from))
  PROVE  v = WantedOf(from, f)
<1>1. PICK w \in Seq(Nat) :
        w = WantedOf(from, f) /\ \A n \in Nat : Occurs(n, w) => Logged(n, f)
  BY WantedIs
<1>2. Len(v) < Len(w) => w[Len(v) + 1] >= GoesOn(v, from)
  BY <1>1, ViewEnds
<1>3. Begins(v, w)
  BY <1>1
<1>4. ~(Len(v) < Len(w))
  <2>1. SUFFICES ASSUME Len(v) < Len(w) PROVE FALSE
    OBVIOUS
  <2>2. PICK i \in DOMAIN w : i = Len(v) + 1
    BY <2>1
  <2>3. Logged(w[i], f) /\ w[i] \in Nat
    BY <1>1 DEF Occurs
  <2> QED
    BY <1>2, <2>1, <2>2, <2>3
<1>5. Len(v) = Len(w)
  BY <1>3, <1>4 DEF Begins
<1>6. v = w
  BY <1>3, <1>5, SeqEqual DEF Begins
<1> QED
  BY <1>1, <1>6

(* The fields of a connection after its updates.                           *)
LEMMA UpdateFields ==
  ASSUME NEW d, ConnShape(d), NEW p, NEW x, NEW y
  PROVE  /\ LET e == Asking(d, p, x) IN e.next = x /\ e.queue = d.queue /\ e.pos = d.pos
         /\ LET e == Joined(d, p, x)
            IN e.next = d.next /\ e.queue = d.queue /\ e.chan = x /\ e.pos = d.pos
         /\ LET e == JoinedAt(d, p, x, y)
            IN e.next = d.next /\ e.queue = d.queue /\ e.chan = x /\ e.pos = y
         /\ LET e == Replaying(d, p, x)
            IN e.next = d.next /\ e.queue = x /\ e.chan = d.chan /\ e.pos = d.pos
         /\ LET e == Terminal(d, p, x, y) IN e.next = d.next /\ e.queue = x
         /\ LET e == Stopped(d, p) IN e.next = d.next /\ e.queue = d.queue
<1>1. ASSUME NEW e, e = Asking(d, p, x) PROVE e.next = x /\ e.queue = d.queue /\ e.pos = d.pos
  BY <1>1 DEF ConnShape, Asking
<1>2. ASSUME NEW e, e = Joined(d, p, x)
      PROVE  e.next = d.next /\ e.queue = d.queue /\ e.chan = x /\ e.pos = d.pos
  BY <1>2 DEF ConnShape, Joined
<1>3. ASSUME NEW e, e = JoinedAt(d, p, x, y)
      PROVE  e.next = d.next /\ e.queue = d.queue /\ e.chan = x /\ e.pos = y
  BY <1>3 DEF ConnShape, JoinedAt
<1>4. ASSUME NEW e, e = Replaying(d, p, x)
      PROVE  e.next = d.next /\ e.queue = x /\ e.chan = d.chan /\ e.pos = d.pos
  BY <1>4 DEF ConnShape, Replaying
<1>5. ASSUME NEW e, e = Terminal(d, p, x, y) PROVE e.next = d.next /\ e.queue = x
  BY <1>5 DEF ConnShape, Terminal
<1>6. ASSUME NEW e, e = Stopped(d, p) PROVE e.next = d.next /\ e.queue = d.queue
  BY <1>6 DEF ConnShape, Stopped
<1> QED
  BY <1>1, <1>2, <1>3, <1>4, <1>5, <1>6

LEMMA QueueSet ==
  ASSUME NEW d, ConnShape(d), NEW x, NEW e, e = [d EXCEPT !.queue = x]
  PROVE  /\ e.pc = d.pc /\ ConnShape(e)
         /\ e.next = d.next /\ e.queue = x /\ e.chan = d.chan /\ e.pos = d.pos
BY DEF ConnShape

LEMMA PosSet ==
  ASSUME NEW d, ConnShape(d), NEW x, NEW e, e = [d EXCEPT !.pos = x]
  PROVE  /\ e.pc = d.pc /\ ConnShape(e)
         /\ e.next = d.next /\ e.queue = d.queue /\ e.chan = d.chan /\ e.pos = x
BY DEF ConnShape

LEMMA NextSet ==
  ASSUME NEW d, ConnShape(d), NEW x, NEW e, e = [d EXCEPT !.next = x]
  PROVE  /\ e.pc = d.pc /\ ConnShape(e)
         /\ e.next = x /\ e.queue = d.queue /\ e.chan = d.chan /\ e.pos = d.pos
BY DEF ConnShape

(* A connection that is not under way.                                     *)
LEMMA RestInOrder ==
  ASSUME NEW f, NEW t, NEW ch, NEW reg, NEW r, r.pc \in {"off", "stopped"},
         r.next \in Nat, r.queue = <<>>
  PROVE  /\ ConnInOrder(r, ch, reg, t, f)
         /\ \A v, from, d : ViewInOrder(v, d, from, f) => ViewInOrder(v, r, from, f)
BY DEF ConnInOrder, Increasing, Occurs, ViewInOrder

(* A connection that asks, from where its client's view ends.              *)
LEMMA AskInOrder ==
  ASSUME NEW f \in Seq(FileLine), NEW next \in Nat, NumberedLines(f, next),
         NEW from \in Nat \cup {NoId}, NEW t, NEW ch, NEW reg,
         NEW d, NEW v, ViewInOrder(v, d, from, f),
         NEW r, r.pc = "classify", r.next = GoesOn(v, from), r.queue = <<>>, r.pos = 0
  PROVE  ConnInOrder(r, ch, reg, t, f) /\ ViewInOrder(v, r, from, f)
<1>1. GoesOn(v, from) \in Nat
  BY ViewEnds DEF ViewInOrder
<1> QED
  BY <1>1 DEF ConnInOrder, Increasing, Occurs, ViewInOrder

LEMMA AppendId ==
  ASSUME NEW v \in Seq(Nat), NEW id \in Nat
  PROVE  /\ Append(v, id) \in Seq(Nat) /\ Len(Append(v, id)) = Len(v) + 1
         /\ Append(v, id)[Len(v) + 1] = id /\ Append(v, id) # <<>>
         /\ \A i \in 1 .. Len(v) : Append(v, id)[i] = v[i]
         /\ Len(v) \in Nat
<1>1. /\ Append(v, id) \in Seq(Nat) /\ Len(Append(v, id)) = Len(v) + 1
      /\ Append(v, id)[Len(v) + 1] = id
      /\ \A i \in 1 .. Len(v) : Append(v, id)[i] = v[i]
      /\ Len(v) \in Nat
  OBVIOUS
<1>2. Append(v, id) # <<>>
  BY <1>1
<1> QED
  BY <1>1, <1>2

(* A frame gives the client the next id it wants.                          *)
LEMMA FrameView ==
  ASSUME NEW f \in Seq(FileLine), NEW next \in Nat, NumberedLines(f, next),
         NEW from \in Nat \cup {NoId}, NEW v, NEW r, ViewInOrder(v, r, from, f),
         r.pc \in {"replay", "terminal"}, NEW id \in Nat, Logged(id, f), id >= r.next,
         \A n \in Nat : Logged(n, f) /\ n >= r.next => id <= n,
         NEW e, e.next = id + 1
  PROVE  /\ ViewInOrder(Append(v, id), e, from, f)
         /\ Len(v) < Len(WantedOf(from, f)) /\ WantedOf(from, f)[Len(v) + 1] = id
<1>1. r.next = GoesOn(v, from) /\ v \in Seq(Nat) /\ Begins(v, WantedOf(from, f))
  BY DEF ViewInOrder
<1>2. Len(v) < Len(WantedOf(from, f)) /\ WantedOf(from, f)[Len(v) + 1] = id
  BY <1>1, NextWanted
<1> DEFINE w == Append(v, id)
<1>3. /\ w \in Seq(Nat) /\ Len(w) = Len(v) + 1 /\ w[Len(v) + 1] = id /\ w # <<>>
      /\ \A i \in 1 .. Len(v) : w[i] = v[i]
      /\ Len(v) \in Nat
  BY <1>1, AppendId
<1> HIDE DEF w
<1>4. Begins(w, WantedOf(from, f))
  <2>1. \A i \in 1 .. Len(v) + 1 : i \in 1 .. Len(v) \/ i = Len(v) + 1
    BY <1>3
  <2>2. PICK W \in Seq(Nat) : W = WantedOf(from, f)
    BY WantedIs
  <2>3. \A i \in 1 .. Len(v) : v[i] = W[i]
    BY <1>1, <2>2 DEF Begins
  <2>4. \A i \in 1 .. Len(w) : w[i] = W[i]
    BY <1>2, <1>3, <2>1, <2>2, <2>3
  <2>5. Len(w) <= Len(W)
    BY <1>2, <1>3, <2>2
  <2> QED
    BY <2>2, <2>4, <2>5 DEF Begins
<1>5. GoesOn(w, from) = id + 1
  BY <1>3, FromWhere DEF GoesOn
<1> QED
  BY <1>2, <1>3, <1>4, <1>5 DEF ViewInOrder, w

(* The head of a queue is the earliest id that is still wanted, or is not  *)
(* wanted.                                                                 *)
LEMMA QueueHead ==
  ASSUME NEW f, NEW t, NEW ch, NEW reg, NEW r, ConnInOrder(r, ch, reg, t, f),
         r.pc \in {"replay", "terminal"}, r.queue # <<>>, NEW id, id = Head(r.queue),
         NEW e, e.pc = r.pc, e.queue = Tail(r.queue), e.chan = r.chan, e.pos = r.pos,
         e.next = IF id >= r.next THEN id + 1 ELSE r.next
  PROVE  /\ id \in Nat /\ Logged(id, f) /\ ConnInOrder(e, ch, reg, t, f)
         /\ \A n \in Nat : Logged(n, f) /\ n >= r.next => id <= n
<1>1. /\ r.next \in Nat /\ r.queue \in Seq(Nat) /\ Increasing(r.queue)
      /\ \A n \in Nat : Occurs(n, r.queue) => Logged(n, f)
      /\ QueueFirst(r, f)
  BY DEF ConnInOrder
<1>2. /\ id \in Nat /\ Occurs(id, r.queue) /\ e.queue \in Seq(Nat) /\ Increasing(e.queue)
      /\ \A n \in Nat : Occurs(n, r.queue) <=> n = id \/ Occurs(n, e.queue)
      /\ \A n \in Nat : Occurs(n, e.queue) => id < n
  BY <1>1, HeadFirst
<1>3. e.next \in Nat /\ \A n \in Nat : n >= e.next => n >= r.next /\ n # id
  BY <1>1, <1>2
<1>4. \A n \in Nat : Logged(n, f) /\ n >= r.next => id <= n
  BY <1>1, <1>2 DEF QueueFirst
<1>5. QueueFirst(e, f)
  BY <1>1, <1>2, <1>3 DEF QueueFirst
<1>6. CastNext(r, ch, reg, t, f) => CastNext(e, ch, reg, t, f)
  BY <1>1, <1>2, <1>3 DEF CastNext
<1>7. Behindhand(e, ch) <=> Behindhand(r, ch)
  BY DEF Behindhand
<1>8. ConnInOrder(e, ch, reg, t, f)
  BY <1>1, <1>2, <1>3, <1>5, <1>6, <1>7 DEF ConnInOrder
<1> QED
  BY <1>1, <1>2, <1>4, <1>8

(* And so is, behind an empty queue, the first unread message.             *)
LEMMA MessageHead ==
  ASSUME NEW f, NEW t, NEW ch, NEW reg, CastInOrder(ch, reg, t, f),
         NEW r, ConnInOrder(r, ch, reg, t, f), r.pc = "replay", r.queue = <<>>,
         r.pos < Len(ch[r.chan].msgs), ~Behindhand(r, ch),
         NEW id \in Nat, id = ch[r.chan].msgs[r.pos + 1],
         NEW e, e.pc = r.pc, e.queue = r.queue, e.chan = r.chan, e.pos = r.pos + 1,
         e.next = IF id >= r.next THEN id + 1 ELSE r.next
  PROVE  /\ Logged(id, f) /\ ConnInOrder(e, ch, reg, t, f)
         /\ \A n \in Nat : Logged(n, f) /\ n >= r.next => id <= n
<1>1. /\ r.next \in Nat /\ r.chan \in Chan /\ r.pos \in 0 .. Len(ch[r.chan].msgs)
      /\ \A n : ~Occurs(n, r.queue)
      /\ CastNext(r, ch, reg, t, f)
  BY DEF ConnInOrder, Occurs
<1>2. PICK ms : ms = ch[r.chan].msgs /\ MessagesInOrder(ms, f)
  BY <1>1 DEF CastInOrder
<1>3. PICK N \in Nat, p \in Nat : N = Len(ms) /\ p = r.pos /\ p < N /\ DOMAIN ms = 1 .. N
  BY <1>1, <1>2 DEF MessagesInOrder
<1>4. p + 1 \in 1 .. N /\ p + 1 \in p + 1 .. N /\ id = ms[p + 1]
  BY <1>2, <1>3
<1>5. Logged(id, f)
  BY <1>2, <1>3, <1>4 DEF MessagesInOrder
<1>6. \A i \in p + 1 .. N : ms[i] \in Nat => id <= ms[i]
  <2> SUFFICES ASSUME NEW i \in p + 1 .. N, ms[i] \in Nat PROVE id <= ms[i]
    OBVIOUS
  <2>1. i \in 1 .. N /\ (i = p + 1 \/ p + 1 < i)
    BY <1>3
  <2>2. p + 1 < i => ms[p + 1] < ms[i]
    BY <1>2, <1>3, <1>4, <2>1 DEF MessagesInOrder
  <2>3. CASE i = p + 1
    BY <1>4, <2>3
  <2>4. CASE p + 1 < i
    BY <1>4, <2>2, <2>4
  <2> QED
    BY <2>1, <2>3, <2>4
<1>7. ASSUME NEW n \in Nat, Logged(n, f), n >= r.next
      PROVE  \/ \E i \in p + 1 .. N : ms[i] = n
             \/ /\ \A i \in p + 1 .. N : ms[i] \in Nat => ms[i] < n
                /\ r.chan = reg => Coming(n, t, f)
  BY <1>1, <1>2, <1>3, <1>7 DEF CastNext
<1>8. \A n \in Nat : Logged(n, f) /\ n >= r.next => id <= n
  BY <1>4, <1>6, <1>7
<1>9. e.next \in Nat /\ \A n \in Nat : n >= e.next => n >= r.next /\ n # id
  <2>1. PICK x \in Nat, y \in Nat : x = r.next /\ y = e.next /\ y = IF id >= x THEN id + 1 ELSE x
    BY <1>1
  <2>2. y \in Nat /\ \A n \in Nat : n >= y => n >= x /\ n # id
    BY <2>1, SMTT(30)
  <2> QED
    BY <2>1, <2>2
<1>10. \A i \in p + 1 .. N : i = p + 1 \/ i \in p + 1 + 1 .. N
  BY <1>3
<1>11. \A i \in p + 1 + 1 .. N : i \in p + 1 .. N
  BY <1>3
<1>12. ASSUME NEW n \in Nat, Logged(n, f), n >= e.next
       PROVE  \/ \E i \in p + 1 + 1 .. N : ms[i] = n
              \/ /\ \A i \in p + 1 + 1 .. N : ms[i] \in Nat => ms[i] < n
                 /\ r.chan = reg => Coming(n, t, f)
  <2>1. n >= r.next /\ n # id
    BY <1>9, <1>12
  <2>2. CASE \E i \in p + 1 .. N : ms[i] = n
    BY <1>4, <1>10, <2>1, <2>2
  <2>3. CASE /\ \A i \in p + 1 .. N : ms[i] \in Nat => ms[i] < n
             /\ r.chan = reg => Coming(n, t, f)
    BY <1>11, <2>3
  <2> QED
    BY <1>7, <1>12, <2>1, <2>2, <2>3
<1>13. CastNext(e, ch, reg, t, f)
  BY <1>2, <1>3, <1>12 DEF CastNext
<1>14. QueueFirst(e, f)
  BY <1>1 DEF QueueFirst
<1>15. e.pos \in 0 .. Len(ch[e.chan].msgs)
  BY <1>2, <1>3
<1>16. ConnInOrder(e, ch, reg, t, f)
  BY <1>1, <1>9, <1>13, <1>14, <1>15 DEF ConnInOrder
<1> QED
  BY <1>5, <1>8, <1>16

LEMMA ConnMoves ==
  ASSUME StreamInv, DeliveryInv, NEW c \in Client,
         UNCHANGED <<file, nextEvent, chans, registry, task>>,
         NEW r, ConnVars(c, r), ConnInOrder(r, chans, registry, task, file),
         NEW v, (view' = view /\ v = view[c]) \/ view' = [view EXCEPT ![c] = v],
         ViewInOrder(v, r, From[c], file)
  PROVE  DeliveryInv'
<1>1. conn' = [d \in Client |-> IF d = c THEN r ELSE conn[d]]
  BY DEF StreamInv, Shape, ConnVars
<1>2. view' = [d \in Client |-> IF d = c THEN v ELSE view[d]]
  BY DEF DeliveryInv
<1>3. ASSUME NEW d \in Client
      PROVE  /\ ConnInOrder(conn'[d], chans, registry, task, file)
             /\ ViewInOrder(view'[d], conn'[d], From[d], file)
  <2>1. CASE d = c
    BY <1>1, <1>2, <2>1
  <2>2. CASE d # c
    <3>1. conn'[d] = conn[d] /\ view'[d] = view[d]
      BY <1>1, <1>2, <2>2
    <3> QED
      BY <3>1 DEF DeliveryInv
  <2> QED
    BY <2>1, <2>2
<1>4. view' = [d \in Client |-> view'[d]]
  BY <1>2
<1>5. /\ NumberedLines(file, nextEvent) /\ TailInOrder(task, file)
      /\ CastInOrder(chans, registry, task, file)
  BY DEF DeliveryInv
<1> QED
  BY <1>3, <1>4, <1>5 DEF DeliveryInv

(* The connection ends, here or at its client.                             *)
LEMMA EndDelivers ==
  ASSUME StreamInv, DeliveryInv, NEW c \in Client,
         UNCHANGED <<file, nextEvent, chans, registry, task, view>>,
         ConnVars(c, Disconnected)
  PROVE  DeliveryInv'
<1>1. Disconnected.pc = "off" /\ Disconnected.next = 0 /\ Disconnected.queue = <<>>
  BY DEF Disconnected
<1>2. ViewInOrder(view[c], conn[c], From[c], file)
  BY DEF DeliveryInv
<1>3. /\ ConnInOrder(Disconnected, chans, registry, task, file)
      /\ ViewInOrder(view[c], Disconnected, From[c], file)
  BY <1>1, <1>2, RestInOrder
<1> QED
  BY <1>3, ConnMoves

(* What the next frame of c must hold, and what it does to the view.       *)
Gives(c, id) ==
  /\ Len(view[c]) < Len(WantedOf(From[c], file))
  /\ WantedOf(From[c], file)[Len(view[c]) + 1] = id
  /\ view' = [view EXCEPT ![c] = Append(view[c], id)]

LEMMA FrameDelivers ==
  ASSUME StreamInv, DeliveryInv, NEW c \in Client,
         UNCHANGED <<file, nextEvent, chans, registry, task>>,
         conn[c].pc \in {"replay", "terminal"},
         NEW id \in Nat, Logged(id, file), id >= conn[c].next,
         \A n \in Nat : Logged(n, file) /\ n >= conn[c].next => id <= n,
         NEW r, r.next = id + 1, ConnInOrder(r, chans, registry, task, file),
         Frame(c, id, r)
  PROVE  DeliveryInv' /\ (UNCHANGED view \/ Gives(c, id))
<1>1. /\ file \in Seq(FileLine) /\ nextEvent \in Nat /\ NumberedLines(file, nextEvent)
      /\ From[c] \in Nat \cup {NoId} /\ ViewInOrder(view[c], conn[c], From[c], file)
  BY StreamConstants DEF StreamConstants, StreamInv, DirInv, DirTypeOK, FileLine, DeliveryInv
<1>2. CASE ConnVars(c, Disconnected) /\ UNCHANGED view
  BY <1>2, EndDelivers
<1>3. CASE ConnVars(c, r) /\ view' = [view EXCEPT ![c] = Append(view[c], id)]
  <2>1. /\ ViewInOrder(Append(view[c], id), r, From[c], file)
        /\ Len(view[c]) < Len(WantedOf(From[c], file))
        /\ WantedOf(From[c], file)[Len(view[c]) + 1] = id
    <3>1. PICK f \in Seq(FileLine), next \in Nat, from \in Nat \cup {NoId} :
            f = file /\ next = nextEvent /\ from = From[c]
      BY <1>1
    <3>2. PICK v, d : v = view[c] /\ d = conn[c]
      OBVIOUS
    <3>3. /\ NumberedLines(f, next) /\ ViewInOrder(v, d, from, f)
          /\ d.pc \in {"replay", "terminal"} /\ Logged(id, f) /\ id >= d.next
          /\ \A n \in Nat : Logged(n, f) /\ n >= d.next => id <= n
      BY <1>1, <3>1, <3>2
    <3>4. /\ ViewInOrder(Append(v, id), r, from, f)
          /\ Len(v) < Len(WantedOf(from, f)) /\ WantedOf(from, f)[Len(v) + 1] = id
      BY <3>3, FrameView
    <3> QED
      BY <3>1, <3>2, <3>4
  <2>2. DeliveryInv'
    BY <1>3, <2>1, ConnMoves
  <2> QED
    BY <1>3, <2>1, <2>2 DEF Gives
<1> QED
  BY <1>2, <1>3 DEF Frame

LEMMA SendReplayDelivers ==
  ASSUME StreamInv, DeliveryInv, NEW c \in Client, SendReplay(c)
  PROVE  /\ DeliveryInv' /\ (UNCHANGED view \/ \E id : Gives(c, id))
         /\ conn[c].pc # "stopped" /\ conn'[c].pc # "stopped"
<1> DEFINE id == Head(conn[c].queue)
           rest == [conn[c] EXCEPT !.queue = Tail(conn[c].queue)]
           sent == [rest EXCEPT !.next = id + 1]
<1>1. /\ conn[c].pc \in {"replay", "terminal"} /\ conn[c].queue # <<>>
      /\ UNCHANGED <<file, nextEvent, chans, registry, task>>
      /\ IF id >= conn[c].next THEN Frame(c, id, sent)
         ELSE ConnVars(c, rest) /\ UNCHANGED view
  BY DEF SendReplay, fileVars
<1> HIDE DEF id, rest, sent
<1>2. ConnShape(conn[c]) /\ conn' = [conn EXCEPT ![c] = conn'[c]] /\ c \in DOMAIN conn
  BY <1>1 DEF StreamInv, Shape, ConnShape, ConnVars, Frame
<1>3. /\ rest.pc = conn[c].pc /\ ConnShape(rest) /\ rest.queue = Tail(conn[c].queue)
      /\ rest.next = conn[c].next /\ rest.chan = conn[c].chan /\ rest.pos = conn[c].pos
  <2>1. rest = [conn[c] EXCEPT !.queue = Tail(conn[c].queue)]
    BY DEF rest
  <2> QED
    BY <1>2, <2>1, QueueSet
<1>4. /\ sent.pc = conn[c].pc /\ sent.queue = Tail(conn[c].queue)
      /\ sent.next = id + 1 /\ sent.chan = conn[c].chan /\ sent.pos = conn[c].pos
  <2>1. sent = [rest EXCEPT !.next = id + 1]
    BY DEF sent
  <2> QED
    BY <1>3, <2>1, NextSet
<1>5. /\ ConnInOrder(conn[c], chans, registry, task, file)
      /\ ViewInOrder(view[c], conn[c], From[c], file)
  BY DEF DeliveryInv
<1>6. CASE id >= conn[c].next
  <2>1. /\ id \in Nat /\ Logged(id, file) /\ ConnInOrder(sent, chans, registry, task, file)
        /\ \A n \in Nat : Logged(n, file) /\ n >= conn[c].next => id <= n
    BY <1>1, <1>4, <1>5, <1>6, QueueHead DEF id
  <2>2. DeliveryInv' /\ (UNCHANGED view \/ Gives(c, id))
    BY <1>1, <1>4, <1>6, <2>1, FrameDelivers
  <2>3. conn'[c].pc # "stopped"
    <3>1. conn'[c] = sent \/ conn'[c] = Disconnected
      BY <1>1, <1>2, <1>6 DEF Frame, ConnVars
    <3> QED
      BY <1>1, <1>4, <3>1, OffShape
  <2> QED
    BY <1>1, <2>2, <2>3
<1>7. CASE ~(id >= conn[c].next)
  <2>1. ConnInOrder(rest, chans, registry, task, file)
    BY <1>1, <1>3, <1>5, <1>7, QueueHead DEF id
  <2>2. ViewInOrder(view[c], rest, From[c], file)
    BY <1>1, <1>3, <1>5 DEF ViewInOrder
  <2>3. DeliveryInv'
    BY <1>1, <1>7, <2>1, <2>2, ConnMoves
  <2>4. conn'[c] = rest
    BY <1>1, <1>2, <1>7 DEF ConnVars
  <2> QED
    BY <1>1, <1>3, <1>7, <2>3, <2>4
<1> QED
  BY <1>6, <1>7

LEMMA RecvDelivers ==
  ASSUME StreamInv, DeliveryInv, NEW c \in Client, Recv(c)
  PROVE  /\ DeliveryInv' /\ (UNCHANGED view \/ \E id : Gives(c, id))
         /\ conn[c].pc # "stopped" /\ conn'[c].pc # "stopped"
<1> DEFINE id == chans[conn[c].chan].msgs[conn[c].pos + 1]
           read == [conn[c] EXCEPT !.pos = conn[c].pos + 1]
           sent == [read EXCEPT !.next = id + 1]
<1>1. /\ conn[c].pc = "replay" /\ conn[c].queue = <<>>
      /\ conn[c].pos < Len(chans[conn[c].chan].msgs) /\ ~Behindhand(conn[c], chans)
      /\ UNCHANGED <<file, nextEvent, chans, registry, task>>
      /\ IF id = Abort THEN ConnVars(c, Disconnected) /\ UNCHANGED view
         ELSE IF id >= conn[c].next THEN Frame(c, id, sent)
         ELSE ConnVars(c, read) /\ UNCHANGED view
  BY DEF Recv, Unread, Lagged, Behindhand, fileVars
<1>a. id = chans[conn[c].chan].msgs[conn[c].pos + 1]
  OBVIOUS
<1> HIDE DEF id, read, sent
<1>2. ConnShape(conn[c]) /\ conn' = [conn EXCEPT ![c] = conn'[c]] /\ c \in DOMAIN conn
  BY <1>1 DEF StreamInv, Shape, ConnShape, ConnVars, Frame
<1>3. /\ read.pc = conn[c].pc /\ ConnShape(read) /\ read.queue = conn[c].queue
      /\ read.next = conn[c].next /\ read.chan = conn[c].chan /\ read.pos = conn[c].pos + 1
  <2>1. read = [conn[c] EXCEPT !.pos = conn[c].pos + 1]
    BY DEF read
  <2> QED
    BY <1>2, <2>1, PosSet
<1>4. /\ sent.pc = conn[c].pc /\ sent.queue = conn[c].queue
      /\ sent.next = id + 1 /\ sent.chan = conn[c].chan /\ sent.pos = conn[c].pos + 1
  <2>1. sent = [read EXCEPT !.next = id + 1]
    BY DEF sent
  <2> QED
    BY <1>3, <2>1, NextSet
<1>5. /\ ConnInOrder(conn[c], chans, registry, task, file)
      /\ ViewInOrder(view[c], conn[c], From[c], file)
      /\ CastInOrder(chans, registry, task, file)
  BY DEF DeliveryInv
<1>6. CASE id = Abort
  <2>1. ConnVars(c, Disconnected) /\ UNCHANGED view
    BY <1>1, <1>6
  <2>2. conn'[c] = Disconnected
    BY <1>2, <2>1 DEF ConnVars
  <2> QED
    BY <1>1, <2>1, <2>2, OffShape, EndDelivers
<1>7. id \in Nat \cup {Abort}
  <2>1. conn[c].chan \in Chan /\ conn[c].pos \in 0 .. Len(chans[conn[c].chan].msgs)
    BY <1>1, <1>5 DEF ConnInOrder
  <2>2. PICK ms \in Seq(Nat \cup {Abort}) : ms = chans[conn[c].chan].msgs
    BY <1>5, <2>1 DEF CastInOrder, MessagesInOrder
  <2>3. PICK p \in Nat : p = conn[c].pos + 1 /\ p \in 1 .. Len(ms)
    BY <1>1, <2>1, <2>2
  <2> QED
    BY <1>a, <2>2, <2>3
<1>8. CASE id # Abort /\ id >= conn[c].next
  <2>1. /\ Logged(id, file) /\ ConnInOrder(sent, chans, registry, task, file)
        /\ \A n \in Nat : Logged(n, file) /\ n >= conn[c].next => id <= n
    BY <1>1, <1>4, <1>5, <1>7, <1>8, <1>a, MessageHead, SMTT(30)
  <2>2. DeliveryInv' /\ (UNCHANGED view \/ Gives(c, id))
    BY <1>1, <1>4, <1>7, <1>8, <2>1, FrameDelivers
  <2>3. conn'[c].pc # "stopped"
    <3>1. conn'[c] = sent \/ conn'[c] = Disconnected
      BY <1>1, <1>2, <1>8 DEF Frame, ConnVars
    <3> QED
      BY <1>1, <1>4, <3>1, OffShape
  <2> QED
    BY <1>1, <2>2, <2>3
<1>9. CASE id # Abort /\ ~(id >= conn[c].next)
  <2>1. ConnInOrder(read, chans, registry, task, file)
    BY <1>1, <1>3, <1>5, <1>7, <1>9, <1>a, MessageHead
  <2>2. ViewInOrder(view[c], read, From[c], file)
    BY <1>1, <1>3, <1>5 DEF ViewInOrder
  <2>3. DeliveryInv'
    BY <1>1, <1>9, <2>1, <2>2, ConnMoves
  <2>4. conn'[c] = read
    BY <1>1, <1>2, <1>9 DEF ConnVars
  <2> QED
    BY <1>1, <1>3, <1>9, <2>3, <2>4
<1> QED
  BY <1>6, <1>8, <1>9

LEMMA Facts ==
  ASSUME StreamInv, DeliveryInv, NEW c \in Client
  PROVE  /\ file \in Seq(FileLine) /\ nextEvent \in Nat /\ NumberedLines(file, nextEvent)
         /\ From[c] \in Nat \cup {NoId} /\ ViewInOrder(view[c], conn[c], From[c], file)
         /\ ConnInOrder(conn[c], chans, registry, task, file)
         /\ CastInOrder(chans, registry, task, file)
         /\ ConnShape(conn[c]) /\ c \in DOMAIN conn
BY StreamConstants
DEF StreamConstants, StreamInv, DirInv, DirTypeOK, FileLine, DeliveryInv, Shape, ConnShape

LEMMA ConnectDelivers ==
  ASSUME StreamInv, DeliveryInv, NEW c \in Client, Connect(c) PROVE DeliveryInv'
<1> DEFINE r == [Disconnected EXCEPT !.pc = "classify",
                                     !.next = ResumeStart(LastEventId(c), From[c])]
<1>1. /\ ConnVars(c, r)
      /\ UNCHANGED <<file, nextEvent, chans, registry, task, view>>
  BY DEF Connect, fileVars
<1>2. /\ r.pc = "classify" /\ r.next = GoesOn(view[c], From[c])
      /\ r.queue = <<>> /\ r.pos = 0
  <2>1. r = Asking(Disconnected, "classify", ResumeStart(LastEventId(c), From[c]))
    BY DEF Asking
  <2>2. Disconnected.queue = <<>> /\ Disconnected.pos = 0
    BY DEF Disconnected
  <2>3. ResumeStart(LastEventId(c), From[c]) = GoesOn(view[c], From[c])
    BY DEF LastEventId, GoesOn
  <2> HIDE DEF r
  <2> QED
    BY <2>1, <2>2, <2>3, OffShape, UpdateMoves, UpdateFields
<1> HIDE DEF r
<1>3. PICK f \in Seq(FileLine), next \in Nat, from \in Nat \cup {NoId} :
        f = file /\ next = nextEvent /\ from = From[c]
  BY Facts
<1>4. NumberedLines(f, next) /\ ViewInOrder(view[c], conn[c], from, f)
  BY <1>3, Facts
<1>5. ConnInOrder(r, chans, registry, task, f) /\ ViewInOrder(view[c], r, from, f)
  BY <1>2, <1>3, <1>4, AskInOrder
<1> QED
  BY <1>1, <1>3, <1>5, ConnMoves

(* A connection reads the file, when it has joined a broadcast or when the *)
(* run is over.                                                            *)
LEMMA ReplayInOrder ==
  ASSUME NEW f \in Seq(FileLine), NEW next \in Nat, NumberedLines(f, next),
         NEW t, NEW ch, NEW reg, NEW d, ConnInOrder(d, ch, reg, t, f),
         NEW e, e.next = d.next, e.queue = Replay(d.next, f),
         \/ e.pc = "terminal"
         \/ e.pc = "replay" /\ d.pc = "read" /\ e.chan = d.chan /\ e.pos = d.pos
  PROVE  ConnInOrder(e, ch, reg, t, f)
<1>1. d.next \in Nat
  BY DEF ConnInOrder
<1>2. /\ e.queue \in Seq(Nat) /\ Increasing(e.queue)
      /\ \A m \in Nat : Occurs(m, e.queue) <=> Logged(m, f) /\ m >= e.next
  BY <1>1, ReplayIs
<1>3. QueueFirst(e, f) /\ CastNext(e, ch, reg, t, f)
  BY <1>2 DEF QueueFirst, CastNext
<1> QED
  BY <1>1, <1>2, <1>3 DEF ConnInOrder

LEMMA ReadReplayDelivers ==
  ASSUME StreamInv, DeliveryInv, NEW c \in Client, ReadReplay(c) PROVE DeliveryInv'
<1> DEFINE r == [conn[c] EXCEPT !.pc = "replay", !.queue = ReplayFrom(conn[c].next)]
<1>1. /\ ConnVars(c, r) /\ conn[c].pc = "read"
      /\ UNCHANGED <<file, nextEvent, chans, registry, task, view>>
  BY DEF ReadReplay, dirVars, fileVars
<1>2. r = Replaying(conn[c], "replay", ReplayFrom(conn[c].next))
  BY DEF Replaying
<1> HIDE DEF r
<1>3. ReplayFrom(conn[c].next) = Replay(conn[c].next, file)
  BY DEF ReplayFrom, Replay
<1>4. /\ r.pc = "replay" /\ r.next = conn[c].next /\ r.queue = Replay(conn[c].next, file)
      /\ r.chan = conn[c].chan /\ r.pos = conn[c].pos
  BY <1>2, <1>3, Facts, UpdateMoves, UpdateFields
<1>5. PICK f \in Seq(FileLine), next \in Nat : f = file /\ next = nextEvent
  BY Facts
<1>6. NumberedLines(f, next) /\ ConnInOrder(conn[c], chans, registry, task, f)
  BY <1>5, Facts
<1>7. ConnInOrder(r, chans, registry, task, f)
  BY <1>1, <1>4, <1>5, <1>6, ReplayInOrder
<1>8. ViewInOrder(view[c], r, From[c], file)
  BY <1>1, <1>4, Facts DEF ViewInOrder
<1> QED
  BY <1>1, <1>5, <1>7, <1>8, ConnMoves

LEMMA ReadTerminalDelivers ==
  ASSUME StreamInv, DeliveryInv, NEW c \in Client, ReadTerminal(c)
  PROVE  /\ DeliveryInv' /\ conn[c].pc # "stopped"
         /\ conn'[c].pc = "stopped" => view[c] = WantedOf(From[c], file)
                                       /\ writer \in {"finished", "gone"}
<1> DEFINE replay == ReplayFrom(conn[c].next)
           over == [Disconnected EXCEPT !.pc = "stopped"]
           rest == [conn[c] EXCEPT !.pc = "terminal", !.queue = replay,
                                   !.frame = (cls[c] = "aborted")]
<1>1. /\ ConnVars(c, IF replay = <<>> THEN over ELSE rest) /\ conn[c].pc = "classify"
      /\ cls[c] \in {"finished", "aborted"}
      /\ UNCHANGED <<file, nextEvent, chans, registry, task, view>>
  BY DEF ReadTerminal, fileVars
<1>2. replay = Replay(conn[c].next, file)
  BY DEF ReplayFrom, Replay
<1>3. over = Stopped(Disconnected, "stopped")
  BY DEF Stopped
<1>4. rest = Terminal(conn[c], "terminal", replay, cls[c] = "aborted")
  BY DEF Terminal
<1> HIDE DEF replay, over, rest
<1>5. over.pc = "stopped" /\ over.next = 0 /\ over.queue = <<>>
  <2>1. Disconnected.next = 0 /\ Disconnected.queue = <<>>
    BY DEF Disconnected
  <2> QED
    BY <1>3, <2>1, OffShape, UpdateMoves, UpdateFields
<1>6. rest.pc = "terminal" /\ rest.next = conn[c].next /\ rest.queue = replay
  BY <1>4, Facts, UpdateMoves, UpdateFields
<1>7. PICK f \in Seq(FileLine), next \in Nat, from \in Nat \cup {NoId} :
        f = file /\ next = nextEvent /\ from = From[c]
  BY Facts
<1>8. /\ NumberedLines(f, next) /\ ConnInOrder(conn[c], chans, registry, task, f)
      /\ ViewInOrder(view[c], conn[c], from, f)
  BY <1>7, Facts
<1>9. CASE replay = <<>>
  <2>1. ConnVars(c, over) /\ conn'[c] = over
    BY <1>1, <1>9, Facts DEF ConnVars
  <2>2. ConnInOrder(over, chans, registry, task, f) /\ ViewInOrder(view[c], over, from, f)
    BY <1>5, <1>8, RestInOrder
  <2>3. DeliveryInv'
    BY <1>1, <1>7, <2>1, <2>2, ConnMoves
  <2>4. view[c] = WantedOf(from, f)
    <3>1. PICK v : v = view[c]
      OBVIOUS
    <3>2. conn[c].next = GoesOn(v, from) /\ v \in Seq(Nat) /\ Begins(v, WantedOf(from, f))
      BY <1>1, <1>8, <3>1 DEF ViewInOrder
    <3>3. \A n \in Nat : Logged(n, f) => ~(n >= GoesOn(v, from))
      <4>1. GoesOn(v, from) \in Nat
        BY <1>8, <3>2 DEF ConnInOrder
      <4>2. \A n \in Nat : Occurs(n, Replay(GoesOn(v, from), f)) <=>
                             Logged(n, f) /\ n >= GoesOn(v, from)
        BY <1>8, <4>1, ReplayIs
      <4>3. \A n : ~Occurs(n, Replay(GoesOn(v, from), f))
        <5>1. Replay(GoesOn(v, from), f) = <<>>
          BY <1>2, <1>7, <1>9, <3>2
        <5> QED
          BY <5>1 DEF Occurs
      <4> QED
        BY <4>2, <4>3
    <3> QED
      BY <1>8, <3>1, <3>2, <3>3, AllSeen
  <2>5. writer \in {"finished", "gone"}
    BY <1>1, StreamConstants DEF StreamConstants, StreamInv, DirInv, AnswersJustified
  <2> QED
    BY <1>1, <1>7, <2>3, <2>4, <2>5
<1>10. CASE replay # <<>>
  <2>1. ConnVars(c, rest) /\ conn'[c] = rest
    BY <1>1, <1>10, Facts DEF ConnVars
  <2>2. ConnInOrder(rest, chans, registry, task, f)
    BY <1>2, <1>6, <1>7, <1>8, ReplayInOrder
  <2>3. ViewInOrder(view[c], rest, from, f)
    BY <1>1, <1>6, <1>8 DEF ViewInOrder
  <2>4. DeliveryInv'
    BY <1>1, <1>7, <2>1, <2>2, <2>3, ConnMoves
  <2> QED
    BY <1>1, <1>6, <2>1, <2>4
<1> QED
  BY <1>9, <1>10

(* A connection joins the registered broadcast, at its end: all the tailer *)
(* still has to send will be read from it, and the file holds the rest.    *)
LEMMA JoinInOrder ==
  ASSUME NEW f, NEW t, NEW reg \in Chan, NEW ch, CastInOrder(ch, reg, t, f),
         NEW d, ConnInOrder(d, ch, reg, t, f), d.pc = "classify",
         NEW e, e.pc = "read", e.next = d.next, e.queue = d.queue, e.chan = reg,
         e.pos = Len(ch[reg].msgs)
  PROVE  ConnInOrder(e, ch, reg, t, f)
<1>1. e.pos \in 0 .. Len(ch[reg].msgs)
  <2>1. ch[reg].msgs \in Seq(Nat \cup {Abort})
    BY DEF CastInOrder, MessagesInOrder
  <2> QED
    BY <2>1
<1> QED
  BY <1>1 DEF ConnInOrder

(* Or it opens one that nobody receives from, with a tail task that starts *)
(* at the end of the file.                                                 *)
LEMMA OpenInOrder ==
  ASSUME NEW f, NEW t, NEW ch, CastInOrder(ch, NoChan, t, f), NEW k \in Chan,
         NEW di, \A j \in Chan : di[j].msgs = IF j = k THEN <<>> ELSE ch[j].msgs, NEW u
  PROVE  /\ CastInOrder(di, k, u, f)
         /\ \A r : ConnInOrder(r, ch, NoChan, t, f) /\ r.chan # k => ConnInOrder(r, di, k, u, f)
<1>1. \A j \in Chan : MessagesInOrder(di[j].msgs, f)
  <2>1. MessagesInOrder(<<>>, f)
    BY DEF MessagesInOrder
  <2> QED
    BY <2>1 DEF CastInOrder
<1>2. \A n : ~Occurs(n, di[k].msgs)
  BY DEF Occurs
<1>3. CastInOrder(di, k, u, f)
  BY <1>1, <1>2 DEF CastInOrder
<1>4. ASSUME NEW r, ConnInOrder(r, ch, NoChan, t, f), r.chan # k PROVE ConnInOrder(r, di, k, u, f)
  <2>1. ASSUME r.chan \in Chan PROVE di[r.chan].msgs = ch[r.chan].msgs
    BY <1>4, <2>1
  <2>2. ASSUME r.chan \in Chan, CastNext(r, ch, NoChan, t, f) PROVE CastNext(r, di, k, u, f)
    BY <1>4, <2>1, <2>2 DEF CastNext
  <2> QED
    BY <1>4, <2>1, <2>2 DEF ConnInOrder, Behindhand
<1> QED
  BY <1>3, <1>4

LEMMA SubscribeDelivers ==
  ASSUME StreamInv, DeliveryInv, NEW c \in Client, Subscribe(c) PROVE DeliveryInv'
<1>0. conn[c].pc = "classify" /\ UNCHANGED <<file, nextEvent, view>>
  BY DEF Subscribe, fileVars
<1>f. /\ ConnShape(conn[c]) /\ ConnInOrder(conn[c], chans, registry, task, file)
      /\ ViewInOrder(view[c], conn[c], From[c], file)
      /\ CastInOrder(chans, registry, task, file)
  BY Facts
<1>1. CASE registry # NoChan
  <2> DEFINE r == [conn[c] EXCEPT !.pc = "read", !.chan = registry,
                                  !.pos = Len(chans[registry].msgs)]
  <2>1. ConnVars(c, r) /\ UNCHANGED <<chans, registry, task>>
    BY <1>1 DEF Subscribe
  <2>2. r = JoinedAt(conn[c], "read", registry, Len(chans[registry].msgs))
    BY DEF JoinedAt
  <2> HIDE DEF r
  <2>3. /\ r.pc = "read" /\ r.next = conn[c].next /\ r.queue = conn[c].queue
        /\ r.chan = registry /\ r.pos = Len(chans[registry].msgs)
    BY <1>f, <2>2, UpdateMoves, UpdateFields
  <2>4. registry \in Chan
    BY <1>1, <1>f DEF CastInOrder
  <2>5. ConnInOrder(r, chans, registry, task, file)
    BY <1>0, <1>f, <2>3, <2>4, JoinInOrder
  <2>6. ViewInOrder(view[c], r, From[c], file)
    BY <1>0, <1>f, <2>3 DEF ViewInOrder
  <2> QED
    BY <1>0, <2>1, <2>5, <2>6, ConnMoves
<1>2. CASE registry = NoChan
  <2> DEFINE k == CHOOSE k \in Chan : ~chans[k].open /\ Receivers(k) = {}
             r == [conn[c] EXCEPT !.pc = "read", !.chan = k]
  <2>1. /\ ConnVars(c, r)
        /\ chans' = [chans EXCEPT ![k] = [msgs |-> <<>>, open |-> TRUE]]
        /\ registry' = k
        /\ task' = [NoTask EXCEPT !.pc = "poll", !.offset = Len(file)]
    BY <1>2 DEF Subscribe
  <2>2. k \in Chan /\ Receivers(k) = {}
    BY <1>2, SpareChan DEF StreamInv
  <2>3. r = Joined(conn[c], "read", k)
    BY DEF Joined
  <2> HIDE DEF k, r
  <2>4. /\ r.pc = "read" /\ r.next = conn[c].next /\ r.queue = conn[c].queue
        /\ r.chan = k /\ r.pos = conn[c].pos
    BY <1>f, <2>3, UpdateMoves, UpdateFields
  <2>5. \A j \in Chan : chans'[j].msgs = IF j = k THEN <<>> ELSE chans[j].msgs
    BY <2>1 DEF StreamInv, Shape, ChansShape
  <2>6. CastInOrder(chans, NoChan, task, file)
    BY <1>2, <1>f
  <2>7. /\ CastInOrder(chans', k, task', file)
        /\ \A d : ConnInOrder(d, chans, NoChan, task, file) /\ d.chan # k =>
                    ConnInOrder(d, chans', k, task', file)
    BY <2>2, <2>5, <2>6, OpenInOrder
  <2>8. ConnInOrder(r, chans', k, task', file)
    <3>1. conn[c].pos = 0 /\ chans'[k].msgs = <<>>
      BY <1>0, <1>f, <2>2, <2>5 DEF ConnInOrder
    <3>2. r.pos \in 0 .. Len(chans'[k].msgs)
      BY <2>4, <3>1
    <3> QED
      BY <1>f, <2>2, <2>4, <3>2 DEF ConnInOrder
  <2>9. ViewInOrder(view[c], r, From[c], file)
    BY <1>0, <1>f, <2>4 DEF ViewInOrder
  <2>10. conn' = [d \in Client |-> IF d = c THEN r ELSE conn[d]]
    BY <2>1 DEF StreamInv, Shape, ConnVars
  <2>11. ASSUME NEW d \in Client
         PROVE  /\ ConnInOrder(conn'[d], chans', k, task', file)
                /\ ViewInOrder(view[d], conn'[d], From[d], file)
    <3>1. CASE d = c
      BY <2>8, <2>9, <2>10, <3>1
    <3>2. CASE d # c
      <4>1. conn'[d] = conn[d] /\ conn[d].chan # k
        BY <2>2, <2>10, <3>2 DEF Receivers
      <4>2. ConnInOrder(conn[d], chans, NoChan, task, file)
        BY <1>2 DEF DeliveryInv
      <4>3. ViewInOrder(view[d], conn[d], From[d], file)
        BY DEF DeliveryInv
      <4> QED
        BY <2>7, <4>1, <4>2, <4>3
    <3> QED
      BY <3>1, <3>2
  <2>12. TailInOrder(task', file)
    <3>1. task'.pc = "poll" /\ task'.offset = Len(file) /\ task'.batch = <<>>
      BY <2>1 DEF NoTask
    <3>2. Len(file) \in Nat
      BY Facts
    <3> QED
      BY <3>1, <3>2 DEF TailInOrder, Increasing, Occurs
  <2> QED
    BY <1>0, <2>1, <2>7, <2>11, <2>12 DEF DeliveryInv
<1> QED
  BY <1>1, <1>2

----------------------------------------------------------------------------
LEMMA InitDeliveryInv == Init => DeliveryInv
<1> SUFFICES ASSUME Init PROVE DeliveryInv
  OBVIOUS
<1>1. /\ file = <<>> /\ nextEvent = 0 /\ task = NoTask /\ registry = NoChan
      /\ chans = [k \in Chan |-> Closed]
      /\ conn = [c \in Client |-> Disconnected] /\ view = [c \in Client |-> <<>>]
  BY DEF Init, DirInit
<1>2. NumberedLines(file, nextEvent)
  BY <1>1 DEF NumberedLines
<1>3. TailInOrder(task, file)
  BY <1>1 DEF TailInOrder, NoTask, Increasing, Occurs
<1>4. CastInOrder(chans, registry, task, file)
  <2>1. \A k \in Chan : chans[k].msgs = <<>>
    BY <1>1 DEF Closed
  <2>2. MessagesInOrder(<<>>, file)
    BY DEF MessagesInOrder
  <2> QED
    BY <1>1, <2>1, <2>2 DEF CastInOrder
<1>5. Disconnected.pc = "off" /\ Disconnected.next = 0 /\ Disconnected.queue = <<>>
  BY DEF Disconnected
<1>6. ASSUME NEW c \in Client
      PROVE  /\ ConnInOrder(Disconnected, chans, registry, task, file)
             /\ ViewInOrder(<<>>, Disconnected, From[c], file)
  <2>1. From[c] \in Nat \cup {NoId} /\ file \in Seq(FileLine)
    BY <1>1, StreamConstants DEF StreamConstants
  <2>2. WantedOf(From[c], file) \in Seq(Nat)
    BY <1>1, <1>2, <2>1, WantedIs
  <2>3. ViewInOrder(<<>>, Disconnected, From[c], file)
    BY <1>5, <2>2 DEF ViewInOrder, Begins
  <2> QED
    BY <1>5, <2>3, RestInOrder
<1> QED
  BY <1>1, <1>2, <1>3, <1>4, <1>6 DEF DeliveryInv

LEMMA DeliveryStep == StreamInv /\ DeliveryInv /\ [Next]_vars => DeliveryInv'
<1> SUFFICES ASSUME StreamInv, DeliveryInv, [Next]_vars PROVE DeliveryInv'
  OBVIOUS
<1>1. CASE (WriterStep \/ CrashRun \/ \E r \in Reader : TryLock(r)) /\ UNCHANGED streamVars
  BY <1>1, RunStepDelivers
<1>2. CASE TailStep
  BY <1>2, TailStepDelivers
<1>3. ASSUME NEW c \in Client, EndLive(c) \/ EndTerminal(c) PROVE DeliveryInv'
  <2>1. /\ ConnVars(c, Disconnected)
        /\ UNCHANGED <<file, nextEvent, chans, registry, task, view>>
    BY <1>3 DEF EndLive, EndTerminal, dirVars, fileVars
  <2> QED
    BY <2>1, EndDelivers
<1>4. ASSUME NEW c \in Client, ConnStep(c) PROVE DeliveryInv'
  BY <1>3, <1>4, ConnectDelivers, SubscribeDelivers, ReadReplayDelivers,
     ReadTerminalDelivers, SendReplayDelivers, RecvDelivers DEF ConnStep
<1>5. CASE UNCHANGED vars
  BY <1>5 DEF vars, dirVars, fileVars, streamVars, DeliveryInv
<1> QED
  BY <1>1, <1>2, <1>4, <1>5 DEF Next, AllStopped

LEMMA DeliveryInvariant == Spec => [](StreamInv /\ DeliveryInv)
<1>1. Init => StreamInv /\ DeliveryInv
  BY InitStreamInv, InitDeliveryInv
<1>2. StreamInv /\ DeliveryInv /\ [Next]_vars => (StreamInv /\ DeliveryInv)'
  BY StreamStep, DeliveryStep
<1> QED
  BY <1>1, <1>2, PTL DEF Spec

(* Between the catch-up and the broadcast no event is lost: one that a     *)
(* following connection still lacks is unread, or the tailer will send it  *)
(* (stream.rs live_stream, tail_task).                                     *)
THEOREM NoGap == Spec => []NoGapBehindTail
<1>1. StreamInv /\ DeliveryInv => NoGapBehindTail
  <2> SUFFICES ASSUME StreamInv, DeliveryInv, NEW c \in Client, conn[c].pc = "replay", ~Lagged(c),
                      NEW n \in {file[i].id : i \in {j \in DOMAIN file : file[j].readable}},
                      n >= conn[c].next
               PROVE  \/ \E i \in DOMAIN conn[c].queue : conn[c].queue[i] = n
                      \/ \E i \in conn[c].pos + 1 .. Len(chans[conn[c].chan].msgs) :
                           chans[conn[c].chan].msgs[i] = n
                      \/ conn[c].chan # registry
                      \/ \E i \in DOMAIN task.batch : task.batch[i] = n
                      \/ \E i \in task.offset + 1 .. Len(file) :
                           file[i].readable /\ file[i].id = n
    BY DEF NoGapBehindTail
  <2>1. PICK i \in DOMAIN file : file[i].readable /\ file[i].id = n
    OBVIOUS
  <2>2. n \in Nat /\ Logged(n, file)
    <3>1. file[i] \in FileLine
      BY <2>1, Facts
    <3> QED
      BY <2>1, <3>1 DEF FileLine, Logged
  <2>3. CastNext(conn[c], chans, registry, task, file)
    BY DEF DeliveryInv, ConnInOrder, Lagged, Behindhand
  <2> QED
    BY <2>2, <2>3 DEF CastNext, Coming, Occurs
<1> QED
  BY <1>1, DeliveryInvariant, PTL

----------------------------------------------------------------------------
(* The stream's steps are steps of what it promises.                       *)
IsOver == writer \in {"finished", "gone"}
StoppedClients == {c \in Client : conn[c].pc = "stopped"}

LEMMA PromisedWanted ==
  ASSUME NEW c \in Client PROVE Promise!Wanted(c) = WantedOf(From[c], file)
<1>1. [d \in Client |-> ResumeStart(NoId, From[d])][c] = ResumeStart(NoId, From[c])
  OBVIOUS
<1>2. Promise!Wanted(c) = Without(LineIds(file), 0 .. ResumeStart(NoId, From[c]) - 1)
  BY <1>1 DEF Promise!Wanted, Promise!Without, Without
<1> QED
  BY <1>2 DEF WantedOf

LEMMA Stutters ==
  ASSUME UNCHANGED <<file, view>>, IsOver' = IsOver, StoppedClients' = StoppedClients
  PROVE  UNCHANGED Promise!deliveryVars
<1>1. LineIds(file)' = LineIds(file)
  OBVIOUS
<1> QED
  BY <1>1 DEF Promise!deliveryVars, IsOver, StoppedClients

LEMMA LogExtends ==
  ASSUME file \in Seq(FileLine), nextEvent \in Nat, NumberedLines(file, nextEvent),
         NEW l, NextLine(l, nextEvent), file' = Append(file, l),
         ~IsOver, UNCHANGED view, StoppedClients' = StoppedClients
  PROVE  [Promise!DeliveryNext]_(Promise!deliveryVars)
<1> DEFINE s == LineIds(file)
<1>1. l \in FileLine /\ (l.readable => l.id = nextEvent)
  BY DEF NextLine
<1>2. s \in Seq(Nat) /\ \A n \in Nat : Occurs(n, s) => n < nextEvent
  <2>1. \A n \in Nat : Logged(n, file) => n < nextEvent
    BY DEF Logged, NumberedLines
  <2> QED
    BY <2>1, LineIdsAre, LineIdsOccur
<1>3. LineIds(file') = IF l.readable THEN Append(s, l.id) ELSE s
  BY <1>1, LineIdsAppend
<1>4. LineIds(file)' = LineIds(file')
  OBVIOUS
<1> HIDE DEF s
<1>5. CASE l.readable
  <2>1. /\ Append(s, nextEvent) \in Seq(Nat) /\ Len(Append(s, nextEvent)) = Len(s) + 1
        /\ Append(s, nextEvent)[Len(s) + 1] = nextEvent
        /\ \A i \in 1 .. Len(s) : Append(s, nextEvent)[i] = s[i]
        /\ Len(s) \in Nat
    BY <1>2, AppendId
  <2>2. SubSeq(Append(s, nextEvent), 1, Len(s)) = s
    <3> DEFINE a == Append(s, nextEvent)
    <3>1. PICK N \in Nat : N = Len(s)
      BY <2>1
    <3>2. \A i \in 1 .. N : a[i] \in Nat
      BY <1>2, <2>1, <3>1
    <3> HIDE DEF a
    <3>3. /\ SubSeq(a, 1, N) \in Seq(Nat)
          /\ Len(SubSeq(a, 1, N)) = IF 1 <= N THEN N - 1 + 1 ELSE 0
          /\ \A i \in 1 .. N - 1 + 1 : SubSeq(a, 1, N)[i] = a[1 + i - 1]
      BY <3>2, SubSeqProperties
    <3>4. Len(SubSeq(a, 1, N)) = N /\ \A i \in 1 .. N : SubSeq(a, 1, N)[i] = a[i]
      BY <3>3
    <3>5. \A i \in 1 .. N : a[i] = s[i]
      BY <2>1, <3>1 DEF a
    <3>6. SubSeq(a, 1, N) = s
      BY <1>2, <3>1, <3>3, <3>4, <3>5, SeqEqual
    <3> QED
      BY <3>1, <3>6 DEF a
  <2>3. \A i \in DOMAIN s : s[i] < nextEvent
    BY <1>2 DEF Occurs
  <2>4. LineIds(file)' = Append(s, nextEvent)
    BY <1>1, <1>3, <1>4, <1>5
  <2>5. Promise!Extend
    BY <2>1, <2>2, <2>3, <2>4 DEF Promise!Extend, IsOver, StoppedClients, s
  <2> QED
    BY <2>5 DEF Promise!DeliveryNext
<1>6. CASE ~l.readable
  <2>1. LineIds(file)' = LineIds(file)
    BY <1>3, <1>4, <1>6 DEF s
  <2>2. CASE IsOver'
    <3>1. Promise!Close
      BY <2>1, <2>2 DEF Promise!Close, IsOver, StoppedClients
    <3> QED
      BY <3>1 DEF Promise!DeliveryNext
  <2>3. CASE ~IsOver'
    BY <2>1, <2>3 DEF Promise!deliveryVars, IsOver, StoppedClients
  <2> QED
    BY <2>2, <2>3
<1> QED
  BY <1>5, <1>6

LEMMA RunStepIsPromised ==
  ASSUME StreamInv, DeliveryInv, UNCHANGED streamVars,
         WriterStep \/ CrashRun \/ \E r \in Reader : TryLock(r)
  PROVE  [Promise!DeliveryNext]_(Promise!deliveryVars)
<1>1. /\ file \in Seq(FileLine) /\ nextEvent \in Nat /\ NumberedLines(file, nextEvent)
      /\ UNCHANGED view /\ StoppedClients' = StoppedClients
  BY DEF StreamInv, DirInv, DirTypeOK, FileLine, DeliveryInv, streamVars, StoppedClients
<1>2. CASE AppendEvent \/ CompleteLine \/ FinishRun
  <2>1. PICK last \in BOOLEAN : Put(Line(nextEvent, last)) /\ ~IsOver
    BY <1>2 DEF AppendEvent, CompleteLine, FinishRun, IsOver
  <2>2. PICK l : NextLine(l, nextEvent) /\ file' = Append(file, l)
    <3> DEFINE l == IF tail = "junk" THEN Garbled ELSE Line(nextEvent, last)
    <3>1. NextLine(l, nextEvent)
      BY <1>1 DEF NextLine, Garbled, Line, FileLine
    <3> QED
      BY <2>1, <3>1 DEF Put
  <2> QED
    BY <1>1, <2>1, <2>2, LogExtends
<1>3. CASE CrashRun /\ writer = "running"
  <2>1. /\ ~IsOver /\ IsOver' /\ file' = file
    BY <1>3 DEF CrashRun, LeaveRun, IsOver
  <2>2. Promise!Close
    <3>1. LineIds(file)' = LineIds(file)
      BY <2>1
    <3> QED
      BY <1>1, <2>1, <3>1 DEF Promise!Close, IsOver, StoppedClients
  <2> QED
    BY <2>2 DEF Promise!DeliveryNext
<1>4. CASE ~(AppendEvent \/ CompleteLine \/ FinishRun) /\ ~(CrashRun /\ writer = "running")
  <2>1. file' = file /\ IsOver' = IsOver
    BY <1>4
    DEF WriterStep, AcquireRunLock, TearLine, FailLine, ExitRun, CrashRun, LeaveRun,
        TryLock, TryLockFree, TryLockHeld, DropLock, fileVars, IsOver
  <2> QED
    BY <1>1, <2>1, Stutters
<1> QED
  BY <1>2, <1>3, <1>4

(* A connection's step that stops no client and leaves the view alone, or  *)
(* gives it the next event it wants.                                       *)
LEMMA ConnIsPromised ==
  ASSUME StreamInv, DeliveryInv, NEW c \in Client, UNCHANGED <<file, writer>>,
         NEW r, ConnVars(c, r), conn[c].pc # "stopped", r.pc # "stopped",
         UNCHANGED view \/ \E id : Gives(c, id)
  PROVE  [Promise!DeliveryNext]_(Promise!deliveryVars)
<1>1. conn' = [d \in Client |-> IF d = c THEN r ELSE conn[d]]
  BY DEF StreamInv, Shape, ConnVars
<1>2. StoppedClients' = StoppedClients /\ c \notin StoppedClients
  BY <1>1 DEF StoppedClients
<1>3. IsOver' = IsOver
  BY DEF IsOver
<1>4. CASE UNCHANGED view
  BY <1>2, <1>3, <1>4, Stutters
<1>5. ASSUME NEW id, Gives(c, id) PROVE Promise!Deliver(c)
  <2>1. PICK w \in Seq(Nat) : w = WantedOf(From[c], file)
    BY Facts, WantedIs
  <2>2. Promise!Wanted(c) = w
    BY <2>1, PromisedWanted
  <2>3. Len(view[c]) \in Nat
    BY Facts DEF ViewInOrder
  <2>4. Len(view[c]) + 1 \in DOMAIN w /\ w[Len(view[c]) + 1] = id
    BY <1>5, <2>1, <2>3 DEF Gives
  <2>5. view' = [view EXCEPT ![c] = Append(view[c], w[Len(view[c]) + 1])]
    BY <1>5, <2>4 DEF Gives
  <2>6. LineIds(file)' = LineIds(file)
    OBVIOUS
  <2> QED
    BY <1>2, <1>3, <2>2, <2>4, <2>5, <2>6 DEF Promise!Deliver, IsOver, StoppedClients
<1>6. CASE \E id : Gives(c, id)
  BY <1>5, <1>6 DEF Promise!DeliveryNext
<1> QED
  BY <1>4, <1>6

LEMMA ReadTerminalIsPromised ==
  ASSUME StreamInv, DeliveryInv, NEW c \in Client, ReadTerminal(c)
  PROVE  [Promise!DeliveryNext]_(Promise!deliveryVars)
<1>1. UNCHANGED <<file, writer, view>>
  BY DEF ReadTerminal, fileVars
<1>2. PICK r : ConnVars(c, r)
  BY DEF ReadTerminal
<1>3. conn' = [d \in Client |-> IF d = c THEN r ELSE conn[d]]
  BY <1>2 DEF StreamInv, Shape, ConnVars
<1>4. /\ conn[c].pc # "stopped"
      /\ r.pc = "stopped" => view[c] = WantedOf(From[c], file) /\ IsOver
  BY <1>3, ReadTerminalDelivers DEF IsOver
<1>5. CASE r.pc # "stopped"
  BY <1>1, <1>2, <1>4, <1>5, ConnIsPromised
<1>6. CASE r.pc = "stopped"
  <2>1. StoppedClients' = StoppedClients \cup {c}
    BY <1>3, <1>6 DEF StoppedClients
  <2>2. view[c] = Promise!Wanted(c)
    BY <1>4, <1>6, PromisedWanted
  <2>3. LineIds(file)' = LineIds(file)
    BY <1>1
  <2>4. Promise!Stop(c)
    BY <1>1, <1>4, <1>6, <2>1, <2>2, <2>3 DEF Promise!Stop, IsOver, StoppedClients
  <2> QED
    BY <2>4 DEF Promise!DeliveryNext
<1> QED
  BY <1>5, <1>6

LEMMA ConnStepIsPromised ==
  ASSUME StreamInv, DeliveryInv, NEW c \in Client, ConnStep(c)
  PROVE  [Promise!DeliveryNext]_(Promise!deliveryVars)
<1>1. CASE Connect(c) \/ Subscribe(c) \/ ReadReplay(c) \/ EndLive(c) \/ EndTerminal(c)
  <2>1. /\ UNCHANGED <<file, writer, view>> /\ conn[c].pc # "stopped"
    BY <1>1 DEF Connect, Subscribe, ReadReplay, EndLive, EndTerminal, dirVars, fileVars
  <2>2. PICK r : ConnVars(c, r) /\ r.pc # "stopped"
    <3>1. CASE EndLive(c) \/ EndTerminal(c)
      BY <3>1, OffShape DEF EndLive, EndTerminal
    <3>2. CASE Connect(c)
      <4> DEFINE r == Asking(Disconnected, "classify", ResumeStart(LastEventId(c), From[c]))
      <4>1. ConnVars(c, r)
        BY <3>2 DEF Connect, Asking
      <4> HIDE DEF r
      <4>2. r.pc = "classify"
        BY OffShape, UpdateMoves DEF r
      <4> QED
        BY <4>1, <4>2
    <3>3. CASE ReadReplay(c)
      <4> DEFINE r == Replaying(conn[c], "replay", ReplayFrom(conn[c].next))
      <4>1. ConnVars(c, r)
        BY <3>3 DEF ReadReplay, Replaying
      <4> HIDE DEF r
      <4>2. r.pc = "replay"
        BY Facts, UpdateMoves DEF r
      <4> QED
        BY <4>1, <4>2
    <3>4. CASE Subscribe(c)
      <4> DEFINE k == CHOOSE k \in Chan : ~chans[k].open /\ Receivers(k) = {}
                 r == JoinedAt(conn[c], "read", registry, Len(chans[registry].msgs))
                 q == Joined(conn[c], "read", k)
      <4>1. ConnVars(c, r) \/ ConnVars(c, q)
        BY <3>4 DEF Subscribe, Joined, JoinedAt
      <4> HIDE DEF k, r, q
      <4>2. r.pc = "read" /\ q.pc = "read"
        BY Facts, UpdateMoves DEF r, q
      <4> QED
        BY <4>1, <4>2
    <3> QED
      BY <1>1, <3>1, <3>2, <3>3, <3>4
  <2> QED
    BY <2>1, <2>2, ConnIsPromised
<1>2. CASE SendReplay(c) \/ Recv(c)
  <2>1. UNCHANGED <<file, writer>>
    BY <1>2 DEF SendReplay, Recv, fileVars
  <2>2. PICK r : ConnVars(c, r)
    BY <1>2 DEF SendReplay, Recv, Frame
  <2>3. conn'[c] = r
    BY <2>2, Facts DEF ConnVars
  <2>4. /\ conn[c].pc # "stopped" /\ r.pc # "stopped"
        /\ UNCHANGED view \/ \E id : Gives(c, id)
    BY <1>2, <2>3, SendReplayDelivers, RecvDelivers
  <2> QED
    BY <2>1, <2>2, <2>4, ConnIsPromised
<1>3. CASE ReadTerminal(c)
  BY <1>3, ReadTerminalIsPromised
<1> QED
  BY <1>1, <1>2, <1>3 DEF ConnStep

(* Resume arithmetic, subscribe before catch-up, dedupe and disconnect on  *)
(* lag add up: through crashes, lags and lost connections every client is  *)
(* given every event it wants, once and in order, and is answered 204 only *)
(* when the run is over and it has them all (stream.rs, ADR 0028).         *)
THEOREM DeliversTheLog == Spec => ImplementsDelivery
<1>1. Init => Promise!DeliveryInit
  <2> SUFFICES ASSUME Init PROVE Promise!DeliveryInit
    OBVIOUS
  <2>1. LineIds(file) = <<>> /\ ~IsOver /\ view = [c \in Client |-> <<>>]
    BY LineIdsEmpty DEF Init, DirInit, IsOver
  <2>2. StoppedClients = {}
    BY DEF Init, StoppedClients, Disconnected
  <2> QED
    BY <2>1, <2>2 DEF Promise!DeliveryInit, IsOver, StoppedClients
<1>2. StreamInv /\ DeliveryInv /\ [Next]_vars => [Promise!DeliveryNext]_(Promise!deliveryVars)
  <2> SUFFICES ASSUME StreamInv, DeliveryInv, [Next]_vars
               PROVE  [Promise!DeliveryNext]_(Promise!deliveryVars)
    OBVIOUS
  <2>1. CASE (WriterStep \/ CrashRun \/ \E r \in Reader : TryLock(r)) /\ UNCHANGED streamVars
    BY <2>1, RunStepIsPromised
  <2>2. CASE TailStep \/ UNCHANGED vars
    <3>1. UNCHANGED <<file, writer, conn, view>>
      BY <2>2
      DEF TailStep, TailPoll, TailSend, TailClassify, TailAnswer, TailRecheck, TailRemove,
          DropSender, TailVars, vars, dirVars, fileVars, streamVars
    <3> QED
      BY <3>1, Stutters DEF IsOver, StoppedClients
  <2>3. ASSUME NEW c \in Client, ConnStep(c)
        PROVE  [Promise!DeliveryNext]_(Promise!deliveryVars)
    BY <2>3, ConnStepIsPromised
  <2> QED
    BY <2>1, <2>2, <2>3 DEF Next, AllStopped
<1> QED
  BY <1>1, <1>2, DeliveryInvariant, PTL DEF Spec, ImplementsDelivery, Promise!DeliverySpec
=============================================================================
