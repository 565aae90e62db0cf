------------------------------- MODULE RunDir -------------------------------
(* One run directory as its writer and its readers share it: events.jsonl,  *)
(* appended line by line (artifacts.rs), run.lock, held by the run for as   *)
(* long as it lives, and the classifier that readers run on both            *)
(* (openteam-serve discovery.rs, tail.rs).  There is no other channel       *)
(* between a run and the stream server.  File contents are abstracted to    *)
(* the ids of the events and to which line is the run_finished bookend.     *)
EXTENDS Naturals, Sequences, SequencesExt

CONSTANTS Reader,     \* whoever may classify: connections, the tailer, the run list
          Writer,     \* the run, as a holder of run.lock
          Free,       \* run.lock is held by nobody
          MaxEvent,   \* bound: events before run_finished
          MaxFault    \* bound: torn lines, readers that collide on the lock, and
                      \* what other modules count as a fault

ASSUME RunDirConstants ==
  /\ Writer \notin Reader /\ Free \notin Reader \cup {Writer}
  /\ MaxEvent \in Nat /\ MaxFault \in Nat

VARIABLES writer,     \* "starting", "running", "finished" or "gone"
          file,       \* the complete lines of events.jsonl
          tail,       \* what follows the last newline
          nextEvent,  \* World.next_event
          runLock,    \* who holds the flock on run.lock
          cls,        \* per reader: where its classify stands, or its answer
          faults      \* how much of MaxFault is spent

fileVars == <<writer, file, tail, nextEvent, runLock>>
dirVars == <<fileVars, cls, faults>>

Answer == {"finished", "live", "aborted"}
ClassifyStep == {"idle", "lock", "holding"}

Line(n, last) == [id |-> n, bookend |-> last, readable |-> TRUE]
Garbled == [id |-> 0, bookend |-> FALSE, readable |-> FALSE]

(* event_id and Event deserialization succeed on exactly the readable ones; *)
(* the others are skipped.                                                  *)
LineIds(lines) ==
  LET ids[i \in 0 .. Len(lines)] ==
        IF i = 0 THEN <<>>
        ELSE IF lines[i].readable THEN Append(ids[i - 1], lines[i].id) ELSE ids[i - 1]
  IN  ids[Len(lines)]

(* run_header, find_run: event 0 must be a complete run_started line. *)
HasHeader == file # <<>> /\ file[1].readable /\ file[1].id = 0
HasBookend == file # <<>> /\ file[Len(file)].bookend

DirInit ==
  /\ writer = "starting"
  /\ file = <<>> /\ tail = "none"
  /\ nextEvent = 0
  /\ runLock = Free
  /\ cls = [r \in Reader |-> "idle"]
  /\ faults = 0

----------------------------------------------------------------------------
Fault == faults < MaxFault /\ faults' = faults + 1

(* The run. *)

(* Mutant: the lock's file handle is dropped at once (let _ = ...). *)
AcquireAndDrop ==
  /\ writer = "starting" /\ runLock = Free
  /\ writer' = "running"
  /\ UNCHANGED <<runLock, file, tail, nextEvent, cls, faults>>

(* The blocking flock comes before the log exists. *)
AcquireRunLock ==
  /\ writer = "starting" /\ runLock = Free
  /\ runLock' = Writer /\ writer' = "running"
  /\ UNCHANGED <<file, tail, nextEvent, cls, faults>>

(* A line that follows the leftover of a failed write is glued to it. *)
Put(line) == file' = Append(file, IF tail = "junk" THEN Garbled ELSE line)

(* A line that fits the BufWriter reaches the file in one write. *)
AppendEvent ==
  /\ writer = "running" /\ tail # "torn" /\ nextEvent < MaxEvent
  /\ Put(Line(nextEvent, FALSE))
  /\ tail' = "none" /\ nextEvent' = nextEvent + 1
  /\ UNCHANGED <<writer, runLock, cls, faults>>

(* A longer one is torn over several, and readers can see the torn part. *)
TearLine ==
  /\ writer = "running" /\ tail = "none" /\ nextEvent < MaxEvent
  /\ tail' = "torn" /\ Fault
  /\ UNCHANGED <<writer, file, nextEvent, runLock, cls>>

CompleteLine ==
  /\ writer = "running" /\ tail = "torn"
  /\ Put(Line(nextEvent, FALSE))
  /\ tail' = "none" /\ nextEvent' = nextEvent + 1
  /\ UNCHANGED <<writer, runLock, cls, faults>>

(* The write fails half way: the id is spent, its line never completes. *)
FailLine ==
  /\ writer = "running" /\ tail = "torn"
  /\ tail' = "junk" /\ nextEvent' = nextEvent + 1
  /\ UNCHANGED <<writer, file, runLock, cls, faults>>

(* run_finished is the last event of every termination path, and the world *)
(* is frozen from then on (World, FinishFreezesWorld).                     *)
FinishRun ==
  /\ writer = "running" /\ tail # "torn" /\ nextEvent > 0
  /\ Put(Line(nextEvent, TRUE))
  /\ tail' = "none" /\ nextEvent' = nextEvent + 1
  /\ writer' = "finished"
  /\ UNCHANGED <<runLock, cls, faults>>

(* run() returns, after the final snapshots or from a failure to write     *)
(* them, and drops the lock file; a killed process loses it anywhere.      *)
LeaveRun ==
  /\ writer' = "gone"
  /\ runLock' = IF runLock = Writer THEN Free ELSE runLock
  /\ UNCHANGED <<file, tail, nextEvent, cls, faults>>

ExitRun == writer = "finished" /\ LeaveRun
CrashRun == writer \in {"running", "finished"} /\ LeaveRun

WriterStep ==
  \/ AcquireRunLock \/ AppendEvent \/ TearLine \/ CompleteLine \/ FailLine
  \/ FinishRun \/ ExitRun

----------------------------------------------------------------------------
(* classify: the bookend first, then a non-blocking try of the lock, which *)
(* a reader that gets it holds until its file handle is dropped.           *)

ReadBookend(r) ==
  cls' = [cls EXCEPT ![r] = IF HasBookend THEN "finished" ELSE "lock"]

TryLockFree(r) ==
  /\ cls[r] = "lock" /\ runLock = Free
  /\ runLock' = r
  /\ cls' = [cls EXCEPT ![r] = "holding"]
  /\ UNCHANGED <<writer, file, tail, nextEvent, faults>>

(* Held, by the run or for a moment by another reader. *)
TryLockHeld(r) ==
  /\ cls[r] = "lock" /\ runLock # Free
  /\ cls' = [cls EXCEPT ![r] = "live"]
  /\ IF runLock = Writer THEN UNCHANGED faults ELSE Fault
  /\ UNCHANGED fileVars

DropLock(r) ==
  /\ cls[r] = "holding"
  /\ runLock' = Free
  /\ cls' = [cls EXCEPT ![r] = "aborted"]
  /\ UNCHANGED <<writer, file, tail, nextEvent, faults>>

TryLock(r) == TryLockFree(r) \/ TryLockHeld(r) \/ DropLock(r)

----------------------------------------------------------------------------
DirTypeOK ==
  /\ writer \in {"starting", "running", "finished", "gone"}
  /\ file \in Seq([id : Nat, bookend : BOOLEAN, readable : BOOLEAN])
  /\ tail \in {"none", "torn", "junk"}
  /\ nextEvent \in Nat
  /\ runLock \in Reader \cup {Writer, Free}
  /\ cls \in [Reader -> ClassifyStep \cup Answer]
  /\ faults \in Nat

(* run.lock and the processes agree: the run holds it exactly while it is  *)
(* running or finished, a reader exactly inside its classify.              *)
LockMatchesHolders ==
  /\ writer \in {"running", "finished"} <=> runLock = Writer
  /\ \A r \in Reader : cls[r] = "holding" <=> runLock = r

(* What the classifier's answers are worth whenever they are used: a run   *)
(* called finished has its bookend for good, and one called aborted has no *)
(* writer any more (so its file never grows again), although the two reads *)
(* of classify are not atomic.                                             *)
AnswersJustified ==
  \A r \in Reader :
    /\ cls[r] = "finished" => HasBookend /\ writer \in {"finished", "gone"}
    /\ cls[r] \in {"holding", "aborted"} => writer = "gone"
=============================================================================
