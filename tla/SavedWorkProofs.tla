-------------------------- MODULE SavedWorkProofs --------------------------
(***************************************************************************)
(* Nothing that was saved is lost, and no process outlives its report, for *)
(* every number of clients, texts, lessons, operations and faults.         *)
(*                                                                         *)
(* FileInv says who holds which lock at which step (Holding) and what the  *)
(* holder knows of the file (PadKnown, ProgressKnown). ProcInv says what   *)
(* is left of the process at each step of the code that owns it. With the  *)
(* first, the app implements the abstract LearnerFiles.                    *)
(***************************************************************************)
EXTENDS SavedWork, RetentionFacts

-----------------------------------------------------------------------------
(* The process.                                                            *)

\* Outside the loop and the kill no process of the group lives.
NoGroup == phase \notin {"poll", "check", "kill"} => ~GroupLives

\* A reader that ended saw the pipe close.
ReaderKnows == reader = "done" => ~Holders

\* A worker's reader never stops early, and a job that is reported has no reader left.
WorkerReads ==
    runner = "worker" => reader # "full" /\ (phase = "returned" => reader # "reads")

\* Without a reason to stop, the leader has exited by itself (or was never started, or
\* its reader was not).
EndedAlone ==
    phase \in {"kill", "sweep", "join", "joined"} /\ stopped = "none" /\ reader # "none" =>
        leader = "exited"

\* An idle process is clear, one that is watched was started with its reader, and a
\* worker whose reader did not start has a reason.
IdleIsClear ==
    /\ phase = "idle" =>
         leader = "none" /\ kin = {} /\ reader = "none" /\ stopped = "none" /\ scratch = FALSE
    /\ phase \in {"poll", "check"} => leader \in {"runs", "exited"} /\ reader # "none"
    /\ runner = "worker" /\ phase \in {"kill", "sweep", "join", "joined"} /\ reader = "none" =>
         stopped # "none"

ProcInv == ProcTypeOK /\ NoGroup /\ ReaderKnows /\ WorkerReads /\ EndedAlone /\ IdleIsClear

\* Only these steps touch the process.
ProcNext == StartProcess \/ OwnerStep \/ ChildStep \/ Clear \/ UNCHANGED procVars

\* Every step of the system is one of the process or leaves it alone.
LEMMA ProcessSteps == ASSUME [Next]_vars PROVE ProcNext
<1>1. ASSUME NEW c \in Client, ClientStep(c) PROVE ProcNext
  BY <1>1 DEF ClientStep, Acquire, BackUp, FinishBackUp, Replace, ReadProgress, WriteProgress,
     ListRecords, WriteRecord, Prune, Snapshot, Execute, Executed, Record, Forget, ProcNext
<1>2. ASSUME NEW c \in Client, WriteFails(c) PROVE ProcNext
  BY <1>2 DEF WriteFails, ProcNext
<1>3. ASSUME NEW c \in Client, NEW op \in Operation, Begin(c, op) PROVE ProcNext
  BY <1>3 DEF Begin, ProcNext
<1>4. CASE Crash
  BY <1>4 DEF Crash, ProcNext
<1>5. CASE Process(OwnerStep) \/ Process(ChildStep) \/ WorkerJob
  BY <1>5 DEF Process, WorkerJob, Forget, ProcNext
<1>6. CASE UNCHANGED vars
  BY <1>6 DEF vars, ProcNext
<1> QED BY <1>1, <1>2, <1>3, <1>4, <1>5, <1>6 DEF Next

\* The process invariant is preserved.
LEMMA ProcKept == ASSUME ProcInv, ProcNext PROVE ProcInv'
<1> USE DEF ProcInv, ProcTypeOK, NoGroup, ReaderKnows, WorkerReads, EndedAlone, IdleIsClear,
            GroupLives, Holders, Goes, Kin, Runner, Reason
<1>1. CASE StartProcess
  BY <1>1 DEF StartProcess, Withdrawn
<1>2. CASE Poll
  BY ZenonT(40), <1>2 DEF Poll
<1>3. CASE Check
  BY ZenonT(40), <1>3 DEF Check, ReasonNow
<1>4. CASE Kill
  <2>1. ProcTypeOK'
    BY <1>4 DEF Kill
  <2>2. NoGroup' /\ ReaderKnows' /\ WorkerReads'
    BY <1>4 DEF Kill
  <2>3. EndedAlone' /\ IdleIsClear'
    BY <1>4 DEF Kill
  <2> QED BY <2>1, <2>2, <2>3
<1>5. CASE Sweep
  <2>1. ProcTypeOK'
    BY <1>5 DEF Sweep
  <2>2. NoGroup' /\ ReaderKnows' /\ WorkerReads'
    BY <1>5 DEF Sweep
  <2>3. EndedAlone' /\ IdleIsClear'
    BY <1>5 DEF Sweep
  <2> QED BY <2>1, <2>2, <2>3
<1>6. CASE Join
  <2>1. ProcTypeOK'
    BY <1>6 DEF Join
  <2>2. NoGroup' /\ ReaderKnows' /\ WorkerReads'
    BY <1>6 DEF Join
  <2>3. EndedAlone' /\ IdleIsClear'
    BY <1>6 DEF Join
  <2> QED BY <2>1, <2>2, <2>3
<1>7. CASE Return
  <2>1. ProcTypeOK'
    BY <1>7 DEF Return, Confirmed, LateReason
  <2>2. NoGroup' /\ ReaderKnows' /\ WorkerReads'
    BY <1>7 DEF Return, Confirmed, LateReason
  <2>3. EndedAlone' /\ IdleIsClear'
    BY <1>7 DEF Return, Confirmed, LateReason
  <2> QED BY <2>1, <2>2, <2>3
<1>8. CASE LeaderExits
  BY ZenonT(40), <1>8 DEF LeaderExits
<1>9. CASE Fork
  <2>1. ProcTypeOK'
    BY ZenonT(40), <1>9 DEF Fork
  <2>2. NoGroup' /\ ReaderKnows' /\ WorkerReads'
    BY <1>9 DEF Fork
  <2>3. EndedAlone' /\ IdleIsClear'
    BY <1>9 DEF Fork
  <2> QED BY <2>1, <2>2, <2>3
<1>10. CASE KinExits
  <2>1. ProcTypeOK'
    <3>1. late' \in BOOLEAN /\ cancel' \in BOOLEAN /\ scratch' \in BOOLEAN
      BY <1>10 DEF KinExits
    <3>2. kin' \subseteq Kin
      BY <1>10 DEF KinExits
    <3> QED BY <1>10, <3>1, <3>2 DEF KinExits
  <2>2. NoGroup' /\ ReaderKnows' /\ WorkerReads'
    BY <1>10 DEF KinExits
  <2>3. EndedAlone' /\ IdleIsClear'
    BY <1>10 DEF KinExits
  <2> QED BY <2>1, <2>2, <2>3
<1>11. CASE FillScratch
  <2>1. ProcTypeOK'
    BY <1>11 DEF FillScratch
  <2>2. NoGroup' /\ ReaderKnows' /\ WorkerReads'
    BY <1>11 DEF FillScratch
  <2>3. EndedAlone' /\ IdleIsClear'
    BY <1>11 DEF FillScratch
  <2> QED BY <2>1, <2>2, <2>3
<1>12. CASE TimePasses
  <2>1. ProcTypeOK'
    BY ZenonT(40), <1>12 DEF TimePasses
  <2>2. NoGroup' /\ ReaderKnows' /\ WorkerReads'
    BY <1>12 DEF TimePasses
  <2>3. EndedAlone' /\ IdleIsClear'
    BY <1>12 DEF TimePasses
  <2> QED BY <2>1, <2>2, <2>3
<1>13. CASE CancelSet
  <2>1. ProcTypeOK'
    BY <1>13 DEF CancelSet
  <2>2. NoGroup' /\ ReaderKnows' /\ WorkerReads'
    BY <1>13 DEF CancelSet
  <2>3. EndedAlone' /\ IdleIsClear'
    BY <1>13 DEF CancelSet
  <2> QED BY <2>1, <2>2, <2>3
<1>14. CASE ReaderEnds
  <2>1. ProcTypeOK'
    BY <1>14 DEF ReaderEnds
  <2>2. NoGroup' /\ ReaderKnows' /\ WorkerReads'
    BY <1>14 DEF ReaderEnds
  <2>3. EndedAlone' /\ IdleIsClear'
    BY <1>14 DEF ReaderEnds
  <2> QED BY <2>1, <2>2, <2>3
<1>15. CASE ReaderFills
  BY ZenonT(40), <1>15 DEF ReaderFills
<1>16. CASE Clear
  BY <1>16 DEF Clear
<1>17. CASE UNCHANGED procVars
  <2>1. ProcTypeOK'
    <3>1. late' \in BOOLEAN /\ cancel' \in BOOLEAN /\ scratch' \in BOOLEAN
      BY <1>17 DEF procVars
    <3>2. kin' \subseteq Kin
      BY <1>17 DEF procVars
    <3> QED BY <1>17, <3>1, <3>2 DEF procVars
  <2>2. NoGroup' /\ ReaderKnows' /\ WorkerReads'
    BY <1>17 DEF procVars
  <2>3. EndedAlone' /\ IdleIsClear'
    BY <1>17 DEF procVars
  <2> QED BY <2>1, <2>2, <2>3
<1> QED BY <1>1, <1>2, <1>3, <1>4, <1>5, <1>6, <1>7, <1>8, <1>9, <1>10, <1>11, <1>12, <1>13, <1>14, <1>15, <1>16, <1>17
        DEF ProcNext, OwnerStep, ChildStep

\* The process invariant holds in every reachable state.
THEOREM ProcessInvariant == Spec => []ProcInv
<1>1. Init => ProcInv
  BY DEF Init, ProcInit, ProcInv, ProcTypeOK, NoGroup, ReaderKnows, WorkerReads, EndedAlone,
     IdleIsClear, GroupLives, Holders, Kin, Reason
<1>2. ProcInv /\ [Next]_vars => ProcInv'
  BY ProcKept, ProcessSteps
<1> QED BY <1>1, <1>2, PTL DEF Spec

\* No process of the group outlives the call that started it, whichever of the limits,
\* the cancellation and the leader's own exit came first.
THEOREM NoProcessIsLeft == Spec => []GroupIsGone
<1>1. ProcInv => GroupIsGone
  BY DEF ProcInv, NoGroup, GroupIsGone, Over
<1> QED BY <1>1, ProcessInvariant, PTL

\* A job that a worker reports has no process left that could write to its transcript.
THEOREM TranscriptIsWhole == Spec => []ReportedIsWhole
<1>1. ProcInv => ReportedIsWhole
  BY DEF ProcInv, ProcTypeOK, ReaderKnows, WorkerReads, ReportedIsWhole
<1> QED BY <1>1, ProcessInvariant, PTL

\* A run without a reason to stop ended by itself and within its limits.
THEOREM SuccessIsWithinLimits == Spec => UnstoppedIsWithinLimits
<1> DEFINE Whole == phase # "returned" /\ phase' = "returned" /\ stopped' = "none" =>
                      leader' \in {"exited", "none"} /\ reader # "full" /\ ~scratch
<1>1. ASSUME ProcInv, ProcNext PROVE [Whole]_procVars
  <2> USE DEF ProcInv, ProcTypeOK, Goes
  <2>1. CASE StartProcess
    BY <1>1, <2>1 DEF StartProcess, Withdrawn, IdleIsClear
  <2>2. CASE Return
    BY <1>1, <2>2 DEF Return, Confirmed, LateReason, EndedAlone, WorkerReads, IdleIsClear, Runner
  <2>3. CASE Poll \/ Check \/ Kill \/ Sweep \/ Join \/ ChildStep \/ Clear \/ UNCHANGED procVars
    BY <2>3 DEF Poll, Check, Kill, Sweep, Join, ChildStep, LeaderExits, Fork, KinExits, FillScratch,
       TimePasses, CancelSet, ReaderEnds, ReaderFills, Clear, procVars
  <2> QED BY <1>1, <2>1, <2>2, <2>3 DEF ProcNext, OwnerStep
<1>2. ProcInv /\ [Next]_vars => [Whole]_procVars
  BY <1>1, ProcessSteps
<1> QED BY <1>2, ProcessInvariant, PTL DEF Spec, UnstoppedIsWithinLimits

-----------------------------------------------------------------------------
(* Clients and their locks.                                                *)

Place == {"idle", "want", "locked", "backup", "write", "prune", "snapshot", "execute", "watch", "receipt"}
ClientState ==
    [op: Operation \cup {"none"}, pc: Place, text: Text \cup {None}, lesson: Lesson \cup {None},
     at: 0 .. MaxOps, seen: SUBSET (Lesson \cup 1 .. MaxOps)]
ClientTypeOK == client \in [Client -> ClientState]

\* What the client that moves and the others are after a step.
LEMMA StepMoves ==
  ASSUME ClientTypeOK, NEW c \in Client, NEW pc \in Place, Step(c, pc)
  PROVE  /\ ClientTypeOK'
         /\ client'[c] = [client[c] EXCEPT !.pc = pc]
         /\ client'[c].pc = pc /\ client'[c].op = client[c].op /\ client'[c].seen = client[c].seen
         /\ client'[c].at = client[c].at /\ client'[c].lesson = client[c].lesson
         /\ client'[c].text = client[c].text
         /\ \A d \in Client \ {c} : client'[d] = client[d]
BY DEF ClientTypeOK, ClientState, Step

\* An operation that ends leaves an idle client.
LEMMA EndClears ==
  ASSUME ClientTypeOK, NEW c \in Client, Ends(c)
  PROVE  /\ ClientTypeOK'
         /\ client'[c] = Idle /\ client'[c].pc = "idle" /\ client'[c].op = "none"
         /\ \A d \in Client \ {c} : client'[d] = client[d]
BY WorkBounds DEF ClientTypeOK, ClientState, Ends, Idle, Place

FileTypeOK ==
    /\ pad \in Text \cup {None}
    /\ history \in [Text -> {"absent", "partial", "whole"}]
    /\ done \subseteq Lesson
    /\ records \subseteq 1 .. MaxOps
    /\ lock \in [File -> Client \cup {None}]
    /\ running \in Client \cup {None}
    /\ ops \in 0 .. MaxOps /\ faults \in 0 .. MaxFaults

\* Whoever works on a file holds its lock.
AtWork == {"locked", "backup", "write", "prune"}
Holding == \A c \in Client : client[c].pc \in AtWork => lock[FileOf[client[c].op]] = c

\* What a client brings with its operation.
ClientKnows ==
    \A c \in Client : client[c].pc # "idle" =>
        /\ client[c].op \in Operation
        /\ client[c].op = "observe" => client[c].at \in 1 .. MaxOps
        /\ client[c].op \in {"complete", "incomplete"} => client[c].lesson \in Lesson

\* Who backs the pad up has begun to; who replaces it has its text in the history.
PadKnown ==
    \A c \in Client :
        /\ At(c, {"save", "run"}, "backup") => pad # None
        /\ At(c, {"save", "run"}, "write") =>
             pad \in {None, client[c].text} \/ history[pad] = "whole"

\* Who writes the progress file has read what is still in it.
ProgressKnown ==
    \A c \in Client : At(c, {"complete", "incomplete"}, "write") => client[c].seen = done

FileInv == FileTypeOK /\ ClientTypeOK /\ Holding /\ ClientKnows /\ PadKnown /\ ProgressKnown

\* The operations and the files they are on.
LEMMA Files ==
  /\ Operation = {"save", "run", "complete", "incomplete", "observe"}
  /\ FileOf["save"] = "pad" /\ FileOf["run"] = "pad" /\ FileOf["complete"] = "progress"
  /\ FileOf["incomplete"] = "progress" /\ FileOf["observe"] = "browser"
BY DEF Operation, FileOf

\* A step of one client that touches no file, takes no lock and leaves it away from the
\* files disturbs nothing that the others know.
LEMMA QuietStep ==
  ASSUME FileInv, NEW c \in Client, ClientTypeOK',
         \A d \in Client \ {c} : client'[d] = client[d],
         client'[c].pc \notin AtWork,
         \A f \in File : lock[f] # c => lock'[f] = lock[f],
         pad' = pad, history' = history, done' = done
  PROVE  Holding' /\ PadKnown' /\ ProgressKnown'
<1>1. Holding'
  BY Files DEF FileInv, Holding, ClientKnows, AtWork, File
<1>2. PadKnown'
  BY DEF FileInv, PadKnown, At, AtWork
<1>3. ProgressKnown'
  BY DEF FileInv, ProgressKnown, At, AtWork
<1> QED BY <1>1, <1>2, <1>3

\* An operation that ends, with or without an error, before it has changed a file.
LEMMA FinishKeeps ==
  ASSUME FileInv, NEW c \in Client, Finishes(c), pad' = pad, history' = history, done' = done
  PROVE  /\ ClientTypeOK' /\ Holding' /\ ClientKnows' /\ PadKnown' /\ ProgressKnown'
         /\ lock' \in [File -> Client \cup {None}] /\ running' \in Client \cup {None}
<1>1. /\ ClientTypeOK' /\ client'[c].pc = "idle"
      /\ \A d \in Client \ {c} : client'[d] = client[d]
  BY EndClears DEF FileInv, Finishes
<1>2. \A f \in File : lock[f] # c => lock'[f] = lock[f]
  BY DEF Finishes, Releases, FileInv, FileTypeOK
<1>3. Holding' /\ PadKnown' /\ ProgressKnown'
  BY <1>1, <1>2, QuietStep DEF AtWork
<1>4. ClientKnows'
  BY <1>1 DEF FileInv, ClientKnows
<1>5. lock' \in [File -> Client \cup {None}] /\ running' \in Client \cup {None}
  BY DEF FileInv, FileTypeOK, Finishes, Releases, StopsRunning
<1> QED BY <1>1, <1>3, <1>4, <1>5

\* A client that only moves on: what it knows of its operation stays.
LEMMA MoveKnows ==
  ASSUME FileInv, NEW c \in Client, client[c].pc # "idle", ClientTypeOK',
         client'[c].op = client[c].op, client'[c].at = client[c].at,
         client'[c].lesson = client[c].lesson,
         \A d \in Client \ {c} : client'[d] = client[d]
  PROVE  ClientKnows'
BY DEF FileInv, ClientKnows

LEMMA BeginKeeps ==
  ASSUME FileInv, NEW c \in Client, NEW op \in Operation, Begin(c, op) PROVE FileInv'
<1>1. PICK t \in Text, l \in Lesson :
        client' = [client EXCEPT ![c] =
            [Idle EXCEPT !.op = op, !.pc = "want",
                         !.at = IF op = "observe" THEN ops + 1 ELSE 0,
                         !.text = IF FileOf[op] = "pad" THEN t ELSE None,
                         !.lesson = IF FileOf[op] = "progress" THEN l ELSE None]]
  BY DEF Begin
<1> DEFINE at == IF op = "observe" THEN ops + 1 ELSE 0
           text == IF FileOf[op] = "pad" THEN t ELSE None
           lesson == IF FileOf[op] = "progress" THEN l ELSE None
           new == [Idle EXCEPT !.op = op, !.pc = "want", !.at = at, !.text = text, !.lesson = lesson]
<1>2. client' = [client EXCEPT ![c] = new]
  BY <1>1
<1>3. ops \in Nat /\ MaxOps \in Nat /\ ops < MaxOps
  BY WorkBounds DEF Begin, FileInv, FileTypeOK
<1>4. at \in 0 .. MaxOps /\ (op = "observe" => at \in 1 .. MaxOps)
  BY <1>3
<1>5. text \in Text \cup {None} /\ lesson \in Lesson \cup {None}
      /\ (op \in {"complete", "incomplete"} => lesson \in Lesson)
  BY Files
<1> HIDE DEF at, text, lesson
<1>6. /\ new \in ClientState /\ new.op = op /\ new.pc = "want" /\ new.at = at /\ new.lesson = lesson
  BY <1>4, <1>5 DEF ClientState, Place, Idle
<1> HIDE DEF new
<1>7. /\ ClientTypeOK' /\ client'[c] = new
      /\ \A d \in Client \ {c} : client'[d] = client[d]
  BY <1>2, <1>6 DEF FileInv, ClientTypeOK
<1>8. Holding' /\ PadKnown' /\ ProgressKnown'
  <2>1. client'[c].pc = "want"
    BY <1>6, <1>7
  <2> QED BY <1>7, <2>1, QuietStep DEF Begin, fileVars, AtWork
<1>9. ClientKnows'
  BY <1>4, <1>5, <1>6, <1>7 DEF FileInv, ClientKnows
<1>10. FileTypeOK'
  BY <1>3 DEF FileInv, FileTypeOK, Begin, fileVars
<1> QED BY <1>7, <1>8, <1>9, <1>10 DEF FileInv

LEMMA AcquireKeeps ==
  ASSUME FileInv, NEW c \in Client, Acquire(c) PROVE FileInv'
<1> DEFINE f == FileOf[client[c].op]
<1>1. client[c].pc = "want" /\ lock[f] = None /\ client[c].op \in Operation
  BY DEF Acquire, FileInv, ClientKnows
<1>2. f \in File
  BY <1>1, Files DEF File
<1>3. /\ ClientTypeOK' /\ client'[c].pc = "locked" /\ client'[c].op = client[c].op
      /\ client'[c].at = client[c].at /\ client'[c].lesson = client[c].lesson
      /\ \A d \in Client \ {c} : client'[d] = client[d]
  BY StepMoves DEF Acquire, FileInv, Place
<1>4. FileTypeOK'
  BY <1>2 DEF FileInv, FileTypeOK, Acquire, fileVars
<1>5. Holding'
  <2>1. lock'[f] = c /\ \A g \in File \ {f} : lock'[g] = lock[g]
    BY <1>2 DEF Acquire, FileInv, FileTypeOK
  <2>2. ASSUME NEW d \in Client, client'[d].pc \in AtWork PROVE lock'[FileOf[client'[d].op]] = d
    <3>1. CASE d = c
      BY <1>3, <2>1, <3>1
    <3>2. CASE d # c
      <4>1. /\ client'[d] = client[d] /\ lock[FileOf[client[d].op]] = d
            /\ client[d].op \in Operation
        BY <1>3, <2>2, <3>2 DEF FileInv, Holding, ClientKnows, AtWork
      <4>2. FileOf[client[d].op] \in File \ {f}
        BY <1>1, <4>1, Files, NoneAssumption DEF File
      <4> QED BY <2>1, <4>1, <4>2
    <3> QED BY <3>1, <3>2
  <2> QED BY <2>2 DEF Holding
<1>6. ClientKnows'
  BY <1>1, <1>3, MoveKnows
<1>7. PadKnown' /\ ProgressKnown'
  BY <1>3 DEF Acquire, fileVars, FileInv, PadKnown, ProgressKnown, At
<1> QED BY <1>3, <1>4, <1>5, <1>6, <1>7 DEF FileInv

\* The one client that works on a file.
LEMMA OneHolder ==
  ASSUME FileInv, NEW c \in Client, NEW d \in Client, client[c].pc \in AtWork, client[d].pc \in AtWork,
         FileOf[client[c].op] = FileOf[client[d].op]
  PROVE  c = d
BY DEF FileInv, Holding

\* A client that works on a file and goes on working on it, with no lock changing hands.
LEMMA WorkerHolds ==
  ASSUME FileInv, NEW c \in Client, client[c].pc \in AtWork, client'[c].op = client[c].op,
         \A d \in Client \ {c} : client'[d] = client[d], lock' = lock
  PROVE  Holding'
<1> SUFFICES ASSUME NEW d \in Client, client'[d].pc \in AtWork
             PROVE  lock'[FileOf[client'[d].op]] = d
  BY DEF Holding
<1>1. CASE d = c
  BY <1>1 DEF FileInv, Holding
<1>2. CASE d # c
  BY <1>2 DEF FileInv, Holding
<1> QED BY <1>1, <1>2

LEMMA BackUpKeeps ==
  ASSUME FileInv, NEW c \in Client, BackUp(c) PROVE FileInv'
<1>1. client[c].pc = "locked" /\ client[c].op \in {"save", "run"} /\ pad' = pad /\ done' = done
  BY DEF BackUp, At
<1>2. CASE Backup(c) \in {"unneeded", "whole"} /\ Step(c, "write")
           /\ UNCHANGED <<history, lock, running>>
  <2>1. /\ ClientTypeOK' /\ client'[c].pc = "write" /\ client'[c].op = client[c].op
        /\ client'[c].at = client[c].at /\ client'[c].lesson = client[c].lesson
        /\ client'[c].text = client[c].text
        /\ \A d \in Client \ {c} : client'[d] = client[d]
    BY <1>2, StepMoves DEF FileInv, Place
  <2>2. FileTypeOK'
    BY <1>2 DEF FileInv, FileTypeOK, BackUp
  <2>3. Holding'
    BY <1>1, <1>2, <2>1, WorkerHolds DEF AtWork
  <2>4. ClientKnows'
    BY <1>1, <2>1, MoveKnows
  <2>5. pad \in {None, client[c].text} \/ history[pad] = "whole"
    BY <1>2 DEF Backup, FileInv, FileTypeOK
  <2>6. PadKnown' /\ ProgressKnown'
    BY <1>1, <1>2, <2>1, <2>5 DEF FileInv, PadKnown, ProgressKnown, At
  <2> QED BY <2>1, <2>2, <2>3, <2>4, <2>6 DEF FileInv
<1>3. CASE /\ Backup(c) = "absent" /\ history' = [history EXCEPT ![pad] = "partial"]
           /\ Step(c, "backup") /\ UNCHANGED <<lock, running>>
  <2>1. /\ ClientTypeOK' /\ client'[c].pc = "backup" /\ client'[c].op = client[c].op
        /\ client'[c].at = client[c].at /\ client'[c].lesson = client[c].lesson
        /\ \A d \in Client \ {c} : client'[d] = client[d]
    BY <1>3, StepMoves DEF FileInv, Place
  <2>2. FileTypeOK'
    BY <1>3 DEF FileInv, FileTypeOK, BackUp
  <2>3. Holding'
    BY <1>1, <1>3, <2>1, WorkerHolds DEF AtWork
  <2>4. ClientKnows'
    BY <1>1, <2>1, MoveKnows
  <2>5. pad # None
    BY <1>3 DEF Backup
  <2>6. \A d \in Client \ {c} : ~At(d, {"save", "run"}, "write")
    BY <1>1, OneHolder, Files DEF At, AtWork
  <2>7. PadKnown' /\ ProgressKnown'
    BY <1>1, <2>1, <2>5, <2>6 DEF FileInv, PadKnown, ProgressKnown, At
  <2> QED BY <2>1, <2>2, <2>3, <2>4, <2>7 DEF FileInv
<1>4. CASE Finishes(c) /\ UNCHANGED history
  <2>1. FileTypeOK'
    BY <1>4, FinishKeeps DEF FileInv, FileTypeOK, BackUp
  <2> QED BY <1>1, <1>4, <2>1, FinishKeeps DEF FileInv
<1> QED BY <1>2, <1>3, <1>4 DEF BackUp

LEMMA FinishBackUpKeeps ==
  ASSUME FileInv, NEW c \in Client, FinishBackUp(c) PROVE FileInv'
<1>1. client[c].pc = "backup" /\ client[c].op \in {"save", "run"} /\ pad' = pad /\ done' = done
      /\ lock' = lock /\ pad \in Text
  BY DEF FinishBackUp, At, FileInv, PadKnown, FileTypeOK
<1>2. /\ ClientTypeOK' /\ client'[c].pc = "write" /\ client'[c].op = client[c].op
      /\ client'[c].at = client[c].at /\ client'[c].lesson = client[c].lesson
      /\ \A d \in Client \ {c} : client'[d] = client[d]
  BY StepMoves DEF FinishBackUp, FileInv, Place
<1>3. FileTypeOK' /\ history'[pad] = "whole"
  BY <1>1 DEF FileInv, FileTypeOK, FinishBackUp
<1>4. Holding'
  BY <1>1, <1>2, WorkerHolds DEF AtWork
<1>5. ClientKnows'
  BY <1>1, <1>2, MoveKnows
<1>6. PadKnown' /\ ProgressKnown'
  BY <1>1, <1>2, <1>3 DEF FileInv, PadKnown, ProgressKnown, At
<1> QED BY <1>2, <1>3, <1>4, <1>5, <1>6 DEF FileInv

LEMMA ReplaceKeeps ==
  ASSUME FileInv, NEW c \in Client, Replace(c) PROVE FileInv'
<1>1. client[c].pc = "write" /\ client[c].op \in {"save", "run"} /\ done' = done /\ history' = history
      /\ pad' = client[c].text
  BY DEF Replace, At
<1>2. /\ ClientTypeOK' /\ client'[c].pc \in {"idle", "snapshot"}
      /\ \A d \in Client \ {c} : client'[d] = client[d]
      /\ \/ client'[c].pc = "idle"
         \/ client'[c].op = client[c].op /\ client'[c].at = client[c].at
            /\ client'[c].lesson = client[c].lesson
  BY StepMoves, EndClears DEF Replace, FileInv, Place
<1>3. FileTypeOK'
  BY <1>1 DEF FileInv, FileTypeOK, Replace, Releases, ClientTypeOK, ClientState
<1>4. Holding'
  <2>1. \A f \in File : lock[f] # c => lock'[f] = lock[f]
    BY DEF Replace, Releases, FileInv, FileTypeOK
  <2> QED BY <1>2, <2>1, Files DEF FileInv, Holding, ClientKnows, AtWork, File
<1>5. ClientKnows'
  BY <1>1, <1>2 DEF FileInv, ClientKnows
<1>6. \A d \in Client \ {c} : ~At(d, {"save", "run"}, "write") /\ ~At(d, {"save", "run"}, "backup")
  BY <1>1, OneHolder, Files DEF At, AtWork
<1>7. PadKnown' /\ ProgressKnown'
  BY <1>1, <1>2, <1>6 DEF FileInv, PadKnown, ProgressKnown, At
<1> QED BY <1>2, <1>3, <1>4, <1>5, <1>7 DEF FileInv

LEMMA ReadProgressKeeps ==
  ASSUME FileInv, NEW c \in Client, ReadProgress(c) PROVE FileInv'
<1>1. client[c].pc = "locked" /\ client[c].op \in {"complete", "incomplete"} /\ UNCHANGED fileVars
      /\ lock' = lock /\ client' = [client EXCEPT ![c].pc = "write", ![c].seen = done]
  BY DEF ReadProgress, At
<1>2. done \in SUBSET (Lesson \cup 1 .. MaxOps)
  BY DEF FileInv, FileTypeOK
<1>3. /\ ClientTypeOK' /\ client'[c].pc = "write" /\ client'[c].op = client[c].op
      /\ client'[c].at = client[c].at /\ client'[c].lesson = client[c].lesson
      /\ client'[c].seen = done /\ \A d \in Client \ {c} : client'[d] = client[d]
  BY ZenonT(40), <1>1, <1>2 DEF FileInv, ClientTypeOK, ClientState, Place
<1>4. FileTypeOK'
  BY DEF FileInv, FileTypeOK, ReadProgress, fileVars
<1>5. Holding'
  BY <1>1, <1>3, WorkerHolds DEF AtWork
<1>6. ClientKnows'
  BY <1>1, <1>3, MoveKnows
<1>7. PadKnown' /\ ProgressKnown'
  BY ZenonT(40), <1>1, <1>3 DEF FileInv, PadKnown, ProgressKnown, At, fileVars
<1> QED BY <1>3, <1>4, <1>5, <1>6, <1>7 DEF FileInv

LEMMA WriteProgressKeeps ==
  ASSUME FileInv, NEW c \in Client, WriteProgress(c) PROVE FileInv'
<1>1. client[c].pc = "write" /\ client[c].op \in {"complete", "incomplete"}
      /\ Finishes(c) /\ UNCHANGED <<pad, history, records, ops, faults>>
  BY DEF WriteProgress, At
<1>2. /\ ClientTypeOK' /\ client'[c].pc = "idle"
      /\ \A d \in Client \ {c} : client'[d] = client[d]
  BY <1>1, EndClears DEF FileInv, Finishes
<1>3. FileTypeOK'
  <2>1. client[c].seen = done /\ client[c].lesson \in Lesson /\ done \subseteq Lesson
    BY <1>1 DEF FileInv, FileTypeOK, ProgressKnown, ClientKnows, At
  <2>2. done' \subseteq Lesson
    BY <2>1 DEF WriteProgress
  <2>3. lock' \in [File -> Client \cup {None}] /\ running' \in Client \cup {None}
    BY <1>1 DEF FileInv, FileTypeOK, Finishes, Releases, StopsRunning
  <2> QED BY <1>1, <2>2, <2>3 DEF FileInv, FileTypeOK
<1>4. Holding'
  <2>1. \A f \in File : lock[f] # c => lock'[f] = lock[f]
    BY <1>1 DEF Finishes, Releases, FileInv, FileTypeOK
  <2> QED BY <1>2, <2>1, Files DEF FileInv, Holding, ClientKnows, AtWork, File
<1>5. ClientKnows'
  BY <1>2 DEF FileInv, ClientKnows
<1>6. \A d \in Client \ {c} : ~At(d, {"complete", "incomplete"}, "write")
  BY <1>1, OneHolder, Files DEF At, AtWork
<1>7. PadKnown' /\ ProgressKnown'
  BY <1>1, <1>2, <1>6 DEF FileInv, PadKnown, ProgressKnown, At
<1> QED BY <1>2, <1>3, <1>4, <1>5, <1>7 DEF FileInv

\* The three steps of an observation.
LEMMA ObserveKeeps ==
  ASSUME FileInv, NEW c \in Client, ListRecords(c) \/ WriteRecord(c) \/ Prune(c) PROVE FileInv'
<1>1. client[c].op = "observe" /\ client[c].pc \in AtWork /\ client[c].pc # "idle"
      /\ pad' = pad /\ history' = history /\ done' = done
  BY DEF ListRecords, WriteRecord, Prune, At, AtWork, fileVars
<1>2. CASE ListRecords(c)
  <2>1. client' = [client EXCEPT ![c].pc = "write", ![c].seen = records]
        /\ records \in SUBSET (Lesson \cup 1 .. MaxOps)
    BY <1>2 DEF ListRecords, FileInv, FileTypeOK
  <2>2. /\ ClientTypeOK' /\ client'[c].op = client[c].op /\ client'[c].at = client[c].at
        /\ client'[c].lesson = client[c].lesson /\ \A d \in Client \ {c} : client'[d] = client[d]
    BY ZenonT(40), <2>1 DEF FileInv, ClientTypeOK, ClientState, Place
  <2>3. FileTypeOK' /\ Holding'
    BY <1>1, <1>2, <2>2, WorkerHolds DEF FileInv, FileTypeOK, ListRecords, fileVars
  <2>4. ClientKnows'
    BY <1>1, <2>2, MoveKnows
  <2>5. PadKnown' /\ ProgressKnown'
    BY <1>1, <2>2 DEF FileInv, PadKnown, ProgressKnown, At
  <2> QED BY <2>2, <2>3, <2>4, <2>5 DEF FileInv
<1>3. CASE WriteRecord(c)
  <2>1. Step(c, "prune") /\ "prune" \in Place /\ ClientTypeOK
    BY <1>3 DEF WriteRecord, Step, Place, FileInv
  <2>2. /\ ClientTypeOK' /\ client'[c].op = client[c].op /\ client'[c].at = client[c].at
        /\ client'[c].lesson = client[c].lesson /\ \A d \in Client \ {c} : client'[d] = client[d]
    BY <2>1, StepMoves
  <2>3. FileTypeOK' /\ Holding'
    <3>1. client[c].at \in 1 .. MaxOps
      BY <1>1 DEF FileInv, ClientKnows
    <3> QED BY <1>1, <1>3, <2>2, <3>1, WorkerHolds DEF FileInv, FileTypeOK, WriteRecord
  <2>4. ClientKnows'
    BY <1>1, <2>2, MoveKnows
  <2>5. PadKnown' /\ ProgressKnown'
    BY <1>1, <2>2 DEF FileInv, PadKnown, ProgressKnown, At
  <2> QED BY <2>2, <2>3, <2>4, <2>5 DEF FileInv
<1>4. CASE Prune(c)
  <2>1. records' \subseteq records
    BY <1>4 DEF Prune
  <2>2. CASE Finishes(c)
    BY <1>1, <1>4, <2>1, <2>2, FinishKeeps DEF FileInv, FileTypeOK, Prune
  <2>3. CASE UNCHANGED <<client, lock, running>>
    BY <1>1, <1>4, <2>1, <2>3 DEF FileInv, FileTypeOK, ClientTypeOK, Holding, ClientKnows, PadKnown,
       ProgressKnown, At, Prune
  <2> QED BY <1>4, <2>2, <2>3 DEF Prune
<1> QED BY <1>2, <1>3, <1>4

\* The steps of a run away from the files, and a write that fails.
LEMMA RunKeeps ==
  ASSUME FileInv, NEW c \in Client,
         Snapshot(c) \/ Execute(c) \/ Executed(c) \/ Record(c) \/ WriteFails(c)
  PROVE  FileInv'
<1>1. UNCHANGED <<fileVars, ops>> /\ client[c].pc # "idle" /\ (faults' = faults \/ Fault)
  BY DEF Snapshot, Execute, Executed, Record, WriteFails, At
<1>2. faults' \in 0 .. MaxFaults
  BY <1>1, WorkBounds DEF Fault, FileInv, FileTypeOK
<1>3. CASE Finishes(c)
  BY <1>1, <1>2, <1>3, FinishKeeps DEF FileInv, FileTypeOK, fileVars
<1>4. ASSUME NEW pc \in {"execute", "watch", "receipt"}, Step(c, pc), UNCHANGED <<lock, running>>
      PROVE  FileInv'
  <2>1. /\ ClientTypeOK' /\ client'[c].pc = pc /\ client'[c].op = client[c].op
        /\ client'[c].at = client[c].at /\ client'[c].lesson = client[c].lesson
        /\ \A d \in Client \ {c} : client'[d] = client[d]
    BY <1>4, StepMoves DEF FileInv, Place
  <2>2. ClientKnows'
    BY <1>1, <2>1, MoveKnows
  <2>3. Holding' /\ PadKnown' /\ ProgressKnown'
    BY <1>1, <1>4, <2>1, QuietStep DEF AtWork, fileVars
  <2>4. FileTypeOK'
    BY <1>1, <1>2, <1>4 DEF FileInv, FileTypeOK, fileVars
  <2> QED BY <2>1, <2>2, <2>3, <2>4 DEF FileInv
<1> QED BY <1>3, <1>4 DEF Snapshot, Execute, Executed, Record, WriteFails

LEMMA CrashKeeps == ASSUME FileInv, Crash PROVE FileInv'
<1>1. PICK dead \in SUBSET {c \in Client : client[c].pc # "idle"} :
        /\ client' = [c \in Client |-> IF c \in dead THEN Idle ELSE client[c]]
        /\ lock' = [f \in File |-> IF lock[f] \in dead THEN None ELSE lock[f]]
        /\ running' = IF running \in dead THEN None ELSE running
  BY DEF Crash
<1>2. Idle \in ClientState /\ Idle.pc = "idle"
  BY WorkBounds DEF Idle, ClientState, Place
<1>3. /\ ClientTypeOK'
      /\ \A d \in Client : (client'[d] = client[d] /\ d \notin dead) \/ client'[d].pc = "idle"
  BY <1>1, <1>2 DEF FileInv, ClientTypeOK
<1>4. FileTypeOK'
  <2>1. faults' \in 0 .. MaxFaults
    BY WorkBounds DEF Crash, Fault, FileInv, FileTypeOK
  <2> QED BY <1>1, <2>1 DEF Crash, FileInv, FileTypeOK, fileVars
<1>5. Holding'
  BY <1>1, <1>3, Files DEF FileInv, Holding, ClientKnows, AtWork, File
<1>6. ClientKnows' /\ PadKnown' /\ ProgressKnown'
  BY <1>3 DEF Crash, fileVars, FileInv, ClientKnows, PadKnown, ProgressKnown, At
<1> QED BY <1>3, <1>4, <1>5, <1>6 DEF FileInv

\* Every step keeps what the clients know of the files.
LEMMA FilesKept == ASSUME FileInv, [Next]_vars PROVE FileInv'
<1>1. ASSUME NEW c \in Client, ClientStep(c) \/ WriteFails(c) PROVE FileInv'
  BY <1>1, AcquireKeeps, BackUpKeeps, FinishBackUpKeeps, ReplaceKeeps, ReadProgressKeeps,
     WriteProgressKeeps, ObserveKeeps, RunKeeps DEF ClientStep
<1>2. ASSUME NEW c \in Client, NEW op \in Operation, Begin(c, op) PROVE FileInv'
  BY <1>2, BeginKeeps
<1>3. CASE Crash
  BY <1>3, CrashKeeps
<1>4. CASE UNCHANGED <<fileVars, lock, client, running, ops, faults>>
  BY <1>4 DEF fileVars, FileInv, FileTypeOK, ClientTypeOK, Holding, ClientKnows, PadKnown, ProgressKnown, At
<1> QED BY <1>1, <1>2, <1>3, <1>4 DEF Next, Process, WorkerJob, vars

-----------------------------------------------------------------------------
(* Theorems about the files.                                               *)

\* Locks, clients and files agree in every reachable state.
THEOREM FileInvariant == Spec => []FileInv
<1>1. Init => FileInv
  <2>1. ASSUME Init PROVE Idle \in ClientState
    BY WorkBounds DEF Idle, ClientState, Place
  <2> QED BY SMTT(30), <2>1, WorkBounds DEF Init, FileInv, FileTypeOK, ClientTypeOK, Holding, ClientKnows, PadKnown,
          ProgressKnown, At, AtWork, Idle
<1>2. FileInv /\ [Next]_vars => FileInv'
  BY FilesKept
<1> QED BY <1>1, <1>2, PTL DEF Spec

\* Files, locks, clients and the process keep their types, for any number of clients,
\* texts, lessons, operations and faults.
THEOREM SavedWorkTypeCorrect == Spec => []TypeOK
<1>1. ProcInv /\ FileInv => TypeOK
  BY DEF ProcInv, FileInv, FileTypeOK, ClientTypeOK, ClientState, Place, TypeOK
<1> QED BY <1>1, ProcessInvariant, FileInvariant, PTL

\* The text a save replaces is whole in the history before it goes, and what is whole in
\* the history stays.
THEOREM SavedTextStays == Spec => SavedTextIsKept
<1> DEFINE Kept == /\ pad' # pad /\ pad # None => history[pad] = "whole"
                   /\ \A t \in Text : history[t] = "whole" => history'[t] = "whole"
<1>1. ASSUME FileInv, [Next]_vars PROVE [Kept]_vars
  <2> USE DEF FileInv, FileTypeOK
  <2>1. ASSUME NEW c \in Client, BackUp(c) PROVE Kept
    <3>1. /\ pad' = pad
          /\ \/ history' = history
             \/ history[pad] = "absent" /\ history' = [history EXCEPT ![pad] = "partial"]
      BY <2>1 DEF BackUp, Backup
    <3> QED BY <3>1, <1>1
  <2>2. ASSUME NEW c \in Client, FinishBackUp(c) PROVE Kept
    BY <2>2 DEF FinishBackUp
  <2>3. ASSUME NEW c \in Client, Replace(c) PROVE Kept
    BY <1>1, <2>3 DEF Replace, PadKnown, At
  <2>4. CASE pad' = pad /\ history' = history
    BY <2>4
  <2>5. ASSUME NEW c \in Client,
               Acquire(c) \/ ReadProgress(c) \/ WriteProgress(c) \/ ListRecords(c) \/ WriteRecord(c)
               \/ Prune(c) \/ Snapshot(c) \/ Execute(c) \/ Executed(c) \/ Record(c) \/ WriteFails(c)
        PROVE  pad' = pad /\ history' = history
    BY <2>5 DEF Acquire, ReadProgress, WriteProgress, ListRecords, WriteRecord, Prune, Snapshot, Execute,
       Executed, Record, WriteFails, fileVars
  <2>6. ASSUME \/ \E c \in Client, op \in Operation : Begin(c, op)
               \/ Crash \/ Process(OwnerStep) \/ Process(ChildStep) \/ WorkerJob \/ UNCHANGED vars
        PROVE  pad' = pad /\ history' = history
    BY <2>6 DEF Begin, Crash, Process, WorkerJob, fileVars, vars
  <2> QED BY <1>1, <2>1, <2>2, <2>3, <2>4, <2>5, <2>6 DEF Next, ClientStep
<1>2. FileInv /\ [Next]_vars => [Kept]_vars
  BY <1>1
<1> QED BY <1>2, FileInvariant, PTL DEF Spec, SavedTextIsKept

\* A step changes at most its own lesson in the progress file, whatever other clients
\* and processes write to it.
THEOREM UpdatesStay == Spec => UpdatesAreKept
<1> DEFINE Own == \E l \in Lesson : done' \in {done \cup {l}, done \ {l}}
<1>1. ASSUME FileInv, [Next]_vars PROVE [Own]_done
  <2>1. ASSUME NEW c \in Client, WriteProgress(c) PROVE Own
    <3>1. client[c].seen = done /\ client[c].lesson \in Lesson
      BY <1>1, <2>1 DEF WriteProgress, FileInv, ProgressKnown, ClientKnows, At
    <3> QED BY <2>1, <3>1 DEF WriteProgress
  <2>2. ASSUME NEW c \in Client,
               Acquire(c) \/ BackUp(c) \/ FinishBackUp(c) \/ Replace(c) \/ ReadProgress(c)
               \/ ListRecords(c) \/ WriteRecord(c) \/ Prune(c) \/ Snapshot(c) \/ Execute(c)
               \/ Executed(c) \/ Record(c) \/ WriteFails(c)
        PROVE  done' = done
    BY <2>2 DEF Acquire, BackUp, FinishBackUp, Replace, ReadProgress, ListRecords, WriteRecord, Prune,
       Snapshot, Execute, Executed, Record, WriteFails, fileVars
  <2>3. ASSUME \/ \E c \in Client, op \in Operation : Begin(c, op)
               \/ Crash \/ Process(OwnerStep) \/ Process(ChildStep) \/ WorkerJob \/ UNCHANGED vars
        PROVE  done' = done
    BY <2>3 DEF Begin, Crash, Process, WorkerJob, fileVars, vars
  <2> QED BY <1>1, <2>1, <2>2, <2>3 DEF Next, ClientStep
<1>2. FileInv /\ [Next]_vars => [Own]_done
  BY <1>1
<1> QED BY <1>2, FileInvariant, PTL DEF Spec, UpdatesAreKept

-----------------------------------------------------------------------------
(* The observations.                                                       *)

\* Operations are stamped in the order they begin, each with a time of its own.
StampsDiffer ==
    /\ records \subseteq 1 .. ops
    /\ \A c \in Client : client[c].op = "observe" =>
         /\ client[c].at \in 1 .. ops
         /\ \A d \in Client \ {c} : client[d].op = "observe" => client[d].at # client[c].at

\* What is left when those of seen go that have Limit - 1 newer ones in it.
Newest(seen) == {r \in seen : Cardinality(Newer(r, seen)) < Limit - 1}

\* A record is listed by nobody before it is written; who prunes still has the newest of
\* what it listed, and its own record is not among them.
RecordsKnown ==
    \A c \in Client : client[c].op = "observe" =>
        /\ client[c].pc # "prune" => client[c].at \notin records
        /\ client[c].pc = "write" => client[c].seen = records
        /\ client[c].pc = "prune" =>
             /\ client[c].seen \subseteq 1 .. ops
             /\ client[c].at \notin client[c].seen
             /\ Newest(client[c].seen) \subseteq records

ObserveInv == StampsDiffer /\ RecordsKnown

\* What is newer than an observation, among finitely many, orders them.
LEMMA NewerOrders ==
  ASSUME NEW n \in Nat, NEW E \in SUBSET (1 .. n)
  PROVE  IsFiniteSet(E) /\ Orders([r \in E |-> Newer(r, E)], E)
<1> DEFINE after == [r \in E |-> Newer(r, E)]
<1>1. IsFiniteSet(1 .. n)
  BY FS_Interval
<1>2. IsFiniteSet(E)
  BY <1>1, FS_Subset
<1>3. E \subseteq Int
  OBVIOUS
<1>4. after \in [E -> SUBSET E] /\ \A r \in E : after[r] = {s \in E : s > r}
  BY DEF Newer
<1> HIDE DEF after
<1>5. \A r \in E : r \notin after[r]
  BY <1>3, <1>4
<1>6. ASSUME NEW r \in E, NEW s \in E, s \in after[r] PROVE after[s] \subseteq after[r]
  <2>1. SUFFICES ASSUME NEW t \in after[s] PROVE t \in after[r]
    OBVIOUS
  <2>2. t \in E /\ t > s /\ s > r
    BY <1>4, <1>6, <2>1
  <2>3. t > r
    BY <1>3, <2>2
  <2> QED BY <1>4, <2>2, <2>3
<1>7. \A r \in E, s \in E : r # s => s \in after[r] \/ r \in after[s]
  BY <1>3, <1>4
<1>8. Orders(after, E)
  BY <1>4, <1>5, <1>6, <1>7 DEF Orders
<1> QED BY <1>2, <1>8 DEF after

\* An observation that is surplus among those listed has the newest of them above it,
\* and they are Limit - 1.
LEMMA SurplusHasNewer ==
  ASSUME NEW n \in Nat, NEW seen \in SUBSET (1 .. n), NEW r \in seen,
         Cardinality(Newer(r, seen)) >= Limit - 1
  PROVE  Cardinality(Newest(seen)) = Limit - 1 /\ Newest(seen) \subseteq Newer(r, seen)
<1> DEFINE after == [s \in seen |-> Newer(s, seen)]
<1>1. IsFiniteSet(seen) /\ Orders(after, seen)
  BY NewerOrders
<1>2. Limit - 1 \in Nat
  BY LimitAssumption
<1>3. \A s \in seen : after[s] = Newer(s, seen)
  OBVIOUS
<1> HIDE DEF after
<1>4. Newest(seen) = {s \in seen : Cardinality(after[s]) < Limit - 1}
  BY <1>3 DEF Newest
<1>5. Limit - 1 <= Cardinality(after[r])
  <2>1. Cardinality(after[r]) \in Nat
    BY <1>1, AfterIsCounted
  <2> QED BY <1>2, <1>3, <2>1
<1> QED BY <1>1, <1>2, <1>3, <1>4, <1>5, NewestRemain

\* Among finitely many, what is not surplus is newest.
LEMMA SurplusOrNewest ==
  ASSUME NEW n \in Nat, NEW seen \in SUBSET (1 .. n), NEW r \in seen,
         Cardinality(Newer(r, seen)) >= Limit - 1
  PROVE  r \notin Newest(seen)
<1>1. IsFiniteSet(Newer(r, seen))
  BY NewerOrders, FS_Subset DEF Newer
<1>2. Cardinality(Newer(r, seen)) \in Nat
  BY <1>1, FS_CardinalityType
<1> QED BY <1>2, LimitAssumption DEF Newest

\* A step that leaves the records alone, in which a client keeps what it knows, moves to
\* the lock or gives up.
LEMMA QuietObserve ==
  ASSUME ObserveInv, ops' = ops, records' = records,
         \A c \in Client : \/ client'[c] = client[c]
                           \/ client'[c].op # "observe"
                           \/ /\ client[c].op = "observe" /\ client[c].pc # "prune"
                              /\ client'[c].at = client[c].at
                              /\ \/ client'[c].pc = "locked"
                                 \/ client'[c].pc = "write" /\ client'[c].seen = records
  PROVE  ObserveInv'
<1>1. StampsDiffer'
  BY DEF ObserveInv, StampsDiffer
<1>2. RecordsKnown'
  BY DEF ObserveInv, RecordsKnown, Newest, Newer
<1> QED BY <1>1, <1>2 DEF ObserveInv

LEMMA BeginObserves ==
  ASSUME FileInv, ObserveInv, NEW c \in Client, NEW op \in Operation, Begin(c, op)
  PROVE  ObserveInv'
<1>1. ops \in Nat /\ ops' = ops + 1 /\ records' = records
  BY WorkBounds DEF Begin, FileInv, FileTypeOK, fileVars
<1>2. /\ \A d \in Client \ {c} : client'[d] = client[d]
      /\ client'[c].op = op /\ client'[c].pc = "want"
      /\ op = "observe" => client'[c].at = ops + 1
  BY DEF Begin, FileInv, ClientTypeOK, Idle
<1>3. 1 .. ops \subseteq 1 .. ops' /\ ops + 1 \in 1 .. ops' /\ ops + 1 \notin 1 .. ops
  BY <1>1
<1>4. StampsDiffer'
  <2>1. records' \subseteq 1 .. ops'
    BY <1>1, <1>3 DEF ObserveInv, StampsDiffer
  <2>2. ASSUME NEW d \in Client, client'[d].op = "observe"
        PROVE  /\ client'[d].at \in 1 .. ops'
               /\ \A e \in Client \ {d} : client'[e].op = "observe" => client'[e].at # client'[d].at
    BY <1>2, <1>3, <2>2 DEF ObserveInv, StampsDiffer
  <2> QED BY <2>1, <2>2 DEF StampsDiffer
<1>5. RecordsKnown'
  <2> SUFFICES ASSUME NEW d \in Client, client'[d].op = "observe"
               PROVE  /\ client'[d].pc # "prune" => client'[d].at \notin records'
                      /\ client'[d].pc = "write" => client'[d].seen = records'
                      /\ client'[d].pc = "prune" =>
                           /\ client'[d].seen \subseteq 1 .. ops'
                           /\ client'[d].at \notin client'[d].seen
                           /\ Newest(client'[d].seen) \subseteq records'
    BY DEF RecordsKnown, Newest, Newer
  <2>1. CASE d = c
    BY <1>1, <1>2, <1>3, <2>1 DEF ObserveInv, StampsDiffer
  <2>2. CASE d # c
    BY <1>1, <1>2, <1>3, <2>2 DEF ObserveInv, RecordsKnown
  <2> QED BY <2>1, <2>2
<1> QED BY <1>4, <1>5 DEF ObserveInv

\* Nobody else lists, writes or prunes while a client holds the lock.
LEMMA OthersWait ==
  ASSUME FileInv, NEW c \in Client, client[c].op = "observe", client[c].pc \in AtWork,
         NEW d \in Client \ {c}, client[d].op = "observe"
  PROVE  client[d].pc \notin AtWork
BY OneHolder

LEMMA WriteObserves ==
  ASSUME FileInv, ObserveInv, NEW c \in Client, WriteRecord(c)
  PROVE  ObserveInv'
<1>1. client[c].op = "observe" /\ client[c].pc = "write" /\ ops' = ops
      /\ records' = records \cup {client[c].at}
  BY DEF WriteRecord, At
<1>2. /\ client'[c].op = "observe" /\ client'[c].pc = "prune" /\ client'[c].at = client[c].at
      /\ client'[c].seen = client[c].seen
      /\ \A d \in Client \ {c} : client'[d] = client[d]
  BY <1>1 DEF WriteRecord, FileInv, ClientTypeOK, ClientState
<1>3. StampsDiffer'
  BY <1>1, <1>2 DEF ObserveInv, StampsDiffer
<1>4. RecordsKnown'
  <2> SUFFICES ASSUME NEW d \in Client, client'[d].op = "observe"
               PROVE  /\ client'[d].pc # "prune" => client'[d].at \notin records'
                      /\ client'[d].pc = "write" => client'[d].seen = records'
                      /\ client'[d].pc = "prune" =>
                           /\ client'[d].seen \subseteq 1 .. ops'
                           /\ client'[d].at \notin client'[d].seen
                           /\ Newest(client'[d].seen) \subseteq records'
    BY DEF RecordsKnown, Newest, Newer
  <2>1. CASE d = c
    <3>1. client[c].seen = records /\ client[c].at \notin records /\ records \subseteq 1 .. ops
      BY <1>1 DEF ObserveInv, RecordsKnown, StampsDiffer
    <3> QED BY <1>1, <1>2, <2>1, <3>1 DEF Newest
  <2>2. CASE d # c
    <3>1. client'[d] = client[d] /\ client[d].pc \notin AtWork /\ client[d].at # client[c].at
      BY <1>1, <1>2, <2>2, OthersWait DEF AtWork, ObserveInv, StampsDiffer
    <3> QED BY <1>1, <3>1 DEF AtWork, ObserveInv, RecordsKnown
  <2> QED BY <2>1, <2>2
<1> QED BY <1>3, <1>4 DEF ObserveInv

\* A step of pruning deletes at most one record, which is surplus.
LEMMA PruneDeletes ==
  ASSUME NEW c \in Client, Prune(c)
  PROVE  /\ client[c].op = "observe" /\ client[c].pc = "prune"
         /\ \/ records' = records /\ Finishes(c)
            \/ /\ UNCHANGED client
               /\ \E r \in client[c].seen :
                    /\ Cardinality(Newer(r, client[c].seen)) >= Limit - 1
                    /\ records' = records \ {r}
BY DEF Prune, At, Surplus

LEMMA PruneObserves ==
  ASSUME FileInv, ObserveInv, NEW c \in Client, Prune(c)
  PROVE  ObserveInv'
<1>1. client[c].op = "observe" /\ client[c].pc = "prune" /\ ops' = ops /\ ops \in Nat
  <2>1. ops \in Nat
    BY WorkBounds DEF FileInv, FileTypeOK
  <2> QED BY <2>1, PruneDeletes DEF Prune
<1>2. CASE records' = records /\ Finishes(c)
  <2>1. client'[c].op = "none" /\ \A d \in Client \ {c} : client'[d] = client[d]
    BY <1>2, EndClears DEF Finishes, FileInv
  <2> QED BY <1>1, <1>2, <2>1, QuietObserve
<1>3. CASE UNCHANGED client /\ records' # records
  <2>1. PICK r \in client[c].seen : /\ Cardinality(Newer(r, client[c].seen)) >= Limit - 1
                                    /\ records' = records \ {r}
    BY <1>3, PruneDeletes
  <2>2. client[c].seen \in SUBSET (1 .. ops)
    BY <1>1 DEF ObserveInv, RecordsKnown
  <2>3. r \notin Newest(client[c].seen)
    BY <1>1, <2>1, <2>2, SurplusOrNewest
  <2>4. StampsDiffer'
    BY <1>1, <1>3, <2>1 DEF ObserveInv, StampsDiffer
  <2>5. ASSUME NEW d \in Client, client[d].op = "observe"
        PROVE  /\ client[d].pc # "prune" => client[d].at \notin records'
               /\ client[d].pc = "write" => client[d].seen = records'
               /\ client[d].pc = "prune" =>
                    /\ client[d].seen \subseteq 1 .. ops'
                    /\ client[d].at \notin client[d].seen
                    /\ Newest(client[d].seen) \subseteq records'
    <3>1. CASE d = c
      BY <1>1, <2>1, <2>3, <3>1 DEF ObserveInv, RecordsKnown
    <3>2. CASE d # c
      <4>1. client[d].pc \notin AtWork
        BY <1>1, <2>5, <3>2, OthersWait DEF AtWork
      <4> QED BY <2>1, <2>5, <4>1 DEF AtWork, ObserveInv, RecordsKnown
    <3> QED BY <3>1, <3>2
  <2>6. RecordsKnown'
    BY <1>3, <2>5 DEF RecordsKnown, Newest, Newer
  <2> QED BY <2>4, <2>6 DEF ObserveInv
<1>4. CASE UNCHANGED client /\ records' = records
  BY <1>1, <1>4, QuietObserve
<1> QED BY <1>2, <1>3, <1>4, PruneDeletes

LEMMA StepObserves ==
  ASSUME FileInv, ObserveInv, [Next]_vars
  PROVE  ObserveInv'
<1> USE DEF FileInv
<1>1. ASSUME NEW c \in Client, Acquire(c) \/ ListRecords(c) PROVE ObserveInv'
  <2>1. /\ ops' = ops /\ records' = records
        /\ client'[c].op = client[c].op /\ client'[c].at = client[c].at
        /\ \/ client[c].pc = "want" /\ client'[c].pc = "locked"
           \/ /\ client[c].pc = "locked" /\ client'[c].pc = "write"
              /\ client'[c].seen = records
        /\ \A d \in Client \ {c} : client'[d] = client[d]
    BY <1>1 DEF Acquire, ListRecords, Step, At, ClientTypeOK, ClientState, fileVars
  <2> QED BY <2>1, QuietObserve
<1>2. ASSUME NEW c \in Client,
             \/ BackUp(c) \/ FinishBackUp(c) \/ Replace(c) \/ ReadProgress(c)
             \/ WriteProgress(c) \/ Snapshot(c) \/ Execute(c) \/ Executed(c) \/ Record(c)
      PROVE  ObserveInv'
  <2>1. /\ ops' = ops /\ records' = records /\ client[c].op # "observe"
        /\ client'[c].op \in {client[c].op, "none"}
        /\ \A d \in Client \ {c} : client'[d] = client[d]
    <3>1. ops' = ops /\ records' = records /\ client[c].op # "observe"
      BY <1>2 DEF BackUp, FinishBackUp, Replace, ReadProgress, WriteProgress, Snapshot,
         Execute, Executed, Record, At, fileVars
    <3>2. \/ Ends(c) \/ \E pc \in Place : Step(c, pc)
          \/ client' = [client EXCEPT ![c].pc = "write", ![c].seen = done]
      BY <1>2 DEF BackUp, FinishBackUp, Replace, ReadProgress, WriteProgress, Snapshot,
         Execute, Executed, Record, Finishes, Place
    <3>3. client'[c].op \in {client[c].op, "none"} /\ \A d \in Client \ {c} : client'[d] = client[d]
      BY <3>2, EndClears, StepMoves DEF ClientTypeOK, ClientState
    <3> QED BY <3>1, <3>3
  <2> QED BY <2>1, QuietObserve
<1>3. ASSUME NEW c \in Client, WriteFails(c) PROVE ObserveInv'
  <2>1. /\ ops' = ops /\ records' = records /\ client'[c].op = "none"
        /\ \A d \in Client \ {c} : client'[d] = client[d]
    BY <1>3, EndClears DEF WriteFails, Finishes, fileVars
  <2> QED BY <2>1, QuietObserve
<1>4. CASE Crash
  <2>1. /\ ops' = ops /\ records' = records
        /\ \A d \in Client : client'[d] = client[d] \/ client'[d] = Idle
    BY <1>4 DEF Crash, fileVars
  <2> QED BY <2>1, QuietObserve DEF Idle
<1>5. CASE UNCHANGED <<fileVars, client, ops>>
  BY <1>5, QuietObserve DEF fileVars
<1> QED BY <1>1, <1>2, <1>3, <1>4, <1>5, BeginObserves, WriteObserves, PruneObserves
        DEF Next, ClientStep, Process, WorkerJob, vars

\* Who saves an observation knows what it may delete, in every reachable state.
LEMMA ObserveInvariant == Spec => []ObserveInv
<1>1. Init => ObserveInv
  BY DEF Init, ObserveInv, StampsDiffer, RecordsKnown, Idle
<1>2. FileInv /\ ObserveInv /\ [Next]_vars => ObserveInv'
  BY StepObserves
<1> QED BY <1>1, <1>2, FileInvariant, PTL DEF Spec

\* An observation is deleted only while Limit - 1 newer ones stay beside the one that is
\* being saved, although that one may be older than all of them and although earlier
\* saves may have died before they pruned (browser_runs.py, the loop over the surplus).
THEOREM OldestArePruned == Spec => PrunesOldest
<1> DEFINE Pruned == \A r \in records \ records' :
                       \E c \in Client : At(c, {"observe"}, "prune")
                         /\ Cardinality(Newer(r, records' \ {client[c].at})) >= Limit - 1
<1>1. ASSUME FileInv, ObserveInv, [Next]_vars PROVE [Pruned]_vars
  <2>1. ASSUME NEW c \in Client, Prune(c) PROVE Pruned
    <3> SUFFICES ASSUME NEW r \in records \ records'
                 PROVE  /\ At(c, {"observe"}, "prune")
                        /\ Cardinality(Newer(r, records' \ {client[c].at})) >= Limit - 1
      OBVIOUS
    <3> DEFINE seen == client[c].seen
               left == Newer(r, records' \ {client[c].at})
    <3>1. /\ client[c].op = "observe" /\ client[c].pc = "prune"
          /\ r \in seen /\ Cardinality(Newer(r, seen)) >= Limit - 1 /\ records' = records \ {r}
      BY <2>1, PruneDeletes
    <3>2. /\ ops \in Nat /\ seen \in SUBSET (1 .. ops) /\ client[c].at \notin seen
          /\ Newest(seen) \subseteq records /\ records \subseteq 1 .. ops
      BY <1>1, <3>1 DEF FileInv, FileTypeOK, ObserveInv, RecordsKnown, StampsDiffer
    <3>3. Cardinality(Newest(seen)) = Limit - 1 /\ Newest(seen) \subseteq Newer(r, seen)
      BY <3>1, <3>2, SurplusHasNewer
    <3>4. Newest(seen) \subseteq left
      BY <3>1, <3>2, <3>3 DEF Newer
    <3>5. IsFiniteSet(left)
      <4>1. left \subseteq 1 .. ops
        BY <3>1, <3>2 DEF Newer
      <4>2. IsFiniteSet(1 .. ops)
        BY <3>2, FS_Interval
      <4> HIDE DEF left
      <4> QED BY <4>1, <4>2, FS_Subset
    <3>6. Cardinality(left) >= Limit - 1
      <4>1. Cardinality(Newest(seen)) <= Cardinality(left) /\ Cardinality(left) \in Nat
        BY <3>4, <3>5, FS_Subset, FS_CardinalityType
      <4> QED BY <3>3, <4>1, LimitAssumption
    <3> QED BY <3>1, <3>6 DEF At
  <2>2. ASSUME NEW c \in Client,
               Acquire(c) \/ BackUp(c) \/ FinishBackUp(c) \/ Replace(c) \/ ReadProgress(c)
               \/ WriteProgress(c) \/ ListRecords(c) \/ WriteRecord(c) \/ Snapshot(c)
               \/ Execute(c) \/ Executed(c) \/ Record(c) \/ WriteFails(c)
        PROVE  records \subseteq records'
    BY <2>2 DEF Acquire, BackUp, FinishBackUp, Replace, ReadProgress, WriteProgress,
       ListRecords, WriteRecord, Snapshot, Execute, Executed, Record, WriteFails, fileVars
  <2>3. ASSUME \/ \E c \in Client, op \in Operation : Begin(c, op)
               \/ Crash \/ Process(OwnerStep) \/ Process(ChildStep) \/ WorkerJob \/ UNCHANGED vars
        PROVE  records \subseteq records'
    BY <2>3 DEF Begin, Crash, Process, WorkerJob, fileVars, vars
  <2>4. records \subseteq records' => Pruned
    OBVIOUS
  <2> HIDE DEF Pruned
  <2> QED BY <1>1, <2>1, <2>2, <2>3, <2>4 DEF Next, ClientStep
<1>2. FileInv /\ ObserveInv /\ [Next]_vars => [Pruned]_vars
  BY <1>1
<1> QED BY <1>2, FileInvariant, ObserveInvariant, PTL DEF Spec, PrunesOldest

-----------------------------------------------------------------------------
(* The files keep what LearnerFiles promises: a request takes effect in    *)
(* the one step that changes its file, and every step before or after it   *)
(* is a stutter, a request given up, a text kept or an observation pruned. *)

Before == {"want", "locked", "backup", "write"}
Waiting(s) ==
    IF s.pc \in Before THEN [op |-> s.op, text |-> s.text, lesson |-> s.lesson, at |-> s.at]
    ELSE Learner!Nothing

LEMMA AskedIsWaiting ==
  /\ Asked = [c \in Client |-> Waiting(client[c])]
  /\ Asked' = [c \in Client |-> Waiting(client'[c])]
BY DEF Asked, Waiting, Before, Learner!Nothing

\* What a client of a known type waits for is a request.
LEMMA RequestsAreTyped ==
  ASSUME NEW s \in ClientState, s.pc # "idle" => s.op \in Operation
  PROVE  Waiting(s) \in Learner!Request \cup {Learner!Nothing}
<1> SUFFICES ASSUME s.pc \in Before
             PROVE  Waiting(s) \in Learner!Request
  BY DEF Waiting
<1>1. s.op \in {"save", "run", "complete", "incomplete", "observe"}
  BY Files DEF Before
<1>2. s.text \in Text \cup {None} /\ s.lesson \in Lesson \cup {None} /\ s.at \in 1 .. MaxOps \cup {0}
  BY WorkBounds DEF ClientState
<1> QED BY <1>1, <1>2 DEF Waiting, Learner!Request

\* When one client moves, the requests of the others stay.
LEMMA OneAsks ==
  ASSUME NEW c \in Client, \A d \in Client \ {c} : client'[d] = client[d]
  PROVE  /\ Asked' = [Asked EXCEPT ![c] = Waiting(client'[c])]
         /\ Waiting(client'[c]) = Waiting(client[c]) => Asked' = Asked
BY AskedIsWaiting

\* Clients that end before they have changed a file give up.
LEMMA EndGivesUp ==
  ASSUME NEW dead \in SUBSET Client,
         \A c \in dead : client'[c].pc = "idle",
         \A c \in Client \ dead : client'[c] = client[c],
         UNCHANGED <<pad, Recoverable, done, records>>
  PROVE  Learner!FilesNext
<1>1. Asked' = [c \in Client |-> IF c \in dead THEN Learner!Nothing ELSE Asked[c]]
  BY AskedIsWaiting DEF Waiting, Before
<1>2. Learner!GiveUp(dead)
  BY <1>1 DEF Learner!GiveUp
<1> QED BY <1>2 DEF Learner!FilesNext

\* A request arrives.
LEMMA BeginAsks ==
  ASSUME FileInv, FileInv', NEW c \in Client, NEW op \in Operation, Begin(c, op)
  PROVE  Learner!FilesNext
<1>1. client[c].pc = "idle" /\ \A d \in Client \ {c} : client'[d] = client[d]
  BY DEF Begin, FileInv, ClientTypeOK
<1>2. Asked[c] = Learner!Nothing /\ \A d \in Client \ {c} : Asked'[d] = Asked[d]
  BY <1>1, AskedIsWaiting DEF Waiting, Before
<1>3. Asked' \in [Client -> Learner!Request \cup {Learner!Nothing}]
  <2>1. ASSUME NEW d \in Client
        PROVE  /\ client'[d] \in ClientState
               /\ client'[d].pc # "idle" => client'[d].op \in Operation
    BY DEF FileInv, ClientTypeOK, ClientKnows
  <2>2. \A d \in Client : Waiting(client'[d]) \in Learner!Request \cup {Learner!Nothing}
    BY <2>1, RequestsAreTyped
  <2> QED BY <2>2, AskedIsWaiting
<1>4. UNCHANGED <<pad, Recoverable, done, records>>
  BY DEF Begin, fileVars, Recoverable
<1>5. Learner!Ask(c)
  BY <1>2, <1>3, <1>4 DEF Learner!Ask
<1> QED BY <1>5 DEF Learner!FilesNext

\* A save that finds its text backed up goes on, one that begins a backup has kept
\* nothing yet, and one that finds another text there gives up.
LEMMA BackUpIsSeen ==
  ASSUME FileInv, NEW c \in Client, BackUp(c)
  PROVE  Learner!FilesNext \/ UNCHANGED Learner!fvars
<1>1. client[c].pc = "locked" /\ UNCHANGED <<pad, done, records>>
  BY DEF BackUp, At
<1>2. ASSUME NEW pc \in {"write", "backup"}, Step(c, pc), Recoverable' = Recoverable
      PROVE  UNCHANGED Learner!fvars
  <2>1. /\ client'[c] = [client[c] EXCEPT !.pc = pc] /\ client[c] \in ClientState
        /\ \A d \in Client \ {c} : client'[d] = client[d]
    BY <1>2, StepMoves DEF FileInv, ClientTypeOK, Place
  <2>2. Waiting(client'[c]) = Waiting(client[c])
    BY <1>1, <2>1 DEF Waiting, Before, ClientState
  <2> QED BY <1>1, <1>2, <2>1, <2>2, OneAsks DEF Learner!fvars
<1>3. CASE Step(c, "write") /\ UNCHANGED history
  BY <1>2, <1>3 DEF Recoverable
<1>4. CASE /\ Backup(c) = "absent" /\ history' = [history EXCEPT ![pad] = "partial"]
           /\ Step(c, "backup")
  <2>1. Recoverable' = Recoverable
    BY <1>4 DEF Recoverable, Backup, FileInv, FileTypeOK
  <2> QED BY <1>2, <1>4, <2>1
<1>5. CASE Finishes(c) /\ UNCHANGED history
  <2>1. client'[c].pc = "idle" /\ \A d \in Client \ {c} : client'[d] = client[d]
    BY <1>5, EndClears DEF FileInv, Finishes
  <2> QED BY <1>1, <1>5, <2>1, EndGivesUp DEF Recoverable
<1> QED BY <1>3, <1>4, <1>5 DEF BackUp

\* The text to be replaced is kept.
LEMMA FinishBackUpKeepsText ==
  ASSUME FileInv, NEW c \in Client, FinishBackUp(c)
  PROVE  Learner!FilesNext
<1>1. /\ client[c].pc = "backup" /\ pad # None /\ UNCHANGED <<pad, done, records>>
      /\ history' = [history EXCEPT ![pad] = "whole"]
  BY DEF FinishBackUp, At, FileInv, PadKnown
<1>2. /\ client'[c] = [client[c] EXCEPT !.pc = "write"] /\ client[c] \in ClientState
      /\ \A d \in Client \ {c} : client'[d] = client[d]
  BY StepMoves DEF FinishBackUp, FileInv, ClientTypeOK, Place
<1>3. Asked' = Asked
  <2>1. Waiting(client'[c]) = Waiting(client[c])
    BY <1>1, <1>2 DEF Waiting, Before, ClientState
  <2> QED BY <1>2, <2>1, OneAsks
<1>4. Recoverable' = Recoverable \cup {pad}
  BY <1>1 DEF Recoverable, FileInv, FileTypeOK
<1>5. Learner!Keep
  BY <1>1, <1>3, <1>4 DEF Learner!Keep
<1> QED BY <1>5 DEF Learner!FilesNext

\* The pad takes the text that was asked for, and the one it had is kept.
LEMMA ReplaceSaves ==
  ASSUME FileInv, NEW c \in Client, Replace(c)
  PROVE  Learner!FilesNext
<1>1. /\ client[c].pc = "write" /\ client[c].op \in {"save", "run"}
      /\ pad' = client[c].text /\ UNCHANGED <<Recoverable, done, records>>
  BY DEF Replace, At, Recoverable
<1>2. client'[c].pc \in {"snapshot", "idle"} /\ \A d \in Client \ {c} : client'[d] = client[d]
  BY StepMoves, EndClears DEF Replace, FileInv, Place
<1>3. /\ Asked[c] = [op |-> client[c].op, text |-> client[c].text, lesson |-> client[c].lesson,
                     at |-> client[c].at]
      /\ Asked' = [Asked EXCEPT ![c] = Learner!Nothing]
  <2>1. Waiting(client'[c]) = Learner!Nothing
    BY <1>2 DEF Waiting, Before
  <2> QED BY <1>1, <1>2, <2>1, OneAsks, AskedIsWaiting DEF Waiting, Before
<1>4. pad \in Recoverable \cup {None, client[c].text}
  BY <1>1 DEF FileInv, FileTypeOK, PadKnown, At, Recoverable
<1>5. Learner!Save(c)
  BY <1>1, <1>3, <1>4 DEF Learner!Save, Learner!Answers
<1> QED BY <1>5 DEF Learner!FilesNext

\* A lesson is marked in the file as it is when it is written.
LEMMA WriteMarks ==
  ASSUME FileInv, NEW c \in Client, WriteProgress(c)
  PROVE  Learner!FilesNext
<1>1. /\ client[c].pc = "write" /\ client[c].op \in {"complete", "incomplete"}
      /\ client[c].seen = done /\ UNCHANGED <<pad, Recoverable, records>>
      /\ done' = IF client[c].op = "complete" THEN done \cup {client[c].lesson}
                                              ELSE done \ {client[c].lesson}
  BY DEF WriteProgress, At, Recoverable, FileInv, ProgressKnown
<1>2. client'[c].pc = "idle" /\ \A d \in Client \ {c} : client'[d] = client[d]
  BY EndClears DEF WriteProgress, Finishes, FileInv
<1>3. /\ Asked[c] = [op |-> client[c].op, text |-> client[c].text, lesson |-> client[c].lesson,
                     at |-> client[c].at]
      /\ Asked' = [Asked EXCEPT ![c] = Learner!Nothing]
  <2>1. Waiting(client'[c]) = Learner!Nothing
    BY <1>2 DEF Waiting, Before
  <2> QED BY <1>1, <1>2, <2>1, OneAsks, AskedIsWaiting DEF Waiting, Before
<1>4. Learner!Mark(c)
  BY <1>1, <1>3 DEF Learner!Mark, Learner!Answers
<1> QED BY <1>4 DEF Learner!FilesNext

\* An observation is added beside all that are there.
LEMMA WriteAdds ==
  ASSUME FileInv, ObserveInv, NEW c \in Client, WriteRecord(c)
  PROVE  Learner!FilesNext
<1>1. /\ client[c].pc = "write" /\ client[c].op = "observe" /\ client[c].at \notin records
      /\ UNCHANGED <<pad, Recoverable, done>> /\ records' = records \cup {client[c].at}
  BY DEF WriteRecord, At, Recoverable, ObserveInv, RecordsKnown
<1>2. client'[c].pc = "prune" /\ \A d \in Client \ {c} : client'[d] = client[d]
  BY DEF WriteRecord, FileInv, ClientTypeOK, ClientState
<1>3. /\ Asked[c] = [op |-> client[c].op, text |-> client[c].text, lesson |-> client[c].lesson,
                     at |-> client[c].at]
      /\ Asked' = [Asked EXCEPT ![c] = Learner!Nothing]
  <2>1. Waiting(client'[c]) = Learner!Nothing
    BY <1>2 DEF Waiting, Before
  <2> QED BY <1>1, <1>2, <2>1, OneAsks, AskedIsWaiting DEF Waiting, Before
<1>4. Learner!Add(c)
  BY <1>1, <1>3 DEF Learner!Add, Learner!Answers
<1> QED BY <1>4 DEF Learner!FilesNext

\* What is pruned has Limit - 1 newer ones that stay.
LEMMA PruneIsSeen ==
  ASSUME FileInv, ObserveInv, NEW c \in Client, Prune(c)
  PROVE  Learner!FilesNext \/ UNCHANGED Learner!fvars
<1> DEFINE seen == client[c].seen
<1>1. /\ client[c].op = "observe" /\ client[c].pc = "prune"
      /\ UNCHANGED <<pad, Recoverable, done>>
  BY PruneDeletes DEF Prune, Recoverable
<1>2. CASE records' = records /\ Finishes(c)
  <2>1. client'[c].pc = "idle" /\ \A d \in Client \ {c} : client'[d] = client[d]
    BY <1>2, EndClears DEF Finishes, FileInv
  <2> QED BY <1>1, <1>2, <2>1, EndGivesUp
<1>3. ASSUME NEW r \in seen, Cardinality(Newer(r, seen)) >= Limit - 1,
             records' = records \ {r}, UNCHANGED client
      PROVE  Learner!FilesNext \/ UNCHANGED Learner!fvars
  <2>1. Asked' = Asked
    BY <1>3 DEF Asked
  <2>2. CASE r \notin records
    BY <1>1, <1>3, <2>1, <2>2 DEF Learner!fvars
  <2>3. CASE r \in records
    <3> DEFINE left == {s \in records : s > r}
    <3>1. /\ ops \in Nat /\ seen \in SUBSET (1 .. ops) /\ Newest(seen) \subseteq records
          /\ records \subseteq 1 .. ops
      BY <1>1, WorkBounds DEF FileInv, FileTypeOK, ObserveInv, RecordsKnown, StampsDiffer
    <3>2. Cardinality(Newest(seen)) = Limit - 1 /\ Newest(seen) \subseteq Newer(r, seen)
      BY <1>3, <3>1, SurplusHasNewer
    <3>3. Newest(seen) \subseteq left
      BY <3>1, <3>2 DEF Newer
    <3>4. IsFiniteSet(left)
      <4>1. left \subseteq 1 .. ops
        BY <3>1
      <4>2. IsFiniteSet(1 .. ops)
        BY <3>1, FS_Interval
      <4> HIDE DEF left
      <4> QED BY <4>1, <4>2, FS_Subset
    <3>5. Cardinality(left) >= Limit - 1
      <4> HIDE DEF left
      <4>1. Cardinality(Newest(seen)) <= Cardinality(left) /\ Cardinality(left) \in Nat
        BY <3>3, <3>4, FS_Subset, FS_CardinalityType
      <4> QED BY <3>2, <4>1, LimitAssumption
    <3>6. Learner!Cardinality(left) = Cardinality(left)
      BY DEF Learner!Cardinality, Cardinality, Learner!IsFiniteSet, IsFiniteSet
    <3>7. Learner!Prune(r)
      BY <1>1, <1>3, <2>1, <3>5, <3>6 DEF Learner!Prune
    <3> QED BY <2>3, <3>7 DEF Learner!FilesNext
  <2> QED BY <2>2, <2>3
<1> QED BY <1>2, <1>3, PruneDeletes

\* Waiting for a lock, reading under it and executing the pad are not seen in the files.
LEMMA QuietIsUnseen ==
  ASSUME FileInv, NEW c \in Client,
         \/ Acquire(c) \/ ReadProgress(c) \/ ListRecords(c) \/ Snapshot(c) \/ Execute(c)
         \/ Executed(c) \/ Record(c) \/ WriteFails(c)
  PROVE  Learner!FilesNext \/ UNCHANGED Learner!fvars
<1>1. UNCHANGED <<pad, Recoverable, done, records>>
  BY DEF Acquire, ReadProgress, ListRecords, Snapshot, Execute, Executed, Record, WriteFails,
     fileVars, Recoverable
<1>2. client[c] \in ClientState
  BY DEF FileInv, ClientTypeOK
<1>3. CASE Finishes(c)
  <2>1. client'[c].pc = "idle" /\ \A d \in Client \ {c} : client'[d] = client[d]
    BY <1>3, EndClears DEF Finishes, FileInv
  <2>2. {c} \in SUBSET Client
    OBVIOUS
  <2> QED BY ZenonT(30), <1>1, <2>1, <2>2, EndGivesUp
<1>4. ASSUME Waiting(client'[c]) = Waiting(client[c]),
             \A d \in Client \ {c} : client'[d] = client[d]
      PROVE  UNCHANGED Learner!fvars
  BY <1>1, <1>4, OneAsks DEF Learner!fvars
<1>5. CASE Acquire(c)
  <2>1. /\ client[c].pc = "want" /\ client'[c] = [client[c] EXCEPT !.pc = "locked"]
        /\ \A d \in Client \ {c} : client'[d] = client[d]
    BY <1>5, StepMoves DEF Acquire, FileInv, Place
  <2>2. Waiting(client'[c]) = Waiting(client[c])
    BY <1>2, <2>1 DEF Waiting, Before, ClientState
  <2> QED BY <1>4, <2>1, <2>2
<1>6. ASSUME NEW seen, client[c].pc = "locked",
             client' = [client EXCEPT ![c].pc = "write", ![c].seen = seen]
      PROVE  UNCHANGED Learner!fvars
  <2>1. /\ client'[c].pc = "write" /\ client'[c].op = client[c].op
        /\ client'[c].text = client[c].text /\ client'[c].lesson = client[c].lesson
        /\ client'[c].at = client[c].at
        /\ \A d \in Client \ {c} : client'[d] = client[d]
    BY <1>2, <1>6 DEF FileInv, ClientTypeOK, ClientState
  <2>2. Waiting(client'[c]) = Waiting(client[c])
    BY <1>2, <1>6, <2>1 DEF Waiting, Before, ClientState
  <2> QED BY <1>4, <2>1, <2>2
<1>7. ASSUME NEW pc \in {"execute", "watch", "receipt"}, Step(c, pc), client[c].pc \notin Before
      PROVE  UNCHANGED Learner!fvars
  <2>1. client'[c].pc = pc /\ \A d \in Client \ {c} : client'[d] = client[d]
    BY <1>7, StepMoves DEF FileInv, Place
  <2>2. Waiting(client'[c]) = Waiting(client[c])
    BY <1>7, <2>1 DEF Waiting, Before
  <2> QED BY <1>4, <2>1, <2>2
<1>8. CASE ReadProgress(c) \/ ListRecords(c)
  BY <1>6, <1>8 DEF ReadProgress, ListRecords, At
<1>9. CASE Snapshot(c) \/ Execute(c) \/ Executed(c) \/ Record(c) \/ WriteFails(c)
  BY <1>3, <1>7, <1>9 DEF Snapshot, Execute, Executed, Record, WriteFails, At, Before
<1> QED BY <1>5, <1>8, <1>9

\* An app that dies gives up what it was asked for.
LEMMA CrashGivesUp ==
  ASSUME FileInv, Crash PROVE Learner!FilesNext
<1>1. PICK dead \in SUBSET {c \in Client : client[c].pc # "idle"} :
        client' = [c \in Client |-> IF c \in dead THEN Idle ELSE client[c]]
  BY DEF Crash
<1>2. dead \in SUBSET Client /\ \A c \in dead : client'[c].pc = "idle"
  BY <1>1 DEF Idle
<1>3. \A c \in Client \ dead : client'[c] = client[c]
  BY <1>1
<1> QED BY <1>2, <1>3, EndGivesUp DEF Crash, fileVars, Recoverable

\* Every step of the app is one of the files' steps or is not seen in them.
LEMMA EveryStepIsSeen ==
  ASSUME FileInv, ObserveInv, FileInv', [Next]_vars
  PROVE  [Learner!FilesNext]_(Learner!fvars)
<1>1. ASSUME NEW c \in Client, ClientStep(c) \/ WriteFails(c)
      PROVE  Learner!FilesNext \/ UNCHANGED Learner!fvars
  BY <1>1, BackUpIsSeen, FinishBackUpKeepsText, ReplaceSaves, WriteMarks, WriteAdds, PruneIsSeen,
     QuietIsUnseen DEF ClientStep
<1>2. ASSUME NEW c \in Client, NEW op \in Operation, Begin(c, op) PROVE Learner!FilesNext
  BY <1>2, BeginAsks
<1>3. CASE Crash
  BY <1>3, CrashGivesUp
<1>4. CASE UNCHANGED <<fileVars, client>>
  BY <1>4 DEF fileVars, Learner!fvars, Recoverable, Asked
<1> QED BY <1>1, <1>2, <1>3, <1>4 DEF Next, Process, WorkerJob, vars

\* The app's threads and processes, with their locks, temporary files, crashes and full
\* disks, implement files that change in one step (LearnerFiles), for any number of
\* clients, texts, lessons, operations and faults.
THEOREM FilesStayAtomic == Spec => FilesAreAtomic
<1>1. Init => Learner!FilesInit
  BY DEF Init, Learner!FilesInit, Recoverable, Asked, Idle, Learner!Nothing
<1>2. FileInv /\ ObserveInv /\ FileInv' /\ [Next]_vars => [Learner!FilesNext]_(Learner!fvars)
  BY EveryStepIsSeen
<1> QED BY <1>1, <1>2, FileInvariant, ObserveInvariant, PTL
        DEF Spec, FilesAreAtomic, Learner!FilesSpec
=============================================================================
