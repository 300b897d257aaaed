---------------------------- MODULE OwnedProcess ----------------------------
(***************************************************************************)
(* One bounded child process and the thread that reads its output: the     *)
(* app's PadRunner._execute (execution.py) and the workers' run_process    *)
(* (worker_operations.py). The child leads a process group of its own; its *)
(* descendants may stay in the group or leave it, may hold the output pipe *)
(* after the leader is gone, and may fork while they are being killed.     *)
(***************************************************************************)
EXTENDS Naturals

VARIABLES runner,   \* whose code owns the process: fixed in Init
          phase,    \* where that code is
          leader,   \* the child that was started
          kin,      \* which kinds of descendants hold the pipe
          reader,   \* the thread that reads the pipe
          late,     \* the time limit has passed
          cancel,   \* the job's cancellation is set (workers only)
          scratch,  \* the scratch directory is over its allowance (workers only)
          stopped   \* why the code stopped the child

procVars == <<runner, phase, leader, kin, reader, late, cancel, scratch, stopped>>

Runner == {"pad", "worker"}
Kin    == {"group", "session"}  \* in the leader's group, or gone from it by setsid
Reason == {"none", "output limit", "time limit", "cancelled", "timed_out", "failed"}

ProcTypeOK ==
    /\ runner \in Runner
    /\ phase \in {"idle", "poll", "check", "kill", "sweep", "join", "joined", "returned", "raised"}
    /\ leader \in {"none", "runs", "exited", "killed"}
    /\ kin \subseteq Kin
    /\ reader \in {"none", "reads", "full", "done"}
    /\ late \in BOOLEAN /\ cancel \in BOOLEAN /\ scratch \in BOOLEAN
    /\ stopped \in Reason

ProcInit ==
    /\ runner \in Runner
    /\ phase = "idle" /\ leader = "none" /\ kin = {}
    /\ reader = "none" /\ stopped = "none"
    /\ late = FALSE /\ cancel = FALSE /\ scratch = FALSE

Goes(to) == phase' = to

-----------------------------------------------------------------------------
(* The child, its descendants and the clock (external).                    *)

GroupLives == leader = "runs" \/ "group" \in kin
Holders == leader = "runs" \/ kin # {}

LeaderExits ==
    /\ leader = "runs" /\ leader' = "exited"
    /\ UNCHANGED <<runner, phase, kin, reader, late, cancel, scratch, stopped>>

\* A process of the group forks; a child may leave the group. (One that closes its end
\* of the pipe as well is nothing to the owner.)
Fork ==
    /\ GroupLives
    /\ \E k \in Kin \ kin : kin' = kin \cup {k}
    /\ UNCHANGED <<runner, phase, leader, reader, late, cancel, scratch, stopped>>

KinExits ==
    /\ \E k \in kin : kin' = kin \ {k}
    /\ UNCHANGED <<runner, phase, leader, reader, late, cancel, scratch, stopped>>

FillScratch ==
    /\ runner = "worker" /\ ~scratch /\ Holders
    /\ scratch' = TRUE
    /\ UNCHANGED <<runner, phase, leader, kin, reader, late, cancel, stopped>>

\* A pad's limit counts from its start, a worker's from the submission of the job.
TimePasses ==
    /\ ~late /\ (runner = "worker" \/ phase # "idle")
    /\ late' = TRUE
    /\ UNCHANGED <<runner, phase, leader, kin, reader, cancel, scratch, stopped>>

CancelSet ==
    /\ runner = "worker" /\ ~cancel /\ cancel' = TRUE
    /\ UNCHANGED <<runner, phase, leader, kin, reader, late, scratch, stopped>>

-----------------------------------------------------------------------------
(* The reader thread.                                                      *)

\* The pipe reports its end once nobody holds it.
ReaderEnds ==
    /\ reader = "reads" /\ ~Holders
    /\ reader' = "done"
    /\ UNCHANGED <<runner, phase, leader, kin, late, cancel, scratch, stopped>>

\* A pad's reader stops at the output limit; a worker's drops the middle and reads on, as
\* that of a whole SQL lesson does.
ReaderFills ==
    /\ runner = "pad" /\ reader = "reads" /\ Holders
    /\ reader' = "full"
    /\ UNCHANGED <<runner, phase, leader, kin, late, cancel, scratch, stopped>>

-----------------------------------------------------------------------------
(* The code that owns the process.                                         *)

\* A worker looks at the cancellation and the deadline before it starts anything.
Withdrawn == runner = "worker" /\ (cancel \/ late)

StartProcess ==
    /\ phase = "idle"
    /\ \/ /\ Withdrawn
          /\ stopped' = IF cancel THEN "cancelled" ELSE "timed_out"
          /\ Goes("returned") /\ UNCHANGED <<leader, reader>>
       \/ /\ ~Withdrawn  \* Popen and the reader start
          /\ leader' = "runs" /\ reader' = "reads" /\ Goes("poll") /\ UNCHANGED stopped
       \/ /\ ~Withdrawn  \* Popen raises: a worker reports 127
          /\ Goes(IF runner = "worker" THEN "returned" ELSE "raised")
          /\ UNCHANGED <<leader, reader, stopped>>
       \/ /\ ~Withdrawn  \* the reader's thread does not start
          /\ leader' = "runs" /\ Goes("kill") /\ UNCHANGED reader
          /\ stopped' = IF runner = "worker" THEN "failed" ELSE "none"
    /\ UNCHANGED <<runner, kin, late, cancel, scratch>>

\* process.poll()
Poll ==
    /\ phase = "poll"
    /\ Goes(IF leader = "runs" THEN "check" ELSE "kill")
    /\ UNCHANGED <<runner, leader, kin, reader, late, cancel, scratch, stopped>>

\* The reasons to stop, in the order the loop asks for them.
ReasonNow ==
    IF runner = "worker"
    THEN IF cancel THEN "cancelled" ELSE IF late THEN "timed_out"
         ELSE IF scratch THEN "failed" ELSE "none"
    ELSE IF reader = "full" THEN "output limit" ELSE IF late THEN "time limit" ELSE "none"

Check ==
    /\ phase = "check"
    /\ stopped' = ReasonNow
    /\ Goes(IF ReasonNow = "none" THEN "poll" ELSE "kill")
    /\ UNCHANGED <<runner, leader, kin, reader, late, cancel, scratch>>

\* Mutant: the group is killed only when its leader still runs.
KillRunning ==
    /\ phase = "kill"
    /\ leader' = IF leader = "runs" THEN "killed" ELSE leader
    /\ kin' = IF leader = "runs" THEN kin \ {"group"} ELSE kin
    /\ Goes(IF runner = "worker" THEN "sweep" ELSE "join")
    /\ UNCHANGED <<runner, reader, late, cancel, scratch, stopped>>

\* SIGKILL to the group, whether or not its leader is gone (a worker's SIGTERM before
\* it only lets processes exit that may exit anyway), and the wait for the leader.
Kill ==
    /\ phase = "kill"
    /\ leader' = IF leader = "runs" THEN "killed" ELSE leader
    /\ kin' = kin \ {"group"}
    /\ Goes(IF runner = "worker" THEN "sweep" ELSE "join")
    /\ UNCHANGED <<runner, reader, late, cancel, scratch, stopped>>

\* An isolated worker kills what it finds of the job's user in one pass over /proc: a
\* process forked meanwhile may be missed, and a worker that is not isolated misses all.
Sweep ==
    /\ phase = "sweep"
    /\ \/ kin' = kin \ {"session"}
       \/ UNCHANGED kin
    /\ Goes("join")
    /\ UNCHANGED <<runner, leader, reader, late, cancel, scratch, stopped>>

\* Mutant: the reader is joined without a limit.
JoinForever ==
    /\ phase = "join" /\ reader # "reads"
    /\ Goes("joined")
    /\ UNCHANGED <<runner, leader, kin, reader, late, cancel, scratch, stopped>>

\* reader.join(timeout=2) returns when the reader has ended, or after two seconds.
Join ==
    /\ phase = "join"
    /\ Goes("joined")
    /\ UNCHANGED <<runner, leader, kin, reader, late, cancel, scratch, stopped>>

\* A worker refuses to report a job whose output somebody may still write; a pad whose
\* reader never started raises.
Confirmed == IF runner = "worker" THEN reader # "reads" ELSE reader # "none"

\* The reason that is only found after the child has gone.
LateReason ==
    IF runner = "pad" /\ reader = "full" THEN "output limit"
    ELSE IF scratch THEN "failed" ELSE "none"

\* Mutants: a reader that is still alive is not noticed; the late reason is not told.
ReturnUnconfirmed ==
    /\ phase = "joined" /\ Goes("returned")
    /\ stopped' = IF stopped = "none" THEN LateReason ELSE stopped
    /\ UNCHANGED <<runner, leader, kin, reader, late, cancel, scratch>>
ReturnSilently ==
    /\ phase = "joined" /\ Goes(IF Confirmed THEN "returned" ELSE "raised")
    /\ UNCHANGED <<runner, leader, kin, reader, late, cancel, scratch, stopped>>

Return ==
    /\ phase = "joined"
    /\ Goes(IF Confirmed THEN "returned" ELSE "raised")
    /\ stopped' = IF stopped = "none" THEN LateReason ELSE stopped
    /\ UNCHANGED <<runner, leader, kin, reader, late, cancel, scratch>>

OwnerStep == Poll \/ Check \/ Kill \/ Sweep \/ Join \/ Return
ChildStep == \/ LeaderExits \/ Fork \/ KinExits \/ FillScratch
             \/ TimePasses \/ CancelSet \/ ReaderEnds \/ ReaderFills

\* What an escaped descendant does once the caller is done is not followed.
Clear ==
    /\ phase' = "idle" /\ leader' = "none" /\ kin' = {}
    /\ reader' = "none" /\ stopped' = "none"
    /\ late' = FALSE /\ cancel' = FALSE /\ scratch' = FALSE
    /\ UNCHANGED runner
Forget == phase \in {"returned", "raised"} /\ Clear

-----------------------------------------------------------------------------
(* Properties.                                                             *)

Over == phase \in {"returned", "raised"}

\* When the code returns or raises, no process of the group is left, although the
\* leader may have exited first and left descendants behind.
GroupIsGone == Over => ~GroupLives

\* A worker reports a job only after every holder of its pipe is gone: the transcript
\* is whole, whoever left the group or was missed by the sweep.
ReportedIsWhole ==
    runner = "worker" /\ phase = "returned" /\ reader # "none" => ~Holders

\* A run that is reported without a reason to stop ended by itself, within its output
\* and scratch limits, although both may be passed between the last check and the end.
UnstoppedIsWithinLimits ==
    [][phase # "returned" /\ phase' = "returned" /\ stopped' = "none" =>
          leader' \in {"exited", "none"} /\ reader # "full" /\ ~scratch]_procVars
=============================================================================
