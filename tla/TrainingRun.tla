---------------------------- MODULE TrainingRun ----------------------------
(***************************************************************************)
(* The CPU torch training of packages/spark-likelihood: a driver launches  *)
(* one barrier job of World ranks (launch.py), the ranks train and meet in *)
(* collectives (runner.py), and each completed epoch becomes a checkpoint  *)
(* directory that every rank writes and rank 0 commits (checkpoint.py).    *)
(* Ranks die, peers time out, Spark retries a stage, the timer cancels,    *)
(* power fails and files rot between any two steps.                        *)
(***************************************************************************)
EXTENDS Integers, Sequences, FiniteSets

CONSTANTS World,        \* number of logical ranks
          Epochs,       \* epochs of the schedule
          MaxAttempts,  \* bound: calls of run_training
          MaxJobs,      \* bound: barrier stages, retried ones included
          MaxFaults     \* bound: faults of every kind

ASSUME WorldAssumption  == World \in Nat \ {0}
ASSUME EpochsAssumption == Epochs \in Nat \ {0}
ASSUME BoundsAssumption == MaxAttempts \in Nat /\ MaxJobs \in Nat /\ MaxFaults \in Nat

Rank       == 0 .. World - 1
Attempt    == 1 .. MaxAttempts
Job        == 1 .. MaxJobs
Checkpoint == Attempt \X (0 .. Epochs - 1)  \* <<attempt, epoch>>: its directory
NoCheckpoint == <<0, -1>>                   \* resume=None, parent digest None

VARIABLES store,    \* checkpoint directories on the shared file system
          jobs,     \* jobs[g]: the attempt that stage g belongs to
          task,     \* task[g][r]: the process of rank r in stage g
          outcome,  \* outcome[g]: how rank 0 of stage g left commit_checkpoint
          driver,   \* run_training in the driver
          resume,   \* resume[a]: the reference attempt a continues from
          result,   \* result[a]: what result.json of attempt a says
          faults    \* faults so far

vars == <<store, jobs, task, outcome, driver, resume, result, faults>>

NoPart == [file |-> "none", synced |-> FALSE, trained |-> 0, own |-> FALSE, rot |-> FALSE]

Empty == [owner |-> 0, parent |-> NoCheckpoint, part |-> [r \in Rank |-> NoPart],
          manifest |-> "none", marker |-> "none"]

Fresh == [pc |-> "restore", epoch |-> 0, trained |-> 0, own |-> FALSE,
          parent |-> NoCheckpoint, alive |-> TRUE]

\* The steps of a rank within an epoch, in program order.
Order == [restore |-> 0, train |-> 1, ledgers |-> 2, write |-> 3, partial |-> 4, acks |-> 5,
          manifest |-> 6, link |-> 7, linked |-> 8, receipts |-> 1, done |-> 2]

Part == [file: {"none", "partial", "ready"}, synced: BOOLEAN, trained: 0 .. Epochs,
         own: BOOLEAN, rot: BOOLEAN]
Directory == [owner: 0 .. MaxJobs, parent: Checkpoint \cup {NoCheckpoint},
              part: [Rank -> Part], manifest: {"none", "written", "synced"},
              marker: {"none", "linked", "synced"}]
Task == [pc: DOMAIN Order, epoch: 0 .. Epochs, trained: 0 .. Epochs, own: BOOLEAN,
         parent: Checkpoint \cup {NoCheckpoint}, alive: BOOLEAN]

\* Every variable has its type.
TypeOK ==
    /\ store \in [Checkpoint -> Directory]
    /\ jobs \in Seq(Attempt) /\ Len(jobs) <= MaxJobs
    /\ task \in [Job -> [Rank -> Task]]
    /\ outcome \in [Job -> {"none", "error", "ambiguous"}]
    /\ driver \in [pc: {"idle", "running", "returned", "verified", "failing"},
                   timedOut: BOOLEAN]
    /\ resume \in [Attempt -> Checkpoint \cup {NoCheckpoint}]
    /\ result \in [Attempt -> {"none", "completed", "failed"}]
    /\ faults \in 0 .. MaxFaults

Init ==
    /\ store = [c \in Checkpoint |-> Empty]
    /\ jobs = <<>>
    /\ task = [g \in Job |-> [r \in Rank |-> Fresh]]
    /\ outcome = [g \in Job |-> "none"]
    /\ driver = [pc |-> "idle", timedOut |-> FALSE]
    /\ resume = [a \in Attempt |-> NoCheckpoint]
    /\ result = [a \in Attempt |-> "none"]
    /\ faults = 0

-----------------------------------------------------------------------------
(* What the files of a checkpoint show to a reader.                        *)

Replica(c, r) == IF store[c].part[r].own THEN r ELSE -1  \* replica_digest

\* verify_rank of every rank: the payload is the acknowledged one.
Verified(c) == \A r \in Rank : store[c].part[r].file = "ready" /\ ~store[c].part[r].rot
ReplicasAgree(c) == \A r, q \in Rank : Replica(c, r) = Replica(c, q)

\* _checkpoint_metadata: marker, manifest and transaction, no rank payload.
Marked(c) == store[c].marker # "none" /\ store[c].manifest # "none"

\* load_rank: the marker, the manifest and every rank's payload.
Loadable(c) == Marked(c) /\ Verified(c) /\ ReplicasAgree(c)

-----------------------------------------------------------------------------
(* Ranks and their collectives.                                            *)

Runs(g, r, pc) == g <= Len(jobs) /\ task[g][r].alive /\ task[g][r].pc = pc
Dir(g, r) == <<jobs[g], task[g][r].epoch>>
Goto(g, r, pc) == task' = [task EXCEPT ![g][r].pc = pc]
Raise(g, r) == task' = [task EXCEPT ![g][r].alive = FALSE]

\* Rank q of stage g has entered step pc of epoch e. A rank that died there has
\* sent its value: the peers may still receive it, or time out.
Arrived(g, q, e, pc) ==
    \/ task[g][q].epoch > e
    \/ task[g][q].epoch = e /\ Order[task[g][q].pc] >= Order[pc]
AllArrived(g, e, pc) == \A q \in Rank : Arrived(g, q, e, pc)

\* After a commit: the next epoch, or the receipts when it was the last one.
NextEpoch(g, r) ==
    LET e == task[g][r].epoch + 1 IN
    task' = [task EXCEPT ![g][r].epoch = e, ![g][r].parent = Dir(g, r),
                         ![g][r].pc = IF e < Epochs THEN "train" ELSE "receipts"]

\* A fresh start, or load_rank of the reference and restore_rank_state.
Restore(g, r) ==
    LET c == resume[jobs[g]] IN
    /\ Runs(g, r, "restore")
    /\ \/ c = NoCheckpoint /\ Goto(g, r, "train")
       \/ /\ c # NoCheckpoint /\ Loadable(c)
          /\ task' = [task EXCEPT ![g][r] =
                        [@ EXCEPT !.pc = "train", !.epoch = c[2] + 1, !.parent = c,
                                  !.trained = store[c].part[r].trained,
                                  !.own = store[c].part[r].own]]
       \/ c # NoCheckpoint /\ ~Loadable(c) /\ Raise(g, r)
    /\ UNCHANGED <<store, outcome, faults>>

\* One epoch of steps. A replica may drift from its peers (a fault).
Train(g, r) ==
    /\ Runs(g, r, "train")
    /\ \E drift \in BOOLEAN :
        /\ drift => faults < MaxFaults /\ World > 1
        /\ task' = [task EXCEPT ![g][r] =
              [task[g][r] EXCEPT !.pc = "ledgers", !.trained = task[g][r].trained + 1,
                                 !.own = task[g][r].own \/ drift]]
        /\ faults' = IF drift THEN faults + 1 ELSE faults
    /\ UNCHANGED <<store, outcome>>

\* All ledgers are gathered; begin_checkpoint by rank 0 makes the directory
\* exclusively. Its peers wait for the broadcast of the transaction.
Begin(g) ==
    LET c == Dir(g, 0) IN
    /\ Runs(g, 0, "ledgers") /\ AllArrived(g, task[g][0].epoch, "ledgers")
    /\ IF store[c].owner = 0
       THEN /\ store' = [store EXCEPT ![c].owner = g, ![c].parent = task[g][0].parent]
            /\ Goto(g, 0, "write")
       ELSE Raise(g, 0) /\ UNCHANGED store
    /\ UNCHANGED <<outcome, faults>>

ReceiveHandle(g, r) ==
    /\ r # 0 /\ Runs(g, r, "ledgers") /\ Arrived(g, 0, task[g][r].epoch, "write")
    /\ Goto(g, r, "write")
    /\ UNCHANGED <<store, outcome, faults>>

\* write_rank up to READY.json: a death after it leaves a partial directory.
WriteRank(g, r) ==
    LET c == Dir(g, r) IN
    /\ Runs(g, r, "write")
    /\ IF /\ store[c].owner = g /\ store[c].manifest = "none" /\ store[c].marker = "none"
          /\ store[c].part[r] = NoPart
       THEN /\ store' = [store EXCEPT ![c].part[r] =
                           [NoPart EXCEPT !.file = "partial", !.trained = task[g][r].trained,
                                          !.own = task[g][r].own]]
            /\ Goto(g, r, "partial")
       ELSE Raise(g, r) /\ UNCHANGED store
    /\ UNCHANGED <<outcome, faults>>

\* READY.json is written, the directories are synced, the rank acknowledges.
FinishRank(g, r) ==
    LET c == Dir(g, r) IN
    /\ Runs(g, r, "partial")
    /\ store' = [store EXCEPT ![c].part[r] = [@ EXCEPT !.file = "ready", !.synced = TRUE]]
    /\ Goto(g, r, "acks")
    /\ UNCHANGED <<outcome, faults>>

CommitRaises(g, kind) ==
    Raise(g, 0) /\ outcome' = [outcome EXCEPT ![g] = kind]

\* Mutant: the replicas' digests are not compared.
WriteManifestUncompared(g) ==
    /\ Runs(g, 0, "acks") /\ AllArrived(g, task[g][0].epoch, "acks")
    /\ store' = [store EXCEPT ![Dir(g, 0)].manifest = "written"]
    /\ Goto(g, 0, "manifest") /\ UNCHANGED <<outcome, faults>>

\* All acknowledgments are gathered; commit_checkpoint verifies every rank, compares
\* the replicas and writes the manifest. Its peers wait for the reference.
WriteManifest(g) ==
    LET c == Dir(g, 0) IN
    /\ Runs(g, 0, "acks") /\ AllArrived(g, task[g][0].epoch, "acks")
    /\ IF /\ store[c].manifest = "none" /\ store[c].marker = "none"
          /\ Verified(c) /\ ReplicasAgree(c)
       THEN /\ store' = [store EXCEPT ![c].manifest = "written"]
            /\ Goto(g, 0, "manifest") /\ UNCHANGED outcome
       ELSE CommitRaises(g, "error") /\ UNCHANGED store
    /\ UNCHANGED faults

\* Mutant: the directory is not synced before the link.
SyncManifestUnsynced(g) ==
    /\ Runs(g, 0, "manifest")
    /\ IF Verified(Dir(g, 0)) THEN Goto(g, 0, "link") /\ UNCHANGED outcome
                               ELSE CommitRaises(g, "error")
    /\ UNCHANGED <<store, faults>>

\* The directory is synced and every rank verified again.
SyncManifest(g) ==
    LET c == Dir(g, 0) IN
    /\ Runs(g, 0, "manifest")
    /\ store' = [store EXCEPT ![c].manifest = "synced"]
    /\ IF Verified(c) THEN Goto(g, 0, "link") /\ UNCHANGED outcome
                      ELSE CommitRaises(g, "error")
    /\ UNCHANGED faults

\* os.link publishes COMMITTED.json.
Link(g) ==
    LET c == Dir(g, 0) IN
    /\ Runs(g, 0, "link")
    /\ store' = [store EXCEPT ![c].marker = "linked"]
    /\ Goto(g, 0, "linked")
    /\ UNCHANGED <<outcome, faults>>

\* Mutants: the marker is not synced; published is set after the readback.
FinishCommitUnsynced(g) ==
    /\ Runs(g, 0, "linked")
    /\ IF Loadable(Dir(g, 0)) THEN NextEpoch(g, 0) /\ UNCHANGED outcome
                               ELSE CommitRaises(g, "ambiguous")
    /\ UNCHANGED <<store, faults>>
FinishCommitLate(g) ==
    /\ Runs(g, 0, "linked")
    /\ store' = [store EXCEPT ![Dir(g, 0)].marker = "synced", ![Dir(g, 0)].manifest = "synced"]
    /\ IF Loadable(Dir(g, 0)) THEN NextEpoch(g, 0) /\ UNCHANGED outcome
                               ELSE CommitRaises(g, "error")
    /\ UNCHANGED faults

\* Sync and readback; a failure from here on is an AmbiguousCommit.
FinishCommit(g) ==
    LET c == Dir(g, 0) IN
    /\ Runs(g, 0, "linked")
    /\ store' = [store EXCEPT ![c].marker = "synced", ![c].manifest = "synced"]
    /\ IF Loadable(c) THEN NextEpoch(g, 0) /\ UNCHANGED outcome
                      ELSE CommitRaises(g, "ambiguous")
    /\ UNCHANGED faults

ReceiveReference(g, r) ==
    /\ r # 0 /\ Runs(g, r, "acks") /\ Arrived(g, 0, task[g][r].epoch + 1, "train")
    /\ NextEpoch(g, r)
    /\ UNCHANGED <<store, outcome, faults>>

GatherReceipts(g, r) ==
    /\ Runs(g, r, "receipts") /\ AllArrived(g, Epochs, "receipts")
    /\ Goto(g, r, "done")
    /\ UNCHANGED <<store, outcome, faults>>

-----------------------------------------------------------------------------
(* Faults of ranks and storage.                                            *)

Fault == faults < MaxFaults /\ faults' = faults + 1

Waits(g, r) == \E pc \in {"ledgers", "acks", "receipts"} : Runs(g, r, pc)
PeerDead(g) == \E q \in Rank : ~task[g][q].alive

\* Mutant: the group has no time limit and a dead peer goes unnoticed.
CollectiveNeverFails(g, r) == FALSE /\ UNCHANGED vars

\* The 60 s limit of the process group, or the lost connection to a dead peer.
CollectiveFails(g, r) ==
    /\ Waits(g, r)
    /\ \/ PeerDead(g) /\ UNCHANGED faults
       \/ ~PeerDead(g) /\ Fault
    /\ Raise(g, r)
    /\ UNCHANGED <<store, outcome>>

\* Spark kills the tasks of a job it gave up; an executor may die at any time.
GivenUp(g) == g < Len(jobs) \/ driver.pc # "running" \/ driver.timedOut \/ PeerDead(g)
Killed(g, r) ==
    /\ g <= Len(jobs) /\ task[g][r].alive /\ task[g][r].pc # "done"
    /\ IF GivenUp(g) THEN UNCHANGED faults ELSE Fault
    /\ Raise(g, r)
    /\ UNCHANGED <<store, outcome>>

\* A write, a sync or the link of rank 0's commit fails: full disk, I/O error.
CommitIoFails(g) ==
    /\ \E pc \in {"acks", "manifest", "link", "linked"} : Runs(g, 0, pc)
    /\ task[g][0].pc = "acks" => AllArrived(g, task[g][0].epoch, "acks")
    /\ CommitRaises(g, IF task[g][0].pc = "linked" THEN "ambiguous" ELSE "error")
    /\ Fault
    /\ UNCHANGED store

Rot == /\ Fault
       /\ \E c \in Checkpoint, r \in Rank :
            /\ store[c].part[r].file = "ready" /\ ~store[c].part[r].rot
            /\ store' = [store EXCEPT ![c].part[r].rot = TRUE]
       /\ UNCHANGED <<jobs, task, outcome, driver, resume, result>>

\* Power fails: every process ends, and any set of unsynced entries is lost.
PowerLoss ==
    /\ Fault
    /\ jobs # <<>>
    /\ \E parts \in SUBSET {p \in Checkpoint \X Rank :
                             LET part == store[p[1]].part[p[2]] IN
                             part.file # "none" /\ ~part.synced},
          manifests \in SUBSET {c \in Checkpoint : store[c].manifest = "written"},
          markers \in SUBSET {c \in Checkpoint : store[c].marker = "linked"} :
        store' = [c \in Checkpoint |-> [store[c] EXCEPT
            !.part = [r \in Rank |-> IF <<c, r>> \in parts THEN NoPart ELSE @[r]],
            !.manifest = IF c \in manifests THEN "none" ELSE @,
            !.marker = IF c \in markers THEN "none" ELSE @]]
    /\ task' = [g \in Job |-> IF g > Len(jobs) THEN task[g]
                              ELSE [r \in Rank |-> [task[g][r] EXCEPT !.alive = FALSE]]]
    /\ driver' = [driver EXCEPT !.pc = "idle"]
    /\ UNCHANGED <<jobs, outcome, resume, result>>

-----------------------------------------------------------------------------
(* run_training in the driver.                                             *)

Latest == Len(jobs)
ThisAttempt == jobs[Latest]
Final == <<ThisAttempt, Epochs - 1>>
Retried(a) == Cardinality({g \in DOMAIN jobs : jobs[g] = a}) > 1
DriverAt(pc) == driver.pc = pc
DriverGoes(pc) == driver' = [driver EXCEPT !.pc = pc]

Launch(c) ==
    LET a == IF jobs = <<>> THEN 1 ELSE ThisAttempt + 1 IN
    /\ DriverAt("idle") /\ a \in Attempt /\ Latest < MaxJobs
    /\ c # NoCheckpoint => Marked(c) /\ c[2] + 1 < Epochs
    /\ jobs' = Append(jobs, a)
    /\ resume' = [resume EXCEPT ![a] = c]
    /\ driver' = [pc |-> "running", timedOut |-> FALSE]
    /\ UNCHANGED <<store, task, outcome, result, faults>>

\* Spark resubmits a barrier stage whose executor was lost (external).
RetryStage ==
    /\ DriverAt("running") /\ ~driver.timedOut /\ Latest < MaxJobs /\ Fault
    /\ jobs' = Append(jobs, ThisAttempt)
    /\ UNCHANGED <<store, task, outcome, driver, resume, result>>

TimerFires ==
    /\ driver.pc \in {"running", "returned"} /\ ~driver.timedOut /\ Fault
    /\ driver' = [driver EXCEPT !.timedOut = TRUE]
    /\ UNCHANGED <<store, jobs, task, outcome, resume, result>>

\* Mutant: the listener's evidence is not asked for.
ValidateWithoutEvidence ==
    /\ DriverAt("running") /\ \A r \in Rank : Runs(Latest, r, "done")
    /\ DriverGoes(IF Marked(Final) /\ ~driver.timedOut THEN "returned" ELSE "failing")
    /\ UNCHANGED <<store, jobs, task, outcome, resume, result, faults>>

\* The job returned: _validate_result, the deadline, the listener's evidence.
Validate ==
    /\ DriverAt("running") /\ \A r \in Rank : Runs(Latest, r, "done")
    /\ DriverGoes(IF /\ Marked(Final) /\ ~driver.timedOut /\ ~Retried(ThisAttempt)
                     /\ resume[ThisAttempt] # NoCheckpoint => Marked(resume[ThisAttempt])
                  THEN "returned" ELSE "failing")
    /\ UNCHANGED <<store, jobs, task, outcome, resume, result, faults>>

\* _verify_final_state loads every rank, then the deadline is checked again.
VerifyFinal ==
    /\ DriverAt("returned")
    /\ DriverGoes(IF Loadable(Final) /\ ~driver.timedOut THEN "verified" ELSE "failing")
    /\ UNCHANGED <<store, jobs, task, outcome, resume, result, faults>>

JobFails ==
    /\ DriverAt("running") /\ (driver.timedOut \/ PeerDead(Latest))
    /\ DriverGoes("failing")
    /\ UNCHANGED <<store, jobs, task, outcome, resume, result, faults>>

Publish ==
    /\ driver.pc \in {"verified", "failing"}
    /\ result' = [result EXCEPT ![ThisAttempt] =
                    IF DriverAt("verified") THEN "completed" ELSE "failed"]
    /\ DriverGoes("idle")
    /\ UNCHANGED <<store, jobs, task, outcome, resume, faults>>

DriverCrash ==
    /\ ~DriverAt("idle") /\ Fault
    /\ DriverGoes("idle")
    /\ UNCHANGED <<store, jobs, task, outcome, resume, result>>

-----------------------------------------------------------------------------
RankStep(g, r) ==
    /\ \/ Restore(g, r) \/ Train(g, r) \/ ReceiveHandle(g, r)
       \/ WriteRank(g, r) \/ FinishRank(g, r) \/ ReceiveReference(g, r)
       \/ GatherReceipts(g, r) \/ CollectiveFails(g, r)
       \/ r = 0 /\ (Begin(g) \/ WriteManifest(g) \/ SyncManifest(g) \/ Link(g) \/ FinishCommit(g))
    /\ UNCHANGED <<jobs, driver, resume, result>>

RankFault(g) ==
    /\ CommitIoFails(g) \/ \E r \in Rank : Killed(g, r)
    /\ UNCHANGED <<jobs, driver, resume, result>>

DriverStep == Validate \/ VerifyFinal \/ JobFails \/ Publish

Next ==
    \/ \E g \in Job, r \in Rank : RankStep(g, r)
    \/ \E g \in Job : RankFault(g)
    \/ DriverStep
    \/ \E c \in Checkpoint \cup {NoCheckpoint} : Launch(c)
    \/ RetryStage \/ TimerFires \/ DriverCrash \/ Rot \/ PowerLoss

Spec == Init /\ [][Next]_vars

-----------------------------------------------------------------------------
(* Properties.                                                             *)

\* A checkpoint whose COMMITTED.json is found, after any death, I/O error or loss
\* of power, loads with all its ranks unless somebody changed a payload file:
\* everything below the marker reached the disk before the link was made.
MarkedIsLoadable ==
    \A c \in Checkpoint :
        store[c].marker # "none" /\ (\A r \in Rank : ~store[c].part[r].rot) => Loadable(c)

\* A committed epoch e holds, for every rank, the state after exactly e + 1 epochs
\* of training with agreeing replicas, whichever attempts and resumes led to it.
CommittedEpochIsWhole ==
    \A c \in Checkpoint : store[c].marker # "none" =>
        \A r \in Rank : /\ store[c].part[r].trained = c[2] + 1
                        /\ Replica(c, r) = Replica(c, 0)

\* The parent digests of committed checkpoints lead through every earlier epoch:
\* within an attempt to a checkpoint that is still committed, and across a resume
\* to one whose manifest and ranks are still there. (Its marker may be gone: one
\* that was linked and not synced can be resumed from and then be lost.)
ParentsAreKept ==
    \A c \in Checkpoint : store[c].marker # "none" =>
        LET p == store[c].parent IN
        /\ p[2] = c[2] - 1
        /\ p[1] = c[1] => store[p].marker = "synced"
        /\ p # NoCheckpoint => /\ store[p].manifest = "synced"
                               /\ \A r \in Rank : store[p].part[r].file = "ready"

\* When commit_checkpoint raises anything but AmbiguousCommit, its checkpoint is
\* not published, then or later: only an ambiguous outcome needs a readback.
PlainErrorMeansUnpublished ==
    \A g \in DOMAIN jobs : outcome[g] = "error" => store[Dir(g, 0)].marker = "none"

\* result.json says completed only for an attempt whose one job, never retried,
\* left its final epoch committed durably by every rank.
CompletedIsFinalAndUnretried ==
    \A a \in Attempt : result[a] = "completed" =>
        LET c == <<a, Epochs - 1>> IN
        /\ ~Retried(a)
        /\ store[c].marker = "synced" /\ store[c].manifest = "synced"
        /\ \A r \in Rank : store[c].part[r].synced /\ store[c].part[r].trained = Epochs

\* The live ranks of a job never all wait for ever in their collectives: one of them
\* can go on (a dead peer ends the collective by its time limit). Every step moves a
\* rank forward, so with the scheduling of live processes each job ends.
NoRankIsStuck ==
    \A g \in DOMAIN jobs :
        LET live == {r \in Rank : task[g][r].alive /\ task[g][r].pc # "done"} IN
        live # {} /\ (\A r \in live : Waits(g, r)) => ENABLED (\E r \in live : RankStep(g, r))

-----------------------------------------------------------------------------
(* What the checkpoints promise (CheckpointChain), and how they keep it.   *)

Begun   == IF jobs = <<>> THEN 0 ELSE ThisAttempt
Written == {c \in Checkpoint : /\ store[c].manifest = "synced"
                               /\ \A r \in Rank : store[c].part[r].file = "ready"}
Found   == {c \in Checkpoint : store[c].marker # "none"}
Durable == {c \in Checkpoint : store[c].marker = "synced"}
Parent  == [c \in Checkpoint |-> IF c \in Found THEN store[c].parent ELSE NoCheckpoint]

Chain == INSTANCE CheckpointChain
  WITH Root <- NoCheckpoint, LastEpoch <- Epochs - 1, attempts <- Begun, source <- resume,
       written <- Written, found <- Found, durable <- Durable, parent <- Parent,
       verdict <- result

\* Whatever fails, a step of the training run is one of these promises kept or changes
\* nothing a reader of checkpoints and results can see.
CheckpointsFormChain == Chain!ChainSpec
=============================================================================
