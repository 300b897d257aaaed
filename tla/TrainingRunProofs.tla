------------------------- MODULE TrainingRunProofs -------------------------
(***************************************************************************)
(* What a committed checkpoint and a completed result of the training run  *)
(* stand for, for every number of ranks, epochs, attempts, retried stages  *)
(* and faults.                                                             *)
(*                                                                         *)
(* DirectoryOK says what the files of a checkpoint directory show of each  *)
(* other, TaskOK what a rank knows of its directory at each step of an     *)
(* epoch, and DriverOK what the driver knows of its attempt. LineageInv    *)
(* adds which checkpoint a parent is, and with it the training run         *)
(* implements the abstract CheckpointChain.                                *)
(***************************************************************************)
EXTENDS TrainingRun, TLAPS

-----------------------------------------------------------------------------
(* The inductive invariant.                                                *)

Ready(c) == \A r \in Rank : store[c].part[r].file = "ready"

\* Checkpoint p is a parent that c may name: of the epoch before, durable with all its
\* ranks, and published durably when it is of the same attempt.
Precedes(p, c) ==
    /\ p[2] = c[2] - 1
    /\ p[1] = c[1] => p \in Checkpoint /\ store[p].marker = "synced"
    /\ p # NoCheckpoint => p \in Checkpoint /\ store[p].manifest = "synced" /\ Ready(p)

\* A rank's files hold what its directory's epoch stands for, a manifest was written
\* over agreeing ranks, a marker over a durable manifest, and a directory has one owner.
DirectoryOK(c) ==
    /\ \A r \in Rank : /\ store[c].part[r].file # "none" => store[c].part[r].trained = c[2] + 1
                       /\ store[c].part[r].file = "ready" => store[c].part[r].synced
    /\ store[c].manifest # "none" => Ready(c) /\ ReplicasAgree(c)
    /\ store[c].marker # "none" => store[c].manifest = "synced" /\ store[c].owner # 0
    /\ store[c].owner # 0 => /\ store[c].owner \in DOMAIN jobs /\ jobs[store[c].owner] = c[1]
                             /\ Precedes(store[c].parent, c)

\* How many epochs a rank has trained at each step.
Trains(t) ==
    /\ t.pc \in {"receipts", "done"} <=> t.epoch = Epochs
    /\ t.pc = "restore" => t.epoch = 0
    /\ t.pc \in {"restore", "train", "receipts", "done"} => t.trained = t.epoch
    /\ t.pc \in {"ledgers", "write", "partial", "acks", "manifest", "link", "linked"} =>
         t.trained = t.epoch + 1

\* A rank that writes its files has begun them in a directory of its own stage.
Writes(g, r) ==
    task[g][r].alive /\ task[g][r].pc = "partial" =>
        store[Dir(g, r)].owner = g /\ store[Dir(g, r)].part[r].file = "partial"

\* Rank 0 knows its directory unpublished until it makes the link, over a manifest that
\* is there and, from the sync on, durable.
Commits(g) ==
    task[g][0].alive =>
        LET d == store[Dir(g, 0)] IN
        /\ task[g][0].pc \in {"write", "partial", "acks", "manifest", "link"} =>
             d.owner = g /\ d.marker = "none"
        /\ task[g][0].pc = "manifest" => d.manifest # "none"
        /\ task[g][0].pc \in {"link", "linked"} => d.owner = g /\ d.manifest = "synced"

\* A stage that has trained all its epochs has published the last one durably.
Published(c) == store[c].marker = "synced" /\ store[c].manifest = "synced"
Finishes(g) == task[g][0].pc \in {"receipts", "done"} => Published(<<jobs[g], Epochs - 1>>)

\* A plain error left the directory unpublished, its owner dead.
Errs(g) ==
    outcome[g] = "error" =>
        /\ ~task[g][0].alive /\ task[g][0].epoch < Epochs
        /\ store[Dir(g, 0)].owner = g /\ store[Dir(g, 0)].marker = "none"

TaskOK(g, r) ==
    /\ Trains(task[g][r])
    /\ Writes(g, r)
    /\ r = 0 => /\ Precedes(task[g][0].parent, Dir(g, 0))
                /\ Commits(g) /\ Finishes(g) /\ Errs(g)

\* Attempts are numbered in order; one resumes from an earlier one and not at its end.
AttemptsOK ==
    /\ \A g \in DOMAIN jobs : jobs[g] <= ThisAttempt
    /\ \A a \in Attempt : resume[a] # NoCheckpoint =>
         resume[a] \in Checkpoint /\ resume[a][1] < a /\ resume[a][2] + 1 < Epochs

\* What the driver has made sure of, and what its results say.
DriverOK ==
    /\ driver.pc # "idle" => jobs # <<>> /\ result[ThisAttempt] = "none"
    /\ driver.pc \in {"returned", "verified"} => Published(Final) /\ ~Retried(ThisAttempt)
    /\ \A a \in Attempt :
         /\ result[a] # "none" => jobs # <<>> /\ a <= ThisAttempt
         /\ result[a] = "completed" => Published(<<a, Epochs - 1>>) /\ ~Retried(a)

\* A stage that was not submitted yet has done nothing.
LaterFresh ==
    \A g \in Job \ DOMAIN jobs : outcome[g] = "none" /\ \A r \in Rank : task[g][r] = Fresh

Directories == \A c \in Checkpoint : DirectoryOK(c)
Tasks == \A g \in DOMAIN jobs, r \in Rank : TaskOK(g, r)

TrainingInv ==
    TypeOK /\ Directories /\ Tasks /\ AttemptsOK /\ DriverOK /\ LaterFresh

-----------------------------------------------------------------------------
(* How tasks and directories change.                                       *)

\* Positions of ranks and stages.
LEMMA Positions ==
  ASSUME TypeOK
  PROVE  /\ World \in Nat \ {0} /\ Epochs \in Nat \ {0} /\ 0 \in Rank /\ MaxJobs \in Nat
         /\ Len(jobs) \in Nat /\ DOMAIN jobs = 1 .. Len(jobs) /\ DOMAIN jobs \subseteq Job
         /\ \A g \in DOMAIN jobs : jobs[g] \in Attempt
BY WorldAssumption, EpochsAssumption, BoundsAssumption DEF TypeOK, Rank, Job

\* Where a rank stands within an epoch, its directory is one of the checkpoints.
LEMMA DirIsCheckpoint ==
  ASSUME TypeOK, NEW g \in DOMAIN jobs, NEW r \in Rank, task[g][r].epoch # Epochs
  PROVE  Dir(g, r) \in Checkpoint /\ Dir(g, r)[1] = jobs[g] /\ Dir(g, r)[2] = task[g][r].epoch
<1>1. g \in Job /\ jobs[g] \in Attempt /\ Epochs \in Nat
  BY Positions
<1>2. task[g][r] \in Task
  BY <1>1 DEF TypeOK
<1>3. task[g][r].epoch \in 0 .. Epochs - 1
  BY <1>1, <1>2 DEF Task
<1> QED BY <1>1, <1>3 DEF Dir, Checkpoint

\* Every other task stays as it is.
Others(g, r) == \A h \in Job, q \in Rank : (h # g \/ q # r) => task'[h][q] = task[h][q]
TaskTypeOK == task \in [Job -> [Rank -> Task]]

LEMMA GotoMoves ==
  ASSUME TaskTypeOK, NEW g \in Job, NEW r \in Rank, NEW pc \in DOMAIN Order, Goto(g, r, pc)
  PROVE  /\ TaskTypeOK' /\ Others(g, r)
         /\ task'[g][r].pc = pc /\ task'[g][r].epoch = task[g][r].epoch
         /\ task'[g][r].trained = task[g][r].trained /\ task'[g][r].own = task[g][r].own
         /\ task'[g][r].parent = task[g][r].parent /\ task'[g][r].alive = task[g][r].alive
<1>1. task[g][r] \in Task /\ task' = [task EXCEPT ![g][r].pc = pc]
  BY DEF TaskTypeOK, Goto
<1>2. TaskTypeOK'
  BY <1>1 DEF TaskTypeOK, Task
<1>3. Others(g, r)
  BY <1>1 DEF TaskTypeOK, Others
<1>4. task'[g][r] = [task[g][r] EXCEPT !.pc = pc]
  BY <1>1 DEF TaskTypeOK
<1> QED BY <1>1, <1>2, <1>3, <1>4 DEF Task

LEMMA RaiseMoves ==
  ASSUME TaskTypeOK, NEW g \in Job, NEW r \in Rank, Raise(g, r)
  PROVE  /\ TaskTypeOK' /\ Others(g, r)
         /\ task'[g][r].pc = task[g][r].pc /\ task'[g][r].epoch = task[g][r].epoch
         /\ task'[g][r].trained = task[g][r].trained
         /\ task'[g][r].parent = task[g][r].parent /\ task'[g][r].alive = FALSE
<1>1. task[g][r] \in Task /\ task' = [task EXCEPT ![g][r].alive = FALSE]
  BY DEF TaskTypeOK, Raise
<1>2. TaskTypeOK'
  BY <1>1 DEF TaskTypeOK, Task
<1>3. Others(g, r)
  BY <1>1 DEF TaskTypeOK, Others
<1>4. task'[g][r] = [task[g][r] EXCEPT !.alive = FALSE]
  BY <1>1 DEF TaskTypeOK
<1> QED BY <1>1, <1>2, <1>3, <1>4 DEF Task

LEMMA NextEpochMoves ==
  ASSUME TypeOK, NEW g \in DOMAIN jobs, NEW r \in Rank, NextEpoch(g, r), task[g][r].epoch # Epochs
  PROVE  /\ TaskTypeOK' /\ Others(g, r)
         /\ task'[g][r].epoch = task[g][r].epoch + 1 /\ task'[g][r].parent = Dir(g, r)
         /\ task'[g][r].pc = IF task[g][r].epoch + 1 < Epochs THEN "train" ELSE "receipts"
         /\ task'[g][r].trained = task[g][r].trained /\ task'[g][r].alive = task[g][r].alive
<1> DEFINE e == task[g][r].epoch + 1
           pc == IF e < Epochs THEN "train" ELSE "receipts"
<1>1. g \in Job /\ Epochs \in Nat /\ Dir(g, r) \in Checkpoint
  BY Positions, DirIsCheckpoint
<1>2. task[g][r] \in Task /\ TaskTypeOK
  BY <1>1 DEF TypeOK, TaskTypeOK
<1>3. e \in 0 .. Epochs
  BY <1>1, <1>2 DEF Task
<1>4. pc \in DOMAIN Order
  BY DEF Order
<1>5. task' = [task EXCEPT ![g][r].epoch = e, ![g][r].parent = Dir(g, r), ![g][r].pc = pc]
  BY DEF NextEpoch
<1> HIDE DEF e, pc
<1>6. /\ TaskTypeOK' /\ Others(g, r)
      /\ task'[g][r].epoch = e /\ task'[g][r].parent = Dir(g, r) /\ task'[g][r].pc = pc
      /\ task'[g][r].trained = task[g][r].trained /\ task'[g][r].alive = task[g][r].alive
  BY <1>1, <1>2, <1>3, <1>4, <1>5 DEF TaskTypeOK, Task, Others
<1> QED BY <1>6 DEF e, pc

\* What has become durable stays, and a part that is ready stays there.
Persists ==
    \A c \in Checkpoint :
        /\ store[c].marker = "synced" => store'[c].marker = "synced"
        /\ store[c].manifest = "synced" => store'[c].manifest = "synced"
        /\ \A r \in Rank : store[c].part[r].file = "ready" => store'[c].part[r].file = "ready"

\* A parent stays one.
LEMMA PrecedesKept ==
  ASSUME Persists, NEW p, NEW c, Precedes(p, c) PROVE Precedes(p, c)'
BY DEF Persists, Precedes, Ready

\* What a step of rank r of stage g may do to the store: it touches its own directory,
\* as the stage that owns it or begins it, and its own part unless it is rank 0.
Local(g, r) ==
    /\ \A d \in Checkpoint : d # Dir(g, r) => store'[d] = store[d]
    /\ store[Dir(g, r)].owner \in {0, g} \/ store' = store
    /\ store[Dir(g, r)].owner # 0 => store'[Dir(g, r)].owner = store[Dir(g, r)].owner
    /\ \A q \in Rank \ {r} : store'[Dir(g, r)].part[q] = store[Dir(g, r)].part[q]
    /\ r # 0 => /\ store'[Dir(g, r)].marker = store[Dir(g, r)].marker
                /\ store'[Dir(g, r)].manifest = store[Dir(g, r)].manifest

\* What the other ranks know survives such a step.
LEMMA OthersKept ==
  ASSUME TrainingInv, NEW g \in DOMAIN jobs, NEW r \in Rank, Others(g, r), Local(g, r), Persists,
         jobs' = jobs, \A h \in Job : h # g \/ r # 0 => outcome'[h] = outcome[h],
         NEW h \in DOMAIN jobs, NEW q \in Rank, h # g \/ q # r
  PROVE  TaskOK(h, q)'
<1>1. TypeOK /\ TaskOK(h, q) /\ g \in Job /\ h \in Job /\ h # 0 /\ 0 \in Rank
  BY Positions DEF TrainingInv, Tasks, Job
<1>2. task'[h][q] = task[h][q] /\ Dir(h, q)' = Dir(h, q)
  BY <1>1 DEF Others, Dir
<1> DEFINE c == Dir(g, r)
           d == Dir(h, q)
<1>3. task[h][q].epoch # Epochs => d \in Checkpoint
  BY <1>1, DirIsCheckpoint
<1>4. Trains(task'[h][q])
  BY <1>1, <1>2 DEF TaskOK
<1>5. Writes(h, q)'
  <2> SUFFICES ASSUME task[h][q].alive, task[h][q].pc = "partial"
               PROVE  store'[d].owner = h /\ store'[d].part[q].file = "partial"
    BY <1>2 DEF Writes
  <2>1. store[d].owner = h /\ store[d].part[q].file = "partial" /\ d \in Checkpoint
    BY <1>1, <1>3 DEF TaskOK, Trains, Writes
  <2>2. CASE d # c
    BY <2>1, <2>2 DEF Local
  <2>3. CASE d = c
    BY <1>1, <2>1, <2>3 DEF Local
  <2> QED BY <2>2, <2>3
<1>6. ASSUME q = 0
      PROVE  /\ Precedes(task[h][0].parent, Dir(h, 0))'
             /\ Commits(h)' /\ Finishes(h)' /\ Errs(h)'
  <2>1. task'[h][0] = task[h][0] /\ Dir(h, 0)' = Dir(h, 0) /\ d = Dir(h, 0) /\ outcome'[h] = outcome[h]
    BY <1>1, <1>2, <1>6
  <2>2. Precedes(task[h][0].parent, Dir(h, 0))'
    <3>1. Precedes(task[h][0].parent, Dir(h, 0))
      BY <1>1, <1>6 DEF TaskOK
    <3> DEFINE p == task[h][0].parent
    <3>2. ASSUME NEW x, NEW y, Precedes(x, y), task'[h][0].parent = x, Dir(h, 0)' = y
          PROVE  Precedes(task[h][0].parent, Dir(h, 0))'
      BY <3>2, PrecedesKept DEF Precedes, Ready
    <3> QED BY <2>1, <3>1, <3>2
  <2>3. Finishes(h)'
    <3>1. Finishes(h) /\ <<jobs[h], Epochs - 1>> \in Checkpoint
      BY <1>1, <1>6, Positions DEF TaskOK, Checkpoint
    <3> QED BY <2>1, <3>1 DEF Finishes, Published, Persists
  <2>4. ASSUME d \in Checkpoint, store[d].owner = h
        PROVE  /\ store'[d].owner = h /\ store'[d].marker = store[d].marker
               /\ store'[d].manifest = store[d].manifest
    BY <1>1, <1>6, <2>4 DEF Local
  <2>5. Commits(h)'
    <3>1. Commits(h) /\ Trains(task[h][0])
      BY <1>1, <1>6 DEF TaskOK
    <3>2. ASSUME task[h][0].alive, task[h][0].pc \in {"write", "partial", "acks", "manifest", "link", "linked"}
          PROVE  d \in Checkpoint /\ store[d].owner = h
      BY <1>3, <1>6, <2>1, <3>1, <3>2 DEF Commits, Trains
    <3> QED BY <2>1, <2>4, <3>1, <3>2 DEF Commits
  <2>6. Errs(h)'
    <3>1. Errs(h)
      BY <1>1, <1>6 DEF TaskOK
    <3>2. Epochs \in Nat /\ (task[h][0].epoch < Epochs => task[h][0].epoch # Epochs)
      <4>1. task[h][0] \in Task /\ Epochs \in Nat
        BY <1>1, Positions DEF TypeOK
      <4> QED BY <4>1 DEF Task
    <3> QED BY <1>3, <1>6, <2>1, <2>4, <3>1, <3>2 DEF Errs
  <2> QED BY <2>2, <2>3, <2>5, <2>6
<1> QED BY <1>4, <1>5, <1>6 DEF TaskOK

\* Other directories keep what they show.
LEMMA DirectoryKept ==
  ASSUME NEW d \in Checkpoint, DirectoryOK(d), store'[d] = store[d], jobs' = jobs, Persists
  PROVE  DirectoryOK(d)'
<1>1. store[d].owner # 0 => Precedes(store[d].parent, d)'
  <2>1. ASSUME NEW x, Precedes(x, d) PROVE Precedes(x, d)'
    BY <2>1, PrecedesKept
  <2> QED BY <2>1 DEF DirectoryOK
<1>2. (ReplicasAgree(d) => ReplicasAgree(d)') /\ (Ready(d) => Ready(d)')
  BY DEF ReplicasAgree, Replica, Ready
<1> QED BY <1>1, <1>2 DEF DirectoryOK

\* The driver's knowledge survives what ranks do.
LEMMA DriverKept ==
  ASSUME TypeOK, DriverOK, AttemptsOK, Persists, UNCHANGED <<jobs, driver, resume, result>>
  PROVE  DriverOK' /\ AttemptsOK'
<1>1. \A c \in Checkpoint : Published(c) => Published(c)'
  BY DEF Persists, Published
<1>2. \A a \in Attempt : <<a, Epochs - 1>> \in Checkpoint
  BY Positions DEF Checkpoint
<1>3. jobs # <<>> => ThisAttempt \in Attempt
  BY DEF TypeOK, ThisAttempt, Latest
<1>4. AttemptsOK'
  BY DEF AttemptsOK, ThisAttempt, Latest
<1>5. DriverOK'
  <2>1. ThisAttempt' = ThisAttempt /\ \A a : Retried(a)' <=> Retried(a)
    BY DEF ThisAttempt, Latest, Retried
  <2>2. driver.pc \in {"returned", "verified"} => Published(Final)'
    <3>1. ASSUME driver.pc \in {"returned", "verified"} PROVE Published(Final)'
      <4>1. jobs # <<>> /\ Published(Final)
        BY <3>1 DEF DriverOK
      <4>2. Final \in Checkpoint /\ Final' = Final
        BY <1>2, <1>3, <2>1, <4>1 DEF Final
      <4> QED BY <4>1, <4>2 DEF Published, Persists
    <3> QED BY <3>1
  <2>3. \A a \in Attempt : Published(<<a, Epochs - 1>>) => Published(<<a, Epochs - 1>>)'
    BY <1>1, <1>2
  <2> QED BY <2>1, <2>2, <2>3 DEF DriverOK
<1> QED BY <1>4, <1>5

\* A step of one rank keeps the invariant when it keeps what that rank knows and what
\* its directory shows.
LEMMA RankMoves ==
  ASSUME TrainingInv, NEW g \in DOMAIN jobs, NEW r \in Rank, TypeOK',
         Others(g, r), Local(g, r), Persists, UNCHANGED <<jobs, driver, resume, result>>,
         \A h \in Job : h # g \/ r # 0 => outcome'[h] = outcome[h],
         TaskOK(g, r)',
         \A d \in Checkpoint : d = Dir(g, r) => DirectoryOK(d)'
  PROVE  TrainingInv'
<1>1. g \in Job /\ jobs' = jobs
  BY Positions DEF TrainingInv
<1>2. Directories'
  <2>1. ASSUME NEW d \in Checkpoint PROVE DirectoryOK(d)'
    BY <1>1, <2>1, DirectoryKept DEF TrainingInv, Directories, Local
  <2> QED BY <2>1 DEF Directories
<1>3. Tasks'
  <2>1. ASSUME NEW h \in DOMAIN jobs, NEW q \in Rank PROVE TaskOK(h, q)'
    BY <1>1, <2>1, OthersKept
  <2> QED BY <1>1, <2>1 DEF Tasks
<1>4. DriverOK' /\ AttemptsOK'
  BY DriverKept DEF TrainingInv
<1>5. LaterFresh'
  BY <1>1 DEF TrainingInv, LaterFresh, Others
<1> QED BY <1>2, <1>3, <1>4, <1>5 DEF TrainingInv

\* A step of a rank that leaves the store alone.
LEMMA QuietMoves ==
  ASSUME TrainingInv, NEW g \in DOMAIN jobs, NEW r \in Rank, TypeOK',
         Others(g, r), UNCHANGED <<store, jobs, driver, resume, result>>,
         \A h \in Job : h # g \/ r # 0 => outcome'[h] = outcome[h],
         TaskOK(g, r)'
  PROVE  TrainingInv'
<1>1. Local(g, r) /\ Persists
  BY DEF Local, Persists
<1>2. \A d \in Checkpoint : DirectoryOK(d)'
  BY <1>1, DirectoryKept DEF TrainingInv, Directories
<1> QED BY <1>1, <1>2, RankMoves

-----------------------------------------------------------------------------
(* The steps of a rank.                                                    *)

\* What every step of a rank can rely on.
LEMMA RankFacts ==
  ASSUME TrainingInv, NEW g \in Job, NEW r \in Rank, NEW pc \in DOMAIN Order, Runs(g, r, pc)
  PROVE  /\ g \in DOMAIN jobs /\ TypeOK /\ TaskTypeOK /\ TaskOK(g, r) /\ task[g][r] \in Task
         /\ task[g][r].alive /\ task[g][r].pc = pc
         /\ pc \notin {"receipts", "done"} =>
              /\ task[g][r].epoch # Epochs /\ task[g][r].epoch + 1 <= Epochs
              /\ Dir(g, r) \in Checkpoint /\ Dir(g, r)[1] = jobs[g] /\ Dir(g, r)[2] = task[g][r].epoch
              /\ DirectoryOK(Dir(g, r)) /\ store[Dir(g, r)] \in Directory
<1>1. TypeOK /\ g \in DOMAIN jobs /\ Epochs \in Nat
  <2>1. g \in 1 .. Len(jobs)
    BY Positions DEF Runs, TrainingInv, Job
  <2> QED BY <2>1, Positions DEF TrainingInv
<1>2. TaskTypeOK /\ TaskOK(g, r) /\ task[g][r] \in Task /\ task[g][r].alive /\ task[g][r].pc = pc
  BY <1>1 DEF TrainingInv, Tasks, TypeOK, TaskTypeOK, Runs
<1>3. ASSUME pc \notin {"receipts", "done"}
      PROVE  task[g][r].epoch # Epochs /\ task[g][r].epoch + 1 <= Epochs
  <2>1. task[g][r].epoch # Epochs /\ task[g][r].epoch \in 0 .. Epochs
    BY <1>2, <1>3 DEF TaskOK, Trains, Task
  <2> QED BY <1>1, <2>1
<1>4. ASSUME pc \notin {"receipts", "done"}
      PROVE  /\ Dir(g, r) \in Checkpoint /\ Dir(g, r)[1] = jobs[g] /\ Dir(g, r)[2] = task[g][r].epoch
             /\ DirectoryOK(Dir(g, r)) /\ store[Dir(g, r)] \in Directory
  BY <1>1, <1>3, <1>4, DirIsCheckpoint DEF TrainingInv, Directories, TypeOK
<1> QED BY <1>1, <1>2, <1>3, <1>4

LEMMA TypesMove ==
  ASSUME TypeOK, TaskTypeOK', UNCHANGED <<jobs, driver, resume, result>>,
         store' \in [Checkpoint -> Directory],
         outcome' \in [Job -> {"none", "error", "ambiguous"}], faults' \in 0 .. MaxFaults
  PROVE  TypeOK'
BY DEF TypeOK, TaskTypeOK

LEMMA FaultTypes == ASSUME TypeOK, Fault PROVE faults' \in 0 .. MaxFaults
BY BoundsAssumption DEF TypeOK, Fault

\* The parent of a rank's next checkpoint stays one while the rank stays in its epoch.
LEMMA ParentKept ==
  ASSUME Persists, NEW g \in DOMAIN jobs, Precedes(task[g][0].parent, Dir(g, 0)), jobs' = jobs,
         task'[g][0].parent = task[g][0].parent, task'[g][0].epoch = task[g][0].epoch
  PROVE  Precedes(task[g][0].parent, Dir(g, 0))'
<1>1. Dir(g, 0)' = Dir(g, 0)
  BY DEF Dir
<1>2. ASSUME NEW x, NEW y, Precedes(x, y), task'[g][0].parent = x, Dir(g, 0)' = y
      PROVE  Precedes(task[g][0].parent, Dir(g, 0))'
  BY <1>2, PrecedesKept DEF Precedes, Ready
<1> QED BY <1>1, <1>2

\* A rank that raises knows nothing any more but the error it left.
LEMMA RaisedTask ==
  ASSUME TrainingInv, NEW g \in DOMAIN jobs, NEW r \in Rank, TaskTypeOK, Raise(g, r), Persists, jobs' = jobs,
         r = 0 => Errs(g)'
  PROVE  TaskOK(g, r)'
<1>1. g \in Job /\ TypeOK /\ TaskOK(g, r)
  BY Positions DEF TrainingInv, Tasks
<1>2. /\ task'[g][r].pc = task[g][r].pc /\ task'[g][r].epoch = task[g][r].epoch
      /\ task'[g][r].trained = task[g][r].trained
      /\ task'[g][r].parent = task[g][r].parent /\ task'[g][r].alive = FALSE
  BY <1>1, RaiseMoves
<1>3. Trains(task'[g][r]) /\ Writes(g, r)'
  BY <1>1, <1>2 DEF TaskOK, Trains, Writes
<1>4. ASSUME r = 0 PROVE Precedes(task[g][0].parent, Dir(g, 0))' /\ Commits(g)' /\ Finishes(g)'
  <2>1. Precedes(task[g][0].parent, Dir(g, 0))'
    BY <1>1, <1>2, <1>4, ParentKept DEF TaskOK
  <2>2. Finishes(g)'
    <3>1. Finishes(g) /\ <<jobs[g], Epochs - 1>> \in Checkpoint
      BY <1>1, <1>4, Positions DEF TaskOK, Checkpoint
    <3> QED BY <1>2, <1>4, <3>1 DEF Finishes, Published, Persists
  <2>3. Commits(g)'
    BY <1>2, <1>4 DEF Commits
  <2> QED BY <2>1, <2>2, <2>3
<1> QED BY <1>3, <1>4 DEF TaskOK

\* A rank that raises without touching the store: a plain error only before the link.
LEMMA RaiseKeeps ==
  ASSUME TrainingInv, NEW g \in DOMAIN jobs, NEW r \in Rank, Raise(g, r), task[g][r].alive,
         UNCHANGED <<store, jobs, driver, resume, result>>, faults' \in 0 .. MaxFaults,
         \/ outcome' = outcome
         \/ r = 0 /\ outcome' = [outcome EXCEPT ![g] = "ambiguous"]
         \/ /\ r = 0 /\ task[g][0].pc \in {"acks", "manifest", "link"}
            /\ outcome' = [outcome EXCEPT ![g] = "error"]
  PROVE  TrainingInv'
<1>1. g \in Job /\ TypeOK /\ TaskTypeOK /\ TaskOK(g, r) /\ Epochs \in Nat
  BY Positions DEF TrainingInv, Tasks, TypeOK, TaskTypeOK
<1>2. /\ TaskTypeOK' /\ Others(g, r)
      /\ task'[g][r].pc = task[g][r].pc /\ task'[g][r].epoch = task[g][r].epoch
      /\ task'[g][r].alive = FALSE
  BY <1>1, RaiseMoves
<1>3. /\ outcome' \in [Job -> {"none", "error", "ambiguous"}]
      /\ \A h \in Job : h # g \/ r # 0 => outcome'[h] = outcome[h]
  BY <1>1 DEF TypeOK
<1>4. TypeOK'
  BY <1>1, <1>2, <1>3, TypesMove DEF TypeOK
<1>5. ASSUME r = 0 PROVE Errs(g)'
  <2>1. Errs(g) /\ Commits(g) /\ Trains(task[g][0]) /\ task[g][0] \in Task
    BY <1>1, <1>5 DEF TaskOK, TypeOK
  <2>2. Dir(g, 0)' = Dir(g, 0)
    BY <1>2, <1>5 DEF Dir
  <2>3. CASE outcome'[g] = outcome[g]
    BY <1>2, <1>5, <2>1, <2>2, <2>3 DEF Errs
  <2>4. CASE task[g][0].pc \in {"acks", "manifest", "link"}
    <3>1. store[Dir(g, 0)].owner = g /\ store[Dir(g, 0)].marker = "none"
      BY <1>5, <2>1, <2>4 DEF Commits
    <3>2. task[g][0].epoch < Epochs
      BY <1>1, <2>1, <2>4 DEF Trains, Task
    <3> QED BY <1>2, <1>5, <2>2, <3>1, <3>2 DEF Errs
  <2>5. CASE outcome'[g] = "ambiguous"
    BY <2>5 DEF Errs
  <2> QED BY <1>1, <2>3, <2>4, <2>5 DEF TypeOK
<1>6. TaskOK(g, r)'
  <2>1. Persists
    BY DEF Persists
  <2> QED BY <1>1, <1>5, <2>1, RaisedTask
<1> QED BY <1>2, <1>3, <1>4, <1>6, QuietMoves

LEMMA Steps ==
  DOMAIN Order = {"restore", "train", "ledgers", "write", "partial", "acks", "manifest", "link",
                  "linked", "receipts", "done"}
BY DEF Order

\* A live rank that stays in its epoch: its parent stays, and it has left no error.
LEMMA SelfTask ==
  ASSUME TrainingInv, NEW g \in DOMAIN jobs, NEW r \in Rank, task[g][r].alive, Persists, jobs' = jobs,
         outcome' = outcome, task'[g][r].parent = task[g][r].parent,
         task'[g][r].epoch = task[g][r].epoch,
         Trains(task'[g][r]), Writes(g, r)', r = 0 => Commits(g)' /\ Finishes(g)'
  PROVE  TaskOK(g, r)'
<1>1. TaskOK(g, r)
  BY DEF TrainingInv, Tasks
<1>2. ASSUME r = 0 PROVE Precedes(task[g][0].parent, Dir(g, 0))' /\ Errs(g)'
  BY <1>1, <1>2, ParentKept DEF TaskOK, Errs
<1> QED BY <1>2 DEF TaskOK

\* A live rank that moves on within its epoch without touching the store.
LEMMA GotoKeeps ==
  ASSUME TrainingInv, NEW g \in DOMAIN jobs, NEW r \in Rank, NEW pc \in DOMAIN Order, Goto(g, r, pc),
         task[g][r].alive, UNCHANGED <<store, outcome, faults, jobs, driver, resume, result>>,
         Trains(task'[g][r]), Writes(g, r)', r = 0 => Commits(g)' /\ Finishes(g)'
  PROVE  TrainingInv'
<1>1. g \in Job /\ TypeOK /\ TaskTypeOK
  BY Positions DEF TrainingInv, TypeOK, TaskTypeOK
<1>2. /\ TaskTypeOK' /\ Others(g, r) /\ task'[g][r].parent = task[g][r].parent
      /\ task'[g][r].epoch = task[g][r].epoch
  BY <1>1, GotoMoves
<1>3. TypeOK'
  BY <1>1, <1>2, TypesMove DEF TypeOK
<1>4. TaskOK(g, r)'
  BY <1>2, SelfTask DEF Persists
<1> QED BY <1>2, <1>3, <1>4, QuietMoves

LEMMA ReceiveHandleKeeps ==
  ASSUME TrainingInv, NEW g \in Job, NEW r \in Rank, ReceiveHandle(g, r),
         UNCHANGED <<jobs, driver, resume, result>>
  PROVE  TrainingInv'
<1>1. Runs(g, r, "ledgers") /\ r # 0 /\ Goto(g, r, "write")
  BY DEF ReceiveHandle
<1>2. g \in DOMAIN jobs /\ TaskTypeOK /\ TaskOK(g, r) /\ task[g][r].alive /\ task[g][r].pc = "ledgers"
  BY <1>1, RankFacts, Steps
<1>3. task'[g][r].pc = "write" /\ task'[g][r].epoch = task[g][r].epoch
      /\ task'[g][r].trained = task[g][r].trained
  BY <1>1, <1>2, GotoMoves, Steps
<1>4. Trains(task'[g][r]) /\ Writes(g, r)'
  BY <1>2, <1>3 DEF TaskOK, Trains, Writes
<1> QED BY <1>1, <1>2, <1>4, GotoKeeps, Steps DEF ReceiveHandle

LEMMA GatherReceiptsKeeps ==
  ASSUME TrainingInv, NEW g \in Job, NEW r \in Rank, GatherReceipts(g, r),
         UNCHANGED <<jobs, driver, resume, result>>
  PROVE  TrainingInv'
<1>1. Runs(g, r, "receipts") /\ Goto(g, r, "done")
  BY DEF GatherReceipts
<1>2. g \in DOMAIN jobs /\ TaskTypeOK /\ TaskOK(g, r) /\ task[g][r].alive /\ task[g][r].pc = "receipts"
  BY <1>1, RankFacts, Steps
<1>3. task'[g][r].pc = "done" /\ task'[g][r].epoch = task[g][r].epoch
      /\ task'[g][r].trained = task[g][r].trained
  BY <1>1, <1>2, GotoMoves, Steps
<1>4. Trains(task'[g][r]) /\ Writes(g, r)'
  BY <1>2, <1>3 DEF TaskOK, Trains, Writes
<1>5. r = 0 => Commits(g)' /\ Finishes(g)'
  BY <1>2, <1>3 DEF TaskOK, Commits, Finishes, Published, GatherReceipts
<1> QED BY <1>1, <1>2, <1>4, <1>5, GotoKeeps, Steps DEF GatherReceipts

\* A collective that fails, and a rank that is killed.
LEMMA CollectiveFailsKeeps ==
  ASSUME TrainingInv, NEW g \in Job, NEW r \in Rank, CollectiveFails(g, r) \/ Killed(g, r),
         UNCHANGED <<jobs, driver, resume, result>>
  PROVE  TrainingInv'
<1>1. g \in DOMAIN jobs /\ task[g][r].alive /\ TypeOK
  <2>1. g \in 1 .. Len(jobs) /\ task[g][r].alive
    BY Positions DEF CollectiveFails, Waits, Runs, Killed, TrainingInv, Job
  <2> QED BY <2>1, Positions DEF TrainingInv
<1>2. faults' \in 0 .. MaxFaults
  BY <1>1, FaultTypes DEF CollectiveFails, Killed, TypeOK
<1> QED BY <1>1, <1>2, RaiseKeeps DEF CollectiveFails, Killed

LEMMA CommitIoFailsKeeps ==
  ASSUME TrainingInv, NEW g \in Job, CommitIoFails(g), UNCHANGED <<jobs, driver, resume, result>>
  PROVE  TrainingInv'
<1>1. PICK pc \in {"acks", "manifest", "link", "linked"} : Runs(g, 0, pc)
  BY DEF CommitIoFails
<1>2. TypeOK /\ 0 \in Rank
  BY Positions DEF TrainingInv
<1>3. g \in DOMAIN jobs /\ task[g][0].alive /\ task[g][0].pc = pc
  BY <1>1, <1>2, RankFacts, Steps
<1>4. faults' \in 0 .. MaxFaults
  BY <1>2, FaultTypes DEF CommitIoFails
<1>5. Raise(g, 0) /\ UNCHANGED store
      /\ outcome' = [outcome EXCEPT ![g] = IF task[g][0].pc = "linked" THEN "ambiguous" ELSE "error"]
  BY DEF CommitIoFails, CommitRaises
<1> QED BY <1>2, <1>3, <1>4, <1>5, RaiseKeeps

\* A task that is replaced by another one.
LEMMA TaskMoves ==
  ASSUME TaskTypeOK, NEW g \in Job, NEW r \in Rank, NEW t \in Task, task' = [task EXCEPT ![g][r] = t]
  PROVE  TaskTypeOK' /\ Others(g, r) /\ task'[g][r] = t
BY DEF TaskTypeOK, Others

\* A checkpoint that loads can be continued by a later attempt.
LEMMA LoadableFacts ==
  ASSUME TrainingInv, NEW c \in Checkpoint, Loadable(c), NEW r \in Rank, NEW a \in Attempt, c[1] < a
  PROVE  /\ store[c].part[r].trained = c[2] + 1 /\ store[c].part[r].own \in BOOLEAN
         /\ Precedes(c, <<a, c[2] + 1>>)
<1>1. DirectoryOK(c) /\ store[c] \in Directory /\ c[1] \in Attempt /\ c[2] \in Nat
  BY DEF TrainingInv, Directories, TypeOK, Checkpoint
<1>2. store[c].manifest = "synced" /\ Ready(c)
  BY <1>1 DEF Loadable, Marked, DirectoryOK
<1>3. store[c].part[r].trained = c[2] + 1
  BY <1>1, <1>2 DEF DirectoryOK, Ready
<1>4. store[c].part[r] \in Part
  BY <1>1 DEF Directory
<1>5. c[1] # a
  BY <1>1 DEF Attempt
<1>6. Precedes(c, <<a, c[2] + 1>>)
  BY <1>1, <1>2, <1>5 DEF Precedes
<1> QED BY <1>3, <1>4, <1>6 DEF Part

LEMMA RestoreKeeps ==
  ASSUME TrainingInv, NEW g \in Job, NEW r \in Rank, Restore(g, r),
         UNCHANGED <<jobs, driver, resume, result>>
  PROVE  TrainingInv'
<1> DEFINE c == resume[jobs[g]]
<1>1. /\ Runs(g, r, "restore") /\ UNCHANGED <<store, outcome, faults>>
      /\ \/ c = NoCheckpoint /\ Goto(g, r, "train")
         \/ /\ c # NoCheckpoint /\ Loadable(c)
            /\ task' = [task EXCEPT ![g][r] =
                          [@ EXCEPT !.pc = "train", !.epoch = c[2] + 1, !.parent = c,
                                    !.trained = store[c].part[r].trained,
                                    !.own = store[c].part[r].own]]
         \/ c # NoCheckpoint /\ ~Loadable(c) /\ Raise(g, r)
  BY DEF Restore
<1>2. /\ g \in DOMAIN jobs /\ TypeOK /\ TaskTypeOK /\ TaskOK(g, r) /\ task[g][r] \in Task
      /\ task[g][r].alive /\ task[g][r].pc = "restore"
  <2>1. Runs(g, r, "restore") /\ "restore" \in DOMAIN Order
    BY <1>1, Steps
  <2> HIDE DEF c
  <2> QED BY <2>1, RankFacts
<1>3. Epochs \in Nat \ {0} /\ jobs[g] \in Attempt
  BY <1>2, Positions
<1>4. CASE c = NoCheckpoint /\ Goto(g, r, "train")
  <2>1. task'[g][r].pc = "train" /\ task'[g][r].epoch = task[g][r].epoch
        /\ task'[g][r].trained = task[g][r].trained
    BY <1>2, <1>4, GotoMoves, Steps
  <2>2. Trains(task'[g][r]) /\ Writes(g, r)'
    BY <1>2, <2>1 DEF TaskOK, Trains, Writes
  <2>3. r = 0 => Commits(g)' /\ Finishes(g)'
    BY <2>1 DEF Commits, Finishes
  <2> QED BY <1>1, <1>2, <1>4, <2>2, <2>3, GotoKeeps, Steps
<1>5. CASE /\ c # NoCheckpoint /\ Loadable(c)
           /\ task' = [task EXCEPT ![g][r] =
                         [@ EXCEPT !.pc = "train", !.epoch = c[2] + 1, !.parent = c,
                                   !.trained = store[c].part[r].trained,
                                   !.own = store[c].part[r].own]]
  <2>1. c \in Checkpoint /\ c[1] < jobs[g] /\ c[2] + 1 < Epochs
    BY <1>3, <1>5 DEF TrainingInv, AttemptsOK
  <2>2. /\ store[c].part[r].trained = c[2] + 1 /\ store[c].part[r].own \in BOOLEAN
        /\ Precedes(c, <<jobs[g], c[2] + 1>>)
    BY <1>3, <1>5, <2>1, LoadableFacts
  <2>3. c[2] + 1 \in 0 .. Epochs /\ c[2] + 1 # Epochs
    BY <1>3, <2>1 DEF Checkpoint
  <2> DEFINE own == store[c].part[r].own
             trained == store[c].part[r].trained
             t == [task[g][r] EXCEPT !.pc = "train", !.epoch = c[2] + 1, !.parent = c,
                                     !.trained = trained, !.own = own]
  <2>4. own \in BOOLEAN /\ trained = c[2] + 1
    BY <2>2
  <2>5. task' = [task EXCEPT ![g][r] = t]
    BY <1>5
  <2> HIDE DEF own, trained, c
  <2>6. t \in Task /\ t.pc = "train" /\ t.epoch = c[2] + 1 /\ t.parent = c /\ t.trained = c[2] + 1
    BY <1>2, <2>1, <2>3, <2>4, Steps DEF Task
  <2> HIDE DEF t
  <2>7. TaskTypeOK' /\ Others(g, r) /\ task'[g][r] = t
    BY <1>2, <2>5, <2>6, TaskMoves
  <2>8. TypeOK'
    BY <1>1, <1>2, <2>7, TypesMove DEF TypeOK
  <2>9. Trains(task'[g][r])
    BY <2>3, <2>6, <2>7 DEF Trains
  <2>10. Writes(g, r)'
    BY <2>6, <2>7 DEF Writes
  <2>11. ASSUME r = 0
         PROVE  Precedes(task[g][0].parent, Dir(g, 0))' /\ Commits(g)' /\ Finishes(g)' /\ Errs(g)'
    <3>1. task'[g][0].parent = c /\ Dir(g, 0)' = <<jobs[g], c[2] + 1>> /\ task'[g][0].pc = "train"
      BY <2>6, <2>7, <2>11 DEF Dir
    <3>2. Precedes(task[g][0].parent, Dir(g, 0))'
      BY <1>1, <2>2, <3>1 DEF Precedes, Ready, c
    <3>3. Commits(g)' /\ Finishes(g)'
      BY <3>1 DEF Commits, Finishes
    <3>4. Errs(g)'
      BY <1>1, <1>2, <2>11 DEF TaskOK, Errs
    <3> QED BY <3>2, <3>3, <3>4
  <2>12. TaskOK(g, r)'
    BY <2>9, <2>10, <2>11 DEF TaskOK
  <2> QED BY <1>1, <1>2, <2>7, <2>8, <2>12, QuietMoves
<1>6. CASE Raise(g, r)
  BY <1>1, <1>2, <1>6, RaiseKeeps DEF TypeOK
<1> QED BY <1>1, <1>4, <1>5, <1>6

LEMMA TrainKeeps ==
  ASSUME TrainingInv, NEW g \in Job, NEW r \in Rank, Train(g, r),
         UNCHANGED <<jobs, driver, resume, result>>
  PROVE  TrainingInv'
<1>1. Runs(g, r, "train") /\ UNCHANGED <<store, outcome>>
  BY DEF Train
<1>2. /\ g \in DOMAIN jobs /\ TypeOK /\ TaskTypeOK /\ TaskOK(g, r) /\ task[g][r] \in Task
      /\ task[g][r].alive /\ task[g][r].pc = "train" /\ task[g][r].epoch # Epochs
      /\ task[g][r].epoch + 1 <= Epochs
  BY <1>1, RankFacts, Steps
<1>3. PICK drift \in BOOLEAN :
        /\ drift => faults < MaxFaults
        /\ task' = [task EXCEPT ![g][r] =
                      [task[g][r] EXCEPT !.pc = "ledgers", !.trained = task[g][r].trained + 1,
                                         !.own = task[g][r].own \/ drift]]
        /\ faults' = IF drift THEN faults + 1 ELSE faults
  BY DEF Train
<1> DEFINE own == task[g][r].own \/ drift
           trained == task[g][r].trained + 1
           t == [task[g][r] EXCEPT !.pc = "ledgers", !.trained = trained, !.own = own]
<1>4. own \in BOOLEAN
  BY <1>2 DEF Task
<1>5. trained = task[g][r].epoch + 1 /\ trained \in 0 .. Epochs
  <2>1. Epochs \in Nat /\ task[g][r].epoch \in Nat
    BY <1>2, Positions DEF Task
  <2> QED BY <1>2, <2>1 DEF TaskOK, Trains
<1>6. task' = [task EXCEPT ![g][r] = t]
  BY <1>3, Zenon
<1> HIDE DEF own, trained
<1>7. t \in Task /\ t.pc = "ledgers" /\ t.epoch = task[g][r].epoch /\ t.trained = t.epoch + 1
      /\ t.parent = task[g][r].parent
  BY <1>2, <1>4, <1>5, Steps DEF Task
<1> HIDE DEF t
<1>8. TaskTypeOK' /\ Others(g, r) /\ task'[g][r] = t
  BY ZenonT(40), <1>2, <1>6, <1>7, TaskMoves
<1>9. faults' \in 0 .. MaxFaults
  BY <1>2, <1>3, BoundsAssumption DEF TypeOK
<1>10. TypeOK'
  BY <1>1, <1>2, <1>8, <1>9, TypesMove DEF TypeOK
<1>11. Trains(task'[g][r]) /\ Writes(g, r)'
  BY <1>2, <1>7, <1>8 DEF Trains, Writes
<1>12. r = 0 => Commits(g)' /\ Finishes(g)'
  BY <1>7, <1>8 DEF Commits, Finishes
<1>13. Persists
  BY <1>1 DEF Persists
<1>14. TaskOK(g, r)'
  BY <1>1, <1>2, <1>7, <1>8, <1>11, <1>12, <1>13, SelfTask
<1> QED BY <1>1, <1>2, <1>8, <1>10, <1>14, QuietMoves

\* A live rank that moves on within its epoch and changes its own directory.
LEMMA StoreStep ==
  ASSUME TrainingInv, NEW g \in DOMAIN jobs, NEW r \in Rank, NEW pc \in DOMAIN Order, Goto(g, r, pc),
         task[g][r].alive, UNCHANGED <<outcome, faults, jobs, driver, resume, result>>,
         store' \in [Checkpoint -> Directory], Local(g, r), Persists,
         Trains(task'[g][r]), Writes(g, r)', r = 0 => Commits(g)' /\ Finishes(g)',
         \A d \in Checkpoint : d = Dir(g, r) => DirectoryOK(d)'
  PROVE  TrainingInv'
<1>1. g \in Job /\ TypeOK /\ TaskTypeOK
  BY Positions DEF TrainingInv, TypeOK, TaskTypeOK
<1>2. /\ TaskTypeOK' /\ Others(g, r) /\ task'[g][r].parent = task[g][r].parent
      /\ task'[g][r].epoch = task[g][r].epoch
  BY <1>1, GotoMoves
<1>3. TypeOK'
  BY <1>1, <1>2, TypesMove DEF TypeOK
<1>4. TaskOK(g, r)'
  BY <1>2, SelfTask
<1> QED BY <1>2, <1>3, <1>4, RankMoves

LEMMA BeginKeeps ==
  ASSUME TrainingInv, NEW g \in Job, Begin(g), UNCHANGED <<jobs, driver, resume, result>>
  PROVE  TrainingInv'
<1> DEFINE c == Dir(g, 0)
<1>1. /\ Runs(g, 0, "ledgers") /\ UNCHANGED <<outcome, faults>>
      /\ IF store[c].owner = 0
         THEN /\ store' = [store EXCEPT ![c].owner = g, ![c].parent = task[g][0].parent]
              /\ Goto(g, 0, "write")
         ELSE Raise(g, 0) /\ UNCHANGED store
  BY DEF Begin
<1>2. TypeOK /\ 0 \in Rank /\ g # 0 /\ g \in 0 .. MaxJobs
  BY Positions DEF TrainingInv, Job
<1>3. /\ g \in DOMAIN jobs /\ TaskTypeOK /\ TaskOK(g, 0) /\ task[g][0] \in Task
      /\ task[g][0].alive /\ task[g][0].pc = "ledgers" /\ c \in Checkpoint /\ c[1] = jobs[g]
      /\ DirectoryOK(c) /\ store[c] \in Directory /\ task[g][0].epoch # Epochs
  BY <1>1, <1>2, RankFacts, Steps
<1>4. CASE store[c].owner = 0
  <2>1. Goto(g, 0, "write") /\ store' = [store EXCEPT ![c].owner = g, ![c].parent = task[g][0].parent]
    BY <1>1, <1>4
  <2>2. task[g][0].parent \in Checkpoint \cup {NoCheckpoint}
    BY <1>3 DEF Task
  <2> HIDE DEF c
  <2>3. /\ store' \in [Checkpoint -> Directory] /\ store'[c].owner = g
        /\ store'[c].parent = task[g][0].parent /\ store'[c].part = store[c].part
        /\ store'[c].manifest = store[c].manifest /\ store'[c].marker = store[c].marker
        /\ \A d \in Checkpoint : d # c => store'[d] = store[d]
    BY <1>2, <1>3, <2>1, <2>2 DEF TypeOK, Directory
  <2>4. /\ task'[g][0].pc = "write" /\ task'[g][0].epoch = task[g][0].epoch
        /\ task'[g][0].trained = task[g][0].trained
    BY <1>2, <1>3, <2>1, GotoMoves, Steps
  <2>5. c' = c
    BY <2>4 DEF c, Dir
  <2>6. Persists
    BY <2>3 DEF Persists
  <2>7. Local(g, 0)
    BY <1>4, <2>3 DEF Local, c
  <2>8. store[c].marker = "none"
    BY <1>3, <1>4 DEF DirectoryOK
  <2>9. Trains(task'[g][0]) /\ Writes(g, 0)'
    BY <1>3, <2>4 DEF TaskOK, Trains, Writes
  <2>10. Commits(g)' /\ Finishes(g)'
    BY <2>3, <2>4, <2>5, <2>8 DEF Commits, Finishes, c
  <2>11. DirectoryOK(c)'
    <3>1. Precedes(task[g][0].parent, c)
      BY <1>3 DEF TaskOK, c
    <3>2. ASSUME NEW x, NEW y, Precedes(x, y) PROVE Precedes(x, y)'
      BY <2>6, <3>2, PrecedesKept
    <3>3. ASSUME NEW x, NEW y, x = store'[c].parent, y = c, Precedes(x, y)'
          PROVE  Precedes(store[c].parent, c)'
      BY <2>5, <3>3 DEF Precedes, Ready
    <3>4. Precedes(store[c].parent, c)'
      BY <2>3, <3>1, <3>2, <3>3
    <3>5. (Ready(c) => Ready(c)') /\ (ReplicasAgree(c) => ReplicasAgree(c)')
      BY <2>3, <2>5 DEF Ready, ReplicasAgree, Replica
    <3> QED BY <1>2, <1>3, <2>3, <2>5, <2>8, <3>4, <3>5 DEF DirectoryOK
  <2>12. \A d \in Checkpoint : d = Dir(g, 0) => DirectoryOK(d)'
    BY <2>5, <2>11 DEF c, DirectoryOK, Ready, ReplicasAgree, Replica, Precedes
  <2> QED BY <1>1, <1>2, <1>3, <2>1, <2>3, <2>6, <2>7, <2>9, <2>10, <2>12, StoreStep, Steps
<1>5. CASE store[c].owner # 0
  BY <1>1, <1>2, <1>3, <1>5, RaiseKeeps DEF TypeOK
<1> QED BY <1>4, <1>5

\* A directory keeps its owner and its parent.
LEMMA OwnerKept ==
  ASSUME NEW c \in Checkpoint, DirectoryOK(c), Persists, jobs' = jobs,
         store'[c].owner = store[c].owner, store'[c].parent = store[c].parent
  PROVE  store'[c].owner # 0 => /\ store'[c].owner \in DOMAIN jobs' /\ jobs'[store'[c].owner] = c[1]
                                /\ Precedes(store[c].parent, c)'
<1>1. ASSUME NEW x, Precedes(x, c) PROVE Precedes(x, c)'
  BY <1>1, PrecedesKept
<1>2. ASSUME NEW x, x = store'[c].parent, Precedes(x, c)' PROVE Precedes(store[c].parent, c)'
  BY <1>2 DEF Precedes, Ready
<1> QED BY <1>1, <1>2 DEF DirectoryOK

LEMMA WriteRankKeeps ==
  ASSUME TrainingInv, NEW g \in Job, NEW r \in Rank, WriteRank(g, r),
         UNCHANGED <<jobs, driver, resume, result>>
  PROVE  TrainingInv'
<1> PICK c : c = Dir(g, r)
  OBVIOUS
<1> DEFINE free == /\ store[c].owner = g /\ store[c].manifest = "none" /\ store[c].marker = "none"
                   /\ store[c].part[r] = NoPart
           part == [NoPart EXCEPT !.file = "partial", !.trained = task[g][r].trained,
                                  !.own = task[g][r].own]
<1>1. /\ Runs(g, r, "write") /\ UNCHANGED <<outcome, faults>>
      /\ \/ free /\ store' = [store EXCEPT ![c].part[r] = part] /\ Goto(g, r, "partial")
         \/ Raise(g, r) /\ UNCHANGED store
  BY DEF WriteRank
<1>2. /\ g \in DOMAIN jobs /\ TypeOK /\ TaskTypeOK /\ TaskOK(g, r) /\ task[g][r] \in Task
      /\ task[g][r].alive /\ task[g][r].pc = "write" /\ c \in Checkpoint /\ c[1] = jobs[g]
      /\ c[2] = task[g][r].epoch
      /\ DirectoryOK(c) /\ store[c] \in Directory /\ task[g][r].epoch # Epochs /\ g # 0
  <2>1. Runs(g, r, "write") /\ "write" \in DOMAIN Order
    BY <1>1, Steps
  <2> HIDE DEF free, part
  <2> QED BY <2>1, RankFacts DEF Job
<1>3. CASE free /\ store' = [store EXCEPT ![c].part[r] = part] /\ Goto(g, r, "partial")
  <2>1. part \in Part /\ part.file = "partial" /\ part.trained = c[2] + 1
    BY <1>2 DEF NoPart, Part, Task, TaskOK, Trains
  <2>2. /\ store' = [store EXCEPT ![c].part[r] = part] /\ Goto(g, r, "partial")
        /\ store[c].owner = g /\ store[c].manifest = "none" /\ store[c].marker = "none"
        /\ store[c].part[r].file = "none"
    BY <1>3 DEF NoPart
  <2> HIDE DEF part, free
  <2>3. /\ store' \in [Checkpoint -> Directory] /\ store'[c].owner = g
        /\ store'[c].parent = store[c].parent /\ store'[c].part[r] = part
        /\ store'[c].manifest = "none" /\ store'[c].marker = "none"
        /\ \A q \in Rank \ {r} : store'[c].part[q] = store[c].part[q]
        /\ \A d \in Checkpoint : d # c => store'[d] = store[d]
    BY ZenonT(40), <1>2, <2>1, <2>2 DEF TypeOK, Directory
  <2>4. /\ task'[g][r].pc = "partial" /\ task'[g][r].epoch = task[g][r].epoch
        /\ task'[g][r].trained = task[g][r].trained
    <3>1. TaskTypeOK /\ "partial" \in DOMAIN Order /\ Goto(g, r, "partial")
      BY <1>2, <2>2, Steps
    <3> QED BY <3>1, GotoMoves
  <2>5. Dir(g, r)' = c
    BY <2>4 DEF Dir
  <2>6. Persists
    BY <1>2, <2>2, <2>3 DEF Persists
  <2>7. Local(g, r)
    BY <2>2, <2>3 DEF Local
  <2>8. Trains(task'[g][r])
    BY <1>2, <2>4 DEF TaskOK, Trains
  <2>9. Writes(g, r)'
    BY <2>1, <2>3, <2>5 DEF Writes
  <2>10. r = 0 => Commits(g)' /\ Finishes(g)'
    BY <2>3, <2>4, <2>5 DEF Commits, Finishes
  <2>11. DirectoryOK(c)'
    <3>1. /\ store'[c].owner \in DOMAIN jobs' /\ jobs'[store'[c].owner] = c[1]
          /\ Precedes(store[c].parent, c)'
      BY <1>2, <2>2, <2>3, <2>6, OwnerKept
    <3>2. \A q \in Rank : /\ store'[c].part[q].file # "none" => store'[c].part[q].trained = c[2] + 1
                          /\ store'[c].part[q].file = "ready" => store'[c].part[q].synced
      BY <1>2, <2>1, <2>3 DEF DirectoryOK
    <3> QED BY <2>3, <3>1, <3>2 DEF DirectoryOK
  <2>12. \A d \in Checkpoint : d = Dir(g, r) => DirectoryOK(d)'
    BY <2>11
  <2> QED BY <1>1, <1>2, <2>2, <2>3, <2>6, <2>7, <2>8, <2>9, <2>10, <2>12, StoreStep, Steps
<1>4. CASE Raise(g, r) /\ UNCHANGED store
  BY <1>1, <1>2, <1>4, RaiseKeeps DEF TypeOK
<1> QED BY <1>1, <1>3, <1>4

LEMMA FinishRankKeeps ==
  ASSUME TrainingInv, NEW g \in Job, NEW r \in Rank, FinishRank(g, r),
         UNCHANGED <<jobs, driver, resume, result>>
  PROVE  TrainingInv'
<1> PICK c : c = Dir(g, r)
  OBVIOUS
<1>0. store' = [store EXCEPT ![c].part[r] = [@ EXCEPT !.file = "ready", !.synced = TRUE]]
  BY DEF FinishRank
<1>1. Runs(g, r, "partial") /\ UNCHANGED <<outcome, faults>> /\ Goto(g, r, "acks")
  BY DEF FinishRank
<1>2. /\ g \in DOMAIN jobs /\ TypeOK /\ TaskTypeOK /\ TaskOK(g, r) /\ task[g][r] \in Task
      /\ task[g][r].alive /\ task[g][r].pc = "partial" /\ c \in Checkpoint /\ c[1] = jobs[g]
      /\ DirectoryOK(c) /\ store[c] \in Directory /\ task[g][r].epoch # Epochs
  BY <1>1, RankFacts, Steps
<1>3. store[c].owner = g /\ store[c].part[r].file = "partial" /\ g # 0
  BY <1>2 DEF TaskOK, Writes, Job
<1>4. store[c].manifest = "none" /\ store[c].marker = "none"
  BY <1>2, <1>3 DEF DirectoryOK, Ready
<1>5. /\ store' \in [Checkpoint -> Directory] /\ store'[c].owner = g
      /\ store'[c].parent = store[c].parent
      /\ store'[c].part[r].file = "ready" /\ store'[c].part[r].synced
      /\ store'[c].part[r].trained = store[c].part[r].trained
      /\ store'[c].manifest = "none" /\ store'[c].marker = "none"
      /\ \A q \in Rank \ {r} : store'[c].part[q] = store[c].part[q]
      /\ \A d \in Checkpoint : d # c => store'[d] = store[d]
  <2>1. store[c].part \in [Rank -> Part] /\ store[c].part[r] \in Part
    BY <1>2 DEF Directory
  <2> DEFINE part == [store[c].part[r] EXCEPT !.file = "ready", !.synced = TRUE]
  <2>2. part \in Part /\ part.file = "ready" /\ part.synced /\ part.trained = store[c].part[r].trained
    BY <2>1 DEF Part
  <2>3. store' = [store EXCEPT ![c].part[r] = part]
    BY <1>0
  <2> HIDE DEF part
  <2> QED BY ZenonT(40), <1>2, <1>3, <1>4, <2>1, <2>2, <2>3 DEF TypeOK, Directory
<1>6. /\ task'[g][r].pc = "acks" /\ task'[g][r].epoch = task[g][r].epoch
      /\ task'[g][r].trained = task[g][r].trained
  BY <1>1, <1>2, GotoMoves, Steps
<1>7. Dir(g, r)' = c
  BY <1>6 DEF Dir
<1>8. Persists
  BY <1>2, <1>4, <1>5 DEF Persists
<1>9. Local(g, r)
  BY <1>3, <1>4, <1>5 DEF Local
<1>10. Trains(task'[g][r]) /\ Writes(g, r)'
  BY <1>2, <1>6 DEF TaskOK, Trains, Writes
<1>11. r = 0 => Commits(g)' /\ Finishes(g)'
  BY <1>5, <1>6, <1>7 DEF Commits, Finishes
<1>12. DirectoryOK(c)'
  <2>1. /\ store'[c].owner \in DOMAIN jobs' /\ jobs'[store'[c].owner] = c[1]
        /\ Precedes(store[c].parent, c)'
    BY <1>2, <1>3, <1>5, <1>8, OwnerKept
  <2>2. \A q \in Rank : /\ store'[c].part[q].file # "none" => store'[c].part[q].trained = c[2] + 1
                        /\ store'[c].part[q].file = "ready" => store'[c].part[q].synced
    BY <1>2, <1>3, <1>5 DEF DirectoryOK
  <2> QED BY <1>5, <2>1, <2>2 DEF DirectoryOK
<1>13. \A d \in Checkpoint : d = Dir(g, r) => DirectoryOK(d)'
  BY <1>12
<1> QED BY <1>1, <1>2, <1>5, <1>8, <1>9, <1>10, <1>11, <1>13, StoreStep, Steps

\* Rank 0's commit changes the manifest and the marker of its directory only, and keeps
\* what a manifest and a marker stand for.
Commit(c, manifest, marker) ==
    /\ store' \in [Checkpoint -> Directory]
    /\ store'[c].owner = store[c].owner /\ store'[c].parent = store[c].parent
    /\ store'[c].part = store[c].part
    /\ store'[c].manifest = manifest /\ store'[c].marker = marker
    /\ \A d \in Checkpoint : d # c => store'[d] = store[d]

LEMMA BothCommit ==
  ASSUME store \in [Checkpoint -> Directory], NEW c \in Checkpoint,
         store' = [store EXCEPT ![c].marker = "synced", ![c].manifest = "synced"]
  PROVE  Commit(c, "synced", "synced")
<1>1. /\ store'[c] = [store[c] EXCEPT !.marker = "synced", !.manifest = "synced"]
      /\ \A d \in Checkpoint : d # c => store'[d] = store[d]
      /\ store' = [d \in Checkpoint |-> store'[d]]
  OBVIOUS
<1>2. store[c] \in Directory
  OBVIOUS
<1>3. /\ store'[c] \in Directory
      /\ store'[c].owner = store[c].owner /\ store'[c].parent = store[c].parent
      /\ store'[c].part = store[c].part
      /\ store'[c].manifest = "synced" /\ store'[c].marker = "synced"
  BY <1>1, <1>2 DEF Directory
<1>4. store' \in [Checkpoint -> Directory]
  BY <1>1, <1>3
<1> QED BY <1>1, <1>3, <1>4 DEF Commit

LEMMA CommitKeepsDirectory ==
  ASSUME TrainingInv, NEW g \in DOMAIN jobs, NEW c \in Checkpoint, c = Dir(g, 0), store[c].owner = g,
         NEW manifest, NEW marker, Commit(c, manifest, marker), jobs' = jobs,
         store[c].marker = "synced" => marker = "synced",
         store[c].manifest = "synced" => manifest = "synced",
         manifest # "none" => Ready(c) /\ ReplicasAgree(c),
         marker # "none" => manifest = "synced"
  PROVE  Persists /\ Local(g, 0) /\ DirectoryOK(c)' /\ store'[c].owner = g
<1>1. DirectoryOK(c) /\ g # 0
  BY Positions DEF TrainingInv, Directories, Job
<1>2. Persists
  BY DEF Commit, Persists
<1>3. Local(g, 0)
  BY DEF Commit, Local
<1>4. DirectoryOK(c)'
  <2>1. store'[c].owner # 0 => /\ store'[c].owner \in DOMAIN jobs' /\ jobs'[store'[c].owner] = c[1]
                               /\ Precedes(store[c].parent, c)'
    BY <1>1, <1>2, OwnerKept DEF Commit
  <2>2. (Ready(c) => Ready(c)') /\ (ReplicasAgree(c) => ReplicasAgree(c)')
    BY DEF Commit, Ready, ReplicasAgree, Replica
  <2> QED BY <1>1, <2>1, <2>2 DEF Commit, DirectoryOK
<1> QED BY <1>2, <1>3, <1>4 DEF Commit

LEMMA WriteManifestKeeps ==
  ASSUME TrainingInv, NEW g \in Job, WriteManifest(g), UNCHANGED <<jobs, driver, resume, result>>
  PROVE  TrainingInv'
<1> PICK c : c = Dir(g, 0)
  OBVIOUS
<1>1. /\ Runs(g, 0, "acks") /\ UNCHANGED faults
      /\ \/ /\ store[c].manifest = "none" /\ store[c].marker = "none" /\ Verified(c) /\ ReplicasAgree(c)
            /\ store' = [store EXCEPT ![c].manifest = "written"]
            /\ Goto(g, 0, "manifest") /\ UNCHANGED outcome
         \/ CommitRaises(g, "error") /\ UNCHANGED store
  BY DEF WriteManifest
<1>2. TypeOK /\ 0 \in Rank
  BY Positions DEF TrainingInv
<1>3. /\ g \in DOMAIN jobs /\ TaskTypeOK /\ TaskOK(g, 0) /\ task[g][0] \in Task
      /\ task[g][0].alive /\ task[g][0].pc = "acks" /\ c \in Checkpoint /\ store[c] \in Directory
  BY <1>1, <1>2, RankFacts, Steps
<1>4. CASE /\ store[c].manifest = "none" /\ store[c].marker = "none" /\ Verified(c) /\ ReplicasAgree(c)
           /\ store' = [store EXCEPT ![c].manifest = "written"]
           /\ Goto(g, 0, "manifest") /\ UNCHANGED outcome
  <2>1. Commit(c, "written", "none")
    BY <1>2, <1>3, <1>4 DEF Commit, TypeOK, Directory
  <2>2. store[c].owner = g
    BY <1>3 DEF TaskOK, Commits
  <2>3. Persists /\ Local(g, 0) /\ DirectoryOK(c)' /\ store'[c].owner = g
    BY <1>3, <1>4, <2>1, <2>2, CommitKeepsDirectory DEF Verified, Ready
  <2>4. /\ task'[g][0].pc = "manifest" /\ task'[g][0].epoch = task[g][0].epoch
        /\ task'[g][0].trained = task[g][0].trained
    BY <1>2, <1>3, <1>4, GotoMoves, Steps
  <2>5. Trains(task'[g][0]) /\ Writes(g, 0)'
    BY <1>3, <2>4 DEF TaskOK, Trains, Writes
  <2>6. Dir(g, 0)' = c
    BY <2>4 DEF Dir
  <2>7. Commits(g)' /\ Finishes(g)'
    BY <2>1, <2>3, <2>4, <2>6 DEF Commit, Commits, Finishes
  <2> QED BY <1>1, <1>2, <1>3, <1>4, <2>1, <2>3, <2>5, <2>7, StoreStep, Steps DEF Commit
<1>5. CASE CommitRaises(g, "error") /\ UNCHANGED store
  BY <1>1, <1>2, <1>3, <1>5, RaiseKeeps DEF CommitRaises, TypeOK
<1> QED BY <1>1, <1>4, <1>5

\* Rank 0 raises after it has changed the manifest or the marker.
LEMMA CommitFails ==
  ASSUME TrainingInv, NEW g \in DOMAIN jobs, NEW c \in Checkpoint, c = Dir(g, 0), store[c].owner = g,
         NEW manifest, NEW marker, Commit(c, manifest, marker), NEW kind \in {"error", "ambiguous"},
         CommitRaises(g, kind), UNCHANGED <<faults, jobs, driver, resume, result>>,
         Persists, Local(g, 0), DirectoryOK(c)',
         kind = "error" => task[g][0].epoch < Epochs /\ marker = "none"
  PROVE  TrainingInv'
<1>1. /\ g \in Job /\ 0 \in Rank /\ TypeOK /\ TaskTypeOK /\ Raise(g, 0)
      /\ outcome' = [outcome EXCEPT ![g] = kind]
  BY Positions DEF TrainingInv, TypeOK, TaskTypeOK, CommitRaises
<1>2. /\ TaskTypeOK' /\ Others(g, 0) /\ task'[g][0].epoch = task[g][0].epoch
      /\ task'[g][0].alive = FALSE
  BY <1>1, RaiseMoves
<1>3. /\ outcome' \in [Job -> {"none", "error", "ambiguous"}] /\ outcome'[g] = kind
      /\ \A h \in Job : h # g => outcome'[h] = outcome[h]
  BY <1>1 DEF TypeOK
<1>4. TypeOK'
  BY <1>1, <1>2, <1>3, TypesMove DEF TypeOK, Commit
<1>5. Errs(g)'
  <2>1. Dir(g, 0)' = c
    BY <1>2 DEF Dir
  <2> QED BY <1>2, <1>3, <2>1 DEF Errs, Commit
<1>6. TaskOK(g, 0)'
  BY <1>1, <1>5, RaisedTask
<1>7. \A d \in Checkpoint : d = Dir(g, 0) => DirectoryOK(d)'
  OBVIOUS
<1> QED BY <1>1, <1>2, <1>3, <1>4, <1>6, <1>7, RankMoves

LEMMA SyncManifestKeeps ==
  ASSUME TrainingInv, NEW g \in Job, SyncManifest(g), UNCHANGED <<jobs, driver, resume, result>>
  PROVE  TrainingInv'
<1> PICK c : c = Dir(g, 0)
  OBVIOUS
<1>1. /\ Runs(g, 0, "manifest") /\ UNCHANGED faults /\ store' = [store EXCEPT ![c].manifest = "synced"]
      /\ \/ Goto(g, 0, "link") /\ UNCHANGED outcome
         \/ CommitRaises(g, "error")
  BY DEF SyncManifest
<1>2. TypeOK /\ 0 \in Rank
  BY Positions DEF TrainingInv
<1>3. /\ g \in DOMAIN jobs /\ TaskTypeOK /\ TaskOK(g, 0) /\ task[g][0] \in Task
      /\ task[g][0].alive /\ task[g][0].pc = "manifest" /\ c \in Checkpoint /\ store[c] \in Directory
      /\ DirectoryOK(c) /\ task[g][0].epoch # Epochs
  BY <1>1, <1>2, RankFacts, Steps
<1>4. store[c].owner = g /\ store[c].marker = "none" /\ store[c].manifest # "none"
  BY <1>3 DEF TaskOK, Commits
<1>5. Commit(c, "synced", "none")
  BY <1>1, <1>2, <1>3, <1>4 DEF Commit, TypeOK, Directory
<1>6. Persists /\ Local(g, 0) /\ DirectoryOK(c)' /\ store'[c].owner = g
  BY <1>3, <1>4, <1>5, CommitKeepsDirectory DEF DirectoryOK
<1>7. CASE Goto(g, 0, "link") /\ UNCHANGED outcome
  <2>1. /\ task'[g][0].pc = "link" /\ task'[g][0].epoch = task[g][0].epoch
        /\ task'[g][0].trained = task[g][0].trained
    BY <1>2, <1>3, <1>7, GotoMoves, Steps
  <2>2. Trains(task'[g][0]) /\ Writes(g, 0)'
    BY <1>3, <2>1 DEF TaskOK, Trains, Writes
  <2>3. Dir(g, 0)' = c
    BY <2>1 DEF Dir
  <2>4. Commits(g)' /\ Finishes(g)'
    BY <1>5, <1>6, <2>1, <2>3 DEF Commit, Commits, Finishes
  <2> QED BY <1>1, <1>2, <1>3, <1>5, <1>6, <1>7, <2>2, <2>4, StoreStep, Steps DEF Commit
<1>8. CASE CommitRaises(g, "error")
  <2>1. task[g][0].epoch < Epochs
    BY <1>2, <1>3, Positions DEF Task
  <2> QED BY <1>1, <1>3, <1>4, <1>5, <1>6, <1>8, <2>1, CommitFails
<1> QED BY <1>1, <1>7, <1>8

LEMMA LinkKeeps ==
  ASSUME TrainingInv, NEW g \in Job, Link(g), UNCHANGED <<jobs, driver, resume, result>>
  PROVE  TrainingInv'
<1> PICK c : c = Dir(g, 0)
  OBVIOUS
<1>1. /\ Runs(g, 0, "link") /\ UNCHANGED <<outcome, faults>> /\ Goto(g, 0, "linked")
      /\ store' = [store EXCEPT ![c].marker = "linked"]
  BY DEF Link
<1>2. TypeOK /\ 0 \in Rank
  BY Positions DEF TrainingInv
<1>3. /\ g \in DOMAIN jobs /\ TaskTypeOK /\ TaskOK(g, 0) /\ task[g][0] \in Task
      /\ task[g][0].alive /\ task[g][0].pc = "link" /\ c \in Checkpoint /\ store[c] \in Directory
      /\ DirectoryOK(c)
  BY <1>1, <1>2, RankFacts, Steps
<1>4. store[c].owner = g /\ store[c].marker = "none" /\ store[c].manifest = "synced"
  BY <1>3 DEF TaskOK, Commits
<1>5. Commit(c, "synced", "linked")
  BY <1>1, <1>2, <1>3, <1>4 DEF Commit, TypeOK, Directory
<1>6. Persists /\ Local(g, 0) /\ DirectoryOK(c)' /\ store'[c].owner = g
  BY <1>3, <1>4, <1>5, CommitKeepsDirectory DEF DirectoryOK
<1>7. /\ task'[g][0].pc = "linked" /\ task'[g][0].epoch = task[g][0].epoch
      /\ task'[g][0].trained = task[g][0].trained
  BY <1>1, <1>2, <1>3, GotoMoves, Steps
<1>8. Trains(task'[g][0]) /\ Writes(g, 0)'
  BY <1>3, <1>7 DEF TaskOK, Trains, Writes
<1>9. Dir(g, 0)' = c
  BY <1>7 DEF Dir
<1>10. Commits(g)' /\ Finishes(g)'
  BY <1>5, <1>6, <1>7, <1>9 DEF Commit, Commits, Finishes
<1> QED BY <1>1, <1>2, <1>3, <1>5, <1>6, <1>8, <1>10, StoreStep, Steps DEF Commit

\* A rank that goes on to the next epoch.
LEMMA NextEpochTask ==
  ASSUME TrainingInv, NEW g \in DOMAIN jobs, NEW r \in Rank, NextEpoch(g, r), task[g][r].epoch # Epochs,
         task[g][r].trained = task[g][r].epoch + 1, jobs' = jobs, outcome' = outcome, Persists,
         NEW c \in Checkpoint, c = Dir(g, r),
         r = 0 => /\ Published(c)' /\ Ready(c)' /\ task[g][0].alive
  PROVE  TaskOK(g, r)'
<1>1. TypeOK /\ TaskOK(g, r) /\ g \in Job /\ Epochs \in Nat
  BY Positions DEF TrainingInv, Tasks
<1> DEFINE e == task[g][r].epoch + 1
<1>2. /\ task'[g][r].epoch = e /\ task'[g][r].parent = c
      /\ task'[g][r].pc = IF e < Epochs THEN "train" ELSE "receipts"
      /\ task'[g][r].trained = e /\ task'[g][r].alive = task[g][r].alive
  BY <1>1, NextEpochMoves
<1>3. e \in 1 .. Epochs /\ (~(e < Epochs) <=> e = Epochs) /\ task[g][r].epoch \in Nat
  <2>1. task[g][r] \in Task
    BY <1>1 DEF TypeOK
  <2> QED BY <1>1, <2>1 DEF Task
<1>4. c[1] = jobs[g] /\ c[2] = e - 1
  BY <1>1, <1>3, DirIsCheckpoint
<1> HIDE DEF e
<1>5. Trains(task'[g][r]) /\ Writes(g, r)'
  BY <1>2, <1>3 DEF Trains, Writes
<1>6. ASSUME r = 0
      PROVE  Precedes(task[g][0].parent, Dir(g, 0))' /\ Commits(g)' /\ Finishes(g)' /\ Errs(g)'
  <2>1. Dir(g, 0)' = <<jobs[g], e>> /\ task'[g][0].parent = c
    BY <1>2, <1>6 DEF Dir
  <2>2. Precedes(task[g][0].parent, Dir(g, 0))'
    BY <1>4, <1>6, <2>1 DEF Precedes, Published, Ready
  <2>3. Commits(g)'
    BY <1>2, <1>6 DEF Commits
  <2>4. Finishes(g)'
    <3>1. e = Epochs => c = <<jobs[g], Epochs - 1>>
      BY <1>4 DEF Checkpoint
    <3> QED BY <1>2, <1>3, <1>6, <3>1 DEF Finishes, Published
  <2>5. Errs(g)'
    BY <1>1, <1>6 DEF TaskOK, Errs
  <2> QED BY <2>2, <2>3, <2>4, <2>5
<1> QED BY <1>5, <1>6 DEF TaskOK

LEMMA FinishCommitKeeps ==
  ASSUME TrainingInv, NEW g \in Job, FinishCommit(g), UNCHANGED <<jobs, driver, resume, result>>
  PROVE  TrainingInv'
<1> PICK c : c = Dir(g, 0)
  OBVIOUS
<1>1. /\ Runs(g, 0, "linked") /\ UNCHANGED faults
      /\ store' = [store EXCEPT ![c].marker = "synced", ![c].manifest = "synced"]
      /\ \/ NextEpoch(g, 0) /\ UNCHANGED outcome
         \/ CommitRaises(g, "ambiguous")
  BY DEF FinishCommit
<1>2. TypeOK /\ 0 \in Rank
  BY Positions DEF TrainingInv
<1>3. /\ g \in DOMAIN jobs /\ TaskTypeOK /\ TaskOK(g, 0) /\ task[g][0] \in Task
      /\ task[g][0].alive /\ task[g][0].pc = "linked" /\ c \in Checkpoint /\ store[c] \in Directory
      /\ DirectoryOK(c) /\ task[g][0].epoch # Epochs
  BY <1>1, <1>2, RankFacts, Steps
<1>4. store[c].owner = g /\ store[c].manifest = "synced" /\ Ready(c) /\ ReplicasAgree(c)
  BY <1>3 DEF TaskOK, Commits, DirectoryOK
<1>5. Commit(c, "synced", "synced")
  BY <1>1, <1>2, <1>3, BothCommit DEF TypeOK
<1>6. Persists /\ Local(g, 0) /\ DirectoryOK(c)' /\ store'[c].owner = g
  BY <1>3, <1>4, <1>5, CommitKeepsDirectory
<1>7. CASE NextEpoch(g, 0) /\ UNCHANGED outcome
  <2>1. Published(c)' /\ Ready(c)'
    BY <1>4, <1>5 DEF Commit, Published, Ready
  <2>2. task[g][0].trained = task[g][0].epoch + 1
    BY <1>3 DEF TaskOK, Trains
  <2>3. TaskOK(g, 0)'
    BY <1>2, <1>3, <1>6, <1>7, <2>1, <2>2, NextEpochTask
  <2>4. TaskTypeOK' /\ Others(g, 0)
    BY <1>2, <1>3, <1>7, NextEpochMoves
  <2>5. TypeOK'
    BY <1>1, <1>2, <1>5, <1>7, <2>4, TypesMove DEF TypeOK, Commit
  <2>6. \A d \in Checkpoint : d = Dir(g, 0) => DirectoryOK(d)'
    BY <1>6
  <2> QED BY <1>2, <1>3, <1>6, <1>7, <2>3, <2>4, <2>5, <2>6, RankMoves
<1>8. CASE CommitRaises(g, "ambiguous")
  BY <1>1, <1>3, <1>4, <1>5, <1>6, <1>8, CommitFails
<1> QED BY <1>1, <1>7, <1>8

LEMMA ReceiveReferenceKeeps ==
  ASSUME TrainingInv, NEW g \in Job, NEW r \in Rank, ReceiveReference(g, r),
         UNCHANGED <<jobs, driver, resume, result>>
  PROVE  TrainingInv'
<1> PICK c : c = Dir(g, r)
  OBVIOUS
<1>1. r # 0 /\ Runs(g, r, "acks") /\ NextEpoch(g, r) /\ UNCHANGED <<store, outcome, faults>>
  BY DEF ReceiveReference
<1>2. /\ g \in DOMAIN jobs /\ TypeOK /\ TaskTypeOK /\ TaskOK(g, r) /\ task[g][r] \in Task
      /\ task[g][r].pc = "acks" /\ c \in Checkpoint /\ task[g][r].epoch # Epochs
  BY <1>1, RankFacts, Steps
<1>3. task[g][r].trained = task[g][r].epoch + 1
  BY <1>2 DEF TaskOK, Trains
<1>4. Persists
  BY <1>1 DEF Persists
<1>5. TaskOK(g, r)'
  BY <1>1, <1>2, <1>3, <1>4, NextEpochTask
<1>6. TaskTypeOK' /\ Others(g, r)
  BY <1>1, <1>2, NextEpochMoves
<1>7. TypeOK'
  BY <1>1, <1>2, <1>6, TypesMove DEF TypeOK
<1> QED BY <1>1, <1>2, <1>5, <1>6, <1>7, QuietMoves

-----------------------------------------------------------------------------
(* Storage, power and the driver.                                          *)

\* What a rank knows rests on owners, on durable files and on markers not appearing.
LEMMA StorageFaults ==
  ASSUME TrainingInv, UNCHANGED <<jobs, outcome>>, Persists, NEW g \in DOMAIN jobs, NEW r \in Rank,
         task'[g][r].pc = task[g][r].pc, task'[g][r].epoch = task[g][r].epoch,
         task'[g][r].trained = task[g][r].trained, task'[g][r].parent = task[g][r].parent,
         task'[g][r].alive => task[g][r].alive,
         \A c \in Checkpoint :
           /\ store'[c].owner = store[c].owner
           /\ store[c].marker = "none" => store'[c].marker = "none"
           /\ task'[g][r].alive => /\ store'[c].manifest = store[c].manifest
                                   /\ store'[c].part[r].file = store[c].part[r].file
  PROVE  TaskOK(g, r)'
<1>1. TypeOK /\ TaskOK(g, r)
  BY DEF TrainingInv, Tasks
<1>2. Dir(g, r)' = Dir(g, r) /\ (task[g][r].epoch # Epochs => Dir(g, r) \in Checkpoint)
  BY <1>1, DirIsCheckpoint DEF Dir
<1>3. Trains(task'[g][r]) /\ Writes(g, r)'
  BY <1>1, <1>2 DEF TaskOK, Trains, Writes
<1>4. ASSUME r = 0
      PROVE  Precedes(task[g][0].parent, Dir(g, 0))' /\ Commits(g)' /\ Finishes(g)' /\ Errs(g)'
  <2>1. /\ Precedes(task[g][0].parent, Dir(g, 0)) /\ Commits(g) /\ Finishes(g) /\ Errs(g)
        /\ Trains(task[g][0])
    BY <1>1, <1>4 DEF TaskOK
  <2>2. Precedes(task[g][0].parent, Dir(g, 0))'
    BY <1>4, <2>1, ParentKept
  <2>3. Commits(g)'
    BY <1>2, <1>4, <2>1 DEF Commits, Trains
  <2>4. Finishes(g)'
    <3>1. <<jobs[g], Epochs - 1>> \in Checkpoint
      BY <1>1, Positions DEF Checkpoint
    <3> QED BY <1>4, <2>1, <3>1 DEF Finishes, Published, Persists
  <2>5. Errs(g)'
    <3>1. task[g][0].epoch < Epochs => task[g][0].epoch # Epochs
      <4>1. Epochs \in Nat /\ task[g][0] \in Task
        BY <1>1, <1>4, Positions DEF TypeOK
      <4> QED BY <4>1 DEF Task
    <3> QED BY <1>2, <1>4, <2>1, <3>1 DEF Errs
  <2> QED BY <2>2, <2>3, <2>4, <2>5
<1> QED BY <1>3, <1>4 DEF TaskOK

LEMMA RotKeeps ==
  ASSUME TrainingInv, Rot PROVE TrainingInv'
<1>1. PICK c \in Checkpoint, r \in Rank : store' = [store EXCEPT ![c].part[r].rot = TRUE]
  BY DEF Rot
<1>2. TypeOK /\ UNCHANGED <<jobs, task, outcome, driver, resume, result>>
  BY DEF TrainingInv, Rot
<1>3. \A d \in Checkpoint :
        /\ store'[d] \in Directory
        /\ store'[d].owner = store[d].owner /\ store'[d].parent = store[d].parent
        /\ store'[d].manifest = store[d].manifest /\ store'[d].marker = store[d].marker
        /\ \A q \in Rank : /\ store'[d].part[q].file = store[d].part[q].file
                           /\ store'[d].part[q].synced = store[d].part[q].synced
                           /\ store'[d].part[q].trained = store[d].part[q].trained
                           /\ store'[d].part[q].own = store[d].part[q].own
  <2>1. store[c] \in Directory /\ store[c].part \in [Rank -> Part] /\ store[c].part[r] \in Part
    BY <1>2 DEF TypeOK, Directory
  <2> DEFINE part == [store[c].part[r] EXCEPT !.rot = TRUE]
  <2>2. /\ part \in Part /\ part.file = store[c].part[r].file /\ part.synced = store[c].part[r].synced
        /\ part.trained = store[c].part[r].trained /\ part.own = store[c].part[r].own
    BY <2>1 DEF Part
  <2>3. store' = [store EXCEPT ![c].part[r] = part]
    BY <1>1
  <2> HIDE DEF part
  <2> QED BY <1>2, <2>1, <2>2, <2>3 DEF TypeOK, Directory
<1>4. store' \in [Checkpoint -> Directory]
  <2>1. store' = [d \in Checkpoint |-> store'[d]]
    BY <1>1, <1>2 DEF TypeOK
  <2> QED BY <1>3, <2>1
<1>5. TypeOK'
  BY <1>2, <1>4, FaultTypes, TypesMove DEF TypeOK, TaskTypeOK, Rot
<1>6. Persists
  BY <1>3 DEF Persists
<1>7. Tasks'
  <2>1. ASSUME NEW g \in DOMAIN jobs, NEW q \in Rank PROVE TaskOK(g, q)'
    BY <1>2, <1>3, <1>6, StorageFaults
  <2> QED BY <1>2, <2>1 DEF Tasks
<1>8. Directories'
  <2>1. ASSUME NEW d \in Checkpoint PROVE DirectoryOK(d)'
    <3>1. DirectoryOK(d)
      BY DEF TrainingInv, Directories
    <3>2. store'[d].owner # 0 => /\ store'[d].owner \in DOMAIN jobs' /\ jobs'[store'[d].owner] = d[1]
                                 /\ Precedes(store[d].parent, d)'
      BY <1>2, <1>3, <1>6, <3>1, OwnerKept
    <3>3. (Ready(d) => Ready(d)') /\ (ReplicasAgree(d) => ReplicasAgree(d)')
      BY <1>3 DEF Ready, ReplicasAgree, Replica
    <3> QED BY <1>3, <3>1, <3>2, <3>3 DEF DirectoryOK
  <2> QED BY <2>1 DEF Directories
<1>9. DriverOK' /\ AttemptsOK'
  BY <1>2, <1>6, DriverKept DEF TrainingInv
<1>10. LaterFresh'
  BY <1>2 DEF TrainingInv, LaterFresh
<1> QED BY <1>5, <1>7, <1>8, <1>9, <1>10 DEF TrainingInv

\* What power takes from a directory: files that were not synced.
Loses(c) ==
    /\ store'[c].owner = store[c].owner /\ store'[c].parent = store[c].parent
    /\ \A r \in Rank : \/ store'[c].part[r] = store[c].part[r]
                       \/ store'[c].part[r] = NoPart /\ ~store[c].part[r].synced
    /\ \/ store'[c].manifest = store[c].manifest
       \/ store'[c].manifest = "none" /\ store[c].manifest = "written"
    /\ \/ store'[c].marker = store[c].marker
       \/ store'[c].marker = "none" /\ store[c].marker = "linked"

LEMMA PowerTakes ==
  ASSUME TypeOK, PowerLoss
  PROVE  store' \in [Checkpoint -> Directory] /\ \A c \in Checkpoint : Loses(c)
<1>1. PICK parts \in SUBSET {p \in Checkpoint \X Rank :
                               /\ store[p[1]].part[p[2]].file # "none"
                               /\ ~store[p[1]].part[p[2]].synced},
           manifests \in SUBSET {c \in Checkpoint : store[c].manifest = "written"},
           markers \in SUBSET {c \in Checkpoint : store[c].marker = "linked"} :
        store' = [c \in Checkpoint |-> [store[c] EXCEPT
            !.part = [r \in Rank |-> IF <<c, r>> \in parts THEN NoPart ELSE @[r]],
            !.manifest = IF c \in manifests THEN "none" ELSE @,
            !.marker = IF c \in markers THEN "none" ELSE @]]
  BY DEF PowerLoss
<1>0. /\ \A c \in manifests : store[c].manifest = "written"
      /\ \A c \in markers : store[c].marker = "linked"
  BY <1>1
<1>2. ASSUME NEW c \in Checkpoint PROVE store'[c] \in Directory /\ Loses(c)
  <2> DEFINE part == [r \in Rank |-> IF <<c, r>> \in parts THEN NoPart ELSE store[c].part[r]]
             manifest == IF c \in manifests THEN "none" ELSE store[c].manifest
             marker == IF c \in markers THEN "none" ELSE store[c].marker
  <2>1. store'[c] = [store[c] EXCEPT !.part = part, !.manifest = manifest, !.marker = marker]
    BY <1>1
  <2>2. store[c] \in Directory
    BY DEF TypeOK
  <2>3. part \in [Rank -> Part]
    BY <2>2, EpochsAssumption DEF Directory, NoPart, Part
  <2>4. \A r \in Rank : \/ part[r] = store[c].part[r]
                        \/ part[r] = NoPart /\ ~store[c].part[r].synced
    BY <1>1
  <2>5. manifest = store[c].manifest \/ (manifest = "none" /\ store[c].manifest = "written")
    BY <1>0
  <2>6. marker = store[c].marker \/ (marker = "none" /\ store[c].marker = "linked")
    BY <1>0
  <2> HIDE DEF part, manifest, marker
  <2>7. /\ store'[c].owner = store[c].owner /\ store'[c].parent = store[c].parent
        /\ store'[c].part = part /\ store'[c].manifest = manifest /\ store'[c].marker = marker
    BY <2>1, <2>2 DEF Directory
  <2>8. store'[c] \in Directory
    BY <2>1, <2>2, <2>3, <2>5, <2>6 DEF Directory
  <2> QED BY <2>4, <2>5, <2>6, <2>7, <2>8 DEF Loses
<1>3. store' = [c \in Checkpoint |-> store'[c]]
  BY <1>1
<1> QED BY <1>2, <1>3

LEMMA PowerLossKeeps ==
  ASSUME TrainingInv, PowerLoss PROVE TrainingInv'
<1>1. /\ TypeOK /\ Directories /\ Fault /\ UNCHANGED <<jobs, outcome, resume, result>>
      /\ driver' = [driver EXCEPT !.pc = "idle"]
      /\ task' = [g \in Job |-> IF g > Len(jobs) THEN task[g]
                                ELSE [r \in Rank |-> [task[g][r] EXCEPT !.alive = FALSE]]]
  BY DEF TrainingInv, PowerLoss
<1>2. store' \in [Checkpoint -> Directory] /\ \A c \in Checkpoint : Loses(c)
  BY PowerTakes DEF TrainingInv
<1>3. ASSUME NEW g \in DOMAIN jobs, NEW r \in Rank
      PROVE  /\ task'[g][r].pc = task[g][r].pc /\ task'[g][r].epoch = task[g][r].epoch
             /\ task'[g][r].trained = task[g][r].trained /\ task'[g][r].parent = task[g][r].parent
             /\ task'[g][r].alive = FALSE /\ task'[g][r] \in Task
  <2>1. g \in Job /\ ~(g > Len(jobs)) /\ task[g][r] \in Task
    BY <1>1, Positions DEF TypeOK
  <2> QED BY <1>1, <2>1 DEF Task
<1>4. \A g \in Job \ DOMAIN jobs : task'[g] = task[g]
  BY <1>1, Positions DEF Job
<1>5. TaskTypeOK'
  <2>1. \A g \in Job : task'[g] \in [Rank -> Task]
    <3>1. ASSUME NEW g \in DOMAIN jobs PROVE task'[g] \in [Rank -> Task]
      <4>1. g \in Job /\ ~(g > Len(jobs))
        BY <1>1, Positions
      <4>2. task'[g] = [r \in Rank |-> task'[g][r]]
        BY <1>1, <4>1
      <4> QED BY <1>3, <4>2
    <3> QED BY <1>1, <1>4, <3>1 DEF TypeOK
  <2>2. task' = [g \in Job |-> task'[g]]
    BY <1>1
  <2> QED BY <2>1, <2>2 DEF TaskTypeOK
<1>6. TypeOK'
  <2>1. faults' \in 0 .. MaxFaults
    BY <1>1, FaultTypes
  <2>2. driver' \in [pc: {"idle", "running", "returned", "verified", "failing"}, timedOut: BOOLEAN]
        /\ driver'.pc = "idle"
    BY <1>1 DEF TypeOK
  <2> QED BY <1>1, <1>2, <1>5, <2>1, <2>2 DEF TypeOK, TaskTypeOK
<1>7. ASSUME NEW c \in Checkpoint
      PROVE  \A r \in Rank : store[c].part[r].file = "ready" => store'[c].part[r] = store[c].part[r]
  BY <1>1, <1>2 DEF Directories, DirectoryOK, Loses
<1>8. Persists
  BY <1>2, <1>7 DEF Persists, Loses
<1>9. Tasks'
  <2>1. ASSUME NEW g \in DOMAIN jobs, NEW r \in Rank PROVE TaskOK(g, r)'
    <3>1. \A c \in Checkpoint : /\ store'[c].owner = store[c].owner
                                /\ store[c].marker = "none" => store'[c].marker = "none"
      BY <1>2 DEF Loses
    <3>2. ~task'[g][r].alive
      BY <1>3
    <3>3. /\ task'[g][r].pc = task[g][r].pc /\ task'[g][r].epoch = task[g][r].epoch
          /\ task'[g][r].trained = task[g][r].trained /\ task'[g][r].parent = task[g][r].parent
      BY <1>3
    <3>4. UNCHANGED <<jobs, outcome>>
      BY <1>1
    <3> QED BY <1>8, <3>1, <3>2, <3>3, <3>4, StorageFaults
  <2> QED BY <1>1, <2>1 DEF Tasks
<1>10. Directories'
  <2>1. ASSUME NEW c \in Checkpoint PROVE DirectoryOK(c)'
    <3>1. DirectoryOK(c) /\ Loses(c)
      BY <1>1, <1>2 DEF Directories
    <3>2. store'[c].owner # 0 => /\ store'[c].owner \in DOMAIN jobs' /\ jobs'[store'[c].owner] = c[1]
                                 /\ Precedes(store[c].parent, c)'
      BY <1>1, <1>8, <3>1, OwnerKept DEF Loses
    <3>3. Ready(c) /\ ReplicasAgree(c) => Ready(c)' /\ ReplicasAgree(c)'
      BY <1>7 DEF Ready, ReplicasAgree, Replica
    <3>4. \A r \in Rank : /\ store'[c].part[r].file # "none" => store'[c].part[r].trained = c[2] + 1
                          /\ store'[c].part[r].file = "ready" => store'[c].part[r].synced
      BY <3>1 DEF DirectoryOK, Loses, NoPart
    <3> QED BY <3>1, <3>2, <3>3, <3>4 DEF DirectoryOK, Loses
  <2> QED BY <2>1 DEF Directories
<1>11. LaterFresh'
  BY <1>1, <1>4 DEF TrainingInv, LaterFresh
<1>12. AttemptsOK'
  BY <1>1 DEF TrainingInv, AttemptsOK, ThisAttempt, Latest
<1>13. DriverOK'
  <2>1. driver'.pc = "idle"
    BY <1>1 DEF TypeOK
  <2>2. \A a \in Attempt : Published(<<a, Epochs - 1>>) => Published(<<a, Epochs - 1>>)'
    <3>1. \A a \in Attempt : <<a, Epochs - 1>> \in Checkpoint
      BY <1>1, Positions DEF Checkpoint
    <3> QED BY <1>8, <3>1 DEF Published, Persists
  <2>3. ThisAttempt' = ThisAttempt /\ \A a : Retried(a)' <=> Retried(a)
    BY <1>1 DEF ThisAttempt, Latest, Retried
  <2> QED BY <1>1, <2>1, <2>2, <2>3 DEF TrainingInv, DriverOK
<1> QED BY <1>6, <1>9, <1>10, <1>11, <1>12, <1>13 DEF TrainingInv

\* A step of the driver that touches nothing of the ranks or the store.
LEMMA DriverMoves ==
  ASSUME TrainingInv, UNCHANGED <<store, jobs, task, outcome, resume>>,
         driver' \in [pc: {"idle", "running", "returned", "verified", "failing"}, timedOut: BOOLEAN],
         result' \in [Attempt -> {"none", "completed", "failed"}], faults' \in 0 .. MaxFaults,
         DriverOK'
  PROVE  TrainingInv'
<1>1. TypeOK'
  BY DEF TrainingInv, TypeOK
<1>2. Directories'
  BY DEF TrainingInv, Directories, DirectoryOK, Ready, ReplicasAgree, Replica, Precedes
<1>3. Tasks'
  <2> SUFFICES ASSUME NEW g \in DOMAIN jobs, NEW r \in Rank PROVE TaskOK(g, r)'
    BY DEF Tasks
  <2>1. TaskOK(g, r)
    BY DEF TrainingInv, Tasks
  <2>2. Trains(task[g][r])' /\ Writes(g, r)' /\ (r = 0 => Errs(g)')
    BY <2>1 DEF TaskOK, Trains, Writes, Errs, Dir
  <2>3. r = 0 => Precedes(task[g][0].parent, Dir(g, 0))'
    BY <2>1 DEF TaskOK, Precedes, Ready, Dir
  <2>4. r = 0 => Commits(g)' /\ Finishes(g)'
    BY <2>1 DEF TaskOK, Commits, Finishes, Published, Ready, Dir
  <2> QED BY <2>2, <2>3, <2>4 DEF TaskOK
<1>4. AttemptsOK' /\ LaterFresh'
  BY DEF TrainingInv, AttemptsOK, ThisAttempt, Latest, LaterFresh
<1> QED BY <1>1, <1>2, <1>3, <1>4 DEF TrainingInv

\* What the driver made sure of stays while only the driver's step changes.
LEMMA DriverFacts ==
  ASSUME TrainingInv, UNCHANGED <<store, jobs>>
  PROVE  /\ ThisAttempt' = ThisAttempt /\ Final' = Final
         /\ \A a : Retried(a)' <=> Retried(a)
         /\ \A c : Published(c)' <=> Published(c)
BY DEF ThisAttempt, Latest, Final, Retried, Published

LEMMA DriverStepKeeps ==
  ASSUME TrainingInv, Validate \/ VerifyFinal \/ JobFails \/ TimerFires \/ DriverCrash
  PROVE  TrainingInv'
<1>1. TypeOK /\ DriverOK /\ UNCHANGED <<store, jobs, task, outcome, resume, result>>
  BY DEF TrainingInv, Validate, VerifyFinal, JobFails, TimerFires, DriverCrash
<1>2. faults' \in 0 .. MaxFaults
  BY <1>1, FaultTypes DEF TypeOK, Validate, VerifyFinal, JobFails, TimerFires, DriverCrash
<1>3. driver = [pc |-> driver.pc, timedOut |-> driver.timedOut] /\ driver.timedOut \in BOOLEAN
      /\ driver.pc \in {"idle", "running", "returned", "verified", "failing"}
  BY <1>1 DEF TypeOK
<1>4. driver' \in [pc: {"idle", "running", "returned", "verified", "failing"}, timedOut: BOOLEAN]
  BY <1>3 DEF Validate, VerifyFinal, JobFails, TimerFires, DriverCrash, DriverGoes
<1>5. /\ ThisAttempt' = ThisAttempt /\ Final' = Final
      /\ \A a : Retried(a)' <=> Retried(a)
      /\ \A c : Published(c)' <=> Published(c)
  BY <1>1, DriverFacts
<1>6. driver'.pc # "idle" => jobs # <<>> /\ result[ThisAttempt] = "none"
  <2>1. driver'.pc # "idle" => driver.pc # "idle"
    BY <1>1 DEF Validate, VerifyFinal, JobFails, TimerFires, DriverCrash, DriverGoes, DriverAt, TypeOK
  <2> QED BY <1>1, <2>1 DEF DriverOK
<1>7. driver'.pc \in {"returned", "verified"} => Published(Final) /\ ~Retried(ThisAttempt)
  <2>1. CASE Validate
    <3>1. driver.pc = "running" /\ \A r \in Rank : Runs(Latest, r, "done")
      BY <2>1 DEF Validate, DriverAt
    <3>2. Latest \in DOMAIN jobs
      BY <1>1, <3>1, Positions DEF DriverOK, Latest, TypeOK
    <3>3. task[Latest][0].pc = "done" /\ TaskOK(Latest, 0)
      BY <1>1, <3>1, <3>2, Positions DEF Runs, TrainingInv, Tasks
    <3>4. Published(Final)
      BY <3>3 DEF TaskOK, Finishes, Final, ThisAttempt
    <3> QED BY <1>1, <2>1, <3>4 DEF Validate, DriverGoes, TypeOK
  <2>2. CASE VerifyFinal
    BY <1>1, <2>2 DEF VerifyFinal, DriverOK, DriverAt
  <2>3. CASE JobFails \/ TimerFires \/ DriverCrash
    BY <1>1, <2>3 DEF JobFails, TimerFires, DriverCrash, DriverGoes, DriverOK, TypeOK
  <2> QED BY <2>1, <2>2, <2>3
<1>8. DriverOK'
  BY <1>1, <1>5, <1>6, <1>7 DEF DriverOK
<1>9. result' \in [Attempt -> {"none", "completed", "failed"}]
  BY <1>1 DEF TypeOK
<1> QED BY <1>1, <1>2, <1>4, <1>8, <1>9, DriverMoves

LEMMA PublishKeeps ==
  ASSUME TrainingInv, Publish PROVE TrainingInv'
<1>1. /\ TypeOK /\ DriverOK /\ UNCHANGED <<store, jobs, task, outcome, resume, faults>>
      /\ driver' = [driver EXCEPT !.pc = "idle"] /\ driver.pc \in {"verified", "failing"}
      /\ result' = [result EXCEPT ![ThisAttempt] =
                      IF driver.pc = "verified" THEN "completed" ELSE "failed"]
  BY DEF TrainingInv, Publish, DriverGoes, DriverAt
<1>2. jobs # <<>> /\ ThisAttempt \in Attempt
  BY <1>1 DEF DriverOK, ThisAttempt, Latest, TypeOK
<1>3. driver' \in [pc: {"idle", "running", "returned", "verified", "failing"}, timedOut: BOOLEAN]
      /\ driver'.pc = "idle"
  BY <1>1 DEF TypeOK
<1>4. /\ ThisAttempt' = ThisAttempt /\ Final' = Final
      /\ \A a : Retried(a)' <=> Retried(a)
      /\ \A c : Published(c)' <=> Published(c)
  BY <1>1, DriverFacts
<1>5. result' \in [Attempt -> {"none", "completed", "failed"}]
  BY <1>1, <1>2 DEF TypeOK
<1>6. ASSUME NEW a \in Attempt
      PROVE  /\ result'[a] # "none" => jobs # <<>> /\ a <= ThisAttempt
             /\ result'[a] = "completed" => Published(<<a, Epochs - 1>>) /\ ~Retried(a)
  <2>1. CASE a = ThisAttempt
    <3>1. a <= ThisAttempt
      BY <1>2, <2>1 DEF Attempt
    <3>2. result'[a] = "completed" => driver.pc = "verified"
      BY <1>1, <1>2, <2>1 DEF TypeOK
    <3> QED BY <1>1, <1>2, <2>1, <3>1, <3>2 DEF DriverOK, Final
  <2>2. CASE a # ThisAttempt
    BY <1>1, <2>2 DEF DriverOK, TypeOK
  <2> QED BY <2>1, <2>2
<1>7. DriverOK'
  BY <1>1, <1>3, <1>4, <1>6 DEF DriverOK
<1> QED BY <1>1, <1>3, <1>5, <1>7, DriverMoves DEF TypeOK

\* A stage that is submitted, of a new attempt or of this one again.
LEMMA StageAdded ==
  ASSUME TrainingInv, NEW a \in Attempt, Len(jobs) < MaxJobs, jobs' = Append(jobs, a),
         jobs # <<>> => ThisAttempt <= a, result[a] = "none",
         UNCHANGED <<store, task, outcome, result>>, faults' \in 0 .. MaxFaults,
         driver' \in [pc: {"idle", "running", "returned", "verified", "failing"}, timedOut: BOOLEAN],
         driver'.pc = "running", resume' \in [Attempt -> Checkpoint \cup {NoCheckpoint}],
         \A b \in Attempt : resume'[b] # NoCheckpoint =>
           resume'[b] \in Checkpoint /\ resume'[b][1] < b /\ resume'[b][2] + 1 < Epochs
  PROVE  TrainingInv'
<1> PICK n : n = Len(jobs) + 1
  OBVIOUS
<1>1. /\ TypeOK /\ Len(jobs) \in Nat /\ DOMAIN jobs = 1 .. Len(jobs) /\ DOMAIN jobs \subseteq Job
      /\ n \in Job /\ n \in Nat /\ n \notin DOMAIN jobs /\ 0 \in Rank /\ Epochs \in Nat \ {0}
      /\ MaxAttempts \in Nat
  BY Positions, BoundsAssumption DEF TrainingInv, Job
<1>2. /\ jobs' \in Seq(Attempt) /\ Len(jobs') = n /\ DOMAIN jobs' = 1 .. n /\ jobs'[n] = a
      /\ \A g \in DOMAIN jobs : jobs'[g] = jobs[g]
      /\ DOMAIN jobs \subseteq DOMAIN jobs' /\ \A g \in DOMAIN jobs' : g \in DOMAIN jobs \/ g = n
  BY <1>1 DEF TypeOK
<1>3. jobs' # <<>> /\ ThisAttempt' = a
  BY <1>1, <1>2 DEF ThisAttempt, Latest
<1>4. TypeOK'
  <2>1. Len(jobs') <= MaxJobs
    BY <1>1, <1>2, BoundsAssumption
  <2> QED BY <1>1, <1>2, <2>1 DEF TypeOK
<1>6. Directories'
  <2>1. ASSUME NEW c \in Checkpoint PROVE DirectoryOK(c)'
    <3>1. DirectoryOK(c)
      BY DEF TrainingInv, Directories
    <3>2. Precedes(store[c].parent, c) => Precedes(store[c].parent, c)'
      BY DEF Precedes, Ready
    <3> QED BY <1>2, <3>1, <3>2 DEF DirectoryOK, Ready, ReplicasAgree, Replica
  <2> QED BY <2>1 DEF Directories
<1>7. ASSUME NEW g \in DOMAIN jobs, NEW r \in Rank PROVE TaskOK(g, r)'
  <2>1. TaskOK(g, r) /\ jobs'[g] = jobs[g]
    BY <1>2 DEF TrainingInv, Tasks
  <2>2. Dir(g, r)' = Dir(g, r) /\ Dir(g, 0)' = Dir(g, 0)
    BY <2>1 DEF Dir
  <2>3. Precedes(task[g][0].parent, Dir(g, 0)) => Precedes(task[g][0].parent, Dir(g, 0))'
    BY <2>2 DEF Precedes, Ready
  <2> QED BY <2>1, <2>2, <2>3 DEF TaskOK, Trains, Writes, Commits, Finishes, Published, Errs
<1>8. ASSUME NEW r \in Rank PROVE TaskOK(n, r)'
  <2>1. task'[n][r] = Fresh /\ task'[n][0] = Fresh /\ outcome'[n] = "none"
    BY <1>1 DEF TrainingInv, LaterFresh
  <2>2. Trains(Fresh)
    BY <1>1 DEF Trains, Fresh
  <2>3. Precedes(task[n][0].parent, Dir(n, 0))'
    <3>1. Dir(n, 0)' = <<a, 0>> /\ task'[n][0].parent = NoCheckpoint
      BY <1>2, <2>1 DEF Dir, Fresh
    <3>2. a # 0
      BY <1>1 DEF Attempt
    <3> QED BY <3>1, <3>2 DEF Precedes, NoCheckpoint
  <2>4. Writes(n, r)' /\ Commits(n)' /\ Finishes(n)' /\ Errs(n)'
    BY <2>1 DEF Writes, Commits, Finishes, Errs, Fresh
  <2> QED BY <2>1, <2>2, <2>3, <2>4 DEF TaskOK
<1>9. Tasks'
  BY <1>2, <1>7, <1>8 DEF Tasks
<1>10. AttemptsOK'
  <2>1. ASSUME NEW g \in DOMAIN jobs' PROVE jobs'[g] <= a
    <3>1. CASE g \in DOMAIN jobs
      <4>1. jobs[g] <= ThisAttempt /\ jobs # <<>> /\ ThisAttempt <= a
        BY <1>1, <3>1 DEF TrainingInv, AttemptsOK
      <4>2. jobs[g] \in Nat /\ ThisAttempt \in Nat /\ a \in Nat
        BY <1>1, <3>1, <4>1 DEF TypeOK, ThisAttempt, Latest, Attempt
      <4> QED BY <1>2, <3>1, <4>1, <4>2
    <3>2. CASE g = n
      BY <1>2, <3>2 DEF Attempt
    <3> QED BY <1>2, <3>1, <3>2
  <2> QED BY <1>3, <2>1 DEF AttemptsOK
<1>11. DriverOK'
  <2>1. ASSUME NEW b \in Attempt
        PROVE  /\ result[b] # "none" => b <= a
               /\ result[b] = "completed" => Published(<<b, Epochs - 1>>)' /\ ~Retried(b)'
    <3>1. ASSUME result[b] # "none" PROVE b <= a /\ b # a
      <4>1. jobs # <<>> /\ b <= ThisAttempt /\ ThisAttempt <= a /\ b # a
        BY <3>1 DEF TrainingInv, DriverOK
      <4>2. ThisAttempt \in Nat /\ a \in Nat /\ b \in Nat
        BY <1>1, <4>1 DEF TypeOK, ThisAttempt, Latest, Attempt
      <4> QED BY <4>1, <4>2
    <3>2. ASSUME result[b] = "completed" PROVE Published(<<b, Epochs - 1>>)' /\ ~Retried(b)'
      <4>1. b # a /\ Published(<<b, Epochs - 1>>) /\ ~Retried(b)
        BY <3>1, <3>2 DEF TrainingInv, DriverOK
      <4>2. {g \in DOMAIN jobs' : jobs'[g] = b} = {g \in DOMAIN jobs : jobs[g] = b}
        BY <1>2, <4>1
      <4>3. ~Retried(b)'
        BY <4>1, <4>2 DEF Retried
      <4> QED BY <4>1, <4>3 DEF Published
    <3> QED BY <3>1, <3>2
  <2> QED BY <1>3, <2>1 DEF DriverOK
<1>12. LaterFresh'
  BY <1>2 DEF TrainingInv, LaterFresh
<1> QED BY <1>4, <1>6, <1>9, <1>10, <1>11, <1>12 DEF TrainingInv

LEMMA LaunchKeeps ==
  ASSUME TrainingInv, NEW c \in Checkpoint \cup {NoCheckpoint}, Launch(c) PROVE TrainingInv'
<1> PICK a : a = IF jobs = <<>> THEN 1 ELSE ThisAttempt + 1
  OBVIOUS
<1>1. /\ a \in Attempt /\ Len(jobs) < MaxJobs /\ jobs' = Append(jobs, a)
      /\ c # NoCheckpoint => Marked(c) /\ c[2] + 1 < Epochs
      /\ resume' = [resume EXCEPT ![a] = c] /\ driver' = [pc |-> "running", timedOut |-> FALSE]
      /\ UNCHANGED <<store, task, outcome, result, faults>>
  BY DEF Launch, Latest
<1>2. TypeOK /\ AttemptsOK /\ DriverOK
  BY DEF TrainingInv
<1>3. jobs # <<>> => ThisAttempt \in Nat /\ a = ThisAttempt + 1
  <2>1. jobs # <<>> => ThisAttempt \in Attempt
    BY <1>2 DEF TypeOK, ThisAttempt, Latest
  <2> QED BY <2>1 DEF Attempt
<1>4. jobs # <<>> => ThisAttempt <= a
  BY <1>3
<1>5. result[a] = "none"
  <2>1. jobs # <<>> => ~(a <= ThisAttempt)
    BY <1>3
  <2>2. result[a] # "none" => jobs # <<>> /\ a <= ThisAttempt
    BY <1>1, <1>2 DEF DriverOK
  <2> QED BY <2>1, <2>2
<1>6. c # NoCheckpoint => c[1] < a
  <2> SUFFICES ASSUME c # NoCheckpoint PROVE c[1] < a
    OBVIOUS
  <2>1. DirectoryOK(c) /\ store[c].marker # "none" /\ c \in Checkpoint
    BY <1>1 DEF TrainingInv, Directories, Marked
  <2>2. store[c].owner \in DOMAIN jobs /\ jobs[store[c].owner] = c[1]
    BY <2>1 DEF DirectoryOK
  <2>3. jobs # <<>> /\ c[1] <= ThisAttempt /\ c[1] \in Nat
    BY <1>2, <2>1, <2>2 DEF AttemptsOK, Checkpoint, Attempt
  <2> QED BY <1>3, <2>3
<1>7. resume' \in [Attempt -> Checkpoint \cup {NoCheckpoint}] /\ resume'[a] = c
      /\ \A b \in Attempt \ {a} : resume'[b] = resume[b]
  BY <1>1, <1>2 DEF TypeOK
<1>8. \A b \in Attempt : resume'[b] # NoCheckpoint =>
        resume'[b] \in Checkpoint /\ resume'[b][1] < b /\ resume'[b][2] + 1 < Epochs
  BY <1>1, <1>2, <1>6, <1>7 DEF AttemptsOK
<1>9. /\ driver' \in [pc: {"idle", "running", "returned", "verified", "failing"}, timedOut: BOOLEAN]
      /\ driver'.pc = "running" /\ faults' \in 0 .. MaxFaults
  BY <1>1, <1>2 DEF TypeOK
<1> QED BY <1>1, <1>4, <1>5, <1>7, <1>8, <1>9, StageAdded

LEMMA RetryStageKeeps ==
  ASSUME TrainingInv, RetryStage PROVE TrainingInv'
<1>1. /\ driver.pc = "running" /\ Len(jobs) < MaxJobs /\ jobs' = Append(jobs, ThisAttempt)
      /\ UNCHANGED <<store, task, outcome, driver, resume, result>>
  BY DEF RetryStage, DriverAt, Latest
<1>2. TypeOK /\ AttemptsOK /\ DriverOK
  BY DEF TrainingInv
<1>3. jobs # <<>> /\ result[ThisAttempt] = "none"
  BY <1>1, <1>2 DEF DriverOK
<1>4. ThisAttempt \in Attempt /\ ThisAttempt <= ThisAttempt
  <2>1. ThisAttempt \in Attempt
    BY <1>2, <1>3 DEF TypeOK, ThisAttempt, Latest
  <2> QED BY <2>1 DEF Attempt
<1>5. faults' \in 0 .. MaxFaults
  BY <1>2, FaultTypes DEF RetryStage
<1>6. resume' \in [Attempt -> Checkpoint \cup {NoCheckpoint}]
      /\ driver' \in [pc: {"idle", "running", "returned", "verified", "failing"}, timedOut: BOOLEAN]
      /\ driver'.pc = "running"
  BY <1>1, <1>2 DEF TypeOK
<1>7. \A b \in Attempt : resume'[b] # NoCheckpoint =>
        resume'[b] \in Checkpoint /\ resume'[b][1] < b /\ resume'[b][2] + 1 < Epochs
  BY <1>1, <1>2 DEF AttemptsOK
<1> QED BY <1>1, <1>3, <1>4, <1>5, <1>6, <1>7, StageAdded

-----------------------------------------------------------------------------
(* The theorems.                                                           *)

LEMMA TrainingInit == Init => TrainingInv
<1> SUFFICES ASSUME Init PROVE TrainingInv
  OBVIOUS
<1>1. /\ Epochs \in Nat \ {0} /\ MaxJobs \in Nat /\ MaxFaults \in Nat
      /\ \A r : NoPart \in Part
  BY EpochsAssumption, BoundsAssumption DEF NoPart, Part
<1>2. Empty \in Directory /\ Fresh \in Task
  BY <1>1, Steps DEF Empty, Directory, Fresh, Task
<1>3. TypeOK
  BY <1>1, <1>2 DEF Init, TypeOK
<1>4. jobs = <<>> /\ DOMAIN jobs = {} /\ driver.pc = "idle"
  BY DEF Init
<1>5. Directories
  BY DEF Init, Directories, DirectoryOK, Empty, NoPart
<1>6. Tasks /\ AttemptsOK /\ DriverOK /\ LaterFresh
  BY <1>4 DEF Init, Tasks, AttemptsOK, DriverOK, LaterFresh
<1> QED BY <1>3, <1>5, <1>6 DEF TrainingInv

LEMMA TrainingNext == TrainingInv /\ [Next]_vars => TrainingInv'
<1> SUFFICES ASSUME TrainingInv, [Next]_vars PROVE TrainingInv'
  OBVIOUS
<1>1. ASSUME NEW g \in Job, NEW r \in Rank, RankStep(g, r) PROVE TrainingInv'
  <2>1. UNCHANGED <<jobs, driver, resume, result>>
    BY <1>1 DEF RankStep
  <2>2. CASE Restore(g, r)
    BY <2>1, <2>2, RestoreKeeps
  <2>3. CASE Train(g, r)
    BY <2>1, <2>3, TrainKeeps
  <2>4. CASE ReceiveHandle(g, r)
    BY <2>1, <2>4, ReceiveHandleKeeps
  <2>5. CASE WriteRank(g, r)
    BY <2>1, <2>5, WriteRankKeeps
  <2>6. CASE FinishRank(g, r)
    BY <2>1, <2>6, FinishRankKeeps
  <2>7. CASE ReceiveReference(g, r)
    BY <2>1, <2>7, ReceiveReferenceKeeps
  <2>8. CASE GatherReceipts(g, r)
    BY <2>1, <2>8, GatherReceiptsKeeps
  <2>9. CASE CollectiveFails(g, r)
    BY <2>1, <2>9, CollectiveFailsKeeps
  <2>10. CASE Begin(g)
    BY <2>1, <2>10, BeginKeeps
  <2>11. CASE WriteManifest(g)
    BY <2>1, <2>11, WriteManifestKeeps
  <2>12. CASE SyncManifest(g)
    BY <2>1, <2>12, SyncManifestKeeps
  <2>13. CASE Link(g)
    BY <2>1, <2>13, LinkKeeps
  <2>14. CASE FinishCommit(g)
    BY <2>1, <2>14, FinishCommitKeeps
  <2> QED BY <1>1, <2>2, <2>3, <2>4, <2>5, <2>6, <2>7, <2>8, <2>9, <2>10, <2>11, <2>12, <2>13,
             <2>14 DEF RankStep
<1>2. ASSUME NEW g \in Job, RankFault(g) PROVE TrainingInv'
  <2>1. UNCHANGED <<jobs, driver, resume, result>>
    BY <1>2 DEF RankFault
  <2>2. CASE CommitIoFails(g)
    BY <2>1, <2>2, CommitIoFailsKeeps
  <2>3. ASSUME NEW r \in Rank, Killed(g, r) PROVE TrainingInv'
    BY <2>1, <2>3, CollectiveFailsKeeps
  <2> QED BY <1>2, <2>2, <2>3 DEF RankFault
<1>3. CASE DriverStep
  BY <1>3, DriverStepKeeps, PublishKeeps DEF DriverStep
<1>4. ASSUME NEW c \in Checkpoint \cup {NoCheckpoint}, Launch(c) PROVE TrainingInv'
  BY <1>4, LaunchKeeps
<1>5. CASE RetryStage
  BY <1>5, RetryStageKeeps
<1>6. CASE TimerFires \/ DriverCrash
  BY <1>6, DriverStepKeeps
<1>7. CASE Rot
  BY <1>7, RotKeeps
<1>8. CASE PowerLoss
  BY <1>8, PowerLossKeeps
<1>9. CASE UNCHANGED vars
  <2>1. UNCHANGED <<store, jobs, task, outcome, driver, resume, result, faults>>
    BY <1>9 DEF vars
  <2>2. TypeOK /\ DriverOK
    BY DEF TrainingInv
  <2>3. DriverOK'
    BY <2>1, <2>2 DEF DriverOK, ThisAttempt, Latest, Final, Retried, Published
  <2> QED BY <2>1, <2>2, <2>3, DriverMoves DEF TypeOK
<1> QED BY <1>1, <1>2, <1>3, <1>4, <1>5, <1>6, <1>7, <1>8, <1>9 DEF Next

\* Through every interleaving of ranks and faults, the files of a checkpoint directory,
\* what each rank knows of it and what the driver has made sure of stay consistent.
THEOREM TrainingInvariant == Spec => []TrainingInv
BY TrainingInit, TrainingNext, PTL DEF Spec

\* The variables keep their types.
THEOREM TrainingTypeCorrect == Spec => []TypeOK
<1>1. TrainingInv => TypeOK
  BY DEF TrainingInv
<1> QED BY <1>1, TrainingInvariant, PTL

\* A checkpoint whose COMMITTED.json is found loads, unless somebody changed a payload:
\* commit_checkpoint syncs the ranks and the manifest before it links the marker.
THEOREM MarkedLoads == Spec => []MarkedIsLoadable
<1>1. TrainingInv => MarkedIsLoadable
  BY DEF TrainingInv, Directories, DirectoryOK, MarkedIsLoadable, Loadable, Marked, Verified, Ready
<1> QED BY <1>1, TrainingInvariant, PTL

\* A committed epoch e holds the state of exactly e + 1 epochs in every rank, equal in all.
THEOREM CommittedIsWhole == Spec => []CommittedEpochIsWhole
<1>1. TrainingInv => CommittedEpochIsWhole
  <2> SUFFICES ASSUME TrainingInv, NEW c \in Checkpoint, store[c].marker # "none", NEW r \in Rank
               PROVE  store[c].part[r].trained = c[2] + 1 /\ Replica(c, r) = Replica(c, 0)
    BY DEF CommittedEpochIsWhole
  <2>1. DirectoryOK(c) /\ 0 \in Rank
    BY Positions DEF TrainingInv, Directories
  <2>2. Ready(c) /\ ReplicasAgree(c)
    BY <2>1 DEF DirectoryOK
  <2> QED BY <2>1, <2>2 DEF DirectoryOK, Ready, ReplicasAgree
<1> QED BY <1>1, TrainingInvariant, PTL

\* The parents of a committed checkpoint lead through every epoch before it to
\* directories whose manifests and ranks are durable.
THEOREM ParentsStay == Spec => []ParentsAreKept
<1>1. TrainingInv => ParentsAreKept
  <2> SUFFICES ASSUME TrainingInv, NEW c \in Checkpoint, store[c].marker # "none"
               PROVE  Precedes(store[c].parent, c)
    BY DEF ParentsAreKept, Precedes, Ready
  <2> QED BY DEF TrainingInv, Directories, DirectoryOK
<1> QED BY <1>1, TrainingInvariant, PTL

\* commit_checkpoint that raises anything but AmbiguousCommit has published nothing,
\* and nobody publishes that directory later.
THEOREM PlainErrorIsUnpublished == Spec => []PlainErrorMeansUnpublished
<1>1. TrainingInv => PlainErrorMeansUnpublished
  <2> SUFFICES ASSUME TrainingInv, NEW g \in DOMAIN jobs, outcome[g] = "error"
               PROVE  store[Dir(g, 0)].marker = "none"
    BY DEF PlainErrorMeansUnpublished
  <2>1. TaskOK(g, 0)
    BY Positions DEF TrainingInv, Tasks
  <2> QED BY <2>1 DEF TaskOK, Errs
<1> QED BY <1>1, TrainingInvariant, PTL

\* A completed result stands for a durable final checkpoint of the attempt's only stage.
THEOREM CompletedIsFinal == Spec => []CompletedIsFinalAndUnretried
<1>1. TrainingInv => CompletedIsFinalAndUnretried
  <2> SUFFICES ASSUME TrainingInv, NEW a \in Attempt, result[a] = "completed"
               PROVE  LET c == <<a, Epochs - 1>> IN
                      /\ ~Retried(a) /\ store[c].marker = "synced" /\ store[c].manifest = "synced"
                      /\ \A r \in Rank : store[c].part[r].synced /\ store[c].part[r].trained = Epochs
    BY DEF CompletedIsFinalAndUnretried
  <2>1. PICK c : c = <<a, Epochs - 1>>
    OBVIOUS
  <2>2. Published(c) /\ ~Retried(a)
    BY <2>1 DEF TrainingInv, DriverOK
  <2>3. Epochs \in Nat \ {0} /\ c \in Checkpoint /\ c[2] + 1 = Epochs
    BY <2>1, EpochsAssumption DEF Checkpoint
  <2>4. DirectoryOK(c)
    BY <2>3 DEF TrainingInv, Directories
  <2>5. Ready(c)
    BY <2>2, <2>4 DEF Published, DirectoryOK
  <2>6. \A r \in Rank : store[c].part[r].synced /\ store[c].part[r].trained = Epochs
    BY <2>3, <2>4, <2>5 DEF DirectoryOK, Ready
  <2> QED BY <2>1, <2>2, <2>6 DEF Published
<1> QED BY <1>1, TrainingInvariant, PTL

-----------------------------------------------------------------------------
(* The checkpoints form a chain (CheckpointChain).                         *)
(*                                                                         *)
(* DirectoryOK says what the parent of a checkpoint is like, not which one *)
(* it is. LineageInv adds that a directory and the rank that will begin it *)
(* continue where the attempt's resume argument says, so that a published  *)
(* parent is the one the abstract specification names.                     *)

\* Checkpoint c is one that its attempt writes, and p the one it continues from.
Follows(p, c) == resume[c[1]][2] < c[2] /\ p = Chain!Predecessor(c)

\* Rank 0 of a stage knows the parent of its directory once it is restored, and its link
\* is there until it has synced it.
Tracks(g) ==
    /\ task[g][0].pc # "restore" => Follows(task[g][0].parent, Dir(g, 0))
    /\ task[g][0].alive /\ task[g][0].pc = "linked" => store[Dir(g, 0)].marker = "linked"

Lineage == \A c \in Checkpoint : store[c].owner # 0 => Follows(store[c].parent, c)
LineageInv == Lineage /\ \A g \in DOMAIN jobs : Tracks(g)

\* What a step may do to rank 0 of a stage without disturbing what it knows.
Quiet(t, u) ==
    /\ u.epoch = t.epoch /\ u.parent = t.parent
    /\ t.pc = "restore" => u.pc = "restore"
    /\ u.alive /\ u.pc = "linked" => t.alive /\ t.pc = "linked"

SameOwners == \A c \in Checkpoint : store'[c].owner = store[c].owner /\ store'[c].parent = store[c].parent
SameMarkers == \A c \in Checkpoint : store'[c].marker = store[c].marker

\* The lineage survives a step of one stage's rank 0 that knows what it does.
LEMMA LineageMoves ==
  ASSUME TrainingInv, LineageInv, UNCHANGED <<jobs, resume>>, NEW g \in DOMAIN jobs,
         \A h \in DOMAIN jobs : h # g => Quiet(task[h][0], task'[h][0]),
         Tracks(g)', Lineage',
         \A c \in Checkpoint : store[c].marker = "linked" /\ store[c].owner # g =>
                                 store'[c].marker = store[c].marker
  PROVE  LineageInv'
<1>1. TypeOK /\ 0 \in Rank
  BY Positions DEF TrainingInv
<1>2. ASSUME NEW h \in DOMAIN jobs, h # g PROVE Tracks(h)'
  <2>1. Quiet(task[h][0], task'[h][0]) /\ Tracks(h) /\ TaskOK(h, 0)
    BY <1>1, <1>2 DEF LineageInv, TrainingInv, Tasks
  <2>2. Dir(h, 0)' = Dir(h, 0)
    BY <2>1 DEF Dir, Quiet
  <2> DEFINE d == Dir(h, 0)
  <2>3. task'[h][0].pc # "restore" => Follows(task[h][0].parent, Dir(h, 0))'
    BY <2>1, <2>2 DEF Quiet, Tracks, Follows, Chain!Predecessor
  <2>4. ASSUME task'[h][0].alive, task'[h][0].pc = "linked" PROVE store'[d].marker = "linked"
    <3>1. task[h][0].alive /\ task[h][0].pc = "linked" /\ store[d].marker = "linked"
      BY <2>1, <2>4 DEF Quiet, Tracks
    <3>2. d \in Checkpoint
      BY <1>1, <2>1, <3>1, DirIsCheckpoint DEF TaskOK, Trains
    <3>3. store[d].owner = h
      BY <2>1, <3>1 DEF TaskOK, Commits
    <3> QED BY <1>2, <3>1, <3>2, <3>3
  <2> QED BY <2>2, <2>3, <2>4 DEF Tracks
<1> QED BY <1>2 DEF LineageInv

\* It survives a step that leaves owners and parents alone, and markers unless nobody lives.
LEMMA LineageQuiet ==
  ASSUME TrainingInv, LineageInv, UNCHANGED <<jobs, resume>>, SameOwners,
         \A h \in DOMAIN jobs : Quiet(task[h][0], task'[h][0]),
         SameMarkers \/ \A h \in DOMAIN jobs : ~task'[h][0].alive
  PROVE  LineageInv'
<1>1. TypeOK /\ 0 \in Rank
  BY Positions DEF TrainingInv
<1>2. Lineage'
  BY DEF LineageInv, Lineage, SameOwners, Follows, Chain!Predecessor
<1>3. ASSUME NEW h \in DOMAIN jobs PROVE Tracks(h)'
  <2>1. Quiet(task[h][0], task'[h][0]) /\ Tracks(h) /\ TaskOK(h, 0)
    BY <1>1 DEF LineageInv, TrainingInv, Tasks
  <2>2. Dir(h, 0)' = Dir(h, 0)
    BY <2>1 DEF Dir, Quiet
  <2>3. task'[h][0].pc # "restore" => Follows(task[h][0].parent, Dir(h, 0))'
    BY <2>1, <2>2 DEF Quiet, Tracks, Follows, Chain!Predecessor
  <2>4. ASSUME task'[h][0].alive, task'[h][0].pc = "linked" PROVE store'[Dir(h, 0)].marker = "linked"
    <3>1. task[h][0].alive /\ task[h][0].pc = "linked" /\ store[Dir(h, 0)].marker = "linked"
      BY <2>1, <2>4 DEF Quiet, Tracks
    <3>2. Dir(h, 0) \in Checkpoint
      BY <1>1, <2>1, <3>1, DirIsCheckpoint DEF TaskOK, Trains
    <3> QED BY <2>4, <3>1, <3>2 DEF SameMarkers
  <2> QED BY <2>2, <2>3, <2>4 DEF Tracks
<1> QED BY <1>2, <1>3 DEF LineageInv

\* What a reader of checkpoints and results sees changes only as these parts do.
Whole(c) == store[c].manifest = "synced" /\ Ready(c)
LEMMA Shown ==
  ASSUME UNCHANGED <<jobs, resume, result>>, SameMarkers,
         \A c \in Checkpoint : /\ store[c].marker # "none" => store'[c].parent = store[c].parent
                               /\ Whole(c)' <=> Whole(c)
  PROVE  UNCHANGED Chain!cvars
<1>1. Begun' = Begun
  BY DEF Begun, ThisAttempt, Latest
<1>2. Written' = Written
  BY DEF Written, Whole, Ready
<1>3. Found' = Found /\ Durable' = Durable
  BY DEF Found, Durable, SameMarkers
<1>4. Parent' = Parent
  BY <1>3 DEF Parent, Found
<1> QED BY <1>1, <1>2, <1>3, <1>4 DEF Chain!cvars

\* A step of a rank that no reader sees and no rank 0 learns from.
LEMMA HiddenMoves ==
  ASSUME TrainingInv, LineageInv, NEW g \in DOMAIN jobs, NEW r \in Rank, Others(g, r),
         r = 0 => Quiet(task[g][0], task'[g][0]), UNCHANGED <<jobs, resume, result>>,
         SameOwners, SameMarkers, \A c \in Checkpoint : Whole(c)' <=> Whole(c)
  PROVE  LineageInv' /\ UNCHANGED Chain!cvars
<1>1. 0 \in Rank /\ DOMAIN jobs \subseteq Job
  BY Positions DEF TrainingInv
<1>2. \A h \in DOMAIN jobs : Quiet(task[h][0], task'[h][0])
  BY <1>1 DEF Others, Quiet
<1>3. LineageInv'
  BY <1>2, LineageQuiet
<1>4. UNCHANGED Chain!cvars
  BY Shown DEF SameOwners
<1> QED BY <1>3, <1>4

LEMMA StoreSame ==
  ASSUME store' = store
  PROVE  SameOwners /\ SameMarkers /\ \A c \in Checkpoint : Whole(c)' <=> Whole(c)
BY DEF SameOwners, SameMarkers, Whole, Ready

\* A rank that goes on within its epoch, but neither restores nor links, and one that raises.
LEMMA GotoQuiet ==
  ASSUME TrainingInv, NEW g \in DOMAIN jobs, NEW r \in Rank, NEW pc \in DOMAIN Order, Goto(g, r, pc),
         r = 0 => pc # "linked" /\ task[g][0].pc # "restore"
  PROVE  Others(g, r) /\ (r = 0 => Quiet(task[g][0], task'[g][0]))
<1>1. TaskTypeOK /\ g \in Job
  BY Positions DEF TrainingInv, TypeOK, TaskTypeOK
<1> QED BY <1>1, GotoMoves DEF Quiet

LEMMA RaiseQuiet ==
  ASSUME TrainingInv, NEW g \in DOMAIN jobs, NEW r \in Rank, Raise(g, r)
  PROVE  Others(g, r) /\ (r = 0 => Quiet(task[g][0], task'[g][0]))
<1>1. TaskTypeOK /\ g \in Job
  BY Positions DEF TrainingInv, TypeOK, TaskTypeOK
<1> QED BY <1>1, RaiseMoves DEF Quiet

\* The steps of a rank that leave the store alone.
LEMMA RaiseChain ==
  ASSUME TrainingInv, LineageInv, NEW g \in DOMAIN jobs, NEW r \in Rank, Raise(g, r),
         UNCHANGED <<store, jobs, resume, result>>
  PROVE  LineageInv' /\ UNCHANGED Chain!cvars
BY RaiseQuiet, StoreSame, HiddenMoves

LEMMA GotoChain ==
  ASSUME TrainingInv, LineageInv, NEW g \in DOMAIN jobs, NEW r \in Rank, NEW pc \in DOMAIN Order,
         Goto(g, r, pc), r = 0 => pc # "linked" /\ task[g][0].pc # "restore",
         UNCHANGED <<store, jobs, resume, result>>
  PROVE  LineageInv' /\ UNCHANGED Chain!cvars
BY GotoQuiet, StoreSame, HiddenMoves

\* A step of rank 0 that leaves the store alone and tells it its parent.
LEMMA RestoreChain ==
  ASSUME TrainingInv, LineageInv, NEW g \in Job, NEW r \in Rank, Restore(g, r),
         UNCHANGED <<jobs, driver, resume, result>>
  PROVE  LineageInv' /\ UNCHANGED Chain!cvars
<1> PICK c : c = resume[jobs[g]]
  OBVIOUS
<1>1. /\ Runs(g, r, "restore") /\ UNCHANGED store
      /\ \/ c = NoCheckpoint /\ Goto(g, r, "train")
         \/ /\ c # NoCheckpoint
            /\ task' = [task EXCEPT ![g][r] =
                          [@ EXCEPT !.pc = "train", !.epoch = c[2] + 1, !.parent = c,
                                    !.trained = store[c].part[r].trained,
                                    !.own = store[c].part[r].own]]
         \/ Raise(g, r)
  BY DEF Restore
<1>2. /\ g \in DOMAIN jobs /\ TypeOK /\ TaskTypeOK /\ TaskOK(g, r) /\ task[g][r] \in Task
      /\ task[g][r].pc = "restore" /\ 0 \in Rank /\ DOMAIN jobs \subseteq Job
  <2>1. Runs(g, r, "restore") /\ "restore" \in DOMAIN Order
    BY <1>1, Steps
  <2> QED BY <2>1, RankFacts, Positions
<1>3. jobs[g] \in Attempt
  BY <1>2, Positions
<1>4. CASE Raise(g, r)
  BY <1>1, <1>2, <1>4, RaiseChain
<1>5. ASSUME Others(g, r),
             r = 0 => /\ task'[g][0].pc = "train" /\ task'[g][0].epoch = c[2] + 1
                      /\ task'[g][0].parent = c /\ (c # NoCheckpoint => c[2] \in Nat)
      PROVE  LineageInv' /\ UNCHANGED Chain!cvars
  <2>1. CASE r # 0
    BY <1>1, <1>2, <1>5, <2>1, StoreSame, HiddenMoves
  <2>2. CASE r = 0
    <3>1. Dir(g, 0)' = <<jobs[g], c[2] + 1>>
      BY <1>5, <2>2 DEF Dir
    <3>2. c[2] \in Int
      BY <1>5, <2>2 DEF NoCheckpoint
    <3>3. Follows(task[g][0].parent, Dir(g, 0))'
      BY <1>5, <2>2, <3>1, <3>2 DEF Follows, Chain!Predecessor
    <3>4. Tracks(g)'
      BY <1>5, <2>2, <3>3 DEF Tracks
    <3>5. Lineage'
      BY <1>1 DEF LineageInv, Lineage, Follows, Chain!Predecessor
    <3>6. \A h \in DOMAIN jobs : h # g => Quiet(task[h][0], task'[h][0])
      BY <1>2, <1>5, <2>2 DEF Others, Quiet
    <3>7. LineageInv'
      BY <1>1, <1>2, <3>4, <3>5, <3>6, LineageMoves
    <3> QED BY <1>1, <3>7, StoreSame, Shown DEF SameOwners
  <2> QED BY <2>1, <2>2
<1>6. CASE c = NoCheckpoint /\ Goto(g, r, "train")
  <2>1. /\ Others(g, r) /\ task'[g][r].pc = "train" /\ task'[g][r].epoch = task[g][r].epoch
        /\ task'[g][r].parent = task[g][r].parent
    BY <1>2, <1>6, GotoMoves, Steps
  <2>2. r = 0 => task[g][0].epoch = 0 /\ Precedes(task[g][0].parent, <<jobs[g], 0>>)
    BY <1>2 DEF TaskOK, Trains, Dir
  <2>3. r = 0 => task[g][0].parent = NoCheckpoint
    BY <2>2 DEF Precedes, Checkpoint
  <2> QED BY <1>5, <1>6, <2>1, <2>2, <2>3 DEF NoCheckpoint
<1>7. CASE /\ c # NoCheckpoint
           /\ task' = [task EXCEPT ![g][r] =
                         [@ EXCEPT !.pc = "train", !.epoch = c[2] + 1, !.parent = c,
                                   !.trained = store[c].part[r].trained,
                                   !.own = store[c].part[r].own]]
  <2>1. c \in Checkpoint
    BY <1>3, <1>7 DEF TrainingInv, AttemptsOK
  <2>2. Others(g, r)
    BY <1>2, <1>7 DEF TaskTypeOK, Others
  <2>3. task'[g][r].pc = "train" /\ task'[g][r].epoch = c[2] + 1 /\ task'[g][r].parent = c
    BY <1>2, <1>7 DEF TaskTypeOK, Task
  <2> QED BY <1>5, <2>1, <2>2, <2>3 DEF Checkpoint
<1> QED BY <1>1, <1>4, <1>6, <1>7

LEMMA TrainChain ==
  ASSUME TrainingInv, LineageInv, NEW g \in Job, NEW r \in Rank, Train(g, r),
         UNCHANGED <<jobs, driver, resume, result>>
  PROVE  LineageInv' /\ UNCHANGED Chain!cvars
<1>1. PICK drift \in BOOLEAN :
        task' = [task EXCEPT ![g][r] =
                   [task[g][r] EXCEPT !.pc = "ledgers", !.trained = task[g][r].trained + 1,
                                      !.own = task[g][r].own \/ drift]]
  BY DEF Train
<1>2. Runs(g, r, "train") /\ UNCHANGED store
  BY DEF Train
<1>3. g \in DOMAIN jobs /\ TaskTypeOK /\ task[g][r] \in Task /\ task[g][r].pc = "train"
  BY <1>2, RankFacts, Steps
<1>4. Others(g, r)
  BY <1>1, <1>3 DEF TaskTypeOK, Others
<1>5. Quiet(task[g][r], task'[g][r])
  BY <1>1, <1>3 DEF TaskTypeOK, Task, Quiet
<1> QED BY <1>2, <1>3, <1>4, <1>5, StoreSame, HiddenMoves

LEMMA WaitingChain ==
  ASSUME TrainingInv, LineageInv, NEW g \in Job, NEW r \in Rank,
         ReceiveHandle(g, r) \/ GatherReceipts(g, r) \/ ReceiveReference(g, r)
           \/ CollectiveFails(g, r) \/ Killed(g, r),
         UNCHANGED <<jobs, driver, resume, result>>
  PROVE  LineageInv' /\ UNCHANGED Chain!cvars
<1>1. CASE ReceiveHandle(g, r)
  <2>1. r # 0 /\ Runs(g, r, "ledgers") /\ Goto(g, r, "write") /\ UNCHANGED store
    BY <1>1 DEF ReceiveHandle
  <2>2. g \in DOMAIN jobs
    BY <2>1, RankFacts, Steps
  <2> QED BY <2>1, <2>2, GotoChain, Steps
<1>2. CASE GatherReceipts(g, r)
  <2>1. Runs(g, r, "receipts") /\ Goto(g, r, "done") /\ UNCHANGED store
    BY <1>2 DEF GatherReceipts
  <2>2. g \in DOMAIN jobs /\ task[g][r].pc = "receipts"
    BY <2>1, RankFacts, Steps
  <2> QED BY <2>1, <2>2, GotoChain, Steps
<1>3. CASE ReceiveReference(g, r)
  <2>1. r # 0 /\ Runs(g, r, "acks") /\ NextEpoch(g, r) /\ UNCHANGED store
    BY <1>3 DEF ReceiveReference
  <2>2. g \in DOMAIN jobs /\ TypeOK /\ task[g][r].epoch # Epochs
    BY <2>1, RankFacts, Steps
  <2>3. Others(g, r)
    BY <2>1, <2>2, NextEpochMoves
  <2> QED BY <2>1, <2>2, <2>3, StoreSame, HiddenMoves
<1>4. CASE CollectiveFails(g, r)
  <2>1. Raise(g, r) /\ UNCHANGED store /\ g <= Len(jobs)
    BY <1>4 DEF CollectiveFails, Waits, Runs
  <2> QED BY <2>1, RaiseChain, Positions DEF TrainingInv, Job
<1>5. CASE Killed(g, r)
  <2>1. Raise(g, r) /\ UNCHANGED store /\ g <= Len(jobs)
    BY <1>5 DEF Killed
  <2> QED BY <2>1, RaiseChain, Positions DEF TrainingInv, Job
<1> QED BY <1>1, <1>2, <1>3, <1>4, <1>5

LEMMA CommitIoChain ==
  ASSUME TrainingInv, LineageInv, NEW g \in Job, CommitIoFails(g),
         UNCHANGED <<jobs, driver, resume, result>>
  PROVE  LineageInv' /\ UNCHANGED Chain!cvars
<1>1. Raise(g, 0) /\ UNCHANGED store /\ g <= Len(jobs)
  BY DEF CommitIoFails, CommitRaises, Runs
<1> QED BY <1>1, RaiseChain, Positions DEF TrainingInv, Job

\* A rank's own part of a directory whose manifest is not written.
LEMMA PartChain ==
  ASSUME TrainingInv, LineageInv, NEW g \in DOMAIN jobs, NEW r \in Rank, NEW pc \in DOMAIN Order,
         Goto(g, r, pc), r = 0 => pc # "linked" /\ task[g][0].pc # "restore",
         UNCHANGED <<jobs, resume, result>>,
         NEW c \in Checkpoint, store[c].manifest # "synced", NEW part,
         store' = [store EXCEPT ![c].part[r] = part]
  PROVE  LineageInv' /\ UNCHANGED Chain!cvars
<1>1. store \in [Checkpoint -> Directory]
  BY DEF TrainingInv, TypeOK
<1>2. \A d \in Checkpoint : /\ store'[d].owner = store[d].owner /\ store'[d].parent = store[d].parent
                            /\ store'[d].manifest = store[d].manifest
                            /\ store'[d].marker = store[d].marker
                            /\ d # c => store'[d] = store[d]
  BY <1>1 DEF Directory
<1>3. \A d \in Checkpoint : Whole(d)' <=> Whole(d)
  BY <1>2 DEF Whole, Ready
<1> QED BY <1>2, <1>3, GotoQuiet, HiddenMoves DEF SameOwners, SameMarkers

LEMMA WriteRankChain ==
  ASSUME TrainingInv, LineageInv, NEW g \in Job, NEW r \in Rank, WriteRank(g, r),
         UNCHANGED <<jobs, driver, resume, result>>
  PROVE  LineageInv' /\ UNCHANGED Chain!cvars
<1> PICK c : c = Dir(g, r)
  OBVIOUS
<1> PICK part : part = [NoPart EXCEPT !.file = "partial", !.trained = task[g][r].trained,
                                      !.own = task[g][r].own]
  OBVIOUS
<1>1. /\ Runs(g, r, "write")
      /\ \/ /\ store[c].manifest = "none"
            /\ store' = [store EXCEPT ![c].part[r] = part] /\ Goto(g, r, "partial")
         \/ Raise(g, r) /\ UNCHANGED store
  BY DEF WriteRank
<1>2. g \in DOMAIN jobs /\ task[g][r].pc = "write" /\ c \in Checkpoint
  <2>1. Runs(g, r, "write") /\ "write" \in DOMAIN Order
    BY <1>1, Steps
  <2> QED BY <2>1, RankFacts
<1>3. CASE Raise(g, r) /\ UNCHANGED store
  BY <1>2, <1>3, RaiseChain
<1> QED BY <1>1, <1>2, <1>3, PartChain, Steps

LEMMA FinishRankChain ==
  ASSUME TrainingInv, LineageInv, NEW g \in Job, NEW r \in Rank, FinishRank(g, r),
         UNCHANGED <<jobs, driver, resume, result>>
  PROVE  LineageInv' /\ UNCHANGED Chain!cvars
<1> PICK c : c = Dir(g, r)
  OBVIOUS
<1>1. /\ Runs(g, r, "partial") /\ Goto(g, r, "acks")
      /\ store' = [store EXCEPT ![c].part[r] = [@ EXCEPT !.file = "ready", !.synced = TRUE]]
  BY DEF FinishRank
<1>2. /\ g \in DOMAIN jobs /\ task[g][r].pc = "partial" /\ task[g][r].alive /\ c \in Checkpoint
      /\ TaskOK(g, r) /\ DirectoryOK(c)
  BY <1>1, RankFacts, Steps
<1>3. store[c].manifest # "synced"
  BY <1>2 DEF TaskOK, Writes, DirectoryOK, Ready
<1>4. PICK part : part = [store[c].part[r] EXCEPT !.file = "ready", !.synced = TRUE]
  OBVIOUS
<1>5. store' = [store EXCEPT ![c].part[r] = part]
  BY <1>1, <1>4
<1>6. Goto(g, r, "acks") /\ task[g][r].pc # "restore" /\ "acks" \in DOMAIN Order
  BY <1>1, <1>2, Steps
<1>7. UNCHANGED <<jobs, resume, result>>
  OBVIOUS
<1> QED BY <1>2, <1>3, <1>5, <1>6, <1>7, PartChain

LEMMA BeginChain ==
  ASSUME TrainingInv, LineageInv, NEW g \in Job, Begin(g), UNCHANGED <<jobs, driver, resume, result>>
  PROVE  LineageInv' /\ UNCHANGED Chain!cvars
<1> PICK c : c = Dir(g, 0)
  OBVIOUS
<1>1. /\ Runs(g, 0, "ledgers")
      /\ IF store[c].owner = 0
         THEN /\ store' = [store EXCEPT ![c].owner = g, ![c].parent = task[g][0].parent]
              /\ Goto(g, 0, "write")
         ELSE Raise(g, 0) /\ UNCHANGED store
  BY DEF Begin
<1>2. TypeOK /\ 0 \in Rank
  BY Positions DEF TrainingInv
<1>3. /\ g \in DOMAIN jobs /\ task[g][0].pc = "ledgers" /\ c \in Checkpoint /\ DirectoryOK(c)
      /\ TaskTypeOK /\ DOMAIN jobs \subseteq Job
  BY <1>1, <1>2, RankFacts, Steps, Positions
<1>4. CASE store[c].owner # 0
  BY <1>1, <1>2, <1>3, <1>4, RaiseChain
<1>5. CASE store[c].owner = 0
  <2>1. /\ store'[c].owner = g /\ store'[c].parent = task[g][0].parent
        /\ \A d \in Checkpoint : /\ store'[d].marker = store[d].marker
                                 /\ store'[d].manifest = store[d].manifest
                                 /\ store'[d].part = store[d].part
                                 /\ d # c => store'[d] = store[d]
    BY <1>1, <1>2, <1>3, <1>5 DEF TypeOK, Directory
  <2>2. /\ Others(g, 0) /\ task'[g][0].pc = "write" /\ task'[g][0].epoch = task[g][0].epoch
        /\ task'[g][0].parent = task[g][0].parent
    BY <1>1, <1>2, <1>3, <1>5, GotoMoves, Steps
  <2>3. Follows(task[g][0].parent, c)
    BY <1>3 DEF LineageInv, Tracks
  <2>4. Lineage'
    BY <2>1, <2>3 DEF LineageInv, Lineage, Follows, Chain!Predecessor
  <2>5. Tracks(g)'
    BY <2>2, <2>3 DEF Tracks, Follows, Chain!Predecessor, Dir
  <2>6. \A h \in DOMAIN jobs : h # g => Quiet(task[h][0], task'[h][0])
    BY <1>2, <1>3, <2>2 DEF Others, Quiet
  <2>7. LineageInv'
    BY <1>3, <2>1, <2>4, <2>5, <2>6, LineageMoves
  <2>8. store[c].marker = "none"
    BY <1>3, <1>5 DEF DirectoryOK
  <2>9. \A d \in Checkpoint : /\ store[d].marker # "none" => store'[d].parent = store[d].parent
                              /\ Whole(d)' <=> Whole(d)
    BY <2>1, <2>8 DEF Whole, Ready
  <2> QED BY <2>1, <2>7, <2>9, Shown DEF SameMarkers
<1> QED BY <1>4, <1>5

\* A directory that was begun continues its attempt's chain.
LEMMA OwnedContinues ==
  ASSUME TrainingInv, LineageInv, NEW c \in Checkpoint, store[c].owner # 0
  PROVE  Chain!Continues(c)
<1> PICK p : p = store[c].parent
  OBVIOUS
<1>1. /\ store[c].owner \in DOMAIN jobs /\ jobs[store[c].owner] = c[1] /\ Precedes(p, c)
  BY DEF TrainingInv, Directories, DirectoryOK
<1>2. resume[c[1]][2] < c[2] /\ p = Chain!Predecessor(c)
  BY DEF LineageInv, Lineage, Follows
<1>3. c[1] <= Begun
  BY <1>1 DEF TrainingInv, AttemptsOK, Begun
<1>4. p # NoCheckpoint => p \in Written
  BY <1>1 DEF Precedes, Written, Ready
<1>5. p # resume[c[1]] => p \in Durable
  <2>1. p # resume[c[1]] => p[1] = c[1]
    BY <1>2 DEF Chain!Predecessor
  <2> QED BY <1>1, <2>1 DEF Precedes, Durable
<1> QED BY <1>2, <1>3, <1>4, <1>5 DEF Chain!Continues

\* Rank 0 commits: owners and parents stay, and nothing but its directory shows it.
LEMMA CommitChain ==
  ASSUME TrainingInv, LineageInv, NEW g \in DOMAIN jobs, Others(g, 0),
         NEW c \in Checkpoint, store[c].owner = g, NEW manifest, NEW marker, Commit(c, manifest, marker),
         UNCHANGED <<jobs, resume, result>>, Quiet(task[g][0], task'[g][0]) \/ Tracks(g)',
         task'[g][0].alive /\ task'[g][0].pc = "linked" => Tracks(g)'
  PROVE  /\ LineageInv' /\ UNCHANGED <<Begun, resume, result>>
         /\ SameOwners /\ \A d \in Checkpoint : d # c => store'[d] = store[d]
         /\ \A d \in Checkpoint : Ready(d)' <=> Ready(d)
<1>1. DOMAIN jobs \subseteq Job /\ 0 \in Rank
  BY Positions DEF TrainingInv
<1>2. SameOwners
  BY DEF Commit, SameOwners
<1>3. Lineage'
  BY <1>2 DEF LineageInv, Lineage, SameOwners, Follows, Chain!Predecessor
<1>4. Tracks(g)'
  <2>1. CASE Quiet(task[g][0], task'[g][0]) /\ ~(task'[g][0].alive /\ task'[g][0].pc = "linked")
    <3>1. Dir(g, 0)' = Dir(g, 0) /\ Tracks(g)
      BY <2>1 DEF Dir, Quiet, LineageInv
    <3> QED BY <2>1, <3>1 DEF Quiet, Tracks, Follows, Chain!Predecessor
  <2> QED BY <2>1
<1>5. \A h \in DOMAIN jobs : h # g => Quiet(task[h][0], task'[h][0])
  BY <1>1 DEF Others, Quiet
<1>6. LineageInv'
  BY <1>3, <1>4, <1>5, LineageMoves DEF Commit
<1>7. Begun' = Begun /\ \A d \in Checkpoint : Ready(d)' <=> Ready(d)
  BY DEF Begun, ThisAttempt, Latest, Commit, Ready
<1> QED BY <1>2, <1>6, <1>7 DEF Commit

LEMMA WriteManifestChain ==
  ASSUME TrainingInv, LineageInv, NEW g \in Job, WriteManifest(g),
         UNCHANGED <<jobs, driver, resume, result>>
  PROVE  LineageInv' /\ UNCHANGED Chain!cvars
<1> PICK c : c = Dir(g, 0)
  OBVIOUS
<1>1. /\ Runs(g, 0, "acks")
      /\ \/ /\ store[c].manifest = "none" /\ store[c].marker = "none"
            /\ store' = [store EXCEPT ![c].manifest = "written"] /\ Goto(g, 0, "manifest")
         \/ Raise(g, 0) /\ UNCHANGED store
  BY DEF WriteManifest, CommitRaises
<1>2. TypeOK /\ 0 \in Rank
  BY Positions DEF TrainingInv
<1>3. g \in DOMAIN jobs /\ task[g][0].pc = "acks" /\ c \in Checkpoint
  BY <1>1, <1>2, RankFacts, Steps
<1>4. CASE Raise(g, 0) /\ UNCHANGED store
  BY <1>2, <1>3, <1>4, RaiseChain
<1>5. CASE /\ store[c].manifest = "none" /\ store[c].marker = "none"
           /\ store' = [store EXCEPT ![c].manifest = "written"] /\ Goto(g, 0, "manifest")
  <2>1. \A d \in Checkpoint : /\ store'[d].owner = store[d].owner /\ store'[d].parent = store[d].parent
                              /\ store'[d].part = store[d].part /\ store'[d].marker = store[d].marker
                              /\ d # c => store'[d] = store[d]
    BY <1>2, <1>3, <1>5 DEF TypeOK, Directory
  <2>2. store'[c].manifest = "written"
    BY <1>2, <1>3, <1>5 DEF TypeOK, Directory
  <2>3. \A d \in Checkpoint : Whole(d)' <=> Whole(d)
    BY <1>5, <2>1, <2>2 DEF Whole, Ready
  <2>4. Others(g, 0) /\ Quiet(task[g][0], task'[g][0])
    BY <1>2, <1>3, <1>5, GotoQuiet, Steps
  <2> QED BY <1>2, <1>3, <2>1, <2>3, <2>4, HiddenMoves DEF SameOwners, SameMarkers
<1> QED BY <1>1, <1>4, <1>5

LEMMA SyncManifestChain ==
  ASSUME TrainingInv, LineageInv, NEW g \in Job, SyncManifest(g),
         UNCHANGED <<jobs, driver, resume, result>>
  PROVE  LineageInv' /\ (UNCHANGED Chain!cvars \/ \E c \in Checkpoint : Chain!Write(c))
<1> PICK c : c = Dir(g, 0)
  OBVIOUS
<1>1. /\ Runs(g, 0, "manifest") /\ store' = [store EXCEPT ![c].manifest = "synced"]
      /\ Goto(g, 0, "link") \/ Raise(g, 0)
  BY DEF SyncManifest, CommitRaises
<1>2. TypeOK /\ 0 \in Rank
  BY Positions DEF TrainingInv
<1>3. /\ g \in DOMAIN jobs /\ TaskOK(g, 0) /\ task[g][0].alive /\ task[g][0].pc = "manifest"
      /\ c \in Checkpoint /\ store[c] \in Directory /\ DirectoryOK(c) /\ g # 0
  BY <1>1, <1>2, RankFacts, Steps DEF Job
<1>4. store[c].owner = g /\ store[c].marker = "none" /\ Ready(c)
  BY <1>3 DEF TaskOK, Commits, DirectoryOK
<1>5. Commit(c, "synced", "none")
  BY <1>1, <1>2, <1>3, <1>4 DEF Commit, TypeOK, Directory
<1>6. Others(g, 0) /\ Quiet(task[g][0], task'[g][0])
  BY <1>1, <1>2, <1>3, GotoQuiet, RaiseQuiet, Steps
<1>7. ~(task'[g][0].alive /\ task'[g][0].pc = "linked")
  BY <1>3, <1>6 DEF Quiet
<1>8. /\ LineageInv' /\ UNCHANGED <<Begun, resume, result>> /\ SameOwners
      /\ \A d \in Checkpoint : d # c => store'[d] = store[d]
      /\ \A d \in Checkpoint : Ready(d)' <=> Ready(d)
  BY <1>3, <1>4, <1>5, <1>6, <1>7, CommitChain
<1>9. SameMarkers
  BY <1>4, <1>5, <1>8 DEF Commit, SameMarkers
<1>10. CASE Whole(c)
  <2>1. \A d \in Checkpoint : Whole(d)' <=> Whole(d)
    BY <1>5, <1>8, <1>10 DEF Commit, Whole
  <2> QED BY <1>8, <1>9, <2>1, Shown DEF SameOwners
<1>11. CASE ~Whole(c)
  <2>1. c \notin Written /\ Written' = Written \cup {c}
    BY <1>3, <1>4, <1>5, <1>8, <1>11 DEF Commit, Written, Whole, Ready
  <2>2. Found' = Found /\ Durable' = Durable
    BY <1>9 DEF Found, Durable, SameMarkers
  <2>3. Parent' = Parent
    BY <1>8, <2>2 DEF Parent, SameOwners
  <2>4. Chain!Continues(c)
    BY <1>3, <1>4, OwnedContinues
  <2> QED BY <1>3, <1>8, <2>1, <2>2, <2>3, <2>4 DEF Chain!Write
<1> QED BY <1>10, <1>11

LEMMA LinkChain ==
  ASSUME TrainingInv, LineageInv, NEW g \in Job, Link(g), UNCHANGED <<jobs, driver, resume, result>>
  PROVE  LineageInv' /\ \E c \in Checkpoint : Chain!Publish(c)
<1> PICK c : c = Dir(g, 0)
  OBVIOUS
<1>1. /\ Runs(g, 0, "link") /\ Goto(g, 0, "linked") /\ store' = [store EXCEPT ![c].marker = "linked"]
  BY DEF Link
<1>2. TypeOK /\ 0 \in Rank
  BY Positions DEF TrainingInv
<1>3. /\ g \in DOMAIN jobs /\ TaskTypeOK /\ TaskOK(g, 0) /\ task[g][0].alive /\ task[g][0].pc = "link"
      /\ c \in Checkpoint /\ store[c] \in Directory /\ DirectoryOK(c) /\ g # 0
  BY <1>1, <1>2, RankFacts, Steps DEF Job
<1>4. store[c].owner = g /\ store[c].marker = "none" /\ store[c].manifest = "synced" /\ Ready(c)
  BY <1>3 DEF TaskOK, Commits, DirectoryOK
<1>5. Commit(c, "synced", "linked")
  BY <1>1, <1>2, <1>3, <1>4 DEF Commit, TypeOK, Directory
<1>6. /\ Others(g, 0) /\ task'[g][0].pc = "linked" /\ task'[g][0].epoch = task[g][0].epoch
      /\ task'[g][0].parent = task[g][0].parent
  BY <1>1, <1>2, <1>3, GotoMoves, Steps
<1>7. Tracks(g)'
  <2>1. Dir(g, 0)' = c /\ Dir(g, 0) = c /\ Follows(task[g][0].parent, c)
    BY <1>3, <1>6 DEF Dir, LineageInv, Tracks
  <2> QED BY <1>5, <1>6, <2>1 DEF Tracks, Follows, Chain!Predecessor, Commit
<1>8. /\ LineageInv' /\ UNCHANGED <<Begun, resume, result>> /\ SameOwners
      /\ \A d \in Checkpoint : d # c => store'[d] = store[d]
      /\ \A d \in Checkpoint : Ready(d)' <=> Ready(d)
  BY <1>3, <1>4, <1>5, <1>6, <1>7, CommitChain
<1>9. c \in Written /\ c \notin Found /\ Written' = Written
  BY <1>3, <1>4, <1>5, <1>8 DEF Commit, Written, Found, Ready
<1>10. Found' = Found \cup {c} /\ Durable' = Durable
  BY <1>3, <1>4, <1>5, <1>8 DEF Commit, Found, Durable
<1>11. Parent' = [Parent EXCEPT ![c] = Chain!Predecessor(c)]
  <2>1. store[c].parent = Chain!Predecessor(c)
    BY <1>3, <1>4 DEF LineageInv, Lineage, Follows
  <2> QED BY <1>8, <1>10, <2>1 DEF Parent, SameOwners
<1>12. Chain!Continues(c)
  BY <1>3, <1>4, OwnedContinues
<1>13. Chain!Publish(c)
  BY <1>8, <1>9, <1>10, <1>11, <1>12 DEF Chain!Publish
<1> QED BY <1>3, <1>8, <1>13

LEMMA FinishCommitChain ==
  ASSUME TrainingInv, LineageInv, NEW g \in Job, FinishCommit(g),
         UNCHANGED <<jobs, driver, resume, result>>
  PROVE  LineageInv' /\ \E c \in Checkpoint : Chain!Harden(c)
<1> PICK c : c = Dir(g, 0)
  OBVIOUS
<1>1. /\ Runs(g, 0, "linked")
      /\ NextEpoch(g, 0) \/ Raise(g, 0)
      /\ store' = [store EXCEPT ![c].marker = "synced", ![c].manifest = "synced"]
  BY DEF FinishCommit, CommitRaises
<1>2. TypeOK /\ 0 \in Rank
  BY Positions DEF TrainingInv
<1>3. /\ g \in DOMAIN jobs /\ TaskTypeOK /\ TaskOK(g, 0) /\ task[g][0].alive
      /\ task[g][0].pc = "linked" /\ task[g][0].epoch # Epochs
      /\ c \in Checkpoint /\ c[1] = jobs[g] /\ c[2] = task[g][0].epoch
      /\ store[c] \in Directory /\ DirectoryOK(c) /\ g # 0 /\ g \in Job
  BY <1>1, <1>2, RankFacts, Steps DEF Job
<1>4. store[c].owner = g /\ store[c].marker = "linked" /\ store[c].manifest = "synced"
  BY <1>3 DEF TaskOK, Commits, LineageInv, Tracks
<1>5. Commit(c, "synced", "synced")
  BY <1>1, <1>2, <1>3, BothCommit DEF TypeOK
<1>6. /\ Others(g, 0) /\ ~(task'[g][0].alive /\ task'[g][0].pc = "linked")
      /\ Quiet(task[g][0], task'[g][0]) \/ Tracks(g)'
  <2>1. CASE Raise(g, 0)
    BY <1>2, <1>3, <2>1, RaiseQuiet, RaiseMoves
  <2>2. CASE NextEpoch(g, 0)
    <3>1. /\ Others(g, 0) /\ task'[g][0].epoch = c[2] + 1 /\ task'[g][0].parent = c
          /\ task'[g][0].pc \in {"train", "receipts"}
      BY <1>2, <1>3, <2>2, NextEpochMoves
    <3>2. Dir(g, 0)' = <<c[1], c[2] + 1>>
      BY <1>3, <3>1 DEF Dir
    <3>3. resume[c[1]][2] < c[2] /\ c[1] \in Attempt /\ c[2] \in Int /\ c = <<c[1], c[2]>>
      BY <1>3 DEF LineageInv, Tracks, Follows, Checkpoint
    <3>4. resume[c[1]][2] \in Int
      <4>1. resume[c[1]] \in Checkpoint \cup {NoCheckpoint}
        BY <1>2, <3>3 DEF TypeOK
      <4> QED BY <4>1 DEF Checkpoint, NoCheckpoint
    <3>5. Follows(task[g][0].parent, Dir(g, 0))'
      BY <3>1, <3>2, <3>3, <3>4 DEF Follows, Chain!Predecessor
    <3> QED BY <3>1, <3>5 DEF Tracks
  <2> QED BY <1>1, <2>1, <2>2
<1>7. /\ LineageInv' /\ UNCHANGED <<Begun, resume, result>> /\ SameOwners
      /\ \A d \in Checkpoint : d # c => store'[d] = store[d]
      /\ \A d \in Checkpoint : Ready(d)' <=> Ready(d)
  BY <1>3, <1>4, <1>5, <1>6, CommitChain
<1>8. c \in Found /\ Written' = Written
  BY <1>3, <1>4, <1>5, <1>7 DEF Commit, Written, Found, Ready
<1>9. Found' = Found /\ Durable' = Durable \cup {c}
  BY <1>3, <1>4, <1>5, <1>7 DEF Commit, Found, Durable
<1>10. Parent' = Parent
  BY <1>7, <1>9 DEF Parent, SameOwners
<1>11. Chain!Harden(c)
  BY <1>7, <1>8, <1>9, <1>10 DEF Chain!Harden
<1> QED BY <1>3, <1>7, <1>11

LEMMA RotChain ==
  ASSUME TrainingInv, LineageInv, Rot PROVE LineageInv' /\ UNCHANGED Chain!cvars
<1>1. UNCHANGED <<jobs, task, resume, result>>
  BY DEF Rot
<1>2. PICK c \in Checkpoint, r \in Rank : store' = [store EXCEPT ![c].part[r].rot = TRUE]
  BY DEF Rot
<1>3. store \in [Checkpoint -> Directory]
  BY DEF TrainingInv, TypeOK
<1>4. \A d \in Checkpoint : /\ store'[d].owner = store[d].owner /\ store'[d].parent = store[d].parent
                            /\ store'[d].manifest = store[d].manifest
                            /\ store'[d].marker = store[d].marker
                            /\ \A q \in Rank : store'[d].part[q].file = store[d].part[q].file
  <2>1. store[c] \in Directory /\ store[c].part \in [Rank -> Part] /\ store[c].part[r] \in Part
    BY <1>3 DEF Directory
  <2>2. \A q \in Rank : store'[c].part[q].file = store[c].part[q].file
    BY <1>2, <1>3, <2>1 DEF Directory, Part
  <2> QED BY <1>2, <1>3, <2>1, <2>2 DEF Directory
<1>5. \A d \in Checkpoint : Whole(d)' <=> Whole(d)
  BY <1>4 DEF Whole, Ready
<1>6. SameOwners /\ SameMarkers
  BY <1>4 DEF SameOwners, SameMarkers
<1>7. \A h \in DOMAIN jobs : Quiet(task[h][0], task'[h][0])
  BY <1>1 DEF Quiet
<1> QED BY <1>1, <1>5, <1>6, <1>7, LineageQuiet, Shown DEF SameOwners

\* Power takes back publications that were not durable yet, and nothing that is whole.
LEMMA PowerLossChain ==
  ASSUME TrainingInv, LineageInv, PowerLoss
  PROVE  LineageInv' /\ \E lost \in SUBSET (Found \ Durable) : Chain!Lose(lost)
<1>1. /\ TypeOK /\ UNCHANGED <<jobs, resume, result>> /\ 0 \in Rank
      /\ \A c \in Checkpoint : Loses(c) /\ DirectoryOK(c)
  BY PowerTakes, Positions DEF PowerLoss, TrainingInv, Directories
<1>2. ASSUME NEW h \in DOMAIN jobs
      PROVE  Quiet(task[h][0], task'[h][0]) /\ ~task'[h][0].alive
  <2>1. h \in Job /\ ~(h > Len(jobs)) /\ task[h][0] \in Task
    BY <1>1, Positions DEF TypeOK
  <2>2. task'[h][0] = [task[h][0] EXCEPT !.alive = FALSE]
    BY <1>1, <2>1 DEF PowerLoss
  <2> QED BY <2>1, <2>2 DEF Task, Quiet
<1>3. SameOwners
  BY <1>1 DEF Loses, SameOwners
<1>4. LineageInv'
  BY <1>1, <1>2, <1>3, LineageQuiet
<1>5. Written' = Written
  <2>1. ASSUME NEW c \in Checkpoint PROVE Whole(c)' <=> Whole(c)
    <3>1. Loses(c) /\ DirectoryOK(c)
      BY <1>1
    <3>2. \A r \in Rank : store[c].part[r].file = "ready" => store'[c].part[r] = store[c].part[r]
      BY <3>1 DEF Loses, DirectoryOK
    <3>3. store'[c].manifest = "synced" <=> store[c].manifest = "synced"
      BY <3>1 DEF Loses
    <3> QED BY <3>1, <3>2, <3>3 DEF Whole, Ready, DirectoryOK
  <2> QED BY <2>1 DEF Written, Whole, Ready
<1> DEFINE lost == {c \in Found : store'[c].marker = "none"}
<1>6. lost \in SUBSET (Found \ Durable) /\ Found' = Found \ lost /\ Durable' = Durable
  BY <1>1 DEF Loses, Found, Durable
<1>7. Parent' = [c \in Checkpoint |-> IF c \in lost THEN NoCheckpoint ELSE Parent[c]]
  BY <1>3, <1>6 DEF Parent, SameOwners, Found
<1>8. UNCHANGED <<Begun, resume, Written, Durable, result>>
  BY <1>1, <1>5, <1>6 DEF Begun, ThisAttempt, Latest
<1> HIDE DEF lost
<1>9. Chain!Lose(lost)
  BY <1>6, <1>7, <1>8 DEF Chain!Lose
<1> QED BY <1>4, <1>6, <1>9

\* The driver's steps that start no stage and write no result.
LEMMA DriverChain ==
  ASSUME TrainingInv, LineageInv, UNCHANGED <<store, jobs, task, resume>>
  PROVE  /\ LineageInv'
         /\ UNCHANGED <<Begun, resume, Written, Found, Durable, Parent>>
         /\ result' = result => UNCHANGED Chain!cvars
<1>1. \A h \in DOMAIN jobs : Quiet(task[h][0], task'[h][0])
  BY DEF Quiet
<1>2. LineageInv'
  BY <1>1, StoreSame, LineageQuiet
<1>3. Begun' = Begun /\ Written' = Written /\ Found' = Found /\ Durable' = Durable
  BY DEF Begun, ThisAttempt, Latest, Written, Found, Durable
<1>4. Parent' = Parent
  BY <1>3 DEF Parent
<1> QED BY <1>2, <1>3, <1>4 DEF Chain!cvars

\* The result that the driver writes is the first of the newest attempt.
LEMMA PublishChain ==
  ASSUME TrainingInv, LineageInv, Publish
  PROVE  LineageInv' /\ \E says \in {"completed", "failed"} : Chain!Conclude(says)
<1> DEFINE says == IF driver.pc = "verified" THEN "completed" ELSE "failed"
<1>1. /\ driver.pc \in {"verified", "failing"} /\ UNCHANGED <<store, jobs, task, resume>>
      /\ result' = [result EXCEPT ![ThisAttempt] = says]
  BY DEF Publish, DriverAt
<1>2. jobs # <<>> /\ result[ThisAttempt] = "none" /\ (says = "completed" => Published(Final))
  BY <1>1 DEF TrainingInv, DriverOK
<1>3. Begun = ThisAttempt /\ ThisAttempt \in Attempt
  BY <1>2 DEF TrainingInv, TypeOK, Begun, ThisAttempt, Latest
<1>4. says = "completed" => <<Begun, Epochs - 1>> \in Durable
  <2>1. <<Begun, Epochs - 1>> \in Checkpoint
    BY <1>3, EpochsAssumption DEF Checkpoint
  <2> QED BY <1>2, <1>3, <2>1 DEF Durable, Published, Final
<1>5. LineageInv' /\ UNCHANGED <<Begun, resume, Written, Found, Durable, Parent>>
  BY <1>1, DriverChain
<1>6. says \in {"completed", "failed"}
  OBVIOUS
<1> HIDE DEF says
<1>7. Chain!Conclude(says)
  BY <1>1, <1>2, <1>3, <1>4, <1>5 DEF Chain!Conclude
<1> QED BY <1>5, <1>6, <1>7

\* A stage that is submitted: it and its attempt have no directory yet, or the attempt
\* goes on from where it did.
LEMMA StageChain ==
  ASSUME TrainingInv, LineageInv, NEW a \in Attempt, Len(jobs) < MaxJobs, jobs' = Append(jobs, a),
         UNCHANGED <<store, task>>,
         \A g \in DOMAIN jobs : resume'[jobs[g]] = resume[jobs[g]]
  PROVE  LineageInv' /\ Begun' = a /\ UNCHANGED <<Written, Found, Durable, Parent>>
<1> PICK n : n = Len(jobs) + 1
  OBVIOUS
<1>1. /\ TypeOK /\ Len(jobs) \in Nat /\ DOMAIN jobs = 1 .. Len(jobs) /\ n \in Job
      /\ n \notin DOMAIN jobs /\ 0 \in Rank /\ MaxJobs \in Nat
  BY Positions, BoundsAssumption DEF TrainingInv, Job
<1>2. /\ jobs' # <<>> /\ Len(jobs') = n /\ DOMAIN jobs' = 1 .. n /\ jobs'[n] = a
      /\ \A g \in DOMAIN jobs : jobs'[g] = jobs[g]
      /\ \A g \in DOMAIN jobs' : g \in DOMAIN jobs \/ g = n
  BY <1>1 DEF TypeOK
<1>3. Begun' = a
  BY <1>2 DEF Begun, ThisAttempt, Latest
<1>4. Lineage'
  <2>1. ASSUME NEW c \in Checkpoint, store[c].owner # 0 PROVE Follows(store[c].parent, c)'
    <3>1. store[c].owner \in DOMAIN jobs /\ jobs[store[c].owner] = c[1]
      BY <2>1 DEF TrainingInv, Directories, DirectoryOK
    <3>2. Follows(store[c].parent, c) /\ resume'[c[1]] = resume[c[1]]
      BY <2>1, <3>1 DEF LineageInv, Lineage
    <3> QED BY <3>2 DEF Follows, Chain!Predecessor
  <2> QED BY <2>1 DEF Lineage
<1>5. ASSUME NEW g \in DOMAIN jobs PROVE Tracks(g)'
  <2>1. Tracks(g) /\ Dir(g, 0)' = Dir(g, 0) /\ Dir(g, 0)[1] = jobs[g]
    BY <1>2 DEF LineageInv, Dir
  <2> QED BY <2>1 DEF Tracks, Follows, Chain!Predecessor
<1>6. Tracks(n)'
  BY <1>1 DEF TrainingInv, LaterFresh, Tracks, Fresh
<1>7. Written' = Written /\ Found' = Found /\ Durable' = Durable
  BY DEF Written, Found, Durable
<1>8. Parent' = Parent
  BY <1>7 DEF Parent
<1> QED BY <1>2, <1>3, <1>4, <1>5, <1>6, <1>7, <1>8 DEF LineageInv

LEMMA LaunchChain ==
  ASSUME TrainingInv, LineageInv, NEW c \in Checkpoint \cup {NoCheckpoint}, Launch(c)
  PROVE  LineageInv' /\ Chain!Start(c)
<1> PICK a : a = Begun + 1
  OBVIOUS
<1>1. /\ a \in Attempt /\ Len(jobs) < MaxJobs /\ jobs' = Append(jobs, a)
      /\ c # NoCheckpoint => Marked(c) /\ c[2] + 1 < Epochs
      /\ resume' = [resume EXCEPT ![a] = c] /\ UNCHANGED <<store, task, result>>
  BY DEF Launch, Latest, Begun
<1>2. \A g \in DOMAIN jobs : jobs[g] # a /\ jobs[g] \in Attempt
  <2>1. ASSUME NEW g \in DOMAIN jobs PROVE jobs[g] # a
    <3>1. jobs # <<>> /\ jobs[g] <= ThisAttempt /\ jobs[g] \in Attempt
      BY Positions DEF TrainingInv, AttemptsOK, TypeOK
    <3>2. ThisAttempt \in Attempt
      BY <3>1 DEF TrainingInv, TypeOK, ThisAttempt, Latest
    <3> QED BY <3>1, <3>2 DEF Begun, Attempt
  <2> QED BY <2>1, Positions DEF TrainingInv
<1>3. \A g \in DOMAIN jobs : resume'[jobs[g]] = resume[jobs[g]]
  BY <1>1, <1>2 DEF TrainingInv, TypeOK
<1>4. LineageInv' /\ Begun' = a /\ UNCHANGED <<Written, Found, Durable, Parent>>
  BY <1>1, <1>3, StageChain
<1>5. c = NoCheckpoint \/ (c \in Found /\ c[2] < Epochs - 1)
  <2>1. c # NoCheckpoint => c \in Checkpoint /\ store[c].marker # "none" /\ c[2] + 1 < Epochs
    BY <1>1 DEF Marked
  <2> QED BY <2>1, EpochsAssumption DEF Found, Checkpoint
<1> QED BY <1>1, <1>4, <1>5 DEF Chain!Start

LEMMA RetryChain ==
  ASSUME TrainingInv, LineageInv, RetryStage
  PROVE  LineageInv' /\ UNCHANGED Chain!cvars
<1>1. /\ driver.pc = "running" /\ Len(jobs) < MaxJobs /\ jobs' = Append(jobs, ThisAttempt)
      /\ UNCHANGED <<store, task, resume, result>>
  BY DEF RetryStage, DriverAt, Latest
<1>2. jobs # <<>> /\ Begun = ThisAttempt
  BY <1>1 DEF TrainingInv, DriverOK, Begun
<1>3. ThisAttempt \in Attempt
  BY <1>2 DEF TrainingInv, TypeOK, ThisAttempt, Latest
<1>4. LineageInv' /\ Begun' = ThisAttempt /\ UNCHANGED <<Written, Found, Durable, Parent>>
  BY <1>1, <1>3, StageChain
<1> QED BY <1>1, <1>2, <1>4 DEF Chain!cvars

LEMMA LineageInit == Init => LineageInv /\ Chain!ChainInit
<1> SUFFICES ASSUME Init PROVE LineageInv /\ Chain!ChainInit
  OBVIOUS
<1>1. /\ jobs = <<>> /\ \A c \in Checkpoint : store[c] = Empty
      /\ resume = [a \in Attempt |-> NoCheckpoint] /\ result = [a \in Attempt |-> "none"]
  BY DEF Init
<1>2. LineageInv
  BY <1>1 DEF LineageInv, Lineage, Empty
<1>3. Begun = 0 /\ Written = {} /\ Found = {} /\ Durable = {}
  BY <1>1 DEF Begun, Written, Found, Durable, Empty
<1>4. Parent = [c \in Checkpoint |-> NoCheckpoint]
  BY <1>3 DEF Parent
<1> QED BY <1>1, <1>2, <1>3, <1>4 DEF Chain!ChainInit

LEMMA LineageNext ==
  TrainingInv /\ LineageInv /\ [Next]_vars => LineageInv' /\ [Chain!ChainNext]_(Chain!cvars)
<1> SUFFICES ASSUME TrainingInv, LineageInv, [Next]_vars
             PROVE  LineageInv' /\ (Chain!ChainNext \/ UNCHANGED Chain!cvars)
  OBVIOUS
<1>1. ASSUME NEW g \in Job, NEW r \in Rank, RankStep(g, r)
      PROVE  LineageInv' /\ (Chain!ChainNext \/ UNCHANGED Chain!cvars)
  <2>1. UNCHANGED <<jobs, driver, resume, result>>
    BY <1>1 DEF RankStep
  <2>2. CASE Restore(g, r)
    BY <2>1, <2>2, RestoreChain
  <2>3. CASE Train(g, r)
    BY <2>1, <2>3, TrainChain
  <2>4. CASE ReceiveHandle(g, r) \/ GatherReceipts(g, r) \/ ReceiveReference(g, r)
               \/ CollectiveFails(g, r)
    BY <2>1, <2>4, WaitingChain
  <2>5. CASE WriteRank(g, r)
    BY <2>1, <2>5, WriteRankChain
  <2>6. CASE FinishRank(g, r)
    BY <2>1, <2>6, FinishRankChain
  <2>7. CASE Begin(g)
    BY <2>1, <2>7, BeginChain
  <2>8. CASE WriteManifest(g)
    BY <2>1, <2>8, WriteManifestChain
  <2>9. CASE SyncManifest(g)
    BY <2>1, <2>9, SyncManifestChain DEF Chain!ChainNext
  <2>10. CASE Link(g)
    BY <2>1, <2>10, LinkChain DEF Chain!ChainNext
  <2>11. CASE FinishCommit(g)
    BY <2>1, <2>11, FinishCommitChain DEF Chain!ChainNext
  <2> QED BY <1>1, <2>2, <2>3, <2>4, <2>5, <2>6, <2>7, <2>8, <2>9, <2>10, <2>11 DEF RankStep
<1>2. ASSUME NEW g \in Job, RankFault(g) PROVE LineageInv' /\ UNCHANGED Chain!cvars
  <2>1. UNCHANGED <<jobs, driver, resume, result>>
    BY <1>2 DEF RankFault
  <2>2. CASE CommitIoFails(g)
    BY <2>1, <2>2, CommitIoChain
  <2>3. ASSUME NEW r \in Rank, Killed(g, r) PROVE LineageInv' /\ UNCHANGED Chain!cvars
    BY <2>1, <2>3, WaitingChain
  <2> QED BY <1>2, <2>2, <2>3 DEF RankFault
<1>3. CASE Validate \/ VerifyFinal \/ JobFails \/ TimerFires \/ DriverCrash
  <2>1. UNCHANGED <<store, jobs, task, resume, result>>
    BY <1>3 DEF Validate, VerifyFinal, JobFails, TimerFires, DriverCrash
  <2> QED BY <2>1, DriverChain
<1>4. CASE Publish
  BY <1>4, PublishChain DEF Chain!ChainNext
<1>5. ASSUME NEW c \in Checkpoint \cup {NoCheckpoint}, Launch(c)
      PROVE  LineageInv' /\ Chain!ChainNext
  BY <1>5, LaunchChain DEF Chain!ChainNext
<1>6. CASE RetryStage
  BY <1>6, RetryChain
<1>7. CASE Rot
  BY <1>7, RotChain
<1>8. CASE PowerLoss
  BY <1>8, PowerLossChain DEF Chain!ChainNext
<1>9. CASE UNCHANGED vars
  BY <1>9, DriverChain DEF vars
<1> QED BY <1>1, <1>2, <1>3, <1>4, <1>5, <1>6, <1>7, <1>8, <1>9 DEF Next, DriverStep

\* Every directory that is begun, and every one that a live stage will begin, has the
\* parent that the attempt's resume argument and the epoch before determine.
THEOREM LineageInvariant == Spec => []LineageInv
BY TrainingInvariant, LineageInit, LineageNext, PTL DEF Spec

\* Whatever ranks, stages, drivers and hosts fail in between, the checkpoints are a chain
\* without gaps that only ever loses a publication it had not made durable, and a
\* completed result stands at its end (checkpoint.py, runner.py, launch.py together).
THEOREM CheckpointChainKept == Spec => CheckpointsFormChain
BY TrainingInvariant, LineageInvariant, LineageInit, LineageNext, PTL
   DEF Spec, CheckpointsFormChain, Chain!ChainSpec

-----------------------------------------------------------------------------
(* Collectives.                                                            *)
(*                                                                         *)
(* NoRankIsStuck says with ENABLED that a waiting rank can go on. Here the *)
(* guards of the steps that end a collective stand for it: one of them     *)
(* holds (WaitingRanksGoOn), and where it holds the step is taken by any   *)
(* successor that gives the variables the values of After (GuardSuffices). *)

MayFail(g, r) == Waits(g, r) /\ PeerDead(g)
MayReceiveHandle(g, r) ==
    r # 0 /\ Runs(g, r, "ledgers") /\ Arrived(g, 0, task[g][r].epoch, "write")
MayReceiveReference(g, r) ==
    r # 0 /\ Runs(g, r, "acks") /\ Arrived(g, 0, task[g][r].epoch + 1, "train")
MayGather(g, r) == Runs(g, r, "receipts") /\ AllArrived(g, Epochs, "receipts")
MayBegin(g, r) ==
    r = 0 /\ Runs(g, 0, "ledgers") /\ AllArrived(g, task[g][0].epoch, "ledgers")
MayCommit(g, r) ==
    r = 0 /\ Runs(g, 0, "acks") /\ AllArrived(g, task[g][0].epoch, "acks")

CanGoOn(g, r) ==
    \/ MayFail(g, r) \/ MayReceiveHandle(g, r) \/ MayReceiveReference(g, r)
    \/ MayGather(g, r) \/ MayBegin(g, r) \/ MayCommit(g, r)

\* Whose directory is free, and whose ranks agree, when rank 0 gets its answers.
Free(g) == store[Dir(g, 0)].owner = 0
Commitable(g) ==
    LET c == Dir(g, 0) IN
    store[c].manifest = "none" /\ store[c].marker = "none" /\ Verified(c) /\ ReplicasAgree(c)

\* The values that the variables have after the step.
TaskAfter(g, r) ==
    IF \/ MayFail(g, r)
       \/ MayBegin(g, r) /\ ~Free(g)
       \/ MayCommit(g, r) /\ ~Commitable(g)
    THEN [task EXCEPT ![g][r].alive = FALSE]
    ELSE IF MayReceiveReference(g, r)
    THEN LET e == task[g][r].epoch + 1 IN
         [task EXCEPT ![g][r].epoch = e, ![g][r].parent = Dir(g, r),
                      ![g][r].pc = IF e < Epochs THEN "train" ELSE "receipts"]
    ELSE IF MayGather(g, r) THEN [task EXCEPT ![g][r].pc = "done"]
    ELSE IF MayCommit(g, r) THEN [task EXCEPT ![g][r].pc = "manifest"]
    ELSE [task EXCEPT ![g][r].pc = "write"]
StoreAfter(g, r) ==
    IF MayFail(g, r) THEN store
    ELSE IF MayBegin(g, r) /\ Free(g)
    THEN [store EXCEPT ![Dir(g, 0)].owner = g, ![Dir(g, 0)].parent = task[g][0].parent]
    ELSE IF MayCommit(g, r) /\ Commitable(g)
    THEN [store EXCEPT ![Dir(g, 0)].manifest = "written"]
    ELSE store
OutcomeAfter(g, r) ==
    IF ~MayFail(g, r) /\ MayCommit(g, r) /\ ~Commitable(g)
    THEN [outcome EXCEPT ![g] = "error"] ELSE outcome

\* Where one of the guards holds, the successor with these values is a step of the rank:
\* nothing else restricts it.
LEMMA GuardSuffices ==
  ASSUME NEW g, NEW r \in Rank, CanGoOn(g, r),
         task' = TaskAfter(g, r), store' = StoreAfter(g, r), outcome' = OutcomeAfter(g, r),
         UNCHANGED <<jobs, driver, resume, result, faults>>
  PROVE  RankStep(g, r)
<1> USE DEF TaskAfter, StoreAfter, OutcomeAfter
<1>1. CASE MayFail(g, r)
  <2>1. CollectiveFails(g, r)
    BY <1>1 DEF MayFail, CollectiveFails, Raise
  <2> QED BY <2>1 DEF RankStep
<1>2. CASE ~MayFail(g, r) /\ MayReceiveReference(g, r)
  <2>1. ~MayBegin(g, r) /\ ~MayCommit(g, r)
    BY <1>2 DEF MayReceiveReference, MayBegin, MayCommit
  <2>2. ReceiveReference(g, r)
    BY <1>2, <2>1 DEF MayReceiveReference, ReceiveReference, NextEpoch
  <2> QED BY <2>2 DEF RankStep
<1>3. CASE ~MayFail(g, r) /\ MayGather(g, r)
  <2>1. ~MayBegin(g, r) /\ ~MayCommit(g, r) /\ ~MayReceiveReference(g, r)
    BY <1>3 DEF MayReceiveReference, MayBegin, MayCommit, MayGather, Runs
  <2>2. GatherReceipts(g, r)
    BY <1>3, <2>1 DEF MayGather, GatherReceipts, Goto
  <2> QED BY <2>2 DEF RankStep
<1>4. CASE ~MayFail(g, r) /\ MayReceiveHandle(g, r)
  <2>1. /\ ~MayBegin(g, r) /\ ~MayCommit(g, r) /\ ~MayReceiveReference(g, r)
        /\ ~MayGather(g, r)
    BY <1>4 DEF MayReceiveReference, MayReceiveHandle, MayBegin, MayCommit, MayGather, Runs
  <2>2. ReceiveHandle(g, r)
    BY <1>4, <2>1 DEF MayReceiveHandle, ReceiveHandle, Goto
  <2> QED BY <2>2 DEF RankStep
<1>5. CASE ~MayFail(g, r) /\ MayBegin(g, r)
  <2>1. r = 0 /\ ~MayCommit(g, r) /\ ~MayReceiveReference(g, r) /\ ~MayGather(g, r)
    BY <1>5 DEF MayReceiveReference, MayBegin, MayCommit, MayGather, Runs
  <2>2. Begin(g)
    BY <1>5, <2>1 DEF MayBegin, Begin, Free, Goto, Raise
  <2> QED BY <2>1, <2>2 DEF RankStep
<1>6. CASE ~MayFail(g, r) /\ MayCommit(g, r)
  <2>1. r = 0 /\ ~MayBegin(g, r) /\ ~MayReceiveReference(g, r) /\ ~MayGather(g, r)
    BY <1>6 DEF MayReceiveReference, MayBegin, MayCommit, MayGather, Runs
  <2>2. WriteManifest(g)
    BY <1>6, <2>1 DEF MayCommit, WriteManifest, CommitRaises, Commitable, Goto, Raise
  <2> QED BY <2>1, <2>2 DEF RankStep
<1> QED BY <1>1, <1>2, <1>3, <1>4, <1>5, <1>6 DEF CanGoOn

Live(g) == {r \in Rank : task[g][r].alive /\ task[g][r].pc # "done"}
SomeRankGoesOn ==
    \A g \in DOMAIN jobs :
        Live(g) # {} /\ (\A r \in Live(g) : Waits(g, r)) => \E r \in Live(g) : CanGoOn(g, r)

\* A rank that waits behind rank 0 has what it waits for.
LEMMA BehindGoesOn ==
  ASSUME TrainingInv, NEW g \in DOMAIN jobs, NEW q \in Rank \ {0}, Waits(g, q),
         ~Runs(g, q, "receipts"),
         \/ task[g][q].epoch < task[g][0].epoch
         \/ /\ task[g][q].epoch = task[g][0].epoch
            /\ task[g][q].pc = "ledgers" /\ task[g][0].pc = "acks"
  PROVE  CanGoOn(g, q)
<1>1. g \in Job /\ 0 \in Rank
  BY Positions DEF TrainingInv
<1>2. task[g][q] \in Task /\ task[g][0] \in Task /\ Trains(task[g][0])
  BY <1>1 DEF TrainingInv, TypeOK, Tasks, TaskOK
<1>3. task[g][q].epoch \in Nat /\ task[g][0].epoch \in Nat /\ Epochs \in Nat
  BY <1>2, EpochsAssumption DEF Task
<1>4. CASE Runs(g, q, "ledgers")
  <2>1. Arrived(g, 0, task[g][q].epoch, "write")
    BY <1>3, <1>4 DEF Arrived, Order, Runs
  <2> QED BY <1>4, <2>1 DEF MayReceiveHandle, CanGoOn
<1>5. CASE Runs(g, q, "acks")
  <2>1. task[g][q].epoch < task[g][0].epoch
    BY <1>5 DEF Runs
  <2>2. task[g][0].pc # "restore"
    BY <1>2, <1>3, <2>1 DEF Trains
  <2>3. Order[task[g][0].pc] >= Order["train"]
    BY <1>2, <2>2 DEF Task, Order
  <2>4. Arrived(g, 0, task[g][q].epoch + 1, "train")
    BY <1>3, <2>1, <2>3 DEF Arrived
  <2> QED BY <1>5, <2>4 DEF MayReceiveReference, CanGoOn
<1> QED BY <1>4, <1>5 DEF Waits

\* While no peer is dead, either a rank behind rank 0 or rank 0 itself has what it waits
\* for, or all have come to the receipts.
LEMMA SomebodyGoesOn ==
  ASSUME TrainingInv, NEW g \in DOMAIN jobs, NEW l \in Live(g),
         \A r \in Live(g) : Waits(g, r), ~PeerDead(g)
  PROVE  \E r \in Live(g) : CanGoOn(g, r)
<1>1. g \in Job /\ 0 \in Rank
  BY Positions DEF TrainingInv
<1>2. \A q \in Rank : task[g][q] \in Task /\ Trains(task[g][q])
  BY <1>1 DEF TrainingInv, TypeOK, Tasks, TaskOK
<1>3. Epochs \in Nat /\ \A q \in Rank : task[g][q].epoch \in 0 .. Epochs
  BY <1>2, EpochsAssumption DEF Task
<1>4. \A q \in Rank : task[g][q].pc = "done" \/ Waits(g, q)
  BY DEF PeerDead, Live
<1>5. \A q \in Rank : task[g][q].pc \in {"ledgers", "acks", "receipts", "done"}
  BY <1>4 DEF Waits, Runs
<1>6. \A q \in Rank : task[g][q].pc # "done" => q \in Live(g)
  BY DEF PeerDead, Live
<1>7. \A q \in Rank : task[g][q].pc \in {"receipts", "done"} <=> task[g][q].epoch = Epochs
  BY <1>2 DEF Trains
<1>8. SUFFICES ASSUME \A q \in Live(g) : ~CanGoOn(g, q) PROVE FALSE
  OBVIOUS
<1>9. ASSUME NEW q \in Rank
      PROVE  /\ task[g][q].epoch >= task[g][0].epoch
             /\ task[g][q].epoch = task[g][0].epoch /\ task[g][0].pc = "acks" =>
                  task[g][q].pc # "ledgers"
  <2> SUFFICES ASSUME \/ task[g][q].epoch < task[g][0].epoch
                      \/ /\ task[g][q].epoch = task[g][0].epoch
                         /\ task[g][q].pc = "ledgers" /\ task[g][0].pc = "acks"
               PROVE  FALSE
    BY <1>1, <1>3
  <2>1. q # 0 /\ task[g][q].pc \in {"ledgers", "acks"}
    BY <1>1, <1>3, <1>5, <1>7
  <2>2. q \in Live(g) /\ Waits(g, q) /\ ~Runs(g, q, "receipts")
    BY <1>4, <1>6, <2>1 DEF Runs
  <2> QED BY <1>8, <2>1, <2>2, BehindGoesOn
<1>10. CASE task[g][0].pc \in {"ledgers", "acks"}
  <2>1. 0 \in Live(g) /\ Waits(g, 0) /\ Runs(g, 0, task[g][0].pc)
    BY <1>1, <1>4, <1>6, <1>10 DEF Waits, Runs
  <2>2. ASSUME NEW q \in Rank PROVE Arrived(g, q, task[g][0].epoch, task[g][0].pc)
    <3>1. task[g][0].epoch # Epochs
      BY <1>1, <1>7, <1>10
    <3>2. CASE task[g][q].epoch > task[g][0].epoch
      BY <3>2 DEF Arrived
    <3>3. CASE task[g][q].epoch = task[g][0].epoch
      <4>1. task[g][q].pc \in {"ledgers", "acks"}
        BY <1>5, <1>7, <3>1, <3>3
      <4>2. Order[task[g][q].pc] >= Order[task[g][0].pc]
        BY <1>9, <1>10, <3>3, <4>1 DEF Order
      <4> QED BY <3>3, <4>2 DEF Arrived
    <3> QED BY <1>1, <1>3, <1>9, <3>2, <3>3
  <2>3. MayBegin(g, 0) \/ MayCommit(g, 0)
    BY <1>10, <2>1, <2>2 DEF MayBegin, MayCommit, AllArrived
  <2> QED BY <1>8, <2>1, <2>3 DEF CanGoOn
<1>11. CASE task[g][0].pc \in {"receipts", "done"}
  <2>1. \A q \in Rank : task[g][q].epoch = Epochs /\ task[g][q].pc \in {"receipts", "done"}
    BY <1>1, <1>3, <1>7, <1>9, <1>11
  <2>2. AllArrived(g, Epochs, "receipts")
    BY <2>1 DEF AllArrived, Arrived, Order
  <2>3. Runs(g, l, "receipts")
    BY <1>4, <2>1 DEF Live, Waits, Runs
  <2> QED BY <1>8, <2>2, <2>3 DEF MayGather, CanGoOn
<1> QED BY <1>1, <1>5, <1>10, <1>11

\* The live ranks of a stage never all wait for ever: whatever epochs they are at and
\* whoever has died, what one of them waits for is there (runner.py, the gathers and
\* broadcasts of an epoch; checkpoint.py, begin_checkpoint and commit_checkpoint).
THEOREM WaitingRanksGoOn == Spec => []SomeRankGoesOn
<1>1. ASSUME TrainingInv, NEW g \in DOMAIN jobs, NEW l \in Live(g),
             \A r \in Live(g) : Waits(g, r)
      PROVE  \E r \in Live(g) : CanGoOn(g, r)
  <2>1. CASE PeerDead(g)
    BY <1>1, <2>1 DEF MayFail, CanGoOn
  <2>2. CASE ~PeerDead(g)
    BY <1>1, <2>2, SomebodyGoesOn
  <2> QED BY <2>1, <2>2
<1>2. TrainingInv => SomeRankGoesOn
  BY <1>1 DEF SomeRankGoesOn
<1> QED BY <1>2, TrainingInvariant, PTL

-----------------------------------------------------------------------------
(* Progress.                                                               *)
(*                                                                         *)
(* With WaitingRanksGoOn this is why a job ends: each step of a live rank  *)
(* takes it nearer to the end of its process, and nothing takes it back.   *)

\* How many steps a process may still take: one to restore, eight in an epoch of rank 0,
\* one for the receipts, and one to end.
StepsLeft(t) == IF t.alive THEN 8 * (Epochs - t.epoch) + 3 - Order[t.pc] ELSE 0
Nearer(t, u) == StepsLeft(u) < StepsLeft(t)
StepsAreFew == \A g \in Job, r \in Rank : StepsLeft(task[g][r]) \in 0 .. 8 * Epochs + 3
GoesForward ==
    \A g \in Job, r \in Rank :
        /\ task'[g][r] = task[g][r] \/ Nearer(task[g][r], task'[g][r])
        /\ RankStep(g, r) => Nearer(task[g][r], task'[g][r])

LEMMA StepsBounded ==
  ASSUME NEW t \in Task, Trains(t)
  PROVE  StepsLeft(t) \in 0 .. 8 * Epochs + 3 /\ (t.alive => StepsLeft(t) > 0)
<1>1. Epochs \in Nat /\ t.epoch \in 0 .. Epochs /\ t.pc \in DOMAIN Order
  BY EpochsAssumption DEF Task
<1>2. Order[t.pc] \in 0 .. 8
  BY <1>1 DEF Order
<1>3. CASE t.epoch = Epochs
  <2>1. Order[t.pc] \in 0 .. 2
    BY <1>3 DEF Trains, Order
  <2> QED BY <1>1, <1>3, <2>1 DEF StepsLeft
<1>4. CASE t.epoch \in 0 .. Epochs - 1
  BY <1>1, <1>2, <1>4 DEF StepsLeft
<1> QED BY <1>1, <1>3, <1>4

\* The ways in which a live rank comes nearer to its end: it dies, moves on within its
\* epoch, goes on to the next one, or continues from a checkpoint.
Advances(t, u) ==
    \/ ~u.alive
    \/ u.epoch = t.epoch /\ Order[u.pc] > Order[t.pc]
    \/ u.epoch = t.epoch + 1 /\ u.pc \in {"train", "receipts"}
    \/ t.pc = "restore" /\ t.epoch = 0 /\ u.pc = "train"

LEMMA AdvancesAreNearer ==
  ASSUME NEW t \in Task, NEW u \in Task, Trains(t), t.alive, Advances(t, u)
  PROVE  Nearer(t, u)
<1>1. /\ Epochs \in Nat /\ t.epoch \in 0 .. Epochs /\ u.epoch \in 0 .. Epochs
      /\ t.pc \in DOMAIN Order /\ u.pc \in DOMAIN Order
  BY EpochsAssumption DEF Task
<1>2. Order[t.pc] \in 0 .. 8 /\ Order[u.pc] \in 0 .. 8
  BY <1>1 DEF Order
<1>3. u.pc \in {"train", "receipts"} => Order[u.pc] = 1
  BY DEF Order
<1>4. t.pc = "restore" => Order[t.pc] = 0
  BY DEF Order
<1>5. CASE ~u.alive
  BY <1>5, StepsBounded DEF Nearer, StepsLeft
<1>6. CASE u.alive /\ u.epoch = t.epoch /\ Order[u.pc] > Order[t.pc]
  BY <1>1, <1>2, <1>6 DEF Nearer, StepsLeft
<1>7. CASE u.alive /\ u.epoch = t.epoch + 1 /\ u.pc \in {"train", "receipts"}
  BY <1>1, <1>2, <1>3, <1>7 DEF Nearer, StepsLeft
<1>8. CASE u.alive /\ t.pc = "restore" /\ t.epoch = 0 /\ u.pc = "train"
  BY <1>1, <1>2, <1>3, <1>4, <1>8 DEF Nearer, StepsLeft
<1> QED BY <1>5, <1>6, <1>7, <1>8 DEF Advances

\* Each way in which a step changes the task of its rank is one of these.
LEMMA RaiseAdvances ==
  ASSUME TaskTypeOK, NEW g \in Job, NEW r \in Rank, Raise(g, r)
  PROVE  TaskTypeOK' /\ Others(g, r) /\ Advances(task[g][r], task'[g][r])
BY RaiseMoves DEF Advances

LEMMA GotoAdvances ==
  ASSUME TaskTypeOK, NEW g \in Job, NEW r \in Rank, NEW pc \in DOMAIN Order, Goto(g, r, pc),
         Order[pc] > Order[task[g][r].pc]
  PROVE  TaskTypeOK' /\ Others(g, r) /\ Advances(task[g][r], task'[g][r])
BY GotoMoves DEF Advances

LEMMA NextEpochAdvances ==
  ASSUME TypeOK, NEW g \in DOMAIN jobs, NEW r \in Rank, NextEpoch(g, r), task[g][r].epoch # Epochs
  PROVE  TaskTypeOK' /\ Others(g, r) /\ Advances(task[g][r], task'[g][r])
<1>1. /\ TaskTypeOK' /\ Others(g, r) /\ task'[g][r].epoch = task[g][r].epoch + 1
      /\ task'[g][r].pc \in {"train", "receipts"}
  BY NextEpochMoves
<1> QED BY <1>1 DEF Advances

LEMMA RestoreAdvances ==
  ASSUME TrainingInv, NEW g \in DOMAIN jobs, NEW r \in Rank, Restore(g, r)
  PROVE  Others(g, r) /\ Advances(task[g][r], task'[g][r])
<1> PICK c : c = resume[jobs[g]]
  OBVIOUS
<1>1. /\ Runs(g, r, "restore")
      /\ \/ Goto(g, r, "train")
         \/ task' = [task EXCEPT ![g][r] =
                       [@ EXCEPT !.pc = "train", !.epoch = c[2] + 1, !.parent = c,
                                 !.trained = store[c].part[r].trained,
                                 !.own = store[c].part[r].own]]
         \/ Raise(g, r)
  BY DEF Restore
<1>2. /\ g \in Job /\ TaskTypeOK /\ TaskOK(g, r) /\ task[g][r].pc = "restore"
      /\ task[g][r].epoch = 0
  BY <1>1, RankFacts, Steps, Positions DEF TaskOK, Trains, TrainingInv
<1>3. CASE Goto(g, r, "train")
  <2>1. "train" \in DOMAIN Order /\ Order["train"] > Order[task[g][r].pc]
    BY <1>2 DEF Order
  <2> QED BY <1>2, <1>3, <2>1, GotoAdvances
<1>4. CASE Raise(g, r)
  BY <1>2, <1>4, RaiseAdvances
<1>5. CASE task' = [task EXCEPT ![g][r] =
                      [@ EXCEPT !.pc = "train", !.epoch = c[2] + 1, !.parent = c,
                                !.trained = store[c].part[r].trained,
                                !.own = store[c].part[r].own]]
  <2>1. Others(g, r)
    BY <1>2, <1>5 DEF TaskTypeOK, Others
  <2>2. task[g][r] \in Task /\ task[g] \in [Rank -> Task]
    BY <1>2 DEF TaskTypeOK
  <2>3. task'[g][r] = [task[g][r] EXCEPT !.pc = "train", !.epoch = c[2] + 1, !.parent = c,
                                         !.trained = store[c].part[r].trained,
                                         !.own = store[c].part[r].own]
    BY <1>2, <1>5, <2>2 DEF TaskTypeOK
  <2>4. task'[g][r].pc = "train"
    BY <2>2, <2>3 DEF Task
  <2> QED BY <1>2, <2>1, <2>4 DEF Advances
<1> QED BY <1>1, <1>3, <1>4, <1>5

LEMMA StepAdvances ==
  ASSUME TrainingInv, NEW g \in Job, NEW r \in Rank, RankStep(g, r)
  PROVE  Others(g, r) /\ task[g][r].alive /\ Advances(task[g][r], task'[g][r])
<1>1. TypeOK /\ TaskTypeOK /\ 0 \in Rank
  BY Positions DEF TrainingInv, TypeOK, TaskTypeOK
<1>2. ASSUME NEW pc \in DOMAIN Order, Runs(g, r, pc)
      PROVE  /\ g \in DOMAIN jobs /\ task[g][r].alive /\ task[g][r].pc = pc
             /\ pc \notin {"receipts", "done"} => task[g][r].epoch # Epochs
  BY <1>2, RankFacts
<1>3. ASSUME NEW pc \in DOMAIN Order, NEW next \in DOMAIN Order, Runs(g, r, pc),
             Goto(g, r, next) \/ Raise(g, r), Order[next] > Order[pc]
      PROVE  Others(g, r) /\ task[g][r].alive /\ Advances(task[g][r], task'[g][r])
  BY <1>1, <1>2, <1>3, GotoAdvances, RaiseAdvances
<1>4. ASSUME NEW pc \in {"acks", "linked"}, Runs(g, r, pc), NextEpoch(g, r) \/ Raise(g, r)
      PROVE  Others(g, r) /\ task[g][r].alive /\ Advances(task[g][r], task'[g][r])
  BY <1>1, <1>2, <1>4, NextEpochAdvances, RaiseAdvances, Steps
<1>5. CASE Restore(g, r)
  BY <1>2, <1>5, RestoreAdvances, Steps DEF Restore
<1>6. CASE Train(g, r)
  <2>1. PICK drift \in BOOLEAN :
          task' = [task EXCEPT ![g][r] =
                     [task[g][r] EXCEPT !.pc = "ledgers", !.trained = task[g][r].trained + 1,
                                        !.own = task[g][r].own \/ drift]]
    BY <1>6 DEF Train
  <2>2. Runs(g, r, "train") /\ Order["ledgers"] > Order["train"] /\ task[g][r] \in Task
    BY <1>1, <1>6 DEF Train, Order, TaskTypeOK
  <2>3. task'[g][r].pc = "ledgers" /\ task'[g][r].epoch = task[g][r].epoch
    BY <1>1, <2>1, <2>2 DEF TaskTypeOK, Task
  <2>4. Others(g, r)
    BY <1>1, <2>1 DEF TaskTypeOK, Others
  <2> QED BY <1>2, <2>2, <2>3, <2>4, Steps DEF Advances
<1>7. CASE ReceiveHandle(g, r)
  BY <1>3, <1>7, Steps DEF ReceiveHandle, Order
<1>8. CASE WriteRank(g, r)
  BY <1>3, <1>8, Steps DEF WriteRank, Order
<1>9. CASE FinishRank(g, r)
  BY <1>3, <1>9, Steps DEF FinishRank, Order
<1>10. CASE ReceiveReference(g, r)
  BY <1>4, <1>10 DEF ReceiveReference
<1>11. CASE GatherReceipts(g, r)
  BY <1>3, <1>11, Steps DEF GatherReceipts, Order
<1>12. CASE CollectiveFails(g, r)
  <2>1. PICK pc \in {"ledgers", "acks", "receipts"} : Runs(g, r, pc)
    BY <1>12 DEF CollectiveFails, Waits
  <2> QED BY <1>1, <1>2, <1>12, <2>1, RaiseAdvances, Steps DEF CollectiveFails
<1>13. CASE r = 0 /\ Begin(g)
  BY <1>3, <1>13, Steps DEF Begin, Order
<1>14. CASE r = 0 /\ WriteManifest(g)
  BY <1>3, <1>14, Steps DEF WriteManifest, CommitRaises, Order
<1>15. CASE r = 0 /\ SyncManifest(g)
  BY <1>3, <1>15, Steps DEF SyncManifest, CommitRaises, Order
<1>16. CASE r = 0 /\ Link(g)
  BY <1>3, <1>16, Steps DEF Link, Order
<1>17. CASE r = 0 /\ FinishCommit(g)
  BY <1>4, <1>17 DEF FinishCommit, CommitRaises
<1> QED BY <1>5, <1>6, <1>7, <1>8, <1>9, <1>10, <1>11, <1>12, <1>13, <1>14, <1>15, <1>16, <1>17
        DEF RankStep

LEMMA KilledAdvances ==
  ASSUME TrainingInv, NEW g \in Job, NEW r \in Rank,
         Killed(g, r) \/ (r = 0 /\ CommitIoFails(g))
  PROVE  Others(g, r) /\ task[g][r].alive /\ Advances(task[g][r], task'[g][r])
<1>1. TaskTypeOK
  BY DEF TrainingInv, TypeOK, TaskTypeOK
<1>2. task[g][r].alive /\ Raise(g, r)
  BY DEF Killed, CommitIoFails, CommitRaises, Runs
<1> QED BY <1>1, <1>2, RaiseAdvances

\* A loss of power ends the processes that are left.
LEMMA PowerAdvances ==
  ASSUME TrainingInv, PowerLoss, NEW g \in Job, NEW r \in Rank
  PROVE  task'[g][r] = task[g][r] \/ (task[g][r].alive /\ Advances(task[g][r], task'[g][r]))
<1>1. task[g][r] \in Task
  BY DEF TrainingInv, TypeOK
<1>2. task'[g][r] = task[g][r] \/ task'[g][r] = [task[g][r] EXCEPT !.alive = FALSE]
  BY DEF PowerLoss
<1>3. [task[g][r] EXCEPT !.alive = FALSE].alive = FALSE
  BY <1>1 DEF Task
<1>4. ~task[g][r].alive => [task[g][r] EXCEPT !.alive = FALSE] = task[g][r]
  BY <1>1 DEF Task
<1> QED BY <1>2, <1>3, <1>4 DEF Advances

LEMMA ForwardNext == TrainingInv /\ TrainingInv' /\ [Next]_vars => GoesForward
<1> SUFFICES ASSUME TrainingInv, TrainingInv', [Next]_vars PROVE GoesForward
  OBVIOUS
<1>1. ASSUME NEW g \in Job, NEW r \in Rank
      PROVE  task[g][r] \in Task /\ task'[g][r] \in Task /\ Trains(task[g][r])
  <2>1. Trains(Fresh)
    BY EpochsAssumption DEF Trains, Fresh
  <2> QED BY <1>1, <2>1 DEF TrainingInv, TypeOK, Tasks, TaskOK, LaterFresh
<1>2. ASSUME NEW g \in Job, NEW r \in Rank, task[g][r].alive, Advances(task[g][r], task'[g][r])
      PROVE  Nearer(task[g][r], task'[g][r])
  BY <1>1, <1>2, AdvancesAreNearer
<1>3. ASSUME NEW g \in Job, NEW r \in Rank, Others(g, r), task[g][r].alive,
             Advances(task[g][r], task'[g][r]), NEW h \in Job, NEW q \in Rank
      PROVE  task'[h][q] = task[h][q] \/ Nearer(task[h][q], task'[h][q])
  BY <1>2, <1>3 DEF Others
<1>4. ASSUME NEW h \in Job, NEW q \in Rank
      PROVE  task'[h][q] = task[h][q] \/ Nearer(task[h][q], task'[h][q])
  <2>1. ASSUME NEW g \in Job, NEW r \in Rank, RankStep(g, r)
        PROVE  task'[h][q] = task[h][q] \/ Nearer(task[h][q], task'[h][q])
    BY <1>3, <1>4, <2>1, StepAdvances
  <2>2. ASSUME NEW g \in Job, RankFault(g)
        PROVE  task'[h][q] = task[h][q] \/ Nearer(task[h][q], task'[h][q])
    <3>1. 0 \in Rank
      BY Positions DEF TrainingInv
    <3>2. PICK r \in Rank : Killed(g, r) \/ (r = 0 /\ CommitIoFails(g))
      BY <2>2, <3>1 DEF RankFault
    <3> QED BY <1>3, <1>4, <3>2, KilledAdvances
  <2>3. CASE PowerLoss
    BY <1>2, <1>4, <2>3, PowerAdvances
  <2>4. CASE UNCHANGED task
    BY <2>4
  <2> QED BY <2>1, <2>2, <2>3, <2>4
          DEF Next, vars, DriverStep, Validate, VerifyFinal, JobFails, Publish, Launch, RetryStage,
              TimerFires, DriverCrash, Rot
<1>5. ASSUME NEW g \in Job, NEW r \in Rank, RankStep(g, r) PROVE Nearer(task[g][r], task'[g][r])
  BY <1>2, <1>5, StepAdvances
<1> QED BY <1>4, <1>5 DEF GoesForward

\* Whatever fails, a rank never goes back: each of its steps, its death included, leaves it
\* fewer of the 8 * Epochs + 3 steps that a process of the stage can take, and no step of
\* anybody else gives it one back (runner.py, the loop over the epochs). With the theorem
\* above, the ranks of a stage end as long as one that can go on does.
THEOREM RanksGoForward == Spec => []StepsAreFew /\ [][GoesForward]_vars
<1>1. TrainingInv => StepsAreFew
  <2>1. Trains(Fresh)
    BY EpochsAssumption DEF Trains, Fresh
  <2>2. ASSUME TrainingInv, NEW g \in Job, NEW r \in Rank
        PROVE  task[g][r] \in Task /\ Trains(task[g][r])
    BY <2>1, <2>2 DEF TrainingInv, TypeOK, Tasks, TaskOK, LaterFresh
  <2> QED BY <2>2, StepsBounded DEF StepsAreFew
<1> QED BY <1>1, TrainingInvariant, ForwardNext, PTL DEF Spec
=============================================================================
