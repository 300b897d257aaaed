# Formal models of the DS60 classroom's job execution

The repository is a local classroom: a browser application serves lessons and
runs a learner's code in private runtime workers. The parts that are hard to get
right are not the lessons. They are the places where several threads, processes
and outside actors touch one thing: the controller in the app and the worker that
runs the code, the Kubernetes executor and the cluster it works in, the host
session that makes and removes that cluster, the files in which a learner's work
is kept, the child process that runs a program, and the ranks of a training job
that commit a checkpoint together. This directory models those parts in TLA+,
checks them with TLC and proves their safety properties with TLAPS.

Paths below are relative to the repository; `ds60sqlpy/` is short for
`src/ds60sqlpy/`.

## Inventory

| Component | Code | State | Operations | What makes it correct |
|---|---|---|---|---|
| Worker job table | `ds60sqlpy/module_worker.py`, `gpu_runtime.py` | job table, thread, ready, closing, instance identity; in memory | submit, poll, cancel, the job's thread, close | one operation at a time and always visible; results final and evicted oldest first; a worker that lost confidence takes no job |
| Module jobs | `module_jobs.py`, `module_service.py` | one receipt file per job; pending, active, monitor threads in memory | start, get, recover, cancel, monitor, close, restart | source is never replayed; an unresolved receipt stays reserved; a receipt says what the worker did |
| Kubernetes executor | `kubernetes_module.py` 634-1503 | documents intended and owned, deadlines | check, create, observe, reconcile, clean up | owns and deletes only what it created; cleanup leaves nothing it could know of |
| Kubernetes worker process | `kubernetes_module.py` 1557-1671 | readiness watch, signal handlers | graceful stop, namespace watch | a stop reaches the running operation |
| Kubernetes session | `kubernetes_module.py` 1674-2319 | private host receipts, one kind node in a container engine | prepare, release | removes only the owned node; reports a cleanup only when nothing is left; can be repeated after any failure |
| Process execution | `worker_operations.py`, `execution.py` | child process group, reader thread, limits | start, poll, stop, drain | ends within its deadline; nothing of the group outlives the call; a reported transcript is whole |
| App code execution | `execution.py`, `classroom_runs.py`, `lab.py` | practice files, history backups, run receipts, the execution lock | save, run, cancel SQL | a save loses no earlier work; a run always ends |
| Saved state | `state_files.py`, `progress.py`, `modules.py`, `browser_runs.py` | JSON files with advisory locks | update, replace, prune | no update is lost; the oldest observations go first |
| Training checkpoints | `packages/spark-likelihood/src/ds60_torch_training/` | checkpoint directories on a shared file system, the ranks of a barrier job, `result.json` | train, begin, write rank, commit, resume, validate, publish | what is committed is whole and durable; `completed` means that it was |
| The rest | catalog, readers, SQL notebooks, checks, MCP server, launcher, Spark TMB, course content | | | pure functions, sequential I/O or numerical work; see PROJECT.json for each |

Interactions: a request thread of the app calls the worker over HTTP with a
socket timeout. The worker answers on its single server thread and runs the
operation on a background thread. The app polls from one monitor thread per job.
Receipts are files and survive a restart of the app; the worker's table is lost
with its process, and a new process has a new instance identity, which is how the
app tells a lost job from a running one. The Kubernetes worker is the same server
with an executor that calls `kubectl` and a watch that probes its namespace.

The learner's files are shared by every thread and process of the app; the only
thing between them is an advisory lock per file, which ends with its process. The
host session shares the container engine with whoever else uses it and leaves
nothing but files behind when it dies. The ranks of a training job share a file
system and a process group; the driver sees of them what the files, Spark's
listener and its own timer tell.

Hard behaviour: a POST that timed out and is executed later; an app that dies
between writing a receipt and sending it; a worker replaced while several
threads reconnect; eviction in the `finally` of a thread whose successor is
already running; a signal handler inside `submit`; a create whose client is
killed and which commits later; a replacement that appears between a look and a
deletion; a descendant that keeps the output pipe of a process that is gone; a
crash inside a backup; a rank that dies while its peers wait for it, and power that
fails around the link that publishes a checkpoint. `PROJECT.json` lists each hazard with its line and its properties.

## Modules

| Module | Models | Notes |
|---|---|---|
| `ModuleWorker` | `WorkerState`, its server thread, its process, the Kubernetes watch and graceful stop | `Profile` selects the plain, GPU or Kubernetes worker |
| `JobReceipts` | the abstract promise of the controller to a learner | five actions: Submit, Execute, End, Record, Assume |
| `ModuleJobs` | `ModuleJobs` and `WorkerClient`, composed with `ModuleWorker` through a request queue and replies | `KeepsReceiptPromises` is the refinement of `JobReceipts` |
| `KubernetesRun` | `kubernetes_executor` and `KubectlClient` against an API server | the server and other actors are external |
| `OwnedObjects` | the abstract promise of runs to everybody who shares the cluster | a run makes objects under free names, deletes only its own, and succeeds only with all made and none left |
| `KubernetesSession` | `prepare_owned_session` and `release_owned_session` against a container engine | the engine and its other users are external |
| `OwnedProcess` | one bounded child process, its descendants, its reader and the code that stops it | no behaviour of its own: `SavedWork` runs it |
| `SavedWork` | the pad and its history, the progress file, browser observations and the run of a pad, composed with `OwnedProcess` | the process is a pad's, or stands for a worker's jobs |
| `LearnerFiles` | the abstract promise of the learner's files | a text is saved only over what is remembered for ever, a progress step adds to what the file holds, and pruning takes the oldest |
| `TrainingRun` | the barrier job, its collectives, the checkpoint transaction and the driver | the file system, Spark and the process group are external |
| `CheckpointChain` | the abstract promise of checkpoints to their readers | attempts begin in order, a checkpoint extends its predecessor, and only a durable last one makes a result `completed` |
| `ModuleWorkerProofs`, `ModuleJobsProofs`, `KubernetesRunProofs`, `KubernetesSessionProofs`, `SavedWorkProofs`, `TrainingRunProofs` | theorems and proofs | extend the component's module |
| `JobReceiptsProofs` | theorems about receipts, and the refinement of `JobReceipts` | extends `ModuleJobsProofs` |
| `RetentionFacts` | lemmas about keeping the newest `m` of finitely many things in a strict order | used for both evictions: the worker's results and the browser's observations |
| `MC*` | instances for TLC | constants only; the modules whose constants a `.cfg` can name need none |

Operators that are called mutants in a comment are variants of an action with a
plausible bug. No specification uses them: they show, one run each, that a
property notices the bug.

### ModuleWorker

`Register` is the critical section of `submit`. The insertion order of the job
dictionary is kept as `wlater`: for each job in the table, those inserted after
it. `RunPrepare`, `RunProgress`, `ExecutorReturns`, `RunPublish`,
`RunInfrastructureFails` and `RunRetire` are the lock sections of `_run`. The
executor itself is reduced to the status it returns, which may be any. `wcancel`
is the cancel event; nothing waits for the executor to honour it, so no property
depends on how quickly a runtime stops. `wsuspect` is history: the worker said
"inspect and restart".

The Kubernetes worker adds three things. `WatchProbe`, `WatchReports` and
`WatchExpires` are `expiry_watch`. `SubmitStopped` is a SIGTERM handled between
the registration of a job and the start of its thread, since Python runs the
handler on the main thread, which serves requests. `WorkerStopping` is
`begin_shutdown`, after which the server still answers until `WorkerClose`.

On the plain worker SIGTERM raises KeyboardInterrupt in the main thread, which
leaves `serve_forever` at once; nothing is served afterwards, so an interrupted
handler can be seen only as a lost reply. The join in `close` has a timeout; a
join that gives up is a `WorkerCrash`.

### ModuleJobs

Request threads take the lock for one step or keep it over calls (`start` and
the second half of `get` do). A call is a request in the worker's queue plus a
reply; `CallTimesOut` lets the caller give up, and the request may still be
served or may vanish (`Abandon`). `Reopen` is the constructor after a crash or
exit: reservations and monitors are rebuilt from the receipts, and a monitor of
an interrupted receipt ends at once, so only a later `get` asks about it. `pc`,
`op` and `target` hold a thread's position between its lock sections and calls;
`Watch` is the locked part of `_monitor`, with the refused thread.

The phases of an unfinished receipt (queued, preparing, compiling, running,
verifying) are one value: no decision in the code tells them apart. `close` joins
its monitors for a few seconds; they are daemon threads that end with the
process, and the join is left out.

### KubernetesRun

One `kubectl` call is one step, taken at the instant the server answers. `Begin`
draws a new nonce, which is the run's number. `CheckFree` refuses existing
names, `CreateConfirmed` records a receipt, `CreateUnconfirmed` has no receipt:
the name was taken, the request never left, its answer was lost, or it is still
in flight and may commit later (`LateCommit`). `Reconcile` looks up intended
names without a receipt and adopts only its own nonce. `CleanupLooks`, `Delete`,
`WaitEnds` are `KubectlClient.cleanup`: the deletion has a UID precondition, and
the wait ends when the object is gone, replaced, or the cleanup's own deadline
passes. The namespace check that precedes each of these calls may fail like any
call and is part of the failure of that step. `OutsideStep` is any other client of the
cluster, and `WorkerDies` a killed worker, which leaves objects and creates behind.

The executor asks its cancel event and deadline before and during every call.
A call that completes although the event was set meanwhile is the same as one
that completed just before, as nothing else reads the event; hence the guard
`Undisturbed`. The finite-task lesson is the same machine with one document, no
probe and the task observed; lease expiry is one more way a call may fail.

### KubernetesSession

`prep` and `rel` are the positions of the two functions, one command of the engine
or one write each. Every command can fail before or after its effect, and either
function can die at any step. A container is an identifier that is never reused, a
name (the node's or another) and two facts: the label with the random cluster
name, which only our own `kind create` puts on it, and the lesson namespace in its
API server. `Listed` and `Listing` are `_owned_node_present`: the containers that
have the node's name *or* the recorded identifier, with refusal unless they are
one. `Outsider` is everybody else: they remove, rename, replace, or delete the
namespace. The objects `Build` makes through the API server are one step; only the
namespace is looked up again. Credentials are unlinked one at a time in any order.

`OwnedObjects` sees which run made the object under a name, which objects were asked to
go, the creates still on their way and the names a run has receipts for. It knows no
phases, positions, deadlines or cancellation: at any moment a live run may create, find
or delete, and end.

### OwnedProcess and SavedWork

`OwnedProcess` models `PadRunner._execute` and the workers' `run_process` as one
machine with two owners, because their loops differ only in the reasons they ask
for, in their order, in the sweep over `/proc`, and in what they do with a reader
that did not end. The child, its descendants (in the group, or gone from it by
`setsid`), the clock, the cancellation and the scratch directory are steps of
their own, between any two steps of the owner: in particular between the last
check of a limit and the exit of the process.

In `SavedWork` a client is a request thread of some app process. `Acquire` is
`locked_update`; what happens between it and the release is one step per file
operation, so a crash (`Crash`, which takes any set of busy threads) or a full
disk (`WriteFails`) strikes between any two. Temporary files that are renamed into
place need no state. The history backup is the exception, as it is written in
place: hence `partial`. An observation is stamped before its lock is asked for, so
a late saver may hold the oldest stamp. A run keeps the execution lock from its
start to its end; a pad and a worker are different behaviours of the same module
(`runner` is fixed in `Init`), as a worker touches none of the files.

For `LearnerFiles` the pad, what can be recovered of it, the progress and the whole
observations are seen, with what each client has asked for. Locks, positions, partial
files and processes are not: every operation looks like one atomic change of a file.

### TrainingRun

`task[g][r]` is rank `r` of barrier stage `g`; `jobs[g]` is the attempt that the
stage belongs to, so a stage that Spark retried is a second one with the same
attempt. The rank's `pc` is the step within an epoch, in the order of
`Order`. A collective has no step of its own: a rank passes it when the peers
whose values it needs have *arrived* (`Arrived`), which holds also for a peer that
died after it sent its value; otherwise it waits, and `CollectiveFails` is the
process group's time limit or a lost connection. Rank 0's commit is five steps:
`WriteManifest` (verify, compare replicas, write), `SyncManifest` (sync, verify
again), `Link`, `FinishCommit` (sync, read back), each of which may fail
(`CommitIoFails`) and leaves `outcome[g]` as the exception the caller sees.

A directory holds what a reader can tell: who owns it, its parent, each rank's
files (how many epochs of training they hold, whether the replica differs, whether
they were synced, whether somebody changed them), the manifest and the marker.
`PowerLoss` ends every process and loses *any* subset of the entries that are not
synced. A replica that drifts from its peers is a fault of `Train`; `Rot` is a
payload changed after it was acknowledged. The driver is `Launch`, `Validate`,
`VerifyFinal`, `Publish`, with the timer, a crash and Spark's retry beside it. The
attempt may resume from any checkpoint that is found marked.

`CheckpointChain` sees of all this the attempts and what they resume from, which
checkpoints are whole, found and durable, the parents that a reader of markers finds,
and the results. Ranks, stages, collectives and the driver are not seen; a fault is seen
as a checkpoint that is no longer found or whole.

## Runs

All passing runs together fire every action and every disjunct of the next-state
relations. Properties are temporal or about steps where the table says so with an
arrow.

| Run | Instance | Shows |
|---|---|---|
| `worker_table` | Kubernetes worker, 3 jobs, 1 retained result, 2 processes, fair | TypeOK, OneVisibleOperation, OldestResultGoesFirst →, ResultIsFinal →, OperationEnds →, CloseWaitsForExecutor → |
| `worker_quarantine` | the same | violation: QuarantineHolds |
| `jobs_race` | 1 job, 2 request threads and close(), 2 workers, 1 fault | JobsTypeOK, UnresolvedReserved, ReceiptTellsTheTruth, ResolvedMeansOver, ResolvedIsFinal → |
| `jobs_kind` | Kubernetes worker, 1 job, 1 thread, 2 faults | StopReachesOperation: a stop inside submit reaches the job, with the app and the watch at work |
| `jobs_two` | 2 jobs, 1 thread that may recover, 1 fault, plain worker | OneUnresolved, QuarantineHolds → |
| `jobs_progress` | 1 job, 1 thread, 2 faults, fair | NeverReplayed, KeepsReceiptPromises (the refinement), NoReceiptRunsForever →, ResultReachesReceipt → |
| `jobs_unwatched` | 1 job, 1 thread, 1 fault | violation: RunningIsMonitored |
| `kube_cleanup` | 3 names, client Job, 2 runs, 2 outside steps, fair | OwnsOnlyItsOwn, CleanupLeavesOnlyLate, SuccessLeavesNothing, DeletesOnlyItsOwn →, RunEnds → |
| `kube_session` | 3 containers, 4 outside steps, 4 faults, fair | CleanedMeansNothingLeft, RemovesOnlyOwnNode →, CredentialsOutliveNode →, ReleaseConverges → |
| `saved_work` | 2 clients, 2 texts, 2 lessons, 3 operations, 2 observations kept, 1 fault, fair | GroupIsGone, ReportedIsWhole, UnstoppedIsWithinLimits →, FilesAreAtomic (the refinement), UpdatesAreKept →, PrunesOldest →, RunEnds → |
| `saved_backup` | 2 clients, 2 texts, 2 operations, 1 fault | violation: BackupsAreWhole |
| `training` | 2 ranks, 2 epochs, 2 attempts, 2 stages, 2 faults | MarkedIsLoadable, CommittedEpochIsWhole, PlainErrorMeansUnpublished, NoRankIsStuck, CompletedIsFinalAndUnretried, CheckpointsFormChain (the refinement) |

The GPU profile of the worker differs from the plain one by the device review after
a failed job only. No run instantiates it, as an instance with enough jobs is too
large; the theorems hold for every profile.

`CHECK_DEADLOCK FALSE` stands where the system may stop: a worker that is closed, a
session that was released, bounded operations that are used up.

### Bounds

`MaxTerminal` is the code's 32. One retained result and three jobs let every
order of insertion, end and eviction occur, including an eviction while the next
job runs. `MaxInstance` bounds worker processes; two are needed to lose a job
with its worker and have the next one answer. `MaxFaults` bounds timeouts, crashes,
restarts and refused threads together; one fault with two threads, and two faults
with one, reach every combination the properties speak about in pairs (a timeout
and then a restart, a refused thread and then a crash). A job's source is
submitted once because the app draws a new identity for every start. `MaxRuns`
lets a second run meet what the first left behind; `MaxOutside` lets another
actor delete and recreate one name, which is what a replacement is. The run
`jobs_race` uses symmetry of the request threads, which no definition tells
apart; runs with liveness use none.

`kube_session` needs three identifiers: our node, one that replaces it and one more
to replace that. Four outside steps and four faults allow a rename, a removal and a
replacement around any command of both functions. `saved_work` needs two clients and
three operations: a save, a second one over it and a third that meets what a crash
left, or three observations of which one must go (`Limit` is 2; the code's is 20).
`training` needs two epochs for a parent and two attempts for a resume; a stage that
is retried and an attempt that is repeated share the bound of two stages. Two faults
put, say, a drifting replica before a death, or a power loss after an I/O error. It
has 1.2 million distinct states. The theorems remove every one of these bounds for
the safety properties.

### Fairness

`worker_table` assumes that the thread of an accepted job keeps running and its
executor returns: every executor has a total deadline. `jobs_progress` assumes
fair threads of the app and a worker that serves its queue, and that somebody
reconnects: the browser polls, and so does a learner who returns. That `get` has
strong fairness, because other threads keep taking its lock and its thread.
Nothing is assumed about timeouts, crashes or answers. `kube_cleanup` assumes that
a live executor goes on and that time passes (`DeadlinePasses`): not that any call
succeeds and not that an object is ever deleted. `saved_work` assumes that some
client goes on (operations are finitely many, so each does), that the code which owns
a process is scheduled and that time passes: not that the child ends, nor that anybody
closes the pipe. `kube_session` assumes that preparation goes on and that the release
is tried again by its caller, for which a failed release keeps its private evidence; each
try may fail.

`training` states no fairness. `NoRankIsStuck` says that in no reachable state do all
the live ranks of a stage wait without one of them being able to go on. As each
step of a rank moves it forward through finitely many steps (`RanksGoForward`), this is
what the scheduling of live processes needs for the job to end.

## Findings

1. `BackupsAreWhole`: a backup is written in place under the digest of the text it
   will hold. A crash or a full disk in that write leaves a partial file, and from
   then on every save of another text over that same text is refused until somebody
   repairs the history by hand. No saved text is lost by it (`SavedTextStays` is a
   theorem: the refusal is what keeps it), but the docstring's "content-addressed backups" is
   not true of that file.
2. `QuarantineHolds` on the Kubernetes worker: `expiry_watch` writes the verdict
   of its namespace probe into `ready` whatever cleared it. A worker that said
   "Inspect and restart this prepared profile before retrying" takes jobs again
   a few seconds later.
3. `RunningIsMonitored`: a reconnection that revives a receipt while its old
   monitor is between its last update and its `finally` finds the old thread
   still registered and starts no other. The receipt stays running with no
   monitor and no controller deadline until the next `get`. `NoReceiptRunsForever` holds
   because that `get` starts a monitor: the finding is about a browser that
   stopped polling.

`CleanupLeavesOnlyLate` carries a caveat instead of a finding: a create whose
`kubectl` was killed may commit after reconciliation looked its name up. The
cleanup then reports success and the object stays until the next run refuses to
start over it. No client-side look can exclude this; the property says exactly
which runs are exempt (`late`).

Two observations are not findings. A poll of the worker can see one snapshot more than
the 32 that `WorkerState` promises, between the lock section that publishes a result
and the one that evicts. And a checkpoint that was linked but not yet synced can be
resumed from, after which power may take its marker: `ParentsAreKept` (the theorem
`ParentsStay`) therefore asks of
a parent across a resume that its manifest and ranks are there, not its marker.

## Theorems

All are proved for every value of the constants that meets the named assumptions:
`WorkerAssumption`, `ControllerAssumption` and `KubernetesAssumption` (finitely many jobs
whose identities are numbers, disjoint names for threads and jobs, a positive
retention limit, and lessons made of names the cluster knows), `SessionBounds`,
`LimitAssumption`, `NoneAssumption` and `WorkBounds` (a positive limit; the value that
stands for "nobody" is no client), `WorldAssumption`, `EpochsAssumption` and
`BoundsAssumption` (at least one rank and one epoch). The bounds on operations, attempts
and faults are arbitrary numbers in them. The types of `KubernetesRun`,
`KubernetesSession`, `SavedWork` and `TrainingRun` are proved and not in a run.

**Worker.** `WorkerInv` is `TypeOK` and three parts. `TableAgrees`: a live
executor's job is active in the table, the only one active and the one
`WorkerState.thread` refers to. Without it `OneVisibleOperation` is not
inductive: `submit` checks the table, not the threads. `SuspectIsNotReady`: on
the plain and GPU profiles, `ready` stays false once a restart was asked for. `ClosedIsCancelled`: once the
server has left its loop an active job has its event set. From these follow
`WorkerTypeCorrect`, `OneOperationAtATime`, `ResultsAreFinal`, `QuarantineLasts`
(its assumption leaves out the Kubernetes profile, see finding 2), `StopReaches` and
`CloseLeavesNoExecutor`.

`OldestGoFirst` needs one invariant more, `TableOrdered`: `wlater` is a strict total order
of the jobs in the table. `Register` extends it at its end and an eviction restricts it.
The rest is counting, which `RetentionFacts` does for any such order (`Orders`): the thing
with fewest after it is the newest, so the members with fewer than `m` after them are
exactly `m`, or all if there are no more, and lie after every other (`NewestAreCounted`,
`NewestRemain`).

**Jobs.** `JobsInv` combines the types of app and wire, `UnresolvedReserved` and
`OneUnresolved`, three facts about threads (`Positioned`: a thread past its first
step names a job; `Present`: that job has a receipt; `Locked`: only the caller that
keeps the lock is between the calls it makes under it), and the worker's own
invariant, which the app's calls preserve because every step of the composed
system is a worker step or leaves its variables alone. `JobsTypeCorrect`,
`UnresolvedStaysReserved`, `SubmissionsOneAtATime`, `ReceiptsAreFinal` and
`WorkerGuaranteesKept` follow. `SubmissionsOneAtATime` needs the reservation:
`start` looks at `pending` only, so it is safe exactly because every unresolved
receipt is in it, also after a restart.

`ComposedWorker` says that the composition implements `WorkerSpec`: the controller, the
wire and the monitors only choose among the worker's own steps. Hence whatever is proved
of the worker holds when the app drives it, with no second proof: `ComposedWorkerKeeps`
and, except on Kubernetes, `ComposedQuarantine`.

**Receipts.** That a receipt tells the truth depends on everything between the two sides,
so `TruthInv` follows a job from its submission to its verdict. `OutstandingCalls`: a
client waits for at most one answer, about the job it handles. `SubmissionFirst`: a
request about a job follows its receipt, and nothing about the job is queued before its
submission; otherwise a poll served first would learn "unknown job" about a job that is
still to run. `HistoryAgrees`: the worker's table agrees with what it did, so a job that it
may still start has not run. `AnswersTrue`: a verdict on its way is the worker's, and
"unknown job" means that the job will not run any more (`Over`), which no restart or
eviction can undo. `Checked`: a caller that goes on to compare instance identities has
learnt just that. With them `ReceiptsTellTheTruth`, `ResolvedJobsAreOver` and
`SourceNeverReplayed` are inductive. `ReceiptPromisesKept` is the refinement: every step
of the controller, the wire and the worker is a step of `JobReceipts` or a stutter.
Calls that time out and are served later, requests that vanish and workers that are
replaced are all among these steps, in any number.

**Kubernetes.** `KubeInv` adds to the types that the server names only UIDs it
gave out and that the executor's position points into its receipts while it
deletes. Both are needed: a receipt is compared with an object by UID, and UIDs are
never reused. `ReceiptsAreOwn` and `DeletionsAreOwn` say that nothing foreign is
adopted or deleted, and `KubernetesTypeCorrect` the types.

`CleanupInv` is about what is left. `NumbersInv`: nothing carries the nonce of a run to
come. `NothingForgotten`: unless something failed, every object of the newest run is where
its `finally` will still look (`StillToDo`): confirmed by a receipt, under an intended name
not yet reconciled, or under a receipt not yet cleaned up. `NothingUnderWay`: while every
create of the run is confirmed, none is in flight; this is what makes a success clean
without the exemption of `late`. `CleanupIsComplete` and `SuccessIsClean` follow.

`RunsKeepOwnership` is the refinement of `OwnedObjects`. A create is a Create, one whose
client is gone an Abandon and later an Arrive, a reconciliation that finds an object a
Find, a deletion a Delete, and `Report` an End; reads, waits and the clock are stutters.
The one hard case is End with a success: nothing is left by `CleanupInv`, and everything
was made by `MadeInv`, which follows the receipts through the phases (the documents before
`at` while creating, all of them from the observation on, the probe from the verification
on). TLC agrees on the instance of `kube_cleanup`, in four minutes; as that leaves a run
no margin, the refinement is a theorem and in no run.

`RunsAreBounded` is what can be proved of `RunEnds`: every step of the executor lowers
`CallsLeft`, which weighs what the phase has still to do, a name still to be reconciled by
4 (it may add a receipt) and a receipt still to be cleaned up by 3 (look, delete, wait).
No other step raises it. So neither a reconciliation that finds new objects nor replacements
that keep appearing make the finally start over.

**Session.** `SessionInv` adds three facts to the types. `OneLabelled`: one container
at most ever bears the label. `RecordedIsOwn`: the recorded identifier is its, and is
there before anything relies on it. `ConfirmedIsGone`: whoever confirmed the absence of
the node is right for ever. The last is not inductive without the engine's promise that
labels are not given, and identifiers not used, again (`EngineKept`). `CleanupIsTrue`,
`RemovalsAreOwn`, `CredentialsStay` and `SessionTypeCorrect` follow.

**Saved work.** The process and the files are proved apart, as every step is one of the
process or leaves it alone (`ProcessSteps`). `ProcInv` says what is left of the group, the
pipe and the reader at each step of the owner; `EndedAlone` is the part one would not
guess: without a reason to stop, the leader has exited by itself, though the limits may be
passed by then. `FileInv` is the lock discipline (`Holding`: who is between the acquisition
and the release holds the lock) and what a holder knows of its file (`PadKnown`,
`ProgressKnown`), which is exactly what an update before the lock would break.
`NoProcessIsLeft`, `TranscriptIsWhole`, `SuccessIsWithinLimits`, `SavedTextStays`,
`UpdatesStay` and `SavedWorkTypeCorrect` follow.

`FilesStayAtomic` is the refinement of `LearnerFiles`. Every operation has one step at which
it takes effect: `Begin` is an Ask, the end of the backup a Keep, `Replace` a Save, the
write of the progress a Mark, that of a record an Add, each deletion a Prune. A full disk,
a refused backup and a crash are a GiveUp of the clients that had no effect yet; a client
that dies later has had it. All other steps are stutters. Save asks that the text it writes
over is remembered, so a backup that could be lost or skipped would not refine it.

`ObserveInv` is for `OldestArePruned`: stamps of observations, written or on their way,
differ (`StampsDiffer`), and the one who prunes has not yet deleted the newest of what it
listed, nor is its own record among what it will delete (`RecordsKnown`). `RetentionFacts`
then counts what stays. The lock matters: only its holder writes or deletes, so the list
stays true until the last deletion.

**Training.** `TrainingInv` has a part for each actor. `DirectoryOK` relates the files of
one directory: a rank's files hold what the epoch stands for, a ready rank is synced, a
manifest stands over ready and agreeing ranks, a marker over a synced manifest, and an
owned directory belongs to a stage of its attempt and *follows* its parent (`Precedes`).
`TaskOK` says what a rank knows: how far it has trained (`Trains`), that it writes into a
directory of its own stage (`Writes`), and for rank 0 that its directory is unpublished
up to the link and durable from the sync on (`Commits`), that a stage at its end has
published (`Finishes`) and that an error was left before the link (`Errs`). `DriverOK`
carries `Finishes` over the end of the job to `result.json`. The safety properties are all
consequences; none is inductive alone, as each needs what the *other* ranks know to
survive a step (`OthersKept`: a step touches only the directory its own stage owns) and
what survives a loss of power (`Persists`: what is synced stays). From it `MarkedLoads`,
`CommittedIsWhole`, `ParentsStay`, `PlainErrorIsUnpublished`, `CompletedIsFinal` and
`TrainingTypeCorrect` follow.

`CheckpointChainKept` is the refinement of `CheckpointChain`. `TrainingInv` says what a
parent is like, but `CheckpointChain` names *the* parent: the source of the attempt for its
first epoch, the epoch before for any other. `LineageInv` adds this, for directories and for
the rank 0 that will begin the next one (`Tracks`), and with it that a linked checkpoint is
still marked `linked` when rank 0 syncs it. The sync of the manifest is then a Write, the
link a Publish, the sync of the marker a Harden, a loss of power a Lose, and the driver's
steps are Start and Conclude. Two stages of one attempt, one of which was given up, do not
disturb this: the directory of an epoch has one owner, and the other one raises.

`NoRankIsStuck` speaks of ENABLED, which the prover does not know. `WaitingRanksGoOn` proves
its content with the guards written out: `CanGoOn` is the guard of each collective's step,
and the lemma `GuardSuffices` shows that where it holds a successor exists, by naming the
values of the variables after the step. If all live ranks of a stage wait, then rank 0
waits for answers that are there, or somebody waits behind it for what it has sent, or a
peer is dead and the collective fails. `RanksGoForward` is the other half of the argument
that a job ends: each step of a rank, its death included, lowers `StepsLeft`, which starts
at `8 * Epochs + 3` in a stage and which nobody else's step raises. It needs `TaskOK`, as a
rank at its receipts has no epoch left. Only the scheduling is then left to assume.

## Only model-checked

Liveness (`OperationEnds`, `NoReceiptRunsForever`, `ResultReachesReceipt`, `RunEnds` of
the executor and of a process, `ReleaseConverges`) and the fairness it rests on are out
of the prover's reach, and so is `NoRankIsStuck` as it stands (see `WaitingRanksGoOn` and
`RanksGoForward` for what is proved in its place, and `RunsAreBounded` for the executor).
Every other property of a passing run is stated by a theorem.

## Not modelled

Request parsing, bearer tokens, text limits, manifests and rendered output; the
bytes of a receipt (a receipt whose file is damaged is refused, not repaired);
real time, which appears as a deadline that may pass at any moment; the runtime of
a learner's program, tensors and losses. Most of the repository by size is course
content, and most of its code is pure functions from course files to pages: neither
has a state to check, which is why the map covers a small share of its lines. The
components marked `not_modelled` in `PROJECT.json` give their reasons.

Of the components that are modelled in part:

- Process execution: a job's sequence of compile and run commands is one process;
  the bytes of the bounded transcript (`BoundedOutput`, a sequential computation) are
  reduced to whether its pipe was drained.
- App code execution: notebooks and whole SQL lessons (whose reader truncates instead
  of stopping) and the cancellation of SQL. The lock of the execution is that of one app.
  A run executes a snapshot file of its own by construction, so nothing is stated of it.
- Saved state: module drafts follow the protocol of the pads; reset and import of the
  progress file replace it whole under the same lock. Faults are process crashes and full
  disks: backups are not fsynced, so a loss of power is outside what this code promises.
- The session: containers of others never bear the label, as the cluster's name is random;
  the API server's objects other than the namespace.

## Plan

1. Proofs: the safety properties of the runs are proved, and the job controller, the
   executor, the learner's files and the training run are shown to implement abstract
   specifications. The session has none yet (a resource that is created, recorded and
   released once), and neither has the worker alone.
2. `SavedWork`: module drafts, and reset and import of the progress file.
3. `BoundedOutput` as a pure operator against a reference definition.

## Running

    tlc -config MCModuleWorker.cfg MCModuleWorker
    tlc -config MCTrainingRun.cfg TrainingRun
    tlapm TrainingRunProofs.tla

and likewise for the other configurations and proof modules.
