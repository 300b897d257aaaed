------------------------------ MODULE SavedWork ------------------------------
(***************************************************************************)
(* The learner's files and the operations of the app's threads and         *)
(* processes on them: a practice pad with its history of earlier texts     *)
(* (execution.py), the completed lessons (progress.py), the observations   *)
(* made in the browser (browser_runs.py), and a run of the pad (lab.py)    *)
(* in a bounded process. Every change is made under an advisory file lock  *)
(* that ends with its process (state_files.py).                            *)
(***************************************************************************)
EXTENDS OwnedProcess, FiniteSets

CONSTANTS Client,    \* threads of the app, or of several apps, that serve requests
          Text,      \* contents of the pad
          Lesson,    \* lessons of the progress file
          Limit,     \* observations kept (BROWSER_HISTORY_LIMIT)
          MaxOps,    \* bound: operations
          MaxFaults, \* bound: crashes and failed writes
          None

ASSUME LimitAssumption == Limit \in Nat \ {0}
ASSUME NoneAssumption == None \notin Client
ASSUME WorkBounds == MaxOps \in Nat /\ MaxFaults \in Nat

VARIABLES pad,      \* practice.py
          history,  \* history[t]: the backup under the digest of t
          done,     \* progress.json
          records,  \* observation files, by their time of creation
          lock,     \* holder of each file's lock
          client,   \* the operation each client is at
          running,  \* the client that holds the execution lock
          ops, faults

fileVars == <<pad, history, done, records>>
vars == <<fileVars, lock, client, running, ops, faults, procVars>>

File == {"pad", "progress", "browser"}
FileOf == [save |-> "pad", run |-> "pad", complete |-> "progress", incomplete |-> "progress",
           observe |-> "browser"]
Operation == DOMAIN FileOf

Idle == [op |-> "none", pc |-> "idle", text |-> None, lesson |-> None, at |-> 0, seen |-> {}]

\* Every variable has its type.
TypeOK ==
    /\ ProcTypeOK
    /\ pad \in Text \cup {None}
    /\ history \in [Text -> {"absent", "partial", "whole"}]
    /\ done \subseteq Lesson
    /\ records \subseteq 1 .. MaxOps
    /\ lock \in [File -> Client \cup {None}]
    /\ running \in Client \cup {None}
    /\ client \in [Client -> [op: Operation \cup {"none"},
           pc: {"idle", "want", "locked", "backup", "write", "prune", "snapshot", "execute", "watch", "receipt"},
           text: Text \cup {None}, lesson: Lesson \cup {None}, at: 0 .. MaxOps,
           seen: SUBSET (Lesson \cup 1 .. MaxOps)]]
    /\ ops \in 0 .. MaxOps /\ faults \in 0 .. MaxFaults

Init ==
    /\ pad = None /\ history = [t \in Text |-> "absent"]
    /\ done = {} /\ records = {}
    /\ lock = [f \in File |-> None]
    /\ client = [c \in Client |-> Idle]
    /\ running = None
    /\ ops = 0 /\ faults = 0
    /\ ProcInit

-----------------------------------------------------------------------------
(* A client and its locks.                                                 *)

At(c, op, pc) == client[c].op \in op /\ client[c].pc = pc
Step(c, pc) == client' = [client EXCEPT ![c].pc = pc]
Ends(c) == client' = [client EXCEPT ![c] = Idle]
Releases(c) == lock' = [f \in File |-> IF lock[f] = c THEN None ELSE lock[f]]
StopsRunning(c) == running' = IF running = c THEN None ELSE running
\* The operation is over, with or without an error: its finally clauses release.
Finishes(c) == Ends(c) /\ Releases(c) /\ StopsRunning(c)

\* A request arrives. A second run is refused while one holds the execution lock.
Begin(c, op) ==
    /\ client[c].pc = "idle" /\ ops < MaxOps
    /\ \E t \in Text, l \in Lesson :
        client' = [client EXCEPT ![c] =
            [Idle EXCEPT !.op = op, !.pc = "want",
                         !.at = IF op = "observe" THEN ops + 1 ELSE 0,
                         !.text = IF FileOf[op] = "pad" THEN t ELSE None,
                         !.lesson = IF FileOf[op] = "progress" THEN l ELSE None]]
    /\ IF op = "run" THEN running = None /\ running' = c ELSE UNCHANGED running
    /\ ops' = ops + 1
    /\ UNCHANGED <<fileVars, lock, faults, procVars>>

\* locked_update
Acquire(c) ==
    /\ client[c].pc = "want" /\ lock[FileOf[client[c].op]] = None
    /\ lock' = [lock EXCEPT ![FileOf[client[c].op]] = c]
    /\ Step(c, "locked")
    /\ UNCHANGED <<fileVars, running, ops, faults, procVars>>

-----------------------------------------------------------------------------
(* Saving the pad.                                                         *)

\* How the history holds the text that client c is about to replace.
Backup(c) == IF pad \in {None, client[c].text} THEN "unneeded" ELSE history[pad]

\* Mutant: a backup that is found is not compared with the text it is to keep.
BackUpTrusting(c) ==
    /\ At(c, {"save", "run"}, "locked")
    /\ IF Backup(c) = "absent"
       THEN Step(c, "backup") /\ history' = [history EXCEPT ![pad] = "partial"]
       ELSE Step(c, "write") /\ UNCHANGED history
    /\ UNCHANGED <<pad, done, records, lock, running, ops, faults, procVars>>

\* The text to be replaced goes to the history, written in place under its digest; a
\* backup that is there already must hold that text, or the save is refused.
BackUp(c) ==
    /\ At(c, {"save", "run"}, "locked")
    /\ \/ /\ Backup(c) \in {"unneeded", "whole"}
          /\ Step(c, "write") /\ UNCHANGED <<history, lock, running>>
       \/ /\ Backup(c) = "absent"
          /\ history' = [history EXCEPT ![pad] = "partial"]
          /\ Step(c, "backup") /\ UNCHANGED <<lock, running>>
       \/ /\ Backup(c) = "partial"
          /\ Finishes(c) /\ UNCHANGED history
    /\ UNCHANGED <<pad, done, records, ops, faults, procVars>>

FinishBackUp(c) ==
    /\ At(c, {"save", "run"}, "backup")
    /\ history' = [history EXCEPT ![pad] = "whole"]
    /\ Step(c, "write")
    /\ UNCHANGED <<pad, done, records, lock, running, ops, faults, procVars>>

\* A synced temporary file replaces practice.py. A run goes on to execute.
Replace(c) ==
    /\ At(c, {"save", "run"}, "write")
    /\ pad' = client[c].text
    /\ Releases(c)
    /\ IF client[c].op = "run" THEN Step(c, "snapshot") ELSE Ends(c)
    /\ UNCHANGED <<history, done, records, running, ops, faults, procVars>>

-----------------------------------------------------------------------------
(* The progress file: read, change, replace.                               *)

\* Mutant: the file is read before its lock is held.
ReadProgressUnlocked(c) ==
    /\ client[c].pc \in {"want", "locked"} /\ client[c].op \in {"complete", "incomplete"}
    /\ client' = [client EXCEPT ![c].pc = "write", ![c].seen = done]
    /\ UNCHANGED <<fileVars, lock, running, ops, faults, procVars>>

ReadProgress(c) ==
    /\ At(c, {"complete", "incomplete"}, "locked")
    /\ client' = [client EXCEPT ![c].pc = "write", ![c].seen = done]
    /\ UNCHANGED <<fileVars, lock, running, ops, faults, procVars>>

WriteProgress(c) ==
    /\ At(c, {"complete", "incomplete"}, "write")
    /\ done' = IF client[c].op = "complete" THEN client[c].seen \cup {client[c].lesson}
                                             ELSE client[c].seen \ {client[c].lesson}
    /\ Finishes(c)
    /\ UNCHANGED <<pad, history, records, ops, faults, procVars>>

-----------------------------------------------------------------------------
(* Observations made in the browser, stamped before the lock is asked for. *)

Newer(r, in) == {s \in in : s > r}

ListRecords(c) ==
    /\ At(c, {"observe"}, "locked")
    /\ client' = [client EXCEPT ![c].pc = "write", ![c].seen = records]
    /\ UNCHANGED <<fileVars, lock, running, ops, faults, procVars>>

\* Mutant: the directory is listed after the new record was written.
WriteRecordAndList(c) ==
    /\ At(c, {"observe"}, "write")
    /\ records' = records \cup {client[c].at}
    /\ client' = [client EXCEPT ![c].pc = "prune", ![c].seen = {client[c].at} \cup records]
    /\ UNCHANGED <<pad, history, done, lock, running, ops, faults, procVars>>

\* The earlier records beyond Limit - 1 are to go, the newest of them first.
WriteRecord(c) ==
    /\ At(c, {"observe"}, "write")
    /\ records' = records \cup {client[c].at}
    /\ client' = [client EXCEPT ![c].pc = "prune"]
    /\ UNCHANGED <<pad, history, done, lock, running, ops, faults, procVars>>

Surplus(c) == {r \in client[c].seen : Cardinality(Newer(r, client[c].seen)) >= Limit - 1}

Prune(c) ==
    /\ At(c, {"observe"}, "prune")
    /\ LET left == Surplus(c) \cap records IN
       IF left = {} THEN Finishes(c) /\ UNCHANGED records
       ELSE /\ \E r \in left : Newer(r, left) = {} /\ records' = records \ {r}
            /\ UNCHANGED <<client, lock, running>>
    /\ UNCHANGED <<pad, history, done, ops, faults, procVars>>

-----------------------------------------------------------------------------
(* A run of the pad.                                                       *)

\* The submitted text goes to a file of its own, which the process executes whoever
\* saves the pad meanwhile.
Snapshot(c) ==
    /\ At(c, {"run"}, "snapshot")
    /\ Step(c, "execute")
    /\ UNCHANGED <<fileVars, lock, running, ops, faults, procVars>>

Execute(c) ==
    /\ At(c, {"run"}, "execute") /\ StartProcess
    /\ Step(c, "watch")
    /\ UNCHANGED <<fileVars, lock, running, ops, faults>>

Executed(c) ==
    /\ At(c, {"run"}, "watch")
    /\ IF phase = "raised" THEN Finishes(c) ELSE Step(c, "receipt") /\ UNCHANGED <<lock, running>>
    /\ Forget
    /\ UNCHANGED <<fileVars, ops, faults>>

\* The run receipt goes to a new file of its own.
Record(c) ==
    /\ At(c, {"run"}, "receipt")
    /\ Finishes(c)
    /\ UNCHANGED <<fileVars, ops, faults, procVars>>

-----------------------------------------------------------------------------
(* Faults.                                                                 *)

Fault == faults < MaxFaults /\ faults' = faults + 1

\* The disk is full. A backup that was begun stays as it is; the other files are
\* written aside, so nothing is seen of them.
WriteFails(c) ==
    /\ client[c].pc \in {"backup", "write", "snapshot", "receipt"} /\ Fault
    /\ Finishes(c)
    /\ UNCHANGED <<fileVars, ops, procVars>>

\* An app dies with the threads that serve its requests: the locks are free again, and
\* a process it had started goes on without it and is not followed.
Crash ==
    /\ Fault
    /\ \E dead \in SUBSET {c \in Client : client[c].pc # "idle"} :
        /\ dead # {}
        /\ client' = [c \in Client |-> IF c \in dead THEN Idle ELSE client[c]]
        /\ lock' = [f \in File |-> IF lock[f] \in dead THEN None ELSE lock[f]]
        /\ running' = IF running \in dead THEN None ELSE running
        /\ IF running \in dead THEN Clear ELSE UNCHANGED procVars
    /\ UNCHANGED <<fileVars, ops>>

-----------------------------------------------------------------------------
ClientStep(c) ==
    \/ Acquire(c) \/ BackUp(c) \/ FinishBackUp(c) \/ Replace(c)
    \/ ReadProgress(c) \/ WriteProgress(c) \/ ListRecords(c) \/ WriteRecord(c) \/ Prune(c)
    \/ Snapshot(c) \/ Execute(c) \/ Executed(c) \/ Record(c)

\* The process runs beside the app. A worker's jobs come one after the other and touch
\* none of these files.
Process(step) == step /\ UNCHANGED <<fileVars, lock, client, running, ops, faults>>
WorkerJob == runner = "worker" /\ Process(StartProcess \/ Forget)

Next ==
    \/ runner # "worker" /\ \/ \E c \in Client : ClientStep(c) \/ WriteFails(c)
                            \/ \E c \in Client, op \in Operation : Begin(c, op)
                            \/ Crash
    \/ Process(OwnerStep) \/ Process(ChildStep)
    \/ WorkerJob

Spec == Init /\ [][Next]_vars

\* Threads and processes are scheduled, and time passes: as operations are finitely
\* many, that some client goes on is enough for each. The child and its descendants
\* need not ever end, nor close the pipe.
FairSpec ==
    /\ Spec
    /\ WF_vars(\E c \in Client : ClientStep(c))
    /\ WF_vars(Process(OwnerStep)) /\ WF_vars(Process(TimePasses))

-----------------------------------------------------------------------------
(* Properties.                                                             *)

\* No text a learner saved is lost by a later save, whoever crashed in between: the one
\* that is replaced is whole in the history, and what is whole there stays.
SavedTextIsKept ==
    [][/\ pad' # pad /\ pad # None => history[pad] = "whole"
       /\ \A t \in Text : history[t] = "whole" => history'[t] = "whole"]_vars

\* What a docstring says of the history: it lists content-addressed backups. A backup
\* that nobody is writing holds the text of its digest.
BackupsAreWhole == \A t \in Text : history[t] = "partial" => lock["pad"] # None

\* No update of the progress file undoes another's, from whatever process: a step
\* changes its own lesson only.
UpdatesAreKept == [][\E l \in Lesson : done' \in {done \cup {l}, done \ {l}}]_done

\* An observation is pruned only when Limit - 1 newer ones remain beside the one that
\* is being saved, which may itself be older: late and crashed saves included.
PrunesOldest ==
    [][\A r \in records \ records' :
          \E c \in Client : At(c, {"observe"}, "prune")
              /\ Cardinality(Newer(r, records' \ {client[c].at})) >= Limit - 1]_vars

\* A run is reported and frees the execution lock, and a worker's process is reported,
\* whatever the child, its descendants and their pipe do.
Busy == running # None \/ phase \in {"poll", "check", "kill", "sweep", "join", "joined"}
RunEnds == Busy ~> ~Busy

-----------------------------------------------------------------------------
(* What the files promise (LearnerFiles), and how they keep it.            *)

Recoverable == {t \in Text : history[t] = "whole"}
\* The request of a client that has not changed its file yet.
Asked == [c \in Client |->
    IF client[c].pc \in {"want", "locked", "backup", "write"}
    THEN [op |-> client[c].op, text |-> client[c].text, lesson |-> client[c].lesson,
          at |-> client[c].at]
    ELSE [op |-> "none", text |-> None, lesson |-> None, at |-> 0]]

Learner == INSTANCE LearnerFiles
  WITH Stamp <- 1 .. MaxOps, kept <- Recoverable, asked <- Asked

\* Every request changes the learner's files once and at once, or not at all, whoever else
\* writes to them and dies in between: no reader of the pad, of its history, of the
\* progress or of the observations can tell the app from one that does all in one step.
FilesAreAtomic == Learner!FilesSpec
=============================================================================
