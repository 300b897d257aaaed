----------------------------- MODULE ModuleJobs -----------------------------
(***************************************************************************)
(* The app's job controller (module_jobs.py) composed with the private     *)
(* worker.  Callers are the app's request threads and the thread that      *)
(* closes the app; every receipt may have one monitor thread, named here   *)
(* by its job.  Receipts are files and survive an app restart; pending,    *)
(* active, threads and every thread's position do not.                     *)
(*                                                                         *)
(* A call to the worker is a request in the worker's FIFO accept queue and *)
(* a reply.  Either may be late or lost: the caller then gives up after    *)
(* its socket timeout, and a submission or cancellation it gave up on may  *)
(* still be served later.                                                  *)
(***************************************************************************)
EXTENDS ModuleWorker, Sequences

CONSTANTS
  Caller,      \* request threads of the app's HTTP server
  Closer,      \* the thread that runs close()
  Operation,   \* what request threads ask for besides start
  Nobody,      \* no thread: a free lock, a request nobody waits for
  MaxFaults    \* bound: timeouts, crashes, restarts and refused threads

ASSUME ControllerAssumption ==
  /\ Job \subseteq Nat
  /\ Closer \notin Caller
  /\ (Caller \cup {Closer}) \cap Job = {}
  /\ Nobody \notin Caller \cup {Closer} \cup Job
  /\ Operation \subseteq {"get", "recover", "cancel"}
  /\ MaxFaults \in Nat

VARIABLES
  status,      \* status of each job's durable receipt, "absent" without one
  submittedTo, \* the receipt's worker_instance_id
  recovery,    \* the receipt's recovery type
  pending,     \* ModuleJobs.pending
  active,      \* ModuleJobs.active
  closed,      \* ModuleJobs.closed
  lock,        \* the caller that keeps ModuleJobs.lock over its calls
  pc, target,  \* each caller's position and the job it handles
  op,          \* the operation each caller serves
  todo,        \* close()'s list of outstanding jobs
  monitor,     \* each monitor thread's position, "none" without a thread
  overdue,     \* the monitor has asked for cancellation (cancel_deadline)
  queue,       \* requests the worker has not served yet, oldest first
  reply,       \* the answer waiting for each client
  faults,      \* faults that may still happen
  ran,         \* history: how often the worker's executor took the job
  outcome      \* history: the terminal status the worker gave the job

receiptVars == <<status, submittedTo, recovery>>
reservationVars == <<pending, active>>
callerVars == <<pc, target, op, todo, lock>>
monitorVars == <<monitor, overdue>>
wireVars == <<queue, reply>>
historyVars == <<ran, outcome>>
vars == <<wvars, receiptVars, reservationVars, closed, callerVars, monitorVars,
          wireVars, faults, historyVars>>

Callers == Caller \cup {Closer}
Client == Callers \cup Job

Resolved == {"succeeded", "failed", "cancelled", "timed_out"}
\* queued, preparing, compiling, running or verifying: nothing here tells the
\* phases of an unfinished job apart.
InFlight == "in flight"
Status == Resolved \cup {InFlight, "interrupted", "absent"}

Unresolved(j) == status[j] \in {InFlight, "interrupted"}

-----------------------------------------------------------------------------
(* Requests and replies.                                                   *)

Call == [from : Client \cup {Nobody},
         kind : {"health", "submit", "poll", "cancel", "dropped"},
         job : Job]

\* "none": still waiting.  "lost": timeout, refused or broken connection.
Reply == [code : {"none", "lost", "missing", "rejected"}]
           \cup [code : {"snapshot"}, status : Resolved \cup {InFlight}]
           \cup [code : {"health"}, ready : BOOLEAN, instance : Nat]

NoReply == [code |-> "none"]
Lost == [code |-> "lost"]
Answered(c) == reply[c].code # "none"

\* A worker that is down refuses the connection at once.
Send(c, kind, j) ==
  IF wup
    THEN /\ queue' = Append(queue, [from |-> c, kind |-> kind, job |-> j])
         /\ reply' = [reply EXCEPT ![c] = NoReply]
    ELSE /\ reply' = [reply EXCEPT ![c] = Lost]
         /\ UNCHANGED queue

\* The requests of the clients in C lose their reader.  Only a submission or
\* a cancellation still matters then, if it arrives at all.
Abandon(C, arrives) ==
  [i \in DOMAIN queue |->
     LET m == queue[i]
         matters == arrives /\ m.kind \in {"submit", "cancel"}
     IN IF m.from \notin C THEN m
        ELSE [m EXCEPT !.from = Nobody, !.kind = IF matters THEN @ ELSE "dropped"]]

Deliver(m, answer) ==
  reply' = IF m.from = Nobody THEN reply ELSE [reply EXCEPT ![m.from] = answer]

\* Mutant: the answer's status is stored unchecked.
SnapshotUnchecked(s) == [code |-> "snapshot", status |-> s]

Snapshot(s) ==
  [code |-> "snapshot", status |-> IF s \in WorkerActive THEN InFlight ELSE s]

ServeSubmit(m) ==
  /\ m.kind = "submit"
  /\ \/ SubmitAccepted(m.job) /\ Deliver(m, Snapshot("queued"))
     \/ SubmitThreadRefused(m.job) /\ Deliver(m, Snapshot("failed"))
     \/ ~Admits(m.job) /\ UNCHANGED wvars /\ Deliver(m, [code |-> "rejected"])

\* A submission that the worker's own stop signal interrupts.
ServeStopped(m) ==
  /\ m.kind = "submit"
  /\ faults > 0
  /\ faults' = faults - 1
  /\ SubmitStopped(m.job)
  /\ Deliver(m, Snapshot("queued"))

ServePoll(m) ==
  /\ m.kind = "poll"
  /\ Deliver(m, IF Known(m.job) THEN Snapshot(wstatus[m.job]) ELSE [code |-> "missing"])
  /\ UNCHANGED wvars

ServeCancel(m) ==
  /\ m.kind = "cancel"
  /\ \/ CancelJob(m.job) /\ Deliver(m, Snapshot(wstatus[m.job]))
     \/ ~Known(m.job) /\ UNCHANGED wvars /\ Deliver(m, [code |-> "missing"])

ServeHealth(m) ==
  /\ m.kind = "health"
  /\ Deliver(m, [code |-> "health", ready |-> wready, instance |-> winstance])
  /\ UNCHANGED wvars

ServeNothing(m) == m.kind = "dropped" /\ UNCHANGED <<wvars, reply>>

\* History of what the worker did with each job.
Observe ==
  /\ ran' = [j \in Job |->
       IF wrun[j] = "spawned" /\ wrun'[j] = "executing" THEN ran[j] + 1 ELSE ran[j]]
  /\ outcome' = [j \in Job |->
       IF wstatus[j] \notin WorkerTerminal /\ wstatus'[j] \in WorkerTerminal
         THEN wstatus'[j] ELSE outcome[j]]

-----------------------------------------------------------------------------
(* Receipts and reservations.                                              *)

Smallest(S) == CHOOSE j \in S : \A k \in S : j <= k

FirstOf(S) == IF S = {} THEN NoJob ELSE Smallest(S)

Reserve(j) ==
  /\ pending' = pending \cup {j}
  /\ active' = IF active = NoJob THEN j ELSE active

Release(j) ==
  /\ pending' = pending \ {j}
  /\ active' = IF active = j THEN FirstOf(pending \ {j}) ELSE active

\* Mutant: the last writer wins.
UpdatedAlways(j, s) == s

\* _update: a resolved receipt keeps what it says.
Updated(j, s) == IF status[j] \in Resolved THEN status[j] ELSE s

Update(j, s) ==
  /\ status' = [status EXCEPT ![j] = Updated(j, s)]
  /\ UNCHANGED <<submittedTo, recovery>>

UpdateRecovered(j, type) ==
  /\ status' = [status EXCEPT ![j] = Updated(j, "failed")]
  /\ recovery' = [recovery EXCEPT ![j] = IF status[j] \in Resolved THEN @ ELSE type]
  /\ UNCHANGED submittedTo

LockFree(c) == lock \in {Nobody, c}

\* _monitor, called for a receipt that says s: start the receipt's thread, or
\* record that the thread was refused, unless there is nothing to watch.
Watchable(j, s) == ~closed /\ s \notin Resolved /\ monitor[j] = "none"

Watch(j, s) ==
  /\ UNCHANGED <<submittedTo, recovery>>
  /\ \/ /\ Watchable(j, s)
        /\ monitor' = [monitor EXCEPT ![j] = "begin"]
        /\ status' = [status EXCEPT ![j] = s]
        /\ UNCHANGED <<overdue, faults>>
     \/ /\ Watchable(j, s)
        /\ faults > 0
        /\ faults' = faults - 1
        /\ status' = [status EXCEPT ![j] = "interrupted"]
        /\ UNCHANGED monitorVars
     \/ /\ ~Watchable(j, s)
        /\ status' = [status EXCEPT ![j] = s]
        /\ UNCHANGED <<monitorVars, faults>>

-----------------------------------------------------------------------------
(* start: the caller keeps the lock over both calls.                       *)

Goto(c, label) == pc' = [pc EXCEPT ![c] = label]

\* A caller that returns to its client; close() goes on with its list.
Return(c) ==
  /\ pc' = [pc EXCEPT ![c] = IF c = Closer THEN "next" ELSE "idle"]
  /\ op' = [op EXCEPT ![c] = "none"]
  /\ target' = [target EXCEPT ![c] = NoJob]
  /\ todo' = IF c = Closer THEN todo \ {target[c]} ELSE todo

\* The refusals and the repeated request ID of start change no state.
StartBegin(c, j) ==
  /\ pc[c] = "idle"
  /\ lock = Nobody
  /\ ~closed
  /\ status[j] = "absent"
  /\ pending = {}
  /\ lock' = c
  /\ Goto(c, "readying")
  /\ op' = [op EXCEPT ![c] = "start"]
  /\ target' = [target EXCEPT ![c] = j]
  /\ Send(c, "health", j)
  /\ UNCHANGED <<wvars, receiptVars, reservationVars, closed, todo, monitorVars,
                 faults, historyVars>>

Ready(c) == reply[c].code = "health" /\ reply[c].ready

StartUnavailable(c) ==
  /\ pc[c] = "readying"
  /\ Answered(c)
  /\ ~Ready(c)
  /\ lock' = Nobody
  /\ Return(c)
  /\ reply' = [reply EXCEPT ![c] = NoReply]
  /\ UNCHANGED <<wvars, receiptVars, reservationVars, closed, monitorVars, queue,
                 faults, historyVars>>

StartSubmit(c) ==
  LET j == target[c]
  IN /\ pc[c] = "readying"
     /\ Answered(c)
     /\ Ready(c)
     /\ status' = [status EXCEPT ![j] = InFlight]
     /\ submittedTo' = [submittedTo EXCEPT ![j] = reply[c].instance]
     /\ Reserve(j)
     /\ Goto(c, "submitting")
     /\ Send(c, "submit", j)
     /\ UNCHANGED <<wvars, recovery, closed, op, target, todo, lock, monitorVars,
                    faults, historyVars>>

\* Mutant: a submission without an answer is sent again.
StartFinishRetries(c) ==
  LET j == target[c]
      s == Updated(j, IF reply[c].code = "snapshot" THEN reply[c].status ELSE "interrupted")
  IN /\ pc[c] = "submitting"
     /\ Answered(c)
     /\ IF reply[c] = Lost
          THEN /\ Send(c, "submit", j)
               /\ UNCHANGED <<wvars, receiptVars, reservationVars, closed, callerVars,
                              monitorVars, faults, historyVars>>
          ELSE /\ Watch(j, s)
               /\ IF s \in Resolved /\ ~closed THEN Release(j) ELSE UNCHANGED reservationVars
               /\ lock' = Nobody
               /\ Return(c)
               /\ reply' = [reply EXCEPT ![c] = NoReply]
               /\ UNCHANGED <<wvars, closed, queue, historyVars>>

\* Mutant: a submission without an answer counts as a failure.
StartFinishFails(c) ==
  LET j == target[c]
      s == Updated(j, IF reply[c].code = "snapshot" THEN reply[c].status ELSE "failed")
  IN /\ pc[c] = "submitting"
     /\ Answered(c)
     /\ Watch(j, s)
     /\ IF s \in Resolved /\ ~closed THEN Release(j) ELSE UNCHANGED reservationVars
     /\ lock' = Nobody
     /\ Return(c)
     /\ reply' = [reply EXCEPT ![c] = NoReply]
     /\ UNCHANGED <<wvars, closed, queue, historyVars>>

StartFinish(c) ==
  LET j == target[c]
      s == Updated(j, IF reply[c].code = "snapshot" THEN reply[c].status ELSE "interrupted")
  IN /\ pc[c] = "submitting"
     /\ Answered(c)
     /\ Watch(j, s)
     /\ IF s \in Resolved /\ ~closed THEN Release(j) ELSE UNCHANGED reservationVars
     /\ lock' = Nobody
     /\ Return(c)
     /\ reply' = [reply EXCEPT ![c] = NoReply]
     /\ UNCHANGED <<wvars, closed, queue, historyVars>>

-----------------------------------------------------------------------------
(* get, recover and cancel; close() runs cancel for every outstanding job. *)

\* Mutant: an interrupted receipt is not polled again.
GetReadOnly(c, j, o) ==
  /\ Goto(c, "settling")
  /\ op' = [op EXCEPT ![c] = o]
  /\ target' = [target EXCEPT ![c] = j]

GetRead(c, j, o) ==
  /\ pc' = [pc EXCEPT ![c] = IF status[j] = "interrupted" THEN "reserving" ELSE "settling"]
  /\ op' = [op EXCEPT ![c] = o]
  /\ target' = [target EXCEPT ![c] = j]

GetBegin(c, j, o) ==
  /\ pc[c] = "idle"
  /\ c # Closer
  /\ status[j] # "absent"
  /\ GetRead(c, j, o)
  /\ UNCHANGED <<wvars, receiptVars, reservationVars, closed, todo, lock, monitorVars,
                 wireVars, faults, historyVars>>

GetReserve(c) ==
  /\ pc[c] = "reserving"
  /\ LockFree(c)
  /\ Reserve(target[c])
  /\ Goto(c, "polling")
  /\ Send(c, "poll", target[c])
  /\ UNCHANGED <<wvars, receiptVars, closed, op, target, todo, lock, monitorVars,
                 faults, historyVars>>

GetSnapshot(c) ==
  /\ pc[c] = "polling"
  /\ reply[c].code = "snapshot"
  /\ LockFree(c)
  /\ Update(target[c], reply[c].status)
  /\ Goto(c, "settling")
  /\ reply' = [reply EXCEPT ![c] = NoReply]
  /\ UNCHANGED <<wvars, reservationVars, closed, op, target, todo, lock, monitorVars,
                 queue, faults, historyVars>>

\* Only "unknown job" asks whether the worker was replaced.
AsksForReplacement(c) == reply[c].code = "missing" /\ Profile # "k8s-kind"

GetMissing(c) ==
  /\ pc[c] = "polling"
  /\ AsksForReplacement(c)
  /\ Goto(c, "checking")
  /\ Send(c, "health", target[c])
  /\ UNCHANGED <<wvars, receiptVars, reservationVars, closed, op, target, todo, lock,
                 monitorVars, faults, historyVars>>

GetUnavailable(c) ==
  /\ pc[c] = "polling"
  /\ Answered(c)
  /\ reply[c].code # "snapshot"
  /\ ~AsksForReplacement(c)
  /\ Goto(c, "settling")
  /\ reply' = [reply EXCEPT ![c] = NoReply]
  /\ UNCHANGED <<wvars, receiptVars, reservationVars, closed, op, target, todo, lock,
                 monitorVars, queue, faults, historyVars>>

\* A ready worker with another identity than the one submitted to.
Replaced(c) == Ready(c) /\ reply[c].instance # submittedTo[target[c]]

GetChecked(c) ==
  /\ pc[c] = "checking"
  /\ Answered(c)
  /\ LockFree(c)
  /\ IF Replaced(c) THEN UpdateRecovered(target[c], "replaced") ELSE UNCHANGED receiptVars
  /\ Goto(c, "settling")
  /\ reply' = [reply EXCEPT ![c] = NoReply]
  /\ UNCHANGED <<wvars, reservationVars, closed, op, target, todo, lock, monitorVars,
                 queue, faults, historyVars>>

\* The end of get reconciles the reservation with the receipt it returns.
Settle(j) ==
  \/ /\ status[j] \in Resolved
     /\ Release(j)
     /\ UNCHANGED <<receiptVars, monitorVars, faults>>
  \/ /\ Unresolved(j)
     /\ closed
     /\ UNCHANGED <<receiptVars, reservationVars, monitorVars, faults>>
  \/ /\ ~closed
     /\ status[j] = "interrupted"
     /\ Reserve(j)
     /\ UNCHANGED <<receiptVars, monitorVars, faults>>
  \/ /\ ~closed
     /\ status[j] = InFlight
     /\ Reserve(j)
     /\ Watch(j, status[j])

GetSettle(c) ==
  LET j == target[c]
  IN /\ pc[c] = "settling"
     /\ LockFree(c)
     /\ Settle(j)
     /\ \/ /\ op[c] = "get"
           /\ Return(c)
           /\ UNCHANGED wireVars
        \/ /\ op[c] = "recover"
           /\ status'[j] # "interrupted"
           /\ Return(c)
           /\ UNCHANGED wireVars
        \/ /\ op[c] = "recover"
           /\ status'[j] = "interrupted"
           /\ Goto(c, "confirmed")
           /\ UNCHANGED <<op, target, todo, wireVars>>
        \/ /\ op[c] = "cancel"
           /\ status'[j] \in Resolved
           /\ Return(c)
           /\ UNCHANGED wireVars
        \/ /\ op[c] = "cancel"
           /\ status'[j] \notin Resolved
           /\ Goto(c, "cancelling")
           /\ Send(c, "cancel", j)
           /\ UNCHANGED <<op, target, todo>>
     /\ UNCHANGED <<wvars, closed, lock, historyVars>>

\* The operator's confirmation is taken at its word.
RecoverApply(c) ==
  /\ pc[c] = "confirmed"
  /\ LockFree(c)
  /\ UpdateRecovered(target[c], "operator")
  /\ Release(target[c])
  /\ Return(c)
  /\ UNCHANGED <<wvars, closed, lock, monitorVars, wireVars, faults, historyVars>>

\* A failed cancellation is the caller's error; close() records it.
CancelReply(c) ==
  LET j == target[c]
  IN /\ pc[c] = "cancelling"
     /\ Answered(c)
     /\ LockFree(c)
     /\ \/ /\ reply[c].code = "snapshot"
           /\ Update(j, reply[c].status)
        \/ /\ reply[c].code # "snapshot"
           /\ IF c = Closer THEN Update(j, "interrupted") ELSE UNCHANGED receiptVars
     /\ Return(c)
     /\ reply' = [reply EXCEPT ![c] = NoReply]
     /\ UNCHANGED <<wvars, reservationVars, closed, lock, monitorVars, queue, faults,
                    historyVars>>

CloseBegin ==
  /\ pc[Closer] = "idle"
  /\ faults > 0
  /\ faults' = faults - 1
  /\ closed' = TRUE
  /\ Goto(Closer, "listing")
  /\ UNCHANGED <<wvars, receiptVars, reservationVars, op, target, todo, lock,
                 monitorVars, wireVars, historyVars>>

CloseList ==
  /\ pc[Closer] = "listing"
  /\ lock = Nobody
  /\ todo' = pending
  /\ Goto(Closer, "next")
  /\ UNCHANGED <<wvars, receiptVars, reservationVars, closed, op, target, lock,
                 monitorVars, wireVars, faults, historyVars>>

CloseNext(j) ==
  /\ pc[Closer] = "next"
  /\ j \in todo
  /\ GetRead(Closer, j, "cancel")
  /\ UNCHANGED <<wvars, receiptVars, reservationVars, closed, todo, lock, monitorVars,
                 wireVars, faults, historyVars>>

-----------------------------------------------------------------------------
(* poll: the monitor thread of receipt j.                                  *)

\* Where the loop goes once the receipt says s.
Continue(j, s, label) ==
  monitor' = [monitor EXCEPT ![j] = IF s = InFlight THEN label ELSE "exit"]

MonitorBegin(j) ==
  /\ monitor[j] = "begin"
  /\ Continue(j, status[j], "loop")
  /\ overdue' = [overdue EXCEPT ![j] = FALSE]
  /\ UNCHANGED <<wvars, receiptVars, reservationVars, closed, callerVars, wireVars,
                 faults, historyVars>>

MonitorClosed(j) ==
  /\ monitor[j] = "loop"
  /\ closed
  /\ monitor' = [monitor EXCEPT ![j] = "exit"]
  /\ UNCHANGED <<wvars, receiptVars, reservationVars, closed, callerVars, overdue,
                 wireVars, faults, historyVars>>

\* The deadline passed: ask the worker once to cancel.
MonitorCancel(j) ==
  /\ monitor[j] = "loop"
  /\ ~closed
  /\ ~overdue[j]
  /\ monitor' = [monitor EXCEPT ![j] = "cancelling"]
  /\ Send(j, "cancel", j)
  /\ UNCHANGED <<wvars, receiptVars, reservationVars, closed, callerVars, overdue,
                 faults, historyVars>>

MonitorPoll(j) ==
  /\ monitor[j] = "recheck" \/ (monitor[j] = "loop" /\ ~closed)
  /\ monitor' = [monitor EXCEPT ![j] = "polling"]
  /\ Send(j, "poll", j)
  /\ UNCHANGED <<wvars, receiptVars, reservationVars, closed, callerVars, overdue,
                 faults, historyVars>>

\* Nor did the cancellation end the job in time.
MonitorGivesUp(j) ==
  /\ monitor[j] = "recheck" \/ (monitor[j] = "loop" /\ ~closed)
  /\ overdue[j]
  /\ lock = Nobody
  /\ Update(j, "interrupted")
  /\ monitor' = [monitor EXCEPT ![j] = "exit"]
  /\ UNCHANGED <<wvars, reservationVars, closed, callerVars, overdue, wireVars, faults,
                 historyVars>>

\* Mutant: whatever ends after the deadline is a timeout.
TimedOutAlways(s) == IF s \in Resolved THEN "timed_out" ELSE s

\* A cancellation the deadline asked for is a timeout.
TimedOut(s) == IF s = "cancelled" THEN "timed_out" ELSE s

MonitorCancelled(j) ==
  LET s == TimedOut(reply[j].status)
  IN /\ monitor[j] = "cancelling"
     /\ reply[j].code = "snapshot"
     /\ lock = Nobody
     /\ Update(j, s)
     /\ overdue' = [overdue EXCEPT ![j] = TRUE]
     /\ Continue(j, Updated(j, s), "recheck")
     /\ reply' = [reply EXCEPT ![j] = NoReply]
     /\ UNCHANGED <<wvars, reservationVars, closed, callerVars, queue, faults, historyVars>>

MonitorPolled(j) ==
  LET s == IF overdue[j] THEN TimedOut(reply[j].status) ELSE reply[j].status
  IN /\ monitor[j] = "polling"
     /\ reply[j].code = "snapshot"
     /\ lock = Nobody
     /\ Update(j, s)
     /\ Continue(j, Updated(j, s), "loop")
     /\ reply' = [reply EXCEPT ![j] = NoReply]
     /\ UNCHANGED <<wvars, reservationVars, closed, callerVars, overdue, queue, faults,
                    historyVars>>

\* Mutant: the monitor gives up without a word.
MonitorFailsSilently(j) ==
  /\ monitor[j] \in {"polling", "cancelling"}
  /\ Answered(j)
  /\ reply[j].code # "snapshot"
  /\ lock = Nobody
  /\ monitor' = [monitor EXCEPT ![j] = "exit"]
  /\ reply' = [reply EXCEPT ![j] = NoReply]
  /\ UNCHANGED <<wvars, receiptVars, reservationVars, closed, callerVars, overdue, queue,
                 faults, historyVars>>

MonitorFails(j) ==
  /\ monitor[j] \in {"polling", "cancelling"}
  /\ Answered(j)
  /\ reply[j].code # "snapshot"
  /\ lock = Nobody
  /\ Update(j, "interrupted")
  /\ monitor' = [monitor EXCEPT ![j] = "exit"]
  /\ reply' = [reply EXCEPT ![j] = NoReply]
  /\ UNCHANGED <<wvars, reservationVars, closed, callerVars, overdue, queue, faults,
                 historyVars>>

\* Mutant: an interrupted receipt counts as resolved.
MonitorExitReleases(j) ==
  /\ monitor[j] = "exit"
  /\ lock = Nobody
  /\ IF status[j] # InFlight THEN Release(j) ELSE UNCHANGED reservationVars
  /\ monitor' = [monitor EXCEPT ![j] = "none"]
  /\ overdue' = [overdue EXCEPT ![j] = FALSE]
  /\ UNCHANGED <<wvars, receiptVars, closed, callerVars, wireVars, faults, historyVars>>

MonitorExit(j) ==
  /\ monitor[j] = "exit"
  /\ lock = Nobody
  /\ IF status[j] \in Resolved THEN Release(j) ELSE UNCHANGED reservationVars
  /\ monitor' = [monitor EXCEPT ![j] = "none"]
  /\ overdue' = [overdue EXCEPT ![j] = FALSE]
  /\ UNCHANGED <<wvars, receiptVars, closed, callerVars, wireVars, faults, historyVars>>

MonitorStep(j) ==
  \/ MonitorBegin(j) \/ MonitorClosed(j) \/ MonitorCancel(j) \/ MonitorPoll(j)
  \/ MonitorGivesUp(j) \/ MonitorCancelled(j) \/ MonitorPolled(j) \/ MonitorFails(j)
  \/ MonitorExit(j)

-----------------------------------------------------------------------------
(* The wire and the worker process.                                        *)

Serve ==
  /\ Serving
  /\ queue # << >>
  /\ LET m == Head(queue)
     IN \/ /\ \/ ServeSubmit(m) \/ ServePoll(m) \/ ServeCancel(m)
              \/ ServeHealth(m) \/ ServeNothing(m)
           /\ UNCHANGED faults
        \/ ServeStopped(m)
  /\ queue' = Tail(queue)
  /\ Observe
  /\ UNCHANGED <<receiptVars, reservationVars, closed, callerVars, monitorVars>>

Waiting(c) ==
  IF c \in Job
    THEN monitor[c] \in {"polling", "cancelling"}
    ELSE pc[c] \in {"readying", "submitting", "polling", "checking", "cancelling"}

\* The caller's socket timeout, or a reset connection: whether the worker got
\* the request, or will, stays unknown.
CallTimesOut(c) ==
  /\ Waiting(c)
  /\ reply[c] # Lost
  /\ faults > 0
  /\ faults' = faults - 1
  /\ \E arrives \in BOOLEAN : queue' = Abandon({c}, arrives)
  /\ reply' = [reply EXCEPT ![c] = Lost]
  /\ UNCHANGED <<wvars, receiptVars, reservationVars, closed, callerVars, monitorVars,
                 historyVars>>

WorkerRuns(j) ==
  /\ RunStep(j)
  /\ Observe
  /\ UNCHANGED <<receiptVars, reservationVars, closed, callerVars, monitorVars, wireVars,
                 faults>>

WorkerStops ==
  /\ faults > 0
  /\ faults' = faults - 1
  /\ WorkerStopping \/ (~wclosing /\ WorkerClose)
  /\ UNCHANGED <<receiptVars, reservationVars, closed, callerVars, monitorVars, wireVars,
                 historyVars>>

WorkerCloses ==
  /\ wclosing
  /\ WorkerClose
  /\ UNCHANGED <<receiptVars, reservationVars, closed, callerVars, monitorVars, wireVars,
                 faults, historyVars>>

WorkerWatches ==
  /\ WatchStep
  /\ UNCHANGED <<receiptVars, reservationVars, closed, callerVars, monitorVars, wireVars,
                 faults, historyVars>>

\* Every connection the worker has not answered breaks.
Disconnect ==
  /\ queue' = << >>
  /\ reply' = [c \in Client |->
                 IF \E i \in DOMAIN queue : queue[i].from = c THEN Lost ELSE reply[c]]

WorkerExits ==
  /\ WorkerJoined
  /\ Disconnect
  /\ UNCHANGED <<receiptVars, reservationVars, closed, callerVars, monitorVars, faults,
                 historyVars>>

WorkerDies ==
  /\ faults > 0
  /\ faults' = faults - 1
  /\ WorkerCrash
  /\ Disconnect
  /\ UNCHANGED <<receiptVars, reservationVars, closed, callerVars, monitorVars,
                 historyVars>>

WorkerStarts ==
  /\ WorkerBoot
  /\ UNCHANGED <<receiptVars, reservationVars, closed, callerVars, monitorVars, wireVars,
                 faults, historyVars>>

-----------------------------------------------------------------------------
(* The app process.  Its threads and reservations end with it; __init__    *)
(* reserves and watches every receipt without a resolved result.           *)

Reopen(refused) ==
  LET unresolved == {j \in Job : Unresolved(j)}
  IN /\ refused \subseteq unresolved
     /\ pending' = unresolved
     /\ active' = FirstOf(unresolved)
     /\ status' = [j \in Job |-> IF j \in refused THEN "interrupted" ELSE status[j]]
     /\ monitor' = [j \in Job |-> IF j \in unresolved \ refused THEN "begin" ELSE "none"]
     /\ overdue' = [j \in Job |-> FALSE]
     /\ closed' = FALSE
     /\ lock' = Nobody
     /\ pc' = [c \in Callers |-> "idle"]
     /\ op' = [c \in Callers |-> "none"]
     /\ target' = [c \in Callers |-> NoJob]
     /\ todo' = {}
     /\ \E arrives \in BOOLEAN : queue' = Abandon(Client, arrives)
     /\ reply' = [c \in Client |-> NoReply]
     /\ UNCHANGED <<wvars, submittedTo, recovery, historyVars>>

AppCrash ==
  \E refused \in SUBSET Job :
    /\ faults > Cardinality(refused)
    /\ faults' = faults - 1 - Cardinality(refused)
    /\ Reopen(refused)

\* close() is done: the process ends and is launched again.
AppExit ==
  /\ pc[Closer] = "next"
  /\ todo = {}
  /\ UNCHANGED faults
  /\ Reopen({})

-----------------------------------------------------------------------------
Init ==
  /\ WorkerInit
  /\ status = [j \in Job |-> "absent"]
  /\ submittedTo = [j \in Job |-> 0]
  /\ recovery = [j \in Job |-> "none"]
  /\ pending = {}
  /\ active = NoJob
  /\ closed = FALSE
  /\ lock = Nobody
  /\ pc = [c \in Callers |-> "idle"]
  /\ op = [c \in Callers |-> "none"]
  /\ target = [c \in Callers |-> NoJob]
  /\ todo = {}
  /\ monitor = [j \in Job |-> "none"]
  /\ overdue = [j \in Job |-> FALSE]
  /\ queue = << >>
  /\ reply = [c \in Client |-> NoReply]
  /\ faults = MaxFaults
  /\ ran = [j \in Job |-> 0]
  /\ outcome = [j \in Job |-> "none"]

CallerStep(c) ==
  \/ StartUnavailable(c) \/ StartSubmit(c) \/ StartFinish(c)
  \/ GetReserve(c) \/ GetSnapshot(c) \/ GetMissing(c) \/ GetUnavailable(c)
  \/ GetChecked(c) \/ GetSettle(c) \/ RecoverApply(c) \/ CancelReply(c)

Next ==
  \/ \E c \in Caller, j \in Job : StartBegin(c, j)
  \/ \E c \in Caller, j \in Job, o \in Operation : GetBegin(c, j, o)
  \/ \E c \in Callers : CallerStep(c)
  \/ CloseBegin
  \/ CloseList
  \/ \E j \in Job : CloseNext(j)
  \/ \E j \in Job : MonitorStep(j)
  \/ Serve
  \/ \E c \in Client : CallTimesOut(c)
  \/ \E j \in Job : WorkerRuns(j)
  \/ WorkerStops
  \/ WorkerCloses
  \/ WorkerWatches
  \/ WorkerExits
  \/ WorkerDies
  \/ WorkerStarts
  \/ AppCrash
  \/ AppExit

Spec == Init /\ [][Next]_vars

\* Threads that can run do run, the worker serves its queue and its executor
\* returns by its deadline, close() ends the app and it is launched again; and
\* the page, or the learner who reconnects, keeps asking for the saved job.
Fairness ==
  /\ WF_vars(Serve)
  /\ WF_vars(WorkerCloses)
  /\ WF_vars(WorkerExits)
  /\ WF_vars(CloseList)
  /\ WF_vars(\E j \in Job : CloseNext(j))
  /\ WF_vars(AppExit)
  /\ \A c \in Callers : WF_vars(CallerStep(c))
  /\ \A j \in Job :
       /\ WF_vars(MonitorStep(j))
       /\ WF_vars(WorkerRuns(j))
       /\ SF_vars(\E c \in Caller : GetBegin(c, j, "get"))

FairSpec == Spec /\ Fairness

-----------------------------------------------------------------------------
(* Properties.                                                             *)

JobsTypeOK ==
  /\ status \in [Job -> Status]
  /\ submittedTo \in [Job -> Nat]
  /\ recovery \in [Job -> {"none", "replaced", "operator"}]
  /\ pending \subseteq Job
  /\ active \in Job \cup {NoJob}
  /\ closed \in BOOLEAN
  /\ lock \in Caller \cup {Nobody}
  /\ pc \in [Callers -> {"idle", "readying", "submitting", "reserving", "polling",
                         "checking", "settling", "confirmed", "cancelling", "listing",
                         "next"}]
  /\ target \in [Callers -> Job \cup {NoJob}]
  /\ op \in [Callers -> {"none", "start", "get", "recover", "cancel"}]
  /\ todo \subseteq Job
  /\ monitor \in [Job -> {"none", "begin", "loop", "recheck", "polling", "cancelling",
                          "exit"}]
  /\ overdue \in [Job -> BOOLEAN]
  /\ queue \in Seq(Call)
  /\ reply \in [Client -> Reply]
  /\ faults \in 0 .. MaxFaults
  /\ ran \in [Job -> Nat]
  /\ outcome \in [Job -> WorkerTerminal \cup {"none"}]

\* Whatever monitors, reconnections, recoveries and restarts do, a receipt
\* without a resolved result holds its reservation, so start refuses another
\* job; and the job shown as active is one of the reserved ones.
UnresolvedReserved ==
  /\ \A j \in Job : Unresolved(j) => j \in pending
  /\ active = NoJob <=> pending = {}
  /\ active # NoJob => active \in pending

\* Two submissions are never unresolved at once.
OneUnresolved ==
  \A j, k \in Job : Unresolved(j) /\ Unresolved(k) => j = k

\* Source is executed at most once, and never without a durable receipt,
\* across lost answers, app restarts and worker replacements.
NeverReplayed ==
  \A j \in Job : ran[j] <= 1 /\ (ran[j] = 1 => status[j] # "absent")

\* A receipt says what the worker's run of the job came to; a timeout is a
\* cancellation or a timeout of the worker; a failure without a run result is
\* marked as a recovery.
ReceiptTellsTheTruth ==
  \A j \in Job :
    /\ status[j] \in {"succeeded", "cancelled"} => outcome[j] = status[j]
    /\ status[j] = "timed_out" => outcome[j] \in {"timed_out", "cancelled"}
    /\ status[j] = "failed" /\ recovery[j] = "none" => outcome[j] = "failed"

SubmissionQueued(j) == \E i \in DOMAIN queue : queue[i].kind = "submit" /\ queue[i].job = j

\* Unless an operator vouched for the infrastructure, a resolved receipt means
\* that the worker neither runs the job nor will: the next start finds it free.
ResolvedMeansOver ==
  \A j \in Job :
    status[j] \in Resolved /\ recovery[j] # "operator" =>
      ~Executing(j) /\ ~SubmissionQueued(j)

\* A late poll, cancel or recovery never revives or rewrites a resolved receipt.
ResolvedIsFinal ==
  [][\A j \in Job : status[j] \in Resolved =>
       status'[j] = status[j] /\ recovery'[j] = recovery[j]]_vars

\* The app watches every job it believes to be running: while no caller is
\* about to settle the receipt, its monitor thread exists.
RunningIsMonitored ==
  \A j \in Job :
    status[j] = InFlight /\ ~closed /\ (\A c \in Callers : target[c] # j) =>
      monitor[j] # "none"

\* No receipt claims for ever that its job is under way: its run is seen to
\* end, or the receipt is marked interrupted.
NoReceiptRunsForever == \A j \in Job : status[j] = InFlight ~> status[j] # InFlight

\* A result the worker still holds reaches the receipt, however often polls
\* fail in between, as long as somebody reconnects.
ResultReachesReceipt ==
  \A j \in Job :
    (Unresolved(j) /\ wstatus[j] \in WorkerTerminal) ~>
      (status[j] \in Resolved \/ ~Known(j))

\* The controller and the worker together keep what JobReceipts promises.
Receipts ==
  INSTANCE JobReceipts
    WITH Verdict <- Resolved,
         receipt <- [j \in Job |-> IF status[j] = "absent" THEN "none"
                                   ELSE IF Unresolved(j) THEN "open" ELSE status[j]],
         assumed <- [j \in Job |-> recovery[j] # "none"]

KeepsReceiptPromises == Receipts!ReceiptsSpec
=============================================================================
