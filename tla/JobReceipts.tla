---------------------------- MODULE JobReceipts -----------------------------
(***************************************************************************)
(* What the app promises a learner about submitted jobs, whatever calls,   *)
(* threads and processes fail in between: one unresolved submission at a   *)
(* time, at most one execution of its source, and one final verdict, which *)
(* is the worker's own or is marked as assumed without it.                 *)
(***************************************************************************)
EXTENDS Naturals

CONSTANTS Job, Verdict

VARIABLES
  receipt,   \* "none", "open" or the verdict a learner may rely on
  assumed,   \* the failure was recorded without a result
  ran,       \* executions of the job's source
  outcome    \* how the worker ended the job, "none" before

rvars == <<receipt, assumed, ran, outcome>>

ReceiptsInit ==
  /\ receipt = [j \in Job |-> "none"]
  /\ assumed = [j \in Job |-> FALSE]
  /\ ran = [j \in Job |-> 0]
  /\ outcome = [j \in Job |-> "none"]

Submit(j) ==
  /\ receipt[j] = "none"
  /\ \A k \in Job : receipt[k] # "open"
  /\ receipt' = [receipt EXCEPT ![j] = "open"]
  /\ UNCHANGED <<assumed, ran, outcome>>

Execute(j) ==
  /\ receipt[j] # "none"
  /\ ran[j] = 0
  /\ ran' = [ran EXCEPT ![j] = 1]
  /\ UNCHANGED <<receipt, assumed, outcome>>

\* Only a failure can end a job that was never executed.
End(j, verdict) ==
  /\ receipt[j] # "none"
  /\ outcome[j] = "none"
  /\ verdict = "failed" \/ ran[j] = 1
  /\ outcome' = [outcome EXCEPT ![j] = verdict]
  /\ UNCHANGED <<receipt, assumed, ran>>

\* The controller calls the cancellation its own deadline asked for a timeout.
Record(j, verdict) ==
  /\ receipt[j] = "open"
  /\ verdict = outcome[j] \/ (outcome[j] = "cancelled" /\ verdict = "timed_out")
  /\ verdict \in Verdict
  /\ receipt' = [receipt EXCEPT ![j] = verdict]
  /\ UNCHANGED <<assumed, ran, outcome>>

Assume(j) ==
  /\ receipt[j] = "open"
  /\ receipt' = [receipt EXCEPT ![j] = "failed"]
  /\ assumed' = [assumed EXCEPT ![j] = TRUE]
  /\ UNCHANGED <<ran, outcome>>

ReceiptsNext ==
  \E j \in Job :
    \/ Submit(j)
    \/ Execute(j)
    \/ Assume(j)
    \/ \E verdict \in Verdict : End(j, verdict) \/ Record(j, verdict)

ReceiptsSpec == ReceiptsInit /\ [][ReceiptsNext]_rvars
=============================================================================
