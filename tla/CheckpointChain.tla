-------------------------- MODULE CheckpointChain --------------------------
(***************************************************************************)
(* What the checkpoints of a training run promise whoever continues from   *)
(* them, whatever ranks, stages, drivers and hosts fail in between: every  *)
(* checkpoint that can be found was written whole, one epoch after its     *)
(* parent, and its parents lead without a gap to the start, or to what its *)
(* attempt continued from.  What is written whole stays, and so does a     *)
(* checkpoint once its publication is durable; before, a loss of power may *)
(* take the publication back.                                              *)
(***************************************************************************)
EXTENDS Integers

CONSTANTS Attempt,     \* numbers of attempts, from 1
          Checkpoint,  \* <<attempt, epoch>>
          LastEpoch,
          Root         \* <<0, -1>>, what a fresh attempt continues from

VARIABLES
  attempts,  \* how many attempts were started
  source,    \* source[a]: what attempt a continues from
  written,   \* checkpoints that are whole on the disk
  found,     \* published: a reader finds and accepts them
  durable,   \* those no loss of power takes back
  parent,    \* parent[c]: what a published checkpoint names as its parent
  verdict    \* verdict[a]: what the result of attempt a says

cvars == <<attempts, source, written, found, durable, parent, verdict>>

ChainInit ==
  /\ attempts = 0
  /\ source = [a \in Attempt |-> Root]
  /\ written = {} /\ found = {} /\ durable = {}
  /\ parent = [c \in Checkpoint |-> Root]
  /\ verdict = [a \in Attempt |-> "none"]

\* The first checkpoint of an attempt follows its source, any other the one before.
Predecessor(c) ==
  IF c[2] = source[c[1]][2] + 1 THEN source[c[1]] ELSE <<c[1], c[2] - 1>>

\* The source of an attempt was found when it started, and is still whole.
Continues(c) ==
  /\ c[1] <= attempts
  /\ source[c[1]][2] < c[2]
  /\ IF Predecessor(c) = source[c[1]] THEN Predecessor(c) \in written \cup {Root}
                                      ELSE Predecessor(c) \in durable

Start(c) ==
  /\ attempts + 1 \in Attempt
  /\ c = Root \/ (c \in found /\ c[2] < LastEpoch)
  /\ attempts' = attempts + 1
  /\ source' = [source EXCEPT ![attempts + 1] = c]
  /\ UNCHANGED <<written, found, durable, parent, verdict>>

Write(c) ==
  /\ c \notin written
  /\ Continues(c)
  /\ written' = written \cup {c}
  /\ UNCHANGED <<attempts, source, found, durable, parent, verdict>>

Publish(c) ==
  /\ c \in written \ found
  /\ Continues(c)
  /\ found' = found \cup {c}
  /\ parent' = [parent EXCEPT ![c] = Predecessor(c)]
  /\ UNCHANGED <<attempts, source, written, durable, verdict>>

Harden(c) ==
  /\ c \in found
  /\ durable' = durable \cup {c}
  /\ UNCHANGED <<attempts, source, written, found, parent, verdict>>

Lose(lost) ==
  /\ found' = found \ lost
  /\ parent' = [c \in Checkpoint |-> IF c \in lost THEN Root ELSE parent[c]]
  /\ UNCHANGED <<attempts, source, written, durable, verdict>>

\* Only the newest attempt has its result written, once.
Conclude(says) ==
  /\ attempts \in Attempt /\ verdict[attempts] = "none"
  /\ says = "completed" => <<attempts, LastEpoch>> \in durable
  /\ verdict' = [verdict EXCEPT ![attempts] = says]
  /\ UNCHANGED <<attempts, source, written, found, durable, parent>>

ChainNext ==
  \/ \E lost \in SUBSET (found \ durable) : Lose(lost)
  \/ \E c \in Checkpoint \cup {Root} : Start(c)
  \/ \E c \in Checkpoint : Write(c) \/ Publish(c) \/ Harden(c)
  \/ \E says \in {"completed", "failed"} : Conclude(says)

ChainSpec == ChainInit /\ [][ChainNext]_cvars
=============================================================================
