---------------------------- MODULE LearnerFiles ----------------------------
(***************************************************************************)
(* What the learner's files promise whoever asks the app to change them:   *)
(* every request takes effect once and at once, on the files as they are   *)
(* then, or not at all, whoever else is served and whoever dies meanwhile. *)
(* No text goes from the pad before it is kept, and an observation only    *)
(* goes when enough newer ones stay.                                       *)
(***************************************************************************)
EXTENDS Naturals, FiniteSets

CONSTANTS Client, Text, Lesson,
          Stamp,  \* times of requests
          Limit,  \* observations kept
          None

VARIABLES
  pad,      \* the text of the practice pad, None before the first
  kept,     \* the earlier texts that can be recovered
  done,     \* the completed lessons
  records,  \* the stamps of the observations
  asked     \* asked[c]: the request of client c that has had no effect yet

fvars == <<pad, kept, done, records, asked>>

Nothing == [op |-> "none", text |-> None, lesson |-> None, at |-> 0]
Request == [op: {"save", "run", "complete", "incomplete", "observe"},
            text: Text \cup {None}, lesson: Lesson \cup {None}, at: Stamp \cup {0}]

FilesInit ==
  /\ pad = None
  /\ kept = {} /\ done = {} /\ records = {}
  /\ asked = [c \in Client |-> Nothing]

Ask(c) ==
  /\ asked[c] = Nothing
  /\ asked' \in [Client -> Request \cup {Nothing}]
  /\ \A d \in Client \ {c} : asked'[d] = asked[d]
  /\ UNCHANGED <<pad, kept, done, records>>

Answers(c, ops) ==
  /\ asked[c].op \in ops
  /\ asked' = [asked EXCEPT ![c] = Nothing]

\* Requests that fail or whose server dies.
GiveUp(clients) ==
  /\ asked' = [c \in Client |-> IF c \in clients THEN Nothing ELSE asked[c]]
  /\ UNCHANGED <<pad, kept, done, records>>

Keep ==
  /\ pad # None
  /\ kept' = kept \cup {pad}
  /\ UNCHANGED <<pad, done, records, asked>>

Save(c) ==
  /\ Answers(c, {"save", "run"})
  /\ pad \in kept \cup {None, asked[c].text}
  /\ pad' = asked[c].text
  /\ UNCHANGED <<kept, done, records>>

Mark(c) ==
  /\ \/ Answers(c, {"complete"}) /\ done' = done \cup {asked[c].lesson}
     \/ Answers(c, {"incomplete"}) /\ done' = done \ {asked[c].lesson}
  /\ UNCHANGED <<pad, kept, records>>

Add(c) ==
  /\ Answers(c, {"observe"})
  /\ asked[c].at \notin records
  /\ records' = records \cup {asked[c].at}
  /\ UNCHANGED <<pad, kept, done>>

Prune(r) ==
  /\ Cardinality({s \in records : s > r}) >= Limit - 1
  /\ records' = records \ {r}
  /\ UNCHANGED <<pad, kept, done, asked>>

FilesNext ==
  \/ \E c \in Client : Save(c) \/ Mark(c) \/ Add(c) \/ Ask(c)
  \/ Keep
  \/ \E r \in records : Prune(r)
  \/ \E clients \in SUBSET Client : GiveUp(clients)

FilesSpec == FilesInit /\ [][FilesNext]_fvars
=============================================================================
