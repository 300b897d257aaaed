---------------------------- MODULE OwnedObjects ----------------------------
(***************************************************************************)
(* What one-shot runs promise to everybody who shares their cluster: a run *)
(* makes objects under free names only, deletes none but its own, however  *)
(* names change hands meanwhile, and is said to have succeeded when it has *)
(* made all its documents itself and nothing of it is left or to come.     *)
(* Runs die, requests are lost or take effect late, and others interfere.  *)
(***************************************************************************)
EXTENDS Naturals

CONSTANTS Target, \* names of objects
          Needed  \* the names that a run that succeeds has made

VARIABLES
  owner,  \* owner[t]: the run that made the object under t, {} without one, {0} for others
  going,  \* the names whose object was asked to go
  sent,   \* requests to create that outlived their client
  run, live,
  made,   \* the names the run knows it has made
  result  \* of the run that ended last

ovars == <<owner, going, sent, run, live, made, result>>
clusterVars == <<owner, going, sent>>
runVars == <<run, live, made, result>>

OwnedInit ==
  /\ owner = [t \in Target |-> {}] /\ going = {} /\ sent = {}
  /\ run = 0 /\ live = FALSE /\ made = {} /\ result = "none"

Start ==
  /\ ~live
  /\ run' = run + 1 /\ live' = TRUE /\ made' = {} /\ result' = "none"
  /\ UNCHANGED clusterVars

Makes(t, n) == owner[t] = {} /\ owner' = [owner EXCEPT ![t] = {n}]

\* The answer may be lost, and the run find out later.
Create(t) ==
  /\ live
  /\ Makes(t, run)
  /\ made' \in {made, made \cup {t}}
  /\ UNCHANGED <<going, sent, run, live, result>>

Find(t) ==
  /\ live
  /\ owner[t] = {run}
  /\ made' = made \cup {t}
  /\ UNCHANGED <<clusterVars, run, live, result>>

Abandon(t) ==
  /\ live
  /\ sent' = sent \cup {<<t, run>>}
  /\ UNCHANGED <<owner, going, runVars>>

Arrive(request) ==
  /\ sent' = sent \ {request}
  /\ Makes(request[1], request[2]) \/ UNCHANGED owner
  /\ UNCHANGED <<going, runVars>>

Delete(t) ==
  /\ live
  /\ owner[t] = {run}
  /\ going' = going \cup {t}
  /\ UNCHANGED <<owner, sent, runVars>>

Goes(t) == owner' = [owner EXCEPT ![t] = {}] /\ going' = going \ {t}

Vanish(t) ==
  /\ t \in going
  /\ Goes(t)
  /\ UNCHANGED <<sent, runVars>>

Others(t) ==
  /\ \/ Makes(t, 0) /\ UNCHANGED going
     \/ owner[t] # {} /\ Goes(t)
  /\ UNCHANGED <<sent, runVars>>

End ==
  /\ live /\ ~live'
  /\ result' \in {"succeeded", "failed", "cancelled", "timed_out"}
  /\ result' = "succeeded" =>
       /\ Needed \subseteq made
       /\ \A t \in Target : owner[t] # {run} /\ <<t, run>> \notin sent
  /\ UNCHANGED <<clusterVars, run, made>>

Die ==
  /\ live /\ ~live' /\ result' = "none"
  /\ sent' \in {sent} \cup {sent \cup {<<t, run>>} : t \in Target}
  /\ UNCHANGED <<owner, going, run, made>>

OwnedNext ==
  \/ Start \/ End \/ Die
  \/ \E t \in Target :
       Find(t) \/ Abandon(t) \/ Delete(t) \/ Create(t) \/ Vanish(t) \/ Others(t)
  \/ \E request \in sent : Arrive(request)

OwnedSpec == OwnedInit /\ [][OwnedNext]_ovars
=============================================================================
