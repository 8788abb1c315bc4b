---------------------------- MODULE SerialService ----------------------------
(***************************************************************************)
(* What the queue promises its callers, with no threads, locks or wakeups: *)
(* one track at a time, first come first served, a bounded line, a job     *)
(* called off only because somebody asked or the service is closing, and   *)
(* a model that changes between tracks and never under one.                *)
(***************************************************************************)
EXTENDS Naturals, Sequences, SequencesExt

CONSTANTS Jobs, Models, MaxDepth, FirstModel, Nobody

VARIABLES
  line,       \* the jobs waiting, first in line first
  serving,    \* the job being separated, or Nobody
  outcome,    \* how each job ended, "none" until it has
  calledOff,  \* the jobs somebody asked to stop
  loaded,     \* the model tracks are separated with
  closing     \* nothing is begun any more

vars == <<line, serving, outcome, calledOff, loaded, closing>>

Outcomes == {"none", "done", "failed", "cancelled"}

Init ==
  /\ line = <<>>
  /\ serving = Nobody
  /\ outcome = [j \in Jobs |-> "none"]
  /\ calledOff = {}
  /\ loaded = FirstModel
  /\ closing = FALSE

Accept(j) ==
  /\ Len(line) < MaxDepth
  /\ outcome[j] = "none"
  /\ serving # j
  /\ \A k \in DOMAIN line : line[k] # j
  /\ line' = Append(line, j)
  /\ UNCHANGED <<serving, outcome, calledOff, loaded, closing>>

\* A job asked to stop leaves the line if it is there.
CallOff(j) ==
  /\ calledOff' = calledOff \cup {j}
  /\ IF \E k \in DOMAIN line : line[k] = j
     THEN \E k \in DOMAIN line : line[k] = j /\ line' = RemoveAt(line, k)
     ELSE line' = line
  /\ UNCHANGED <<serving, outcome, loaded, closing>>

Begin ==
  /\ serving = Nobody
  /\ ~closing
  /\ line # <<>>
  /\ serving' = Head(line)
  /\ line' = Tail(line)
  /\ UNCHANGED <<outcome, calledOff, loaded, closing>>

End(how) ==
  /\ serving # Nobody
  /\ how = "cancelled" => closing \/ serving \in calledOff
  /\ outcome' = [outcome EXCEPT ![serving] = how]
  /\ serving' = Nobody
  /\ UNCHANGED <<line, calledOff, loaded, closing>>

Switch(m) ==
  /\ serving = Nobody
  /\ loaded' = m
  /\ UNCHANGED <<line, serving, outcome, calledOff, closing>>

\* A job that is not with the service may end without it.
Elsewhere(j, how) ==
  /\ outcome[j] = "none"
  /\ serving # j
  /\ \A k \in DOMAIN line : line[k] # j
  /\ outcome' = [outcome EXCEPT ![j] = how]
  /\ UNCHANGED <<line, serving, calledOff, loaded, closing>>

Close ==
  /\ closing' = TRUE
  /\ UNCHANGED <<line, serving, outcome, calledOff, loaded>>

Next ==
  \/ Begin
  \/ Close
  \/ \E j \in Jobs : \/ Accept(j) \/ CallOff(j)
                      \/ Elsewhere(j, "done") \/ Elsewhere(j, "failed")
  \/ \E how \in Outcomes \ {"none"} : End(how)
  \/ \E m \in Models : Switch(m)

Spec == Init /\ [][Next]_vars
=============================================================================
