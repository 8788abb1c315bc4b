-------------------------------- MODULE Host --------------------------------
(***************************************************************************)
(* What a launch does while it serves that outlives it, and how it ends:    *)
(* the window's settings, a switch of models, closing the window            *)
(* (ui/quit.rs), shutdown::now with its two callers, and a process that     *)
(* simply dies.                                                             *)
(***************************************************************************)
EXTENDS Boot

Takes(what) == left[what] > 0 /\ left' = [left EXCEPT ![what] = @ - 1]

-----------------------------------------------------------------------------
(* Settings and models *)

Racing(t) == \E u \in Threads \ {t} : writing[u] # None

\* A menu of the window.
PickFromMenu(l, field, value) ==
  /\ Serving(l) /\ ~Args(l).headless /\ ~closing[l]
  /\ Change(l, MainThread(l), field, value)
  /\ Takes("changes")
  /\ raced' = (raced \/ Racing(MainThread(l)))
  /\ UNCHANGED <<fileVars, artefactVars, discoveryVars, processVars, quitVars, failed, committed>>
  /\ Smooth

\* The switch thread stages the artefact ...
SwitchBegins(l, p) ==
  /\ Serving(l) /\ ~Args(l).headless /\ ~closing[l]
  /\ task[SwitchThread(l)] = None /\ writing[SwitchThread(l)] = None
  /\ loaded[l].name # Artefact(p)
  /\ Begin(SwitchThread(l), Artefact(p), "resolve")
  /\ Takes("switches")
  /\ UNCHANGED <<fileVars, settingsVars, discoveryVars, processVars, quitVars, ghostVars>>
  /\ Smooth

\* ... and saves the choice once the worker runs on it.
SwitchLoads(l) ==
  LET t == SwitchThread(l) IN
  /\ Serving(l)
  /\ Builds(l, t)
  /\ Rests(t)
  /\ Change(l, t, "preset", FromArtefact(task[t].name))
  /\ raced' = (raced \/ Racing(t))
  /\ UNCHANGED <<fileVars, discoveryVars, phase, stems, cleared, running, lost, quitVars, left,
                 failed, committed>>
  /\ Smooth

SwitchFails(l) ==
  /\ BuildFails(SwitchThread(l))
  /\ Rests(SwitchThread(l))
  /\ UNCHANGED <<fileVars, settingsVars, discoveryVars, processVars, quitVars, left, ghostVars>>

\* save(), whichever thread it is on.
Saves(t) ==
  /\ SaveStep(t)
  /\ IF At(t, "rename") /\ part[JSON] # None /\ disk'[JSON] # disk[JSON]
     THEN committed' = IntoSettings(writing[t].doc) ELSE UNCHANGED committed
  /\ failed' = (failed \/ (writing'[t] = None /\ part'[JSON] = part[JSON]))
  /\ UNCHANGED raced
  /\ UNCHANGED <<artefactVars, discoveryVars, processVars, quitVars, left>>

JobStarts(l) ==
  /\ Serving(l) /\ running[l] = "no"
  /\ running' = [running EXCEPT ![l] = IF closing[l] THEN "late" ELSE "yes"]
  /\ Takes("jobs")
  /\ UNCHANGED <<fileVars, settingsVars, artefactVars, discoveryVars, ghostVars, quitVars>>
  /\ UNCHANGED <<phase, stems, cleared, loaded, lost>> /\ Smooth

JobEnds(l) ==
  /\ phase[l] = "serving" /\ running[l] # "no"
  /\ running' = [running EXCEPT ![l] = "no"]
  /\ stems' = [stems EXCEPT ![Args(l).cache_dir] = l]
  /\ UNCHANGED <<fileVars, settingsVars, artefactVars, discoveryVars, ghostVars>>
  /\ UNCHANGED <<phase, cleared, loaded, lost>> /\ NoQuit /\ Smooth

-----------------------------------------------------------------------------
(* Closing the window *)

QuitOnly == /\ UNCHANGED <<fileVars, settingsVars, artefactVars, discoveryVars, processVars, ghostVars, left>>
            /\ Smooth

\* intercept(): a running job is asked about until the answer is yes; a close with
\* nothing left to lose goes through, the question still on the screen or not.
Asks(l) == ~agreed[l] /\ running[l] # "no"

CloseRequested(l) ==
  /\ plan.ends
  /\ Serving(l) /\ ~Args(l).headless /\ ~closing[l]
  /\ IF Asks(l) THEN asking' = [asking EXCEPT ![l] = TRUE] /\ UNCHANGED closing
     ELSE closing' = [closing EXCEPT ![l] = TRUE] /\ UNCHANGED asking
  /\ UNCHANGED <<agreed, caller>> /\ QuitOnly

Answer(l, quit) ==
  /\ Serving(l) /\ asking[l]
  /\ asking' = [asking EXCEPT ![l] = FALSE]
  /\ agreed' = [agreed EXCEPT ![l] = quit]
  /\ UNCHANGED <<closing, caller>> /\ QuitOnly

-----------------------------------------------------------------------------
(* shutdown::now *)

Reaches(l, c, from, to) ==
  caller[l][c] = from /\ caller' = [caller EXCEPT ![l][c] = to]

SignalReceived(l) ==
  /\ plan.ends
  /\ phase[l] = "serving"
  /\ Reaches(l, "signal", "none", "called")
  /\ UNCHANGED <<asking, agreed, closing>> /\ QuitOnly

\* The window's thread is in no write by then.
WindowClosed(l) ==
  /\ phase[l] = "serving" /\ closing[l] /\ writing[MainThread(l)] = None
  /\ Reaches(l, "window", "none", "called")
  /\ UNCHANGED <<asking, agreed, closing>> /\ QuitOnly

\* queue.stop(): the separation is cut short, or given up on.
StopWorker(l, c) ==
  /\ phase[l] = "serving"
  /\ Reaches(l, c, "called", "stopped")
  /\ running' = [running EXCEPT ![l] = "no"]
  /\ lost' = [lost EXCEPT ![l] = IF c = "window" /\ running[l] # "no" THEN running[l] ELSE @]
  /\ UNCHANGED <<fileVars, settingsVars, artefactVars, discoveryVars, ghostVars, left,
                 asking, agreed, closing, phase, stems, cleared, loaded>>
  /\ Smooth

\* withdraw(): whoever comes second does not wait for the first.
Withdraw(l, c) ==
  /\ phase[l] = "serving"
  /\ \/ /\ advert[l] = None \/ withdrawn[l]
        /\ Reaches(l, c, "stopped", "withdrawn") /\ UNCHANGED discoveryVars /\ Smooth
     \/ /\ advert[l] # None /\ ~withdrawn[l]
        /\ Reaches(l, c, "stopped", "withdrawing") /\ Swap(l) /\ Smooth
     \/ /\ Reaches(l, c, "withdrawing", "withdrawn")
        /\ \/ WithdrawDone(l) /\ Smooth
           \/ WithdrawPending(l) /\ Smooth
           \/ WithdrawRefused(l) /\ Trouble
  /\ UNCHANGED <<fileVars, settingsVars, artefactVars, processVars, ghostVars, left, asking, agreed, closing>>

ServiceAnswers(n) ==
  /\ ServiceWithdraws(n)
  /\ UNCHANGED <<fileVars, settingsVars, artefactVars, processVars, ghostVars, quitVars, left>>
  /\ Smooth

\* Every thread of it is gone, wherever it was; what is on disk stays.
Dies(l) ==
  /\ phase' = [phase EXCEPT ![l] = "over"]
  /\ running' = [running EXCEPT ![l] = "no"]
  /\ Close(ThreadsOf(l))
  /\ task' = [t \in Threads |-> IF t[1] = l THEN None ELSE task[t]]
  /\ writing' = [t \in Threads |-> IF t[1] = l THEN None ELSE writing[t]]
  /\ failed' = (failed \/ \E t \in ThreadsOf(l) : writing[t] # None)
  /\ Gone(l)
  /\ UNCHANGED <<saved, current, mingled, spilt, unread, stems, cleared, loaded, lost, quitVars, left,
                 raced, committed>>

\* _exit(0), once the advertisement is out of the way.
ExitsAt == "withdrawn"
Exit(l, c) ==
  /\ phase[l] = "serving" /\ caller[l][c] = ExitsAt
  /\ Dies(l) /\ Smooth

Crash(l) == phase[l] \notin {"off", "over"} /\ Dies(l) /\ Trouble

-----------------------------------------------------------------------------
Boots(l) == \/ BindPort(l) \/ ReadSettings(l) \/ OpenStemCache(l) \/ LoadModel(l)
            \/ QueueStarts(l) \/ LoadFails(l) \/ Advertise(l) \/ InstallCuda(l)

Runs(l) ==
  \/ \E r \in plan.rates : PickFromMenu(l, "rate", r)
  \/ \E f \in plan.formats : PickFromMenu(l, "format", f)
  \/ \E p \in plan.presets : SwitchBegins(l, p)
  \/ SwitchLoads(l) \/ SwitchFails(l)
  \/ JobStarts(l) \/ JobEnds(l)

Ends(l) ==
  \/ CloseRequested(l) \/ SignalReceived(l) \/ WindowClosed(l)
  \/ \E quit \in BOOLEAN : Answer(l, quit)
  \/ \E c \in Callers : StopWorker(l, c) \/ Withdraw(l, c) \/ Exit(l, c)
  \/ Crash(l)

Next ==
  /\ \/ \E l \in Launches : Boots(l) \/ Runs(l) \/ Ends(l)
     \/ \E t \in Threads : Fetching(t[1], t) \/ Saves(t)
     \/ \E n \in Names : ServiceAnswers(n)
  /\ UNCHANGED plan

Spec == Init /\ [][Next]_vars
=============================================================================
