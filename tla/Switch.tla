------------------------------- MODULE Switch -------------------------------
(***************************************************************************)
(* Changing the model while the server runs (stemd-server/src/switch.rs):   *)
(* the window's request, the thread each request starts, the queue's        *)
(* install() it blocks in, and the identity that keys the stems             *)
(* (api.rs create_job).  An installer of Queue is one such thread.          *)
(***************************************************************************)
EXTENDS Queue

CONSTANTS
  Presets,     \* the presets the window lists
  BootPreset   \* the one the server started on

ASSUME SwitchAssumption ==
  /\ BootPreset \in Presets
  /\ None \notin Presets

VARIABLES
  state,    \* Switcher.state
  current,  \* Switcher.current
  saved,    \* the preset in settings.json
  clicked,  \* the request the window's thread is in, between its two checks
  thread,   \* where each switch thread is
  picked,   \* the preset each was asked for
  crossed,  \* history: the switches that ran beside one their request overlooked
  ident,    \* the identity each job's key was hashed with
  made      \* the model that made the stems published for it

window     == <<state, current, saved, clicked, thread, picked, crossed>>
switchVars == <<window, ident, made>>
allVars    == <<vars, switchVars>>

Busy        == {"downloading", "verifying", "loading"}
SwitchState == Busy \cup {"idle", "failed"}
InFlight    == {"spawned", "staging", "loading", "adopted", "saved"}
ThreadState == InFlight \cup {"idle", "checked", "over"}

\* The server starts knowing which preset it loaded.
Started == BootPreset

PresetOf(m) == IF m = Boot THEN BootPreset ELSE picked[m]

\* install() says that the worker runs on the model.
Loaded(i) == inst[i] = "returned" /\ reply[i] = "ok"
Rejected(i) == inst[i] = "returned" /\ reply[i] # "ok"

\* request() refuses while a switch is in flight.
MayRequest_Always == TRUE
MayRequest == state \notin Busy

\* What a request cannot know of: a switch that was asked for and has not written
\* `state` yet, and one whose `state` another has written over.
Overlooks == \E o \in Installers : \/ thread[o] = "spawned"
                                   \/ thread[o] \in InFlight /\ o \in crossed
Beside == {o \in Installers : thread[o] \in InFlight}

SwitchInit ==
  /\ Init
  /\ state = "idle"
  /\ current = Started
  /\ saved = Started
  /\ clicked = None
  /\ thread = [i \in Installers |-> "idle"]
  /\ picked = [i \in Installers |-> None]
  /\ crossed = {}
  /\ ident = [j \in Jobs |-> None]
  /\ made = [j \in Jobs |-> None]

Steps(i, from, to) == thread[i] = from /\ thread' = [thread EXCEPT ![i] = to]
JobsKept == UNCHANGED <<ident, made>>

-----------------------------------------------------------------------------
(* request, on the window's thread *)

\* No switch is in flight, as far as `state` says ...
RequestCheck(i, p) ==
  /\ clicked = None
  /\ MayRequest
  /\ Steps(i, "idle", "checked")
  /\ clicked' = i
  /\ picked' = [picked EXCEPT ![i] = p]
  /\ crossed' = IF Overlooks THEN crossed \cup {i} ELSE crossed
  /\ UNCHANGED <<vars, state, current, saved>> /\ JobsKept

\* ... and the preset is not the loaded one: a thread is started.
RequestSpawn(i) ==
  /\ clicked = i
  /\ current # picked[i]
  /\ Steps(i, "checked", "spawned")
  /\ clicked' = None
  /\ crossed' = IF Beside = {} THEN crossed \ {i}
                ELSE IF i \in crossed THEN crossed \cup Beside ELSE crossed
  /\ UNCHANGED <<vars, state, current, saved, picked>> /\ JobsKept

RequestSame(i) ==
  /\ clicked = i
  /\ current = picked[i]
  /\ Steps(i, "checked", "over")
  /\ clicked' = None
  /\ UNCHANGED <<vars, state, current, saved, picked, crossed>> /\ JobsKept

\* dismiss_error clears a failure and nothing else.
Dismiss ==
  /\ state = "failed"
  /\ state' = "idle"
  /\ UNCHANGED <<vars, current, saved, clicked, thread, picked, crossed>> /\ JobsKept

-----------------------------------------------------------------------------
(* run, on the thread of the switch *)

\* The artefact is on this machine and hashed, or has to be downloaded.
StageArtefact(i) ==
  /\ Steps(i, "spawned", "staging")
  /\ state' \in {"verifying", "downloading"}
  /\ UNCHANGED <<vars, current, saved, clicked, picked, crossed>> /\ JobsKept

Load(i) ==
  /\ Steps(i, "staging", "loading")
  /\ state' = "loading"
  /\ UNCHANGED <<vars, current, saved, clicked, picked, crossed>> /\ JobsKept

\* It blocks in the queue.
CallInstall(i) ==
  /\ thread[i] = "loading"
  /\ Install(i)
  /\ UNCHANGED window /\ JobsKept

Adopt(i) ==
  /\ Loaded(i)
  /\ Steps(i, "loading", "adopted")
  /\ current' = picked[i]
  /\ UNCHANGED <<vars, state, saved, clicked, picked, crossed>> /\ JobsKept

Save(i) ==
  /\ Steps(i, "adopted", "saved")
  /\ saved' = picked[i]
  /\ UNCHANGED <<vars, state, current, clicked, picked, crossed>> /\ JobsKept

Settle(i) ==
  /\ Steps(i, "saved", "over")
  /\ state' = "idle"
  /\ UNCHANGED <<vars, current, saved, clicked, picked, crossed>> /\ JobsKept

\* Offline, a failed download or digest, or what install() answered.
SwitchFails(i) ==
  /\ \/ Steps(i, "spawned", "over")
     \/ Steps(i, "staging", "over")
     \/ Rejected(i) /\ Steps(i, "loading", "over")
  /\ state' = "failed"
  /\ UNCHANGED <<vars, current, saved, clicked, picked, crossed>> /\ JobsKept

-----------------------------------------------------------------------------
(* A job and its key *)

\* create_job hashes the upload with the identity of this moment ...
Identify(j) ==
  /\ ident[j] = None
  /\ ident' = [ident EXCEPT ![j] = current]
  /\ UNCHANGED <<vars, window, made>>

\* ... and submits it after the decode.
Enqueue(j) ==
  /\ ident[j] # None
  /\ Submit(j)
  /\ UNCHANGED window /\ JobsKept

\* The worker publishes what its own model made under the job's key.
PublishStems ==
  /\ Published
  /\ made' = [made EXCEPT ![running] = separator]
  /\ UNCHANGED <<window, ident>>

WorkerOther ==
  /\ Look \/ Build \/ Chunk \/ ChunkCancelled \/ SeparateFails \/ SeparateDone
     \/ PublishFails \/ Complete \/ Clear
  /\ UNCHANGED window /\ JobsKept

StopCall(s) == Stop(s) /\ UNCHANGED window /\ JobsKept

-----------------------------------------------------------------------------
Request(i)   == (\E p \in Presets : RequestCheck(i, p)) \/ RequestSpawn(i) \/ RequestSame(i)
RunSwitch(i) == \/ StageArtefact(i) \/ Load(i) \/ CallInstall(i) \/ Adopt(i)
                \/ Save(i) \/ Settle(i) \/ SwitchFails(i)

SwitchNext ==
  \/ \E i \in Installers : Request(i) \/ RunSwitch(i)
  \/ Dismiss
  \/ \E j \in Jobs : Identify(j) \/ Enqueue(j)
  \/ PublishStems \/ WorkerOther
  \/ \E s \in Stoppers : StopCall(s)

SwitchSpec == SwitchInit /\ [][SwitchNext]_allVars

\* A switch thread that was started runs on, and so do the worker and a stop().
SwitchFairness ==
  /\ WF_allVars(PublishStems \/ WorkerOther)
  /\ \A i \in Installers : WF_allVars(RunSwitch(i))
  /\ \A s \in Stoppers : WF_allVars(StopCall(s) /\ stopper[s] # "idle")

FairSwitchSpec == SwitchSpec /\ SwitchFairness
=============================================================================
