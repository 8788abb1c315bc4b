-------------------------------- MODULE Boot --------------------------------
(***************************************************************************)
(* The processes of one machine, and how each boots: main.rs, startup.rs    *)
(* and serve.rs of stemd-server.  They share the machine's ports, its data  *)
(* directory, its cache directories and its responder.                      *)
(***************************************************************************)
EXTENDS Settings, Artefacts, Discovery

VARIABLES
  phase,     \* how far each launch is
  stems,     \* whose stems each cache directory holds
  cleared,   \* the launches whose stems each launch emptied while they served
  loaded,    \* the model its worker runs: its name and the weights it read
  running,   \* is a separation under way: "no", "yes", or begun too late to ask about
  lost,      \* what `running` was when closing the window ended it
  asking,    \* Guard.asking
  agreed,    \* Guard.agreed
  closing,   \* the window is on its way out
  caller,    \* how far in shutdown::now each of its two callers is
  left,      \* what plan still has in store: changes, switches, jobs
  raced,     \* two threads were in save() at once
  failed,    \* a save failed, or was cut short
  committed  \* the document that last replaced the file, as it reads

processVars == <<phase, stems, cleared, loaded, running, lost>>
quitVars    == <<asking, agreed, closing, caller>>
ghostVars   == <<raced, failed, committed>>
vars == <<plan, troubles, fileVars, settingsVars, artefactVars, discoveryVars,
          processVars, quitVars, left, ghostVars>>

Libraries == {Library(z) : z \in ToSet(COMPONENTS)}

\* A model's files are named for it, and no model for the settings; a library
\* that was there before any launch is whole; the menus list what there is.
ASSUME BootAssumption ==
  /\ JSON \in Paths
  /\ \A p \in Presets : ToSet(Artefacts(p)) \subseteq Paths
  /\ ToSet(COMPONENTS) \cup Libraries \subseteq Paths
  /\ None \notin [path : Paths, at : {"part", "disk", "gone"}, off : Nat]
  /\ None \notin {Whole(f) : f \in Paths}
  /\ \A p \in Plans :
       /\ p.presets \subseteq Presets /\ p.formats \subseteq StemFormats /\ p.rates \subseteq OutputRates
       /\ \A l \in Launches :
            p.args[l].demucs_model \in ((Paths \cap DOMAIN Spelled) \cup {None}) \ {JSON}
       /\ \A f \in Libraries \cap DOMAIN p.disk : p.disk[f] \in {None, Whole(f)}

Callers == {"signal", "window"}
Roots == {Args(l).cache_dir : l \in Launches}

Init ==
  /\ plan \in Plans
  /\ troubles = plan.troubles
  /\ disk = [f \in Paths |-> IF f \in DOMAIN plan.disk THEN plan.disk[f] ELSE None]
  /\ part = [f \in Paths |-> None]
  /\ handle = [t \in Threads |-> None]
  /\ SettingsInit /\ ArtefactInit /\ DiscoveryInit
  /\ phase = [l \in Launches |-> "off"]
  /\ stems = [r \in Roots |-> None]
  /\ cleared = [l \in Launches |-> {}]
  /\ loaded = [l \in Launches |-> None]
  /\ running = [l \in Launches |-> "no"]
  /\ lost = [l \in Launches |-> "no"]
  /\ asking = [l \in Launches |-> FALSE]
  /\ agreed = [l \in Launches |-> FALSE]
  /\ closing = [l \in Launches |-> FALSE]
  /\ caller = [l \in Launches |-> [c \in Callers |-> "none"]]
  /\ left = plan.left
  /\ raced = FALSE
  /\ failed = FALSE
  /\ committed = Load(disk[JSON])

Goes(l, from, to) == phase[l] = from /\ phase' = [phase EXCEPT ![l] = to]
Serving(l) == phase[l] = "serving" /\ \A c \in Callers : caller[l][c] = "none"

OnlyPhase == UNCHANGED <<stems, cleared, loaded, running, lost>>
NoQuit == UNCHANGED <<quitVars, left>>

-----------------------------------------------------------------------------
(* main(), prepare() *)

PortFree(l) ==
  \A k \in Launches : Args(k).bind = Args(l).bind => phase[k] \in {"off", "over", "installing"}

\* serve::bind: a port that is taken ends the launch.
BindPort(l) ==
  /\ ~Args(l).install_cuda
  /\ Goes(l, "off", IF PortFree(l) THEN "bound" ELSE "over")
  /\ UNCHANGED <<fileVars, settingsVars, artefactVars, discoveryVars, ghostVars>>
  /\ OnlyPhase /\ NoQuit /\ Smooth

ReadSettings(l) ==
  /\ Goes(l, "bound", IF BadFlag(l) THEN "over" ELSE "settled")
  /\ IF BadFlag(l) THEN UNCHANGED settingsVars ELSE OpenSettings(l)
  /\ UNCHANGED <<fileVars, artefactVars, discoveryVars, ghostVars>>
  /\ OnlyPhase /\ NoQuit /\ Smooth

\* Cache::new empties the directory; the port is held by then.
ClearsAt_Start == "off"
ClearsAt == "settled"
OpenStemCache(l) ==
  /\ ~Args(l).install_cuda
  /\ Goes(l, ClearsAt, "prepared")
  /\ stems' = [stems EXCEPT ![Args(l).cache_dir] = None]
  /\ cleared' = [cleared EXCEPT ![l] = {k \in Launches \ {l} :
       phase[k] = "serving" /\ stems[Args(l).cache_dir] = k}]
  /\ UNCHANGED <<fileVars, settingsVars, artefactVars, discoveryVars, ghostVars>>
  /\ UNCHANGED <<loaded, running, lost>> /\ NoQuit /\ Smooth

\* load_model: the artefact a flag names, or the saved preset.
Requested(l) == IF Args(l).demucs_model # None THEN Args(l).demucs_model
                ELSE Artefact(current[l].preset)

LoadModel(l) ==
  /\ Goes(l, "prepared", "loading")
  /\ Begin(MainThread(l), Requested(l), "resolve")
  /\ UNCHANGED <<fileVars, settingsVars, discoveryVars, ghostVars>>
  /\ OnlyPhase /\ NoQuit /\ Smooth

Rests(t) == task' = [task EXCEPT ![t] = None] /\ Marks

\* What build() reads.
Weights(t) == [f \in ToSet(Files(task[t].name)) |->
                 IF task[t].dir = "local" THEN <<"traced">> ELSE disk[f]]
CanBuild(t) == \A f \in DOMAIN Weights(t) : Weights(t)[f] # None
Sound(t) == \A f \in DOMAIN Weights(t) : Weights(t)[f] \in {Whole(f), <<"traced">>}

Builds(l, t) ==
  /\ Is(t, "ready") /\ CanBuild(t)
  /\ loaded' = [loaded EXCEPT ![l] = [name |-> task[t].name, dir |-> task[t].dir, weights |-> Weights(t)]]

\* Files that are not there do not load; damaged ones may.
Damaged(t) == Is(t, "ready") /\ ~(CanBuild(t) /\ Sound(t))
BuildFails(t) == \/ (Is(t, "failed") \/ Damaged(t)) /\ Smooth
                 \/ Is(t, "ready") /\ Trouble

QueueStarts(l) ==
  /\ Goes(l, "loading", "loaded")
  /\ Builds(l, MainThread(l))
  /\ Rests(MainThread(l))
  /\ UNCHANGED <<fileVars, settingsVars, discoveryVars, ghostVars>>
  /\ UNCHANGED <<stems, cleared, running, lost>> /\ NoQuit /\ Smooth

\* A saved preset that will not load is replaced by the default; a flag is not.
FallsBack(l) == /\ Args(l).demucs_model = None
                /\ task[MainThread(l)].name # Artefact(DEFAULT_PRESET)

LoadFails(l) ==
  /\ phase[l] = "loading"
  /\ BuildFails(MainThread(l))
  /\ IF FallsBack(l)
     THEN Goes(l, "loading", "loading") /\ Begin(MainThread(l), Artefact(DEFAULT_PRESET), "resolve")
     ELSE Goes(l, "loading", "over") /\ Rests(MainThread(l))
  /\ UNCHANGED <<fileVars, settingsVars, discoveryVars, ghostVars>>
  /\ OnlyPhase /\ NoQuit

\* A failure to advertise is a warning.
Advertise(l) ==
  /\ Goes(l, "loaded", "serving")
  /\ \/ Args(l).no_mdns /\ AdvertiseFails /\ Smooth
     \/ ~Args(l).no_mdns /\ Advertised(l) /\ Smooth
     \/ ~Args(l).no_mdns /\ (AdvertiseFails \/ AdvertiseTimesOut(l)) /\ Trouble
  /\ UNCHANGED <<fileVars, settingsVars, artefactVars, ghostVars>>
  /\ OnlyPhase /\ NoQuit

\* --install-cuda: fetch the libraries and stop, without a port or a model.
InstallCuda(l) ==
  /\ Args(l).install_cuda
  /\ \/ plan.gpu_refused /\ Goes(l, "off", "installing") /\ Begin(MainThread(l), "cuda", "fetch")
     \/ ~plan.gpu_refused /\ Goes(l, "off", "over") /\ UNCHANGED artefactVars
     \/ /\ Goes(l, "installing", "over")
        /\ Is(MainThread(l), "ready") \/ Is(MainThread(l), "failed")
        /\ Rests(MainThread(l))
  /\ UNCHANGED <<fileVars, settingsVars, discoveryVars, ghostVars>>
  /\ OnlyPhase /\ NoQuit /\ Smooth

Fetching(l, t) ==
  /\ TaskStep(t)
  /\ UNCHANGED <<settingsVars, discoveryVars, processVars, quitVars, left, ghostVars>>
=============================================================================
