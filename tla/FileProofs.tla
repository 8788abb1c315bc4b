----------------------------- MODULE FileProofs -----------------------------
(***************************************************************************)
(* Theorems about the files the launches of a machine share, for any number *)
(* of launches and any plans, after whatever crash, failed write or cut     *)
(* download: settings.json reads as the document last saved, with no flag   *)
(* in it; weights and libraries are whole, or not there; the identities the *)
(* launches publish tell their audio apart; every variable has its type.    *)
(***************************************************************************)
EXTENDS HostProofs

-----------------------------------------------------------------------------
(* Every other file is somebody else's *)

LEMMA NamedIsPreset ==
  ASSUME NEW name
  PROVE  FromArtefact(name) \in Presets \cup {"custom"}
  BY Zenon DEF FromArtefact

\* What an artefact consists of is never the settings.
LEMMA NeverTheSettings ==
  ASSUME NEW name, name # JSON
  PROVE  /\ JSON \notin ToSet(Files(name)) /\ JSON \notin ToSet(Wanted(name))
         /\ Wanted(name) \in Seq(ToSet(Wanted(name)))
<1>1. \A p \in Presets : /\ JSON \notin ToSet(Artefacts(p))
                         /\ Artefacts(p) \in Seq(ToSet(Artefacts(p)))
  <2>1. /\ Artefacts("Fast") = <<"htdemucs">> /\ Artefacts("Balanced") = <<"htdemucs_ft">>
        /\ Artefacts("Quality") = <<"bs_polarformer", "htdemucs_ft">>
    BY DEF Artefacts
  <2>2. ASSUME NEW a, NEW b, a # JSON, b # JSON
        PROVE  /\ JSON \notin ToSet(<<a>>) /\ <<a>> \in Seq(ToSet(<<a>>))
               /\ JSON \notin ToSet(<<a, b>>) /\ <<a, b>> \in Seq(ToSet(<<a, b>>))
    BY <2>2 DEF ToSet
  <2>3. /\ "htdemucs" # JSON /\ "htdemucs_ft" # JSON /\ "bs_polarformer" # JSON
    BY DEF JSON
  <2> QED
    BY <2>1, <2>2, <2>3 DEF Presets
<1>2. JSON \notin ToSet(Files(name)) /\ Files(name) \in Seq(ToSet(Files(name)))
  <2>1. CASE FromArtefact(name) = "custom"
    BY <2>1 DEF Files, ToSet
  <2>2. CASE FromArtefact(name) # "custom"
    BY <1>1, <2>2, NamedIsPreset DEF Files
  <2> QED
    BY <2>1, <2>2
<1>3. JSON \notin ToSet(COMPONENTS) /\ COMPONENTS \in Seq(ToSet(COMPONENTS))
  BY DEF COMPONENTS, ToSet, JSON
<1> QED
  BY <1>2, <1>3 DEF Wanted

LEMMA PresetsNameNone ==
  ASSUME NEW p \in Presets
  PROVE  Artefact(p) # JSON /\ FromArtefact(Artefact(p)) \in Presets
<1>1. Artefact(p) # JSON
  BY DEF Presets, Artefact, Artefacts, JSON
<1>2. FromArtefact(Artefact(p)) \in Presets
  BY Zenon DEF FromArtefact
<1> QED
  BY <1>1, <1>2

-----------------------------------------------------------------------------
(* What the threads are at *)

Busy == {"stream", "check", "publish", "unpack", "copy", "place", "tidy"}
Fields == {"name", "at", "todo", "bad", "seen", "dir", "repair"}
Up == {"loaded", "serving"}

Shapes ==
  /\ DOMAIN disk = Paths /\ DOMAIN part = Paths /\ DOMAIN handle = Threads
  /\ DOMAIN writing = Threads /\ DOMAIN task = Threads
  /\ DOMAIN phase = Launches /\ DOMAIN current = Launches
  /\ \A t \in Threads : handle[t] # None => DOMAIN handle[t] = {"path", "at", "off"}
  /\ \A t \in Threads : writing[t] # None => DOMAIN writing[t] = {"doc", "at"}

\* What a thread fetches is not the settings.
Elsewhere(t, tk, w, h) ==
  tk # None =>
    /\ DOMAIN tk = Fields
    /\ tk.name # JSON
    /\ t[2] = "switch" => FromArtefact(tk.name) \in Presets
    /\ tk.todo \in Seq(ToSet(Wanted(tk.name)))
    /\ JSON \notin tk.bad
    /\ tk.at \in Busy => tk.todo # <<>>
    /\ tk.at \in {"stream", "copy"} => DOMAIN h = {"path", "at", "off"} /\ h.path # JSON
    /\ w = None

\* A thread saves or fetches, the main thread saves once it serves.
ThreadsInv ==
  /\ \A t \in Threads : Elsewhere(t, task[t], writing[t], handle[t])
  /\ \A t \in Threads : writing[t] # None => phase[t[1]] = "serving"
  /\ \A t \in Threads : At(t, "fill") => DOMAIN handle[t] = {"path", "at", "off"}
  /\ \A l \in Launches : phase[l] \in Up => task[MainThread(l)] = None

PresetsInv == \A l \in Launches : current[l].preset \in Presets

\* Of the threads at most one is in save(); the temporary is as far as it is, and
\* the file is as it was last replaced.
Alone ==
  /\ Load(disk[JSON]) = committed
  /\ \A t, u \in Threads : writing[t] # None /\ writing[u] # None => t = u
  /\ \A t \in Threads :
       /\ At(t, "fill") => part[JSON] = <<>> /\ handle[t] = [path |-> JSON, at |-> "part", off |-> 0]
       /\ At(t, "rename") => part[JSON] = Text(writing[t].doc)

SaveInv == Shapes /\ ThreadsInv /\ (~raced => Alone)

-----------------------------------------------------------------------------
(* What fetching a file does to the others *)

\* A step of t at a file that is not the settings.
LeavesIt(t) ==
  /\ DOMAIN disk' = Paths /\ DOMAIN part' = Paths /\ DOMAIN handle' = Threads
  /\ disk'[JSON] = disk[JSON] /\ part'[JSON] = part[JSON]
  /\ \A u \in Threads : handle'[u] # None => DOMAIN handle'[u] = {"path", "at", "off"}
  /\ \A u \in Threads \ {t} : /\ handle'[u].path = handle[u].path
                              /\ DOMAIN handle'[u] = DOMAIN handle[u]
  /\ \A u \in Threads \ {t} : handle[u].path = JSON => handle'[u] = handle[u]

LEMMA UntouchedLeavesIt ==
  ASSUME Shapes, NEW t, UNCHANGED fileVars PROVE LeavesIt(t)
  BY DEF Shapes, LeavesIt, fileVars

LEMMA CreateLeavesIt ==
  ASSUME Shapes, NEW t \in Threads, NEW f, f # JSON, Create(t, f)
  PROVE  /\ LeavesIt(t)
         /\ handle'[t].path # JSON /\ DOMAIN handle'[t] = {"path", "at", "off"}
<1>1. handle'[t] = [path |-> f, at |-> "part", off |-> 0]
  BY DEF Shapes, Create
<1> QED
  BY <1>1 DEF Shapes, Create, LeavesIt

LEMMA PutLeavesIt ==
  ASSUME Shapes, NEW t \in Threads, NEW cells,
         DOMAIN handle[t] = {"path", "at", "off"}, handle[t].path # JSON, Put(t, cells)
  PROVE  /\ LeavesIt(t)
         /\ handle'[t].path # JSON /\ DOMAIN handle'[t] = {"path", "at", "off"}
<1>1. /\ disk'[JSON] = disk[JSON] /\ part'[JSON] = part[JSON]
      /\ DOMAIN disk' = Paths /\ DOMAIN part' = Paths /\ DOMAIN handle' = Threads
      /\ \A u \in Threads \ {t} : handle'[u] = handle[u]
  BY DEF Shapes, Put
<1>2. DOMAIN handle'[t] = DOMAIN handle[t] /\ handle'[t].path = handle[t].path
  BY DEF Shapes, Put
<1> QED
  BY <1>1, <1>2 DEF Shapes, LeavesIt

LEMMA CloseLeavesIt ==
  ASSUME Shapes, NEW t \in Threads, Close({t}) PROVE LeavesIt(t)
  BY DEF Shapes, Close, LeavesIt

LEMMA MovedKeepsPath ==
  ASSUME NEW h, NEW f, h # None => DOMAIN h = {"path", "at", "off"}
  PROVE  /\ Moved(h, f).path = h.path /\ DOMAIN Moved(h, f) = DOMAIN h
         /\ h.path # f => Moved(h, f) = h
         /\ Moved(h, f) # None => h # None
  BY DEF Moved

LEMMA RenameLeavesIt ==
  ASSUME Shapes, NEW t \in Threads, NEW f, f # JSON, Rename(t, f)
  PROVE  LeavesIt(t)
<1>1. /\ disk'[JSON] = disk[JSON] /\ part'[JSON] = part[JSON]
      /\ DOMAIN disk' = Paths /\ DOMAIN part' = Paths /\ DOMAIN handle' = Threads
  BY DEF Shapes, Rename
<1>2. handle'[t] = None /\ \A u \in Threads \ {t} : handle'[u] = Moved(handle[u], f)
  BY DEF Rename
<1>3. ASSUME NEW u \in Threads \ {t}
      PROVE  /\ handle'[u].path = handle[u].path /\ DOMAIN handle'[u] = DOMAIN handle[u]
             /\ handle[u].path = JSON => handle'[u] = handle[u]
             /\ handle'[u] # None => handle[u] # None
  <2>1. handle[u] # None => DOMAIN handle[u] = {"path", "at", "off"}
    BY DEF Shapes
  <2>2. /\ Moved(handle[u], f).path = handle[u].path /\ DOMAIN Moved(handle[u], f) = DOMAIN handle[u]
        /\ handle[u].path # f => Moved(handle[u], f) = handle[u]
        /\ Moved(handle[u], f) # None => handle[u] # None
    BY <2>1, MovedKeepsPath
  <2> QED
    BY <1>2, <2>2
<1> QED
  BY <1>1, <1>2, <1>3 DEF Shapes, LeavesIt

LEMMA UnlinkedKeepsPath ==
  ASSUME NEW h, NEW fs, NEW where, h # None => DOMAIN h = {"path", "at", "off"}
  PROVE  /\ Unlinked(h, fs, where).path = h.path /\ DOMAIN Unlinked(h, fs, where) = DOMAIN h
         /\ h.path \notin fs => Unlinked(h, fs, where) = h
         /\ Unlinked(h, fs, where) # None => h # None
  BY DEF Unlinked

LEMMA RemoveLeavesIt ==
  ASSUME Shapes, NEW t \in Threads, NEW f, f # JSON, RemovePart(t, f)
  PROVE  LeavesIt(t)
<1>1. /\ disk'[JSON] = disk[JSON] /\ part'[JSON] = part[JSON]
      /\ DOMAIN disk' = Paths /\ DOMAIN part' = Paths /\ DOMAIN handle' = Threads
  BY DEF Shapes, RemovePart
<1>2. handle'[t] = None /\ \A u \in Threads \ {t} : handle'[u] = Unlinked(handle[u], {f}, "part")
  BY DEF RemovePart
<1>3. ASSUME NEW u \in Threads \ {t}
      PROVE  /\ handle'[u].path = handle[u].path /\ DOMAIN handle'[u] = DOMAIN handle[u]
             /\ handle[u].path = JSON => handle'[u] = handle[u]
             /\ handle'[u] # None => handle[u] # None
  <2>1. handle[u] # None => DOMAIN handle[u] = {"path", "at", "off"}
    BY DEF Shapes
  <2>2. /\ Unlinked(handle[u], {f}, "part").path = handle[u].path /\ DOMAIN Unlinked(handle[u], {f}, "part") = DOMAIN handle[u]
        /\ handle[u].path \notin {f} => Unlinked(handle[u], {f}, "part") = handle[u]
        /\ Unlinked(handle[u], {f}, "part") # None => handle[u] # None
    BY <2>1, UnlinkedKeepsPath
  <2> QED
    BY <1>2, <2>2
<1> QED
  BY <1>1, <1>2, <1>3 DEF Shapes, LeavesIt

LEMMA DeleteLeavesIt ==
  ASSUME Shapes, NEW t \in Threads, NEW fs, JSON \notin fs, Delete(fs)
  PROVE  LeavesIt(t)
<1>1. /\ disk'[JSON] = disk[JSON] /\ part'[JSON] = part[JSON]
      /\ DOMAIN disk' = Paths /\ DOMAIN part' = Paths /\ DOMAIN handle' = Threads
  BY BootAssumption DEF Shapes, Delete
<1>2. \A u \in Threads : handle'[u] = Unlinked(handle[u], fs, "disk")
  BY DEF Delete
<1>3. ASSUME NEW u \in Threads
      PROVE  /\ handle'[u].path = handle[u].path /\ DOMAIN handle'[u] = DOMAIN handle[u]
             /\ handle[u].path = JSON => handle'[u] = handle[u]
             /\ handle'[u] # None => handle[u] # None
  <2>1. handle[u] # None => DOMAIN handle[u] = {"path", "at", "off"}
    BY DEF Shapes
  <2>2. /\ Unlinked(handle[u], fs, "disk").path = handle[u].path /\ DOMAIN Unlinked(handle[u], fs, "disk") = DOMAIN handle[u]
        /\ handle[u].path \notin fs => Unlinked(handle[u], fs, "disk") = handle[u]
        /\ Unlinked(handle[u], fs, "disk") # None => handle[u] # None
    BY <2>1, UnlinkedKeepsPath
  <2> QED
    BY <1>2, <2>2
<1> QED
  BY <1>1, <1>3 DEF Shapes, LeavesIt

-----------------------------------------------------------------------------
(* Fetching leaves the settings alone *)

\* What is known of a thread that fetches.
LEMMA FetchingFacts ==
  ASSUME Shapes, ThreadsInv, NEW t \in Threads, task[t] # None
  PROVE  /\ DOMAIN task[t] = Fields
         /\ task[t].name # JSON /\ writing[t] = None
         /\ t[2] = "switch" => FromArtefact(task[t].name) \in Presets
         /\ task[t].todo \in Seq(ToSet(Wanted(task[t].name)))
         /\ JSON \notin task[t].bad
         /\ task[t].at \in Busy => task[t].todo # <<>>
         /\ task[t].at \in {"stream", "copy"} =>
              DOMAIN handle[t] = {"path", "at", "off"} /\ handle[t].path # JSON
         /\ task[t].todo # <<>> => /\ NextFile(t) # JSON
                                  /\ Tail(task[t].todo) \in Seq(ToSet(Wanted(task[t].name)))
         /\ JSON \notin ToSet(Files(task[t].name))
<1> DEFINE W == ToSet(Wanted(task[t].name))
<1>1. Elsewhere(t, task[t], writing[t], handle[t])
  BY DEF ThreadsInv
<1>2. JSON \notin W /\ JSON \notin ToSet(Files(task[t].name))
  BY <1>1, NeverTheSettings DEF Elsewhere
<1>3. task[t].todo \in Seq(W)
  BY <1>1 DEF Elsewhere
<1> HIDE DEF W
<1>4. task[t].todo # <<>> => Head(task[t].todo) \in W /\ Tail(task[t].todo) \in Seq(W)
  BY <1>3
<1>5. task[t].todo # <<>> => NextFile(t) # JSON
  BY <1>2, <1>4 DEF NextFile
<1> QED
  BY <1>1, <1>2, <1>4, <1>5 DEF Elsewhere, W

\* A task that goes on is one of the same thing.
SameTask(t) ==
  /\ DOMAIN task' = Threads
  /\ \A u \in Threads \ {t} : task'[u] = task[u]
  /\ DOMAIN task'[t] = Fields
  /\ task'[t].name = task[t].name
  /\ \/ task'[t].todo = task[t].todo
     \/ task[t].todo # <<>> /\ task'[t].todo = Tail(task[t].todo)
  /\ JSON \notin task'[t].bad
  /\ task'[t].at \in Busy => task[t].todo # <<>> /\ task'[t].todo = task[t].todo
  /\ task'[t].at \in {"stream", "copy"} =>
       DOMAIN handle'[t] = {"path", "at", "off"} /\ handle'[t].path # JSON

Leaves(t) == task[t] # None /\ LeavesIt(t) /\ SameTask(t)

LEMMA FindingLeaves ==
  ASSUME Shapes, ThreadsInv, NEW t \in Threads, Resolve(t) \/ Hash(t) \/ Rehash(t)
  PROVE  Leaves(t)
<1>1. task[t] # None /\ UNCHANGED fileVars
  BY DEF Resolve, Hash, Rehash, Is
<1>2. LeavesIt(t)
  BY <1>1, UntouchedLeavesIt
<1>3. DOMAIN task = Threads /\ DOMAIN task[t] = Fields /\ JSON \notin task[t].bad
  BY <1>1, FetchingFacts DEF Shapes
<1>4. CASE Resolve(t)
  BY <1>1, <1>2, <1>3, <1>4 DEF Resolve, Leaves, SameTask, Fields, Busy
<1>5. CASE Hash(t)
  <2>1. JSON \notin Mismatched(task[t].name)
    BY <1>1, FetchingFacts DEF Mismatched
  <2> QED
    BY <1>1, <1>2, <1>3, <1>5, <2>1 DEF Hash, Leaves, SameTask, Fields, Busy
<1>6. CASE Rehash(t)
  BY <1>1, <1>2, <1>3, <1>6 DEF Rehash, Now, Leaves, SameTask, Fields, Busy
<1> QED
  BY <1>4, <1>5, <1>6

LEMMA RepairLeaves ==
  ASSUME Shapes, ThreadsInv, NEW t \in Threads, Repair(t)
  PROVE  Leaves(t)
<1>1. task[t] # None
  BY DEF Repair, Is
<1>2. DOMAIN task = Threads /\ DOMAIN task[t] = Fields /\ JSON \notin task[t].bad
  BY <1>1, FetchingFacts DEF Shapes
<1>3. LeavesIt(t)
  BY <1>2, DeleteLeavesIt DEF Repair
<1> QED
  BY <1>1, <1>2, <1>3 DEF Repair, Leaves, SameTask, Fields, Busy

LEMMA SkippingLeaves ==
  ASSUME Shapes, ThreadsInv, NEW t \in Threads, FetchSkip(t) \/ FetchDone(t) \/ PublishGone(t)
  PROVE  Leaves(t)
<1>1. task[t] # None /\ UNCHANGED fileVars
  BY DEF FetchSkip, FetchDone, PublishGone, Is
<1>2. LeavesIt(t)
  BY <1>1, UntouchedLeavesIt
<1>3. DOMAIN task = Threads /\ DOMAIN task[t] = Fields /\ JSON \notin task[t].bad
  BY <1>1, FetchingFacts DEF Shapes
<1>4. CASE FetchSkip(t)
  BY <1>1, <1>2, <1>3, <1>4 DEF FetchSkip, Skips, Is, Leaves, SameTask, Fields, Busy
<1>5. CASE FetchDone(t) \/ PublishGone(t)
  BY <1>1, <1>2, <1>3, <1>5 DEF FetchDone, PublishGone, Now, Leaves, SameTask, Fields, Busy
<1> QED
  BY <1>4, <1>5

LEMMA FetchOneLeaves ==
  ASSUME Shapes, ThreadsInv, NEW t \in Threads, FetchOne(t)
  PROVE  Leaves(t)
<1>1. task[t] # None /\ task[t].todo # <<>>
  BY DEF FetchOne, Is
<1>2. /\ DOMAIN task = Threads /\ DOMAIN task[t] = Fields /\ JSON \notin task[t].bad
      /\ NextFile(t) # JSON
  BY <1>1, FetchingFacts DEF Shapes
<1>3. LeavesIt(t) /\ handle'[t].path # JSON /\ DOMAIN handle'[t] = {"path", "at", "off"}
  BY <1>2, CreateLeavesIt DEF FetchOne
<1> QED
  BY <1>1, <1>2, <1>3 DEF FetchOne, Leaves, SameTask, Fields, Busy

LEMMA StreamLeaves ==
  ASSUME Shapes, ThreadsInv, NEW t \in Threads,
         (\E cell : StreamChunk(t, cell)) \/ StreamSpills(t)
  PROVE  Leaves(t)
<1>1. Is(t, "stream") /\ \E cell : Seen(t, cell)
  BY DEF StreamChunk, StreamSpills
<1>2. /\ DOMAIN task = Threads /\ DOMAIN task[t] = Fields /\ JSON \notin task[t].bad
      /\ task[t] # None /\ task[t].todo # <<>>
      /\ DOMAIN handle[t] = {"path", "at", "off"} /\ handle[t].path # JSON
  BY <1>1, FetchingFacts DEF Shapes, Is, Busy
<1>3. LeavesIt(t) /\ handle'[t].path # JSON /\ DOMAIN handle'[t] = {"path", "at", "off"}
  <2>1. CASE \E cell : StreamChunk(t, cell)
    <3>1. PICK cells : Put(t, cells)
      BY <2>1 DEF StreamChunk
    <3> QED
      BY <1>2, <3>1, PutLeavesIt
  <2>2. CASE StreamSpills(t)
    BY <1>2, <2>2, UntouchedLeavesIt DEF StreamSpills, fileVars
  <2> QED
    BY <2>1, <2>2
<1> QED
  BY <1>1, <1>2, <1>3 DEF Seen, Leaves, SameTask, Fields, Busy

LEMMA CheckingLeaves ==
  ASSUME Shapes, ThreadsInv, NEW t \in Threads,
         FetchChecked(t) \/ FetchCorrupt(t) \/ FetchPublish(t) \/ TaskFails(t)
  PROVE  Leaves(t)
<1>1. /\ task[t] # None
      /\ FetchChecked(t) \/ FetchCorrupt(t) => task[t].at = "check"
      /\ FetchPublish(t) => task[t].at = "publish"
  BY DEF FetchChecked, FetchCorrupt, FetchPublish, TaskFails, Is
<1>2. /\ DOMAIN task = Threads /\ DOMAIN task[t] = Fields /\ JSON \notin task[t].bad
      /\ task[t].at \in Busy => task[t].todo # <<>> /\ NextFile(t) # JSON
  BY <1>1, FetchingFacts DEF Shapes
<1>3. LeavesIt(t)
  <2>1. CASE FetchChecked(t) \/ TaskFails(t)
    BY <2>1, CloseLeavesIt DEF FetchChecked, TaskFails
  <2>2. CASE FetchCorrupt(t)
    BY <1>1, <1>2, <2>2, RemoveLeavesIt DEF FetchCorrupt, Busy
  <2>3. CASE FetchPublish(t)
    BY <1>1, <1>2, <2>3, RenameLeavesIt DEF FetchPublish, Busy
  <2> QED
    BY <2>1, <2>2, <2>3
<1>4. CASE FetchChecked(t) \/ FetchCorrupt(t) \/ TaskFails(t)
  BY <1>1, <1>2, <1>3, <1>4 DEF FetchChecked, FetchCorrupt, TaskFails, Now, Leaves, SameTask, Fields, Busy
<1>5. CASE FetchPublish(t)
  BY <1>1, <1>2, <1>3, <1>5 DEF FetchPublish, Now, Leaves, SameTask, Fields, Busy
<1> QED
  BY <1>4, <1>5

LEMMA UnpackingLeaves ==
  ASSUME Shapes, ThreadsInv, NEW t \in Threads,
         Unpack(t) \/ UnpackCopy(t) \/ UnpackPlace(t) \/ UnpackTidy(t)
  PROVE  Leaves(t)
<1>1. task[t] # None /\ task[t].at \in {"unpack", "copy", "place", "tidy"}
  BY DEF Unpack, UnpackCopy, UnpackPlace, UnpackTidy, Is
<1>2. /\ DOMAIN task = Threads /\ DOMAIN task[t] = Fields /\ JSON \notin task[t].bad
      /\ task[t].todo # <<>> /\ NextFile(t) # JSON
      /\ task[t].at = "copy" => DOMAIN handle[t] = {"path", "at", "off"} /\ handle[t].path # JSON
  BY <1>1, FetchingFacts DEF Shapes, Busy
<1>3. Library(NextFile(t)) # JSON
  BY DEF Library, JSON
<1>4. CASE Unpack(t)
  <2>1. CASE Create(t, Library(NextFile(t)))
    <3>1. LeavesIt(t) /\ handle'[t].path # JSON /\ DOMAIN handle'[t] = {"path", "at", "off"}
      BY <1>3, <2>1, CreateLeavesIt
    <3> QED
      BY <1>1, <1>2, <1>4, <3>1 DEF Unpack, Now, Leaves, SameTask, Fields, Busy
  <2>2. CASE UNCHANGED fileVars /\ Now(t, "failed")
    <3>1. LeavesIt(t)
      BY <2>2, UntouchedLeavesIt
    <3> QED
      BY <1>1, <1>2, <2>2, <3>1 DEF Now, Leaves, SameTask, Fields, Busy
  <2> QED
    BY <1>4, <2>1, <2>2 DEF Unpack
<1>5. CASE UnpackCopy(t)
  <2>1. LeavesIt(t) /\ handle'[t].path # JSON /\ DOMAIN handle'[t] = {"path", "at", "off"}
    BY <1>2, <1>5, PutLeavesIt DEF UnpackCopy, Is
  <2> QED
    BY <1>1, <1>2, <1>5, <2>1 DEF UnpackCopy, Leaves, SameTask, Fields, Busy
<1>6. CASE UnpackPlace(t)
  <2>1. LeavesIt(t)
    BY <1>3, <1>6, RenameLeavesIt DEF UnpackPlace
  <2> QED
    BY <1>1, <1>2, <1>6, <2>1 DEF UnpackPlace, Now, Leaves, SameTask, Fields, Busy
<1>7. CASE UnpackTidy(t)
  <2>1. LeavesIt(t)
    BY <1>2, <1>7, DeleteLeavesIt DEF UnpackTidy
  <2> QED
    BY <1>1, <1>2, <1>7, <2>1 DEF UnpackTidy, Leaves, SameTask, Fields, Busy
<1> QED
  BY <1>4, <1>5, <1>6, <1>7

LEMMA TaskLeaves ==
  ASSUME Shapes, ThreadsInv, NEW t \in Threads, TaskStep(t)
  PROVE  Leaves(t)
  BY FindingLeaves, RepairLeaves, SkippingLeaves, FetchOneLeaves, StreamLeaves, CheckingLeaves,
     UnpackingLeaves, Zenon DEF TaskStep

LEMMA FetchingKeepsSettings ==
  ASSUME SaveInv, NEW t \in Threads, TaskStep(t), UNCHANGED <<writing, phase, current, raced, committed>>
  PROVE  SaveInv'
<1>1. Leaves(t)
  BY TaskLeaves DEF SaveInv
<1>2. Shapes'
  BY <1>1 DEF SaveInv, Shapes, Leaves, LeavesIt, SameTask
<1>3. ThreadsInv'
  <2>1. ASSUME NEW u \in Threads \ {t}
        PROVE  Elsewhere(u, task[u], writing[u], handle[u])'
    BY <1>1, <2>1 DEF SaveInv, ThreadsInv, Elsewhere, Leaves, LeavesIt, SameTask
  <2>2. Elsewhere(t, task[t], writing[t], handle[t])'
    <3>1. /\ task'[t].name = task[t].name
          /\ task'[t].todo \in Seq(ToSet(Wanted(task[t].name)))
      BY <1>1, FetchingFacts DEF SaveInv, Leaves, SameTask
    <3> QED
      BY <1>1, <3>1, FetchingFacts DEF SaveInv, Leaves, SameTask, Elsewhere
  <2>3. \A l \in Launches : phase[l] \in Up => t # MainThread(l)
    BY <1>1 DEF SaveInv, ThreadsInv, Leaves
  <2>4. \A l \in Launches : MainThread(l) \in Threads
    BY DEF MainThread, Threads
  <2>5. ASSUME NEW u \in Threads, At(u, "fill")'
        PROVE  DOMAIN handle'[u] = {"path", "at", "off"}
    BY <1>1, <2>5, FetchingFacts DEF SaveInv, ThreadsInv, Leaves, LeavesIt, At
  <2> QED
    BY <1>1, <2>1, <2>2, <2>3, <2>4, <2>5 DEF SaveInv, ThreadsInv, Leaves, SameTask
<1>4. ~raced => Alone'
  <2> SUFFICES ASSUME ~raced PROVE Alone'
    OBVIOUS
  <2>1. /\ disk'[JSON] = disk[JSON] /\ part'[JSON] = part[JSON] /\ writing[t] = None
        /\ \A u \in Threads \ {t} : handle[u].path = JSON => handle'[u] = handle[u]
    BY <1>1, FetchingFacts DEF SaveInv, Leaves, LeavesIt
  <2> QED
    BY <2>1 DEF SaveInv, Alone, At
<1> QED
  BY <1>2, <1>3, <1>4 DEF SaveInv

-----------------------------------------------------------------------------
(* Saving *)

\* A document reads back as itself, whatever was there before.
LEMMA TextReadsBack ==
  ASSUME NEW doc, NEW content, content = Text(doc), content # None
  PROVE  Load(content) = IntoSettings(doc)
<1>1. Text(doc) # <<>> /\ Head(Text(doc)) = doc
  BY DEF Text
<1> QED
  BY <1>1 DEF Load, Parses

LEMMA WrittenFromTheStart ==
  ASSUME NEW doc
  PROVE  WriteAt(<<>>, 0, Text(doc)) = Text(doc)
<1> DEFINE d == Text(doc)
<1>1. Len(d) \in Nat /\ d = [i \in 1 .. Len(d) |-> d[i]]
  BY DEF Text
<1> HIDE DEF d
<1>2. Len(<<>>) = 0
  OBVIOUS
<1>3. Longer(Len(<<>>), 0 + Len(d)) = Len(d)
  BY <1>1, <1>2 DEF Longer
<1>4. \A i \in 1 .. Len(d) : i > 0 /\ i <= 0 + Len(d) /\ i - 0 = i
  BY <1>1
<1>5. WriteAt(<<>>, 0, d) = [i \in 1 .. Len(d) |-> d[i]]
  BY <1>3, <1>4 DEF WriteAt
<1> QED
  BY <1>1, <1>5 DEF d

\* A step of the thread t that is in save(): nobody else's file or task moves.
SavesOn(t) ==
  /\ writing[t] # None /\ DOMAIN writing' = Threads
  /\ DOMAIN disk' = Paths /\ DOMAIN part' = Paths /\ DOMAIN handle' = Threads
  /\ \A u \in Threads : handle'[u] # None => DOMAIN handle'[u] = {"path", "at", "off"}
  /\ \A u \in Threads \ {t} : /\ writing'[u] = writing[u]
                              /\ handle'[u].path = handle[u].path
                              /\ DOMAIN handle'[u] = DOMAIN handle[u]
  /\ writing'[t] # None => DOMAIN writing'[t] = {"doc", "at"}
  /\ At(t, "fill")' => DOMAIN handle'[t] = {"path", "at", "off"}

LEMMA SavingFrame ==
  ASSUME Shapes, ThreadsInv, NEW t \in Threads, Saves(t)
  PROVE  SavesOn(t) /\ UNCHANGED <<task, phase, current, raced>>
<1>1. UNCHANGED <<task, phase, current, raced>>
  BY Zenon DEF Saves, SaveStep, artefactVars, processVars
<1>2. CASE SaveCreate(t)
  <2>1. writing[t] # None /\ DOMAIN writing[t] = {"doc", "at"}
    BY <1>2 DEF SaveCreate, At, Shapes
  <2>2. handle'[t] = [path |-> JSON, at |-> "part", off |-> 0]
    BY <1>2 DEF SaveCreate, Create, Shapes
  <2> QED
    BY <1>1, <1>2, <2>1, <2>2 DEF SaveCreate, Create, OnTo, SavesOn, Shapes, At
<1>3. CASE SaveFill(t)
  <2>1. writing[t] # None /\ DOMAIN writing[t] = {"doc", "at"}
    BY <1>3 DEF SaveFill, At, Shapes
  <2>2. PICK cells : Put(t, cells)
    BY <1>3 DEF SaveFill
  <2>3. /\ DOMAIN disk' = Paths /\ DOMAIN part' = Paths /\ DOMAIN handle' = Threads
        /\ \A u \in Threads \ {t} : handle'[u] = handle[u]
    BY <2>2 DEF Shapes, Put
  <2>4. DOMAIN handle'[t] = {"path", "at", "off"}
    <3>1. DOMAIN handle[t] = {"path", "at", "off"}
      BY <1>3 DEF SaveFill, ThreadsInv
    <3> QED
      BY <2>2, <3>1 DEF Put, Shapes
  <2> QED
    BY <1>1, <1>3, <2>1, <2>3, <2>4 DEF SaveFill, OnTo, SavesOn, Shapes, At
<1>4. CASE SaveRename(t)
  <2>1. writing[t] # None
    BY <1>4 DEF SaveRename, At
  <2>2. handle'[t] = None /\ \A u \in Threads \ {t} : handle'[u] = Moved(handle[u], JSON)
    BY <1>4 DEF SaveRename, Rename
  <2>3. ASSUME NEW u \in Threads \ {t}
        PROVE  /\ handle'[u].path = handle[u].path /\ DOMAIN handle'[u] = DOMAIN handle[u]
               /\ handle'[u] # None => handle[u] # None
    <3>1. handle[u] # None => DOMAIN handle[u] = {"path", "at", "off"}
      BY DEF Shapes
    <3>2. /\ Moved(handle[u], JSON).path = handle[u].path
          /\ DOMAIN Moved(handle[u], JSON) = DOMAIN handle[u]
          /\ Moved(handle[u], JSON) # None => handle[u] # None
      BY <3>1, MovedKeepsPath
    <3> QED
      BY <2>2, <3>2
  <2>4. /\ DOMAIN disk' = Paths /\ DOMAIN part' = Paths /\ DOMAIN handle' = Threads
        /\ writing' = [writing EXCEPT ![t] = None]
    BY <1>4 DEF SaveRename, Rename, Shapes
  <2> QED
    BY <1>1, <2>1, <2>2, <2>3, <2>4 DEF SavesOn, Shapes, At
<1>5. CASE SaveFails(t)
  BY <1>1, <1>5 DEF SaveFails, Close, SavesOn, Shapes, At
<1> QED
  BY <1>1, <1>2, <1>3, <1>4, <1>5 DEF Saves, SaveStep, SaveGone

LEMMA SavingKeepsThreads ==
  ASSUME Shapes, ThreadsInv, NEW t \in Threads, SavesOn(t), UNCHANGED <<task, phase, current>>
  PROVE  Shapes' /\ ThreadsInv'
<1>1. Shapes'
  BY DEF Shapes, SavesOn
<1>2. task[t] = None
  BY FetchingFacts DEF SavesOn
<1>3. ASSUME NEW u \in Threads
      PROVE  Elsewhere(u, task[u], writing[u], handle[u])'
  BY <1>2 DEF ThreadsInv, Elsewhere, SavesOn
<1>4. \A u \in Threads : writing'[u] # None => phase'[u[1]] = "serving"
  BY DEF ThreadsInv, SavesOn
<1>5. \A u \in Threads : At(u, "fill")' => DOMAIN handle'[u] = {"path", "at", "off"}
  BY DEF ThreadsInv, SavesOn, At
<1> QED
  BY <1>1, <1>3, <1>4, <1>5 DEF ThreadsInv

LEMMA SavingKeepsSettings ==
  ASSUME SaveInv, NEW t \in Threads, Saves(t)
  PROVE  SaveInv'
<1>1. SavesOn(t) /\ UNCHANGED <<task, phase, current, raced>>
  BY SavingFrame DEF SaveInv
<1>2. Shapes' /\ ThreadsInv'
  BY <1>1, SavingKeepsThreads DEF SaveInv
<1>3. ASSUME ~raced PROVE Alone'
  <2>1. Alone /\ writing[t] # None /\ \A u \in Threads \ {t} : writing[u] = None /\ writing'[u] = None
    BY <1>1, <1>3 DEF SaveInv, Alone, SavesOn
  <2>2. Shapes
    BY DEF SaveInv
  <2>3. \A u, k \in Threads : writing'[u] # None /\ writing'[k] # None => u = k
    BY <2>1
  <2>4. \A u \in Threads \ {t} : ~At(u, "fill")' /\ ~At(u, "rename")'
    BY <2>1 DEF At
  <2>5. CASE SaveCreate(t)
    <3>1. At(t, "create") /\ Create(t, JSON) /\ writing' = [writing EXCEPT ![t].at = "fill"]
      BY <2>5 DEF SaveCreate, OnTo
    <3>2. disk' = disk /\ ~At(t, "rename")
      BY <3>1 DEF Create, At
    <3>3. committed' = committed
      BY <3>2 DEF Saves
    <3>4. /\ part'[JSON] = <<>> /\ handle'[t] = [path |-> JSON, at |-> "part", off |-> 0]
      BY <2>2, <3>1, BootAssumption DEF Create, Shapes
    <3>5. ~At(t, "rename")'
      BY <2>1, <2>2, <3>1 DEF At, Shapes
    <3> QED
      BY <2>1, <2>3, <2>4, <3>2, <3>3, <3>4, <3>5 DEF Alone
  <2>6. CASE SaveFill(t)
    <3> DEFINE doc == writing[t].doc
    <3>1. /\ At(t, "fill") /\ Put(t, Text(doc)) /\ writing' = [writing EXCEPT ![t].at = "rename"]
      BY <2>6 DEF SaveFill, OnTo
    <3>2. part[JSON] = <<>> /\ handle[t] = [path |-> JSON, at |-> "part", off |-> 0]
      BY <2>1, <3>1 DEF Alone
    <3>3. /\ disk' = disk /\ part' = [part EXCEPT ![JSON] = WriteAt(part[JSON], 0, Text(doc))]
      <4>1. handle[t].path = JSON /\ handle[t].at = "part" /\ handle[t].off = 0
        BY <3>2
      <4> QED
        BY <3>1, <4>1, Zenon DEF Put
    <3>4. part'[JSON] = Text(doc)
      BY <2>2, <3>2, <3>3, WrittenFromTheStart, BootAssumption DEF Shapes
    <3>5. ~At(t, "rename")
      BY <3>1 DEF At
    <3>6. committed' = committed
      BY <3>5 DEF Saves
    <3>7. writing'[t].doc = doc /\ ~At(t, "fill")'
      BY <2>1, <2>2, <3>1 DEF At, Shapes
    <3> QED
      BY <2>1, <2>3, <2>4, <3>3, <3>4, <3>6, <3>7 DEF Alone
  <2>7. CASE SaveRename(t)
    <3> DEFINE doc == writing[t].doc
    <3>1. At(t, "rename") /\ part[JSON] # None /\ disk' = [disk EXCEPT ![JSON] = part[JSON]]
      BY <2>7 DEF SaveRename, Rename
    <3>2. part[JSON] = Text(doc)
      BY <2>1, <3>1 DEF Alone
    <3>3. disk'[JSON] = Text(doc) /\ Load(disk'[JSON]) = IntoSettings(doc)
      BY <2>2, <3>1, <3>2, TextReadsBack, BootAssumption DEF Shapes
    <3>4. Load(disk'[JSON]) = committed'
      <4>1. CASE disk'[JSON] # disk[JSON]
        BY <3>1, <3>3, <4>1 DEF Saves
      <4>2. CASE disk'[JSON] = disk[JSON]
        BY <2>1, <4>2 DEF Saves, Alone
      <4> QED
        BY <4>1, <4>2
    <3>5. writing'[t] = None
      BY <2>2, <2>7 DEF SaveRename, Shapes
    <3> QED
      BY <2>3, <2>4, <3>4, <3>5 DEF Alone, At
  <2>8. CASE SaveFails(t)
    <3>1. disk' = disk /\ writing'[t] = None
      BY <2>2, <2>8 DEF SaveFails, Close, Shapes
    <3>2. committed' = committed
      BY <3>1 DEF Saves
    <3> QED
      BY <2>1, <2>3, <2>4, <3>1, <3>2 DEF Alone, At
  <2> QED
    BY <2>5, <2>6, <2>7, <2>8 DEF Saves, SaveStep, SaveGone
<1> QED
  BY <1>1, <1>2, <1>3 DEF SaveInv

-----------------------------------------------------------------------------
(* Changing, beginning, coming to rest, going *)

LEMMA MainIsThread ==
  ASSUME NEW l \in Launches
  PROVE  /\ MainThread(l) \in Threads /\ MainThread(l)[1] = l /\ MainThread(l)[2] = "main"
         /\ SwitchThread(l) \in Threads /\ SwitchThread(l)[1] = l /\ SwitchThread(l)[2] = "switch"
         /\ MainThread(l) # SwitchThread(l)
  BY DEF MainThread, SwitchThread, Threads

Changes(l, t) ==
  /\ phase[l] = "serving" /\ t \in {MainThread(l), SwitchThread(l)}
  /\ \E field, v : Change(l, t, field, v)
  /\ UNCHANGED <<fileVars, phase, committed>>
  /\ raced' = (raced \/ Racing(t))
  /\ DOMAIN task' = Threads /\ task'[t] = None
  /\ \A u \in Threads \ {t} : task'[u] = task[u]

LEMMA ChangingKeepsSettings ==
  ASSUME SaveInv, NEW l \in Launches, NEW t, Changes(l, t)
  PROVE  SaveInv'
<1>0. t \in Threads /\ t[1] = l
  BY MainIsThread DEF Changes
<1>1. /\ writing[t] = None /\ DOMAIN writing' = Threads /\ DOMAIN current' = Launches
      /\ DOMAIN writing'[t] = {"doc", "at"} /\ writing'[t].at = "create"
      /\ \A u \in Threads \ {t} : writing'[u] = writing[u]
  BY <1>0 DEF SaveInv, Shapes, Changes, Change
<1>2. Shapes'
  BY <1>0, <1>1 DEF SaveInv, Shapes, Changes, fileVars
<1>3. ~At(t, "fill")' /\ ~At(t, "rename")'
  BY <1>1 DEF At
<1>4. ThreadsInv'
  <2>1. \A u \in Threads : Elsewhere(u, task[u], writing[u], handle[u])'
    BY <1>0, <1>1 DEF SaveInv, ThreadsInv, Elsewhere, Changes, fileVars
  <2>2. \A u \in Threads : At(u, "fill")' => DOMAIN handle'[u] = {"path", "at", "off"}
    BY <1>0, <1>1, <1>3 DEF SaveInv, ThreadsInv, Changes, fileVars, At
  <2>3. \A k \in Launches : phase'[k] \in Up => task'[MainThread(k)] = None
    BY <1>0, MainIsThread DEF SaveInv, ThreadsInv, Changes
  <2> QED
    BY <1>0, <1>1, <2>1, <2>2, <2>3 DEF SaveInv, ThreadsInv, Changes
<1>5. ~raced' => Alone'
  <2> SUFFICES ASSUME ~raced' PROVE Alone'
    OBVIOUS
  <2>1. ~raced /\ \A u \in Threads \ {t} : writing[u] = None
    BY DEF Changes, Racing
  <2> QED
    BY <1>1, <1>3, <2>1 DEF SaveInv, Alone, Changes, fileVars, At
<1> QED
  BY <1>2, <1>4, <1>5 DEF SaveInv

\* Steps at which no file is touched and nobody comes to save.
Untouched == UNCHANGED <<fileVars, writing, raced, committed>>
PhasesGoOn ==
  /\ DOMAIN phase' = Launches /\ DOMAIN current' = Launches
  /\ \A l \in Launches :
       /\ phase[l] = "serving" => phase'[l] = "serving"
       /\ phase'[l] \in Up => phase[l] \in Up \/ task'[MainThread(l)] = None

Begins(t) ==
  \E name : \E at \in {"resolve", "fetch"} :
    /\ Begin(t, name, at) /\ name # JSON /\ writing[t] = None
    /\ t[2] = "switch" => FromArtefact(name) \in Presets
    /\ t[2] = "main" => phase[t[1]] \notin Up

Waits(t) ==
  \/ UNCHANGED task \/ Rests(t) \/ Begins(t)

LEMMA WaitingKeepsSettings ==
  ASSUME SaveInv, Untouched, PhasesGoOn, NEW t \in Threads, Waits(t)
  PROVE  SaveInv'
<1>1. DOMAIN task' = Threads /\ \A u \in Threads \ {t} : task'[u] = task[u]
  BY DEF Waits, Rests, Begins, Begin, SaveInv, Shapes
<1>2. Shapes'
  BY <1>1 DEF SaveInv, Shapes, Untouched, fileVars, PhasesGoOn
<1>3. Elsewhere(t, task[t], writing[t], handle[t])'
  <2>1. CASE UNCHANGED task
    BY <2>1 DEF SaveInv, ThreadsInv, Elsewhere, Untouched, fileVars
  <2>2. CASE Rests(t)
    <3>1. task'[t] = None
      BY <2>2 DEF Rests, SaveInv, Shapes
    <3> QED
      BY <3>1 DEF Elsewhere
  <2>3. CASE Begins(t)
    <3>0. PICK name : \E at \in {"resolve", "fetch"} :
            /\ Begin(t, name, at) /\ name # JSON /\ writing[t] = None
            /\ t[2] = "switch" => FromArtefact(name) \in Presets
            /\ t[2] = "main" => phase[t[1]] \notin Up
      BY <2>3, Zenon DEF Begins
    <3>1. PICK at \in {"resolve", "fetch"} :
            /\ Begin(t, name, at) /\ name # JSON /\ writing[t] = None
            /\ t[2] = "switch" => FromArtefact(name) \in Presets
            /\ t[2] = "main" => phase[t[1]] \notin Up
      BY <3>0, Zenon
    <3>2. task'[t] = [name |-> name, at |-> at, todo |-> Wanted(name), bad |-> {}, seen |-> <<>>,
                      dir |-> "cache", repair |-> FALSE]
      BY <3>1 DEF Begin, SaveInv, Shapes
    <3>3. Wanted(name) \in Seq(ToSet(Wanted(name)))
      BY <3>1, NeverTheSettings
    <3>4. writing'[t] = None
      BY <3>1 DEF Untouched
    <3> QED
      BY <3>1, <3>2, <3>3, <3>4 DEF Elsewhere, Fields, Busy
  <2> QED
    BY <2>1, <2>2, <2>3 DEF Waits
<1>4. ASSUME NEW u \in Threads \ {t} PROVE Elsewhere(u, task[u], writing[u], handle[u])'
  BY <1>1 DEF SaveInv, ThreadsInv, Elsewhere, Untouched, fileVars
<1>5. ASSUME NEW l \in Launches, phase'[l] \in Up PROVE task'[MainThread(l)] = None
  <2>1. CASE phase[l] \in Up
    <3>1. task[MainThread(l)] = None
      BY <2>1 DEF SaveInv, ThreadsInv
    <3>2. t = MainThread(l) => UNCHANGED task \/ Rests(t)
      BY <2>1, MainIsThread DEF Waits, Begins
    <3> QED
      BY <1>1, <3>1, <3>2, MainIsThread DEF Rests, SaveInv, Shapes
  <2>2. CASE phase[l] \notin Up
    BY <1>5, <2>2 DEF PhasesGoOn
  <2> QED
    BY <2>1, <2>2
<1>6. ThreadsInv'
  <2>1. \A u \in Threads : writing'[u] # None => phase'[u[1]] = "serving"
    BY DEF SaveInv, ThreadsInv, Untouched, PhasesGoOn, Threads
  <2>2. \A u \in Threads : At(u, "fill")' => DOMAIN handle'[u] = {"path", "at", "off"}
    BY DEF SaveInv, ThreadsInv, Untouched, fileVars, At
  <2> QED
    BY <1>3, <1>4, <1>5, <2>1, <2>2 DEF ThreadsInv
<1>7. ~raced' => Alone'
  BY DEF SaveInv, Alone, Untouched, fileVars, At
<1> QED
  BY <1>2, <1>6, <1>7 DEF SaveInv

LEMMA DyingKeepsSettings ==
  ASSUME SaveInv, NEW l \in Launches, Dies(l)
  PROVE  SaveInv'
<1>1. /\ UNCHANGED <<disk, part, current, raced, committed>>
      /\ DOMAIN phase' = Launches /\ phase'[l] = "over"
      /\ \A k \in Launches \ {l} : phase'[k] = phase[k]
      /\ DOMAIN task' = Threads /\ DOMAIN writing' = Threads /\ DOMAIN handle' = Threads
      /\ \A u \in Threads : u[1] = l => task'[u] = None /\ writing'[u] = None /\ handle'[u] = None
      /\ \A u \in Threads : u[1] # l =>
           task'[u] = task[u] /\ writing'[u] = writing[u] /\ handle'[u] = handle[u]
  BY DEF Dies, Close, ThreadsOf, SaveInv, Shapes
<1>2. Shapes'
  BY <1>1 DEF SaveInv, Shapes
<1>3. ThreadsInv'
  <2>1. \A u \in Threads : Elsewhere(u, task[u], writing[u], handle[u])'
    BY <1>1 DEF SaveInv, ThreadsInv, Elsewhere
  <2>2. \A k \in Launches : phase'[k] \in Up => task'[MainThread(k)] = None
    BY <1>1, MainIsThread DEF SaveInv, ThreadsInv, Up
  <2>3. \A u \in Threads : writing'[u] # None => phase'[u[1]] = "serving"
    <3>1. \A u \in Threads : u[1] \in Launches
      BY DEF Threads
    <3> QED
      BY <1>1, <3>1 DEF SaveInv, ThreadsInv
  <2>4. \A u \in Threads : At(u, "fill")' => DOMAIN handle'[u] = {"path", "at", "off"}
    BY <1>1 DEF SaveInv, ThreadsInv, At
  <2> QED
    BY <2>1, <2>2, <2>3, <2>4 DEF ThreadsInv
<1>4. ~raced' => Alone'
  BY <1>1 DEF SaveInv, Alone, At
<1> QED
  BY <1>2, <1>3, <1>4 DEF SaveInv

-----------------------------------------------------------------------------
(* Every step is one of these *)

\* A phase before the window is up is followed by another, or by serving with no
\* fetch under way.
LEMMA GoesOn ==
  ASSUME SaveInv, NEW l \in Launches, NEW from, NEW to, Goes(l, from, to),
         from # "serving", DOMAIN current' = Launches,
         to \in Up => from \in Up \/ task'[MainThread(l)] = None
  PROVE  PhasesGoOn
  BY DEF Goes, PhasesGoOn, SaveInv, Shapes

LEMMA StaysOn ==
  ASSUME SaveInv, UNCHANGED <<phase, current>>
  PROVE  PhasesGoOn
  BY DEF PhasesGoOn, SaveInv, Shapes

\* What a launch is asked to load is no settings file.
LEMMA RequestedIsNone ==
  ASSUME plan \in Plans, PresetsInv, NEW l \in Launches
  PROVE  Requested(l) # JSON
<1>1. CASE Args(l).demucs_model # None
  BY <1>1, BootAssumption DEF Requested, Args
<1>2. CASE Args(l).demucs_model = None
  BY <1>2, PresetsNameNone DEF Requested, PresetsInv
<1> QED
  BY <1>1, <1>2

LEMMA BootingWaits ==
  ASSUME SaveInv, PresetsInv, plan \in Plans, NEW l \in Launches, Boots(l)
  PROVE  Untouched /\ PhasesGoOn /\ \E t \in Threads : Waits(t)
<1> DEFINE t == MainThread(l)
<1>0. t \in Threads /\ t[1] = l /\ t[2] = "main"
  BY MainIsThread
<1>1. Untouched
  BY Zenon DEF Boots, BindPort, ReadSettings, OpenSettings, OpenStemCache, LoadModel, QueueStarts,
               LoadFails, Advertise, InstallCuda, settingsVars, ghostVars, Untouched
<1>2. DOMAIN current = Launches /\ DOMAIN task = Threads
  BY DEF SaveInv, Shapes
<1>3. phase[l] # "serving" => writing[t] = None
  BY <1>0 DEF SaveInv, ThreadsInv
<1>4. ASSUME BindPort(l) \/ OpenStemCache(l) \/ Advertise(l)
      PROVE  PhasesGoOn /\ UNCHANGED task
  <2>1. UNCHANGED <<task, current>>
    BY <1>4, Zenon DEF BindPort, OpenStemCache, Advertise, settingsVars, artefactVars
  <2>2. \/ \E from \in {"off", "settled"}, to \in {"bound", "over", "prepared"} : Goes(l, from, to)
        \/ Goes(l, "loaded", "serving")
    BY <1>4 DEF BindPort, OpenStemCache, Advertise, ClearsAt
  <2> QED
    BY <1>2, <2>1, <2>2, GoesOn DEF Up
<1>5. ASSUME ReadSettings(l)
      PROVE  PhasesGoOn /\ UNCHANGED task
  <2>1. UNCHANGED task /\ DOMAIN current' = Launches
    BY <1>2, <1>5 DEF ReadSettings, OpenSettings, settingsVars, artefactVars
  <2>2. \E to \in {"over", "settled"} : Goes(l, "bound", to)
    BY <1>5 DEF ReadSettings
  <2> QED
    BY <2>1, <2>2, GoesOn DEF Up
<1>6. ASSUME LoadModel(l)
      PROVE  PhasesGoOn /\ Waits(t)
  <2>1. Goes(l, "prepared", "loading") /\ Begin(t, Requested(l), "resolve") /\ UNCHANGED current
    BY <1>6 DEF LoadModel, settingsVars
  <2>2. phase[l] = "prepared"
    BY <2>1 DEF Goes
  <2>3. Begins(t)
    BY <1>0, <1>3, <2>1, <2>2, RequestedIsNone DEF Begins, Up
  <2> QED
    BY <1>2, <2>1, <2>3, GoesOn DEF Waits, Up
<1>7. ASSUME QueueStarts(l)
      PROVE  PhasesGoOn /\ Waits(t)
  <2>1. Goes(l, "loading", "loaded") /\ Rests(t) /\ UNCHANGED current
    BY <1>7 DEF QueueStarts, settingsVars
  <2>2. task'[t] = None
    BY <1>0, <1>2, <2>1 DEF Rests
  <2> QED
    BY <1>2, <2>1, <2>2, GoesOn DEF Waits
<1>8. ASSUME LoadFails(l)
      PROVE  PhasesGoOn /\ Waits(t)
  <2>1. /\ phase[l] = "loading" /\ UNCHANGED current
        /\ \/ /\ Goes(l, "loading", "loading")
              /\ Begin(t, Artefact(DEFAULT_PRESET), "resolve")
           \/ Goes(l, "loading", "over") /\ Rests(t)
    BY <1>8, Zenon DEF LoadFails, settingsVars
  <2>2. Artefact(DEFAULT_PRESET) # JSON
    BY PresetsNameNone DEF DEFAULT_PRESET, Presets
  <2>3. Begin(t, Artefact(DEFAULT_PRESET), "resolve") => Begins(t)
    BY <1>0, <1>3, <2>1, <2>2 DEF Begins, Up
  <2> QED
    BY <1>2, <2>1, <2>3, GoesOn DEF Waits, Up
<1>9. ASSUME InstallCuda(l)
      PROVE  PhasesGoOn /\ Waits(t)
  <2>1. /\ UNCHANGED current
        /\ \/ Goes(l, "off", "installing") /\ Begin(t, "cuda", "fetch")
           \/ Goes(l, "off", "over") /\ UNCHANGED task
           \/ Goes(l, "installing", "over") /\ Rests(t)
    BY <1>9, Zenon DEF InstallCuda, settingsVars, artefactVars
  <2>2. Goes(l, "off", "installing") /\ Begin(t, "cuda", "fetch") => Begins(t)
    BY <1>0, <1>3 DEF Begins, Up, Goes, JSON
  <2> QED
    BY <1>2, <2>1, <2>2, GoesOn DEF Waits, Up
<1> QED
  BY <1>0, <1>1, <1>4, <1>5, <1>6, <1>7, <1>8, <1>9 DEF Boots, Waits

LEMMA RunningWaitsOrChanges ==
  ASSUME SaveInv, plan \in Plans, NEW l \in Launches, Runs(l)
  PROVE  \/ Untouched /\ PhasesGoOn /\ \E t \in Threads : Waits(t)
         \/ \E t : Changes(l, t)
<1>0. DOMAIN task = Threads
  BY DEF SaveInv, Shapes
<1>1. ASSUME NEW field, NEW v, PickFromMenu(l, field, v) PROVE Changes(l, MainThread(l))
  <2>1. phase[l] = "serving" /\ UNCHANGED <<fileVars, phase, committed, task>>
    BY <1>1, Zenon DEF PickFromMenu, Serving, processVars, artefactVars
  <2>2. task[MainThread(l)] = None
    BY <2>1 DEF SaveInv, ThreadsInv, Up
  <2> QED
    BY <1>0, <1>1, <2>1, <2>2 DEF PickFromMenu, Changes
<1>2. ASSUME SwitchLoads(l) PROVE Changes(l, SwitchThread(l))
  <2> DEFINE t == SwitchThread(l)
  <2>1. phase[l] = "serving" /\ UNCHANGED <<fileVars, phase, committed>> /\ Rests(t)
    BY <1>2 DEF SwitchLoads, Serving
  <2>2. /\ DOMAIN task' = Threads /\ task'[t] = None
        /\ \A u \in Threads \ {t} : task'[u] = task[u]
    BY <1>0, <2>1, MainIsThread DEF Rests
  <2>3. \E field, v : Change(l, t, field, v)
    BY <1>2 DEF SwitchLoads
  <2>4. raced' = (raced \/ Racing(t))
    BY <1>2 DEF SwitchLoads
  <2> QED
    BY <2>1, <2>2, <2>3, <2>4 DEF Changes
<1>3. ASSUME NEW p \in plan.presets, SwitchBegins(l, p)
      PROVE  Untouched /\ PhasesGoOn /\ Waits(SwitchThread(l))
  <2>1. UNCHANGED <<phase, current>> /\ Untouched
    BY <1>3, Zenon DEF SwitchBegins, Untouched, settingsVars, processVars, ghostVars
  <2>2. Artefact(p) # JSON /\ FromArtefact(Artefact(p)) \in Presets
    <3>1. p \in Presets
      BY BootAssumption
    <3> QED
      BY <3>1, PresetsNameNone
  <2>3. Begins(SwitchThread(l))
    BY <1>3, <2>2, MainIsThread DEF SwitchBegins, Begins
  <2> QED
    BY <2>1, <2>3, StaysOn DEF Waits
<1>4. ASSUME SwitchFails(l)
      PROVE  Untouched /\ PhasesGoOn /\ Waits(SwitchThread(l))
  <2>1. UNCHANGED <<phase, current>> /\ Untouched /\ Rests(SwitchThread(l))
    BY <1>4, Zenon DEF SwitchFails, Untouched, settingsVars, processVars, ghostVars
  <2> QED
    BY <2>1, StaysOn DEF Waits
<1>5. ASSUME JobStarts(l) \/ JobEnds(l)
      PROVE  Untouched /\ PhasesGoOn /\ Waits(MainThread(l))
  <2>1. UNCHANGED <<phase, current, task>> /\ Untouched
    BY <1>5, Zenon DEF JobStarts, JobEnds, Untouched, settingsVars, artefactVars, ghostVars
  <2> QED
    BY <2>1, StaysOn DEF Waits
<1> QED
  BY <1>1, <1>2, <1>3, <1>4, <1>5, MainIsThread, Zenon DEF Runs

LEMMA EndingWaitsOrDies ==
  ASSUME SaveInv, NEW l \in Launches, Ends(l)
  PROVE  (Untouched /\ PhasesGoOn /\ UNCHANGED task) \/ Dies(l)
<1>1. CASE Dies(l)
  BY <1>1
<1>2. CASE UNCHANGED <<phase, current, task>> /\ Untouched
  BY <1>2, StaysOn
<1>3. Dies(l) \/ (UNCHANGED <<phase, current, task>> /\ Untouched)
  BY Zenon DEF Ends, CloseRequested, SignalReceived, WindowClosed, Answer, StopWorker, Withdraw, Exit,
               Crash, QuitOnly, Untouched, settingsVars, artefactVars, processVars, ghostVars
<1> QED
  BY <1>1, <1>2, <1>3

LEMMA SaveStepwise ==
  ASSUME SaveInv, PresetsInv, plan \in Plans, [Next]_vars
  PROVE  SaveInv'
<1>1. ASSUME Untouched, PhasesGoOn, \E t \in Threads : Waits(t) PROVE SaveInv'
  BY <1>1, WaitingKeepsSettings
<1>2. ASSUME UNCHANGED <<phase, current, task>>, Untouched PROVE SaveInv'
  <2>1. SaveInv' <=> SaveInv
    BY <1>2, Zenon DEF SaveInv, Shapes, ThreadsInv, Elsewhere, Alone, At, Untouched, fileVars
  <2> QED
    BY <2>1
<1>3. CASE UNCHANGED vars
  <2>1. UNCHANGED <<phase, current, task>> /\ Untouched
    BY <1>3, Zenon DEF vars, Untouched, settingsVars, artefactVars, processVars, ghostVars
  <2> QED
    BY <1>2, <2>1
<1>4. ASSUME NEW l \in Launches, Boots(l) \/ Runs(l) \/ Ends(l) PROVE SaveInv'
  <2>1. CASE Boots(l)
    BY <1>1, <2>1, BootingWaits
  <2>2. CASE Runs(l)
    BY <1>1, <2>2, RunningWaitsOrChanges, ChangingKeepsSettings
  <2>3. CASE Ends(l)
    <3>1. ASSUME Untouched, PhasesGoOn, UNCHANGED task PROVE SaveInv'
      BY <1>1, <3>1, MainIsThread DEF Waits
    <3> QED
      BY <2>3, <3>1, EndingWaitsOrDies, DyingKeepsSettings
  <2> QED
    BY <1>4, <2>1, <2>2, <2>3
<1>5. ASSUME NEW t \in Threads, Fetching(t[1], t) PROVE SaveInv'
  <2>1. TaskStep(t) /\ UNCHANGED <<writing, phase, current, raced, committed>>
    BY <1>5, Zenon DEF Fetching, settingsVars, processVars, ghostVars
  <2> QED
    BY <2>1, FetchingKeepsSettings
<1>6. ASSUME NEW n \in Names, ServiceAnswers(n) PROVE SaveInv'
  <2>1. UNCHANGED <<phase, current, task>> /\ Untouched
    BY <1>6, Zenon DEF ServiceAnswers, Untouched, settingsVars, artefactVars, processVars, ghostVars
  <2> QED
    BY <1>2, <2>1
<1> QED
  BY <1>3, <1>4, <1>5, <1>6, SavingKeepsSettings, Zenon DEF Next

-----------------------------------------------------------------------------
(* The preset a launch will load *)

LEMMA ReconciledKeepsPreset ==
  ASSUME NEW s, IsSettings(s)
  PROVE  Reconciled(s).preset = s.preset
  BY DEF Reconciled, IsSettings

LEMMA LoadedIsPreset ==
  ASSUME NEW content
  PROVE  Load(content).preset \in Presets
<1>1. Defaults.preset \in Presets
  BY DEF Defaults, Presets, DEFAULT_PRESET
<1>2. IntoSettings(Head(content)).preset \in Presets
  <2> DEFINE doc == Head(content)
             s == [preset |-> IF FromArtefact(doc.model) \in Presets
                              THEN FromArtefact(doc.model) ELSE Defaults.preset,
                   format |-> IF doc.output_format \in StemFormats
                              THEN doc.output_format ELSE Defaults.format,
                   rate   |-> IF doc.output_sample_rate \in OutputRates
                              THEN doc.output_sample_rate ELSE Defaults.rate]
  <2>1. IsSettings(s) /\ s.preset \in Presets
    BY <1>1 DEF IsSettings
  <2>2. IntoSettings(doc) = Reconciled(s)
    BY DEF IntoSettings
  <2> HIDE DEF s
  <2> QED
    BY <2>1, <2>2, ReconciledKeepsPreset
<1> QED
  BY <1>1, <1>2 DEF Load

LEMMA PinKeepsPreset ==
  ASSUME NEW l, NEW s, IsSettings(s)
  PROVE  Pin(l, s).preset = s.preset
<1> DEFINE f == IF Args(l).output_format = None THEN s.format ELSE Args(l).output_format
           r == IF Args(l).output_sample_rate = None THEN s.rate
                ELSE Args(l).output_sample_rate
           pinned == [s EXCEPT !.format = f]
<1>1. Pin_Loose(l, s) = [[s EXCEPT !.format = f] EXCEPT !.rate = r]
  BY Zenon DEF Pin_Loose
<1> HIDE DEF f, r
<1>2. IsSettings(pinned) /\ pinned.preset = s.preset
  BY WithFormat DEF IsSettings
<1> HIDE DEF pinned
<1>3. [pinned EXCEPT !.rate = r] = [preset |-> pinned.preset, format |-> pinned.format, rate |-> r]
  BY <1>2, WithRate
<1>4. IsSettings(Pin_Loose(l, s)) /\ Pin_Loose(l, s).preset = s.preset
  BY <1>1, <1>2, <1>3 DEF IsSettings, pinned
<1> QED
  BY <1>4, ReconciledKeepsPreset DEF Pin

LEMMA PresetsStep ==
  ASSUME SettingsInv, SaveInv, PresetsInv, [Next]_vars
  PROVE  PresetsInv'
<1>0. DOMAIN current = Launches /\ \A l \in Launches : IsSettings(current[l])
  BY DEF SettingsInv, IsCarried
<1>1. CASE UNCHANGED <<saved, current>>
  BY <1>1 DEF PresetsInv
<1>2. ASSUME NEW l \in Launches, OpenSettings(l) PROVE PresetsInv'
  <2> DEFINE s == Load(disk[JSON])
  <2>1. current' = [current EXCEPT ![l] = Pin(l, s)]
    BY <1>2 DEF OpenSettings
  <2>2. Pin(l, s).preset \in Presets
    BY LoadIsCarried, LoadedIsPreset, PinKeepsPreset DEF IsCarried
  <2> HIDE DEF s
  <2> QED
    BY <1>0, <2>1, <2>2 DEF PresetsInv
<1>3. ASSUME NEW l \in Launches, NEW t, NEW field \in {"preset", "format", "rate"}, NEW v,
             Change(l, t, field, v), field = "preset" => v \in Presets
      PROVE  PresetsInv'
  <2> DEFINE c == [current[l] EXCEPT ![field] = v]
  <2>1. current' = [current EXCEPT ![l] = Reconciled(c)]
    BY <1>3, Zenon DEF Change
  <2>2. IsSettings(c) /\ c.preset \in Presets
    <3>1. IsSettings(current[l]) /\ current[l].preset \in Presets
      BY <1>0 DEF PresetsInv
    <3>2. CASE field = "preset"
      BY <1>3, <3>1, <3>2, WithPreset DEF IsSettings
    <3>3. CASE field = "format"
      BY <3>1, <3>3, WithFormat DEF IsSettings
    <3>4. CASE field = "rate"
      BY <3>1, <3>4, WithRate DEF IsSettings
    <3> QED
      BY <1>3, <3>2, <3>3, <3>4
  <2> HIDE DEF c
  <2>3. Reconciled(c).preset \in Presets
    BY <2>2, ReconciledKeepsPreset
  <2> QED
    BY <1>0, <2>1, <2>3 DEF PresetsInv
<1>4. ASSUME NEW l \in Launches, Is(SwitchThread(l), "ready")
      PROVE  FromArtefact(task[SwitchThread(l)].name) \in Presets
  BY <1>4, MainIsThread, FetchingFacts DEF Is, SaveInv
<1> QED
  BY <1>1, <1>2, <1>3, <1>4, FewStepsChangeSettings

-----------------------------------------------------------------------------
(* The theorem *)

\* What both theorems lean on.
SettingsKept == SettingsInv /\ SaveInv /\ PresetsInv /\ plan \in Plans

LEMMA SettingsBegin == ASSUME Init PROVE SettingsKept
<1>1. SettingsInv
  BY DEF Init, SettingsInit, SettingsInv, IsCarried, IsSettings, Defaults, Carries
<1>2. Shapes /\ ThreadsInv /\ Alone
  <2>1. /\ DOMAIN disk = Paths /\ DOMAIN part = Paths
        /\ handle = [t \in Threads |-> None] /\ writing = [t \in Threads |-> None]
        /\ task = [t \in Threads |-> None] /\ phase = [l \in Launches |-> "off"]
        /\ DOMAIN current = Launches /\ Load(disk[JSON]) = committed
    BY Zenon DEF Init, SettingsInit, ArtefactInit
  <2>2. Shapes
    BY <2>1 DEF Shapes
  <2>3. ThreadsInv
    BY <2>1, MainIsThread DEF ThreadsInv, Elsewhere, At, Up
  <2>4. Alone
    BY <2>1 DEF Alone, At
  <2> QED
    BY <2>2, <2>3, <2>4
<1>3. PresetsInv
  <2>1. current = [l \in Launches |-> Defaults]
    BY Zenon DEF Init, SettingsInit
  <2>2. Defaults.preset \in Presets
    BY DEF Defaults, Presets, DEFAULT_PRESET
  <2> QED
    BY <2>1, <2>2 DEF PresetsInv
<1>4. plan \in Plans
  BY DEF Init
<1> QED
  BY <1>1, <1>2, <1>3, <1>4 DEF SaveInv, SettingsKept

LEMMA SettingsGoOn == ASSUME SettingsKept, [Next]_vars PROVE SettingsKept'
<1>1. plan' = plan
  BY DEF Next, vars
<1> QED
  BY <1>1, SettingsStep, SaveStepwise, PresetsStep DEF SettingsKept

\* Whoever opens settings.json finds the document that was saved last, whole,
\* whatever crashed, failed or was fetched in between, while no two threads save
\* at once (settings.rs: save, open).
THEOREM TheFileSurvives == Spec => []FileSurvives
<1>1. Init => SettingsKept
  BY SettingsBegin
<1>2. SettingsKept /\ [Next]_vars => SettingsKept'
  BY SettingsGoOn
<1>3. SettingsKept => FileSurvives
  BY DEF SettingsKept, SaveInv, Alone, FileSurvives
<1> QED
  BY <1>1, <1>2, <1>3, PTL DEF Spec

-----------------------------------------------------------------------------
(* Flags are for one run *)

\* A format the user chose: in the file a launch started from, or in a menu.
NamedFormats ==
  plan.formats \cup {Defaults.format} \cup
    (IF Parses(plan.disk[JSON]) THEN {Head(plan.disk[JSON]).output_format} ELSE {})

IsNamed(doc) == doc.output_format \in NamedFormats

\* What is written of documents, one over the other or not, is made of documents.
Docs(content) == \E S : content \in Seq(S) /\ \A d \in S : IsNamed(d)

Handles == [path : {JSON}, at : {"part", "disk", "gone"}, off : {0}]

\* Only formats the user chose are on their way to the file, also while two
\* threads have the temporary open.
FormatsInv ==
  /\ \A l \in Launches : saved[l].format \in NamedFormats
  /\ \A t \in Threads : writing[t] # None => IsNamed(writing[t].doc)
  /\ part[JSON] # None => Docs(part[JSON])
  /\ Load(disk[JSON]).format \in NamedFormats
  /\ \A t \in Threads : At(t, "fill") =>
       /\ handle[t] \in Handles
       /\ handle[t].at = "part" => Docs(part[JSON])
       /\ handle[t].at = "disk" => Docs(disk[JSON])

LEMMA ReconciledKeepsFormat ==
  ASSUME NEW s, IsSettings(s)
  PROVE  Reconciled(s).format = s.format
  BY DEF Reconciled, IsSettings

LEMMA IntoSettingsKeepsFormat ==
  ASSUME NEW doc
  PROVE  IntoSettings(doc).format \in {doc.output_format, Defaults.format}
<1> DEFINE s == [preset |-> IF FromArtefact(doc.model) \in Presets
                            THEN FromArtefact(doc.model) ELSE Defaults.preset,
                 format |-> IF doc.output_format \in StemFormats
                            THEN doc.output_format ELSE Defaults.format,
                 rate   |-> IF doc.output_sample_rate \in OutputRates
                            THEN doc.output_sample_rate ELSE Defaults.rate]
<1>1. IsSettings(s) /\ s.format \in {doc.output_format, Defaults.format}
  BY DEF IsSettings
<1>2. IntoSettings(doc) = Reconciled(s)
  BY DEF IntoSettings
<1> HIDE DEF s
<1> QED
  BY <1>1, <1>2, ReconciledKeepsFormat

LEMMA DocsLoadNamed ==
  ASSUME NEW content, Docs(content)
  PROVE  Load(content).format \in NamedFormats
<1>1. CASE Parses(content)
  <2>1. PICK S : content \in Seq(S) /\ \A d \in S : IsNamed(d)
    BY DEF Docs
  <2>2. content # <<>>
    BY <1>1 DEF Parses
  <2>3. Head(content) \in S
    BY <2>1, <2>2
  <2> QED
    BY <1>1, <2>1, <2>3, IntoSettingsKeepsFormat DEF Load, IsNamed, NamedFormats
<1>2. CASE ~Parses(content)
  BY <1>2 DEF Load, NamedFormats
<1> QED
  BY <1>1, <1>2

LEMMA WrittenOverIsDocs ==
  ASSUME NEW content, Docs(content), NEW doc, IsNamed(doc)
  PROVE  Docs(WriteAt(content, 0, Text(doc)))
<1>1. PICK S : content \in Seq(S) /\ \A d \in S : IsNamed(d)
  BY DEF Docs
<1> DEFINE cells == Text(doc)
           n == Longer(Len(content), 0 + Len(cells))
           w == [i \in 1 .. n |-> IF i > 0 /\ i <= 0 + Len(cells) THEN cells[i - 0]
                                  ELSE IF i <= Len(content) THEN content[i] ELSE "hole"]
<1>2. Len(cells) \in Nat /\ \A i \in 1 .. Len(cells) : cells[i] = doc
  BY DEF Text
<1>3. WriteAt(content, 0, cells) = w
  BY DEF WriteAt
<1> HIDE DEF cells
<1>4. Len(content) \in Nat /\ \A i \in 1 .. Len(content) : content[i] \in S
  BY <1>1
<1>5. n \in Nat /\ (n = Len(content) \/ n = Len(cells))
  BY <1>2, <1>4 DEF Longer
<1> HIDE DEF n
<1>6. \A i \in 1 .. n : w[i] \in S \cup {doc}
  BY <1>2, <1>4, <1>5
<1>7. w \in Seq(S \cup {doc})
  BY <1>5, <1>6
<1> QED
  BY <1>1, <1>3, <1>7 DEF Docs, cells

\* What can happen to the settings.
LEMMA FewStepsReachTheFile ==
  ASSUME [Next]_vars
  PROVE  \/ UNCHANGED <<fileVars, saved, writing>>
         \/ \E l \in Launches : OpenSettings(l) /\ UNCHANGED fileVars
         \/ \E l \in Launches : \E t \in Threads : \E field \in {"preset", "format", "rate"} : \E v :
              /\ Change(l, t, field, v) /\ UNCHANGED fileVars
              /\ field = "format" => v \in plan.formats
         \/ \E t \in Threads : TaskStep(t) /\ UNCHANGED <<saved, writing>>
         \/ \E t \in Threads : Saves(t)
         \/ \E l \in Launches : Dies(l)
<1>1. CASE UNCHANGED vars
  BY <1>1, Zenon DEF vars, settingsVars
<1>2. ASSUME NEW l \in Launches, Boots(l)
      PROVE  UNCHANGED fileVars /\ (UNCHANGED <<saved, writing>> \/ OpenSettings(l))
  BY <1>2, Zenon DEF Boots, BindPort, ReadSettings, OpenStemCache, LoadModel, QueueStarts,
                     LoadFails, Advertise, InstallCuda, settingsVars
<1>3. ASSUME NEW l \in Launches, Ends(l)
      PROVE  Dies(l) \/ UNCHANGED <<fileVars, saved, writing>>
  BY <1>3, Zenon DEF Ends, CloseRequested, SignalReceived, WindowClosed, Answer, StopWorker,
                     Withdraw, Exit, Crash, QuitOnly, settingsVars
<1>4. ASSUME NEW l \in Launches, Runs(l)
      PROVE  /\ UNCHANGED fileVars
             /\ \/ UNCHANGED <<saved, writing>>
                \/ \E v : Change(l, SwitchThread(l), "preset", v)
                \/ \E v : Change(l, MainThread(l), "rate", v)
                \/ \E v \in plan.formats : Change(l, MainThread(l), "format", v)
  BY <1>4, Zenon DEF Runs, PickFromMenu, SwitchBegins, SwitchLoads, SwitchFails, JobStarts, JobEnds,
                     settingsVars
<1>5. ASSUME NEW t \in Threads, Fetching(t[1], t)
      PROVE  TaskStep(t) /\ UNCHANGED <<saved, writing>>
  BY <1>5, Zenon DEF Fetching, settingsVars
<1>6. ASSUME NEW n \in Names, ServiceAnswers(n)
      PROVE  UNCHANGED <<fileVars, saved, writing>>
  BY <1>6, Zenon DEF ServiceAnswers, settingsVars
<1>7. ASSUME NEW l \in Launches, Runs(l)
      PROVE  \/ UNCHANGED <<fileVars, saved, writing>>
             \/ \E t \in Threads : \E field \in {"preset", "format", "rate"} : \E v :
                  /\ Change(l, t, field, v) /\ UNCHANGED fileVars
                  /\ field = "format" => v \in plan.formats
  BY <1>4, <1>7, MainIsThread
<1> QED
  BY <1>1, <1>2, <1>3, <1>5, <1>6, <1>7, Zenon DEF Next

LEMMA SavingKeepsFormats ==
  ASSUME Shapes, ThreadsInv, FormatsInv, UNCHANGED plan, NEW t \in Threads, Saves(t)
  PROVE  FormatsInv'
<1>1. SavesOn(t)
  BY SavingFrame
<1>2. UNCHANGED <<saved, NamedFormats>>
  BY DEF Saves, SaveStep, NamedFormats
<1>3. /\ \A d : IsNamed(d)' <=> IsNamed(d)
      /\ \A c : Docs(c)' <=> Docs(c)
      /\ \A l \in Launches : saved'[l].format \in NamedFormats'
  BY <1>2 DEF IsNamed, Docs, FormatsInv
\* Of a thread that is at its document still, the file and its temporary.
<1>4. ASSUME NEW u \in Threads, At(u, "fill")
      PROVE  /\ DOMAIN handle[u] = {"path", "at", "off"} /\ handle[u] # None
             /\ handle[u].path = JSON /\ handle[u].off = 0
             /\ handle[u].at \in {"part", "disk", "gone"}
             /\ handle[u] = [path |-> JSON, at |-> handle[u].at, off |-> 0]
             /\ handle[u] \in Handles
             /\ handle[u].at = "part" => Docs(part[JSON])
             /\ handle[u].at = "disk" => Docs(disk[JSON])
  <2>1. handle[u] \in Handles
    BY <1>4 DEF FormatsInv
  <2>2. handle[u] # None
    BY <2>1, BootAssumption DEF Handles
  <2> QED
    BY <1>4, <2>1, <2>2 DEF FormatsInv, Handles
<1>5. ASSUME NEW u \in Threads \ {t}, At(u, "fill")' PROVE At(u, "fill")
  BY <1>1, <1>5 DEF SavesOn, At
<1>6. CASE SaveCreate(t)
  <2>1. At(t, "create") /\ Create(t, JSON) /\ writing' = [writing EXCEPT ![t].at = "fill"]
    BY <1>6 DEF SaveCreate, OnTo
  <2>2. /\ part'[JSON] = <<>> /\ disk' = disk
        /\ handle'[t] = [path |-> JSON, at |-> "part", off |-> 0]
        /\ \A u \in Threads \ {t} : handle'[u] = handle[u]
    BY <2>1, BootAssumption DEF Create, Shapes
  <2>3. Docs(<<>>)
    <3>1. \E S : S = {}
      OBVIOUS
    <3>2. PICK S : S = {}
      BY <3>1
    <3>3. <<>> \in Seq(S) /\ \A d \in S : IsNamed(d)
      BY <3>2
    <3> QED
      BY <3>3, Zenon DEF Docs
  <2>4. writing[t] # None /\ writing'[t].doc = writing[t].doc
    BY <2>1 DEF At, Shapes
  <2>5. \A u \in Threads : writing'[u] # None => IsNamed(writing'[u].doc)
    BY <1>1, <2>4 DEF FormatsInv, SavesOn
  <2>6. ASSUME NEW u \in Threads, At(u, "fill")'
        PROVE  /\ handle'[u] \in Handles
               /\ handle'[u].at = "part" => Docs(part'[JSON])
               /\ handle'[u].at = "disk" => Docs(disk'[JSON])
    <3>1. CASE u = t
      BY <2>2, <2>3, <3>1 DEF Handles
    <3>2. CASE u # t
      <4>1. At(u, "fill") /\ handle'[u] = handle[u]
        BY <1>5, <2>2, <2>6, <3>2
      <4> QED
        BY <1>4, <2>2, <2>3, <4>1
    <3> QED
      BY <3>1, <3>2
  <2> QED
    BY <1>2, <1>3, <2>2, <2>3, <2>5, <2>6 DEF FormatsInv
<1>7. CASE SaveFill(t)
  <2> DEFINE doc == writing[t].doc
             over(content) == WriteAt(content, 0, Text(doc))
  <2>1. /\ At(t, "fill") /\ Put(t, Text(doc)) /\ writing' = [writing EXCEPT ![t].at = "rename"]
    BY <1>7 DEF SaveFill, OnTo
  <2>2. /\ writing[t] # None /\ IsNamed(doc) /\ writing'[t].doc = doc /\ ~At(t, "fill")'
    BY <2>1 DEF At, Shapes, FormatsInv
  <2>3. \A u \in Threads \ {t} : handle'[u] = handle[u]
    BY <2>1 DEF Put, Shapes
  <2>4. /\ part' = IF handle[t].at = "part" THEN [part EXCEPT ![JSON] = over(part[JSON])] ELSE part
        /\ disk' = IF handle[t].at = "disk" THEN [disk EXCEPT ![JSON] = over(disk[JSON])] ELSE disk
    <3>1. handle[t].path = JSON /\ handle[t].off = 0
      BY <1>4, <2>1
    <3> QED
      BY <2>1, <3>1, Zenon DEF Put
  <2>5. \A c : Docs(c) => Docs(over(c))
    BY <2>2, WrittenOverIsDocs
  <2> HIDE DEF over
  <2>6. /\ part'[JSON] = part[JSON] \/ (Docs(part[JSON]) /\ Docs(part'[JSON]))
        /\ disk'[JSON] = disk[JSON] \/ (Docs(disk[JSON]) /\ Docs(disk'[JSON]))
    BY <1>4, <2>1, <2>4, <2>5, BootAssumption DEF Shapes
  <2>7. /\ part'[JSON] # None => Docs(part'[JSON])
        /\ Load(disk'[JSON]).format \in NamedFormats
    BY <2>6, DocsLoadNamed DEF FormatsInv
  <2>8. \A u \in Threads : writing'[u] # None => IsNamed(writing'[u].doc)
    BY <1>1, <2>2 DEF FormatsInv, SavesOn
  <2>9. ASSUME NEW u \in Threads, At(u, "fill")'
        PROVE  /\ handle'[u] \in Handles
               /\ handle'[u].at = "part" => Docs(part'[JSON])
               /\ handle'[u].at = "disk" => Docs(disk'[JSON])
    <3>1. At(u, "fill") /\ handle'[u] = handle[u]
      BY <1>5, <2>2, <2>3, <2>9
    <3>2. part'[JSON] = part[JSON] \/ Docs(part'[JSON])
      BY <2>6
    <3>3. disk'[JSON] = disk[JSON] \/ Docs(disk'[JSON])
      BY <2>6
    <3> QED
      BY <1>4, <3>1, <3>2, <3>3
  <2> QED
    BY <1>2, <1>3, <2>7, <2>8, <2>9 DEF FormatsInv
<1>8. CASE SaveRename(t)
  <2>1. /\ part[JSON] # None /\ disk' = [disk EXCEPT ![JSON] = part[JSON]]
        /\ part' = [part EXCEPT ![JSON] = None]
        /\ handle' = [u \in Threads |-> IF u = t THEN None ELSE Moved(handle[u], JSON)]
        /\ writing' = [writing EXCEPT ![t] = None]
    BY <1>8 DEF SaveRename, Rename
  <2>2. Docs(part[JSON]) /\ disk'[JSON] = part[JSON] /\ part'[JSON] = None /\ writing'[t] = None
    BY <2>1, BootAssumption DEF FormatsInv, Shapes
  <2>3. \A u \in Threads : writing'[u] # None => IsNamed(writing'[u].doc)
    BY <1>1, <2>2 DEF FormatsInv, SavesOn
  <2>4. ASSUME NEW u \in Threads, At(u, "fill")'
        PROVE  /\ handle'[u] \in Handles
               /\ handle'[u].at # "part"
    <3>1. u # t
      BY <2>2, <2>4 DEF At
    <3>2. At(u, "fill")
      BY <1>5, <2>4, <3>1
    <3> DEFINE h == handle[u]
    <3>3. /\ h = [path |-> JSON, at |-> h.at, off |-> 0] /\ h # None
          /\ h.at \in {"part", "disk", "gone"}
      BY <1>4, <3>2
    <3>4. handle'[u] = Moved(h, JSON)
      BY <2>1, <3>1
    <3> HIDE DEF h
    <3>5. Moved(h, JSON) = [path |-> JSON, at |-> IF h.at = "part" THEN "disk" ELSE "gone", off |-> 0]
      BY <3>3 DEF Moved
    <3> QED
      BY <3>4, <3>5 DEF Handles
  <2>5. Load(disk'[JSON]).format \in NamedFormats
    BY <2>2, DocsLoadNamed
  <2> QED
    BY <1>2, <1>3, <2>2, <2>3, <2>4, <2>5 DEF FormatsInv
<1>9. CASE SaveFails(t)
  <2>1. /\ UNCHANGED <<disk, part>> /\ writing'[t] = None
        /\ \A u \in Threads \ {t} : handle'[u] = handle[u]
    BY <1>9 DEF SaveFails, Close, Shapes
  <2>2. \A u \in Threads : writing'[u] # None => IsNamed(writing'[u].doc)
    BY <1>1, <2>1 DEF FormatsInv, SavesOn
  <2>3. ASSUME NEW u \in Threads, At(u, "fill")'
        PROVE  /\ handle'[u] \in Handles
               /\ handle'[u].at = "part" => Docs(part'[JSON])
               /\ handle'[u].at = "disk" => Docs(disk'[JSON])
    <3>1. u # t
      BY <2>1, <2>3 DEF At
    <3> QED
      BY <1>5, <2>1, <2>3, <3>1 DEF FormatsInv
  <2> QED
    BY <1>2, <1>3, <2>1, <2>2, <2>3 DEF FormatsInv
<1> QED
  BY <1>6, <1>7, <1>8, <1>9 DEF Saves, SaveStep, SaveGone

LEMMA FormatsStep ==
  ASSUME SettingsInv, SaveInv, FormatsInv, [Next]_vars
  PROVE  FormatsInv'
<1>1. plan' = plan
  BY DEF Next, vars
<1>2. /\ NamedFormats' = NamedFormats
      /\ \A d : IsNamed(d)' <=> IsNamed(d)
      /\ \A c : Docs(c)' <=> Docs(c)
  BY <1>1 DEF NamedFormats, IsNamed, Docs
<1>3. Shapes /\ ThreadsInv
  BY DEF SaveInv
<1>4. ASSUME UNCHANGED <<fileVars, saved, writing>> PROVE FormatsInv'
  BY <1>2, <1>4 DEF FormatsInv, fileVars, At
<1>5. ASSUME NEW l \in Launches, OpenSettings(l), UNCHANGED fileVars PROVE FormatsInv'
  <2>1. saved' = [saved EXCEPT ![l] = Load(disk[JSON])] /\ UNCHANGED writing
    BY <1>5 DEF OpenSettings
  <2>2. \A k \in Launches : saved'[k].format \in NamedFormats
    BY <2>1 DEF FormatsInv, SettingsInv
  <2> QED
    BY <1>2, <1>5, <2>1, <2>2 DEF FormatsInv, fileVars, At
<1>6. ASSUME NEW l \in Launches, NEW t \in Threads, NEW field \in {"preset", "format", "rate"}, NEW v,
             Change(l, t, field, v), UNCHANGED fileVars, field = "format" => v \in plan.formats
      PROVE  FormatsInv'
  <2> DEFINE s == [saved[l] EXCEPT ![field] = v]
  <2>1. /\ saved' = [saved EXCEPT ![l] = Reconciled(s)]
        /\ writing' = [writing EXCEPT ![t] =
             [doc |-> FromSettings(Serialised(l, saved'[l], current'[l])), at |-> "create"]]
    BY <1>6, Zenon DEF Change
  <2>2. IsSettings(s) /\ s.format \in NamedFormats
    <3>1. IsSettings(saved[l]) /\ saved[l].format \in NamedFormats
      BY DEF SettingsInv, IsCarried, FormatsInv
    <3>2. CASE field = "preset"
      BY <3>1, <3>2, WithPreset DEF IsSettings
    <3>3. CASE field = "format"
      <4>1. v \in NamedFormats
        BY <1>6, <3>3 DEF NamedFormats
      <4> QED
        BY <3>1, <3>3, <4>1, WithFormat DEF IsSettings
    <3>4. CASE field = "rate"
      BY <3>1, <3>4, WithRate DEF IsSettings
    <3> QED
      BY <3>2, <3>3, <3>4
  <2> HIDE DEF s
  <2>3. saved'[l].format \in NamedFormats /\ \A k \in Launches : saved'[k].format \in NamedFormats
    BY <2>1, <2>2, ReconciledKeepsFormat DEF SettingsInv, FormatsInv
  <2>4. writing'[t].at = "create" /\ IsNamed(writing'[t].doc)
    BY <1>3, <2>1, <2>3 DEF Shapes, IsNamed, FromSettings, Serialised
  <2>5. \A u \in Threads \ {t} : writing'[u] = writing[u]
    BY <1>3, <2>1 DEF Shapes
  <2> QED
    BY <1>2, <1>6, <2>3, <2>4, <2>5 DEF FormatsInv, fileVars, At
<1>7. ASSUME NEW t \in Threads, TaskStep(t), UNCHANGED <<saved, writing>> PROVE FormatsInv'
  <2>1. /\ disk'[JSON] = disk[JSON] /\ part'[JSON] = part[JSON] /\ writing[t] = None
        /\ \A u \in Threads \ {t} : handle[u].path = JSON => handle'[u] = handle[u]
    BY <1>3, <1>7, TaskLeaves, FetchingFacts DEF Leaves, LeavesIt
  <2>2. \A u \in Threads : At(u, "fill") => u # t /\ handle[u].path = JSON
    BY <2>1 DEF FormatsInv, Handles, At
  <2> QED
    BY <1>2, <1>7, <2>1, <2>2 DEF FormatsInv, At
<1>8. ASSUME NEW l \in Launches, Dies(l) PROVE FormatsInv'
  <2>1. /\ UNCHANGED <<disk, part, saved>>
        /\ \A u \in Threads : u[1] = l => writing'[u] = None
        /\ \A u \in Threads : u[1] # l => writing'[u] = writing[u] /\ handle'[u] = handle[u]
    BY <1>3, <1>8 DEF Dies, Close, ThreadsOf, Shapes
  <2> QED
    BY <1>2, <2>1 DEF FormatsInv, At
<1> QED
  BY <1>1, <1>3, <1>4, <1>5, <1>6, <1>7, <1>8, FewStepsReachTheFile, SavingKeepsFormats

LEMMA FormatsBegin == ASSUME Init PROVE FormatsInv
<1>1. /\ saved = [l \in Launches |-> Defaults] /\ writing = [t \in Threads |-> None]
      /\ part[JSON] = None
      /\ disk[JSON] = IF JSON \in DOMAIN plan.disk THEN plan.disk[JSON] ELSE None
  BY BootAssumption DEF Init, SettingsInit
<1>2. Load(disk[JSON]).format \in NamedFormats
  <2>1. CASE Parses(disk[JSON])
    <3>1. disk[JSON] = plan.disk[JSON]
      BY <1>1, <2>1 DEF Parses
    <3> QED
      BY <2>1, <3>1, IntoSettingsKeepsFormat DEF Load, NamedFormats
  <2>2. CASE ~Parses(disk[JSON])
    BY <2>2 DEF Load, NamedFormats
  <2> QED
    BY <2>1, <2>2
<1> QED
  BY <1>1, <1>2 DEF FormatsInv, At, NamedFormats

\* A flag's format gets into no document and no copy that is saved, whichever
\* threads save at once (settings.rs: pin, write).
THEOREM FlagsAreForOneRun == Spec => []FlagsStayOut
<1> DEFINE Inv == SettingsKept /\ FormatsInv
<1>1. Init => Inv
  BY SettingsBegin, FormatsBegin
<1>2. Inv /\ [Next]_vars => Inv'
  BY SettingsGoOn, FormatsStep DEF SettingsKept
<1>3. Inv => FlagsStayOut
  BY DEF FormatsInv, FlagsStayOut, NamedFormats
<1> QED
  BY <1>1, <1>2, <1>3, PTL DEF Spec

-----------------------------------------------------------------------------
(* What a step of a thread can reach *)

ZIP == "cudnn.zip"
DLL == "cudnn.dll"
ModelFiles == {"htdemucs", "htdemucs_ft", "bs_polarformer"}

LEMMA NamesOfFiles ==
  /\ COMPONENTS = <<ZIP>> /\ ToSet(COMPONENTS) = {ZIP} /\ \A z : Library(z) = DLL
  /\ Libraries = {DLL}
  /\ ModelFiles \cup {ZIP, DLL} \subseteq Paths
  /\ ZIP \notin ModelFiles /\ DLL \notin ModelFiles /\ JSON \notin ModelFiles
  /\ ZIP # DLL /\ ZIP # JSON /\ DLL # JSON
<1>1. COMPONENTS = <<ZIP>> /\ ToSet(COMPONENTS) = {ZIP} /\ \A z : Library(z) = DLL
  BY DEF COMPONENTS, ToSet, Library, ZIP, DLL
<1>2. Libraries = {DLL}
  BY <1>1 DEF Libraries
<1>3. ModelFiles \subseteq Paths
  <2>1. /\ "Fast" \in Presets /\ "Balanced" \in Presets /\ "Quality" \in Presets
        /\ Artefacts("Fast") = <<"htdemucs">> /\ Artefacts("Balanced") = <<"htdemucs_ft">>
        /\ Artefacts("Quality") = <<"bs_polarformer", "htdemucs_ft">>
    BY DEF Presets, Artefacts
  <2>2. /\ "htdemucs" \in ToSet(<<"htdemucs">>) /\ "htdemucs_ft" \in ToSet(<<"htdemucs_ft">>)
        /\ "bs_polarformer" \in ToSet(<<"bs_polarformer", "htdemucs_ft">>)
    BY DEF ToSet
  <2> QED
    BY <2>1, <2>2, BootAssumption DEF ModelFiles
<1> QED
  BY <1>1, <1>2, <1>3, BootAssumption DEF ModelFiles, ZIP, DLL, JSON

LEMMA FilesOfPresets ==
  ASSUME NEW name, IsPreset(name)
  PROVE  /\ name # "cuda" /\ Wanted(name) = Files(name)
         /\ ToSet(Files(name)) \subseteq ModelFiles
<1>1. \A p \in Presets : ToSet(Artefacts(p)) \subseteq ModelFiles
  <2>1. /\ Artefacts("Fast") = <<"htdemucs">> /\ Artefacts("Balanced") = <<"htdemucs_ft">>
        /\ Artefacts("Quality") = <<"bs_polarformer", "htdemucs_ft">>
    BY DEF Artefacts
  <2>2. \A a, b : ToSet(<<a>>) = {a} /\ ToSet(<<a, b>>) = {a, b}
    BY DEF ToSet
  <2> QED
    BY <2>1, <2>2 DEF Presets, ModelFiles
<1>2. FromArtefact(name) \in Presets /\ "custom" \notin Presets
  BY DEF IsPreset, Presets
<1>3. Files(name) = Artefacts(FromArtefact(name))
  BY <1>2 DEF Files
<1>4. name # "cuda"
  <2>1. \A p \in Presets : Artefact(p) # "cuda"
    BY DEF Presets, Artefact, Artefacts
  <2>2. FromArtefact("cuda") = "custom"
    BY <2>1 DEF FromArtefact
  <2> QED
    BY <1>2, <2>2
<1> QED
  BY <1>1, <1>2, <1>3, <1>4 DEF Wanted

\* The files a task is at.
Reach(tk) == ToSet(Wanted(tk.name)) \cup (IF tk.name = "cuda" THEN {DLL} ELSE {})

\* Nothing but the files fs, and what others have open of them, is touched.
TouchesOnly(t, fs) ==
  /\ \A f \in Paths \ fs : disk'[f] = disk[f] /\ part'[f] = part[f]
  /\ \A u \in Threads \ {t} : handle[u].path \notin fs => handle'[u] = handle[u]

LEMMA FileStepsTouch ==
  ASSUME Shapes, NEW t \in Threads, NEW f, NEW fs, f \in fs
  PROVE  /\ Create(t, f) => TouchesOnly(t, fs)
         /\ Rename(t, f) => TouchesOnly(t, fs)
         /\ RemovePart(t, f) => TouchesOnly(t, fs)
<1>1. ASSUME Create(t, f) PROVE TouchesOnly(t, fs)
  BY <1>1 DEF Create, TouchesOnly, Shapes
<1>2. ASSUME Rename(t, f) PROVE TouchesOnly(t, fs)
  <2>1. \A u \in Threads \ {t} : handle'[u] = Moved(handle[u], f)
    BY <1>2 DEF Rename
  <2>2. \A u \in Threads : handle[u].path \notin fs => Moved(handle[u], f) = handle[u]
    BY DEF Moved
  <2> QED
    BY <1>2, <2>1, <2>2 DEF Rename, TouchesOnly, Shapes
<1>3. ASSUME RemovePart(t, f) PROVE TouchesOnly(t, fs)
  <2>1. \A u \in Threads \ {t} : handle'[u] = Unlinked(handle[u], {f}, "part")
    BY <1>3 DEF RemovePart
  <2>2. \A u \in Threads : handle[u].path \notin fs => Unlinked(handle[u], {f}, "part") = handle[u]
    BY DEF Unlinked
  <2> QED
    BY <1>3, <2>1, <2>2 DEF RemovePart, TouchesOnly, Shapes
<1> QED
  BY <1>1, <1>2, <1>3

LEMMA OtherStepsTouch ==
  ASSUME Shapes, NEW t \in Threads, NEW fs
  PROVE  /\ Close({t}) => TouchesOnly(t, fs)
         /\ UNCHANGED fileVars => TouchesOnly(t, fs)
         /\ \A gs \in SUBSET fs : Delete(gs) => TouchesOnly(t, fs)
         /\ \A cells : handle[t].path \in fs /\ Put(t, cells) => TouchesOnly(t, fs)
<1>1. Close({t}) => TouchesOnly(t, fs)
  BY DEF Close, TouchesOnly, Shapes
<1>2. UNCHANGED fileVars => TouchesOnly(t, fs)
  BY DEF fileVars, TouchesOnly
<1>3. ASSUME NEW gs \in SUBSET fs, Delete(gs) PROVE TouchesOnly(t, fs)
  <2>1. \A u \in Threads : handle'[u] = Unlinked(handle[u], gs, "disk")
    BY <1>3 DEF Delete
  <2>2. \A u \in Threads : handle[u].path \notin fs => Unlinked(handle[u], gs, "disk") = handle[u]
    BY DEF Unlinked
  <2> QED
    BY <1>3, <2>1, <2>2 DEF Delete, TouchesOnly, Shapes
<1>4. ASSUME NEW cells, handle[t].path \in fs, Put(t, cells) PROVE TouchesOnly(t, fs)
  <2> DEFINE h == handle[t]
  <2>1. /\ part' = IF h.at = "part" THEN [part EXCEPT ![h.path] = WriteAt(part[h.path], h.off, cells)] ELSE part
        /\ disk' = IF h.at = "disk" THEN [disk EXCEPT ![h.path] = WriteAt(disk[h.path], h.off, cells)] ELSE disk
    BY <1>4, Zenon DEF Put
  <2>2. \A u \in Threads \ {t} : handle'[u] = handle[u]
    BY <1>4 DEF Put, Shapes
  <2> HIDE DEF h
  <2> QED
    BY <1>4, <2>1, <2>2 DEF TouchesOnly, Shapes, h
<1> QED
  BY <1>1, <1>2, <1>3, <1>4

-----------------------------------------------------------------------------
(* What a thread has fetched *)

\* Files the theorems are not about.
Suspect == mingled \cup spilt \cup unread

\* No two threads want one file, but the mingled.
Apart ==
  \A t, u \in Threads : t # u => Wants(task[t]) \cap Wants(task[u]) \subseteq mingled

\* Only presets are hashed, repaired or fetched, and the CUDA libraries.
KindOf(tk) ==
  /\ tk.at \notin {"resolve", "ready", "failed"} => tk.name = "cuda" \/ IsPreset(tk.name)
  /\ tk.at \in {"hash", "repair", "rehash"} \/ tk.repair => IsPreset(tk.name)
  /\ tk.at \in {"unpack", "copy", "place", "tidy"} => tk.name = "cuda"
  /\ tk.at = "repair" => tk.bad \subseteq ToSet(Files(tk.name))
  /\ tk.at = "resolve" => tk.todo = Wanted(tk.name)

\* What a thread has open.
OpenOf(t) ==
  /\ Is(t, "stream") => handle[t].path = NextFile(t)
  /\ Is(t, "copy") => handle[t].path = DLL

\* A file nobody else is at: not there, with as much of it in its temporary as
\* has been hashed.
StreamOf(t) ==
  Is(t, "stream") \/ Is(t, "check") \/ Is(t, "publish") =>
    LET f == NextFile(t) IN f \notin mingled =>
      /\ task[t].name # "cuda" => disk[f] = None
      /\ Is(t, "stream") =>
           /\ handle[t] = [path |-> f, at |-> "part", off |-> Len(task[t].seen)]
           /\ task[t].seen \in Seq({f, "bad"}) /\ Len(task[t].seen) < Chunks
           /\ part[f] = task[t].seen
      /\ Is(t, "check") /\ f \notin spilt => part[f] = task[t].seen
      /\ Is(t, "publish") /\ f \notin spilt => part[f] = Whole(f)

CopyOf(t) ==
  ZIP \notin mingled =>
    /\ Is(t, "copy") =>
         /\ handle[t] = [path |-> DLL, at |-> "part", off |-> Len(task[t].seen)]
         /\ task[t].seen \in Seq({DLL}) /\ Len(task[t].seen) < Chunks
         /\ part[DLL] = task[t].seen
    /\ Is(t, "place") => part[DLL] = Whole(DLL)

\* Of the files of a preset: those that were bad still are, those fetched are
\* whole, and all of them once it is ready.
PresetOf(t) ==
  LET name == task[t].name IN
  IsPreset(name) =>
    /\ Is(t, "repair") => \A f \in task[t].bad \ mingled : disk[f] # Whole(f)
    /\ task[t] # None /\ task[t].at \in {"fetch", "stream", "check", "publish"} /\ ~task[t].repair =>
         \A f \in ToSet(Files(name)) \ Suspect : f \in ToSet(task[t].todo) \/ disk[f] = Whole(f)
    /\ Is(t, "ready") /\ task[t].dir = "cache" =>
         \A f \in ToSet(Files(name)) \ Suspect : disk[f] = Whole(f)

OfflineOf(t) ==
  task[t] # None /\ Offline(t) /\ ~Args(t[1]).install_cuda =>
    task[t].at \in {"resolve", "hash", "ready", "failed"}

ThreadFiles(t) ==
  /\ task[t] # None => KindOf(task[t])
  /\ OpenOf(t) /\ StreamOf(t) /\ CopyOf(t) /\ PresetOf(t) /\ OfflineOf(t)

FilesInv ==
  /\ DOMAIN loaded = Launches
  /\ Apart
  /\ \A t \in Threads : ThreadFiles(t)
  /\ WeightsAreThePinned
  /\ LibrariesAreWhole

-----------------------------------------------------------------------------
(* One thread at its files *)

LEMMA AtWork ==
  ASSUME Shapes, ThreadsInv, NEW t \in Threads, task[t] # None, KindOf(task[t]),
         task[t].at \notin {"resolve", "ready", "failed"}
  PROVE  /\ ToSet(Wanted(task[t].name)) = Wants(task[t])
         /\ task[t].name = "cuda" => Wants(task[t]) = {ZIP} /\ ~IsPreset(task[t].name)
         /\ task[t].name # "cuda" =>
              /\ IsPreset(task[t].name) /\ Wants(task[t]) \subseteq ModelFiles
              /\ Wants(task[t]) = ToSet(Files(task[t].name))
         /\ task[t].todo # <<>> =>
              /\ NextFile(t) \in Wants(task[t])
              /\ \A g \in ToSet(task[t].todo) : g = NextFile(t) \/ g \in ToSet(Tail(task[t].todo))
<1>1. ToSet(Wanted(task[t].name)) = Wants(task[t])
  BY DEF Wants
<1>2. ASSUME task[t].name = "cuda" PROVE Wants(task[t]) = {ZIP} /\ ~IsPreset(task[t].name)
  <2>1. Wanted(task[t].name) = COMPONENTS
    BY <1>2 DEF Wanted
  <2> QED
    BY <1>1, <1>2, <2>1, NamesOfFiles, FilesOfPresets
<1>3. ASSUME task[t].name # "cuda"
      PROVE  /\ IsPreset(task[t].name) /\ Wants(task[t]) \subseteq ModelFiles
             /\ Wants(task[t]) = ToSet(Files(task[t].name))
  <2>1. IsPreset(task[t].name)
    BY <1>3 DEF KindOf
  <2>2. Wanted(task[t].name) = Files(task[t].name) /\ ToSet(Files(task[t].name)) \subseteq ModelFiles
    BY <2>1, FilesOfPresets
  <2> QED
    BY <1>1, <2>1, <2>2
<1>4. ASSUME task[t].todo # <<>>
      PROVE  /\ NextFile(t) \in Wants(task[t])
             /\ \A g \in ToSet(task[t].todo) : g = NextFile(t) \/ g \in ToSet(Tail(task[t].todo))
  <2> DEFINE W == ToSet(Wanted(task[t].name))
             s == task[t].todo
  <2>1. s \in Seq(W) /\ s # <<>>
    BY <1>4, FetchingFacts
  <2> HIDE DEF W, s
  <2>2. Head(s) \in W
    BY <2>1
  <2>3. ASSUME NEW g \in ToSet(s), g # Head(s) PROVE g \in ToSet(Tail(s))
    <3>1. PICK i \in 1 .. Len(s) : g = s[i]
      BY <2>1, <2>3 DEF ToSet
    <3>2. i # 1 /\ i - 1 \in 1 .. Len(Tail(s)) /\ Tail(s)[i - 1] = s[i]
      BY <2>1, <2>3, <3>1
    <3>3. i - 1 \in DOMAIN Tail(s)
      BY <2>1, <3>2
    <3> QED
      BY <3>1, <3>2, <3>3 DEF ToSet
  <2>4. NextFile(t) = Head(s)
    BY DEF NextFile, s
  <2> QED
    BY <1>1, <2>2, <2>3, <2>4 DEF W, s
<1> QED
  BY <1>1, <1>2, <1>3, <1>4

LEMMA WriteAtTheEnd ==
  ASSUME NEW S, NEW s \in Seq(S), NEW c
  PROVE  WriteAt(s, Len(s), <<c>>) = Append(s, c)
<1> DEFINE n == Len(s)
           w == [i \in 1 .. n + 1 |-> IF i > n /\ i <= n + 1 THEN <<c>>[i - n]
                                      ELSE IF i <= n THEN s[i] ELSE "hole"]
<1>1. n \in Nat /\ Len(<<c>>) = 1 /\ <<c>>[1] = c
  OBVIOUS
<1>2. Longer(n, n + 1) = n + 1
  BY <1>1 DEF Longer
<1>3. WriteAt(s, n, <<c>>) = w
  BY <1>1, <1>2 DEF WriteAt
<1>4. \A i \in 1 .. n + 1 : w[i] = IF i = n + 1 THEN c ELSE s[i]
  BY <1>1
<1>5. DOMAIN w = 1 .. n + 1
  OBVIOUS
<1>6. w \in Seq(S \cup {c}) /\ Len(w) = n + 1
  BY <1>1, <1>4
<1>7. Append(s, c) \in Seq(S \cup {c}) /\ Len(Append(s, c)) = n + 1
  BY <1>1
<1>8. \A i \in 1 .. n + 1 : w[i] = Append(s, c)[i]
  BY <1>1, <1>4
<1> HIDE DEF w
<1>9. w = Append(s, c)
  BY <1>6, <1>7, <1>8
<1> QED
  BY <1>3, <1>9

\* The thread has created the temporary of f, and nothing is in it.
LEMMA Created ==
  ASSUME Shapes, NEW t \in Threads, NEW f \in Paths, Create(t, f)
  PROVE  /\ disk' = disk /\ part'[f] = <<>>
         /\ handle'[t] = [path |-> f, at |-> "part", off |-> 0]
  BY DEF Create, Shapes

\* It appends to the temporary it has to itself.
LEMMA Appended ==
  ASSUME Shapes, NEW t \in Threads, NEW f \in Paths, NEW S, NEW s \in Seq(S), NEW c,
         handle[t] = [path |-> f, at |-> "part", off |-> Len(s)], part[f] = s, Put(t, <<c>>)
  PROVE  /\ disk' = disk /\ part'[f] = Append(s, c)
         /\ handle'[t] = [path |-> f, at |-> "part", off |-> Len(Append(s, c))]
<1>1. /\ disk' = disk /\ part' = [part EXCEPT ![f] = WriteAt(part[f], Len(s), <<c>>)]
  <2>1. handle[t].path = f /\ handle[t].at = "part" /\ handle[t].off = Len(s)
    OBVIOUS
  <2> QED
    BY <2>1, Zenon DEF Put
<1>2. handle'[t] = [handle[t] EXCEPT !.off = @ + Len(<<c>>)]
  BY DEF Put, Shapes
<1>3. Len(<<c>>) = 1 /\ Len(Append(s, c)) = Len(s) + 1
  OBVIOUS
<1>4. part'[f] = Append(s, c)
  BY <1>1, WriteAtTheEnd DEF Shapes
<1> QED
  BY <1>1, <1>2, <1>3, <1>4

\* A whole file stays whole, and the library does not become half of one.
WholeStays ==
  \A g \in Paths \ {JSON, ZIP} : ~Mingled(g) =>
    disk'[g] = disk[g] \/ (IF g = DLL THEN disk'[g] = Whole(g) ELSE disk[g] # Whole(g))

\* What a step of the thread t comes to.
Own(t) ==
  /\ TouchesOnly(t, Reach(task[t])) /\ WholeStays
  /\ mingled' = mingled /\ spilt \subseteq spilt' /\ unread \subseteq unread'
  /\ ThreadFiles(t)'

LEMMA MingledIs ==
  ASSUME NEW f \in Paths
  PROVE  Mingled(f) <=> f \in mingled \/ (f = DLL /\ ZIP \in mingled)
  BY NamesOfFiles DEF Mingled

LEMMA KindGoesOn ==
  ASSUME NEW tk, KindOf(tk), NEW nk, nk.name = tk.name,
         nk.repair => tk.repair \/ tk.at = "repair",
         nk.at \in {"hash", "repair", "rehash"} => IsPreset(tk.name),
         nk.at \notin {"ready", "failed"} => tk.at \notin {"resolve", "ready", "failed"} \/ IsPreset(tk.name),
         nk.at \in {"unpack", "copy", "place", "tidy"} => tk.name = "cuda",
         nk.at = "repair" => nk.bad \subseteq ToSet(Files(tk.name)),
         nk.at # "resolve"
  PROVE  KindOf(nk)
  BY DEF KindOf

\* Nobody's file is open.
LEMMA NothingOpen ==
  ASSUME NEW t, task'[t].at \notin {"stream", "check", "publish", "copy", "place"}
  PROVE  OpenOf(t)' /\ StreamOf(t)' /\ CopyOf(t)'
  BY DEF OpenOf, StreamOf, CopyOf, Is

LEMMA OfflineGoesOn ==
  ASSUME NEW t, OfflineOf(t), UNCHANGED plan, task[t] # None,
         \/ task[t].at \in {"resolve", "hash"} /\
              (Offline(t) => task'[t].at \in {"resolve", "hash", "ready", "failed"})
         \/ task[t].at \notin {"resolve", "hash", "ready", "failed"}
  PROVE  OfflineOf(t)'
  BY DEF OfflineOf, Offline, Args

LEMMA OwnUntouched ==
  ASSUME Shapes, NEW t \in Threads, UNCHANGED <<fileVars, mingled>>,
         spilt \subseteq spilt', unread \subseteq unread', ThreadFiles(t)'
  PROVE  Own(t)
  BY OtherStepsTouch DEF Own, WholeStays, fileVars

LEMMA OwnFinding ==
  ASSUME Shapes, ThreadsInv, UNCHANGED plan, NEW t \in Threads, ThreadFiles(t),
         Resolve(t) \/ Hash(t) \/ Rehash(t)
  PROVE  Own(t)
<1> DEFINE tk == task[t]
           nk == task'[t]
<1>1. /\ tk # None /\ DOMAIN tk = Fields /\ KindOf(tk)
      /\ UNCHANGED <<fileVars, mingled, spilt, unread>>
  BY FetchingFacts DEF Resolve, Hash, Rehash, Is, Marks, ThreadFiles
<1>2. CASE Resolve(t)
  <2>1. tk.at = "resolve" /\ tk.todo = Wanted(tk.name)
    BY <1>1, <1>2 DEF Resolve, Is, KindOf
  <2>2. nk = [tk EXCEPT
           !.dir = IF Local(tk.name) THEN "local" ELSE "cache",
           !.at = CASE Local(tk.name)                      -> "ready"
                    [] ~Local(tk.name) /\ InCache(tk.name) -> IF IsPreset(tk.name) THEN "hash" ELSE "ready"
                    [] ~IsPreset(tk.name) \/ Offline(t)    -> "failed"
                    [] OTHER                               -> "fetch"]
    BY <1>2 DEF Resolve, Shapes
  <2>3. /\ nk.name = tk.name /\ nk.todo = tk.todo /\ nk.repair = tk.repair
        /\ nk.at \in {"ready", "hash", "failed", "fetch"}
        /\ nk.at \in {"hash", "fetch"} => IsPreset(tk.name)
        /\ nk.at = "fetch" => ~Offline(t)
        /\ nk.at = "ready" /\ nk.dir = "cache" => ~IsPreset(tk.name)
    BY <1>1, <2>2 DEF Fields
  <2>4. KindOf(nk)
    BY <1>1, <2>3, KindGoesOn
  <2>5. OfflineOf(t)'
    BY <1>1, <2>1, <2>3, OfflineGoesOn DEF ThreadFiles
  <2>6. PresetOf(t)'
    BY <2>1, <2>3, FilesOfPresets DEF PresetOf, Is
  <2> QED
    BY <1>1, <2>3, <2>4, <2>5, <2>6, NothingOpen, OwnUntouched DEF ThreadFiles
<1>3. CASE Hash(t) \/ Rehash(t)
  <2> DEFINE bad == Mismatched(tk.name)
  <2>1. tk.at \in {"hash", "rehash"} /\ IsPreset(tk.name)
    BY <1>1, <1>3 DEF Hash, Rehash, Is, KindOf
  <2>2. /\ nk.name = tk.name /\ nk.repair = tk.repair
        /\ nk.at \in {"ready", "failed", "repair"}
        /\ nk.at = "ready" => bad = {}
        /\ nk.at = "repair" => nk.bad = bad /\ tk.at = "hash" /\ ~Offline(t)
    BY <1>1, <1>3, <2>1 DEF Hash, Rehash, Now, MayRepair, Shapes, Fields, Is
  <2>3. \A f \in ToSet(Files(tk.name)) : f \in bad <=> disk'[f] # Whole(f)
    BY <1>1 DEF Mismatched, fileVars
  <2>4. bad \subseteq ToSet(Files(tk.name))
    BY DEF Mismatched
  <2>5. KindOf(nk)
    BY <1>1, <2>1, <2>2, <2>4, KindGoesOn
  <2>6. OfflineOf(t)'
    BY <1>1, <2>1, <2>2, OfflineGoesOn DEF ThreadFiles
  <2>7. PresetOf(t)'
    BY <2>2, <2>3, <2>4 DEF PresetOf, Is
  <2> QED
    BY <1>1, <2>2, <2>5, <2>6, <2>7, NothingOpen, OwnUntouched DEF ThreadFiles
<1> QED
  BY <1>2, <1>3

LEMMA OwnRepair ==
  ASSUME Shapes, ThreadsInv, UNCHANGED plan, NEW t \in Threads, ThreadFiles(t), Repair(t)
  PROVE  Own(t)
<1> DEFINE tk == task[t]
           nk == task'[t]
<1>1. /\ tk # None /\ DOMAIN tk = Fields /\ KindOf(tk) /\ tk.at = "repair"
      /\ UNCHANGED <<mingled, spilt, unread>>
  BY FetchingFacts DEF Repair, Is, Marks, ThreadFiles
<1>2. /\ IsPreset(tk.name) /\ tk.bad \subseteq ToSet(Files(tk.name))
      /\ ToSet(Files(tk.name)) \subseteq ModelFiles /\ Reach(tk) = ToSet(Files(tk.name))
  BY <1>1, FilesOfPresets DEF KindOf, Reach
<1>3. nk.name = tk.name /\ nk.at = "fetch" /\ nk.repair
  BY <1>1 DEF Repair, Shapes, Fields
<1>4. TouchesOnly(t, Reach(tk))
  BY <1>2, OtherStepsTouch DEF Repair
<1>5. WholeStays
  <2>1. \A f \in tk.bad \ mingled : disk[f] # Whole(f)
    BY <1>1, <1>2 DEF ThreadFiles, PresetOf, Is
  <2>2. \A g \in Paths : g \notin tk.bad => disk'[g] = disk[g]
    BY DEF Repair, Delete
  <2>3. DLL \notin tk.bad
    BY <1>2, NamesOfFiles
  <2> QED
    BY <2>1, <2>2, <2>3, MingledIs DEF WholeStays
<1>6. KindOf(nk)
  BY <1>1, <1>2, <1>3, KindGoesOn
<1>7. OfflineOf(t)'
  BY <1>1, OfflineGoesOn DEF ThreadFiles
<1>8. PresetOf(t)'
  BY <1>3 DEF PresetOf, Is
<1> QED
  BY <1>1, <1>3, <1>4, <1>5, <1>6, <1>7, <1>8, NothingOpen DEF ThreadFiles, Own

LEMMA OwnSkipping ==
  ASSUME Shapes, ThreadsInv, UNCHANGED plan, NEW t \in Threads, ThreadFiles(t),
         FetchSkip(t) \/ FetchDone(t) \/ PublishGone(t)
  PROVE  Own(t)
<1> DEFINE tk == task[t]
           nk == task'[t]
           f == NextFile(t)
<1>1. /\ tk # None /\ DOMAIN tk = Fields /\ KindOf(tk) /\ tk.at \in {"fetch", "publish", "place"}
      /\ UNCHANGED <<fileVars, mingled, spilt>> /\ unread \subseteq unread'
  BY FetchingFacts DEF FetchSkip, FetchDone, PublishGone, Is, Marks, ThreadFiles
<1>2. /\ tk.name # "cuda" => IsPreset(tk.name)
      /\ tk.todo # <<>> => \A g \in ToSet(tk.todo) : g = f \/ g \in ToSet(Tail(tk.todo))
  BY <1>1, AtWork
<1>3. /\ nk.name = tk.name /\ nk.repair = tk.repair
      /\ nk.at \in {"fetch", "rehash", "ready", "failed"}
      /\ nk.at \in {"fetch", "rehash"} => tk.at = "fetch"
      /\ nk.at = "rehash" => tk.repair
  BY <1>1 DEF FetchSkip, FetchDone, PublishGone, Now, Shapes, Fields, Is
<1>4. KindOf(nk)
  BY <1>1, <1>3, KindGoesOn DEF KindOf
<1>5. OfflineOf(t)'
  BY <1>1, OfflineGoesOn DEF ThreadFiles
<1>6. ASSUME IsPreset(tk.name), ~tk.repair, tk.at = "fetch", NEW g \in ToSet(Files(tk.name)) \ Suspect'
      PROVE  g \in ToSet(tk.todo) \/ disk'[g] = Whole(g)
  <2>1. g \notin Suspect
    BY <1>1, <1>6 DEF Suspect
  <2> QED
    BY <1>1, <1>6, <2>1 DEF ThreadFiles, PresetOf, fileVars
<1>7. PresetOf(t)'
  <2>1. CASE FetchSkip(t)
    <3>1. tk.todo # <<>> /\ nk = [tk EXCEPT !.todo = Tail(@)] /\ tk.at = "fetch"
      BY <2>1 DEF FetchSkip, Skips, Shapes, Is
    <3>2. nk.todo = Tail(tk.todo) /\ nk.at = "fetch"
      BY <1>1, <3>1 DEF Fields
    <3>3. ASSUME IsPreset(tk.name), ~tk.repair, NEW g \in ToSet(Files(tk.name)) \ Suspect'
          PROVE  g \in ToSet(nk.todo) \/ disk'[g] = Whole(g)
      <4>1. g = f => disk'[g] = Whole(g)
        <5>1. f \in Mismatched(tk.name) => f \in unread'
          BY <2>1, <3>3 DEF FetchSkip
        <5> QED
          BY <1>1, <3>3, <5>1 DEF Mismatched, Suspect, fileVars
      <4> QED
        BY <1>2, <1>6, <3>1, <3>2, <3>3, <4>1
    <3> QED
      BY <1>3, <3>2, <3>3 DEF PresetOf, Is
  <2>2. CASE FetchDone(t)
    <3>1. tk.at = "fetch" /\ tk.todo = <<>> /\ nk.at # "fetch" /\ (nk.at = "ready" => ~tk.repair)
      BY <1>1, <2>2 DEF FetchDone, Now, Shapes, Fields, Is
    <3>2. ToSet(tk.todo) = {}
      BY <3>1 DEF ToSet
    <3> QED
      BY <1>3, <1>6, <3>1, <3>2 DEF PresetOf, Is
  <2>3. CASE PublishGone(t)
    <3>1. nk.at = "failed"
      BY <1>1, <2>3 DEF PublishGone, Now, Shapes, Fields
    <3> QED
      BY <3>1 DEF PresetOf, Is
  <2> QED
    BY <2>1, <2>2, <2>3
<1> QED
  BY <1>1, <1>3, <1>4, <1>5, <1>7, NothingOpen, OwnUntouched DEF ThreadFiles

LEMMA OwnFetchOne ==
  ASSUME Shapes, ThreadsInv, UNCHANGED plan, NEW t \in Threads, ThreadFiles(t), FetchOne(t)
  PROVE  Own(t)
<1> DEFINE tk == task[t]
           nk == task'[t]
           f == NextFile(t)
<1>1. /\ tk # None /\ DOMAIN tk = Fields /\ KindOf(tk) /\ tk.at = "fetch" /\ tk.todo # <<>>
      /\ UNCHANGED <<mingled, spilt, unread>> /\ Create(t, f)
  BY FetchingFacts DEF FetchOne, Is, Marks, ThreadFiles
<1>2. /\ f \in Wants(tk) /\ Wants(tk) = ToSet(Wanted(tk.name)) /\ f \in Reach(tk)
      /\ Wants(tk) \subseteq Paths
  BY <1>1, AtWork, NamesOfFiles DEF Reach
<1>3. /\ nk.name = tk.name /\ nk.repair = tk.repair /\ nk.todo = tk.todo
      /\ nk.at = "stream" /\ nk.seen = <<>>
  BY <1>1 DEF FetchOne, Shapes, Fields
<1>4. disk' = disk /\ part'[f] = <<>> /\ handle'[t] = [path |-> f, at |-> "part", off |-> 0]
  BY <1>1, <1>2, Created
<1>5. TouchesOnly(t, Reach(tk))
  BY <1>1, <1>2, FileStepsTouch
<1>6. KindOf(nk)
  BY <1>1, <1>3, KindGoesOn DEF KindOf
<1>7. OfflineOf(t)'
  BY <1>1, OfflineGoesOn DEF ThreadFiles
<1>8. NextFile(t)' = f
  BY <1>3 DEF NextFile
<1>9. tk.name # "cuda" => disk[f] = None
  BY <1>1 DEF FetchOne, Skips
<1>10. OpenOf(t)' /\ StreamOf(t)' /\ CopyOf(t)'
  <2>1. Len(<<>>) = 0 /\ <<>> \in Seq({f, "bad"}) /\ 0 < Chunks
    BY DEF Chunks
  <2> QED
    BY <1>3, <1>4, <1>8, <1>9, <2>1 DEF OpenOf, StreamOf, CopyOf, Is
<1>11. PresetOf(t)'
  BY <1>1, <1>3, <1>4 DEF PresetOf, ThreadFiles, Is, Suspect
<1> QED
  BY <1>1, <1>4, <1>5, <1>6, <1>7, <1>10, <1>11 DEF ThreadFiles, Own, WholeStays

LEMMA OwnStream ==
  ASSUME Shapes, ThreadsInv, UNCHANGED plan, NEW t \in Threads, ThreadFiles(t),
         \/ \E cell \in {NextFile(t), "bad"} : StreamChunk(t, cell)
         \/ StreamSpills(t)
  PROVE  Own(t)
<1> DEFINE tk == task[t]
           nk == task'[t]
           f == NextFile(t)
<1>1. /\ tk # None /\ DOMAIN tk = Fields /\ KindOf(tk) /\ tk.at = "stream" /\ tk.todo # <<>>
      /\ UNCHANGED <<mingled, unread>> /\ spilt \subseteq spilt'
      /\ handle[t].path = f /\ DOMAIN handle[t] = {"path", "at", "off"}
  BY FetchingFacts DEF StreamChunk, StreamSpills, Is, Marks, ThreadFiles, Busy, OpenOf
<1>2. /\ f \in Wants(tk) /\ Wants(tk) = ToSet(Wanted(tk.name)) /\ f \in Reach(tk)
      /\ Wants(tk) \subseteq Paths /\ f # DLL
  BY <1>1, AtWork, NamesOfFiles DEF Reach
<1>3. PICK cell \in {f, "bad"} :
        /\ Seen(t, cell)
        /\ \/ Put(t, <<cell>>) /\ spilt' = spilt
           \/ UNCHANGED fileVars /\ f \in spilt' /\ Len(tk.seen) = Chunks - 1
  BY DEF StreamChunk, StreamSpills, Marks
<1>4. /\ nk.name = tk.name /\ nk.repair = tk.repair /\ nk.todo = tk.todo
      /\ nk.seen = Append(tk.seen, cell)
      /\ nk.at = IF Len(tk.seen) + 1 = Chunks THEN "check" ELSE "stream"
  BY <1>1, <1>3 DEF Seen, Shapes, Fields
<1>5. TouchesOnly(t, Reach(tk))
  BY <1>1, <1>2, <1>3, OtherStepsTouch
<1>6. KindOf(nk)
  BY <1>1, <1>4, KindGoesOn DEF KindOf
<1>7. OfflineOf(t)'
  BY <1>1, OfflineGoesOn DEF ThreadFiles
<1>8. NextFile(t)' = f
  BY <1>4 DEF NextFile
<1>9. ASSUME f \notin mingled
      PROVE  /\ disk' = disk /\ (tk.name # "cuda" => disk[f] = None)
             /\ nk.seen \in Seq({f, "bad"}) /\ (nk.at = "stream" => Len(nk.seen) < Chunks)
             /\ nk.at = "stream" => /\ handle'[t] = [path |-> f, at |-> "part", off |-> Len(nk.seen)]
                                    /\ part'[f] = nk.seen
             /\ nk.at = "check" /\ f \notin spilt' => part'[f] = nk.seen
  <2>1. /\ tk.name # "cuda" => disk[f] = None
        /\ handle[t] = [path |-> f, at |-> "part", off |-> Len(tk.seen)]
        /\ tk.seen \in Seq({f, "bad"}) /\ Len(tk.seen) < Chunks
        /\ part[f] = tk.seen
    BY <1>1, <1>9 DEF ThreadFiles, StreamOf, Is
  <2>2. /\ nk.seen \in Seq({f, "bad"}) /\ Len(nk.seen) = Len(tk.seen) + 1
        /\ nk.at = "stream" => Len(nk.seen) < Chunks
    BY <1>4, <2>1 DEF Chunks
  <2>3. CASE Put(t, <<cell>>)
    <3>1. /\ disk' = disk /\ part'[f] = Append(tk.seen, cell)
          /\ handle'[t] = [path |-> f, at |-> "part", off |-> Len(Append(tk.seen, cell))]
      BY <1>2, <2>1, <2>3, Appended
    <3> QED
      BY <1>4, <2>1, <2>2, <3>1
  <2>4. CASE UNCHANGED fileVars /\ f \in spilt' /\ Len(tk.seen) = Chunks - 1
    <3>1. nk.at = "check"
      BY <1>4, <2>1, <2>4 DEF Chunks
    <3> QED
      BY <2>1, <2>2, <2>4, <3>1 DEF fileVars
  <2> QED
    BY <1>3, <2>3, <2>4
<1>10. handle'[t].path = f
  <2>1. Put(t, <<cell>>) => handle'[t].path = handle[t].path
    BY <1>1 DEF Put, Shapes
  <2> QED
    BY <1>1, <1>3, <2>1 DEF fileVars
<1>11. nk.at \in {"stream", "check"}
  BY <1>4
<1>12. OpenOf(t)' /\ StreamOf(t)' /\ CopyOf(t)'
  BY <1>1, <1>4, <1>8, <1>9, <1>10, <1>11 DEF OpenOf, StreamOf, CopyOf, Is
<1>13. \A g \in Paths \ {f} : disk'[g] = disk[g]
  BY <1>1, <1>3, <1>9 DEF Put, Shapes, fileVars
<1>14. PresetOf(t)'
  BY <1>1, <1>2, <1>4, <1>9, <1>11, <1>13, AtWork DEF PresetOf, ThreadFiles, Is, Suspect
<1>15. WholeStays
  BY <1>9, <1>13, MingledIs DEF WholeStays
<1> QED
  BY <1>1, <1>5, <1>6, <1>7, <1>12, <1>14, <1>15 DEF ThreadFiles, Own

LEMMA OwnChecking ==
  ASSUME Shapes, ThreadsInv, UNCHANGED plan, NEW t \in Threads, ThreadFiles(t),
         FetchChecked(t) \/ FetchCorrupt(t) \/ TaskFails(t)
  PROVE  Own(t)
<1> DEFINE tk == task[t]
           nk == task'[t]
           f == NextFile(t)
<1>1. /\ tk # None /\ DOMAIN tk = Fields /\ KindOf(tk) /\ UNCHANGED <<mingled, spilt, unread>>
      /\ tk.at \in {"check", "fetch", "stream", "unpack", "copy"}
      /\ FetchChecked(t) \/ FetchCorrupt(t) => tk.at = "check" /\ tk.todo # <<>>
  BY FetchingFacts DEF FetchChecked, FetchCorrupt, TaskFails, Is, Marks, ThreadFiles, Busy
<1>2. tk.todo # <<>> => f \in Reach(tk)
  BY <1>1, AtWork DEF Reach
<1>3. /\ nk.name = tk.name /\ nk.repair = tk.repair /\ nk.todo = tk.todo /\ nk.seen = tk.seen
      /\ nk.at = "failed" \/ (FetchChecked(t) /\ nk.at = "publish")
  BY <1>1 DEF FetchChecked, FetchCorrupt, TaskFails, Now, Shapes, Fields
<1>4. disk' = disk
  BY DEF FetchChecked, FetchCorrupt, TaskFails, RemovePart, Close
<1>5. TouchesOnly(t, Reach(tk))
  BY <1>1, <1>2, FileStepsTouch, OtherStepsTouch DEF FetchChecked, FetchCorrupt, TaskFails
<1>6. KindOf(nk)
  BY <1>1, <1>3, KindGoesOn
<1>7. OfflineOf(t)'
  BY <1>1, OfflineGoesOn DEF ThreadFiles
<1>8. CASE nk.at = "failed"
  BY <1>1, <1>3, <1>4, <1>5, <1>6, <1>7, <1>8, NothingOpen DEF ThreadFiles, Own, WholeStays, PresetOf, Is
<1>9. CASE FetchChecked(t) /\ nk.at = "publish"
  <2>1. tk.seen = Whole(f) /\ part' = part
    BY <1>9 DEF FetchChecked, Matches, Close
  <2>2. NextFile(t)' = f
    BY <1>3 DEF NextFile
  <2>3. OpenOf(t)' /\ StreamOf(t)' /\ CopyOf(t)'
    BY <1>1, <1>3, <1>4, <1>9, <2>1, <2>2 DEF ThreadFiles, OpenOf, StreamOf, CopyOf, Is
  <2>4. PresetOf(t)'
    BY <1>1, <1>3, <1>4, <1>9 DEF PresetOf, ThreadFiles, Is, Suspect
  <2> QED
    BY <1>1, <1>4, <1>5, <1>6, <1>7, <2>3, <2>4 DEF ThreadFiles, Own, WholeStays
<1> QED
  BY <1>3, <1>8, <1>9

LEMMA OwnPublish ==
  ASSUME Shapes, ThreadsInv, UNCHANGED plan, NEW t \in Threads, ThreadFiles(t), FetchPublish(t)
  PROVE  Own(t)
<1> DEFINE tk == task[t]
           nk == task'[t]
           f == NextFile(t)
<1>1. /\ tk # None /\ DOMAIN tk = Fields /\ KindOf(tk) /\ tk.at = "publish" /\ tk.todo # <<>>
      /\ UNCHANGED <<mingled, spilt, unread>> /\ Rename(t, f)
  BY FetchingFacts DEF FetchPublish, Is, Marks, ThreadFiles, Busy
<1>2. /\ f \in Wants(tk) /\ f \in Reach(tk) /\ f \in Paths /\ f # DLL
      /\ tk.name = "cuda" => f = ZIP /\ ~IsPreset(tk.name)
      /\ tk.name # "cuda" => IsPreset(tk.name)
      /\ \A g \in ToSet(tk.todo) : g = f \/ g \in ToSet(Tail(tk.todo))
  BY <1>1, AtWork, NamesOfFiles DEF Reach
<1>3. /\ nk.name = tk.name /\ nk.repair = tk.repair
      /\ tk.name = "cuda" => nk.at = "unpack"
      /\ tk.name # "cuda" => nk.at = "fetch" /\ nk.todo = Tail(tk.todo)
  BY <1>1 DEF FetchPublish, Now, Shapes, Fields
<1>4. /\ \A g \in Paths \ {f} : disk'[g] = disk[g]
      /\ disk'[f] = part[f]
  BY <1>1, <1>2 DEF Rename, Shapes
<1>5. TouchesOnly(t, Reach(tk))
  BY <1>1, <1>2, FileStepsTouch
<1>6. KindOf(nk)
  BY <1>1, <1>2, <1>3, KindGoesOn DEF KindOf
<1>7. OfflineOf(t)'
  BY <1>1, OfflineGoesOn DEF ThreadFiles
<1>8. f \notin mingled => (tk.name # "cuda" => disk[f] = None) /\ (f \notin spilt => part[f] = Whole(f))
  BY <1>1 DEF ThreadFiles, StreamOf, Is
<1>9. WholeStays
  <2>1. None # Whole(f)
    BY <1>2, BootAssumption
  <2> QED
    BY <1>2, <1>4, <1>8, <2>1, MingledIs DEF WholeStays
<1>10. OpenOf(t)' /\ StreamOf(t)' /\ CopyOf(t)'
  BY <1>3, NothingOpen
<1>11. PresetOf(t)'
  <2> SUFFICES ASSUME IsPreset(tk.name), ~tk.repair, NEW g \in ToSet(Files(tk.name)) \ Suspect
               PROVE  g \in ToSet(nk.todo) \/ disk'[g] = Whole(g)
    BY <1>1, <1>2, <1>3 DEF PresetOf, Is, Suspect
  <2>1. g \in ToSet(tk.todo) \/ disk[g] = Whole(g)
    BY <1>1 DEF ThreadFiles, PresetOf
  <2>2. g = f => disk'[g] = Whole(g)
    BY <1>4, <1>8 DEF Suspect
  <2>3. g \in Paths
    BY FilesOfPresets, NamesOfFiles
  <2> QED
    BY <1>2, <1>3, <1>4, <2>1, <2>2, <2>3
<1> QED
  BY <1>1, <1>5, <1>6, <1>7, <1>9, <1>10, <1>11 DEF ThreadFiles, Own

LEMMA OwnUnpacking ==
  ASSUME Shapes, ThreadsInv, UNCHANGED plan, NEW t \in Threads, ThreadFiles(t),
         Unpack(t) \/ UnpackCopy(t) \/ UnpackPlace(t) \/ UnpackTidy(t)
  PROVE  Own(t)
<1> DEFINE tk == task[t]
           nk == task'[t]
           f == NextFile(t)
<1>1. /\ tk # None /\ DOMAIN tk = Fields /\ KindOf(tk) /\ tk.at \in {"unpack", "copy", "place", "tidy"}
      /\ UNCHANGED <<mingled, spilt, unread>> /\ tk.name = "cuda" /\ tk.todo # <<>>
      /\ tk.at = "copy" => handle[t].path = DLL /\ DOMAIN handle[t] = {"path", "at", "off"}
  BY FetchingFacts DEF Unpack, UnpackCopy, UnpackPlace, UnpackTidy, Is, Marks, ThreadFiles, Busy, KindOf, OpenOf
<1>2. /\ f = ZIP /\ Library(f) = DLL /\ ~IsPreset(tk.name) /\ {ZIP, DLL} \subseteq Reach(tk)
      /\ {ZIP, DLL} \subseteq Paths /\ ZIP # DLL
  BY <1>1, AtWork, NamesOfFiles DEF Reach
<1>3. /\ nk.name = tk.name /\ nk.repair = tk.repair
      /\ nk.at \in {"failed", "copy", "place", "tidy", "fetch"}
  BY <1>1 DEF Unpack, UnpackCopy, UnpackPlace, UnpackTidy, Now, Shapes, Fields
<1>4. KindOf(nk)
  BY <1>1, <1>3, KindGoesOn DEF KindOf
<1>5. OfflineOf(t)'
  BY <1>1, OfflineGoesOn DEF ThreadFiles
<1>6. PresetOf(t)'
  BY <1>2, <1>3 DEF PresetOf
<1>7. TouchesOnly(t, Reach(tk))
  <2>1. {ZIP} \in SUBSET Reach(tk)
    BY <1>2
  <2> QED
    BY <1>1, <1>2, <2>1, FileStepsTouch, OtherStepsTouch DEF Unpack, UnpackCopy, UnpackPlace, UnpackTidy, Is
<1>8. StreamOf(t)'
  BY <1>3 DEF StreamOf, Is
<1>9. WholeStays /\ OpenOf(t)' /\ CopyOf(t)'
  <2>1. CASE Unpack(t)
    <3>1. CASE Create(t, DLL) /\ nk.at = "copy" /\ nk.seen = <<>>
      <4>1. disk' = disk /\ part'[DLL] = <<>> /\ handle'[t] = [path |-> DLL, at |-> "part", off |-> 0]
        BY <1>2, <3>1, Created
      <4>2. Len(<<>>) = 0 /\ <<>> \in Seq({DLL}) /\ 0 < Chunks
        BY DEF Chunks
      <4> QED
        BY <3>1, <4>1, <4>2 DEF WholeStays, OpenOf, CopyOf, Is
    <3>2. CASE UNCHANGED fileVars /\ nk.at = "failed"
      BY <3>2, NothingOpen DEF WholeStays, fileVars
    <3> QED
      BY <1>1, <1>2, <2>1, <3>1, <3>2 DEF Unpack, Now, Shapes, Fields
  <2>2. CASE UnpackCopy(t)
    <3>1. /\ Put(t, <<DLL>>) /\ nk.seen = Append(tk.seen, DLL) /\ tk.at = "copy"
          /\ nk.at = IF Len(tk.seen) + 1 = Chunks THEN "place" ELSE "copy"
      BY <1>1, <1>2, <2>2 DEF UnpackCopy, Shapes, Fields, Is
    <3>2. handle'[t].path = DLL
      BY <1>1, <3>1 DEF Put, Shapes
    <3>3. ASSUME ZIP \notin mingled
          PROVE  /\ disk' = disk /\ part'[DLL] = nk.seen /\ nk.seen \in Seq({DLL})
                 /\ Len(nk.seen) = Len(tk.seen) + 1 /\ Len(tk.seen) \in Nat /\ Len(tk.seen) < Chunks
                 /\ handle'[t] = [path |-> DLL, at |-> "part", off |-> Len(nk.seen)]
      <4>1. /\ handle[t] = [path |-> DLL, at |-> "part", off |-> Len(tk.seen)]
            /\ tk.seen \in Seq({DLL}) /\ Len(tk.seen) < Chunks
            /\ part[DLL] = tk.seen
        BY <1>1, <3>1, <3>3 DEF ThreadFiles, CopyOf, Is
      <4> QED
        BY <1>2, <3>1, <4>1, Appended
    <3>4. ASSUME ZIP \notin mingled, nk.at = "place" PROVE part'[DLL] = Whole(DLL)
      <4>1. nk.seen \in Seq({DLL}) /\ Len(nk.seen) = Chunks /\ part'[DLL] = nk.seen
        BY <3>1, <3>3, <3>4
      <4>2. Whole(DLL) \in Seq({DLL}) /\ Len(Whole(DLL)) = Chunks
        BY DEF Whole, Chunks
      <4>3. \A i \in 1 .. Chunks : nk.seen[i] = Whole(DLL)[i]
        BY <4>1 DEF Whole
      <4> HIDE DEF nk
      <4> QED
        BY <4>1, <4>2, <4>3
    <3>5. /\ nk.at \in {"place", "copy"}
          /\ ZIP \notin mingled /\ nk.at = "copy" => Len(nk.seen) < Chunks
      BY <3>1, <3>3 DEF Chunks
    <3>7. OpenOf(t)' /\ CopyOf(t)'
      BY <1>1, <3>2, <3>3, <3>4, <3>5 DEF OpenOf, CopyOf, Is
    <3>6. \A g \in Paths \ {DLL} : disk'[g] = disk[g]
      BY <1>1, <3>1 DEF Put, Shapes
    <3> QED
      BY <1>2, <3>3, <3>7, <3>6, MingledIs DEF WholeStays
  <2>3. CASE UnpackPlace(t)
    <3>1. Rename(t, DLL) /\ tk.at = "place" /\ nk.at = "tidy"
      BY <1>1, <1>2, <2>3 DEF UnpackPlace, Now, Shapes, Fields, Is
    <3>2. ZIP \notin mingled => part[DLL] = Whole(DLL)
      BY <1>1, <3>1 DEF ThreadFiles, CopyOf, Is
    <3>3. disk'[DLL] = part[DLL] /\ \A g \in Paths \ {DLL} : disk'[g] = disk[g]
      BY <1>2, <3>1 DEF Rename, Shapes
    <3> QED
      BY <1>2, <3>1, <3>2, <3>3, MingledIs, NothingOpen DEF WholeStays
  <2>4. CASE UnpackTidy(t)
    <3>1. Delete({ZIP}) /\ nk.at = "fetch"
      BY <1>1, <1>2, <2>4 DEF UnpackTidy, Shapes, Fields
    <3>2. \A g \in Paths \ {ZIP} : disk'[g] = disk[g]
      BY <3>1 DEF Delete
    <3> QED
      BY <3>1, <3>2, NothingOpen DEF WholeStays
  <2> QED
    BY <2>1, <2>2, <2>3, <2>4
<1> QED
  BY <1>1, <1>4, <1>5, <1>6, <1>7, <1>8, <1>9 DEF ThreadFiles, Own

LEMMA TaskOwn ==
  ASSUME Shapes, ThreadsInv, UNCHANGED plan, NEW t \in Threads, ThreadFiles(t), TaskStep(t)
  PROVE  Own(t)
<1>1. CASE \E cell \in {NextFile(t), "bad"} : StreamChunk(t, cell)
  BY <1>1, OwnStream
<1>2. CASE ~\E cell \in {NextFile(t), "bad"} : StreamChunk(t, cell)
  <2>1. ~StreamChunk(t, NextFile(t)) /\ ~StreamChunk(t, "bad")
    BY <1>2
  <2> QED
    BY <2>1, OwnFinding, OwnRepair, OwnSkipping, OwnFetchOne, OwnStream, OwnChecking, OwnPublish,
       OwnUnpacking, Zenon DEF TaskStep
<1> QED
  BY <1>1, <1>2

-----------------------------------------------------------------------------
(* Everybody else *)

\* The thread u is where it was, and so is every file outside fs.
Keeps(u, fs) ==
  /\ task'[u] = task[u] /\ handle'[u].path = handle[u].path
  /\ handle[u].path \notin fs => handle'[u] = handle[u]
  /\ \A f \in Paths \ fs : disk'[f] = disk[f] /\ part'[f] = part[f]

Grow == mingled \subseteq mingled' /\ spilt \subseteq spilt' /\ unread \subseteq unread'

\* A file two threads want is mingled, so nobody touches what u is sure of.
LEMMA OthersKeep ==
  ASSUME Shapes, ThreadsInv, UNCHANGED plan, NEW u \in Threads, ThreadFiles(u),
         NEW fs, Keeps(u, fs), Grow, WholeStays,
         task[u] # None /\ task[u].at \notin {"resolve", "ready", "failed"} =>
           Wants(task[u]) \cap fs \subseteq mingled,
         (Is(u, "copy") \/ Is(u, "place")) /\ DLL \in fs => ZIP \in mingled
  PROVE  ThreadFiles(u)'
<1> DEFINE tk == task[u]
           f == NextFile(u)
<1> SUFFICES ASSUME tk # None PROVE ThreadFiles(u)'
  BY DEF ThreadFiles, OpenOf, StreamOf, CopyOf, PresetOf, OfflineOf, Is, Keeps
<1>1. KindOf(tk)' /\ KindOf(tk) /\ task'[u] = tk
  BY DEF ThreadFiles, Keeps, KindOf
<1>2. OfflineOf(u)'
  BY DEF ThreadFiles, OfflineOf, Offline, Args, Keeps
<1>3. NextFile(u)' = f
  BY DEF NextFile, Keeps
<1>4. OpenOf(u)'
  BY <1>3 DEF ThreadFiles, OpenOf, Keeps, Is
<1>5. StreamOf(u)'
  <2> SUFFICES ASSUME tk.at \in {"stream", "check", "publish"}, f \notin mingled'
               PROVE  StreamOf(u)'
    BY <1>1, <1>3 DEF StreamOf, Is
  <2>1. tk.todo # <<>>
    BY FetchingFacts DEF Busy
  <2>2. f \in Wants(tk) /\ f \in Paths
    BY <1>1, <2>1, AtWork, NamesOfFiles
  <2>3. f \notin mingled /\ f \notin fs
    BY <2>2 DEF Grow
  <2>4. disk'[f] = disk[f] /\ part'[f] = part[f]
    BY <2>2, <2>3 DEF Keeps
  <2>5. Is(u, "stream") => handle'[u] = handle[u]
    BY <2>3 DEF Keeps, ThreadFiles, OpenOf
  <2>6. f \notin spilt' => f \notin spilt
    BY DEF Grow
  <2> QED
    BY <1>1, <1>3, <2>3, <2>4, <2>5, <2>6 DEF ThreadFiles, StreamOf, Is
<1>6. CopyOf(u)'
  <2> SUFFICES ASSUME tk.at \in {"copy", "place"}, ZIP \notin mingled'
               PROVE  CopyOf(u)'
    BY <1>1 DEF CopyOf, Is
  <2>1. ZIP \notin mingled /\ DLL \notin fs /\ DLL \in Paths
    BY NamesOfFiles DEF Grow, Is
  <2>2. part'[DLL] = part[DLL]
    BY <2>1 DEF Keeps
  <2>3. Is(u, "copy") => handle'[u] = handle[u]
    BY <2>1 DEF Keeps, ThreadFiles, OpenOf
  <2> QED
    BY <1>1, <2>1, <2>2, <2>3 DEF ThreadFiles, CopyOf, Is
<1>7. PresetOf(u)'
  <2> SUFFICES ASSUME IsPreset(tk.name) PROVE PresetOf(u)'
    BY <1>1 DEF PresetOf
  <2>1. ToSet(Files(tk.name)) \subseteq ModelFiles /\ Wanted(tk.name) = Files(tk.name)
    BY FilesOfPresets
  <2>2. ASSUME NEW g \in ToSet(Files(tk.name)), g \notin Suspect', disk[g] = Whole(g)
        PROVE  disk'[g] = Whole(g)
    <3>1. g \in Paths \ {JSON, ZIP} /\ g # DLL /\ g \notin mingled
      BY <2>1, <2>2, NamesOfFiles DEF Suspect, Grow
    <3> QED
      BY <2>2, <3>1, MingledIs DEF WholeStays
  <2>3. ASSUME tk.at = "repair", NEW g \in tk.bad \ mingled' PROVE disk'[g] # Whole(g)
    <3>1. g \in ToSet(Files(tk.name)) /\ g \in Wants(tk) /\ g \notin mingled
      BY <1>1, <2>1, <2>3 DEF KindOf, Wants, Grow
    <3>2. disk'[g] = disk[g]
      BY <2>1, <2>3, <3>1, NamesOfFiles DEF Keeps
    <3> QED
      BY <2>3, <3>1, <3>2 DEF ThreadFiles, PresetOf, Is
  <2>4. ASSUME tk.at \in {"fetch", "stream", "check", "publish"}, ~tk.repair,
               NEW g \in ToSet(Files(tk.name)) \ Suspect'
        PROVE  g \in ToSet(tk.todo) \/ disk'[g] = Whole(g)
    <3>1. g \notin Suspect
      BY <2>4 DEF Suspect, Grow
    <3>2. g \in ToSet(tk.todo) \/ disk[g] = Whole(g)
      BY <2>4, <3>1 DEF ThreadFiles, PresetOf
    <3> QED
      BY <2>2, <2>4, <3>2
  <2>5. ASSUME tk.at = "ready", tk.dir = "cache", NEW g \in ToSet(Files(tk.name)) \ Suspect'
        PROVE  disk'[g] = Whole(g)
    <3>1. g \notin Suspect
      BY <2>5 DEF Suspect, Grow
    <3>2. disk[g] = Whole(g)
      BY <2>5, <3>1 DEF ThreadFiles, PresetOf, Is
    <3> QED
      BY <2>2, <2>5, <3>2
  <2> QED
    BY <1>1, <2>3, <2>4, <2>5 DEF PresetOf, Is
<1> QED
  BY <1>1, <1>2, <1>4, <1>5, <1>6, <1>7 DEF ThreadFiles

LEMMA IdleFiles ==
  ASSUME NEW t, task'[t] = None
  PROVE  ThreadFiles(t)'
  BY DEF ThreadFiles, OpenOf, StreamOf, CopyOf, PresetOf, OfflineOf, Is

\* What was loaded and what is beside the executable stay as they were.
LEMMA LoadedStays ==
  ASSUME Shapes, WeightsAreThePinned, LibrariesAreWhole, Grow, WholeStays, UNCHANGED loaded
  PROVE  WeightsAreThePinned' /\ LibrariesAreWhole'
<1>1. WeightsAreThePinned'
  BY DEF WeightsAreThePinned, Grow
<1>2. LibrariesAreWhole'
  <2> SUFFICES ASSUME ~Mingled(DLL)' PROVE disk'[DLL] \in {None, Whole(DLL)}
    BY NamesOfFiles DEF LibrariesAreWhole
  <2>1. ~Mingled(DLL)
    BY DEF Mingled, Grow
  <2>2. disk[DLL] \in {None, Whole(DLL)}
    BY <2>1, NamesOfFiles DEF LibrariesAreWhole
  <2> QED
    BY <2>1, <2>2, NamesOfFiles DEF WholeStays
<1> QED
  BY <1>1, <1>2

-----------------------------------------------------------------------------
(* Every step *)

LEMMA FetchingKeepsFiles ==
  ASSUME Shapes, ThreadsInv, FilesInv, UNCHANGED <<plan, loaded>>, NEW t \in Threads, TaskStep(t)
  PROVE  FilesInv' /\ WholeStays
<1>1. Own(t) /\ Leaves(t)
  BY TaskOwn, TaskLeaves DEF FilesInv
<1>2. Grow /\ WholeStays
  BY <1>1 DEF Own, Grow
<1>3. task[t].at \notin {"ready", "failed"}
  BY DEF TaskStep, Resolve, Hash, Repair, Rehash, FetchSkip, FetchDone, FetchOne, FetchChecked,
         FetchCorrupt, FetchPublish, PublishGone, Unpack, UnpackCopy, UnpackPlace, UnpackTidy,
         TaskFails, StreamChunk, StreamSpills, Is
<1>4. Wants(task[t]) = ToSet(Wanted(task[t].name)) /\ task[t] # None
  BY <1>1, <1>3 DEF Wants, Leaves
<1>5. ASSUME NEW u \in Threads \ {t} PROVE ThreadFiles(u)'
  <2> DEFINE fs == IF task[t].at = "resolve" THEN {} ELSE Reach(task[t])
  <2>1. Keeps(u, fs)
    <3>1. task[t].at = "resolve" => UNCHANGED fileVars
      BY DEF TaskStep, Resolve, Hash, Repair, Rehash, FetchSkip, FetchDone, FetchOne, FetchChecked,
             FetchCorrupt, FetchPublish, PublishGone, Unpack, UnpackCopy, UnpackPlace, UnpackTidy,
             TaskFails, StreamChunk, StreamSpills, Is
    <3> QED
      BY <1>1, <3>1 DEF Own, TouchesOnly, Leaves, LeavesIt, SameTask, Keeps, fileVars
  <2>2. Wants(task[t]) \cap Wants(task[u]) \subseteq mingled
    BY DEF FilesInv, Apart
  <2>3. DLL \in fs => task[t].name = "cuda" /\ Wants(task[t]) = {ZIP}
    <3> SUFFICES ASSUME DLL \in fs PROVE task[t].name = "cuda" /\ Wants(task[t]) = {ZIP}
      OBVIOUS
    <3>1. task[t].at \notin {"resolve", "ready", "failed"} /\ KindOf(task[t])
      BY <1>3, <1>4 DEF FilesInv, ThreadFiles
    <3> QED
      BY <1>4, <3>1, AtWork, NamesOfFiles DEF Reach
  <2>4. ASSUME task[u] # None, task[u].at \notin {"resolve", "ready", "failed"}
        PROVE  /\ Wants(task[u]) \cap fs \subseteq mingled
               /\ task[u].name = "cuda" => Wants(task[u]) = {ZIP}
    <3>1. KindOf(task[u])
      BY <2>4 DEF FilesInv, ThreadFiles
    <3>2. DLL \notin Wants(task[u]) /\ (task[u].name = "cuda" => Wants(task[u]) = {ZIP})
      BY <2>4, <3>1, AtWork, NamesOfFiles
    <3> QED
      BY <1>4, <2>2, <3>2 DEF Reach
  <2>5. ASSUME Is(u, "copy") \/ Is(u, "place"), DLL \in fs PROVE ZIP \in mingled
    <3>1. task[u] # None /\ task[u].at \in {"copy", "place"} /\ task[u].name = "cuda"
      BY <2>5 DEF FilesInv, ThreadFiles, KindOf, Is
    <3> QED
      BY <2>2, <2>3, <2>4, <2>5, <3>1
  <2> HIDE DEF fs
  <2> QED
    BY <1>2, <2>1, <2>4, <2>5, OthersKeep DEF FilesInv
<1>6. Apart'
  <2>1. Wants(task'[t]) \subseteq Wants(task[t])
    BY <1>1, <1>4 DEF Wants, Leaves, SameTask
  <2>2. \A u \in Threads \ {t} : task'[u] = task[u]
    BY <1>1 DEF Leaves, SameTask
  <2> QED
    BY <1>2, <2>1, <2>2 DEF FilesInv, Apart, Grow
<1>7. WeightsAreThePinned' /\ LibrariesAreWhole'
  BY <1>2, LoadedStays DEF FilesInv
<1> QED
  BY <1>1, <1>2, <1>5, <1>6, <1>7 DEF FilesInv, Own

LEMMA SavingKeepsFiles ==
  ASSUME Shapes, ThreadsInv, FormatsInv, FilesInv, UNCHANGED plan, NEW t \in Threads, Saves(t)
  PROVE  FilesInv' /\ WholeStays /\ \A f \in Paths \ {JSON} : disk'[f] = disk[f]
<1>1. SavesOn(t) /\ UNCHANGED <<task, mingled, spilt, unread, loaded>>
  <2>1. UNCHANGED <<task, mingled, spilt, unread, loaded>>
    BY Zenon DEF Saves, artefactVars, processVars
  <2> QED
    BY <2>1, SavingFrame
<1>2. task[t] = None
  BY <1>1, FetchingFacts DEF SavesOn
<1>3. TouchesOnly(t, {JSON})
  <2>1. At(t, "fill") => handle[t].path = JSON
    BY DEF FormatsInv, Handles
  <2>2. SaveFill(t) => TouchesOnly(t, {JSON})
    BY <2>1, OtherStepsTouch DEF SaveFill
  <2> QED
    BY <2>2, FileStepsTouch, OtherStepsTouch DEF Saves, SaveStep, SaveCreate, SaveRename, SaveGone, SaveFails
<1>4. WholeStays /\ Grow /\ \A f \in Paths \ {JSON} : disk'[f] = disk[f]
  BY <1>1, <1>3 DEF TouchesOnly, WholeStays, Grow
<1>5. ASSUME NEW u \in Threads \ {t} PROVE ThreadFiles(u)'
  <2>1. Keeps(u, {JSON})
    BY <1>1, <1>3 DEF Keeps, TouchesOnly, SavesOn
  <2>2. ASSUME task[u] # None, task[u].at \notin {"resolve", "ready", "failed"}
        PROVE  JSON \notin Wants(task[u])
    BY <2>2, AtWork, NamesOfFiles DEF FilesInv, ThreadFiles
  <2> QED
    BY <1>4, <2>1, <2>2, NamesOfFiles, OthersKeep DEF FilesInv
<1>6. ThreadFiles(t)'
  BY <1>1, <1>2, IdleFiles
<1>7. Apart'
  BY <1>1 DEF FilesInv, Apart
<1> QED
  BY <1>1, <1>4, <1>5, <1>6, <1>7, LoadedStays DEF FilesInv

\* No file moves: every thread is where it was, rests or begins.
LEMMA WaitingKeepsFiles ==
  ASSUME Shapes, ThreadsInv, FilesInv, UNCHANGED <<plan, disk, part>>, Grow,
         UNCHANGED loaded \/ (DOMAIN loaded' = Launches /\ WeightsAreThePinned'),
         \A u \in Threads :
           \/ UNCHANGED <<task[u], handle[u]>>
           \/ task'[u] = None
           \/ ThreadFiles(u)',
         Apart'
  PROVE  FilesInv' /\ WholeStays
<1>1. WholeStays
  BY DEF WholeStays
<1>2. ASSUME NEW u \in Threads, UNCHANGED <<task[u], handle[u]>> PROVE ThreadFiles(u)'
  <2>1. Keeps(u, {})
    BY <1>2 DEF Keeps
  <2> QED
    BY <1>1, <2>1, OthersKeep DEF FilesInv
<1>3. \A u \in Threads : ThreadFiles(u)'
  BY <1>2, IdleFiles
<1>4. LibrariesAreWhole'
  BY DEF FilesInv, LibrariesAreWhole, Mingled, Grow
<1>5. UNCHANGED loaded => WeightsAreThePinned'
  BY <1>1, LoadedStays DEF FilesInv
<1> QED
  BY <1>1, <1>3, <1>4, <1>5 DEF FilesInv

LEMMA DyingKeepsFiles ==
  ASSUME Shapes, ThreadsInv, FilesInv, UNCHANGED plan, NEW l \in Launches, Dies(l)
  PROVE  FilesInv' /\ WholeStays /\ UNCHANGED disk
<1>1. /\ UNCHANGED <<disk, part, mingled, spilt, unread, loaded>>
      /\ \A u \in Threads : u[1] = l => task'[u] = None
      /\ \A u \in Threads : u[1] # l => task'[u] = task[u] /\ handle'[u] = handle[u]
  BY DEF Dies, Close, ThreadsOf
<1>2. Grow
  BY <1>1 DEF Grow
<1>3. Apart'
  BY <1>1 DEF FilesInv, Apart, Wants
<1> QED
  BY <1>1, <1>2, <1>3, WaitingKeepsFiles

\* A thread begins to look for a model, or to fetch the CUDA libraries.
Looks(t) ==
  \E name : \/ Begin(t, name, "resolve")
            \/ name = "cuda" /\ Args(t[1]).install_cuda /\ Begin(t, name, "fetch")

LEMMA BeginningKeepsFiles ==
  ASSUME Shapes, ThreadsInv, FilesInv, UNCHANGED <<plan, fileVars, loaded>>,
         NEW t \in Threads, Looks(t) \/ Rests(t)
  PROVE  FilesInv' /\ WholeStays
<1>1. UNCHANGED <<disk, part, handle>>
  BY DEF fileVars
<1>2. CASE Rests(t)
  <2>1. task' = [task EXCEPT ![t] = None] /\ UNCHANGED <<mingled, spilt, unread>>
    BY <1>2 DEF Rests, Marks
  <2>2. Grow
    BY <2>1 DEF Grow
  <2>3. Apart'
    BY <2>1 DEF FilesInv, Apart, Shapes, Wants
  <2> QED
    BY <1>1, <2>1, <2>2, <2>3, WaitingKeepsFiles DEF Shapes
<1>3. CASE Looks(t)
  <2>1. PICK name, at :
          /\ Begin(t, name, at)
          /\ at = "resolve" \/ (at = "fetch" /\ name = "cuda" /\ Args(t[1]).install_cuda)
    BY <1>3 DEF Looks
  <2> DEFINE nk == [name |-> name, at |-> at, todo |-> Wanted(name), bad |-> {}, seen |-> <<>>,
                    dir |-> "cache", repair |-> FALSE]
  <2>2. /\ task' = [task EXCEPT ![t] = nk] /\ UNCHANGED <<spilt, unread>>
        /\ mingled' = mingled \cup
             {f \in ToSet(Wanted(name)) : \E u \in Threads \ {t} : f \in Wants(task[u])}
    BY <2>1 DEF Begin
  <2>3. Grow
    BY <2>2 DEF Grow
  <2>4. task'[t] = nk /\ \A u \in Threads \ {t} : task'[u] = task[u]
    BY <2>2 DEF Shapes
  <2>5. ThreadFiles(t)'
    <3>1. KindOf(nk)
      BY <2>1 DEF KindOf
    <3>2. OpenOf(t)' /\ StreamOf(t)' /\ CopyOf(t)'
      BY <2>1, <2>4, NothingOpen
    <3>3. ~IsPreset("cuda")
      BY FilesOfPresets
    <3>4. PresetOf(t)'
      BY <2>1, <2>4, <3>3 DEF PresetOf, Is
    <3>5. OfflineOf(t)'
      BY <2>1, <2>4 DEF OfflineOf, Args
    <3> QED
      BY <2>4, <3>1, <3>2, <3>4, <3>5 DEF ThreadFiles
  <2>6. Apart'
    <3>1. Wants(nk) \subseteq ToSet(Wanted(name))
      BY DEF Wants
    <3>2. ASSUME NEW u \in Threads \ {t}
          PROVE  Wants(task'[t]) \cap Wants(task'[u]) \subseteq mingled'
      BY <2>2, <2>4, <3>1
    <3>3. ASSUME NEW u \in Threads \ {t}, NEW k \in Threads \ {t}, u # k
          PROVE  Wants(task'[u]) \cap Wants(task'[k]) \subseteq mingled'
      BY <2>2, <2>4, <3>3 DEF FilesInv, Apart
    <3> QED
      BY <3>2, <3>3 DEF Apart
  <2> HIDE DEF nk
  <2> QED
    BY <1>1, <2>3, <2>4, <2>5, <2>6, WaitingKeepsFiles
<1> QED
  BY <1>2, <1>3

LEMMA LoadingKeepsFiles ==
  ASSUME Shapes, ThreadsInv, FilesInv, UNCHANGED <<plan, fileVars>>,
         NEW l \in Launches, NEW t \in Threads, Builds(l, t), Rests(t)
  PROVE  FilesInv' /\ WholeStays
<1>1. UNCHANGED <<disk, part, handle, mingled, spilt, unread>> /\ task' = [task EXCEPT ![t] = None]
  BY DEF fileVars, Rests, Marks
<1>2. Grow /\ Suspect' = Suspect
  BY <1>1 DEF Grow, Suspect
<1>3. Apart'
  BY <1>1 DEF FilesInv, Apart, Shapes, Wants
<1>4. DOMAIN loaded' = Launches /\ WeightsAreThePinned'
  <2> DEFINE new == [name |-> task[t].name, dir |-> task[t].dir, weights |-> Weights(t)]
  <2>1. loaded' = [loaded EXCEPT ![l] = new]
    BY DEF Builds
  <2>2. DOMAIN loaded' = Launches /\ loaded'[l] = new /\ \A k \in Launches \ {l} : loaded'[k] = loaded[k]
    BY <2>1 DEF FilesInv
  <2>3. ASSUME IsPreset(new.name), new.dir = "cache", NEW f \in ToSet(Files(new.name)) \ Suspect
        PROVE  new.weights[f] = Whole(f)
    <3>1. disk[f] = Whole(f)
      BY <2>3 DEF FilesInv, ThreadFiles, PresetOf, Builds
    <3>2. Weights(t)[f] = disk[f]
      BY <2>3 DEF Weights
    <3> QED
      BY <3>1, <3>2
  <2> HIDE DEF new
  <2>4. ASSUME NEW k \in Launches, loaded'[k] # None, loaded'[k].dir = "cache", IsPreset(loaded'[k].name),
               NEW f \in ToSet(Files(loaded'[k].name)) \ Suspect
        PROVE  loaded'[k].weights[f] = Whole(f)
    BY <2>2, <2>3, <2>4 DEF FilesInv, WeightsAreThePinned, Suspect
  <2> QED
    BY <1>2, <2>2, <2>4 DEF WeightsAreThePinned, Suspect
<1> QED
  BY <1>1, <1>2, <1>3, <1>4, WaitingKeepsFiles DEF Shapes

LEMMA FewStepsReachAFile ==
  ASSUME [Next]_vars
  PROVE  \/ \E t \in Threads : TaskStep(t) /\ UNCHANGED loaded
         \/ \E t \in Threads : Saves(t)
         \/ \E l \in Launches : Dies(l)
         \/ /\ UNCHANGED fileVars
            /\ \/ UNCHANGED <<artefactVars, loaded>>
               \/ \E t \in Threads : (Looks(t) \/ Rests(t)) /\ UNCHANGED loaded
               \/ \E l \in Launches : \E t \in Threads : Builds(l, t) /\ Rests(t)
<1>1. CASE UNCHANGED vars
  BY <1>1, Zenon DEF vars, processVars
<1>2. ASSUME NEW l \in Launches, Boots(l)
      PROVE  /\ UNCHANGED fileVars
             /\ \/ UNCHANGED <<artefactVars, loaded>>
                \/ (Looks(MainThread(l)) \/ Rests(MainThread(l))) /\ UNCHANGED loaded
                \/ Builds(l, MainThread(l)) /\ Rests(MainThread(l))
  <2>1. CASE BindPort(l) \/ ReadSettings(l) \/ OpenStemCache(l) \/ Advertise(l)
    BY <2>1, Zenon DEF BindPort, ReadSettings, OpenStemCache, Advertise, OnlyPhase
  <2>2. CASE LoadModel(l) \/ LoadFails(l)
    BY <2>2, Zenon DEF LoadModel, LoadFails, OnlyPhase, Looks
  <2>3. CASE QueueStarts(l)
    BY <2>3, Zenon DEF QueueStarts
  <2>4. CASE InstallCuda(l)
    <3>1. MainThread(l)[1] = l
      BY MainIsThread
    <3> QED
      BY <2>4, <3>1, Zenon DEF InstallCuda, OnlyPhase, Looks
  <2> QED
    BY <1>2, <2>1, <2>2, <2>3, <2>4, Zenon DEF Boots
<1>3. ASSUME NEW l \in Launches, Ends(l)
      PROVE  Dies(l) \/ UNCHANGED <<fileVars, artefactVars, loaded>>
  BY <1>3, Zenon DEF Ends, CloseRequested, SignalReceived, WindowClosed, Answer, StopWorker,
                     Withdraw, Exit, Crash, QuitOnly, processVars
<1>4. ASSUME NEW l \in Launches, Runs(l)
      PROVE  /\ UNCHANGED fileVars
             /\ \/ UNCHANGED <<artefactVars, loaded>>
                \/ (Looks(SwitchThread(l)) \/ Rests(SwitchThread(l))) /\ UNCHANGED loaded
                \/ Builds(l, SwitchThread(l)) /\ Rests(SwitchThread(l))
  BY <1>4, Zenon DEF Runs, PickFromMenu, SwitchBegins, SwitchLoads, SwitchFails, JobStarts, JobEnds,
                     processVars, Looks
<1>5. ASSUME NEW t \in Threads, Fetching(t[1], t)
      PROVE  TaskStep(t) /\ UNCHANGED loaded
  BY <1>5, Zenon DEF Fetching, processVars
<1>6. ASSUME NEW n \in Names, ServiceAnswers(n)
      PROVE  UNCHANGED <<fileVars, artefactVars, loaded>>
  BY <1>6, Zenon DEF ServiceAnswers, processVars
<1> QED
  BY <1>1, <1>2, <1>3, <1>4, <1>5, <1>6, MainIsThread, Zenon DEF Next

LEMMA FilesStep ==
  ASSUME SaveInv, FormatsInv, FilesInv, [Next]_vars
  PROVE  FilesInv' /\ WholeStays
<1>1. Shapes /\ ThreadsInv /\ plan' = plan
  BY DEF SaveInv, Next, vars
<1>2. ASSUME UNCHANGED <<fileVars, artefactVars, loaded>> PROVE FilesInv' /\ WholeStays
  <2>1. UNCHANGED <<task, mingled, spilt, unread, loaded>> /\ UNCHANGED <<disk, part, handle>>
    BY <1>2 DEF artefactVars, fileVars
  <2>2. Grow /\ Apart'
    BY <2>1 DEF Grow, FilesInv, Apart
  <2> QED
    BY <1>1, <2>1, <2>2, WaitingKeepsFiles
<1> QED
  BY <1>1, <1>2, FewStepsReachAFile, FetchingKeepsFiles, SavingKeepsFiles, DyingKeepsFiles,
     BeginningKeepsFiles, LoadingKeepsFiles

\* What a machine holds that may not download.
LEMMA OfflineTouchesNothing ==
  ASSUME SaveInv, FormatsInv, FilesInv, [Next]_vars,
         \A l \in Launches : Args(l).offline /\ ~Args(l).install_cuda
  PROVE  \A f \in Paths \ {JSON} : disk'[f] = disk[f]
<1>1. Shapes /\ ThreadsInv /\ plan' = plan
  BY DEF SaveInv, Next, vars
<1>2. ASSUME NEW t \in Threads, TaskStep(t) PROVE disk' = disk
  <2>1. Offline(t) /\ ~Args(t[1]).install_cuda
    BY DEF Offline, Threads
  <2>2. task[t] # None
    BY <1>1, <1>2, TaskLeaves DEF Leaves
  <2>3. task[t].at \in {"resolve", "hash", "ready", "failed"}
    BY <2>1, <2>2 DEF FilesInv, ThreadFiles, OfflineOf
  <2>4. Resolve(t) \/ Hash(t)
    BY <1>2, <2>3
       DEF TaskStep, Resolve, Hash, Repair, Rehash, FetchSkip, FetchDone, FetchOne, FetchChecked,
           FetchCorrupt, FetchPublish, PublishGone, Unpack, UnpackCopy, UnpackPlace, UnpackTidy,
           TaskFails, StreamChunk, StreamSpills, Is
  <2> QED
    BY <2>4 DEF Resolve, Hash, fileVars
<1>3. UNCHANGED fileVars => disk' = disk
  BY DEF fileVars
<1> QED
  BY <1>1, <1>2, <1>3, FewStepsReachAFile, SavingKeepsFiles, DyingKeepsFiles

FilesKept == SettingsKept /\ FormatsInv /\ FilesInv

LEMMA FilesBegin == ASSUME Init PROVE FilesInv
<1>1. /\ task = [t \in Threads |-> None] /\ loaded = [l \in Launches |-> None]
      /\ disk = [f \in Paths |-> IF f \in DOMAIN plan.disk THEN plan.disk[f] ELSE None]
      /\ plan \in Plans
  BY Zenon DEF Init, ArtefactInit
<1>2. Apart
  BY <1>1 DEF Apart, Wants
<1>3. \A t \in Threads : ThreadFiles(t)
  BY <1>1 DEF ThreadFiles, OpenOf, StreamOf, CopyOf, PresetOf, OfflineOf, Is
<1>4. WeightsAreThePinned
  BY <1>1 DEF WeightsAreThePinned
<1>5. LibrariesAreWhole
  <2>1. disk[DLL] \in {None, Whole(DLL)}
    BY <1>1, NamesOfFiles, BootAssumption
  <2> QED
    BY <2>1, NamesOfFiles DEF LibrariesAreWhole
<1> QED
  BY <1>1, <1>2, <1>3, <1>4, <1>5 DEF FilesInv

LEMMA FilesKeptAlways == Spec => []FilesKept
<1>1. Init => FilesKept
  BY SettingsBegin, FormatsBegin, FilesBegin DEF FilesKept
<1>2. FilesKept /\ [Next]_vars => FilesKept'
  BY SettingsGoOn, FormatsStep, FilesStep DEF FilesKept, SettingsKept
<1> QED
  BY <1>1, <1>2, PTL DEF Spec

\* A model is only ever loaded from the download cache as its digests pin it, and
\* a library is there whole or not at all, whatever is corrupt, cut short or
\* crashes, and whoever else is fetching (download.rs: fetch_one, integrity.rs:
\* verify, cuda.rs: unpack_libraries).
THEOREM FilesAreAsShipped == Spec => []FilesAreThePinned
<1>1. FilesKept => FilesAreThePinned
  BY DEF FilesKept, FilesInv, FilesAreThePinned
<1> QED
  BY <1>1, FilesKeptAlways, PTL

\* No step takes a whole file away, and none of a machine that may not download
\* touches a file (integrity.rs: verify, startup.rs: resolve_models).
THEOREM NothingWholeIsLost == Spec => KeepsWhatItCannotReplace
<1> DEFINE Kept ==
      /\ \A f \in Paths \ ({JSON} \cup ToSet(COMPONENTS)) :
           ~Mingled(f) /\ disk[f] = Whole(f) => disk'[f] = Whole(f)
      /\ (\A l \in Launches : Args(l).offline /\ ~Args(l).install_cuda) =>
           \A f \in Paths \ {JSON} : disk'[f] = disk[f]
<1>1. FilesKept /\ [Next]_vars => [Kept]_vars
  <2> SUFFICES ASSUME FilesKept, [Next]_vars PROVE Kept
    OBVIOUS
  <2>1. WholeStays
    BY FilesStep DEF FilesKept, SettingsKept
  <2>2. \A f \in Paths \ ({JSON} \cup ToSet(COMPONENTS)) :
          ~Mingled(f) /\ disk[f] = Whole(f) => disk'[f] = Whole(f)
    BY <2>1, NamesOfFiles DEF WholeStays
  <2>3. (\A l \in Launches : Args(l).offline /\ ~Args(l).install_cuda) =>
          \A f \in Paths \ {JSON} : disk'[f] = disk[f]
    BY OfflineTouchesNothing DEF FilesKept, SettingsKept
  <2> QED
    BY <2>2, <2>3
<1> QED
  BY <1>1, FilesKeptAlways, PTL DEF Spec, KeepsWhatItCannotReplace


-----------------------------------------------------------------------------
(* What a model is told apart by *)

\* A model is the first of its files, whoever named it.
LEMMA NamedByTheFirst ==
  ASSUME NEW name
  PROVE  /\ FromArtefact(name) # "custom" => FromArtefact(name) \in Presets
         /\ FromArtefact(name) \in Presets => DigestOf(FromArtefact(name)) = name
         /\ Head(Files(name)) = name
         /\ ModelIdentity(name)[1] = name
         /\ DOMAIN Families(name) \in {1 .. 1, 1 .. 2}
<1>1. FromArtefact(name) # "custom" => FromArtefact(name) \in Presets
  BY NamedIsPreset
<1>2. FromArtefact(name) \in Presets => Artefact(FromArtefact(name)) = name
  <2>1. "custom" \notin Presets
    BY DEF Presets
  <2>2. CASE \E p \in Presets : Artefact(p) = name
    BY <2>2, Zenon DEF FromArtefact
  <2>3. CASE ~\E p \in Presets : Artefact(p) = name
    BY <2>1, <2>3, Zenon DEF FromArtefact
  <2> QED
    BY <2>2, <2>3
<1>3. FromArtefact(name) \in Presets => DigestOf(FromArtefact(name)) = name
  BY <1>2 DEF DigestOf, Artefact
<1>4. Head(Files(name)) = name
  <2>1. CASE FromArtefact(name) = "custom"
    BY <2>1 DEF Files
  <2>2. CASE FromArtefact(name) # "custom"
    BY <1>1, <1>2, <2>2 DEF Files, Artefact
  <2> QED
    BY <2>1, <2>2
<1>5. ModelIdentity(name)[1] = name
  BY <1>1, <1>3 DEF ModelIdentity
<1>6. DOMAIN Families(name) \in {1 .. 1, 1 .. 2}
  BY DEF Families
<1> QED
  BY <1>1, <1>3, <1>4, <1>5, <1>6

\* One value stands for many only where they agree.
LEMMA KeyTellsApart ==
  ASSUME NEW D \in {1 .. 1, 1 .. 2}, NEW P, NEW Q,
         P = [i \in D |-> P[i]], Q = [i \in D |-> Q[i]], Key(P) = Key(Q)
  PROVE  P = Q
<1>1. DOMAIN P = D /\ DOMAIN Q = D
  OBVIOUS
<1>2. Head(P) = P[1] /\ Head(Q) = Q[1]
  OBVIOUS
<1>3. ASSUME D = 1 .. 1 PROVE P = Q
  <2>1. \A i \in D : i = 1
    BY <1>3
  <2>2. Key(P) = <<P[1]>> /\ Key(Q) = <<Q[1]>>
    BY <1>1, <1>2, <2>1 DEF Key
  <2> QED
    BY <2>1, <2>2
<1>4. ASSUME D = 1 .. 2 PROVE P = Q
  <2>1. \A i \in D : i = 1 \/ i = 2
    BY <1>4
  <2>2. Key(P) = IF P[1] = P[2] THEN <<P[1]>> ELSE P
    BY <1>1, <1>2, <1>4, <2>1 DEF Key
  <2>3. Key(Q) = IF Q[1] = Q[2] THEN <<Q[1]>> ELSE Q
    BY <1>1, <1>2, <1>4, <2>1 DEF Key
  <2>4. \A x : DOMAIN <<x>> # D
    BY <1>4
  <2>5. P[1] = P[2] <=> Q[1] = Q[2]
    BY <1>1, <2>2, <2>3, <2>4
  <2>6. P[1] = Q[1] /\ P[2] = Q[2]
    <3>1. CASE P[1] = P[2]
      BY <2>2, <2>3, <2>5, <3>1
    <3>2. CASE P[1] # P[2]
      BY <2>2, <2>3, <2>5, <3>2
    <3> QED
      BY <3>1, <3>2
  <2> QED
    BY <2>1, <2>6
<1> QED
  BY <1>3, <1>4

\* A sequence is as long as its indices say.
LEMMA AsLong ==
  ASSUME NEW k \in Nat, NEW S, NEW s \in [1 .. k -> S]
  PROVE  s \in Seq(S) /\ Len(s) = k
  OBVIOUS

LEMMA Shortened ==
  ASSUME NEW S, NEW s \in Seq(S), NEW k \in Nat, Len(s) = k, NEW n, n = IF k < 15 THEN k ELSE 15
  PROVE  n \in 0 .. 15 /\ Len(SubSeq(s, 1, n)) = n
<1>1. n \in 0 .. 15 /\ n \in 0 .. Len(s)
  OBVIOUS
<1> QED
  BY <1>1

\* What is left of a name the operator chose leaves room for its digest.
LEMMA TaggedIsShort ==
  ASSUME NEW C, NEW chars \in Seq(C)
  PROVE  Len(Tagged(chars)) \in 0 .. 15
<1> DEFINE portable(c) == IF Portable(c) THEN c ELSE "_"
<1>1. PICK k \in Nat : k = Len(chars) /\ DOMAIN chars = 1 .. k /\ \A i \in 1 .. k : chars[i] \in C
  OBVIOUS
<1>2. PICK f : f = [i \in 1 .. k |-> portable(chars[i])]
  OBVIOUS
<1>3. PICK s : s = AsPortable(chars)
  OBVIOUS
<1>4. s = [i \in 1 .. k |-> f[i]] /\ \A i \in 1 .. k : f[i] \in C \cup {"_"}
  BY <1>1, <1>2, <1>3 DEF AsPortable
<1>5. s \in Seq(C \cup {"_"}) /\ Len(s) = k
  <2>1. PICK S : S = C \cup {"_"}
    OBVIOUS
  <2>2. k \in Nat /\ \A i \in 1 .. k : f[i] \in S
    BY <1>1, <1>4, <2>1
  <2>3. s \in [1 .. k -> S]
    BY <1>4, <2>2
  <2>4. s \in Seq(S) /\ Len(s) = k
    BY <2>2, <2>3, AsLong, Zenon
  <2> QED
    BY <2>1, <2>4
<1>6. PICK n : n = IF k < 15 THEN k ELSE 15
  OBVIOUS
<1>7. Tagged(chars) = SubSeq(s, 1, n)
  BY <1>1, <1>3, <1>6 DEF Tagged, MAX_ID, CUSTOM_CHARS, DIGEST_CHARS
<1> QED
  <2>1. n \in 0 .. 15 /\ Len(SubSeq(s, 1, n)) = n
    BY <1>5, <1>6, Shortened, Zenon
  <2> QED
    BY <1>7, <2>1

\* The digest of every model a client is shown gets through.
LEMMA ClientsSeeTheDigest ==
  ASSUME NEW name \in DOMAIN Spelled
  PROVE  /\ ClientSees(PublishedIdentity(name)).digest = ModelIdentity(name)
         /\ ClientSees(PublishedIdentity(name)) = 
              [prefix |-> PublishedIdentity(name).prefix,
               head |-> AsPortable(PublishedIdentity(name).head), digest |-> ModelIdentity(name)]
<1> DEFINE id == PublishedIdentity(name)
<1>1. id = [prefix |-> id.prefix, head |-> id.head, digest |-> ModelIdentity(name)]
  BY DEF PublishedIdentity
<1>2. id.prefix + Len(id.head) + 1 + DIGEST_CHARS <= MAX_ID
  <2>1. CASE FromArtefact(name) = "custom"
    <3>1. id.prefix = 7 /\ id.head = Tagged(Spelled[name])
      BY <2>1 DEF PublishedIdentity, CUSTOM_CHARS
    <3>2. Len(id.head) \in 0 .. 15
      BY <3>1, TaggedIsShort, SpelledAssumption
    <3>3. \A n \in 0 .. 15 : 7 + n + 1 + DIGEST_CHARS <= MAX_ID
      BY DEF DIGEST_CHARS, MAX_ID
    <3> QED
      BY <3>1, <3>2, <3>3
  <2>2. CASE FromArtefact(name) # "custom"
    <3>1. id.prefix = 0 /\ id.head = Spelled[name]
      BY <2>2 DEF PublishedIdentity
    <3>2. name = Artefact(FromArtefact(name)) /\ FromArtefact(name) \in Presets
      BY <2>2, NamedByTheFirst DEF DigestOf, Artefact
    <3>3. Spelled[name] \in Seq(ToSet(Spelled[name])) /\ Len(Spelled[name]) + 1 + DIGEST_CHARS <= MAX_ID
      BY <3>2, SpelledAssumption
    <3>4. \A n \in Nat : 0 + n = n
      OBVIOUS
    <3>5. Len(Spelled[name]) \in Nat
      BY <3>3
    <3> QED
      BY <3>1, <3>3, <3>4, <3>5, Zenon
  <2> QED
    BY <2>1, <2>2
<1> HIDE DEF id
<1>3. ClientSees(id) = [prefix |-> id.prefix, head |-> AsPortable(id.head), digest |-> ModelIdentity(name)]
  <2> DEFINE h == AsPortable(id.head)
  <2>1. ClientSees(id) = [id EXCEPT !.head = h, !.digest = id.digest]
    BY <1>2, Zenon DEF ClientSees
  <2> HIDE DEF h
  <2>2. ClientSees(id) = [prefix |-> id.prefix, head |-> h, digest |-> id.digest]
    BY <1>1, <2>1
  <2> QED
    BY <1>1, <2>2 DEF h
<1> QED
  BY <1>3 DEF id

\* What two models are told apart by, here and by a client.
LEMMA ModelsAreToldApart ==
  ASSUME NEW a \in DOMAIN Spelled, NEW b \in DOMAIN Spelled,
         NEW full, NEW full2, NEW on, NEW over, NEW over2
  PROVE  /\ (IdentityOf(a, full, on, over) = IdentityOf(b, full2, on, over2))
              <=> (/\ Files(a) = Files(b) /\ over = over2
                   /\ Precisions(full, a, on) = Precisions(full2, b, on))
         /\ (ClientSees(PublishedIdentity(a)) = ClientSees(PublishedIdentity(b)))
              <=> Files(a) = Files(b)
<1>1. Files(a) = Files(b) <=> a = b
  BY NamedByTheFirst
<1>2. ModelIdentity(a) = ModelIdentity(b) <=> a = b
  BY NamedByTheFirst
<1>3. a = b /\ Key(Precisions(full, a, on)) = Key(Precisions(full2, b, on))
        => Precisions(full, a, on) = Precisions(full2, b, on)
  <2> SUFFICES ASSUME a = b, Key(Precisions(full, a, on)) = Key(Precisions(full2, b, on))
               PROVE  Precisions(full, a, on) = Precisions(full2, b, on)
    OBVIOUS
  <2> DEFINE P == Precisions(full, a, on)
             Q == Precisions(full2, b, on)
             D == DOMAIN Families(a)
  <2>1. P = [i \in D |-> P[i]] /\ Q = [i \in D |-> Q[i]]
    BY DEF Precisions
  <2>2. D \in {1 .. 1, 1 .. 2}
    BY NamedByTheFirst
  <2> HIDE DEF P, Q, D
  <2>3. Key(P) = Key(Q)
    BY DEF P, Q
  <2>4. P = Q
    BY <2>1, <2>2, <2>3, KeyTellsApart
  <2> QED
    BY <2>4 DEF P, Q
<1>4. (IdentityOf(a, full, on, over) = IdentityOf(b, full2, on, over2))
        <=> (/\ ModelIdentity(a) = ModelIdentity(b) /\ over = over2
             /\ Key(Precisions(full, a, on)) = Key(Precisions(full2, b, on)))
  BY DEF IdentityOf
<1>5. (ClientSees(PublishedIdentity(a)) = ClientSees(PublishedIdentity(b))) <=> a = b
  BY <1>2, ClientsSeeTheDigest
<1> QED
  BY <1>1, <1>2, <1>3, <1>4, <1>5
-----------------------------------------------------------------------------
(* What a thread fetches is a model, or the CUDA libraries *)

IsModel(name) == name \in DOMAIN Spelled /\ ToSet(Files(name)) \subseteq Paths

\* Only a launch that installs the libraries fetches them, and it loads no model.
Installs(t) == t[2] = "main" /\ phase[t[1]] = "installing"
Asked(t, name) == IsModel(name) \/ (name = "cuda" /\ Installs(t))

NamesInv ==
  /\ \A t \in Threads : task[t] # None => Asked(t, task[t].name)
  /\ \A l \in Launches : loaded[l] # None => IsModel(loaded[l].name)
  /\ mingled \cup spilt \cup unread \subseteq Paths

LEMMA PresetsAreModels ==
  ASSUME NEW p \in Presets
  PROVE  IsModel(Artefact(p))
<1>1. IsPreset(Artefact(p))
  BY PresetsNameNone DEF IsPreset
<1> QED
  BY <1>1, FilesOfPresets, NamesOfFiles, SpelledAssumption DEF IsModel

LEMMA RequestedIsModel ==
  ASSUME plan \in Plans, PresetsInv, NEW l \in Launches
  PROVE  IsModel(Requested(l))
<1>1. CASE Args(l).demucs_model # None
  <2> DEFINE name == Args(l).demucs_model
  <2>1. name \in Paths \cap DOMAIN Spelled
    BY <1>1, BootAssumption DEF Args
  <2>2. CASE FromArtefact(name) = "custom"
    <3>1. ToSet(Files(name)) = {name}
      BY <2>2 DEF Files, ToSet
    <3> QED
      BY <1>1, <2>1, <3>1 DEF IsModel, Requested
  <2>3. CASE FromArtefact(name) # "custom"
    <3>1. IsPreset(name)
      BY <2>3, NamedIsPreset DEF IsPreset
    <3> QED
      BY <1>1, <2>1, <3>1, FilesOfPresets, NamesOfFiles DEF IsModel, Requested
  <2> QED
    BY <2>2, <2>3
<1>2. CASE Args(l).demucs_model = None
  BY <1>2, PresetsAreModels DEF Requested, PresetsInv
<1> QED
  BY <1>1, <1>2

LEMMA WantedIsThere ==
  ASSUME NEW name, IsModel(name) \/ name = "cuda"
  PROVE  ToSet(Wanted(name)) \subseteq Paths
  BY NamesOfFiles DEF IsModel, Wanted

\* Of the threads but those in ts none that installs is at something else.
InstallsOn(ts) == \A u \in Threads \ ts : Installs(u) => Installs(u)'

LEMMA StayingKeepsNames ==
  ASSUME NamesInv, UNCHANGED <<artefactVars, loaded>>, InstallsOn({})
  PROVE  NamesInv'
  BY DEF NamesInv, artefactVars, InstallsOn, Asked, IsModel

LEMMA RestingKeepsNames ==
  ASSUME Shapes, NamesInv, NEW t \in Threads, Rests(t), InstallsOn({t}),
         \A l \in Launches : loaded'[l] = loaded[l] \/ IsModel(loaded'[l].name)
  PROVE  NamesInv'
<1>1. /\ task'[t] = None /\ \A u \in Threads \ {t} : task'[u] = task[u]
      /\ UNCHANGED <<mingled, spilt, unread>>
  BY DEF Rests, Marks, Shapes
<1> QED
  BY <1>1 DEF NamesInv, InstallsOn, Asked, IsModel

LEMMA BeginningKeepsNames ==
  ASSUME Shapes, NamesInv, NEW t \in Threads, NEW name, NEW at, Begin(t, name, at),
         IsModel(name) \/ (name = "cuda" /\ Installs(t)'), InstallsOn({t}), UNCHANGED loaded
  PROVE  NamesInv'
<1>1. /\ task'[t].name = name /\ \A u \in Threads \ {t} : task'[u] = task[u]
      /\ UNCHANGED <<spilt, unread>> /\ mingled' \subseteq mingled \cup ToSet(Wanted(name))
  BY DEF Begin, Shapes
<1>2. ToSet(Wanted(name)) \subseteq Paths
  BY WantedIsThere
<1> QED
  BY <1>1, <1>2 DEF NamesInv, InstallsOn, Asked, IsModel

LEMMA TaskMarks ==
  ASSUME Shapes, ThreadsInv, NEW t \in Threads, TaskStep(t)
  PROVE  /\ UNCHANGED mingled
         /\ \/ UNCHANGED <<spilt, unread>>
            \/ /\ task[t].todo # <<>>
               /\ spilt' \subseteq spilt \cup {NextFile(t)}
               /\ unread' \subseteq unread \cup {NextFile(t)}
<1>1. CASE FetchSkip(t)
  BY <1>1 DEF FetchSkip, Skips
<1>2. CASE StreamSpills(t)
  <2>1. task[t].todo # <<>>
    BY <1>2, FetchingFacts DEF StreamSpills, Is, Busy
  <2> QED
    BY <1>2, <2>1 DEF StreamSpills
<1>3. CASE Marks
  BY <1>3 DEF Marks
<1> QED
  BY <1>1, <1>2, <1>3, Zenon
     DEF TaskStep, Resolve, Hash, Repair, Rehash, FetchDone, FetchOne, FetchChecked, FetchCorrupt,
         FetchPublish, PublishGone, Unpack, UnpackCopy, UnpackPlace, UnpackTidy, TaskFails, StreamChunk

LEMMA FetchingKeepsNames ==
  ASSUME Shapes, ThreadsInv, NamesInv, NEW t \in Threads, TaskStep(t), UNCHANGED <<phase, loaded>>
  PROVE  NamesInv'
<1>1. task[t] # None /\ SameTask(t)
  BY TaskLeaves DEF Leaves
<1>2. task[t].todo # <<>> => NextFile(t) \in Paths
  <2> DEFINE W == ToSet(Wanted(task[t].name))
  <2>1. W \subseteq Paths
    BY <1>1, WantedIsThere DEF NamesInv, Asked
  <2>2. task[t].todo \in Seq(W)
    BY <1>1, FetchingFacts
  <2> HIDE DEF W
  <2> QED
    BY <2>1, <2>2 DEF NextFile
<1> QED
  BY <1>1, <1>2, TaskMarks DEF NamesInv, SameTask, Asked, Installs, IsModel

LEMMA DyingKeepsNames ==
  ASSUME Shapes, NamesInv, NEW l \in Launches, Dies(l)
  PROVE  NamesInv'
<1>1. /\ UNCHANGED <<mingled, spilt, unread, loaded>> /\ phase' = [phase EXCEPT ![l] = "over"]
      /\ \A t \in Threads : t[1] = l => task'[t] = None
      /\ \A t \in Threads : t[1] # l => task'[t] = task[t]
  BY DEF Dies
<1>2. \A t \in Threads : t[1] # l /\ Installs(t) => Installs(t)'
  BY <1>1 DEF Shapes, Installs
<1> QED
  BY <1>1, <1>2 DEF NamesInv, Asked, IsModel

LEMMA BootingKeepsNames ==
  ASSUME Shapes, ThreadsInv, PresetsInv, plan \in Plans, NamesInv, NEW l \in Launches, Boots(l)
  PROVE  NamesInv'
<1> DEFINE t == MainThread(l)
<1>0. t \in Threads /\ t[1] = l /\ t[2] = "main"
  BY MainIsThread
<1>1. ASSUME NEW from, NEW to, Goes(l, from, to)
      PROVE  /\ phase[l] = from /\ phase'[l] = to /\ InstallsOn({t})
             /\ from # "installing" => InstallsOn({})
  <2>1. phase[l] = from /\ phase'[l] = to /\ \A k \in Launches \ {l} : phase'[k] = phase[k]
    BY <1>1 DEF Goes, Shapes
  <2>2. \A u \in Threads : u[1] \in Launches /\ (u[1] = l /\ u[2] = "main" => u = t)
    BY DEF Threads, MainThread
  <2> QED
    BY <2>1, <2>2 DEF InstallsOn, Installs
<1>2. CASE BindPort(l) \/ ReadSettings(l) \/ OpenStemCache(l) \/ Advertise(l)
  <2>1. UNCHANGED <<artefactVars, loaded>>
    BY <1>2, Zenon DEF BindPort, ReadSettings, OpenStemCache, Advertise, OnlyPhase
  <2>2. \E from \in {"off", "bound", "settled", "loaded"} : \E to : Goes(l, from, to)
    BY <1>2 DEF BindPort, ReadSettings, OpenStemCache, Advertise, ClearsAt
  <2> QED
    BY <1>1, <2>1, <2>2, StayingKeepsNames
<1>3. CASE LoadModel(l)
  BY <1>0, <1>1, <1>3, RequestedIsModel, BeginningKeepsNames DEF LoadModel, OnlyPhase
<1>4. CASE QueueStarts(l)
  <2>1. /\ Goes(l, "loading", "loaded") /\ Rests(t) /\ task[t] # None
        /\ loaded' = [loaded EXCEPT ![l] =
                        [name |-> task[t].name, dir |-> task[t].dir, weights |-> Weights(t)]]
    BY <1>4 DEF QueueStarts, Builds, Is
  <2>2. IsModel(task[t].name)
    BY <1>0, <1>1, <2>1 DEF NamesInv, Asked, Installs
  <2>3. \A k \in Launches : loaded'[k] = loaded[k] \/ IsModel(loaded'[k].name)
    BY <2>1, <2>2
  <2> QED
    BY <1>0, <1>1, <2>1, <2>3, RestingKeepsNames
<1>5. CASE LoadFails(l)
  <2>1. /\ UNCHANGED loaded
        /\ \/ Goes(l, "loading", "loading") /\ Begin(t, Artefact(DEFAULT_PRESET), "resolve")
           \/ Goes(l, "loading", "over") /\ Rests(t)
    BY <1>5, Zenon DEF LoadFails, OnlyPhase
  <2>2. IsModel(Artefact(DEFAULT_PRESET))
    BY PresetsAreModels DEF Presets, DEFAULT_PRESET
  <2> QED
    BY <1>0, <1>1, <2>1, <2>2, BeginningKeepsNames, RestingKeepsNames
<1>6. CASE InstallCuda(l)
  <2>1. /\ UNCHANGED loaded
        /\ \/ Goes(l, "off", "installing") /\ Begin(t, "cuda", "fetch")
           \/ Goes(l, "off", "over") /\ UNCHANGED artefactVars
           \/ Goes(l, "installing", "over") /\ Rests(t)
    BY <1>6, Zenon DEF InstallCuda, OnlyPhase
  <2>2. Goes(l, "off", "installing") => Installs(t)'
    BY <1>0, <1>1 DEF Installs
  <2>3. Goes(l, "off", "over") => InstallsOn({})
    BY <1>1
  <2> QED
    BY <1>0, <1>1, <2>1, <2>2, <2>3, BeginningKeepsNames, RestingKeepsNames, StayingKeepsNames
<1> QED
  BY <1>2, <1>3, <1>4, <1>5, <1>6 DEF Boots

LEMMA RunningKeepsNames ==
  ASSUME Shapes, ThreadsInv, PresetsInv, plan \in Plans, NamesInv, NEW l \in Launches, Runs(l)
  PROVE  NamesInv'
<1> DEFINE t == SwitchThread(l)
<1>0. t \in Threads /\ t[1] = l /\ t[2] = "switch"
  BY MainIsThread
<1>1. UNCHANGED phase
  BY Zenon DEF Runs, PickFromMenu, SwitchBegins, SwitchLoads, SwitchFails, JobStarts, JobEnds, processVars
<1>2. \A ts : InstallsOn(ts)
  BY <1>1 DEF InstallsOn, Installs
<1>3. CASE \/ \E field, v : PickFromMenu(l, field, v)
           \/ JobStarts(l) \/ JobEnds(l)
  <2>1. UNCHANGED <<artefactVars, loaded>>
    BY <1>3, Zenon DEF PickFromMenu, JobStarts, JobEnds, processVars
  <2> QED
    BY <1>2, <2>1, StayingKeepsNames
<1>4. ASSUME NEW p \in plan.presets, SwitchBegins(l, p) PROVE NamesInv'
  <2>1. UNCHANGED loaded /\ Begin(t, Artefact(p), "resolve")
    BY <1>4, Zenon DEF SwitchBegins, processVars
  <2>2. IsModel(Artefact(p))
    BY BootAssumption, PresetsAreModels
  <2> QED
    BY <1>0, <1>2, <2>1, <2>2, BeginningKeepsNames
<1>5. CASE SwitchLoads(l)
  <2>1. /\ Rests(t) /\ task[t] # None
        /\ loaded' = [loaded EXCEPT ![l] =
                        [name |-> task[t].name, dir |-> task[t].dir, weights |-> Weights(t)]]
    BY <1>5 DEF SwitchLoads, Builds, Is
  <2>2. IsModel(task[t].name)
    BY <1>0, <2>1 DEF NamesInv, Asked, Installs
  <2>3. \A k \in Launches : loaded'[k] = loaded[k] \/ IsModel(loaded'[k].name)
    BY <2>1, <2>2
  <2> QED
    BY <1>0, <1>2, <2>1, <2>3, RestingKeepsNames
<1>6. CASE SwitchFails(l)
  <2>1. UNCHANGED loaded /\ Rests(t)
    BY <1>6, Zenon DEF SwitchFails, processVars
  <2> QED
    BY <1>0, <1>2, <2>1, RestingKeepsNames
<1> QED
  BY <1>3, <1>4, <1>5, <1>6, Zenon DEF Runs

LEMMA NamesStep ==
  ASSUME SettingsKept, NamesInv, [Next]_vars
  PROVE  NamesInv'
<1>0. Shapes /\ ThreadsInv /\ PresetsInv /\ plan \in Plans
  BY DEF SettingsKept, SaveInv
<1>1. ASSUME UNCHANGED <<artefactVars, loaded, phase>> PROVE NamesInv'
  BY <1>1, StayingKeepsNames DEF InstallsOn, Installs
<1>2. CASE UNCHANGED vars
  BY <1>1, <1>2 DEF vars, processVars
<1>3. ASSUME NEW l \in Launches, Ends(l) PROVE NamesInv'
  <2>1. Dies(l) \/ UNCHANGED <<artefactVars, loaded, phase>>
    BY <1>3, Zenon DEF Ends, CloseRequested, SignalReceived, WindowClosed, Answer, StopWorker,
                       Withdraw, Exit, Crash, QuitOnly, processVars
  <2> QED
    BY <1>0, <1>1, <2>1, DyingKeepsNames
<1>4. ASSUME \/ \E t \in Threads : Saves(t)
             \/ \E n \in Names : ServiceAnswers(n)
      PROVE  NamesInv'
  <2>1. UNCHANGED <<artefactVars, loaded, phase>>
    BY <1>4, Zenon DEF Saves, ServiceAnswers, processVars
  <2> QED
    BY <1>1, <2>1
<1>5. ASSUME NEW t \in Threads, Fetching(t[1], t) PROVE NamesInv'
  <2>1. TaskStep(t) /\ UNCHANGED <<phase, loaded>>
    BY <1>5, Zenon DEF Fetching, processVars
  <2> QED
    BY <1>0, <2>1, FetchingKeepsNames
<1> QED
  BY <1>0, <1>2, <1>3, <1>4, <1>5, BootingKeepsNames, RunningKeepsNames, Zenon DEF Next

LEMMA NamesBegin == ASSUME Init PROVE NamesInv
  BY DEF Init, ArtefactInit, NamesInv

\* Two launches have one cache key, and a client one name for their stems,
\* exactly when the same weights made them the same way: no name, precision or
\* overlap is lost on the way to a cache key, and no digest on the way to a client
\* (switch.rs: identity, published_identity; ident.rs: tagged).
THEOREM AudioIsToldApart == Spec => []IdentityTellsAudioApart
<1>1. Init => NamesInv
  BY NamesBegin
<1>2. FilesKept /\ NamesInv /\ [Next]_vars => NamesInv'
  BY NamesStep DEF FilesKept
<1>3. NamesInv => IdentityTellsAudioApart
  <2> SUFFICES ASSUME NamesInv, NEW l \in Launches, NEW k \in Launches,
                      loaded[l] # None, loaded[k] # None
               PROVE  LET a == loaded[l].name
                          b == loaded[k].name
                      IN  /\ (IdentityOf(a, ForcedPrecision(l), plan.on, Args(l).overlap)
                                 = IdentityOf(b, ForcedPrecision(k), plan.on, Args(k).overlap))
                               <=> (/\ Files(a) = Files(b)
                                    /\ Precisions(ForcedPrecision(l), a, plan.on)
                                         = Precisions(ForcedPrecision(k), b, plan.on)
                                    /\ Args(l).overlap = Args(k).overlap)
                          /\ (ClientSees(PublishedIdentity(a)) = ClientSees(PublishedIdentity(b)))
                               <=> Files(a) = Files(b)
    BY Zenon DEF IdentityTellsAudioApart, Precisions
  <2>1. loaded[l].name \in DOMAIN Spelled /\ loaded[k].name \in DOMAIN Spelled
    BY DEF NamesInv, IsModel
  <2> QED
    BY <2>1, ModelsAreToldApart
<1> QED
  BY <1>1, <1>2, <1>3, FilesKeptAlways, PTL DEF Spec

-----------------------------------------------------------------------------
(* What the variables hold *)

Where == {"part", "disk", "gone"}

\* A thread that writes has the file open, whoever renamed or removed it.
HandlesInv ==
  /\ \A t \in Threads : handle[t] # None => handle[t].at \in Where
  /\ \A t \in Threads : Is(t, "stream") \/ Is(t, "copy") => handle[t].at \in Where

\* A handle is open, if not of this thread then as it was or moved.
StillOpen(t) ==
  /\ \A u \in Threads \ {t} : handle[u].at \in Where => handle'[u].at \in Where
  /\ \A u \in Threads : handle'[u] # None => handle'[u].at \in Where

LEMMA MovedIsOpen ==
  ASSUME NEW h, NEW f, h # None => DOMAIN h = {"path", "at", "off"} /\ h.at \in Where
  PROVE  /\ h.at \in Where => Moved(h, f).at \in Where
         /\ Moved(h, f) # None => Moved(h, f).at \in Where
  BY DEF Moved, Where

LEMMA UnlinkedIsOpen ==
  ASSUME NEW h, NEW fs, NEW where, h # None => DOMAIN h = {"path", "at", "off"} /\ h.at \in Where
  PROVE  /\ h.at \in Where => Unlinked(h, fs, where).at \in Where
         /\ Unlinked(h, fs, where) # None => Unlinked(h, fs, where).at \in Where
  BY DEF Unlinked, Where

LEMMA FileStepsStayOpen ==
  ASSUME Shapes, HandlesInv, NEW t \in Threads
  PROVE  /\ \A f : Create(t, f) => StillOpen(t) /\ handle'[t].at \in Where
         /\ \A cells : Put(t, cells) /\ DOMAIN handle[t] = {"path", "at", "off"} /\ handle[t].at \in Where
              => StillOpen(t) /\ handle'[t].at \in Where
         /\ \A f : Rename(t, f) => StillOpen(t)
         /\ \A fs : Delete(fs) => StillOpen(t)
         /\ \A f : RemovePart(t, f) => StillOpen(t)
         /\ Close({t}) => StillOpen(t)
         /\ UNCHANGED handle => StillOpen(t)
<1>0. \A u \in Threads : handle[u] # None => DOMAIN handle[u] = {"path", "at", "off"} /\ handle[u].at \in Where
  BY DEF Shapes, HandlesInv
<1>1. ASSUME NEW f, Create(t, f) PROVE StillOpen(t) /\ handle'[t].at \in Where
  BY <1>1 DEF Create, StillOpen, Shapes, HandlesInv, Where
<1>2. ASSUME NEW cells, Put(t, cells), DOMAIN handle[t] = {"path", "at", "off"}, handle[t].at \in Where
      PROVE  StillOpen(t) /\ handle'[t].at \in Where
  <2>1. handle'[t].at = handle[t].at /\ \A u \in Threads \ {t} : handle'[u] = handle[u]
    BY <1>2 DEF Put, Shapes
  <2> QED
    BY <1>2, <2>1 DEF StillOpen, HandlesInv
<1>3. ASSUME NEW f, Rename(t, f) PROVE StillOpen(t)
  <2>1. handle'[t] = None /\ \A u \in Threads \ {t} : handle'[u] = Moved(handle[u], f)
    BY <1>3 DEF Rename
  <2>2. ASSUME NEW u \in Threads, handle'[u] = Moved(handle[u], f)
        PROVE  /\ handle[u].at \in Where => handle'[u].at \in Where
               /\ handle'[u] # None => handle'[u].at \in Where
    BY <1>0, <2>2, MovedIsOpen
  <2> QED
    BY <2>1, <2>2 DEF StillOpen
<1>4. ASSUME NEW fs, Delete(fs) PROVE StillOpen(t)
  <2>1. \A u \in Threads : handle'[u] = Unlinked(handle[u], fs, "disk")
    BY <1>4 DEF Delete
  <2>2. ASSUME NEW u \in Threads, handle'[u] = Unlinked(handle[u], fs, "disk")
        PROVE  /\ handle[u].at \in Where => handle'[u].at \in Where
               /\ handle'[u] # None => handle'[u].at \in Where
    BY <1>0, <2>2, UnlinkedIsOpen
  <2> QED
    BY <2>1, <2>2 DEF StillOpen
<1>5. ASSUME NEW f, RemovePart(t, f) PROVE StillOpen(t)
  <2>1. handle'[t] = None /\ \A u \in Threads \ {t} : handle'[u] = Unlinked(handle[u], {f}, "part")
    BY <1>5 DEF RemovePart
  <2>2. ASSUME NEW u \in Threads, handle'[u] = Unlinked(handle[u], {f}, "part")
        PROVE  /\ handle[u].at \in Where => handle'[u].at \in Where
               /\ handle'[u] # None => handle'[u].at \in Where
    BY <1>0, <2>2, UnlinkedIsOpen
  <2> QED
    BY <2>1, <2>2 DEF StillOpen
<1>6. ASSUME Close({t}) PROVE StillOpen(t)
  BY <1>6 DEF Close, StillOpen, HandlesInv
<1>7. UNCHANGED handle => StillOpen(t)
  BY DEF StillOpen, HandlesInv
<1> QED
  BY <1>1, <1>2, <1>3, <1>4, <1>5, <1>6, <1>7

LEMMA OpenStays ==
  ASSUME HandlesInv, NEW t \in Threads, StillOpen(t), \A u \in Threads \ {t} : task'[u] = task[u],
         Is(t, "stream")' \/ Is(t, "copy")' => handle'[t].at \in Where
  PROVE  HandlesInv'
  BY DEF HandlesInv, StillOpen, Is

LEMMA FetchingStaysOpen ==
  ASSUME Shapes, ThreadsInv, HandlesInv, NEW t \in Threads, TaskStep(t)
  PROVE  HandlesInv'
<1>0. SameTask(t) /\ task[t] # None
  BY TaskLeaves DEF Leaves
<1>1. Is(t, "stream") \/ Is(t, "copy") =>
        DOMAIN handle[t] = {"path", "at", "off"} /\ handle[t].at \in Where
  BY FetchingFacts DEF Is, HandlesInv
<1>2. ASSUME StillOpen(t), handle'[t].at \in Where PROVE HandlesInv'
  BY <1>0, <1>2, OpenStays DEF SameTask
<1>3. ASSUME StillOpen(t), task'[t].at \notin {"stream", "copy"} PROVE HandlesInv'
  BY <1>0, <1>3, OpenStays DEF SameTask, Is
<1>4. CASE \/ Resolve(t) \/ Hash(t) \/ Rehash(t) \/ FetchSkip(t) \/ FetchDone(t) \/ PublishGone(t)
  <2>1. UNCHANGED handle
    BY <1>4, Zenon DEF Resolve, Hash, Rehash, FetchSkip, FetchDone, PublishGone, fileVars
  <2>2. task'[t].at \notin {"stream", "copy"}
    BY <1>0, <1>4 DEF Resolve, Hash, Rehash, FetchSkip, FetchDone, PublishGone, Now, Is, SameTask, Shapes,
                      ThreadsInv, Elsewhere, Fields
  <2> QED
    BY <1>3, <2>1, <2>2, FileStepsStayOpen
<1>5. CASE Repair(t) \/ UnpackTidy(t)
  <2>1. \E fs : Delete(fs)
    BY <1>5 DEF Repair, UnpackTidy
  <2>2. task'[t].at \notin {"stream", "copy"}
    BY <1>0, <1>5 DEF Repair, UnpackTidy, Is, Shapes, ThreadsInv, Elsewhere, Fields
  <2> QED
    BY <1>3, <2>1, <2>2, FileStepsStayOpen
<1>6. CASE FetchOne(t)
  BY <1>2, <1>6, FileStepsStayOpen DEF FetchOne
<1>7. CASE (\E cell : StreamChunk(t, cell)) \/ UnpackCopy(t)
  <2>1. \E cells : Put(t, cells)
    BY <1>7 DEF StreamChunk, UnpackCopy
  <2>2. Is(t, "stream") \/ Is(t, "copy")
    BY <1>7 DEF StreamChunk, UnpackCopy
  <2> QED
    BY <1>1, <1>2, <2>1, <2>2, FileStepsStayOpen
<1>8. CASE StreamSpills(t)
  <2>1. UNCHANGED handle /\ Is(t, "stream")
    BY <1>8 DEF StreamSpills, fileVars
  <2> QED
    BY <1>1, <1>2, <2>1, FileStepsStayOpen
<1>9. CASE FetchChecked(t) \/ TaskFails(t)
  <2>1. task'[t].at \notin {"stream", "copy"}
    BY <1>0, <1>9 DEF FetchChecked, TaskFails, Now, Is, Shapes, ThreadsInv, Elsewhere, Fields
  <2> QED
    BY <1>3, <1>9, <2>1, FileStepsStayOpen DEF FetchChecked, TaskFails
<1>10. CASE FetchCorrupt(t)
  <2>1. task'[t].at \notin {"stream", "copy"}
    BY <1>0, <1>10 DEF FetchCorrupt, Now, Is, Shapes, ThreadsInv, Elsewhere, Fields
  <2> QED
    BY <1>3, <1>10, <2>1, FileStepsStayOpen DEF FetchCorrupt
<1>11. CASE FetchPublish(t) \/ UnpackPlace(t)
  <2>1. \E f : Rename(t, f)
    BY <1>11 DEF FetchPublish, UnpackPlace
  <2>2. task'[t].at \notin {"stream", "copy"}
    BY <1>0, <1>11 DEF FetchPublish, UnpackPlace, Now, Is, Shapes, ThreadsInv, Elsewhere, Fields
  <2> QED
    BY <1>3, <2>1, <2>2, FileStepsStayOpen
<1>12. CASE Unpack(t)
  <2>1. CASE \E f : Create(t, f)
    BY <1>2, <2>1, FileStepsStayOpen
  <2>2. CASE UNCHANGED fileVars /\ Now(t, "failed")
    <3>1. task'[t].at = "failed" /\ UNCHANGED handle
      BY <1>0, <2>2 DEF Now, Shapes, ThreadsInv, Elsewhere, Fields, fileVars
    <3> QED
      BY <1>3, <3>1, FileStepsStayOpen
  <2> QED
    BY <1>12, <2>1, <2>2 DEF Unpack
<1> QED
  BY <1>4, <1>5, <1>6, <1>7, <1>8, <1>9, <1>10, <1>11, <1>12, Zenon DEF TaskStep

LEMMA HandlesStep ==
  ASSUME SettingsKept, FormatsInv, HandlesInv, [Next]_vars
  PROVE  HandlesInv'
<1>0. Shapes /\ ThreadsInv
  BY DEF SettingsKept, SaveInv
<1>1. ASSUME NEW t \in Threads, Saves(t) PROVE HandlesInv'
  <2>1. task[t] = None /\ UNCHANGED task
    BY <1>0, <1>1, SavingFrame, FetchingFacts DEF SavesOn
  <2>2. StillOpen(t)
    <3>1. CASE SaveFill(t)
      <4>1. handle[t].at \in Where /\ DOMAIN handle[t] = {"path", "at", "off"}
        BY <3>1 DEF SaveFill, FormatsInv, Handles, Where
      <4> QED
        BY <1>0, <3>1, <4>1, FileStepsStayOpen DEF SaveFill
    <3>2. CASE ~SaveFill(t)
      <4>1. (\E f : Create(t, f)) \/ (\E f : Rename(t, f)) \/ Close({t})
        BY <1>1, <3>2, Zenon DEF Saves, SaveStep, SaveCreate, SaveRename, SaveGone, SaveFails
      <4> QED
        BY <1>0, <4>1, FileStepsStayOpen
    <3> QED
      BY <3>1, <3>2
  <2> QED
    BY <2>1, <2>2, OpenStays DEF Is
<1>2. ASSUME NEW l \in Launches, Dies(l) PROVE HandlesInv'
  <2>1. /\ \A u \in Threads : u[1] = l => task'[u] = None /\ handle'[u] = None
        /\ \A u \in Threads : u[1] # l => task'[u] = task[u] /\ handle'[u] = handle[u]
    BY <1>2 DEF Dies, Close, ThreadsOf
  <2> QED
    BY <2>1 DEF HandlesInv, Is
<1>3. ASSUME UNCHANGED fileVars,
             UNCHANGED artefactVars \/ \E t \in Threads : Looks(t) \/ Rests(t)
      PROVE  HandlesInv'
  <2>1. UNCHANGED handle
    BY <1>3 DEF fileVars
  <2>2. ASSUME NEW u \in Threads PROVE Is(u, "stream")' \/ Is(u, "copy")' => Is(u, "stream") \/ Is(u, "copy")
    <3>1. ASSUME NEW t \in Threads, Looks(t) \/ Rests(t)
          PROVE  task'[u] = task[u] \/ task'[u] = None \/ task'[u].at \in {"resolve", "fetch"}
      BY <1>0, <3>1 DEF Looks, Rests, Begin, Shapes
    <3> QED
      BY <1>3, <3>1 DEF artefactVars, Is
  <2> QED
    BY <2>1, <2>2 DEF HandlesInv
<1> QED
  BY <1>0, <1>1, <1>2, <1>3, FewStepsReachAFile, FetchingStaysOpen

-----------------------------------------------------------------------------
(* Phases and settings *)

LEMMA PhaseStep ==
  ASSUME phase \in [Launches -> Phases], [Next]_vars
  PROVE  phase' \in [Launches -> Phases]
<1>1. ASSUME NEW l, NEW from, NEW to \in Phases, Goes(l, from, to) PROVE phase' \in [Launches -> Phases]
  BY <1>1 DEF Goes
<1>2. ASSUME NEW l \in Launches, Boots(l) PROVE phase' \in [Launches -> Phases]
  <2>1. PICK from, to \in Phases : Goes(l, from, to)
    BY <1>2 DEF Boots, BindPort, ReadSettings, OpenStemCache, ClearsAt, LoadModel, QueueStarts,
                LoadFails, Advertise, InstallCuda, Phases
  <2> QED
    BY <1>1, <2>1
<1>3. ASSUME NEW l \in Launches, Ends(l)
      PROVE  UNCHANGED phase \/ phase' = [phase EXCEPT ![l] = "over"]
  BY <1>3, Zenon DEF Ends, CloseRequested, SignalReceived, WindowClosed, Answer, StopWorker,
                     Withdraw, Exit, Crash, Dies, QuitOnly, processVars
<1>4. ASSUME NEW l \in Launches, Runs(l) PROVE UNCHANGED phase
  BY <1>4, Zenon DEF Runs, PickFromMenu, SwitchBegins, SwitchLoads, SwitchFails, JobStarts, JobEnds,
                     processVars
<1>5. ASSUME \/ \E t \in Threads : Fetching(t[1], t) \/ Saves(t)
             \/ \E n \in Names : ServiceAnswers(n)
      PROVE  UNCHANGED phase
  BY <1>5, Zenon DEF Fetching, Saves, ServiceAnswers, processVars
<1>6. CASE UNCHANGED vars
  BY <1>6 DEF vars, processVars
<1>7. "over" \in Phases
  BY DEF Phases
<1> QED
  BY <1>2, <1>3, <1>4, <1>5, <1>6, <1>7 DEF Next

RecordsInv ==
  /\ saved \in [Launches -> SettingsRecords]
  /\ DOMAIN current = Launches
  /\ \A l \in Launches : IsSettings(current[l]) /\ current[l].rate \in OutputRates

LEMMA ReconciledIsTyped ==
  ASSUME NEW s, IsSettings(s), s.rate \in OutputRates
  PROVE  /\ IsSettings(Reconciled(s)) /\ Reconciled(s).rate \in OutputRates
         /\ s \in SettingsRecords => Reconciled(s) \in SettingsRecords
<1>1. CASE Carries(s.format, s.rate)
  BY <1>1 DEF Reconciled
<1>2. CASE ~Carries(s.format, s.rate)
  <2> DEFINE m == Max({r \in OutputRates : Carries(s.format, r)})
  <2>1. Reconciled(s) = [s EXCEPT !.rate = m]
    BY <1>2 DEF Reconciled
  <2>2. m \in OutputRates
    BY HighestIsCarried
  <2> HIDE DEF m
  <2>3. [s EXCEPT !.rate = m] = [preset |-> s.preset, format |-> s.format, rate |-> m]
    BY DEF IsSettings
  <2> QED
    BY <2>1, <2>2, <2>3 DEF IsSettings, SettingsRecords
<1> QED
  BY <1>1, <1>2

LEMMA LoadIsTyped ==
  ASSUME NEW content
  PROVE  Load(content) \in SettingsRecords
<1>0. Defaults \in SettingsRecords
  BY DEF Defaults, SettingsRecords, Presets, DEFAULT_PRESET, StemFormats, OutputRates
<1>1. IntoSettings(Head(content)) \in SettingsRecords
  <2> DEFINE doc == Head(content)
             s == [preset |-> IF FromArtefact(doc.model) \in Presets
                              THEN FromArtefact(doc.model) ELSE Defaults.preset,
                   format |-> IF doc.output_format \in StemFormats
                              THEN doc.output_format ELSE Defaults.format,
                   rate   |-> IF doc.output_sample_rate \in OutputRates
                              THEN doc.output_sample_rate ELSE Defaults.rate]
  <2>1. s \in SettingsRecords
    BY <1>0 DEF SettingsRecords
  <2>2. IntoSettings(doc) = Reconciled(s)
    BY DEF IntoSettings
  <2> HIDE DEF s
  <2>3. IsSettings(s) /\ s.rate \in OutputRates
    BY <2>1 DEF SettingsRecords, IsSettings
  <2> QED
    BY <2>1, <2>2, <2>3, ReconciledIsTyped
<1> QED
  BY <1>0, <1>1 DEF Load

LEMMA PinIsTyped ==
  ASSUME NEW l, NEW s, IsSettings(s), s.rate \in OutputRates, ~BadFlag(l)
  PROVE  IsSettings(Pin(l, s)) /\ Pin(l, s).rate \in OutputRates
<1> DEFINE f == IF Args(l).output_format = None THEN s.format ELSE Args(l).output_format
           r == IF Args(l).output_sample_rate = None THEN s.rate
                ELSE Args(l).output_sample_rate
           pinned == [s EXCEPT !.format = f]
<1>0. r \in OutputRates
  BY DEF BadFlag
<1>1. Pin_Loose(l, s) = [[s EXCEPT !.format = f] EXCEPT !.rate = r]
  BY Zenon DEF Pin_Loose
<1> HIDE DEF f, r
<1>2. IsSettings(pinned)
  BY WithFormat DEF IsSettings
<1> HIDE DEF pinned
<1>3. [pinned EXCEPT !.rate = r] = [preset |-> pinned.preset, format |-> pinned.format, rate |-> r]
  BY <1>2, WithRate
<1>4. IsSettings(Pin_Loose(l, s)) /\ Pin_Loose(l, s).rate \in OutputRates
  BY <1>0, <1>1, <1>3 DEF IsSettings, pinned
<1> QED
  BY <1>4, ReconciledIsTyped DEF Pin

LEMMA ChangedIsTyped ==
  ASSUME NEW s, IsSettings(s), s.rate \in OutputRates, NEW field, NEW v,
         \/ field = "preset" /\ v \in Presets
         \/ field = "format" /\ v \in StemFormats
         \/ field = "rate" /\ v \in OutputRates
  PROVE  LET c == [s EXCEPT ![field] = v] IN
         /\ IsSettings(c) /\ c.rate \in OutputRates
         /\ s \in SettingsRecords => c \in SettingsRecords
<1>1. CASE field = "preset"
  BY <1>1, WithPreset DEF IsSettings, SettingsRecords
<1>2. CASE field = "format"
  BY <1>2, WithFormat DEF IsSettings, SettingsRecords
<1>3. CASE field = "rate"
  BY <1>3, WithRate DEF IsSettings, SettingsRecords
<1> QED
  BY <1>1, <1>2, <1>3

LEMMA RecordsStep ==
  ASSUME SettingsKept, RecordsInv, [Next]_vars
  PROVE  RecordsInv'
<1>0. /\ \A l \in Launches : IsSettings(saved[l]) /\ saved[l].rate \in OutputRates
      /\ Shapes /\ ThreadsInv /\ plan \in Plans
  BY DEF SettingsKept, SaveInv, RecordsInv, IsSettings, SettingsRecords
<1>1. CASE UNCHANGED <<saved, current>>
  BY <1>1 DEF RecordsInv
<1>2. ASSUME NEW l \in Launches, OpenSettings(l), ~BadFlag(l) PROVE RecordsInv'
  <2> DEFINE s == Load(disk[JSON])
  <2>1. saved' = [saved EXCEPT ![l] = s] /\ current' = [current EXCEPT ![l] = Pin(l, s)]
    BY <1>2 DEF OpenSettings
  <2>2. s \in SettingsRecords
    BY LoadIsTyped
  <2> HIDE DEF s
  <2>3. IsSettings(Pin(l, s)) /\ Pin(l, s).rate \in OutputRates
    BY <1>2, <2>2, PinIsTyped DEF SettingsRecords, IsSettings
  <2> QED
    BY <2>1, <2>2, <2>3 DEF RecordsInv
<1>3. ASSUME NEW l \in Launches, NEW t, NEW field, NEW v, Change(l, t, field, v),
             \/ field = "preset" /\ v \in Presets
             \/ field = "format" /\ v \in StemFormats
             \/ field = "rate" /\ v \in OutputRates
      PROVE  RecordsInv'
  <2> DEFINE c == [current[l] EXCEPT ![field] = v]
             s == [saved[l] EXCEPT ![field] = v]
  <2>1. /\ current' = [current EXCEPT ![l] = Reconciled(c)]
        /\ saved' = [saved EXCEPT ![l] = Reconciled(s)]
    BY <1>3, Zenon DEF Change
  <2>2. /\ IsSettings(c) /\ c.rate \in OutputRates
        /\ IsSettings(s) /\ s.rate \in OutputRates /\ s \in SettingsRecords
    BY <1>0, <1>3, ChangedIsTyped DEF RecordsInv
  <2> HIDE DEF c, s
  <2>3. /\ IsSettings(Reconciled(c)) /\ Reconciled(c).rate \in OutputRates
        /\ Reconciled(s) \in SettingsRecords
    BY <2>2, ReconciledIsTyped
  <2> QED
    BY <2>1, <2>3 DEF RecordsInv
<1>4. ASSUME NEW l \in Launches, Is(SwitchThread(l), "ready")
      PROVE  FromArtefact(task[SwitchThread(l)].name) \in Presets
  BY <1>0, <1>4, MainIsThread, FetchingFacts DEF Is
<1>5. plan.rates \subseteq OutputRates /\ plan.formats \subseteq StemFormats
  BY <1>0, BootAssumption
<1> QED
  BY <1>1, <1>2, <1>3, <1>4, <1>5, FewStepsChangeSettings

-----------------------------------------------------------------------------
(* The type invariant *)

TypeInv == phase \in [Launches -> Phases] /\ RecordsInv /\ HandlesInv /\ NamesInv /\ QuitInv

LEMMA TypesBegin == ASSUME Init PROVE TypeInv
<1>1. /\ phase = [l \in Launches |-> "off"]
      /\ saved = [l \in Launches |-> Defaults] /\ current = [l \in Launches |-> Defaults]
      /\ handle = [t \in Threads |-> None] /\ task = [t \in Threads |-> None]
  BY Zenon DEF Init, SettingsInit, ArtefactInit
<1>2. Defaults \in SettingsRecords
  BY DEF Defaults, SettingsRecords, Presets, DEFAULT_PRESET, StemFormats, OutputRates
<1>3. RecordsInv
  BY <1>1, <1>2 DEF RecordsInv, SettingsRecords, IsSettings
<1>4. HandlesInv
  BY <1>1 DEF HandlesInv, Is
<1>5. phase \in [Launches -> Phases]
  BY <1>1 DEF Phases
<1>6. QuitInv
  BY DEF Init, QuitInv, QuitShape, LostWasAgreed, Callers
<1> QED
  BY <1>3, <1>4, <1>5, <1>6, NamesBegin DEF TypeInv

\* Every variable of the machine holds what its part of the code can hold: a phase
\* of a launch, settings somebody could have chosen, a handle on a file or on what
\* was one, files of the download cache (state.rs, settings.rs, download.rs).
THEOREM HostTypes == Spec => []HostTypeOK
<1>1. Init => TypeInv
  BY TypesBegin
<1>2. FilesKept /\ TypeInv /\ [Next]_vars => TypeInv'
  BY PhaseStep, RecordsStep, HandlesStep, NamesStep, QuitStep DEF FilesKept, TypeInv
<1>3. FilesKept /\ TypeInv => HostTypeOK
  BY DEF FilesKept, SettingsKept, PresetsInv, TypeInv, RecordsInv, HandlesInv, Where, NamesInv, QuitInv,
         QuitShape, HostTypeOK
<1> QED
  BY <1>1, <1>2, <1>3, FilesKeptAlways, PTL DEF Spec
=============================================================================
