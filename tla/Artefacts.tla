----------------------------- MODULE Artefacts -----------------------------
(***************************************************************************)
(* Getting a model's weights onto the machine (stemd-server/src/models/,    *)
(* resolve_models of startup.rs, stage_artefact of switch.rs), and the CUDA *)
(* libraries (cuda.rs), which are fetched the same way.                     *)
(*                                                                         *)
(* The directory --models names is only read: what is in it is the          *)
(* operator's own (plan.local).  The download cache is `disk`, shared by    *)
(* every launch of the machine.  A whole file is what its digest pins.      *)
(***************************************************************************)
EXTENDS Staged, Models

VARIABLES
  task,     \* what each thread is fetching, and how far it is
  mingled,  \* files two threads were at once
  spilt,    \* files whose last bytes never reached the disk
  unread    \* damaged files a first run took for whole, as they were there

artefactVars == <<task, mingled, spilt, unread>>

Chunks == 2
Whole(f) == [i \in 1 .. Chunks |-> f]

\* The CUDA runtime: an archive, and the library in it.
COMPONENTS == <<"cudnn.zip">>
Library(archive) == "cudnn.dll"

Wanted(name) == IF name = "cuda" THEN COMPONENTS ELSE Files(name)
Wants(tk) == IF tk = None \/ tk.at \in {"ready", "failed"} THEN {}
             ELSE ToSet(Wanted(tk.name))

ArtefactInit ==
  /\ task = [t \in Threads |-> None]
  /\ mingled = {}
  /\ spilt = {}
  /\ unread = {}

Begin(t, name, at) ==
  /\ task' = [task EXCEPT ![t] =
       [name |-> name, at |-> at, todo |-> Wanted(name), bad |-> {}, seen |-> <<>>,
        dir |-> "cache", repair |-> FALSE]]
  /\ mingled' = mingled \cup
       {f \in ToSet(Wanted(name)) : \E u \in Threads \ {t} : f \in Wants(task[u])}
  /\ UNCHANGED <<spilt, unread>>

Is(t, step) == task[t] # None /\ task[t].at = step
Now(t, step) == task' = [task EXCEPT ![t].at = step]
Marks == UNCHANGED <<mingled, spilt, unread>>

-----------------------------------------------------------------------------
(* Finding it *)

Local(name) == ToSet(Files(name)) \subseteq plan.local
InCache(name) == \A f \in ToSet(Files(name)) : disk[f] # None
IsPreset(name) == FromArtefact(name) \in Presets
Offline(t) == Args(t[1]).offline

\* The directories in order, the download cache last.  Outside the cache a
\* digest that differs is reported and used; a file no preset names has none.
Resolve(t) ==
  LET name == task[t].name IN
  /\ Is(t, "resolve")
  /\ task' = [task EXCEPT
       ![t].dir = IF Local(name) THEN "local" ELSE "cache",
       ![t].at = CASE Local(name)                           -> "ready"
                   [] ~Local(name) /\ InCache(name)         -> IF IsPreset(name) THEN "hash" ELSE "ready"
                   [] ~IsPreset(name) \/ Offline(t)         -> "failed"
                   [] OTHER                                 -> "fetch"]
  /\ UNCHANGED fileVars /\ Marks

Mismatched(name) == {f \in ToSet(Files(name)) : disk[f] # Whole(f)}

\* verify(): refuse before touching anything.
MayRepair_Anyway(t) == TRUE
MayRepair(t) == ~Offline(t)

Hash(t) ==
  LET bad == Mismatched(task[t].name) IN
  /\ Is(t, "hash")
  /\ task' = [task EXCEPT ![t].bad = bad,
                          ![t].at = IF bad = {} THEN "ready"
                                    ELSE IF MayRepair(t) THEN "repair" ELSE "failed"]
  /\ UNCHANGED fileVars /\ Marks

Repair(t) ==
  /\ Is(t, "repair")
  /\ Delete(task[t].bad)
  /\ task' = [task EXCEPT ![t].at = "fetch", ![t].repair = TRUE]
  /\ Marks

Rehash(t) ==
  /\ Is(t, "rehash")
  /\ Now(t, IF Mismatched(task[t].name) = {} THEN "ready" ELSE "failed")
  /\ UNCHANGED fileVars /\ Marks

-----------------------------------------------------------------------------
(* Fetching it *)

NextFile(t) == Head(task[t].todo)
\* A model's file that is present is left alone; an archive never is.
Skips(t) == task[t].todo # <<>> /\ task[t].name # "cuda" /\ disk[NextFile(t)] # None

FetchSkip(t) ==
  /\ Is(t, "fetch") /\ Skips(t)
  /\ task' = [task EXCEPT ![t].todo = Tail(@)]
  /\ unread' = unread \cup (IF task[t].repair THEN {} ELSE {NextFile(t)} \cap Mismatched(task[t].name))
  /\ UNCHANGED fileVars /\ UNCHANGED <<mingled, spilt>>

\* A repair is hashed again; a first run's completeness is looked at.
FetchDone(t) ==
  /\ Is(t, "fetch") /\ task[t].todo = <<>>
  /\ Now(t, IF task[t].repair THEN "rehash"
            ELSE IF task[t].name = "cuda" \/ InCache(task[t].name) THEN "ready" ELSE "failed")
  /\ UNCHANGED fileVars /\ Marks

FetchOne(t) ==
  /\ Is(t, "fetch") /\ task[t].todo # <<>> /\ ~Skips(t)
  /\ Create(t, NextFile(t))
  /\ task' = [task EXCEPT ![t].at = "stream", ![t].seen = <<>>]
  /\ Marks

\* stream_to_file: the digest is of what arrived, not of what was written.
Seen(t, cell) ==
  task' = [task EXCEPT ![t].seen = Append(@, cell),
                       ![t].at = IF Len(task[t].seen) + 1 = Chunks THEN "check" ELSE "stream"]

StreamChunk(t, cell) ==
  /\ Is(t, "stream")
  /\ Put(t, <<cell>>)
  /\ Seen(t, cell)
  /\ Marks

\* finish() drops the buffered writer: what its last flush could not write is
\* never heard of.
StreamSpills(t) ==
  /\ Is(t, "stream") /\ Len(task[t].seen) = Chunks - 1
  /\ Seen(t, NextFile(t))
  /\ spilt' = spilt \cup {NextFile(t)}
  /\ UNCHANGED fileVars /\ UNCHANGED <<mingled, unread>>

\* The checksum, before the rename.
Matches_Any(t) == TRUE
Matches(t) == task[t].seen = Whole(NextFile(t))

FetchChecked(t) ==
  /\ Is(t, "check") /\ Matches(t)
  /\ Close({t})
  /\ Now(t, "publish")
  /\ Marks

FetchCorrupt(t) ==
  /\ Is(t, "check") /\ ~Matches(t)
  /\ RemovePart(t, NextFile(t))
  /\ Now(t, "failed")
  /\ Marks

FetchPublish(t) ==
  /\ Is(t, "publish")
  /\ Rename(t, NextFile(t))
  /\ IF task[t].name = "cuda" THEN Now(t, "unpack")
     ELSE task' = [task EXCEPT ![t].at = "fetch", ![t].todo = Tail(@)]
  /\ Marks

\* Another thread has renamed or removed the temporary.
PublishGone(t) ==
  /\ \/ Is(t, "publish") /\ part[NextFile(t)] = None
     \/ Is(t, "place") /\ part[Library(NextFile(t))] = None
  /\ Now(t, "failed")
  /\ UNCHANGED fileVars /\ Marks

\* The network, or a write that fails while it is looked at.
TaskFails(t) ==
  /\ task[t] # None /\ task[t].at \in {"fetch", "stream", "unpack", "copy"}
  /\ Is(t, "fetch") => task[t].todo # <<>> /\ ~Skips(t)
  /\ Close({t})
  /\ Now(t, "failed")
  /\ Marks

-----------------------------------------------------------------------------
(* The CUDA libraries *)

\* unpack_libraries: each through a temporary too.
Unpack(t) ==
  /\ Is(t, "unpack")
  /\ IF disk[NextFile(t)] = Whole(NextFile(t))
     THEN Create(t, Library(NextFile(t))) /\ task' = [task EXCEPT ![t].at = "copy", ![t].seen = <<>>]
     ELSE UNCHANGED fileVars /\ Now(t, "failed")
  /\ Marks

UnpackCopy(t) ==
  /\ Is(t, "copy")
  /\ Put(t, <<Library(NextFile(t))>>)
  /\ task' = [task EXCEPT ![t].seen = Append(@, Library(NextFile(t))),
                          ![t].at = IF Len(task[t].seen) + 1 = Chunks THEN "place" ELSE "copy"]
  /\ Marks

UnpackPlace(t) ==
  /\ Is(t, "place")
  /\ Rename(t, Library(NextFile(t)))
  /\ Now(t, "tidy")
  /\ Marks

\* The archive goes once its contents are where they are wanted.
UnpackTidy(t) ==
  /\ Is(t, "tidy")
  /\ Delete({NextFile(t)})
  /\ task' = [task EXCEPT ![t].at = "fetch", ![t].todo = Tail(@)]
  /\ Marks

-----------------------------------------------------------------------------
TaskStep(t) ==
  \/ /\ \/ Resolve(t) \/ Hash(t) \/ Repair(t) \/ Rehash(t)
        \/ FetchSkip(t) \/ FetchDone(t) \/ FetchOne(t) \/ FetchChecked(t)
        \/ FetchCorrupt(t) \/ FetchPublish(t) \/ PublishGone(t)
        \/ Unpack(t) \/ UnpackCopy(t) \/ UnpackPlace(t) \/ UnpackTidy(t)
        \/ Is(t, "stream") /\ StreamChunk(t, NextFile(t))
     /\ Smooth
  \/ /\ TaskFails(t) \/ StreamChunk(t, "bad") \/ StreamSpills(t)
     /\ Trouble
=============================================================================
