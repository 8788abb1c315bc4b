------------------------------- MODULE Cache -------------------------------
(***************************************************************************)
(* The store of separated stems (stemd-server/src/cache.rs), its one        *)
(* publisher (the worker), its sweep, and the clients that read from it.    *)
(*                                                                          *)
(* The lock on `entries` is taken for whole actions: GetTouch, GetForget,   *)
(* Insert, Reap and Clear.  What publish() and get() do outside it, and     *)
(* what get_stem (api.rs) does with no lock at all, are actions of their    *)
(* own.  Instants are an order: `order` lists entries by last_used, and     *)
(* `idle` holds those not touched for longer than unfetched_ttl, so time    *)
(* needs no clock and no bound.                                             *)
(***************************************************************************)
EXTENDS Naturals, SequencesExt, FiniteSetsExt, Functions

CONSTANTS
  Keys,        \* what Cache::key hashes to
  Entries,     \* the publications of a run, each with an Arc of its own
  Stems,       \* the shipped stems of an entry
  Readers,     \* clients that look up and download
  SizeOf,      \* the bytes of each entry
  MaxBytes,    \* --cache-max-gb
  Faults,      \* what may go wrong: "again", "fails", "wipe", "stays"
  None

ASSUME CacheAssumption ==
  /\ MaxBytes \in Nat
  /\ SizeOf \in [Entries -> Nat \ {0}]
  /\ Faults \subseteq {"again", "fails", "wipe", "stays"}
  /\ None \notin Keys \cup Entries \cup Stems \cup {"again", "fails", "wipe", "stays"}
  /\ Stems # {}

VARIABLES
  key,         \* Entry.key, once the entry is being published
  index,       \* Cache.entries
  disk,        \* whose files stand in root/key
  parts,       \* entries with a .part directory under the root
  evicted,     \* Entry.evicted
  unpulled,    \* State.unfetched of each entry
  order,       \* entries by State.last_used, the most recent last
  idle,        \* entries whose last_used is longer ago than unfetched_ttl
  publishing,  \* the entry the worker is publishing
  ppc,         \* how far publish() has got
  reader,      \* where each reader is
  handle,      \* the entry it has its hands on, and the stem it wants
  struck       \* the fault that has struck, None before: at most one does

entries == <<key, unpulled, order, idle>>
files   == <<disk, parts>>
worker  == <<publishing, ppc>>
readers == <<reader, handle>>
cacheVars == <<entries, index, files, evicted, worker, readers, struck>>

Indexed == {index[k] : k \in Keys} \ {None}
Published == {e \in Entries : key[e] # None} \ {publishing}
BytesOf(S) == SumFunctionOnSet(SizeOf, S)

\* Cache::under_pressure: more than half the budget is in use.
UnderPressure_AtCap(S) == BytesOf(S) > MaxBytes
UnderPressure(S) == BytesOf(S) > MaxBytes \div 2

\* Rule 1: what nobody pulled in full and nobody touched for unfetched_ttl.
Abandoned_PulledToo(e) == e \in idle
Abandoned(e) == e \in idle /\ unpulled[e] # {}
Uncollected(S) == IF UnderPressure(S) THEN {e \in S : Abandoned(e)} ELSE {}

\* Rule 2, Cache::enforce_cap: the least recently used until the rest fits, and
\* never the most recent.
Rotated(S) ==
  LET oldest(n) == {order[i] : i \in 1 .. n} \cap S
      latest == Max({i \in DOMAIN order : order[i] \in S})
      enough == {n \in 0 .. latest - 1 : BytesOf(S \ oldest(n)) <= MaxBytes}
  IN  IF BytesOf(S) <= MaxBytes THEN {}
      ELSE oldest(IF enough = {} THEN latest - 1 ELSE Min(enough))

\* What a sweep takes: rule 2 works on what rule 1 left.
Swept ==
  LET first == Uncollected(Indexed) IN first \cup Rotated(Indexed \ first)

\* Cache::delete: the tombstone, then the directory the entry names, whatever
\* is in it by now.
Tombstones_Forgotten(gone) == evicted
Tombstones(gone) == evicted \cup gone
Deleted(gone) == [k \in Keys |-> IF \E e \in gone : key[e] = k THEN None ELSE disk[k]]

Removed_Not(gone) == index
Removed(gone) == [k \in Keys |-> IF index[k] \in gone THEN None ELSE index[k]]

\* Entry::touch and the stamp of a new entry: the idle clock starts again.
Touch(e) ==
  /\ order' = Append(RemoveFirst(order, e), e)
  /\ idle' = idle \ {e}

\* get() forgets an entry only if the index still holds that very one.
StillHeld_ByKey(e) == index[key[e]] # None
StillHeld(e) == index[key[e]] = e

\* One of the faults this run may meet.
Strikes(fault) == fault \in Faults /\ struck = None /\ struck' = fault

\* remove_dir_all may fail, or stop half way: a warning, and the directory stays.
RemoveDirs(gone) ==
  \/ disk' = Deleted(gone) /\ UNCHANGED struck
  \/ \E left \in SUBSET gone \ {{}} : disk' = Deleted(gone \ left) /\ Strikes("stays")

\* Entry::present: can the files the entry names be read, whoever wrote them?  Of a
\* directory that should have gone, some may have.
Present(e) ==
  IF disk[key[e]] = None THEN {FALSE}
  ELSE IF struck = "stays" /\ disk[key[e]] \in evicted THEN BOOLEAN ELSE {TRUE}

CacheInit ==
  /\ key = [e \in Entries |-> None]
  /\ index = [k \in Keys |-> None]
  /\ disk = [k \in Keys |-> None]
  /\ parts = {}
  /\ evicted = {}
  /\ unpulled = [e \in Entries |-> Stems]
  /\ order = <<>>
  /\ idle = {}
  /\ publishing = None
  /\ ppc = "none"
  /\ reader = [r \in Readers |-> "idle"]
  /\ handle = [r \in Readers |-> <<None, None>>]
  /\ struck = None

-----------------------------------------------------------------------------
(* publish, on the worker's thread *)

\* The stems are written beside the final name.
Stage(e, k) ==
  /\ ppc = "none"
  /\ key[e] = None
  /\ "again" \in Faults \/ index[k] = None
  /\ key' = [key EXCEPT ![e] = k]
  /\ parts' = parts \cup {e}
  /\ publishing' = e
  /\ ppc' = "staged"
  /\ UNCHANGED <<unpulled, order, idle, index, disk, evicted, readers, struck>>

\* install(): what stands under the final name goes ...
Replace ==
  /\ ppc = "staged"
  /\ disk' = [disk EXCEPT ![key[publishing]] = None]
  /\ ppc' = "cleared"
  /\ UNCHANGED <<entries, index, parts, evicted, publishing, readers, struck>>

\* ... the staged directory takes its place, and the new entry is stamped.
Install ==
  /\ ppc = "cleared"
  /\ publishing \in parts
  /\ disk' = [disk EXCEPT ![key[publishing]] = publishing]
  /\ parts' = parts \ {publishing}
  /\ Touch(publishing)
  /\ ppc' = "installed"
  /\ UNCHANGED <<key, unpulled, index, evicted, publishing, readers, struck>>

\* Under the lock: into the index, and the cap at once.
Insert ==
  /\ ppc = "installed"
  /\ LET k    == key[publishing]
         held == (Indexed \ {index[k]}) \cup {publishing}
         gone == Rotated(held)
     IN  /\ index' = [Removed(gone) EXCEPT ![k] = IF publishing \in gone THEN None ELSE publishing]
         /\ evicted' = Tombstones(gone)
         /\ RemoveDirs(gone)
  /\ publishing' = None
  /\ ppc' = "none"
  /\ UNCHANGED <<entries, parts, readers>>

\* A write fails, or the rename finds its source gone: the error is returned and
\* the staging directory stays where it is.
PublishFails ==
  /\ \/ ppc = "staged" /\ Strikes("fails")
     \/ ppc = "cleared" /\ publishing \notin parts /\ UNCHANGED struck
  /\ publishing' = None
  /\ ppc' = "none"
  /\ UNCHANGED <<entries, index, files, evicted, readers>>

-----------------------------------------------------------------------------
(* The sweep, and the window's Clear *)

Drop(gone) ==
  /\ index' = Removed(gone)
  /\ evicted' = Tombstones(gone)
  /\ RemoveDirs(gone)
  /\ UNCHANGED <<entries, parts, worker, readers>>

Reap  == Swept # {} /\ Drop(Swept)
Clear == Indexed # {} /\ Drop(Indexed)

-----------------------------------------------------------------------------
(* get, and get_stem *)

\* A hit is touched under the lock the sweep takes ...
GetTouch(r, k) ==
  /\ reader[r] = "idle"
  /\ index[k] # None
  /\ Touch(index[k])
  /\ handle' = [handle EXCEPT ![r] = <<index[k], None>>]
  /\ reader' = [reader EXCEPT ![r] = "touched"]
  /\ UNCHANGED <<key, unpulled, index, files, evicted, worker, struck>>

\* ... and its files looked for outside it.
GetPresent(r) ==
  /\ reader[r] = "touched"
  /\ \E there \in Present(handle[r][1]) :
       reader' = [reader EXCEPT ![r] = IF there THEN "holding" ELSE "missing"]
  /\ UNCHANGED <<entries, index, files, evicted, worker, handle, struck>>

\* An entry without its files is forgotten, if it still is the one in the index.
GetForget(r) ==
  LET e == handle[r][1] IN
  /\ reader[r] = "missing"
  /\ IF StillHeld(e)
     THEN /\ index' = [index EXCEPT ![key[e]] = None]
          /\ evicted' = Tombstones({e})
     ELSE UNCHANGED <<index, evicted>>
  /\ reader' = [reader EXCEPT ![r] = "idle"]
  /\ UNCHANGED <<entries, files, worker, handle, struck>>

\* A client whose job is done has the entry from the job.
Hold(r, e) ==
  /\ reader[r] = "idle"
  /\ e \in Published /\ e \in ToSet(order)
  /\ handle' = [handle EXCEPT ![r] = <<e, None>>]
  /\ reader' = [reader EXCEPT ![r] = "holding"]
  /\ UNCHANGED <<entries, index, files, evicted, worker, struck>>

\* The file is opened, or the answer is 410 Gone.
Open(r, s) ==
  LET e == handle[r][1] IN
  /\ reader[r] = "holding"
  /\ handle' = [handle EXCEPT ![r] = <<e, s>>]
  /\ \E there \in Present(e) : reader' = [reader EXCEPT ![r] = IF there THEN "opened" ELSE "gone"]
  /\ UNCHANGED <<entries, index, files, evicted, worker, struck>>

\* Only once the bytes are provably readable is the stem marked.
Mark(r) ==
  LET e == handle[r][1] IN
  /\ reader[r] = "opened"
  /\ unpulled' = [unpulled EXCEPT ![e] = @ \ {handle[r][2]}]
  /\ Touch(e)
  /\ reader' = [reader EXCEPT ![r] = "holding"]
  /\ handle' = [handle EXCEPT ![r] = <<e, None>>]
  /\ UNCHANGED <<key, index, files, evicted, worker, struck>>

Leave(r) ==
  /\ reader[r] \in {"holding", "gone"}
  /\ reader' = [reader EXCEPT ![r] = "idle"]
  /\ handle' = [handle EXCEPT ![r] = <<None, None>>]
  /\ UNCHANGED <<entries, index, files, evicted, worker, struck>>

-----------------------------------------------------------------------------
(* Around the store *)

\* unfetched_ttl runs out, for the entries touched longest ago first.
TimePasses ==
  /\ \E n \in 1 .. Len(order) : /\ idle' = idle \cup ToSet(SubSeq(order, 1, n))
                                /\ idle' # idle
  /\ UNCHANGED <<key, unpulled, order, index, files, evicted, worker, readers, struck>>

\* A second instance starts on the same directory and clears it.
Wipe ==
  /\ Strikes("wipe")
  /\ disk' = [k \in Keys |-> None]
  /\ parts' = {}
  /\ <<disk', parts'>> # <<disk, parts>>
  /\ UNCHANGED <<entries, index, evicted, worker, readers>>

Publish == (\E e \in Entries, k \in Keys : Stage(e, k)) \/ Replace \/ Install \/ Insert
Get(r)  == (\E k \in Keys : GetTouch(r, k)) \/ GetPresent(r) \/ GetForget(r)
Fetch(r) == (\E e \in Entries : Hold(r, e)) \/ (\E s \in Stems : Open(r, s)) \/ Mark(r) \/ Leave(r)

CacheNext ==
  \/ Publish \/ PublishFails
  \/ Reap \/ Clear
  \/ \E r \in Readers : Get(r) \/ Fetch(r)
  \/ TimePasses \/ Wipe

CacheSpec == CacheInit /\ [][CacheNext]_cacheVars

\* The reaper sweeps at intervals for as long as the server runs.
FairCacheSpec == CacheSpec /\ WF_cacheVars(Reap)
=============================================================================
