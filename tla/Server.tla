------------------------------- MODULE Server -------------------------------
(***************************************************************************)
(* The request paths around the queue: the job store (stemd-server/src/    *)
(* jobs.rs), the HTTP handlers (api.rs), the files dropped on the window   *)
(* (drops.rs), and what they see of the stem cache.                        *)
(*                                                                         *)
(* The store, the cache's index, the line and each job have a lock of      *)
(* their own, and a handler holds at most one of them from call to call:   *)
(* every call is a step.  A cache entry is named by the job that made it.  *)
(* The exits and the model switch are left to Queue and Switch.            *)
(***************************************************************************)
EXTENDS Queue, FiniteSets

CONSTANTS
  Keys,      \* cache keys: a track, the formats asked for and a model
  Clients,   \* decks, each sending one POST
  Leavers,   \* the decks that may send a DELETE
  Retriers,  \* the leavers that may send it again
  Hangers,   \* the decks whose connection may close while their POST runs
  Drops      \* files dropped on the window

Callers == Clients \cup Drops

ASSUME ServerAssumption ==
  /\ Leavers \subseteq Clients /\ Hangers \subseteq Clients
  /\ Retriers \subseteq Leavers
  /\ Clients \cap Drops = {}
  /\ None \notin Keys
  /\ IsFiniteSet(Jobs)
  /\ IsFiniteSet(Callers)
  /\ Cardinality(Jobs) >= Cardinality(Callers)  \* nobody claims more than once

VARIABLES
  key,         \* Job.key, None while nobody has claimed the job
  waiters,     \* Job.waiters
  entry,       \* Job.entry
  registered,  \* Registry.by_id
  byKey,       \* Registry.by_key
  index,       \* the cache's index
  evicted,     \* the entries whose tombstone is set
  aged,        \* jobs created longer than retain_failed ago
  wants,       \* the key of the track each caller brings
  at,          \* where each caller is
  held         \* the job its request is about

store      == <<key, waiters, registered, byKey>>
cache      == <<index, evicted>>
requests   == <<at, held>>
serverVars == <<store, entry, cache, aged, wants, requests>>
allVars    == <<vars, serverVars>>

\* A POST that owns the job it claimed, and the DELETE that is dropping one.
Owning   == {"claimed", "decoding", "hit", "full"}
Dropping == {"cancel", "cancelling", "remove"}
Waits    == Owning \cup {"missed", "joining", "polling"}
CallerStates == Waits \cup Dropping \cup
                {"idle", "answered", "refused", "hungup", "left", "failed"}

\* Registry::in_flight: the live job that represents a key, if there is one.
InFlight_InLine(k) == {j \in registered : byKey[k] = j /\ Waiting(j)}
InFlight(k) == {j \in registered : byKey[k] = j /\ ~IsTerminal(j)}

\* Registry::remove gives a key up only for the job that represents it.
Without_AnyHolder(gone) ==
  [k \in Keys |-> IF \E j \in gone : key[j] = k THEN None ELSE byKey[k]]
Without(gone) == [k \in Keys |-> IF byKey[k] \in gone THEN None ELSE byKey[k]]

\* Job::join and Job::release, which saturates.
WithWaiter_Uncounted(j) == waiters
WithWaiter(j) == [waiters EXCEPT ![j] = @ + 1]
Released(j) == [waiters EXCEPT ![j] = IF @ = 0 THEN 0 ELSE @ - 1]

\* Job::complete: the stems are attached before the stage says done.
MayFinish(j) == entry[j] # None

\* The owner of a job that never got to the worker fails it.
OwnerFails_Silently(j) == UNCHANGED vars
OwnerFails(j) == OwnerEnds(j, "failed")

\* Entry::mark_evicted, when the cache lets an entry go.
Tombstone_Forgotten(e) == evicted
Tombstone(e) == evicted \cup {e}

\* JobStore::prune: handles whose stems are gone, and stale ones with no stems.
Stale(j) ==
  /\ IsTerminal(j)
  /\ IF entry[j] = None THEN j \in aged ELSE entry[j] \in evicted

Moves(c, to) == at' = [at EXCEPT ![c] = to]
Stays == UNCHANGED vars

ServerInit ==
  /\ Init
  /\ key = [j \in Jobs |-> None]
  /\ waiters = [j \in Jobs |-> 0]
  /\ entry = [j \in Jobs |-> None]
  /\ registered = {}
  /\ byKey = [k \in Keys |-> None]
  /\ index = [k \in Keys |-> None]
  /\ evicted = {}
  /\ aged = {}
  /\ wants \in [Callers -> Keys]
  /\ at = [c \in Callers |-> "idle"]
  /\ held = [c \in Callers |-> None]

-----------------------------------------------------------------------------
(* JobStore::claim, under the lock that looks for a job in flight *)

ClaimFresh(c, from, to) ==
  /\ at[c] = from
  /\ InFlight(wants[c]) = {}
  /\ \E j \in Jobs :
       /\ key[j] = None
       /\ key' = [key EXCEPT ![j] = wants[c]]
       /\ waiters' = [waiters EXCEPT ![j] = 1]
       /\ registered' = registered \cup {j}
       /\ byKey' = [byKey EXCEPT ![wants[c]] = j]
       /\ held' = [held EXCEPT ![c] = j]
  /\ Moves(c, to)
  /\ Stays /\ UNCHANGED <<entry, cache, aged, wants>>

ClaimJoins(c, from, to) ==
  /\ at[c] = from
  /\ \E j \in InFlight(wants[c]) :
       /\ waiters' = WithWaiter(j)
       /\ held' = [held EXCEPT ![c] = j]
  /\ Moves(c, to)
  /\ Stays /\ UNCHANGED <<key, registered, byKey, entry, cache, aged, wants>>

-----------------------------------------------------------------------------
(* POST /v1/jobs *)

PostClaim(c) == ClaimFresh(c, "idle", "claimed")
PostJoin(c)  == ClaimJoins(c, "idle", "polling")

\* The cache has it: the entry is attached ...
PostHit(c) ==
  /\ at[c] = "claimed"
  /\ index[wants[c]] # None
  /\ entry' = [entry EXCEPT ![held[c]] = index[wants[c]]]
  /\ Moves(c, "hit")
  /\ Stays /\ UNCHANGED <<store, cache, aged, wants, held>>

\* ... and the job is done.
PostDone(c) ==
  /\ at[c] = "hit"
  /\ OwnerEnds(held[c], "done")
  /\ Moves(c, "answered")
  /\ UNCHANGED <<store, entry, cache, aged, wants, held>>

PostMiss(c) ==
  /\ at[c] = "claimed"
  /\ index[wants[c]] = None
  /\ Moves(c, "decoding")
  /\ Stays /\ UNCHANGED <<store, entry, cache, aged, wants, held>>

\* The owner gives its job up: the upload does not decode, or the line is full.
PostFails(c) ==
  /\ at[c] \in {"decoding", "full"}
  /\ OwnerFails(held[c])
  /\ Moves(c, "refused")
  /\ UNCHANGED <<store, entry, cache, aged, wants, held>>

PostEnqueue(c) ==
  /\ at[c] = "decoding"
  /\ \/ SubmitAccepted(held[c]) /\ Moves(c, "polling")
     \/ SubmitRefused(held[c]) /\ Moves(c, "full")
  /\ UNCHANGED <<store, entry, cache, aged, wants, held>>

\* The connection closes while the decode is awaited, and the handler's future
\* is dropped at that await.
HangUp(c) ==
  /\ at[c] = "decoding"
  /\ Moves(c, "hungup")
  /\ Stays /\ UNCHANGED <<store, entry, cache, aged, wants, held>>

\* GET /v1/jobs/{id} until it says something final, a 404 included.
Poll(c) ==
  /\ at[c] = "polling"
  /\ IsTerminal(held[c]) \/ held[c] \notin registered
  /\ Moves(c, "answered")
  /\ Stays /\ UNCHANGED <<store, entry, cache, aged, wants, held>>

-----------------------------------------------------------------------------
(* DELETE /v1/jobs/{id} *)

\* Only the waiter that brings the count to nothing goes on to cancel.
Release(c) ==
  /\ at[c] \in {"polling", "answered"} \cup (IF c \in Retriers THEN {"left"} ELSE {})
  /\ held[c] \in registered
  /\ waiters' = Released(held[c])
  /\ Moves(c, IF waiters'[held[c]] > 0 THEN "left" ELSE "cancel")
  /\ Stays /\ UNCHANGED <<key, registered, byKey, entry, cache, aged, wants, held>>

DeleteWaiting(c) ==
  /\ at[c] = "cancel"
  /\ CancelWaiting(held[c])
  /\ Moves(c, "remove")
  /\ UNCHANGED <<store, entry, cache, aged, wants, held>>

DeleteMissed(c) ==
  /\ at[c] = "cancel"
  /\ CancelMissed(held[c])
  /\ Moves(c, "cancelling")
  /\ UNCHANGED <<store, entry, cache, aged, wants, held>>

DeleteRunning(c) ==
  /\ at[c] = "cancelling"
  /\ CancelRunning(held[c])
  /\ cancelling' = {held[d] : d \in {e \in Clients \ {c} : at[e] = "cancelling"}}
  /\ Moves(c, "remove")
  /\ UNCHANGED <<store, entry, cache, aged, wants, held>>

DeleteRemove(c) ==
  /\ at[c] = "remove"
  /\ registered' = registered \ {held[c]}
  /\ byKey' = Without({held[c]})
  /\ Moves(c, "left")
  /\ Stays /\ UNCHANGED <<key, waiters, entry, cache, aged, wants, held>>

-----------------------------------------------------------------------------
(* A file dropped on the window: the cache is asked before the store *)

DropLook(d) ==
  /\ at[d] = "idle"
  /\ Moves(d, IF index[wants[d]] # None THEN "answered" ELSE "missed")
  /\ Stays /\ UNCHANGED <<store, entry, cache, aged, wants, held>>

DropClaim(d) == ClaimFresh(d, "missed", "claimed")
DropJoin(d)  == ClaimJoins(d, "missed", "joining")

\* The drop counts itself in again.
DropJoinAgain(d) ==
  /\ at[d] = "joining"
  /\ waiters' = WithWaiter(held[d])
  /\ Moves(d, "polling")
  /\ Stays /\ UNCHANGED <<key, registered, byKey, entry, cache, aged, wants, held>>

\* A full line is an error the drop shows; the job is left as it is.
DropEnqueue(d) ==
  /\ at[d] = "claimed"
  /\ \/ SubmitAccepted(held[d]) /\ Moves(d, "polling")
     \/ SubmitRefused(held[d]) /\ Moves(d, "failed")
  /\ UNCHANGED <<store, entry, cache, aged, wants, held>>

\* It holds the job itself, so only a terminal stage ends its wait.
DropEnds(d) ==
  /\ at[d] = "polling"
  /\ IsTerminal(held[d])
  /\ Moves(d, "answered")
  /\ Stays /\ UNCHANGED <<store, entry, cache, aged, wants, held>>

-----------------------------------------------------------------------------
(* The worker's end, the cache and the sweep *)

\* publish(): the stems are in the index ...
Publish ==
  /\ Published
  /\ index' = [index EXCEPT ![key[running]] = running]
  /\ UNCHANGED <<store, entry, evicted, aged, wants, requests>>

\* ... then on the job ...
Attach ==
  /\ wpc = "complete"
  /\ entry[running] = None
  /\ entry' = [entry EXCEPT ![running] = running]
  /\ Stays /\ UNCHANGED <<store, cache, aged, wants, requests>>

\* ... and then the job is done.
Finish ==
  /\ wpc = "complete"
  /\ MayFinish(running)
  /\ Complete
  /\ UNCHANGED serverVars

Untouched == UNCHANGED serverVars

Separate ==
  \/ (WorkerTakeJob \/ WorkerIdle \/ WorkerPark) /\ Untouched
  \/ (Chunk \/ ChunkCancelled \/ SeparateFails \/ SeparateDone) /\ Untouched
  \/ Publish \/ Attach \/ Finish
  \/ (PublishFails \/ Clear) /\ Untouched

\* The cache lets an entry go, for whichever of its reasons.
Evict(k) ==
  /\ index[k] # None
  /\ evicted' = Tombstone(index[k])
  /\ index' = [index EXCEPT ![k] = None]
  /\ Stays /\ UNCHANGED <<store, entry, aged, wants, requests>>

\* A job becomes older than retain_failed, whatever became of it.
GrowsOld(j) ==
  /\ key[j] # None /\ j \notin aged
  /\ aged' = aged \cup {j}
  /\ Stays /\ UNCHANGED <<store, entry, cache, wants, requests>>

Prune ==
  LET stale == {j \in registered : Stale(j)} IN
  /\ stale # {}
  /\ registered' = registered \ stale
  /\ byKey' = Without(stale)
  /\ Stays /\ UNCHANGED <<key, waiters, entry, cache, aged, wants, requests>>

-----------------------------------------------------------------------------
Post(c)   == \/ PostClaim(c) \/ PostJoin(c) \/ PostHit(c) \/ PostDone(c)
             \/ PostMiss(c) \/ PostFails(c) \/ PostEnqueue(c)
Delete(c) == DeleteWaiting(c) \/ DeleteMissed(c) \/ DeleteRunning(c) \/ DeleteRemove(c)
Drop(d)   == \/ DropLook(d) \/ DropClaim(d) \/ DropJoin(d) \/ DropJoinAgain(d)
             \/ DropEnqueue(d) \/ DropEnds(d)

ServerNext ==
  \/ Separate
  \/ \E c \in Clients : Post(c) \/ Poll(c)
  \/ \E c \in Leavers : Release(c) \/ Delete(c)
  \/ \E c \in Hangers : HangUp(c)
  \/ \E d \in Drops : Drop(d)
  \/ \E k \in Keys : Evict(k)
  \/ \E j \in Jobs : GrowsOld(j)
  \/ Prune

ServerSpec == ServerInit /\ [][ServerNext]_allVars

\* The worker works, a request that began goes on, and a client that waits
\* polls.  Nobody has to send anything, and the cache owes nothing.
ServerFairness ==
  /\ WF_allVars(Separate)
  /\ \A c \in Clients : /\ WF_allVars(Post(c) /\ at[c] # "idle")
                        /\ WF_allVars(Poll(c))
                        /\ WF_allVars(Delete(c))
  /\ \A d \in Drops : WF_allVars(Drop(d) /\ at[d] # "idle")

FairServerSpec == ServerSpec /\ ServerFairness
=============================================================================
