-------------------------- MODULE ServerProperties --------------------------
(***************************************************************************)
(* What is claimed of the requests, the drops, the store and the worker    *)
(* taken together.                                                         *)
(***************************************************************************)
EXTENDS Server

\* What the store, the cache and the callers say of each other: a job somebody
\* holds, shows or submitted has the key it was claimed for, and stems are only
\* ever attached to jobs of their own key.
StoreShape ==
  /\ key \in [Jobs -> Keys \cup {None}]
  /\ waiters \in [Jobs -> Nat]
  /\ entry \in [Jobs -> Jobs \cup {None}]
  /\ registered \in SUBSET Jobs
  /\ byKey \in [Keys -> Jobs \cup {None}]
  /\ index \in [Keys -> Jobs \cup {None}]
  /\ wants \in [Callers -> Keys]
  /\ at \in [Callers -> CallerStates]
  /\ held \in [Callers -> Jobs \cup {None}]
  /\ \A j \in registered \cup offered : key[j] # None
  /\ \A k \in Keys : /\ byKey[k] # None => key[byKey[k]] = k
                     /\ index[k] # None => key[index[k]] = k
  /\ \A j \in Jobs : entry[j] # None => key[j] # None /\ key[entry[j]] = key[j]
  /\ \A c \in Callers :
       /\ at[c] \in Owning \cup Dropping \cup {"joining", "polling", "left"} => held[c] # None
       /\ held[c] # None => key[held[c]] = wants[c]
       /\ at[c] = "hit" => entry[held[c]] # None

\* Requests for one track collapse: of the jobs the store shows, at most one is
\* still working towards a key, and it is the one the next request finds.
\* (Registry::remove gives a key up only if the job still represents it.)
OneLiveJobPerKey ==
  \A j \in registered : ~IsTerminal(j) => byKey[key[j]] = j

\* A client that reads done finds the stems attached, of the track it asked for.
\* (Job::complete: "The result is published before the stage flips".)
DoneHasStems ==
  \A j \in Jobs : stage[j] = "done" =>
    entry[j] # None /\ key[entry[j]] = key[j]

\* A job that the store shows and that is not over is somebody's to end: a POST
\* that has not answered, the line, the worker, or a DELETE that will remove it.
\* (claim: "a fresh job the caller now owns and must drive to a terminal stage".)
LiveJobsAreOwned ==
  \A j \in registered : ~IsTerminal(j) =>
    \/ Waiting(j)
    \/ running = j
    \/ \E c \in Callers : held[c] = j /\ at[c] \in Owning \cup Dropping

\* waiters counts the callers that have joined and not let go, so that one of two
\* decks leaving never looks like the last.  (waiters: "One per deck waiting on
\* this job".)
WaitersAreCounted ==
  \A j \in registered :
    waiters[j] = Cardinality({c \in Callers :
                   held[c] = j /\ at[c] \notin Dropping \cup {"left"}})

\* A job the store no longer shows because a deck left it, so nothing of it is
\* looked for again; and one whose stems are in the cache, or were.
LetGoOf(j)   == /\ j \notin registered /\ key[j] # None
                /\ \E b \in Leavers : at[b] = "left" /\ held[b] = j
Separated(j) == stage[j] = "done" \/ (running = j /\ wpc = "complete")

\* No track is in line, or on the worker, while its stems are in the cache: the
\* store is asked before the cache and the worker publishes before it says done.
\* (docs/internals.md:33: "which leaves no window".)  A drop asks the cache first,
\* and a job whose last deck left past its last segment still publishes.
NothingSeparatedTwice ==
  \A j \in registered :
    /\ Waiting(j) \/ (running = j /\ wpc \in {"separate", "publish"})
    /\ \A d \in Drops : held[d] # j
    => index[key[j]] = None \/ LetGoOf(index[key[j]])

\* The two ways a track is separated again beside its stems.
MadeTwice(k) ==
  \/ \E d \in Drops : held[d] # None /\ key[held[d]] = k
  \/ \E j \in Jobs : key[j] = k /\ LetGoOf(j) /\ Separated(j)

\* Handles follow their stems: one with stems is in the index under its key or
\* carries the tombstone that the next sweep drops it for (docs/internals.md:53:
\* "one lifecycle rather than two that can disagree"), unless the track was made
\* twice, for an entry replaced in the index gets no tombstone; and a deck that never let go finds its
\* job until the stems are gone, or, if the job failed, until its message is stale.
\* A deck that joins as the last one leaves (delete_job, between release and
\* cancel) loses its job.
HandlesFollowStems ==
  /\ DoneHasStems
  /\ \A j \in registered : IsTerminal(j) /\ entry[j] # None =>
       entry[j] \in {index[key[j]]} \cup evicted \/ MadeTwice(key[j])
  /\ \A c \in Clients : at[c] = "polling" /\ held[c] \notin registered =>
       \/ IsTerminal(held[c]) /\ Stale(held[c])
       \/ LetGoOf(held[c])

\* Every request that began is answered, whoever else lets go of the same track.
EveryCallerAnswered ==
  \A c \in Callers : at[c] \in Waits ~> at[c] \notin Waits
=============================================================================
