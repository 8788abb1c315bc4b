-------------------------- MODULE CacheProperties --------------------------
(***************************************************************************)
(* What is claimed of the cache.                                            *)
(***************************************************************************)
EXTENDS Cache

\* "`max_bytes` bounds the disk" (cache.rs:6): publish() applies the cap on its
\* way out ("leaves the store under it", :467), so the index is never over budget but
\* for one track larger than the whole of it, and every directory under the root is
\* an indexed entry's, which the budget counts, or belongs to the publish under way.
\* A directory that would not go stays uncounted, and only an entry that carries the
\* tombstone has one.  A publish that failed leaves its part behind, and no more of it
\* than that: nothing was ever stamped, put in its place or indexed for it.
DiskIsBounded ==
  /\ BytesOf(Indexed) <= MaxBytes \/ \E e \in Entries : Indexed = {e}
  /\ \A k \in Keys : disk[k] # None =>
       \/ disk[k] \in Indexed \cup {publishing}
       \/ struck = "stays" /\ disk[k] \in evicted
  /\ \A e \in parts \ {publishing} :
       /\ struck = "fails" /\ e \notin ToSet(order) \cup Indexed \cup evicted
       /\ \A k \in Keys : disk[k] # e

\* What the index promises is on disk, so that a hit finds its files and finds its
\* own, and a 410 is honest: the entry it is said of carries the tombstone, so the
\* next sweep drops the handle and the track can be separated again.  Until another
\* instance clears the directory.
IndexIsOnDisk ==
  struck # "wipe" =>
    /\ \A k \in Keys : index[k] # None => disk[k] = index[k] /\ index[k] \notin evicted
    /\ \A r \in Readers : reader[r] = "gone" => handle[r][1] \in evicted

Latest(S) == order[Max({i \in DOMAIN order : order[i] \in S})]

\* A sweep takes only what nobody came for: never stems that were pulled in full
\* or used within unfetched_ttl.  Rule 2 leaves it nothing, publish() having kept
\* the store within its budget.  Neither rule takes the entry that was touched
\* last, so that a hit is not collected under the client it was just handed to
\* unless another is used after it or unfetched_ttl runs out.  (enforce_cap: "Never
\* rotate the most recent entry"; get: "a hit and the decision to collect cannot
\* interleave".)
WantedIsKept ==
  [][/\ Reap => \A e \in evicted' \ evicted : e \in idle /\ unpulled[e] # {}
     /\ Insert => Latest(Indexed \cup {publishing}) \notin evicted']_cacheVars

\* Past half the budget, what nobody came for is collected in the end, or somebody
\* comes.  (under_pressure: "waiting for the cap would make rule 1 nearly
\* unreachable".)
LeftLying == BytesOf(Indexed) > MaxBytes \div 2 /\ \E e \in Indexed : Abandoned(e)
AbandonedIsCollected == LeftLying ~> ~LeftLying

\* The store keeps what the rest of the server assumes of it.
Store == INSTANCE StemStore
StoreService == Store!Spec
=============================================================================
