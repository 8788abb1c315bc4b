----------------------------- MODULE StemStore -----------------------------
(***************************************************************************)
(* What the rest of the server assumes of the cache, and all that Server    *)
(* models of it: stems appear under their key, and whatever the store lets  *)
(* go of carries the tombstone that lets its handles go too.                *)
(***************************************************************************)
CONSTANTS Keys, Entries, None
VARIABLES index, evicted

Init == index = [k \in Keys |-> None] /\ evicted = {}

Gone(i) == {i[k] : k \in {q \in Keys : index'[q] # i[q]}} \ {None}

\* A key's stems arrive.  Others may make room for them, or they for others.
Put(k, e) ==
  /\ index[k] = None
  /\ index'[k] \in {e, None}
  /\ \A i \in Keys \ {k} : index'[i] \in {index[i], None}
  /\ evicted' = evicted \cup Gone(index) \cup ({e} \ {index'[k]})

\* Stems go.
Let(S) ==
  /\ S # {}
  /\ index' = [k \in Keys |-> IF k \in S THEN None ELSE index[k]]
  /\ evicted' = evicted \cup Gone(index)

Next == (\E k \in Keys, e \in Entries \ evicted : Put(k, e)) \/ (\E S \in SUBSET Keys : Let(S))

Spec == Init /\ [][Next]_<<index, evicted>>
=============================================================================
