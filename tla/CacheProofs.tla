----------------------------- MODULE CacheProofs -----------------------------
(***************************************************************************)
(* Theorems about the store of stems, for any tracks, sizes, readers and    *)
(* budget, where a track is only published while its key has no stems       *)
(* ("again" is not among the faults): the index agrees with the disk, the   *)
(* store is what the rest of the server takes it for, the budget bounds it, *)
(* and a sweep spares what is wanted.                                       *)
(***************************************************************************)
EXTENDS CacheProperties, SequenceTheorems, FiniteSetTheorems, WellFoundedInduction, TLAPS

-----------------------------------------------------------------------------
(* The order of use *)

LEMMA LeastNumber ==
  ASSUME NEW T, T \subseteq Nat, T # {}
  PROVE  Min(T) \in T /\ \A k \in T : Min(T) <= k
<1>1. \E m \in T : \A k \in T : <<k, m>> \notin OpToRel(<, Nat)
  BY NatLessThanWellFounded, WFMin, Zenon
<1>2. \A k, m \in Nat : <<k, m>> \notin OpToRel(<, Nat) => m <= k
  BY DEF OpToRel
<1>3. \E m \in T : \A k \in T : m <= k
  BY <1>1, <1>2
<1> QED
  BY <1>3, Zenon DEF Min

LEMMA GreatestNumber ==
  ASSUME NEW n \in Nat, NEW T, T \subseteq 0 .. n, T # {}
  PROVE  Max(T) \in T /\ \A k \in T : k <= Max(T)
<1> DEFINE C == {n - k : k \in T}
<1>1. C \subseteq Nat /\ C # {}
  <2>1. \A k \in T : k \in Nat /\ n - k \in Nat
    OBVIOUS
  <2> QED
    BY <2>1
<1>2. Min(C) \in C /\ \A m \in C : Min(C) <= m
  BY <1>1, LeastNumber
<1>3. PICK k \in T : Min(C) = n - k
  BY <1>2
<1>4. \A j \in T : j <= k
  <2> SUFFICES ASSUME NEW j \in T PROVE j <= k
    OBVIOUS
  <2>1. n - k <= n - j
    BY <1>2, <1>3
  <2> QED
    BY <2>1
<1> QED
  BY <1>4, Zenon DEF Max

LEMMA RemovedIsRest ==
  ASSUME NEW S, NEW s \in Seq(S), NEW k \in DOMAIN s
  PROVE  /\ RemoveAt(s, k) \in Seq(S)
         /\ Len(RemoveAt(s, k)) = Len(s) - 1
         /\ \A m \in 1 .. Len(s) - 1 : RemoveAt(s, k)[m] = IF m < k THEN s[m] ELSE s[m + 1]
<1> DEFINE a == SubSeq(s, 1, k - 1)
           b == SubSeq(s, k + 1, Len(s))
<1>1. Len(s) \in Nat /\ DOMAIN s = 1 .. Len(s) /\ k \in 1 .. Len(s)
  BY LenProperties
<1>2. a \in Seq(S) /\ Len(a) = k - 1 /\ \A m \in 1 .. k - 1 : a[m] = s[m]
  BY <1>1, SubSeqProperties, SMTT(30)
<1>3. b \in Seq(S) /\ Len(b) = Len(s) - k /\ \A m \in 1 .. Len(s) - k : b[m] = s[k + m]
  BY <1>1, SubSeqProperties, SMTT(30)
<1> HIDE DEF a, b
<1>4. /\ a \o b \in Seq(S) /\ Len(a \o b) = Len(a) + Len(b)
      /\ \A m \in 1 .. Len(a) + Len(b) :
           (a \o b)[m] = IF m <= Len(a) THEN a[m] ELSE b[m - Len(a)]
  BY <1>2, <1>3, ConcatProperties
<1>5. ASSUME NEW m \in 1 .. Len(s) - 1
      PROVE  (a \o b)[m] = IF m < k THEN s[m] ELSE s[m + 1]
  <2>1. CASE m < k
    BY <1>1, <1>2, <1>3, <1>4, <2>1
  <2>2. CASE ~(m < k)
    <3>1. PICK j \in 1 .. Len(s) - k : j = m - (k - 1)
      BY <1>1, <2>2
    <3>2. m \in 1 .. Len(a) + Len(b) /\ ~(m <= Len(a)) /\ m - Len(a) = j
      BY <1>1, <1>2, <1>3, <2>2, <3>1
    <3>3. (a \o b)[m] = b[j]
      BY <1>4, <3>2
    <3>4. k + j = m + 1
      BY <1>1, <3>1
    <3> QED
      BY <1>3, <2>2, <3>1, <3>3, <3>4
  <2> QED
    BY <1>1, <2>1, <2>2
<1>6. RemoveAt(s, k) = a \o b
  BY DEF RemoveAt, a, b
<1>7. Len(a) + Len(b) = Len(s) - 1
  BY <1>1, <1>2, <1>3
<1> QED
  BY <1>4, <1>5, <1>6, <1>7

NoneTwice == \A i, j \in DOMAIN order : order[i] = order[j] => i = j

\* Touching an entry puts it last, once, and leaves the rest in its order.
LEMMA TouchProperties ==
  ASSUME NEW e \in Entries, order \in Seq(Entries), Touch(e)
  PROVE  /\ order' \in Seq(Entries)
         /\ ToSet(order') = ToSet(order) \cup {e}
         /\ NoneTwice => NoneTwice'
<1> DEFINE r == RemoveFirst(order, e)
           I == {i \in 1 .. Len(order) : order[i] = e}
<1>0. Len(order) \in Nat /\ DOMAIN order = 1 .. Len(order)
  BY LenProperties
<1>1. /\ r \in Seq(Entries) /\ ToSet(order) \subseteq ToSet(r) \cup {e} /\ ToSet(r) \subseteq ToSet(order)
      /\ NoneTwice => \A i, j \in DOMAIN r : r[i] # e /\ (r[i] = r[j] => i = j)
  <2>1. CASE I = {}
    BY <1>0, <2>1 DEF RemoveFirst, NoneTwice
  <2>2. CASE I # {}
    <3> DEFINE k == Min(I)
    <3>1. k \in 1 .. Len(order) /\ order[k] = e
      <4>1. I \subseteq Nat
        BY <1>0
      <4> HIDE DEF I
      <4>2. Min(I) \in I
        BY <2>2, <4>1, LeastNumber
      <4> QED
        BY <1>0, <4>2 DEF I
    <3>2. r = RemoveAt(order, k)
      BY <2>2 DEF RemoveFirst, SelectInSeq
    <3> HIDE DEF k, r, I
    <3>3. /\ r \in Seq(Entries) /\ Len(r) = Len(order) - 1 /\ DOMAIN r = 1 .. Len(order) - 1
          /\ \A m \in 1 .. Len(order) - 1 : r[m] = IF m < k THEN order[m] ELSE order[m + 1]
      BY <1>0, <3>1, <3>2, RemovedIsRest, LenProperties
    <3>4. ASSUME NEW i \in 1 .. Len(order), i # k PROVE order[i] \in ToSet(r)
      <4>1. CASE i < k
        BY <1>0, <3>1, <3>3, <4>1 DEF ToSet
      <4>2. CASE i > k
        <5>1. i - 1 \in DOMAIN r /\ r[i - 1] = order[i]
          BY <1>0, <3>1, <3>3, <4>2
        <5> QED
          BY <5>1 DEF ToSet
      <4> QED
        BY <3>1, <3>4, <4>1, <4>2
    <3>5. ToSet(order) \subseteq ToSet(r) \cup {e}
      BY <1>0, <3>1, <3>4 DEF ToSet
    <3>6. ToSet(r) \subseteq ToSet(order)
      <4>1. \A m \in DOMAIN r : \E i \in DOMAIN order : r[m] = order[i]
        BY <1>0, <3>1, <3>3
      <4> QED
        BY <4>1 DEF ToSet
    <3>7. ASSUME NoneTwice, NEW i \in DOMAIN r, NEW j \in DOMAIN r
          PROVE  r[i] # e /\ (r[i] = r[j] => i = j)
      <4> DEFINE at(m) == IF m < k THEN m ELSE m + 1
      <4>1. \A m \in DOMAIN r : at(m) \in DOMAIN order /\ at(m) # k /\ r[m] = order[at(m)]
        BY <1>0, <3>1, <3>3
      <4>2. at(i) = at(j) => i = j
        BY <1>0, <3>1, <3>3
      <4> HIDE DEF at
      <4> QED
        BY <1>0, <3>1, <3>7, <4>1, <4>2 DEF NoneTwice
    <3> QED
      BY <3>3, <3>5, <3>6, <3>7
  <2> QED
    BY <2>1, <2>2
<1> HIDE DEF r
<1>2. order' = Append(r, e)
  BY DEF Touch, r
<1>3. /\ order' \in Seq(Entries) /\ DOMAIN order' = 1 .. Len(r) + 1
      /\ order'[Len(r) + 1] = e /\ \A i \in 1 .. Len(r) : order'[i] = r[i]
      /\ Len(r) \in Nat /\ DOMAIN r = 1 .. Len(r)
  BY <1>1, <1>2, AppendProperties, LenProperties
<1>4. ToSet(order') = ToSet(r) \cup {e}
  <2>1. \A x : x \in ToSet(order') <=> \E i \in 1 .. Len(r) + 1 : x = order'[i]
    BY <1>3 DEF ToSet
  <2>2. \A x : x \in ToSet(r) <=> \E i \in 1 .. Len(r) : x = r[i]
    BY <1>3 DEF ToSet
  <2> QED
    BY <1>3, <2>1, <2>2
<1>5. NoneTwice => NoneTwice'
  BY <1>1, <1>3 DEF NoneTwice
<1> QED
  BY <1>1, <1>3, <1>4, <1>5

-----------------------------------------------------------------------------
(* What a set of entries weighs *)

\* The sum the fold computes, element by element.
Pick(s) == CHOOSE x \in s : TRUE
IsSum(g, S) == g = [s \in SUBSET S |-> IF s = {} THEN 0 ELSE SizeOf[Pick(s)] + g[s \ {Pick(s)}]]

\* Among the subsets of a finite set, the one a proof by least counterexample takes.
LEMMA SmallestSet ==
  ASSUME NEW S, IsFiniteSet(S), NEW C, C \subseteq SUBSET S, C # {}
  PROVE  \E T \in C : \A U \in C : U \subseteq T => U = T
<1>1. IsWellFoundedOn(StrictSubsetOrdering(S), SUBSET S)
  BY FS_StrictSubsetOrderingWellFounded, FS_FiniteSubsetsOfFinite
<1>2. \E T \in C : \A U \in C : ~(<<U, T>> \in StrictSubsetOrdering(S))
  BY <1>1, WFMin, Zenon
<1> QED
  BY <1>2 DEF StrictSubsetOrdering

LEMMA BytesUnfold == \A S : BytesOf(S) = (CHOOSE g : IsSum(g, S))[S]
  BY Zenon DEF BytesOf, SumFunctionOnSet, FoldFunctionOnSet, MapThenFoldSet, IsSum, Pick

LEMMA SumAt ==
  ASSUME NEW S, NEW g, IsSum(g, S), NEW U \in SUBSET S
  PROVE  g[U] = IF U = {} THEN 0 ELSE SizeOf[Pick(U)] + g[U \ {Pick(U)}]
  BY DEF IsSum

LEMMA PickIsIn ==
  ASSUME NEW S, S # {} PROVE Pick(S) \in S
  BY DEF Pick

\* There is one such sum, whatever set it is taken over ...
LEMMA SumsAgree ==
  ASSUME NEW S, IsFiniteSet(S), NEW T, NEW g, NEW h, IsSum(g, S), IsSum(h, T),
         NEW U \in SUBSET S, U \in SUBSET T
  PROVE  g[U] = h[U]
<1> DEFINE C == {V \in SUBSET S : V \in SUBSET T /\ g[V] # h[V]}
<1> SUFFICES ASSUME C # {} PROVE FALSE
  OBVIOUS
<1>1. PICK V \in C : \A W \in C : W \subseteq V => W = V
  <2> HIDE DEF C
  <2>1. C \subseteq SUBSET S
    BY DEF C
  <2> QED
    BY <2>1, SmallestSet
<1>2. V # {}
  BY SumAt
<1>3. Pick(V) \in V /\ V \ {Pick(V)} \notin C
  BY <1>1, <1>2, PickIsIn
<1>4. g[V \ {Pick(V)}] = h[V \ {Pick(V)}]
  BY <1>3
<1> QED
  BY <1>2, <1>4, SumAt

\* ... and there is one.
LEMMA SumExists ==
  ASSUME NEW S, IsFiniteSet(S)
  PROVE  \E g : IsSum(g, S)
<1> DEFINE C == {V \in SUBSET S : ~ \E g : IsSum(g, V)}
           B == [V \in SUBSET S |-> (CHOOSE g : IsSum(g, V))[V]]
<1> SUFFICES ASSUME C # {} PROVE FALSE
  OBVIOUS
<1>1. PICK V \in C : \A W \in C : W \subseteq V => W = V
  <2> HIDE DEF C
  <2>1. C \subseteq SUBSET S
    BY DEF C
  <2> QED
    BY <2>1, SmallestSet
<1>2. \A W \in SUBSET V : W # V => \E g : IsSum(g, W)
  BY <1>1
<1> DEFINE h == [W \in SUBSET V |-> IF W = {} THEN 0 ELSE SizeOf[Pick(W)] + B[W \ {Pick(W)}]]
<1>3. ASSUME NEW W \in SUBSET V, W # V PROVE B[W] = h[W]
  <2>1. PICK g : g = (CHOOSE f : IsSum(f, W)) /\ IsSum(g, W)
    BY <1>2, <1>3
  <2>2. B[W] = g[W]
    BY <2>1
  <2>3. CASE W = {}
    BY <2>1, <2>2, <2>3, SumAt
  <2>4. CASE W # {}
    <3> DEFINE Y == W \ {Pick(W)}
    <3>0. Y \subseteq W /\ Y # V /\ Y \in SUBSET V /\ Y \in SUBSET S
      BY <1>3
    <3> HIDE DEF Y
    <3>1. PICK f : f = (CHOOSE d : IsSum(d, Y)) /\ IsSum(f, Y)
      BY <1>2, <3>0
    <3>2. B[Y] = f[Y]
      BY <3>0, <3>1
    <3>3. IsFiniteSet(Y)
      BY <3>0, FS_Subset
    <3>4. f[Y] = g[Y]
      BY <3>0, <3>1, <3>3, <2>1, SumsAgree
    <3>5. g[W] = SizeOf[Pick(W)] + g[Y]
      BY <2>1, <2>4, SumAt DEF Y
    <3> HIDE DEF B
    <3> QED
      BY <2>2, <2>4, <3>2, <3>4, <3>5 DEF Y
  <2> QED
    BY <2>3, <2>4
<1>4. IsSum(h, V)
  <2>1. \A W \in SUBSET V : W # {} => B[W \ {Pick(W)}] = h[W \ {Pick(W)}]
    <3> SUFFICES ASSUME NEW W \in SUBSET V, W # {} PROVE B[W \ {Pick(W)}] = h[W \ {Pick(W)}]
      OBVIOUS
    <3>1. W \ {Pick(W)} \in SUBSET V /\ W \ {Pick(W)} # V
      BY PickIsIn
    <3> HIDE DEF B, h
    <3> QED
      BY <3>1, <1>3
  <2> HIDE DEF B
  <2> QED
    BY <2>1 DEF IsSum
<1> QED
  BY <1>1, <1>4

LEMMA BytesUnchosen ==
  /\ BytesOf({}) = 0
  /\ \A S : IsFiniteSet(S) /\ S # {} => BytesOf(S) = SizeOf[Pick(S)] + BytesOf(S \ {Pick(S)})
<1>1. ASSUME NEW S, IsFiniteSet(S) PROVE \E g : IsSum(g, S) /\ BytesOf(S) = g[S]
  BY <1>1, SumExists, BytesUnfold
<1>2. BytesOf({}) = 0
  BY <1>1, FS_EmptySet, SumAt
<1>3. ASSUME NEW S, IsFiniteSet(S), S # {}
      PROVE BytesOf(S) = SizeOf[Pick(S)] + BytesOf(S \ {Pick(S)})
  <2> DEFINE T == S \ {Pick(S)}
  <2>1. T \subseteq S /\ IsFiniteSet(T)
    BY <1>3, FS_Subset
  <2>2. PICK g : IsSum(g, S) /\ BytesOf(S) = g[S]
    BY <1>1, <1>3
  <2>3. PICK h : IsSum(h, T) /\ BytesOf(T) = h[T]
    BY <1>1, <2>1
  <2>4. g[S] = SizeOf[Pick(S)] + g[T]
    BY <2>2, <1>3, SumAt
  <2>5. h[T] = g[T]
    BY <2>1, <2>2, <2>3, SumsAgree
  <2> QED
    BY <2>2, <2>3, <2>4, <2>5
<1> QED
  BY <1>2, <1>3

\* Any element may be counted first.
LEMMA BytesOfOne ==
  ASSUME NEW S, S \subseteq Entries, IsFiniteSet(S)
  PROVE  /\ BytesOf(S) \in Nat
         /\ \A e \in S : BytesOf(S) = SizeOf[e] + BytesOf(S \ {e})
<1> DEFINE Good(T) == /\ BytesOf(T) \in Nat
                      /\ \A e \in T : BytesOf(T) = SizeOf[e] + BytesOf(T \ {e})
           C == {T \in SUBSET S : ~Good(T)}
<1> SUFFICES ASSUME C # {} PROVE FALSE
  OBVIOUS
<1>1. PICK T \in C : \A U \in C : U \subseteq T => U = T
  <2> HIDE DEF C
  <2>1. C \subseteq SUBSET S
    BY DEF C
  <2> QED
    BY <2>1, SmallestSet
<1>2. \A U \in SUBSET T : U # T => Good(U)
  BY <1>1
<1>3. T # {}
  <2>1. Good({})
    BY BytesUnchosen
  <2> QED
    BY <1>1, <2>1
<1> HIDE DEF C
<1> DEFINE x == Pick(T)
<1>4. IsFiniteSet(T) /\ T \subseteq Entries
  BY <1>1, FS_Subset DEF C
<1>5. x \in T /\ SizeOf[x] \in Nat /\ BytesOf(T) = SizeOf[x] + BytesOf(T \ {x})
  BY <1>3, <1>4, PickIsIn, BytesUnchosen, CacheAssumption
<1> HIDE DEF x
<1>6. Good(T \ {x})
  BY <1>2, <1>5
<1>7. ASSUME NEW e \in T, e # x PROVE BytesOf(T) = SizeOf[e] + BytesOf(T \ {e})
  <2>1. BytesOf(T \ {x}) = SizeOf[e] + BytesOf((T \ {x}) \ {e})
    BY <1>6, <1>7
  <2>2. BytesOf(T \ {e}) = SizeOf[x] + BytesOf((T \ {e}) \ {x})
    <3>1. Good(T \ {e})
      BY <1>2
    <3> QED
      BY <3>1, <1>5, <1>7
  <2>3. (T \ {x}) \ {e} = (T \ {e}) \ {x}
    OBVIOUS
  <2> DEFINE n == BytesOf((T \ {x}) \ {e})
  <2>5. BytesOf((T \ {e}) \ {x}) = n
    BY <2>3
  <2>4. n \in Nat /\ SizeOf[e] \in Nat
    <3>1. Good((T \ {x}) \ {e})
      BY <1>2, <1>5
    <3> QED
      BY <3>1, <1>4, CacheAssumption
  <2>6. BytesOf(T \ {x}) = SizeOf[e] + n /\ BytesOf(T \ {e}) = SizeOf[x] + n
    BY <2>1, <2>2, <2>5
  <2> HIDE DEF n
  <2> QED
    BY <1>5, <2>4, <2>6
<1>8. Good(T)
  BY <1>5, <1>6, <1>7
<1> QED
  BY <1>1, <1>8 DEF C

LEMMA FewerBytes ==
  ASSUME NEW S, S \subseteq Entries, IsFiniteSet(S), NEW T, T \subseteq S
  PROVE  BytesOf(T) <= BytesOf(S)
<1> DEFINE C == {U \in SUBSET S : T \subseteq U /\ ~(BytesOf(T) <= BytesOf(U))}
<1> SUFFICES ASSUME C # {} PROVE FALSE
  OBVIOUS
<1>1. PICK U \in C : \A V \in C : V \subseteq U => V = U
  <2> HIDE DEF C
  <2>1. C \subseteq SUBSET S
    BY DEF C
  <2> QED
    BY <2>1, SmallestSet
<1>2. IsFiniteSet(U) /\ IsFiniteSet(T) /\ U \subseteq Entries /\ T \subseteq Entries
  BY <1>1, FS_Subset
<1>3. BytesOf(T) \in Nat
  BY <1>2, BytesOfOne
<1>4. PICK e \in U : e \notin T
  <2>1. U # T
    BY <1>1, <1>3
  <2> QED
    BY <1>1, <2>1
<1>5. BytesOf(U) = SizeOf[e] + BytesOf(U \ {e}) /\ SizeOf[e] \in Nat
  BY <1>2, BytesOfOne, CacheAssumption
<1>6. BytesOf(T) <= BytesOf(U \ {e})
  BY <1>1, <1>4
<1>7. BytesOf(U \ {e}) \in Nat
  <2>1. IsFiniteSet(U \ {e}) /\ U \ {e} \subseteq Entries
    BY <1>2, FS_Subset
  <2> HIDE DEF C
  <2> QED
    BY <2>1, BytesOfOne
<1> HIDE DEF C
<1>8. BytesOf(T) <= BytesOf(U)
  BY <1>3, <1>5, <1>6, <1>7
<1> QED
  BY <1>1, <1>8 DEF C

-----------------------------------------------------------------------------
(* The invariant *)

ReaderStates == {"idle", "touched", "missing", "holding", "opened", "gone"}

CacheShape ==
  /\ key \in [Entries -> Keys \cup {None}]
  /\ index \in [Keys -> Entries \cup {None}]
  /\ disk \in [Keys -> Entries \cup {None}]
  /\ evicted \subseteq Entries
  /\ order \in Seq(Entries)
  /\ publishing \in Entries \cup {None}
  /\ ppc \in {"none", "staged", "cleared", "installed"}
  /\ ppc = "none" <=> publishing = None
  /\ reader \in [Readers -> ReaderStates]
  /\ handle \in [Readers -> (Entries \cup {None}) \X (Stems \cup {None})]

\* The index still has the entry, or the entry says that it has not.
Known(e) == e \in Entries /\ key[e] \in Keys /\ (e \in evicted \/ index[key[e]] = e)

\* Each entry is indexed under its own key, until it is evicted; and whoever may
\* come by an entry comes by one of those.
KeysAgree ==
  /\ \A k \in Keys : index[k] # None => key[index[k]] = k /\ index[k] \notin evicted
  /\ \A e \in evicted : key[e] \in Keys
  /\ publishing # None =>
       key[publishing] \in Keys /\ index[key[publishing]] = None /\ publishing \notin evicted
  /\ \A e \in ToSet(order) : Known(e) \/ (e = publishing /\ ppc = "installed")
  /\ \A r \in Readers : reader[r] # "idle" => Known(handle[r][1])

\* The files of the index, of the entry about to be in it, and of nobody who was
\* told that there are none.
FilesAreThere ==
  struck # "wipe" =>
    /\ \A k \in Keys : index[k] # None => disk[k] = index[k]
    /\ ppc = "installed" => disk[key[publishing]] = publishing
    /\ \A r \in Readers : reader[r] \in {"missing", "gone"} => handle[r][1] \in evicted

CacheInv == CacheShape /\ KeysAgree /\ FilesAreThere

-----------------------------------------------------------------------------
(* What a sweep takes is in the index *)

LEMMA OnlyIndexedIsSwept ==
  ASSUME NEW S
  PROVE  Uncollected(S) \subseteq S /\ Rotated(S) \subseteq S
  BY DEF Uncollected, Rotated

LEMMA SweptIsIndexed == Swept \subseteq Indexed
<1> DEFINE first == Uncollected(Indexed)
<1>1. first \subseteq Indexed /\ Rotated(Indexed \ first) \subseteq Indexed \ first
  BY OnlyIndexedIsSwept
<1>2. Swept = first \cup Rotated(Indexed \ first)
  BY DEF Swept
<1> QED
  BY <1>1, <1>2

-----------------------------------------------------------------------------
(* Each step *)

\* Removing directories touches no other, and leaves one standing only with the
\* fault that says so.
LEMMA DirsGo ==
  ASSUME CacheInv, NEW gone, RemoveDirs(gone)
  PROVE  /\ disk' \in [Keys -> Entries \cup {None}]
         /\ \A k \in Keys :
              /\ disk'[k] \in {disk[k], None}
              /\ disk'[k] # disk[k] => \E e \in gone : key[e] = k
              /\ (\E e \in gone : key[e] = k) => disk'[k] = None \/ struck' = "stays"
         /\ struck' = struck \/ (struck' = "stays" /\ struck = None)
<1>1. disk \in [Keys -> Entries \cup {None}]
  BY DEF CacheInv, CacheShape
<1>2. CASE disk' = Deleted(gone) /\ UNCHANGED struck
  BY <1>1, <1>2 DEF Deleted
<1>3. ASSUME NEW left \in SUBSET gone \ {{}}, disk' = Deleted(gone \ left), Strikes("stays")
      PROVE  /\ disk' \in [Keys -> Entries \cup {None}]
             /\ \A k \in Keys : /\ disk'[k] \in {disk[k], None}
                                /\ disk'[k] # disk[k] => \E e \in gone : key[e] = k
             /\ struck' = "stays" /\ struck = None
  BY <1>1, <1>3 DEF Deleted, Strikes
<1> QED
  BY <1>2, <1>3 DEF RemoveDirs

LEMMA DropStep ==
  ASSUME CacheInv, NEW gone, gone \subseteq Indexed, Drop(gone)
  PROVE  CacheInv'
<1>0. /\ disk' \in [Keys -> Entries \cup {None}]
      /\ \A k \in Keys : disk'[k] # disk[k] => \E e \in gone : key[e] = k
      /\ struck' = "wipe" <=> struck = "wipe"
  BY DirsGo, CacheAssumption DEF Drop
<1> USE CacheAssumption DEF CacheInv, CacheShape, KeysAgree, Known
<1>1. /\ index' = [k \in Keys |-> IF index[k] \in gone THEN None ELSE index[k]]
      /\ evicted' = evicted \cup gone
      /\ UNCHANGED <<key, order, publishing, ppc, reader, handle>>
  BY DEF Drop, Removed, Tombstones, entries, worker, readers
<1>2. \A e \in gone : e \in Entries /\ key[e] \in Keys /\ index[key[e]] = e
  BY DEF Indexed
<1>3. CacheShape'
  BY <1>0, <1>1, <1>2
<1>4. KeysAgree'
  BY <1>1, <1>2
<1>5. FilesAreThere'
  BY <1>0, <1>1, <1>2 DEF FilesAreThere
<1> QED
  BY <1>3, <1>4, <1>5

LEMMA PublishStep ==
  ASSUME "again" \notin Faults, CacheInv, Publish \/ PublishFails
  PROVE  CacheInv'
<1> USE CacheAssumption DEF CacheInv, CacheShape, KeysAgree, Known, FilesAreThere
<1>1. ASSUME NEW e \in Entries, NEW k \in Keys, Stage(e, k) PROVE CacheInv'
  <2>1. /\ key' = [key EXCEPT ![e] = k] /\ key[e] = None /\ index[k] = None /\ ppc = "none"
        /\ publishing' = e /\ ppc' = "staged"
        /\ UNCHANGED <<order, index, disk, evicted, reader, handle, struck>>
    BY <1>1 DEF Stage, readers
  <2>2. \A d \in Entries : key[d] \in Keys => key'[d] = key[d]
    BY <2>1
  <2>3. CacheShape'
    BY <2>1
  <2>4. KeysAgree'
    BY <2>1, <2>2
  <2>5. FilesAreThere'
    BY <2>1, <2>2
  <2> QED
    BY <2>3, <2>4, <2>5
<1>2. CASE Replace
  BY <1>2 DEF Replace, entries, readers
<1>3. CASE Install
  <2>1. /\ order' \in Seq(Entries) /\ ToSet(order') \subseteq ToSet(order) \cup {publishing}
    BY <1>3, TouchProperties DEF Install
  <2>2. /\ ppc = "cleared" /\ ppc' = "installed"
        /\ disk' = [disk EXCEPT ![key[publishing]] = publishing]
        /\ UNCHANGED <<key, index, evicted, publishing, reader, handle, struck>>
    BY <1>3 DEF Install, readers
  <2>3. CacheShape'
    BY <2>1, <2>2
  <2>4. KeysAgree'
    BY <2>1, <2>2
  <2>5. FilesAreThere'
    BY <2>2
  <2> QED
    BY <2>3, <2>4, <2>5
<1>4. CASE Insert
  <2> DEFINE k == key[publishing]
             held == (Indexed \ {index[k]}) \cup {publishing}
             gone == Rotated(held)
  <2>0. RemoveDirs(gone) /\ CacheInv
    BY <1>4 DEF Insert
  <2>1. /\ index' = [[q \in Keys |-> IF index[q] \in gone THEN None ELSE index[q]]
                       EXCEPT ![k] = IF publishing \in gone THEN None ELSE publishing]
        /\ evicted' = evicted \cup gone
        /\ ppc = "installed" /\ ppc' = "none" /\ publishing' = None
        /\ UNCHANGED <<key, order, reader, handle>>
    BY <1>4 DEF Insert, Removed, Tombstones, entries, readers
  <2>2. gone \subseteq held
    BY OnlyIndexedIsSwept
  <2> HIDE DEF gone
  <2>8. /\ disk' \in [Keys -> Entries \cup {None}]
        /\ \A q \in Keys : disk'[q] # disk[q] => \E e \in gone : key[e] = q
        /\ struck' = "wipe" <=> struck = "wipe"
    <3> HIDE DEF CacheInv
    <3> QED
      BY <2>0, DirsGo
  <2>3. \A e \in gone \ {publishing} :
          e \in Entries /\ key[e] \in Keys /\ index[key[e]] = e /\ key[e] # k
    BY <2>1, <2>2 DEF Indexed
  <2>4. /\ publishing \in Entries /\ k \in Keys /\ index[k] = None
        /\ index'[k] = IF publishing \in gone THEN None ELSE publishing
        /\ \A q \in Keys \ {k} : index'[q] = IF index[q] \in gone THEN None ELSE index[q]
    BY <2>1
  <2>5. CacheShape'
    BY <2>1, <2>2, <2>3, <2>4, <2>8
  <2>6. KeysAgree'
    BY <2>1, <2>3, <2>4
  <2>7. FilesAreThere'
    <3> SUFFICES ASSUME struck # "wipe"
                 PROVE  \A q \in Keys : index'[q] # None => disk'[q] = index'[q]
      BY <2>1, <2>8
    <3>1. \A q \in Keys \ {k} : index'[q] # None => disk'[q] = index'[q]
      BY <2>1, <2>3, <2>4, <2>8
    <3>2. index'[k] # None => disk'[k] = index'[k]
      BY <2>1, <2>3, <2>4, <2>8
    <3> QED
      BY <3>1, <3>2
  <2> QED
    BY <2>5, <2>6, <2>7
<1>5. CASE PublishFails
  <2>1. /\ publishing' = None /\ ppc' = "none" /\ ppc # "installed"
        /\ UNCHANGED <<key, order, index, disk, evicted, reader, handle>>
        /\ struck' # "wipe" => struck # "wipe"
    BY <1>5 DEF PublishFails, Strikes, entries, files, readers
  <2>2. CacheShape' /\ KeysAgree'
    BY <2>1
  <2>3. FilesAreThere'
    BY <2>1
  <2> QED
    BY <2>2, <2>3
<1> QED
  BY <1>1, <1>2, <1>3, <1>4, <1>5 DEF Publish

\* Until the directory is wiped, the files of an entry are missing only because
\* it was evicted.
LEMMA AbsentIsEvicted ==
  ASSUME CacheInv, NEW e, Known(e), struck # "wipe", FALSE \in Present(e)
  PROVE  e \in evicted
<1> SUFFICES ASSUME index[key[e]] = e, e \in Entries, key[e] \in Keys
             PROVE  FALSE
  BY DEF Known
<1>1. index[key[e]] # None
  BY CacheAssumption
<1>2. disk[key[e]] = e /\ e \notin evicted
  BY <1>1 DEF CacheInv, KeysAgree, FilesAreThere
<1> QED
  BY <1>2, CacheAssumption DEF Present

LEMMA GetStep ==
  ASSUME CacheInv, NEW r \in Readers, Get(r)
  PROVE  CacheInv'
<1> USE CacheAssumption DEF CacheInv, CacheShape, KeysAgree, Known, FilesAreThere
<1>1. ASSUME NEW k \in Keys, GetTouch(r, k) PROVE CacheInv'
  <2>1. /\ order' \in Seq(Entries) /\ ToSet(order') \subseteq ToSet(order) \cup {index[k]}
    BY <1>1, TouchProperties DEF GetTouch
  <2>2. /\ index[k] # None
        /\ handle' = [handle EXCEPT ![r] = <<index[k], None>>]
        /\ reader' = [reader EXCEPT ![r] = "touched"]
        /\ UNCHANGED <<key, index, disk, evicted, publishing, ppc, struck>>
    BY <1>1 DEF GetTouch, files, worker
  <2>3. CacheShape'
    BY <2>1, <2>2 DEF ReaderStates
  <2>4. KeysAgree'
    BY <2>1, <2>2
  <2>5. FilesAreThere'
    BY <2>2
  <2> QED
    BY <2>3, <2>4, <2>5
<1>2. CASE GetPresent(r)
  <2>0. CacheInv /\ Known(handle[r][1])
    BY <1>2 DEF GetPresent
  <2> PICK there \in Present(handle[r][1]) :
           reader' = [reader EXCEPT ![r] = IF there THEN "holding" ELSE "missing"]
    BY <1>2 DEF GetPresent
  <2>1. /\ reader[r] = "touched" /\ there \in BOOLEAN
        /\ reader' = [reader EXCEPT ![r] = IF there THEN "holding" ELSE "missing"]
        /\ UNCHANGED <<key, order, index, disk, evicted, publishing, ppc, handle, struck>>
    BY <1>2 DEF GetPresent, Present, entries, files, worker
  <2>2. CacheShape' /\ KeysAgree'
    BY <2>1 DEF ReaderStates
  <2>3. struck # "wipe" /\ ~there => handle[r][1] \in evicted
    <3> HIDE DEF CacheInv, Known
    <3> QED
      BY <2>0, <2>1, AbsentIsEvicted
  <2>4. FilesAreThere'
    <3>1. ASSUME struck # "wipe", NEW q \in Readers, reader'[q] \in {"missing", "gone"}
          PROVE  handle'[q][1] \in evicted
      BY <2>1, <2>3, <3>1
    <3> QED
      BY <2>1, <3>1
  <2> QED
    BY <2>2, <2>4
<1>3. CASE GetForget(r)
  <2> DEFINE e == handle[r][1]
  <2>1. /\ reader[r] = "missing" /\ reader' = [reader EXCEPT ![r] = "idle"]
        /\ UNCHANGED <<key, order, disk, publishing, ppc, handle, struck>>
        /\ \/ /\ index[key[e]] = e
              /\ index' = [index EXCEPT ![key[e]] = None]
              /\ evicted' = evicted \cup {e}
           \/ UNCHANGED <<index, evicted>>
    BY <1>3 DEF GetForget, StillHeld, Tombstones, entries, files, worker
  <2>2. Known(e)
    BY <2>1
  <2> HIDE DEF e
  <2>3. CacheShape'
    BY <2>1, <2>2 DEF ReaderStates
  <2>4. \A d \in Entries : Known(d) => Known(d)'
    BY <2>1, <2>2
  <2>5. KeysAgree'
    <3>1. /\ \A k \in Keys : index'[k] # None => key'[index'[k]] = k /\ index'[k] \notin evicted'
          /\ \A d \in evicted' : key'[d] \in Keys
      <4>1. \A k \in Keys :
              index'[k] # None => index'[k] = index[k] /\ (index'[k] # e \/ evicted' = evicted)
        BY <2>1, <2>2
      <4>3. evicted' \subseteq evicted \cup {e}
        BY <2>1
      <4> QED
        BY <2>1, <2>2, <4>1, <4>3
    <3>2. publishing' # None =>
            /\ key'[publishing'] \in Keys /\ index'[key'[publishing']] = None
            /\ publishing' \notin evicted'
      BY <2>1, <2>2
    <3>3. \A d \in ToSet(order)' : Known(d)' \/ (d = publishing' /\ ppc' = "installed")
      BY <2>1, <2>4
    <3>4. \A q \in Readers : reader'[q] # "idle" => (Known(handle[q][1]))'
      BY <2>1, <2>4
    <3> QED
      BY <3>1, <3>2, <3>3, <3>4
  <2>6. FilesAreThere'
    BY <2>1, <2>2
  <2> QED
    BY <2>3, <2>5, <2>6
<1> QED
  BY <1>1, <1>2, <1>3 DEF Get

LEMMA FetchStep ==
  ASSUME CacheInv, NEW r \in Readers, Fetch(r)
  PROVE  CacheInv'
<1> USE CacheAssumption DEF CacheInv, CacheShape, KeysAgree, Known, FilesAreThere
<1>1. ASSUME NEW e \in Entries, Hold(r, e) PROVE CacheInv'
  <2>1. /\ e \in ToSet(order) /\ e # publishing
        /\ handle' = [handle EXCEPT ![r] = <<e, None>>]
        /\ reader' = [reader EXCEPT ![r] = "holding"]
        /\ UNCHANGED <<key, order, index, disk, evicted, publishing, ppc, struck>>
    BY <1>1 DEF Hold, Published, entries, files, worker
  <2>2. CacheShape' /\ KeysAgree'
    BY <2>1 DEF ReaderStates
  <2>3. FilesAreThere'
    BY <2>1
  <2> QED
    BY <2>2, <2>3
<1>2. ASSUME NEW s \in Stems, Open(r, s) PROVE CacheInv'
  <2>0. CacheInv /\ Known(handle[r][1])
    BY <1>2 DEF Open
  <2> PICK there \in Present(handle[r][1]) :
           reader' = [reader EXCEPT ![r] = IF there THEN "opened" ELSE "gone"]
    BY <1>2 DEF Open
  <2>1. /\ reader[r] = "holding" /\ there \in BOOLEAN
        /\ handle' = [handle EXCEPT ![r] = <<handle[r][1], s>>]
        /\ reader' = [reader EXCEPT ![r] = IF there THEN "opened" ELSE "gone"]
        /\ UNCHANGED <<key, order, index, disk, evicted, publishing, ppc, struck>>
    BY <1>2 DEF Open, Present, entries, files, worker
  <2>2. CacheShape' /\ KeysAgree'
    BY <2>1 DEF ReaderStates
  <2>3. struck # "wipe" /\ ~there => handle[r][1] \in evicted
    <3> HIDE DEF CacheInv, Known
    <3> QED
      BY <2>0, <2>1, AbsentIsEvicted
  <2>4. FilesAreThere'
    <3>1. ASSUME struck # "wipe", NEW q \in Readers, reader'[q] \in {"missing", "gone"}
          PROVE  handle'[q][1] \in evicted
      BY <2>1, <2>3, <3>1
    <3> QED
      BY <2>1, <3>1
  <2> QED
    BY <2>2, <2>4
<1>3. CASE Mark(r)
  <2>1. /\ reader[r] = "opened" /\ handle[r][1] \in Entries
        /\ handle' = [handle EXCEPT ![r] = <<handle[r][1], None>>]
        /\ reader' = [reader EXCEPT ![r] = "holding"]
        /\ UNCHANGED <<key, index, disk, evicted, publishing, ppc, struck>>
    BY <1>3 DEF Mark, files, worker
  <2>2. /\ order' \in Seq(Entries)
        /\ ToSet(order') \subseteq ToSet(order) \cup {handle[r][1]}
    BY <1>3, <2>1, TouchProperties DEF Mark
  <2>3. CacheShape'
    BY <2>1, <2>2 DEF ReaderStates
  <2>4. KeysAgree'
    BY <2>1, <2>2
  <2>5. FilesAreThere'
    BY <2>1
  <2> QED
    BY <2>3, <2>4, <2>5
<1>4. CASE Leave(r)
  <2>1. /\ handle' = [handle EXCEPT ![r] = <<None, None>>]
        /\ reader' = [reader EXCEPT ![r] = "idle"]
        /\ UNCHANGED <<key, order, index, disk, evicted, publishing, ppc, struck>>
    BY <1>4 DEF Leave, entries, files, worker
  <2>2. CacheShape' /\ KeysAgree'
    BY <2>1 DEF ReaderStates
  <2>3. FilesAreThere'
    BY <2>1
  <2> QED
    BY <2>2, <2>3
<1> QED
  BY <1>1, <1>2, <1>3, <1>4 DEF Fetch

LEMMA CacheStep ==
  ASSUME "again" \notin Faults, CacheInv, [CacheNext]_cacheVars
  PROVE  CacheInv'
<1>1. CASE Reap \/ Clear
  BY <1>1, DropStep, SweptIsIndexed DEF Reap, Clear
<1>2. CASE TimePasses
  BY <1>2 DEF TimePasses, CacheInv, CacheShape, KeysAgree, FilesAreThere, Known, files, worker, readers
<1>3. CASE Wipe
  <2>1. /\ struck' = "wipe" /\ disk' \in [Keys -> Entries \cup {None}]
        /\ UNCHANGED <<key, order, index, evicted, publishing, ppc, reader, handle>>
    BY <1>3 DEF Wipe, Strikes, entries, worker, readers
  <2> QED
    BY <2>1 DEF CacheInv, CacheShape, KeysAgree, FilesAreThere, Known
<1>4. CASE UNCHANGED cacheVars
  BY <1>4 DEF cacheVars, entries, files, worker, readers, CacheInv, CacheShape, KeysAgree,
              FilesAreThere, Known
<1> QED
  BY <1>1, <1>2, <1>3, <1>4, PublishStep, GetStep, FetchStep DEF CacheNext

LEMMA CacheInvariance ==
  ASSUME "again" \notin Faults
  PROVE  CacheSpec => []CacheInv
<1>1. CacheInit => CacheInv
  BY CacheAssumption, EmptySeq
     DEF CacheInit, CacheInv, CacheShape, KeysAgree, FilesAreThere, Known, ReaderStates, ToSet
<1>2. CacheInv /\ [CacheNext]_cacheVars => CacheInv'
  BY CacheStep
<1> QED
  BY <1>1, <1>2, PTL DEF CacheSpec

-----------------------------------------------------------------------------
(* The theorems *)

\* What the index promises is on disk, and a 410 is said only of an entry that
\* carries the tombstone, until another instance clears the directory (publish,
\* get, get_stem).
THEOREM IndexKeepsItsWord ==
  ASSUME "again" \notin Faults
  PROVE  CacheSpec => []IndexIsOnDisk
<1>1. CacheInv => IndexIsOnDisk
  BY DEF CacheInv, KeysAgree, FilesAreThere, IndexIsOnDisk
<1> QED
  BY <1>1, CacheInvariance, PTL

\* Whatever goes from the index, the rest stays and what went is marked.
LEMMA LettingGoIsLet ==
  ASSUME CacheInv, NEW gone, gone \subseteq Indexed, gone # {},
         index' = Removed(gone), evicted' = evicted \cup gone
  PROVE  Store!Next
<1> DEFINE S == {k \in Keys : index[k] \in gone}
<1>1. index' = [k \in Keys |-> IF k \in S THEN None ELSE index[k]] /\ S # {}
  BY DEF Removed, Indexed
<1>2. Store!Gone(index) = gone
  <2>1. None \notin gone /\ \A e \in gone : \E k \in Keys : index[k] = e
    BY DEF Indexed
  <2>2. \A k \in Keys : index'[k] # index[k] <=> index[k] \in gone
    BY <2>1 DEF Removed
  <2> QED
    BY <2>1, <2>2 DEF Store!Gone
<1> HIDE DEF S
<1>3. Store!Let(S) /\ S \in SUBSET Keys
  BY <1>1, <1>2 DEF Store!Let, S
<1> QED
  BY <1>3 DEF Store!Next

LEMMA StoreStep ==
  ASSUME "again" \notin Faults, CacheInv, [CacheNext]_cacheVars
  PROVE  [Store!Next]_<<index, evicted>>
<1>1. CASE Reap \/ Clear
  <2>1. PICK gone \in SUBSET Indexed : gone # {} /\ Drop(gone)
    BY <1>1, SweptIsIndexed DEF Reap, Clear
  <2> QED
    BY <2>1, LettingGoIsLet DEF Drop, Tombstones
<1>2. ASSUME NEW r \in Readers, GetForget(r) PROVE [Store!Next]_<<index, evicted>>
  <2> DEFINE e == handle[r][1]
  <2>1. Known(e) /\ index \in [Keys -> Entries \cup {None}]
    BY <1>2 DEF GetForget, CacheInv, CacheShape, KeysAgree
  <2>2. CASE StillHeld(e)
    <3>1. index' = [index EXCEPT ![key[e]] = None] /\ evicted' = evicted \cup {e}
      BY <1>2, <2>2 DEF GetForget, Tombstones
    <3>2. key[e] \in Keys /\ index[key[e]] = e /\ e \in Indexed
      BY <2>1, <2>2, CacheAssumption DEF StillHeld, Known, Indexed
    <3> HIDE DEF e
    <3>3. \A k \in Keys : index[k] = e => k = key[e]
      BY <3>2, CacheAssumption DEF CacheInv, KeysAgree, Indexed
    <3>4. index' = Removed({e})
      BY <2>1, <3>1, <3>2, <3>3 DEF Removed
    <3> QED
      BY <3>1, <3>2, <3>4, LettingGoIsLet
  <2>3. CASE ~StillHeld(e)
    BY <1>2, <2>3 DEF GetForget
  <2> QED
    BY <2>2, <2>3
<1>3. CASE Insert
  <2> DEFINE k == key[publishing]
             held == (Indexed \ {index[k]}) \cup {publishing}
             gone == Rotated(held)
  <2>1. /\ publishing \in Entries \ evicted /\ k \in Keys /\ index[k] = None
        /\ index \in [Keys -> Entries \cup {None}] /\ publishing \notin Indexed
    BY <1>3, CacheAssumption DEF Insert, CacheInv, CacheShape, KeysAgree, Indexed
  <2>2. /\ index' = [Removed(gone) EXCEPT ![k] = IF publishing \in gone THEN None ELSE publishing]
        /\ evicted' = evicted \cup gone
    BY <1>3 DEF Insert, Tombstones
  <2>3. gone \subseteq Indexed \cup {publishing}
    BY OnlyIndexedIsSwept
  <2> HIDE DEF gone, k
  <2>4. /\ index'[k] = IF publishing \in gone THEN None ELSE publishing
        /\ \A q \in Keys \ {k} : index'[q] = IF index[q] \in gone THEN None ELSE index[q]
    BY <2>1, <2>2 DEF Removed
  <2>5. Store!Gone(index) = gone \ {publishing}
    BY <2>1, <2>3, <2>4, CacheAssumption DEF Store!Gone, Indexed
  <2>6. evicted' = evicted \cup Store!Gone(index) \cup ({publishing} \ {index'[k]})
    BY <2>1, <2>2, <2>4, <2>5, CacheAssumption
  <2>7. Store!Put(k, publishing)
    BY <2>1, <2>4, <2>6 DEF Store!Put
  <2> QED
    BY <2>1, <2>7 DEF Store!Next
<1>4. CASE UNCHANGED cacheVars
  BY <1>4 DEF cacheVars
<1>5. CASE (\E e \in Entries, k \in Keys : Stage(e, k)) \/ Replace \/ Install \/ PublishFails
  BY <1>5 DEF Stage, Replace, Install, PublishFails
<1>6. ASSUME NEW r \in Readers, Get(r), ~GetForget(r) PROVE UNCHANGED <<index, evicted>>
  BY <1>6 DEF Get, GetTouch, GetPresent
<1>7. ASSUME NEW r \in Readers, Fetch(r) PROVE UNCHANGED <<index, evicted>>
  BY <1>7 DEF Fetch, Hold, Open, Mark, Leave
<1>8. CASE TimePasses \/ Wipe
  BY <1>8 DEF TimePasses, Wipe
<1> QED
  BY <1>1, <1>2, <1>3, <1>4, <1>5, <1>6, <1>7, <1>8 DEF CacheNext, Publish

\* The store is what Server takes it for: stems come under their key, others may
\* go, and whatever goes is marked (publish, delete, get).
THEOREM CacheImplementsStore ==
  ASSUME "again" \notin Faults
  PROVE  CacheSpec => StoreService
<1>1. CacheInit => Store!Init
  BY DEF CacheInit, Store!Init
<1>2. CacheInv /\ [CacheNext]_cacheVars => [Store!Next]_<<index, evicted>>
  BY StoreStep
<1> QED
  BY <1>1, <1>2, CacheInvariance, PTL DEF CacheSpec, StoreService, Store!Spec

-----------------------------------------------------------------------------
(* The budget *)

\* What the cap leaves: no more than the budget, or one track.
Budget(S) == BytesOf(S) <= MaxBytes \/ \E e \in Entries : S = {e}

LEMMA BudgetOfFewer ==
  ASSUME NEW S, S \subseteq Entries, IsFiniteSet(S), Budget(S), NEW T, T \subseteq S
  PROVE  Budget(T)
<1>1. CASE BytesOf(S) <= MaxBytes
  <2>1. BytesOf(S) \in Nat /\ BytesOf(T) \in Nat /\ BytesOf(T) <= BytesOf(S)
    BY FewerBytes, BytesOfOne, FS_Subset
  <2> QED
    BY <1>1, <2>1, CacheAssumption DEF Budget
<1>2. ASSUME NEW e \in Entries, S = {e} PROVE Budget(T)
  <2>1. T = {} \/ T = {e}
    BY <1>2
  <2>2. Budget({})
    BY BytesUnchosen, CacheAssumption DEF Budget
  <2> QED
    BY <2>1, <2>2 DEF Budget
<1> QED
  BY <1>1, <1>2 DEF Budget

\* Rule 2 spares the entry used last, and what it leaves is within the budget
\* or that entry alone.
LEMMA RotatedKeeps ==
  ASSUME order \in Seq(Entries), NoneTwice, NEW S, S \subseteq ToSet(order), S # {}
  PROVE  /\ Latest(S) \in S \ Rotated(S)
         /\ Budget(S \ Rotated(S))
<1> DEFINE at == {i \in DOMAIN order : order[i] \in S}
           latest == Max(at)
           oldest(n) == {order[i] : i \in 1 .. n} \cap S
           enough == {n \in 0 .. latest - 1 : BytesOf(S \ oldest(n)) <= MaxBytes}
<1>1. Len(order) \in Nat /\ DOMAIN order = 1 .. Len(order)
  BY LenProperties
<1>2. latest \in at /\ \A i \in at : i <= latest
  <2>1. at \subseteq 0 .. Len(order) /\ at # {}
    BY <1>1 DEF ToSet
  <2> HIDE DEF at
  <2> QED
    BY <1>1, <2>1, GreatestNumber
<1>3. Latest(S) = order[latest]
  BY DEF Latest
<1>4. /\ BytesOf(S) <= MaxBytes => Rotated(S) = {}
      /\ ~(BytesOf(S) <= MaxBytes) => Rotated(S) = oldest(IF enough = {} THEN latest - 1 ELSE Min(enough))
  BY DEF Rotated
<1>5. enough # {} => Min(enough) \in enough
  <2>1. enough \subseteq Nat
    OBVIOUS
  <2> HIDE DEF enough
  <2> QED
    BY <2>1, LeastNumber
<1>6. S \subseteq Entries
  BY <1>1, ElementOfSeq DEF ToSet
<1> HIDE DEF latest
<1>7. ASSUME NEW n \in 0 .. latest - 1 PROVE order[latest] \notin oldest(n)
  BY <1>1, <1>2 DEF NoneTwice
<1>8. S \ oldest(latest - 1) = {order[latest]}
  <2>1. order[latest] \in S \ oldest(latest - 1)
    <3>1. latest - 1 \in 0 .. latest - 1
      BY <1>1, <1>2
    <3> QED
      BY <1>2, <1>7, <3>1
  <2>2. ASSUME NEW e \in S, e # order[latest] PROVE e \in oldest(latest - 1)
    <3>1. PICK i \in DOMAIN order : order[i] = e
      BY DEF ToSet
    <3>2. i <= latest /\ i # latest
      BY <1>2, <2>2, <3>1
    <3>3. i \in 1 .. latest - 1
      BY <1>1, <1>2, <3>2
    <3> QED
      BY <3>1, <3>3
  <2> QED
    BY <2>1, <2>2
<1> HIDE DEF oldest
<1>9. CASE BytesOf(S) <= MaxBytes
  BY <1>2, <1>3, <1>4, <1>9 DEF Budget
<1>10. CASE ~(BytesOf(S) <= MaxBytes) /\ enough = {}
  <2>1. Rotated(S) = oldest(latest - 1)
    BY <1>4, <1>10
  <2> QED
    BY <1>2, <1>3, <1>6, <1>8, <2>1 DEF Budget
<1>11. CASE ~(BytesOf(S) <= MaxBytes) /\ enough # {}
  <2>1. Rotated(S) = oldest(Min(enough)) /\ Min(enough) \in enough
    BY <1>4, <1>5, <1>11
  <2>2. Min(enough) \in 0 .. latest - 1 /\ BytesOf(S \ oldest(Min(enough))) <= MaxBytes
    BY <2>1
  <2> HIDE DEF enough
  <2> QED
    BY <1>2, <1>3, <1>7, <2>1, <2>2 DEF Budget
<1> QED
  BY <1>9, <1>10, <1>11

-----------------------------------------------------------------------------
(* The invariant of the disk *)

\* Whoever is or was in the index has been used, and each entry has one place in line.
OrderAgrees ==
  /\ NoneTwice
  /\ \A k \in Keys : index[k] # None => index[k] \in ToSet(order)
  /\ evicted \subseteq ToSet(order)
  /\ ppc = "installed" => publishing \in ToSet(order)

\* Whose files may stand under a key: the index's, those about to be, and an evicted
\* entry's that would not go.
Accounted(k) ==
  \/ index[k] = disk[k]
  \/ disk[k] = publishing /\ ppc = "installed"
  \/ struck = "stays" /\ disk[k] \in evicted

\* Files stand under their own key and are accounted for; what the lookup found
\* missing is not there, for as long as the index has the entry.
DiskAgrees ==
  /\ \A k \in Keys : disk[k] # None => key[disk[k]] = k /\ Accounted(k)
  /\ \A r \in Readers :
       reader[r] = "missing" /\ StillHeld(handle[r][1]) => disk[key[handle[r][1]]] = None

\* A part is being written, or was left by a publish that failed: no such entry was
\* ever stamped.
PartsAgree ==
  \A e \in parts : /\ key[e] \in Keys
                   /\ e \in Entries \ ToSet(order)
                   /\ struck = "fails" \/ (e = publishing /\ ppc \in {"staged", "cleared"})

DiskInv == OrderAgrees /\ Budget(Indexed) /\ DiskAgrees /\ PartsAgree

\* Only a publish adds to the index, and only a touch moves the order.
LEMMA WhoIndexes ==
  ASSUME CacheInv, [CacheNext]_cacheVars, ~Insert
  PROVE  \A k \in Keys : index'[k] \in {index[k], None}
<1>1. ASSUME NEW gone, Drop(gone) PROVE \A k \in Keys : index'[k] \in {index[k], None}
  BY <1>1 DEF Drop, Removed
<1>2. ASSUME NEW r \in Readers, GetForget(r) PROVE \A k \in Keys : index'[k] \in {index[k], None}
  <2>1. index \in [Keys -> Entries \cup {None}]
    BY DEF CacheInv, CacheShape
  <2> QED
    BY <1>2, <2>1 DEF GetForget
<1>3. CASE UNCHANGED cacheVars
  BY <1>3 DEF cacheVars
<1>4. CASE (\E e \in Entries, k \in Keys : Stage(e, k)) \/ Replace \/ Install \/ PublishFails
  BY <1>4 DEF Stage, Replace, Install, PublishFails
<1>5. ASSUME NEW r \in Readers, Get(r), ~GetForget(r) PROVE UNCHANGED index
  BY <1>5 DEF Get, GetTouch, GetPresent
<1>6. ASSUME NEW r \in Readers, Fetch(r) PROVE UNCHANGED index
  BY <1>6 DEF Fetch, Hold, Open, Mark, Leave
<1>7. CASE TimePasses \/ Wipe
  BY <1>7 DEF TimePasses, Wipe
<1> QED
  BY <1>1, <1>2, <1>3, <1>4, <1>5, <1>6, <1>7 DEF CacheNext, Publish, Reap, Clear

LEMMA WhoTouches ==
  ASSUME CacheInv, [CacheNext]_cacheVars
  PROVE  \/ UNCHANGED order /\ (ppc' = "installed" => ppc = "installed" /\ publishing' = publishing)
         \/ \E e \in Entries : Touch(e) /\ (ppc' = "installed" => publishing' = publishing
                                             /\ (ppc = "installed" \/ e = publishing))
<1>1. CASE Install
  BY <1>1 DEF Install, CacheInv, CacheShape
<1>2. ASSUME NEW r \in Readers, NEW k \in Keys, GetTouch(r, k)
      PROVE  index[k] \in Entries /\ Touch(index[k]) /\ UNCHANGED <<publishing, ppc>>
  BY <1>2 DEF GetTouch, CacheInv, CacheShape, worker
<1>3. ASSUME NEW r \in Readers, Mark(r)
      PROVE  handle[r][1] \in Entries /\ Touch(handle[r][1]) /\ UNCHANGED <<publishing, ppc>>
  BY <1>3 DEF Mark, CacheInv, KeysAgree, Known, worker
<1>4. CASE (\E e \in Entries, k \in Keys : Stage(e, k)) \/ Replace \/ Insert \/ PublishFails
  BY <1>4 DEF Stage, Replace, Insert, PublishFails, entries
<1>5. ASSUME NEW r \in Readers, GetPresent(r) \/ GetForget(r) PROVE UNCHANGED <<order, publishing, ppc>>
  BY <1>5 DEF GetPresent, GetForget, entries, worker
<1>6. ASSUME NEW r \in Readers, Fetch(r), ~Mark(r) PROVE UNCHANGED <<order, publishing, ppc>>
  BY <1>6 DEF Fetch, Hold, Open, Leave, entries, worker
<1>7. CASE TimePasses \/ Wipe
  BY <1>7 DEF TimePasses, Wipe, entries, worker
<1>8. CASE Reap \/ Clear
  BY <1>8 DEF Reap, Clear, Drop, entries, worker
<1>9. CASE UNCHANGED cacheVars
  BY <1>9 DEF cacheVars, entries, worker
<1> QED
  BY <1>1, <1>2, <1>3, <1>4, <1>5, <1>6, <1>7, <1>8, <1>9 DEF CacheNext, Publish, Get

LEMMA WhoIsEvicted ==
  ASSUME CacheInv, [CacheNext]_cacheVars
  PROVE  evicted' \subseteq evicted \cup Indexed \cup (IF Insert THEN {publishing} ELSE {})
<1>1. CASE Insert
  <2> DEFINE held == (Indexed \ {index[key[publishing]]}) \cup {publishing}
             gone == Rotated(held)
  <2>1. evicted' = evicted \cup gone
    BY <1>1 DEF Insert, Tombstones
  <2>2. gone \subseteq held
    BY OnlyIndexedIsSwept
  <2> QED
    BY <1>1, <2>1, <2>2
<1>2. CASE Reap \/ Clear
  BY <1>2, SweptIsIndexed DEF Reap, Clear, Drop, Tombstones
<1>3. ASSUME NEW r \in Readers, GetForget(r)
      PROVE  evicted' \subseteq evicted \cup Indexed
  <2>1. Known(handle[r][1])
    BY <1>3 DEF GetForget, CacheInv, KeysAgree
  <2>2. StillHeld(handle[r][1]) => handle[r][1] \in Indexed
    BY <2>1, CacheAssumption DEF Known, StillHeld, Indexed
  <2> QED
    BY <1>3, <2>2 DEF GetForget, Tombstones
<1>4. CASE (\E e \in Entries, k \in Keys : Stage(e, k)) \/ Replace \/ Install \/ PublishFails
  BY <1>4 DEF Stage, Replace, Install, PublishFails
<1>5. ASSUME NEW r \in Readers, Get(r) \/ Fetch(r), ~GetForget(r) PROVE UNCHANGED evicted
  BY <1>5 DEF Get, Fetch, GetTouch, GetPresent, Hold, Open, Mark, Leave
<1>6. CASE TimePasses \/ Wipe \/ UNCHANGED cacheVars
  BY <1>6 DEF TimePasses, Wipe, cacheVars
<1> QED
  BY <1>1, <1>2, <1>3, <1>4, <1>5, <1>6 DEF CacheNext, Publish

LEMMA UsedIsFinite ==
  ASSUME order \in Seq(Entries)
  PROVE  IsFiniteSet(ToSet(order)) /\ ToSet(order) \subseteq Entries
<1>1. Len(order) \in Nat /\ DOMAIN order = 1 .. Len(order) /\ \A i \in 1 .. Len(order) : order[i] \in Entries
  BY LenProperties, ElementOfSeq
<1>2. IsFiniteSet(1 .. Len(order))
  BY <1>1, FS_Interval
<1>3. IsFiniteSet({order[i] : i \in 1 .. Len(order)})
  <2>1. order \in Surjection(1 .. Len(order), ToSet(order))
    BY <1>1 DEF Surjection, ToSet
  <2> QED
    BY <1>1, <1>2, <2>1, FS_Surjection DEF ExistsSurjection, ToSet
<1> QED
  BY <1>1, <1>3 DEF ToSet

LEMMA OrderStep ==
  ASSUME "again" \notin Faults, CacheInv, OrderAgrees, [CacheNext]_cacheVars
  PROVE  OrderAgrees'
<1>0. order \in Seq(Entries)
  BY DEF CacheInv, CacheShape
<1>1. ToSet(order) \subseteq ToSet(order') /\ NoneTwice' /\ (ppc' = "installed" => publishing' \in ToSet(order'))
  <2>1. CASE UNCHANGED order /\ (ppc' = "installed" => ppc = "installed" /\ publishing' = publishing)
    BY <2>1 DEF OrderAgrees, NoneTwice
  <2>2. ASSUME NEW e \in Entries, Touch(e),
               ppc' = "installed" => publishing' = publishing /\ (ppc = "installed" \/ e = publishing)
        PROVE  ToSet(order) \subseteq ToSet(order') /\ NoneTwice' /\ (ppc' = "installed" => publishing' \in ToSet(order'))
    <3>1. ToSet(order') = ToSet(order) \cup {e} /\ NoneTwice'
      BY <1>0, <2>2, TouchProperties DEF OrderAgrees
    <3> QED
      BY <2>2, <3>1 DEF OrderAgrees
  <2> QED
    BY <2>1, <2>2, WhoTouches
<1>2. ASSUME NEW k \in Keys, index'[k] # None PROVE index'[k] \in ToSet(order')
  <2>1. CASE Insert
    <3>1. index'[k] \in {index[k], publishing} /\ UNCHANGED order /\ ppc = "installed"
      <4>1. index \in [Keys -> Entries \cup {None}] /\ publishing \in Entries /\ key[publishing] \in Keys
        BY <2>1, CacheAssumption DEF Insert, CacheInv, CacheShape, KeysAgree
      <4> QED
        BY <1>2, <2>1, <4>1 DEF Insert, Removed, entries
    <3> QED
      BY <1>2, <3>1 DEF OrderAgrees
  <2>2. CASE ~Insert
    BY <1>1, <1>2, <2>2, WhoIndexes DEF OrderAgrees
  <2> QED
    BY <2>1, <2>2
<1>3. evicted' \subseteq ToSet(order')
  <2>1. evicted' \subseteq evicted \cup Indexed \cup (IF Insert THEN {publishing} ELSE {})
    BY WhoIsEvicted
  <2>2. Insert => ppc = "installed"
    BY DEF Insert
  <2> QED
    BY <1>1, <2>1, <2>2 DEF OrderAgrees, Indexed
<1> QED
  BY <1>1, <1>2, <1>3 DEF OrderAgrees

LEMMA IndexedIsFinite ==
  ASSUME CacheInv, OrderAgrees
  PROVE  /\ Indexed \subseteq Entries /\ Indexed \subseteq ToSet(order) /\ IsFiniteSet(Indexed)
<1>1. Indexed \subseteq ToSet(order)
  BY DEF OrderAgrees, Indexed
<1> QED
  BY <1>1, UsedIsFinite, FS_Subset DEF CacheInv, CacheShape

\* What an insert holds, and what it lets go.
LEMMA InsertKeeps ==
  ASSUME CacheInv, OrderAgrees, Insert
  PROVE  LET held == Indexed \cup {publishing} IN
         /\ held \subseteq ToSet(order) /\ held # {}
         /\ Indexed' = held \ Rotated(held)
         /\ evicted' = evicted \cup Rotated(held)
<1> DEFINE k == key[publishing]
           held == Indexed \cup {publishing}
           gone == Rotated(held)
<1>1. /\ publishing \in Entries \ evicted /\ k \in Keys /\ index[k] = None
      /\ index \in [Keys -> Entries \cup {None}] /\ publishing # None
    BY CacheAssumption DEF Insert, CacheInv, CacheShape, KeysAgree
<1>2. (Indexed \ {index[k]}) \cup {publishing} = held
  BY <1>1 DEF Indexed
<1>3. /\ index' = [Removed(gone) EXCEPT ![k] = IF publishing \in gone THEN None ELSE publishing]
      /\ evicted' = evicted \cup gone
  BY <1>2 DEF Insert, Tombstones
<1>4. held \subseteq ToSet(order)
  BY IndexedIsFinite DEF Insert, OrderAgrees
<1> HIDE DEF gone, k
<1>5. /\ index'[k] = IF publishing \in gone THEN None ELSE publishing
      /\ \A q \in Keys \ {k} : index'[q] = IF index[q] \in gone THEN None ELSE index[q]
  BY <1>1, <1>3 DEF Removed
<1>6. Indexed' = held \ gone
  BY <1>1, <1>5 DEF Indexed
<1> QED
  BY <1>3, <1>4, <1>6 DEF gone

LEMMA BudgetStep ==
  ASSUME "again" \notin Faults, CacheInv, OrderAgrees, Budget(Indexed), [CacheNext]_cacheVars
  PROVE  Budget(Indexed)'
<1>1. CASE Insert
  BY <1>1, InsertKeeps, RotatedKeeps DEF CacheInv, CacheShape, OrderAgrees, Budget, BytesOf
<1>2. CASE ~Insert
  <2>1. Indexed' \subseteq Indexed
    BY <1>2, WhoIndexes DEF Indexed
  <2>2. Budget(Indexed')
    BY <2>1, IndexedIsFinite, BudgetOfFewer
  <2> QED
    BY <2>2 DEF Budget, BytesOf
<1> QED
  BY <1>1, <1>2

\* Whoever is known has been used, and no part is left of what has been used.
LEMMA KnownIsUsed ==
  ASSUME OrderAgrees, NEW e, Known(e)
  PROVE  e \in ToSet(order)
  BY CacheAssumption DEF OrderAgrees, Known

LEMMA PartsStep ==
  ASSUME CacheInv, OrderAgrees, PartsAgree, [CacheNext]_cacheVars
  PROVE  PartsAgree'
<1>0. CacheInv /\ OrderAgrees /\ order \in Seq(Entries)
  BY DEF CacheInv, CacheShape
<1>1. ASSUME NEW e \in Entries, NEW k \in Keys, Stage(e, k) PROVE PartsAgree'
  <2>1. /\ key' = [key EXCEPT ![e] = k] /\ key[e] = None /\ ppc = "none" /\ publishing = None
        /\ publishing' = e /\ ppc' = "staged" /\ parts' = parts \cup {e}
        /\ key \in [Entries -> Keys \cup {None}]
        /\ UNCHANGED <<order, struck>>
    BY <1>1 DEF Stage, CacheInv, CacheShape
  <2>2. e \notin ToSet(order)
    BY <2>1, CacheAssumption DEF CacheInv, KeysAgree, Known
  <2> QED
    BY <2>1, <2>2, CacheAssumption DEF PartsAgree
<1>2. CASE Replace
  BY <1>2 DEF Replace, entries, PartsAgree
<1>3. CASE Install
  <2>1. publishing \in Entries /\ ToSet(order') = ToSet(order) \cup {publishing}
    <3>1. publishing \in Entries /\ Touch(publishing)
      BY <1>3 DEF Install, CacheInv, CacheShape
    <3> QED
      BY <1>0, <3>1, TouchProperties
  <2> QED
    BY <1>3, <2>1 DEF Install, PartsAgree
<1>4. CASE Insert
  <2>1. struck' = struck \/ (struck' = "stays" /\ struck = None)
    BY <1>4, DirsGo DEF Insert
  <2>2. ppc = "installed" /\ UNCHANGED <<parts, key, order>>
    BY <1>4 DEF Insert, entries
  <2> QED
    BY <2>1, <2>2, CacheAssumption DEF PartsAgree
<1>5. CASE PublishFails
  <2>1. /\ UNCHANGED <<parts, key, order>>
        /\ struck' = "fails" \/ (publishing \notin parts /\ UNCHANGED struck)
    BY <1>5 DEF PublishFails, Strikes, files, entries
  <2> QED
    BY <2>1 DEF PartsAgree
<1>6. CASE Wipe
  BY <1>6 DEF Wipe, PartsAgree
<1>7. ASSUME NEW gone, Drop(gone) PROVE PartsAgree'
  <2>1. struck' = struck \/ (struck' = "stays" /\ struck = None)
    BY <1>7, DirsGo DEF Drop
  <2>2. UNCHANGED <<parts, key, order, publishing, ppc>>
    BY <1>7 DEF Drop, entries, worker
  <2> QED
    BY <2>1, <2>2, CacheAssumption DEF PartsAgree
<1>8. ASSUME NEW r \in Readers, NEW e, Known(e), Touch(e),
             UNCHANGED <<parts, key, publishing, ppc, struck>>
      PROVE  PartsAgree'
  <2>1. e \in Entries /\ ToSet(order') = ToSet(order) \cup {e} /\ e \in ToSet(order)
    BY <1>0, <1>8, KnownIsUsed, TouchProperties DEF Known
  <2> QED
    BY <1>8, <2>1 DEF PartsAgree
<1>9. ASSUME NEW r \in Readers, NEW k \in Keys, GetTouch(r, k) PROVE PartsAgree'
  <2>1. Known(index[k])
    BY <1>9, CacheAssumption DEF GetTouch, CacheInv, CacheShape, KeysAgree, Known
  <2> QED
    BY <1>8, <1>9, <2>1 DEF GetTouch, files, worker
<1>10. ASSUME NEW r \in Readers, Mark(r) PROVE PartsAgree'
  <2>1. Known(handle[r][1])
    BY <1>10 DEF Mark, CacheInv, KeysAgree
  <2> QED
    BY <1>8, <1>10, <2>1 DEF Mark, files, worker
<1>11. ASSUME NEW r \in Readers, Get(r) \/ Fetch(r), ~Mark(r), ~ \E k \in Keys : GetTouch(r, k)
       PROVE  PartsAgree'
  BY <1>11 DEF Get, Fetch, GetPresent, GetForget, Hold, Open, Leave, entries, worker, files, PartsAgree
<1>12. CASE TimePasses \/ UNCHANGED cacheVars
  BY <1>12 DEF TimePasses, cacheVars, entries, worker, files, PartsAgree
<1> QED
  BY <1>1, <1>2, <1>3, <1>4, <1>5, <1>6, <1>7, <1>9, <1>10, <1>11, <1>12
     DEF CacheNext, Publish, Reap, Clear

LEMMA DropKeepsDisk ==
  ASSUME CacheInv, DiskAgrees, NEW gone, gone \subseteq Indexed, Drop(gone)
  PROVE  DiskAgrees'
<1>0. /\ \A k \in Keys : /\ disk'[k] \in {disk[k], None}
                         /\ disk'[k] # disk[k] => \E e \in gone : key[e] = k
                         /\ (\E e \in gone : key[e] = k) => disk'[k] = None \/ struck' = "stays"
      /\ struck = "stays" => struck' = "stays"
  BY DirsGo, CacheAssumption DEF Drop
<1>1. /\ index' = [k \in Keys |-> IF index[k] \in gone THEN None ELSE index[k]]
      /\ evicted' = evicted \cup gone
      /\ UNCHANGED <<key, publishing, ppc, reader, handle>>
  BY DEF Drop, Removed, Tombstones, entries, worker, readers
<1>2. \A e \in gone : e \in Entries /\ key[e] \in Keys /\ index[key[e]] = e
  BY DEF Indexed, CacheInv, CacheShape, KeysAgree
<1>3. index \in [Keys -> Entries \cup {None}] /\ disk \in [Keys -> Entries \cup {None}]
  BY DEF CacheInv, CacheShape
<1>4. ASSUME NEW k \in Keys, disk'[k] # None
      PROVE  key'[disk'[k]] = k /\ Accounted(k)'
  <2>1. disk'[k] = disk[k] /\ key[disk[k]] = k /\ Accounted(k)
    BY <1>0, <1>4 DEF DiskAgrees
  <2>2. CASE index[k] = disk[k] /\ index[k] \in gone
    <3>1. \E e \in gone : key[e] = k
      BY <2>1, <2>2
    <3>2. struck' = "stays"
      BY <1>0, <1>4, <3>1
    <3> QED
      BY <1>1, <2>1, <2>2, <3>2 DEF Accounted
  <2> QED
    BY <1>0, <1>1, <2>1, <2>2 DEF Accounted
<1>5. ASSUME NEW r \in Readers, reader'[r] = "missing", StillHeld(handle[r][1])'
      PROVE  disk'[key'[handle'[r][1]]] = None
  <2> DEFINE e == handle[r][1]
  <2>1. reader[r] = "missing" /\ Known(e)
    BY <1>1, <1>5 DEF CacheInv, KeysAgree
  <2>2. key[e] \in Keys /\ e \in Entries /\ index'[key[e]] = e
    BY <1>1, <1>5, <2>1 DEF StillHeld, Known
  <2>3. StillHeld(e)
    BY <1>1, <2>2, CacheAssumption DEF StillHeld
  <2>4. disk[key[e]] = None
    BY <2>1, <2>3 DEF DiskAgrees
  <2> QED
    BY <1>0, <1>1, <2>2, <2>4
<1> QED
  BY <1>4, <1>5 DEF DiskAgrees

LEMMA DiskStep ==
  ASSUME "again" \notin Faults, CacheInv, DiskAgrees, [CacheNext]_cacheVars
  PROVE  DiskAgrees'
<1>0. CacheInv
  OBVIOUS
<1> USE CacheAssumption DEF DiskAgrees, Accounted, CacheInv, CacheShape, KeysAgree, Known, StillHeld
<1>1. ASSUME NEW e \in Entries, NEW k \in Keys, Stage(e, k) PROVE DiskAgrees'
  <2>1. /\ key' = [key EXCEPT ![e] = k] /\ key[e] = None /\ ppc = "none"
        /\ UNCHANGED <<index, disk, evicted, reader, handle, struck>>
    BY <1>1 DEF Stage, readers
  <2>2. \A d \in Entries : key[d] \in Keys => key'[d] = key[d]
    BY <2>1
  <2> QED
    BY <2>1, <2>2
<1>2. CASE Replace
  BY <1>2 DEF Replace, entries, readers
<1>3. CASE Install
  <2>1. /\ ppc = "cleared" /\ ppc' = "installed"
        /\ disk' = [disk EXCEPT ![key[publishing]] = publishing]
        /\ UNCHANGED <<key, index, evicted, publishing, reader, handle, struck>>
    BY <1>3 DEF Install, readers
  <2> QED
    BY <2>1
<1>4. CASE Insert
  <2> DEFINE k == key[publishing]
             held == (Indexed \ {index[k]}) \cup {publishing}
             gone == Rotated(held)
  <2>0. RemoveDirs(gone)
    BY <1>4 DEF Insert
  <2>1. /\ index' = [[q \in Keys |-> IF index[q] \in gone THEN None ELSE index[q]]
                       EXCEPT ![k] = IF publishing \in gone THEN None ELSE publishing]
        /\ evicted' = evicted \cup gone
        /\ ppc = "installed" /\ UNCHANGED <<key, reader, handle>>
    BY <1>4 DEF Insert, Removed, Tombstones, entries, readers
  <2>2. gone \subseteq held
    BY OnlyIndexedIsSwept
  <2>3. /\ publishing \in Entries /\ k \in Keys /\ index[k] = None /\ publishing # None
    BY <2>1
  <2> HIDE DEF gone
  <2>7. /\ \A q \in Keys : /\ disk'[q] \in {disk[q], None}
                           /\ disk'[q] # disk[q] => \E e \in gone : key[e] = q
                           /\ (\E e \in gone : key[e] = q) => disk'[q] = None \/ struck' = "stays"
        /\ struck = "stays" => struck' = "stays"
    <3> HIDE DEF CacheInv
    <3> QED
      BY <1>0, <2>0, DirsGo
  <2>4. /\ index'[k] = IF publishing \in gone THEN None ELSE publishing
        /\ \A q \in Keys \ {k} : index'[q] = IF index[q] \in gone THEN None ELSE index[q]
    BY <2>1, <2>3
  <2>5. ASSUME NEW q \in Keys, disk'[q] # None
        PROVE  key[disk'[q]] = q /\ (index'[q] = disk'[q] \/ (struck' = "stays" /\ disk'[q] \in evicted'))
    <3>1. disk'[q] = disk[q] /\ key[disk[q]] = q /\ Accounted(q)
      BY <2>5, <2>7
    <3>2. disk[q] \in gone => struck' = "stays" /\ disk[q] \in evicted'
      BY <2>1, <2>5, <2>7, <3>1
    <3>3. struck = "stays" /\ disk[q] \in evicted => struck' = "stays" /\ disk[q] \in evicted'
      BY <2>1, <2>7
    <3>4. CASE disk[q] = publishing /\ publishing \notin gone
      BY <2>3, <2>4, <3>1, <3>4
    <3>5. CASE index[q] = disk[q] /\ index[q] \notin gone
      BY <2>3, <2>4, <2>5, <3>1, <3>5
    <3> QED
      BY <3>1, <3>2, <3>3, <3>4, <3>5
  <2>6. ASSUME NEW r \in Readers, reader[r] = "missing", index'[key[handle[r][1]]] = handle[r][1]
        PROVE  disk'[key[handle[r][1]]] = None
    <3> DEFINE e == handle[r][1]
    <3>1. Known(e) /\ e \in Entries /\ key[e] \in Keys
      BY <2>6
    <3>2. e # publishing
      BY <2>3, <3>1
    <3>3. index[key[e]] = e
      BY <2>3, <2>4, <2>6, <3>1, <3>2
    <3>4. disk[key[e]] = None
      BY <2>6, <3>3
    <3> QED
      BY <2>7, <3>1, <3>4
  <2> QED
    BY <2>1, <2>5, <2>6
<1>5. CASE PublishFails
  <2>1. /\ ppc # "installed" /\ (struck = "stays" => struck' = "stays")
        /\ UNCHANGED <<key, index, disk, evicted, reader, handle>>
    BY <1>5 DEF PublishFails, Strikes, entries, files, readers
  <2> QED
    BY <2>1
<1>6. CASE Wipe
  <2>1. disk' = [k \in Keys |-> None] /\ UNCHANGED <<key, index, reader, handle>>
    BY <1>6 DEF Wipe, entries, readers
  <2> QED
    BY <2>1
<1>7. CASE Reap \/ Clear
  BY <1>7, DropKeepsDisk, SweptIsIndexed DEF Reap, Clear
<1>8. ASSUME NEW r \in Readers, GetForget(r) PROVE DiskAgrees'
  <2> DEFINE e == handle[r][1]
  <2>1. /\ reader[r] = "missing" /\ reader' = [reader EXCEPT ![r] = "idle"]
        /\ UNCHANGED <<key, disk, publishing, ppc, handle, struck>> /\ evicted \subseteq evicted'
        /\ \/ /\ index[key[e]] = e /\ disk[key[e]] = None
              /\ index' = [index EXCEPT ![key[e]] = None]
           \/ UNCHANGED index
    BY <1>8 DEF GetForget, Tombstones, entries, files, worker
  <2>2. key[e] \in Keys /\ e \in Entries
    BY <2>1
  <2> HIDE DEF e
  <2>3. ASSUME NEW q \in Readers, reader'[q] = "missing", index'[key[handle[q][1]]] = handle[q][1]
        PROVE  disk[key[handle[q][1]]] = None
    <3>1. reader[q] = "missing" /\ handle[q][1] \in Entries /\ key[handle[q][1]] \in Keys
      BY <2>1, <2>3
    <3>2. index[key[handle[q][1]]] = handle[q][1]
      BY <2>1, <2>2, <2>3, <3>1
    <3> QED
      BY <3>1, <3>2
  <2>4. ASSUME NEW k \in Keys, disk[k] # None
        PROVE  key[disk[k]] = k /\ Accounted(k)'
    BY <2>1, <2>2, <2>4
  <2> QED
    BY <2>1, <2>3, <2>4
<1>9. ASSUME NEW r \in Readers, GetPresent(r) PROVE DiskAgrees'
  <2>1. PICK there \in Present(handle[r][1]) :
           reader' = [reader EXCEPT ![r] = IF there THEN "holding" ELSE "missing"]
    BY <1>9 DEF GetPresent
  <2>2. reader[r] = "touched" /\ UNCHANGED <<key, index, disk, evicted, publishing, ppc, handle, struck>>
    BY <1>9 DEF GetPresent, entries, files, worker
  <2>3. StillHeld(handle[r][1]) /\ ~there => disk[key[handle[r][1]]] = None
    <3> SUFFICES ASSUME StillHeld(handle[r][1]), ~there, disk[key[handle[r][1]]] # None PROVE FALSE
      OBVIOUS
    <3>1. struck = "stays" /\ disk[key[handle[r][1]]] \in evicted
      BY <2>1 DEF Present
    <3>2. Known(handle[r][1])
      BY <2>2
    <3> QED
      BY <3>1, <3>2 DEF FilesAreThere
  <2> QED
    BY <2>1, <2>2, <2>3
<1>10. ASSUME NEW r \in Readers, NEW k \in Keys, GetTouch(r, k) PROVE DiskAgrees'
  BY <1>10 DEF GetTouch, files, worker
<1>11. ASSUME NEW r \in Readers, Fetch(r) PROVE DiskAgrees'
  <2>1. \A q \in Readers : reader'[q] = "missing" => reader[q] = "missing" /\ handle'[q] = handle[q]
    BY <1>11 DEF Fetch, Hold, Open, Mark, Leave
  <2>2. UNCHANGED <<key, index, disk, evicted, publishing, ppc, struck>>
    BY <1>11 DEF Fetch, Hold, Open, Mark, Leave, entries, files, worker
  <2> QED
    BY <2>1, <2>2
<1>12. CASE TimePasses \/ UNCHANGED cacheVars
  BY <1>12 DEF TimePasses, cacheVars, entries, files, worker, readers
<1> QED
  BY <1>1, <1>2, <1>3, <1>4, <1>5, <1>6, <1>7, <1>8, <1>9, <1>10, <1>11, <1>12
     DEF CacheNext, Publish, Get

LEMMA DiskInvariance ==
  ASSUME "again" \notin Faults
  PROVE  CacheSpec => [](CacheInv /\ DiskInv)
<1>1. CacheInit => DiskInv
  <2>1. CacheInit => Budget(Indexed)
    <3>1. CacheInit => Indexed = {}
      BY DEF CacheInit, Indexed
    <3> QED
      BY <3>1, BytesUnchosen, CacheAssumption DEF Budget
  <2>2. CacheInit => OrderAgrees /\ DiskAgrees /\ PartsAgree
    BY CacheAssumption DEF CacheInit, OrderAgrees, NoneTwice, DiskAgrees, PartsAgree
  <2> QED
    BY <2>1, <2>2 DEF DiskInv
<1>2. CacheInv /\ DiskInv /\ [CacheNext]_cacheVars => DiskInv'
  BY OrderStep, BudgetStep, DiskStep, PartsStep DEF DiskInv
<1> QED
  BY <1>1, <1>2, CacheInvariance, PTL DEF CacheSpec

\* The budget bounds the index, and the index and the publish under way account for
\* every directory: publish() leaves the store under the cap, whatever is swept,
\* cleared, forgotten or wiped meanwhile.
THEOREM DiskStaysBounded ==
  ASSUME "again" \notin Faults
  PROVE  CacheSpec => []DiskIsBounded
<1>1. CacheInv /\ DiskInv => DiskIsBounded
  <2> SUFFICES ASSUME CacheInv, DiskInv PROVE DiskIsBounded
    OBVIOUS
  <2>1. \A k \in Keys : disk[k] # None =>
          /\ \/ disk[k] \in Indexed \cup {publishing}
             \/ struck = "stays" /\ disk[k] \in evicted
          /\ disk[k] \in ToSet(order)
    BY DEF DiskInv, DiskAgrees, Accounted, OrderAgrees, Indexed
  <2>2. \A e \in parts \ {publishing} :
          struck = "fails" /\ e \notin ToSet(order) \cup Indexed \cup evicted
    BY DEF DiskInv, PartsAgree, OrderAgrees, Indexed
  <2>3. \A e \in parts : e # None
    BY CacheAssumption DEF DiskInv, PartsAgree
  <2>4. \A e \in parts \ {publishing}, k \in Keys : disk[k] # e
    BY <2>1, <2>2, <2>3
  <2>5. BytesOf(Indexed) <= MaxBytes \/ \E e \in Entries : Indexed = {e}
    BY DEF DiskInv, Budget
  <2> QED
    BY <2>1, <2>2, <2>4, <2>5 DEF DiskIsBounded
<1> QED
  BY <1>1, DiskInvariance, PTL

\* A sweep lets go only of what nobody came for, and an insert never of the entry
\* used last: rule 2 finds nothing left to do after rule 1 (reap, enforce_cap).
THEOREM SweepSparesWanted ==
  ASSUME "again" \notin Faults
  PROVE  CacheSpec => WantedIsKept
<1> DEFINE Kept == /\ Reap => \A e \in evicted' \ evicted : e \in idle /\ unpulled[e] # {}
                   /\ Insert => Latest(Indexed \cup {publishing}) \notin evicted'
<1>1. ASSUME CacheInv, DiskInv, Reap PROVE \A e \in evicted' \ evicted : e \in idle /\ unpulled[e] # {}
  <2> DEFINE first == Uncollected(Indexed)
             rest == Indexed \ first
  <2>1. evicted' = evicted \cup first \cup Rotated(rest)
    BY <1>1 DEF Reap, Drop, Tombstones, Swept
  <2>2. \A e \in first : e \in idle /\ unpulled[e] # {}
    BY DEF Uncollected, Abandoned
  <2>3. Budget(rest) /\ rest \subseteq ToSet(order)
    <3>1. /\ Indexed \subseteq Entries /\ Indexed \subseteq ToSet(order) /\ IsFiniteSet(Indexed)
      BY <1>1, IndexedIsFinite DEF DiskInv
    <3>2. rest \subseteq Indexed
      OBVIOUS
    <3> HIDE DEF rest
    <3> QED
      BY <1>1, <3>1, <3>2, BudgetOfFewer DEF DiskInv
  <2> HIDE DEF rest, first
  <2>4. Rotated(rest) = {}
    <3>1. CASE BytesOf(rest) <= MaxBytes
      BY <3>1 DEF Rotated
    <3>2. ASSUME NEW e \in Entries, rest = {e} PROVE Rotated(rest) = {}
      <4>1. Latest(rest) \in rest \ Rotated(rest)
        BY <1>1, <2>3, <3>2, RotatedKeeps DEF CacheInv, CacheShape, DiskInv, OrderAgrees
      <4>2. Rotated(rest) \subseteq rest
        BY OnlyIndexedIsSwept
      <4> QED
        BY <3>2, <4>1, <4>2
    <3> QED
      BY <2>3, <3>1, <3>2 DEF Budget
  <2> QED
    BY <2>1, <2>2, <2>4
<1>2. ASSUME CacheInv, DiskInv, Insert PROVE Latest(Indexed \cup {publishing}) \notin evicted'
  <2> DEFINE held == Indexed \cup {publishing}
  <2>1. /\ held \subseteq ToSet(order) /\ held # {}
        /\ evicted' = evicted \cup Rotated(held)
    BY <1>2, InsertKeeps DEF DiskInv
  <2>2. held \cap evicted = {}
    BY <1>2, CacheAssumption DEF CacheInv, CacheShape, KeysAgree, Insert, Indexed
  <2> HIDE DEF held
  <2>3. Latest(held) \in held \ Rotated(held)
    BY <1>2, <2>1, RotatedKeeps DEF CacheInv, CacheShape, DiskInv, OrderAgrees
  <2> QED
    BY <2>1, <2>2, <2>3 DEF held
<1>3. CacheInv /\ DiskInv => Kept
  BY <1>1, <1>2
<1>4. [](CacheInv /\ DiskInv) => [][Kept]_cacheVars
  BY <1>3, PTL
<1> QED
  BY <1>4, DiskInvariance DEF WantedIsKept
=============================================================================
