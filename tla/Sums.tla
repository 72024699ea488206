-------------------------------- MODULE Sums --------------------------------
(***************************************************************************)
(* What SumFunctionOnSet(f, S) is for a finite set S: the facts that the   *)
(* proofs about budgets and fees cite.  The community module folds over    *)
(* S in an order that CHOOSE picks; these lemmas say that the order does   *)
(* not matter.  Induction over the subsets of S goes by their minimal      *)
(* counterexample, since strict inclusion is well founded on them.         *)
(***************************************************************************)
EXTENDS Functions, FiniteSetTheorems, TLAPS

Picked(S) == CHOOSE x \in S : TRUE

\* g folds f over each subset of T.
Folding(g, f, T) ==
  g = [s \in SUBSET T |-> IF s = {} THEN 0 ELSE f[Picked(s)] + g[s \ {Picked(s)}]]

LEMMA SumIsFold ==
  ASSUME NEW f, NEW S
  PROVE  SumFunctionOnSet(f, S) = (CHOOSE g : Folding(g, f, S))[S]
BY DEF SumFunctionOnSet, FoldFunctionOnSet, MapThenFoldSet, Folding, Picked

\* Among some subsets of a finite set one is minimal.
LEMMA MinimalSubset ==
  ASSUME NEW S, IsFiniteSet(S), NEW D \in SUBSET (SUBSET S), D # {}
  PROVE  \E T \in D : \A U \in SUBSET T : U # T => U \notin D
<1>1. IsWellFoundedOn(StrictSubsetOrdering(S), SUBSET S)
  BY FS_StrictSubsetOrderingWellFounded, FS_FiniteSubsetsOfFinite
<1>2. PICK T \in D : \A U \in D : <<U, T>> \notin StrictSubsetOrdering(S)
  BY <1>1, WFMin
<1>3. ASSUME NEW U \in SUBSET T, U # T, U \in D PROVE FALSE
  BY <1>2, <1>3 DEF StrictSubsetOrdering
<1> QED
  BY <1>3

-----------------------------------------------------------------------------
(***************************************************************************)
(* The fold exists, and there is one.                                      *)
(***************************************************************************)
LEMMA PickedIn ==
  ASSUME NEW S, S # {}
  PROVE  Picked(S) \in S
BY DEF Picked

LEMMA FoldRestricts ==
  ASSUME NEW f, NEW T, NEW g, Folding(g, f, T), NEW U \in SUBSET T
  PROVE  Folding([s \in SUBSET U |-> g[s]], f, U)
<1> DEFINE h == [s \in SUBSET U |-> g[s]]
<1>1. ASSUME NEW s \in SUBSET U
      PROVE  h[s] = IF s = {} THEN 0 ELSE f[Picked(s)] + h[s \ {Picked(s)}]
  <2>1. g[s] = IF s = {} THEN 0 ELSE f[Picked(s)] + g[s \ {Picked(s)}]
    BY DEF Folding
  <2>2. s \ {Picked(s)} \in SUBSET U
    OBVIOUS
  <2>3. h[s] = g[s] /\ h[s \ {Picked(s)}] = g[s \ {Picked(s)}]
    BY <2>2
  <2> QED
    BY <2>1, <2>3
<1>2. h = [s \in SUBSET U |-> h[s]]
  OBVIOUS
<1> HIDE DEF h
<1>3. Folding(h, f, U)
  BY <1>1, <1>2 DEF Folding
<1> QED
  BY <1>3 DEF h

LEMMA FoldUnique ==
  ASSUME NEW f, NEW T, IsFiniteSet(T), NEW g, NEW h, Folding(g, f, T), Folding(h, f, T)
  PROVE  g = h
<1> DEFINE D == {s \in SUBSET T : g[s] # h[s]}
<1>1. ASSUME D # {} PROVE FALSE
  <2>0. D \in SUBSET (SUBSET T)
    OBVIOUS
  <2>1. PICK s \in D : \A u \in SUBSET s : u # s => u \notin D
    <3> HIDE DEF D
    <3> QED
      BY <1>1, <2>0, MinimalSubset
  <2>2. s # {}
    BY <2>1 DEF Folding
  <2> DEFINE u == s \ {Picked(s)}
  <2>3. u \in SUBSET s /\ u # s /\ u \in SUBSET T
    BY <2>2, PickedIn
  <2>4. g[u] = h[u]
    BY <2>1, <2>3
  <2>5. g[s] = f[Picked(s)] + g[u] /\ h[s] = f[Picked(s)] + h[u]
    BY <2>2 DEF Folding
  <2> QED
    BY <2>1, <2>4, <2>5
<1>2. \A s \in SUBSET T : g[s] = h[s]
  BY <1>1
<1>3. g = [s \in SUBSET T |-> g[s]] /\ h = [s \in SUBSET T |-> h[s]]
  BY DEF Folding
<1> QED
  BY <1>2, <1>3

LEMMA FoldExists ==
  ASSUME NEW f, NEW S, IsFiniteSet(S)
  PROVE  \E g : Folding(g, f, S)
<1> DEFINE D == {T \in SUBSET S : ~ \E g : Folding(g, f, T)}
<1>1. ASSUME D # {} PROVE FALSE
  <2>0. D \in SUBSET (SUBSET S)
    OBVIOUS
  <2>1. PICK T \in D : \A U \in SUBSET T : U # T => U \notin D
    <3> HIDE DEF D
    <3> QED
      BY <1>1, <2>0, MinimalSubset
  <2>2. IsFiniteSet(T) /\ T \subseteq S
    BY <2>1, FS_Subset
  <2> DEFINE G(U) == CHOOSE g : Folding(g, f, U)
             g == [s \in SUBSET T |-> IF s = {} THEN 0
                                      ELSE f[Picked(s)] + G(s \ {Picked(s)})[s \ {Picked(s)}]]
  <2>3. ASSUME NEW U \in SUBSET T, U # T PROVE Folding(G(U), f, U)
    <3>1. U \notin D /\ U \in SUBSET S
      BY <2>1, <2>2, <2>3
    <3>2. \E h : Folding(h, f, U)
      BY <3>1
    <3> QED
      BY <3>2
  <2>4. ASSUME NEW U \in SUBSET T, U # T PROVE g[U] = G(U)[U]
    <3>1. Folding(G(U), f, U)
      BY <2>3, <2>4
    <3>2. CASE U = {}
      BY <3>1, <3>2 DEF Folding
    <3>3. CASE U # {}
      <4> DEFINE V == U \ {Picked(U)}
                 h == [s \in SUBSET V |-> G(U)[s]]
      <4>1. V \in SUBSET U /\ V \in SUBSET T /\ V # T
        BY <2>4
      <4>2. Folding(h, f, V) /\ Folding(G(V), f, V)
        BY <2>3, <3>1, <4>1, FoldRestricts
      <4>3. IsFiniteSet(V)
        BY <2>2, <4>1, FS_Subset
      <4>4. h = G(V)
        BY <4>2, <4>3, FoldUnique
      <4>5. G(U)[V] = G(V)[V]
        BY <4>4
      <4>6. G(U)[U] = f[Picked(U)] + G(U)[V]
        BY <3>1, <3>3 DEF Folding
      <4> QED
        BY <3>3, <4>5, <4>6
    <3> QED
      BY <3>2, <3>3
  <2>5. ASSUME NEW s \in SUBSET T
        PROVE  g[s] = IF s = {} THEN 0 ELSE f[Picked(s)] + g[s \ {Picked(s)}]
    <3>1. CASE s = {}
      BY <3>1
    <3>2. CASE s # {}
      <4>1. s \ {Picked(s)} \in SUBSET T /\ s \ {Picked(s)} # T
        BY <3>2, PickedIn
      <4>2. g[s \ {Picked(s)}] = G(s \ {Picked(s)})[s \ {Picked(s)}]
        BY <2>4, <4>1
      <4>3. g[s] = f[Picked(s)] + G(s \ {Picked(s)})[s \ {Picked(s)}]
        BY <3>2
      <4> HIDE DEF g, G
      <4> QED
        BY <3>2, <4>2, <4>3
    <3> QED
      BY <3>1, <3>2
  <2>6. g = [s \in SUBSET T |-> g[s]]
    OBVIOUS
  <2> HIDE DEF g
  <2>7. Folding(g, f, T)
    BY <2>5, <2>6 DEF Folding
  <2> QED
    BY <2>1, <2>7
<1>2. S \notin D
  BY <1>1
<1> QED
  BY <1>2

-----------------------------------------------------------------------------
(***************************************************************************)
(* Sums of natural numbers.                                                *)
(***************************************************************************)
LEMMA SumEmpty ==
  ASSUME NEW f
  PROVE  SumFunctionOnSet(f, {}) = 0
<1>1. IsFiniteSet({})
  BY FS_EmptySet
<1>2. Folding(CHOOSE g : Folding(g, f, {}), f, {})
  BY <1>1, FoldExists
<1> HIDE DEF Folding
<1>3. (CHOOSE g : Folding(g, f, {}))[{}] = 0
  BY <1>2 DEF Folding
<1> QED
  BY <1>3, SumIsFold

\* One element is taken out, and the rest summed.
LEMMA SumPicked ==
  ASSUME NEW f, NEW S, IsFiniteSet(S), S # {}
  PROVE  SumFunctionOnSet(f, S) = f[Picked(S)] + SumFunctionOnSet(f, S \ {Picked(S)})
<1> DEFINE U == S \ {Picked(S)}
           g == CHOOSE h : Folding(h, f, S)
           k == CHOOSE h : Folding(h, f, U)
           e == [s \in SUBSET U |-> g[s]]
<1>1. IsFiniteSet(U) /\ U \in SUBSET S
  BY FS_Subset
<1>2. Folding(g, f, S) /\ Folding(k, f, U)
  BY <1>1, FoldExists
<1>3. Folding(e, f, U)
  BY <1>1, <1>2, FoldRestricts
<1>4. e = k
  <2> HIDE DEF e, k, g, U
  <2> QED
    BY <1>1, <1>2, <1>3, FoldUnique
<1>5. g[U] = k[U]
  BY <1>4
<1>6. SumFunctionOnSet(f, S) = g[S] /\ SumFunctionOnSet(f, U) = k[U]
  BY SumIsFold
<1>7. g[S] = f[Picked(S)] + g[U]
  BY <1>2 DEF Folding
<1> QED
  BY <1>5, <1>6, <1>7

LEMMA SumNat ==
  ASSUME NEW f, NEW S, IsFiniteSet(S), \A x \in S : f[x] \in Nat
  PROVE  SumFunctionOnSet(f, S) \in Nat
<1> DEFINE D == {T \in SUBSET S : SumFunctionOnSet(f, T) \notin Nat}
<1>1. D \in SUBSET (SUBSET S)
  OBVIOUS
<1>2. ASSUME D # {} PROVE FALSE
  <2>1. PICK T \in D : \A U \in SUBSET T : U # T => U \notin D
    <3> HIDE DEF D
    <3> QED
      BY <1>1, <1>2, MinimalSubset
  <2>2. T # {} /\ T \subseteq S /\ IsFiniteSet(T)
    <3>1. SumFunctionOnSet(f, {}) \in Nat
      BY SumEmpty
    <3> QED
      BY <2>1, <3>1, FS_Subset
  <2>3. Picked(T) \in T
    BY <2>2, PickedIn
  <2>4. SumFunctionOnSet(f, T \ {Picked(T)}) \in Nat
    BY <2>1, <2>2, <2>3
  <2>5. f[Picked(T)] \in Nat
    BY <2>2, <2>3
  <2>6. SumFunctionOnSet(f, T) = f[Picked(T)] + SumFunctionOnSet(f, T \ {Picked(T)})
    BY <2>2, SumPicked
  <2> QED
    BY <2>1, <2>4, <2>5, <2>6
<1> QED
  BY <1>2

\* The sum depends on the function's values on S alone.
LEMMA SumCongruent ==
  ASSUME NEW f, NEW g, NEW S, IsFiniteSet(S), \A x \in S : f[x] = g[x]
  PROVE  SumFunctionOnSet(f, S) = SumFunctionOnSet(g, S)
<1> DEFINE D == {T \in SUBSET S : SumFunctionOnSet(f, T) # SumFunctionOnSet(g, T)}
<1>1. D \in SUBSET (SUBSET S)
  OBVIOUS
<1>2. ASSUME D # {} PROVE FALSE
  <2>1. PICK T \in D : \A U \in SUBSET T : U # T => U \notin D
    <3> HIDE DEF D
    <3> QED
      BY <1>1, <1>2, MinimalSubset
  <2>2. T # {} /\ T \subseteq S /\ IsFiniteSet(T)
    BY <2>1, SumEmpty, FS_Subset
  <2>3. Picked(T) \in T
    BY <2>2, PickedIn
  <2>4. SumFunctionOnSet(f, T \ {Picked(T)}) = SumFunctionOnSet(g, T \ {Picked(T)})
    BY <2>1, <2>2, <2>3
  <2>5. f[Picked(T)] = g[Picked(T)]
    BY <2>2, <2>3
  <2>6. /\ SumFunctionOnSet(f, T) = f[Picked(T)] + SumFunctionOnSet(f, T \ {Picked(T)})
        /\ SumFunctionOnSet(g, T) = g[Picked(T)] + SumFunctionOnSet(g, T \ {Picked(T)})
    BY <2>2, SumPicked
  <2> QED
    BY <2>1, <2>4, <2>5, <2>6
<1> QED
  BY <1>2

\* Whichever element is taken out.
LEMMA SumRemove ==
  ASSUME NEW f, NEW S, IsFiniteSet(S), \A x \in S : f[x] \in Nat, NEW y \in S
  PROVE  SumFunctionOnSet(f, S) = f[y] + SumFunctionOnSet(f, S \ {y})
<1> DEFINE Off(T, x) == SumFunctionOnSet(f, T) # f[x] + SumFunctionOnSet(f, T \ {x})
           D == {T \in SUBSET S : \E x \in T : Off(T, x)}
<1>1. D \in SUBSET (SUBSET S)
  OBVIOUS
<1>2. ASSUME D # {} PROVE FALSE
  <2>1. PICK T \in D : \A U \in SUBSET T : U # T => U \notin D
    <3> HIDE DEF D
    <3> QED
      BY <1>1, <1>2, MinimalSubset
  <2>2. PICK x \in T : Off(T, x)
    BY <2>1
  <2> DEFINE p == Picked(T)
             V == T \ {p, x}
  <2>3. T \subseteq S /\ IsFiniteSet(T) /\ p \in T
    BY <2>1, FS_Subset, PickedIn
  <2>4. SumFunctionOnSet(f, T) = f[p] + SumFunctionOnSet(f, T \ {p})
    BY <2>3, SumPicked
  <2>5. x # p
    BY <2>2, <2>4
  <2>6. V \subseteq S /\ IsFiniteSet(V) /\ V = (T \ {p}) \ {x} /\ V = (T \ {x}) \ {p}
    BY <2>3, FS_Subset
  <2>7. SumFunctionOnSet(f, T \ {p}) = f[x] + SumFunctionOnSet(f, V)
    <3>1. T \ {p} \notin D /\ x \in T \ {p} /\ T \ {p} \in SUBSET S
      BY <2>1, <2>3, <2>5
    <3> QED
      BY <3>1, <2>6
  <2>8. SumFunctionOnSet(f, T \ {x}) = f[p] + SumFunctionOnSet(f, V)
    <3>1. T \ {x} \notin D /\ p \in T \ {x} /\ T \ {x} \in SUBSET S
      BY <2>1, <2>3, <2>5
    <3> QED
      BY <3>1, <2>6
  <2>9. f[p] \in Nat /\ f[x] \in Nat /\ SumFunctionOnSet(f, V) \in Nat
    BY <2>3, <2>6, SumNat
  <2> HIDE DEF p, V
  <2> QED
    BY <2>2, <2>4, <2>7, <2>8, <2>9
<1> QED
  BY <1>2

LEMMA SumAdd ==
  ASSUME NEW f, NEW S, IsFiniteSet(S), NEW y, y \notin S, \A x \in S \cup {y} : f[x] \in Nat
  PROVE  SumFunctionOnSet(f, S \cup {y}) = f[y] + SumFunctionOnSet(f, S)
<1>1. IsFiniteSet(S \cup {y}) /\ (S \cup {y}) \ {y} = S
  BY FS_AddElement
<1> QED
  BY <1>1, SumRemove

\* A larger set has no smaller sum.
LEMMA SumMonotone ==
  ASSUME NEW f, NEW S, IsFiniteSet(S), \A x \in S : f[x] \in Nat, NEW R \in SUBSET S
  PROVE  SumFunctionOnSet(f, R) <= SumFunctionOnSet(f, S)
<1> DEFINE Off(T, U) == ~(SumFunctionOnSet(f, U) <= SumFunctionOnSet(f, T))
           D == {T \in SUBSET S : \E U \in SUBSET T : Off(T, U)}
<1>1. D \in SUBSET (SUBSET S)
  OBVIOUS
<1>2. ASSUME D # {} PROVE FALSE
  <2>1. PICK T \in D : \A U \in SUBSET T : U # T => U \notin D
    <3> HIDE DEF D
    <3> QED
      BY <1>1, <1>2, MinimalSubset
  <2>2. PICK U \in SUBSET T : Off(T, U)
    BY <2>1
  <2>3. T \subseteq S /\ IsFiniteSet(T) /\ IsFiniteSet(U)
    BY <2>1, FS_Subset
  <2>4. SumFunctionOnSet(f, T) \in Nat /\ SumFunctionOnSet(f, U) \in Nat
    BY <2>3, SumNat
  <2>5. PICK x \in T : x \notin U
    BY <2>2, <2>4
  <2>6. SumFunctionOnSet(f, T) = f[x] + SumFunctionOnSet(f, T \ {x})
    BY <2>3, SumRemove
  <2>7. SumFunctionOnSet(f, U) <= SumFunctionOnSet(f, T \ {x})
    <3>1. T \ {x} \notin D /\ U \in SUBSET (T \ {x}) /\ T \ {x} \in SUBSET S
      BY <2>1, <2>3, <2>5
    <3> QED
      BY <3>1
  <2>8. IsFiniteSet(T \ {x}) /\ T \ {x} \subseteq S
    BY <2>3, FS_Subset
  <2>9. SumFunctionOnSet(f, T \ {x}) \in Nat /\ f[x] \in Nat
    BY <2>3, <2>8, SumNat
  <2> QED
    BY <2>2, <2>4, <2>6, <2>7, <2>9
<1> QED
  BY <1>2
=============================================================================
