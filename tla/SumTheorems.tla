------------------------------ MODULE SumTheorems ------------------------------
(***************************************************************************)
(* Sums over finite sets: that a fold which adds the terms one by one, in  *)
(* an order it chooses itself, computes the one function on the subsets    *)
(* that grows by a term with each element.                                 *)
(***************************************************************************)
EXTENDS Integers, Functions, FiniteSetTheorems, WellFoundedInduction, TLAPS

(* Induction over the subsets of a finite set, in the form of a least       *)
(* counterexample.                                                          *)
LEMMA SmallerSubsets ==
  ASSUME NEW S, IsFiniteSet(S), NEW Q,
         \A T \in SUBSET S : (\A x \in T : T \ {x} \in Q) => T \in Q
  PROVE  SUBSET S \subseteq Q
<1> DEFINE B == (SUBSET S) \ Q
<1> SUFFICES ASSUME B # {} PROVE FALSE
  OBVIOUS
<1>1. IsWellFoundedOn(StrictSubsetOrdering(S), FiniteSubsetsOf(S))
  BY FS_StrictSubsetOrderingWellFounded
<1>2. B \subseteq FiniteSubsetsOf(S)
  BY FS_Subset DEF FiniteSubsetsOf
<1>3. PICK T \in B : \A U \in B : ~(<<U, T>> \in StrictSubsetOrdering(S))
  BY <1>1, <1>2, WFMin
<1>4. ASSUME NEW x \in T PROVE T \ {x} \in Q
  <2>1. <<T \ {x}, T>> \in StrictSubsetOrdering(S)
    BY <1>4 DEF StrictSubsetOrdering
  <2>2. QED
    BY <1>3, <2>1
<1>5. QED
  BY <1>4

LEMMA SubsetInduction ==
  ASSUME NEW S, IsFiniteSet(S), NEW Q, {} \in Q,
         \A T \in SUBSET S, x \in S : T \in Q /\ x \notin T => T \cup {x} \in Q
  PROVE  SUBSET S \subseteq Q
<1>1. ASSUME NEW T \in SUBSET S, \A x \in T : T \ {x} \in Q
      PROVE  T \in Q
  <2>1. CASE T = {}
    BY <2>1
  <2>2. CASE T # {}
    <3>1. PICK x \in T : TRUE
      BY <2>2
    <3>2. (T \ {x}) \cup {x} = T /\ T \ {x} \in SUBSET S /\ x \in S /\ x \notin T \ {x}
      OBVIOUS
    <3>3. T \ {x} \in Q
      BY <1>1
    <3>4. QED
      BY <3>2, <3>3
  <2>3. QED
    BY <2>1, <2>2
<1>2. QED
  BY <1>1, SmallerSubsets

(* A sum over the subsets of S, as a function that adds one element at a    *)
(* time, whichever.                                                         *)
Additive(G, g, S) ==
  /\ G \in [SUBSET S -> Int]
  /\ G[{}] = 0
  /\ \A T \in SUBSET S, x \in S : x \notin T => G[T \cup {x}] = G[T] + g[x]

LEMMA AdditiveExists ==
  ASSUME NEW S, IsFiniteSet(S), NEW g \in [S -> Int]
  PROVE  \E G : Additive(G, g, S)
<1> DEFINE Has(T) == \E G : Additive(G, g, T)
           Q == {T \in SUBSET S : Has(T)}
<1>1. Has({})
  <2>1. Additive([T \in SUBSET {} |-> 0], g, {})
    BY DEF Additive
  <2>2. QED
    BY <2>1
<1>2. ASSUME NEW T \in SUBSET S, NEW x \in S, x \notin T, Has(T)
      PROVE  Has(T \cup {x})
  <2>1. PICK G : Additive(G, g, T)
    BY <1>2
  <2> DEFINE X == T \cup {x}
             H == [s \in SUBSET X |-> IF x \in s THEN G[s \ {x}] + g[x] ELSE G[s]]
  <2>2. \A s \in SUBSET X : s \ {x} \in SUBSET T /\ (x \notin s => s \in SUBSET T)
    OBVIOUS
  <2>3. H \in [SUBSET X -> Int]
    BY <2>1, <2>2 DEF Additive
  <2>4. H[{}] = 0
    BY <2>1 DEF Additive
  <2>5. ASSUME NEW s \in SUBSET X, NEW y \in X, y \notin s
        PROVE  H[s \cup {y}] = H[s] + g[y]
    <3>0. s \cup {y} \in SUBSET X /\ g[x] \in Int
      OBVIOUS
    <3>1. CASE y = x
      <4>1. (s \cup {y}) \ {x} = s /\ s \in SUBSET T
        BY <2>5, <3>1
      <4>2. QED
        BY <2>5, <3>0, <3>1, <4>1
    <3>2. CASE y # x /\ x \in s
      <4>1. (s \cup {y}) \ {x} = (s \ {x}) \cup {y} /\ s \ {x} \in SUBSET T /\ y \in T
            /\ y \notin s \ {x}
        BY <2>5, <3>2
      <4>2. G[(s \ {x}) \cup {y}] = G[s \ {x}] + g[y]
        BY <2>1, <4>1 DEF Additive
      <4>3. G[s \ {x}] \in Int /\ g[y] \in Int
        BY <2>1, <4>1 DEF Additive
      <4>4. H[s \cup {y}] = G[(s \ {x}) \cup {y}] + g[x] /\ H[s] = G[s \ {x}] + g[x]
        BY <3>0, <3>2, <4>1
      <4>5. QED
        BY <3>0, <4>2, <4>3, <4>4
    <3>3. CASE y # x /\ x \notin s
      <4>1. x \notin s \cup {y} /\ s \in SUBSET T /\ y \in T
        BY <2>5, <3>3
      <4>2. G[s \cup {y}] = G[s] + g[y]
        BY <2>1, <2>5, <4>1 DEF Additive
      <4>3. QED
        BY <3>0, <3>3, <4>1, <4>2
    <3>4. QED
      BY <3>1, <3>2, <3>3
  <2> HIDE DEF H
  <2>6. Additive(H, g, X)
    BY <2>3, <2>4, <2>5 DEF Additive
  <2>7. QED
    BY <2>6
<1> HIDE DEF Has
<1>3. {} \in Q
  BY <1>1
<1>4. \A T \in SUBSET S, x \in S : T \in Q /\ x \notin T => T \cup {x} \in Q
  BY <1>2
<1> HIDE DEF Q
<1>5. SUBSET S \subseteq Q
  BY <1>3, <1>4, SubsetInduction
<1>6. QED
  BY <1>5 DEF Q, Has

(* Two sums agree where their terms do.                                     *)
LEMMA AdditiveAgree ==
  ASSUME NEW S, NEW U, NEW T, IsFiniteSet(T), T \subseteq S, T \subseteq U,
         NEW g, NEW h, NEW G, NEW H, Additive(G, g, S), Additive(H, h, U),
         \A x \in T : g[x] = h[x]
  PROVE  G[T] = H[T]
<1> DEFINE Q == {W \in SUBSET T : G[W] = H[W]}
<1>1. {} \in Q
  BY DEF Additive
<1>2. ASSUME NEW W \in SUBSET T, NEW x \in T, W \in Q, x \notin W
      PROVE  W \cup {x} \in Q
  <2>1. W \in SUBSET S /\ x \in S /\ W \in SUBSET U /\ x \in U
    OBVIOUS
  <2>2. G[W \cup {x}] = G[W] + g[x] /\ H[W \cup {x}] = H[W] + h[x]
    BY <1>2, <2>1 DEF Additive
  <2>3. QED
    BY <1>2, <2>2
<1>3. \A W \in SUBSET T, x \in T : W \in Q /\ x \notin W => W \cup {x} \in Q
  BY <1>2
<1> HIDE DEF Q
<1>4. SUBSET T \subseteq Q
  BY <1>1, <1>3, SubsetInduction
<1>5. QED
  BY <1>4 DEF Q

(* A fold picks its elements itself; a function over the subsets that       *)
(* satisfies its recursion is what it computes.                             *)
Pick(s) == CHOOSE x \in s : TRUE

LEMMA PickIs ==
  ASSUME NEW T, T # {}
  PROVE  /\ Pick(T) \in T
         /\ (T \ {Pick(T)}) \cup {Pick(T)} = T
         /\ Pick(T) \notin T \ {Pick(T)}
BY DEF Pick

Picking(iter, g, S) ==
  \A T \in SUBSET S : iter[T] = IF T = {} THEN 0 ELSE g[Pick(T)] + iter[T \ {Pick(T)}]

LEMMA AdditivePicks ==
  ASSUME NEW S, NEW g \in [S -> Int], NEW G, Additive(G, g, S)
  PROVE  Picking(G, g, S)
<1> SUFFICES ASSUME NEW T \in SUBSET S
             PROVE  G[T] = IF T = {} THEN 0 ELSE g[Pick(T)] + G[T \ {Pick(T)}]
  BY DEF Picking
<1>0. G[{}] = 0
  BY DEF Additive
<1> SUFFICES ASSUME T # {} PROVE G[T] = g[Pick(T)] + G[T \ {Pick(T)}]
  BY <1>0
<1> DEFINE x == Pick(T)
           U == T \ {x}
<1>1. x \in S /\ x \notin U /\ U \in SUBSET S /\ U \cup {x} = T
  BY PickIs
<1> HIDE DEF x, U
<1>2. G[U \cup {x}] = G[U] + g[x]
  BY <1>1 DEF Additive
<1>3. G[U] \in Int /\ g[x] \in Int
  BY <1>1 DEF Additive
<1>4. G[T] = G[U] + g[x]
  BY <1>1, <1>2
<1>5. G[T] = g[x] + G[U]
  BY <1>3, <1>4
<1>6. QED
  BY <1>5 DEF x, U

LEMMA PickingIs ==
  ASSUME NEW S, IsFiniteSet(S), NEW g \in [S -> Int], NEW G, Additive(G, g, S),
         NEW iter, Picking(iter, g, S)
  PROVE  iter[S] = G[S]
<1>0. Picking(G, g, S)
  BY AdditivePicks
<1> DEFINE Q == {T \in SUBSET S : iter[T] = G[T]}
<1>1. ASSUME NEW T \in SUBSET S, \A x \in T : T \ {x} \in Q
      PROVE  T \in Q
  <2>1. /\ iter[T] = IF T = {} THEN 0 ELSE g[Pick(T)] + iter[T \ {Pick(T)}]
        /\ G[T] = IF T = {} THEN 0 ELSE g[Pick(T)] + G[T \ {Pick(T)}]
    BY <1>0 DEF Picking
  <2>2. T # {} => iter[T \ {Pick(T)}] = G[T \ {Pick(T)}]
    BY <1>1, PickIs
  <2>3. QED
    BY <2>1, <2>2
<1> HIDE DEF Q
<1>2. SUBSET S \subseteq Q
  BY <1>1, SmallerSubsets
<1>3. QED
  BY <1>2 DEF Q

LEMMA SumIs ==
  ASSUME NEW S, IsFiniteSet(S), NEW g \in [S -> Int], NEW G, Additive(G, g, S)
  PROVE  SumFunction(g) = G[S]
<1> DEFINE Step(R) == [s \in SUBSET S |-> IF s = {} THEN 0 ELSE g[Pick(s)] + R[s \ {Pick(s)}]]
           iter == CHOOSE R : R = Step(R)
<1>1. SumFunction(g) = iter[S]
  BY DEF SumFunction, SumFunctionOnSet, FoldFunctionOnSet, MapThenFoldSet, Pick
<1>2. G = Step(G)
  <2>1. G = [T \in SUBSET S |-> G[T]]
    BY DEF Additive
  <2>2. Picking(G, g, S)
    BY AdditivePicks
  <2>3. QED
    BY <2>1, <2>2 DEF Picking
<1>3. iter = Step(iter)
  BY <1>2
<1> HIDE DEF iter
<1>4. Picking(iter, g, S)
  BY <1>3 DEF Picking
<1>5. iter[S] = G[S]
  BY <1>4, PickingIs
<1>6. QED
  BY <1>1, <1>5

-----------------------------------------------------------------------------
LEMMA SumType ==
  ASSUME NEW S, IsFiniteSet(S), NEW g \in [S -> Int]
  PROVE  SumFunction(g) \in Int
<1>1. PICK G : Additive(G, g, S)
  BY AdditiveExists
<1>2. SumFunction(g) = G[S]
  BY <1>1, SumIs
<1>3. QED
  BY <1>1, <1>2 DEF Additive

LEMMA SumEmpty ==
  ASSUME NEW g \in [{} -> Int]
  PROVE  SumFunction(g) = 0
<1>1. PICK G : Additive(G, g, {})
  BY AdditiveExists, FS_EmptySet
<1>2. SumFunction(g) = G[{}]
  BY <1>1, SumIs, FS_EmptySet
<1>3. QED
  BY <1>1, <1>2 DEF Additive

LEMMA SumZeros ==
  ASSUME NEW S, IsFiniteSet(S)
  PROVE  SumFunction([x \in S |-> 0]) = 0
<1> DEFINE g == [x \in S |-> 0]
           G == [T \in SUBSET S |-> 0]
<1>1. Additive(G, g, S)
  BY DEF Additive
<1>2. g \in [S -> Int]
  OBVIOUS
<1>3. SumFunction(g) = G[S]
  BY <1>1, <1>2, SumIs
<1>4. QED
  BY <1>3

(* One more term, whichever way the other terms are written.                *)
OneMore(S, x, g, h) ==
  /\ IsFiniteSet(S) /\ x \notin S
  /\ g \in [S -> Int] /\ h \in [S \cup {x} -> Int]
  /\ \A y \in S : h[y] = g[y]

LEMMA SumOneMore ==
  ASSUME NEW S, NEW x, NEW g, NEW h, OneMore(S, x, g, h)
  PROVE  SumFunction(h) = SumFunction(g) + h[x]
<1> USE DEF OneMore
<1>1. IsFiniteSet(S \cup {x})
  BY FS_AddElement
<1>2. PICK G : Additive(G, g, S)
  BY AdditiveExists
<1>3. PICK H : Additive(H, h, S \cup {x})
  BY <1>1, AdditiveExists
<1>4. SumFunction(g) = G[S] /\ SumFunction(h) = H[S \cup {x}]
  BY <1>1, <1>2, <1>3, SumIs
<1>5. H[S \cup {x}] = H[S] + h[x]
  BY <1>3 DEF Additive
<1>6. S \subseteq S \cup {x} /\ S \subseteq S
  OBVIOUS
<1>7. G[S] = H[S]
  BY <1>2, <1>3, <1>6, AdditiveAgree
<1>8. QED
  BY <1>4, <1>5, <1>7

(* One term changed.                                                        *)
OneChanged(S, x, d, g, h) ==
  /\ IsFiniteSet(S) /\ x \in S /\ d \in Int
  /\ g \in [S -> Int] /\ h \in [S -> Int]
  /\ h[x] = g[x] + d /\ \A y \in S : y # x => h[y] = g[y]

LEMMA SumOneChanged ==
  ASSUME NEW S, NEW x, NEW d, NEW g, NEW h, OneChanged(S, x, d, g, h)
  PROVE  SumFunction(h) = SumFunction(g) + d
<1> USE DEF OneChanged
<1> DEFINE T == S \ {x}
           f == [y \in T |-> g[y]]
<1>1. IsFiniteSet(T) /\ x \notin T /\ T \cup {x} = S
  BY FS_RemoveElement
<1>2. f \in [T -> Int] /\ (\A y \in T : g[y] = f[y]) /\ (\A y \in T : h[y] = f[y])
  OBVIOUS
<1> HIDE DEF T, f
<1>3. g \in [T \cup {x} -> Int] /\ h \in [T \cup {x} -> Int]
  BY <1>1
<1>4. OneMore(T, x, f, g) /\ OneMore(T, x, f, h)
  BY <1>1, <1>2, <1>3 DEF OneMore
<1>5. SumFunction(g) = SumFunction(f) + g[x] /\ SumFunction(h) = SumFunction(f) + h[x]
  BY <1>4, SumOneMore
<1>6. SumFunction(f) \in Int /\ g[x] \in Int
  BY <1>1, <1>2, SumType
<1>7. QED
  BY <1>4, <1>5, <1>6

(* The sum of differences.                                                  *)
LEMMA SumMinus ==
  ASSUME NEW S, IsFiniteSet(S), NEW f \in [S -> Int], NEW g \in [S -> Int]
  PROVE  SumFunction([x \in S |-> f[x] - g[x]]) = SumFunction(f) - SumFunction(g)
<1>1. PICK F : Additive(F, f, S)
  BY AdditiveExists
<1>2. PICK G : Additive(G, g, S)
  BY AdditiveExists
<1> DEFINE h == [x \in S |-> f[x] - g[x]]
           H == [T \in SUBSET S |-> F[T] - G[T]]
<1>3. Additive(H, h, S)
  <2>1. H \in [SUBSET S -> Int] /\ H[{}] = 0
    BY <1>1, <1>2 DEF Additive
  <2>2. ASSUME NEW T \in SUBSET S, NEW x \in S, x \notin T
        PROVE  H[T \cup {x}] = H[T] + h[x]
    <3>1. F[T \cup {x}] = F[T] + f[x] /\ G[T \cup {x}] = G[T] + g[x]
      BY <1>1, <1>2, <2>2 DEF Additive
    <3>2. F[T] \in Int /\ G[T] \in Int /\ f[x] \in Int /\ g[x] \in Int
      BY <1>1, <1>2 DEF Additive
    <3>3. QED
      BY <3>1, <3>2
  <2> HIDE DEF H, h
  <2>3. QED
    BY <2>1, <2>2 DEF Additive
<1>4. h \in [S -> Int]
  OBVIOUS
<1>5. SumFunction(h) = H[S]
  BY <1>3, <1>4, SumIs
<1>6. SumFunction(f) = F[S] /\ SumFunction(g) = G[S]
  BY <1>1, <1>2, SumIs
<1>7. QED
  BY <1>5, <1>6
=============================================================================
