------------------------- MODULE LiveKitRecorderProofs -------------------------
(***************************************************************************)
(* Proofs about the recorder of a LiveKit call, for any speeches, streams, *)
(* frames, turns and inputs.                                               *)
(***************************************************************************)
EXTENDS LiveKitRecorder, FiniteSetTheorems, WellFoundedInduction, TLAPS

-------------------------------------------------------------------------------
(* Sums *)

\* Among finite sets one has no other below it.
LEMMA Minimal ==
  ASSUME NEW W, IsFiniteSet(W), NEW D \in SUBSET SUBSET W, D # {}
  PROVE  \E T \in D : \A U \in D : ~(U \subseteq T /\ U # T)
<1>1. D \subseteq FiniteSubsetsOf(W)
  BY FS_Subset DEF FiniteSubsetsOf
<1>2. PICK T \in D : \A U \in D : <<U, T>> \notin StrictSubsetOrdering(W)
  BY <1>1, FS_StrictSubsetOrderingWellFounded, WFMin
<1>3. QED BY <1>2 DEF StrictSubsetOrdering

First(T) == CHOOSE x \in T : TRUE

UpTo(W, U) == {T \in SUBSET W : Cardinality(T) <= Cardinality(U)}

\* The sums of a over the sets in D.
Adds(f, a, D) == f = [T \in D |-> IF T = {} THEN 0 ELSE a[First(T)] + f[T \ {First(T)}]]

LEMMA AddsExist ==
  ASSUME NEW W, IsFiniteSet(W), NEW a
  PROVE  \E f : Adds(f, a, SUBSET W)
<1>1. \A T \in SUBSET W : IsFiniteSet(T) /\ Cardinality(T) \in Nat
  BY FS_Subset, FS_CardinalityType
<1>2. ASSUME NEW T \in SUBSET W, NEW x \in T
      PROVE  Cardinality(T \ {x}) = Cardinality(T) - 1
  BY <1>1, FS_RemoveElement
<1>3. \A U \in SUBSET W : \E f : Adds(f, a, UpTo(W, U))
  <2> DEFINE D == {U \in SUBSET W : ~ \E f : Adds(f, a, UpTo(W, U))}
  <2> SUFFICES ASSUME D # {} PROVE FALSE
    OBVIOUS
  <2>1. PICK U \in D : \A V \in D : ~(V \subseteq U /\ V # U)
    <3>1. D \in SUBSET SUBSET W
      OBVIOUS
    <3> HIDE DEF D
    <3>2. QED BY <3>1, Minimal
  <2>2. U \in SUBSET W /\ ~ \E f : Adds(f, a, UpTo(W, U))
    OBVIOUS
  <2>3. CASE U = {}
    <3>1. UpTo(W, U) = {{}}
      BY <1>1, <2>3, FS_EmptySet DEF UpTo
    <3>2. PICK f : f = [T \in {{}} |-> 0]
      OBVIOUS
    <3>3. f = [T \in {{}} |-> IF T = {} THEN 0 ELSE a[First(T)] + f[T \ {First(T)}]]
      BY <3>2
    <3>4. Adds(f, a, UpTo(W, U))
      BY <3>1, <3>3 DEF Adds
    <3>5. QED BY <2>2, <3>4
  <2>4. CASE U # {}
    <3>1. PICK x : x \in U
      BY <2>4
    <3>2. PICK V : V = U \ {x}
      OBVIOUS
    <3>3. V \in SUBSET W /\ V \subseteq U /\ V # U /\ Cardinality(V) = Cardinality(U) - 1
      BY <1>2, <2>2, <3>1, <3>2
    <3>4. PICK f : Adds(f, a, UpTo(W, V))
      BY <2>1, <3>3
    <3>5. PICK g : g = [T \in UpTo(W, U) |-> IF T = {} THEN 0
                                             ELSE a[First(T)] + f[T \ {First(T)}]]
      OBVIOUS
    <3>6. UpTo(W, V) \subseteq UpTo(W, U)
      BY <1>1, <2>2, <3>3 DEF UpTo
    <3>7. ASSUME NEW T \in UpTo(W, V) PROVE g[T] = f[T]
      BY <3>4, <3>5, <3>6, <3>7 DEF Adds
    <3>8. ASSUME NEW T \in UpTo(W, U), T # {}
          PROVE  T \ {First(T)} \in UpTo(W, V)
      <4>1. PICK y : y = First(T)
        OBVIOUS
      <4>2. y \in T /\ T \in SUBSET W /\ Cardinality(T) <= Cardinality(U)
        BY <3>8, <4>1 DEF UpTo, First
      <4>3. T \ {y} \in SUBSET W /\ Cardinality(T \ {y}) = Cardinality(T) - 1
        BY <1>2, <4>2
      <4>4. Cardinality(T \ {y}) <= Cardinality(V)
        BY <1>1, <2>2, <3>3, <4>2, <4>3
      <4>5. QED BY <4>1, <4>3, <4>4 DEF UpTo
    <3>9. g = [T \in UpTo(W, U) |-> IF T = {} THEN 0
                                    ELSE a[First(T)] + g[T \ {First(T)}]]
      BY <3>5, <3>7, <3>8
    <3>10. QED BY <2>2, <3>9 DEF Adds
  <2>5. QED BY <2>3, <2>4
<1>4. UpTo(W, W) = SUBSET W
  BY <1>1, FS_Subset DEF UpTo
<1>5. \E f : Adds(f, a, UpTo(W, W))
  <2>1. W \in SUBSET W
    OBVIOUS
  <2>2. QED BY ONLY <1>3, <2>1
<1>6. QED BY <1>4, <1>5

\* In whatever order they are added.
Summed(f, a, W) ==
  /\ f[{}] = 0
  /\ \A T \in SUBSET W : f[T] \in Nat /\ \A x \in T : f[T] = a[x] + f[T \ {x}]

LEMMA AddsAny ==
  ASSUME NEW W, IsFiniteSet(W), NEW a, \A x \in W : a[x] \in Nat,
         NEW f, Adds(f, a, SUBSET W)
  PROVE  Summed(f, a, W)
<1>1. f[{}] = 0
  BY DEF Adds
<1>2. ASSUME NEW T \in SUBSET W, T # {}
      PROVE  First(T) \in T /\ f[T] = a[First(T)] + f[T \ {First(T)}]
  BY <1>2 DEF Adds, First
<1> DEFINE Good(T) == f[T] \in Nat /\ \A x \in T : f[T] = a[x] + f[T \ {x}]
           D == {T \in SUBSET W : ~Good(T)}
<1>3. SUFFICES ASSUME D # {} PROVE FALSE
  BY <1>1 DEF Summed
<1>4. PICK T \in D : \A V \in D : ~(V \subseteq T /\ V # T)
  <2>1. D \in SUBSET SUBSET W
    OBVIOUS
  <2> HIDE DEF D
  <2>2. QED BY <1>3, <2>1, Minimal
<1>5. T \in SUBSET W /\ ~Good(T)
  OBVIOUS
<1>6. T # {}
  <2>1. SUFFICES ASSUME T = {} PROVE FALSE
    OBVIOUS
  <2>2. f[T] \in Nat /\ \A x \in T : FALSE
    BY <1>1, <2>1
  <2>3. QED BY <1>5, <2>2
<1>7. PICK y : y = First(T)
  OBVIOUS
<1>8. y \in T /\ f[T] = a[y] + f[T \ {y}]
  BY <1>2, <1>5, <1>6, <1>7
<1>9. ASSUME NEW x \in T
      PROVE  Good(T \ {x})
  <2>1. PICK V : V = T \ {x}
    OBVIOUS
  <2>2. V \in SUBSET W /\ V \subseteq T /\ V # T
    BY <1>5, <2>1
  <2>3. QED BY <1>4, <2>1, <2>2
<1>10. f[T \ {y}] \in Nat /\ a[y] \in Nat
  BY <1>5, <1>8, <1>9
<1>11. f[T] \in Nat
  BY <1>8, <1>10
<1>12. ASSUME NEW x \in T, x # y
       PROVE  f[T] = a[x] + f[T \ {x}]
  <2>1. PICK U : U = (T \ {y}) \ {x} /\ U = (T \ {x}) \ {y}
    OBVIOUS
  <2>2. f[T \ {y}] = a[x] + f[U]
    BY <1>8, <1>9, <1>12, <2>1, ZenonT(60)
  <2>3. f[T \ {x}] = a[y] + f[U]
    BY <1>8, <1>9, <1>12, <2>1
  <2>4. f[U] \in Nat
    <3>1. U \in SUBSET W /\ U \subseteq T /\ U # T
      BY <1>5, <1>8, <2>1
    <3>2. QED BY <1>4, <3>1
  <2>5. a[x] \in Nat /\ a[y] \in Nat
    BY <1>5, <1>8, <1>12
  <2>6. QED BY <1>8, <2>2, <2>3, <2>4, <2>5
<1>13. QED BY <1>5, <1>8, <1>11, <1>12

\* What there is more, element for element and at t, there is more in the sum.
MoreAt(a, V, b, W, t, k) ==
  \A x \in W : b[x] = (IF x \in V THEN a[x] ELSE 0) + (IF x = t THEN k ELSE 0)

SumsMore(f, V, g, W, t, k) ==
  \A T \in SUBSET W : g[T] = f[T \cap V] + (IF t \in T THEN k ELSE 0)

LEMMA AddsMore ==
  ASSUME NEW W, IsFiniteSet(W), NEW V \in SUBSET W,
         NEW a, \A x \in V : a[x] \in Nat, NEW b, \A x \in W : b[x] \in Nat,
         NEW t, NEW k \in Nat, MoreAt(a, V, b, W, t, k),
         NEW f, Adds(f, a, SUBSET V), NEW g, Adds(g, b, SUBSET W)
  PROVE  SumsMore(f, V, g, W, t, k)
<1>1. IsFiniteSet(V)
  BY FS_Subset
<1>2. Summed(f, a, V)
  <2>1. (\A x \in V : a[x] \in Nat) /\ Adds(f, a, SUBSET V)
    OBVIOUS
  <2>2. QED BY ONLY <1>1, <2>1, AddsAny
<1>3. Summed(g, b, W)
  <2>1. IsFiniteSet(W) /\ (\A x \in W : b[x] \in Nat) /\ Adds(g, b, SUBSET W)
    OBVIOUS
  <2>2. QED BY ONLY <2>1, AddsAny
<1> DEFINE Good(T) == g[T] = f[T \cap V] + (IF t \in T THEN k ELSE 0)
           D == {T \in SUBSET W : ~Good(T)}
<1>4. SUFFICES ASSUME D # {} PROVE FALSE
  BY DEF SumsMore
<1>5. PICK T \in D : \A U \in D : ~(U \subseteq T /\ U # T)
  <2>1. D \in SUBSET SUBSET W
    OBVIOUS
  <2> HIDE DEF D
  <2>2. QED BY <1>4, <2>1, Minimal
<1>6. T \in SUBSET W /\ ~Good(T)
  OBVIOUS
<1>7. CASE T = {}
  <2>1. T \cap V = {}
    BY <1>7
  <2>2. QED BY <1>2, <1>3, <1>6, <1>7, <2>1 DEF Summed
<1>8. CASE T # {}
  <2>1. PICK x : x \in T
    BY <1>8
  <2>2. PICK U : U = T \ {x}
    OBVIOUS
  <2>3. U \in SUBSET W /\ U \subseteq T /\ U # T
    BY <1>6, <2>1, <2>2
  <2>4. Good(U)
    BY <1>5, <2>3
  <2>5. g[T] = b[x] + g[U] /\ b[x] \in Nat /\ g[U] \in Nat
    BY <1>3, <1>6, <2>1, <2>2, <2>3 DEF Summed
  <2>6. PICK P, Q : P = T \cap V /\ Q = U \cap V
    OBVIOUS
  <2>7. f[P] = (IF x \in V THEN a[x] ELSE 0) + f[Q] /\ f[P] \in Nat /\ f[Q] \in Nat
    <3>1. P \in SUBSET V /\ Q \in SUBSET V
      BY <2>6
    <3>2. CASE x \in V
      <4>1. x \in P /\ Q = P \ {x}
        BY <2>1, <2>2, <2>6, <3>2
      <4>2. QED BY <1>2, <3>1, <3>2, <4>1 DEF Summed
    <3>3. CASE x \notin V
      <4>1. Q = P
        BY <2>1, <2>2, <2>6, <3>3
      <4>2. QED BY <1>2, <3>1, <3>3, <4>1 DEF Summed
    <3>4. QED BY <3>2, <3>3
  <2>8. x \in V => a[x] \in Nat
    OBVIOUS
  <2>9. b[x] = (IF x \in V THEN a[x] ELSE 0) + (IF x = t THEN k ELSE 0)
    BY <1>6, <2>1 DEF MoreAt
  <2>10. g[U] = f[Q] + (IF t \in U THEN k ELSE 0)
    BY <2>4, <2>6
  <2>11. g[T] = f[P] + (IF t \in T THEN k ELSE 0)
    <3>1. CASE x = t
      <4>1. t \in T /\ t \notin U
        BY <2>1, <2>2, <3>1
      <4>2. QED BY <2>5, <2>7, <2>8, <2>9, <2>10, <3>1, <4>1
    <3>2. CASE x # t
      <4>1. t \in T <=> t \in U
        BY <2>2, <3>2
      <4>2. QED BY <2>5, <2>7, <2>8, <2>9, <2>10, <3>2, <4>1
    <3>3. QED BY <3>1, <3>2
  <2>12. QED BY <1>6, <2>6, <2>11
<1>9. QED BY <1>7, <1>8


LEMMA SumAdds ==
  ASSUME NEW W, IsFiniteSet(W), NEW a
  PROVE  \E f : Adds(f, a, SUBSET W) /\ SumFunctionOnSet(a, W) = f[W]
<1>1. SumFunctionOnSet(a, W) = MapThenFoldSet(LAMBDA x, y : x + y, 0, LAMBDA t : a[t], First, W)
  BY DEF SumFunctionOnSet, FoldFunctionOnSet, MapThenFoldSet, First
<1>2. \E f : f = [T \in SUBSET W |-> IF T = {} THEN 0 ELSE a[First(T)] + f[T \ {First(T)}]]
  <2>1. PICK f : Adds(f, a, SUBSET W)
    BY AddsExist
  <2>2. QED BY <2>1 DEF Adds
<1>3. \E f : /\ f = [T \in SUBSET W |-> IF T = {} THEN 0 ELSE a[First(T)] + f[T \ {First(T)}]]
             /\ f[W] = MapThenFoldSet(LAMBDA x, y : x + y, 0, LAMBDA t : a[t], First, W)
  BY <1>2, Zenon DEF MapThenFoldSet
<1>4. QED BY <1>1, <1>3 DEF Adds

\* What a sum is made of: nothing, or one more.
LEMMA SumGrows ==
  ASSUME NEW W, IsFiniteSet(W), NEW V \in SUBSET W,
         NEW a, \A x \in V : a[x] \in Nat, NEW b, \A x \in W : b[x] \in Nat,
         NEW t, NEW k \in Nat, MoreAt(a, V, b, W, t, k)
  PROVE  SumFunctionOnSet(b, W) = SumFunctionOnSet(a, V) + (IF t \in W THEN k ELSE 0)
<1>1. IsFiniteSet(V) /\ W \cap V = V
  BY FS_Subset
<1>2. PICK f : Adds(f, a, SUBSET V) /\ SumFunctionOnSet(a, V) = f[V]
  BY <1>1, SumAdds
<1>3. PICK g : Adds(g, b, SUBSET W) /\ SumFunctionOnSet(b, W) = g[W]
  BY SumAdds
<1>4. (\A x \in V : a[x] \in Nat) /\ (\A x \in W : b[x] \in Nat)
  OBVIOUS
<1>5. SumsMore(f, V, g, W, t, k)
  BY ONLY <1>2, <1>3, <1>4, AddsMore, IsFiniteSet(W), V \in SUBSET W, k \in Nat,
          MoreAt(a, V, b, W, t, k)
<1>6. g[W] = f[W \cap V] + (IF t \in W THEN k ELSE 0)
  BY <1>5 DEF SumsMore
<1>7. QED BY <1>1, <1>2, <1>3, <1>6

LEMMA SumFacts ==
  ASSUME NEW W, IsFiniteSet(W), NEW a, \A x \in W : a[x] \in Nat
  PROVE  /\ SumFunctionOnSet(a, W) \in Nat /\ SumFunctionOnSet(a, {}) = 0
         /\ \A x \in W : SumFunctionOnSet(a, W) = a[x] + SumFunctionOnSet(a, W \ {x})
<1>1. SumFunctionOnSet(a, W) \in Nat
  <2>1. PICK f : Adds(f, a, SUBSET W) /\ SumFunctionOnSet(a, W) = f[W]
    BY SumAdds
  <2>2. Summed(f, a, W)
    BY <2>1, AddsAny
  <2>3. QED BY <2>1, <2>2 DEF Summed
<1>2. SumFunctionOnSet(a, {}) = 0
  <2>1. PICK f : Adds(f, a, SUBSET {}) /\ SumFunctionOnSet(a, {}) = f[{}]
    BY SumAdds, FS_EmptySet
  <2>2. QED BY <2>1 DEF Adds
<1>3. ASSUME NEW x \in W PROVE SumFunctionOnSet(a, W) = a[x] + SumFunctionOnSet(a, W \ {x})
  <2>1. PICK V : V = W \ {x}
    OBVIOUS
  <2>2. V \in SUBSET W /\ IsFiniteSet(V) /\ (\A y \in V : a[y] \in Nat) /\ a[x] \in Nat
    BY <2>1, FS_Subset
  <2>3. MoreAt(a, V, a, W, x, a[x])
    BY <2>1 DEF MoreAt
  <2>4. SumFunctionOnSet(a, W) = SumFunctionOnSet(a, V) + (IF x \in W THEN a[x] ELSE 0)
    BY <2>2, <2>3, SumGrows
  <2>5. SumFunctionOnSet(a, V) \in Nat
    <3>1. PICK f : Adds(f, a, SUBSET V) /\ SumFunctionOnSet(a, V) = f[V]
      BY <2>2, SumAdds
    <3>2. Summed(f, a, V)
      BY <2>2, <3>1, AddsAny
    <3>3. QED BY <3>1, <3>2 DEF Summed
  <2>6. QED BY <2>1, <2>2, <2>4, <2>5
<1>4. QED BY <1>1, <1>2, <1>3

\* The sum over a part is no more than over the whole, and as much only when the rest is
\* nothing.
LEMMA SumOfAPart ==
  ASSUME NEW W, IsFiniteSet(W), NEW V \in SUBSET W, NEW a, \A x \in W : a[x] \in Nat
  PROVE  /\ SumFunctionOnSet(a, V) <= SumFunctionOnSet(a, W)
         /\ SumFunctionOnSet(a, V) < SumFunctionOnSet(a, W) <=> \E x \in W \ V : a[x] > 0
<1> DEFINE Good(T) ==
      /\ SumFunctionOnSet(a, T \cap V) <= SumFunctionOnSet(a, T)
      /\ SumFunctionOnSet(a, T \cap V) < SumFunctionOnSet(a, T) <=> \E x \in T \ V : a[x] > 0
    D == {T \in SUBSET W : ~Good(T)}
<1>1. SUFFICES ASSUME D # {} PROVE FALSE
  <2>1. Good(W) /\ W \cap V = V
    BY <1>1
  <2>2. QED BY <2>1
<1>2. PICK T \in D : \A U \in D : ~(U \subseteq T /\ U # T)
  <2>1. D \in SUBSET SUBSET W
    OBVIOUS
  <2> HIDE DEF D
  <2>2. QED BY <1>1, <2>1, Minimal
<1>3. T \in SUBSET W /\ ~Good(T)
  OBVIOUS
<1>4. ASSUME NEW U \in SUBSET W
      PROVE  /\ SumFunctionOnSet(a, U) \in Nat
             /\ \A x \in U : SumFunctionOnSet(a, U) = a[x] + SumFunctionOnSet(a, U \ {x})
  <2>1. IsFiniteSet(U) /\ (\A x \in U : a[x] \in Nat)
    BY FS_Subset
  <2>2. QED BY <2>1, SumFacts
<1>5. CASE T = {}
  <2>1. T \cap V = T
    BY <1>5
  <2>2. QED BY <1>3, <1>4, <1>5, <2>1
<1>6. CASE T # {}
  <2>1. PICK x \in T : TRUE
    BY <1>6
  <2>2. PICK U, P, Q : U = T \ {x} /\ P = T \cap V /\ Q = U \cap V
    OBVIOUS
  <2>3. Good(U)
    <3>1. U \in SUBSET W /\ U \subseteq T /\ U # T
      BY <1>3, <2>2
    <3>2. QED BY <1>2, <3>1
  <2>4. U \in SUBSET W /\ P \in SUBSET W /\ Q \in SUBSET W /\ a[x] \in Nat
    BY <1>3, <2>2
  <2>5. SumFunctionOnSet(a, T) = a[x] + SumFunctionOnSet(a, U)
    BY <1>3, <1>4, <2>2
  <2>6. /\ SumFunctionOnSet(a, U) \in Nat /\ SumFunctionOnSet(a, P) \in Nat
        /\ SumFunctionOnSet(a, Q) \in Nat
    BY <1>4, <2>4
  <2>7. /\ SumFunctionOnSet(a, Q) <= SumFunctionOnSet(a, U)
        /\ SumFunctionOnSet(a, Q) < SumFunctionOnSet(a, U) <=> \E y \in U \ V : a[y] > 0
    BY <2>2, <2>3
  <2>8. CASE x \in V
    <3>1. Q = P \ {x} /\ x \in P /\ T \ V = U \ V
      BY <2>1, <2>2, <2>8
    <3>2. SumFunctionOnSet(a, P) = a[x] + SumFunctionOnSet(a, Q)
      BY <1>4, <2>4, <3>1
    <3>3. Good(T)
      BY <2>2, <2>4, <2>5, <2>6, <2>7, <3>1, <3>2
    <3>4. QED BY <1>3, <3>3
  <2>9. CASE x \notin V
    <3>1. Q = P /\ T \ V = (U \ V) \cup {x}
      BY <2>1, <2>2, <2>9
    <3>2. (\E y \in T \ V : a[y] > 0) <=> (a[x] > 0 \/ \E y \in U \ V : a[y] > 0)
      BY <3>1
    <3>3. Good(T)
      <4> HIDE DEF D
      <4>1. QED BY <2>2, <2>4, <2>5, <2>6, <2>7, <3>1, <3>2
    <3>4. QED BY <1>3, <3>3
  <2>10. QED BY <2>8, <2>9
<1>7. QED BY <1>5, <1>6

\* Three parts of each are no more, all together, than the whole.
Within(a, b, c, d, W) ==
  \A x \in W : /\ a[x] \in Nat /\ b[x] \in Nat /\ c[x] \in Nat /\ d[x] \in Nat
               /\ a[x] + b[x] + c[x] <= d[x]

LEMMA SumsWithin ==
  ASSUME NEW W, IsFiniteSet(W), NEW a, NEW b, NEW c, NEW d, Within(a, b, c, d, W)
  PROVE  SumFunctionOnSet(a, W) + SumFunctionOnSet(b, W) + SumFunctionOnSet(c, W)
           <= SumFunctionOnSet(d, W)
<1> DEFINE Good(T) ==
      SumFunctionOnSet(a, T) + SumFunctionOnSet(b, T) + SumFunctionOnSet(c, T)
        <= SumFunctionOnSet(d, T)
    D == {T \in SUBSET W : ~Good(T)}
<1>1. SUFFICES ASSUME D # {} PROVE FALSE
  OBVIOUS
<1>2. PICK T \in D : \A U \in D : ~(U \subseteq T /\ U # T)
  <2>1. D \in SUBSET SUBSET W
    OBVIOUS
  <2> HIDE DEF D
  <2>2. QED BY <1>1, <2>1, Minimal
<1>3. T \in SUBSET W /\ ~Good(T)
  OBVIOUS
<1>4. ASSUME NEW f \in {a, b, c, d}, NEW U \in SUBSET W
      PROVE  /\ SumFunctionOnSet(f, U) \in Nat /\ SumFunctionOnSet(f, {}) = 0
             /\ \A x \in U : SumFunctionOnSet(f, U) = f[x] + SumFunctionOnSet(f, U \ {x})
  <2>1. IsFiniteSet(U) /\ (\A x \in U : f[x] \in Nat)
    BY FS_Subset DEF Within
  <2>2. QED BY <2>1, SumFacts
<1>5. CASE T = {}
  <2>1. \A f \in {a, b, c, d} : SumFunctionOnSet(f, T) = 0
    BY <1>4, <1>5
  <2>2. QED BY <1>3, <2>1
<1>6. CASE T # {}
  <2>1. PICK x \in T : TRUE
    BY <1>6
  <2>2. PICK U : U = T \ {x}
    OBVIOUS
  <2>3. U \in SUBSET W /\ Good(U)
    <3>1. U \in SUBSET W /\ U \subseteq T /\ U # T
      BY <1>3, <2>2
    <3>2. QED BY <1>2, <3>1
  <2>4. \A f \in {a, b, c, d} : /\ SumFunctionOnSet(f, U) \in Nat
                                /\ SumFunctionOnSet(f, T) = f[x] + SumFunctionOnSet(f, U)
    BY <1>3, <1>4, <2>2, <2>3
  <2>5. /\ a[x] \in Nat /\ b[x] \in Nat /\ c[x] \in Nat /\ d[x] \in Nat
        /\ a[x] + b[x] + c[x] <= d[x]
    BY <1>3 DEF Within
  <2>6. Good(T)
    <3>1. /\ SumFunctionOnSet(a, T) = a[x] + SumFunctionOnSet(a, U)
          /\ SumFunctionOnSet(b, T) = b[x] + SumFunctionOnSet(b, U)
          /\ SumFunctionOnSet(c, T) = c[x] + SumFunctionOnSet(c, U)
          /\ SumFunctionOnSet(d, T) = d[x] + SumFunctionOnSet(d, U)
          /\ SumFunctionOnSet(a, U) \in Nat /\ SumFunctionOnSet(b, U) \in Nat
          /\ SumFunctionOnSet(c, U) \in Nat /\ SumFunctionOnSet(d, U) \in Nat
      BY <2>4
    <3>2. QED BY <2>3, <2>5, <3>1
  <2>7. QED BY <1>3, <2>6
<1>7. QED BY <1>5, <1>6

-------------------------------------------------------------------------------
(* What a recorder is *)

TurnRec ==
  [stt : Span, words : Nat, wordsOut : Nat, llm : BOOLEAN,
   tts : Span, audio : Nat, unscoped : Nat, played : Nat, unscopedThen : Nat,
   snapshot : BOOLEAN, open : Nat, source : Sources \cup {"none"},
   handle : Speech \cup {NoSpeech}, toolOwed : BOOLEAN, committed : BOOLEAN,
   complete : BOOLEAN, awaitClose : BOOLEAN, awaitItem : BOOLEAN,
   finished : BOOLEAN, finishedAt : Nat]

StreamRec == [status : {"unused", "open", "closed"}, sid : Speech \cup {NoSpeech},
              owner : Nat, held : Nat]

RecorderRec ==
  [turns : Seq(TurnRec), turnOf : [Speech -> Nat], streams : [Stream -> StreamRec],
   contested : [Speech -> [carry : Nat, owed : {"no", "owed", "expired"}]],
   pending : Nat, collecting : Nat, preemptive : Nat, current : Nat, speaking : Nat,
   retired : Nat, utterance : {"silent", "started", "partial"}, inferred : BOOLEAN]

\* Whatever names a turn names one there is.
Places(r) ==
  LET Turns == 0..Len(r.turns)
  IN  /\ {r.pending, r.collecting, r.preemptive, r.current, r.speaking, r.retired} \subseteq Turns
      /\ \A s \in Speech : r.turnOf[s] \in Turns /\ r.contested[s].carry \in Turns
      /\ \A st \in Stream : r.streams[st].owner \in Turns

Known(r) == r \in RecorderRec /\ Places(r)

\* A stream that named its speech is on the turn of that speech or on none.
Identified(r) ==
  \A st \in Stream :
    /\ r.streams[st].status = "unused" =>
         r.streams[st].sid = NoSpeech /\ r.streams[st].owner = NoTurn
    /\ r.streams[st].sid # NoSpeech /\ r.streams[st].owner # NoTurn =>
         r.streams[st].owner = r.turnOf[r.streams[st].sid]

OpenOn(r, t) == {st \in Stream : r.streams[st].owner = t /\ r.streams[st].status = "open"}

\* A turn counts its streams, and waits only while it has one.
Counted(r) ==
  \A t \in 1..Len(r.turns) :
    /\ r.turns[t].open = Cardinality(OpenOn(r, t))
    /\ r.turns[t].awaitClose /\ ~r.turns[t].finished => r.turns[t].open > 0

\* A span that has ended holds the words of its turn; a turn without one has none, and
\* so has the turn whose words are still to come.
Worded(r) ==
  /\ \A t \in 1..Len(r.turns) :
       /\ r.turns[t].stt = "ended" => r.turns[t].wordsOut = r.turns[t].words
       /\ r.turns[t].stt = "none" => r.turns[t].words = 0 /\ r.turns[t].wordsOut = 0
  /\ r.preemptive # NoTurn => r.turns[r.preemptive].stt = "none"

\* A reply that was put off has no turn yet, and one to fall back on.
PutOff(r) ==
  \A s \in Speech : r.contested[s] # Uncontested =>
    r.turnOf[s] = NoTurn /\ r.contested[s].carry # NoTurn

Sound(r) == Known(r) /\ Identified(r) /\ Counted(r) /\ Worded(r) /\ PutOff(r)

\* A turn that was given a reply keeps one, and the answer to a user is not taken for
\* a filler any more.
Attributed(r) ==
  \A s \in Speech :
    LET turn == r.turns[r.turnOf[s]]
    IN  source[s] # "none" /\ r.turnOf[s] # NoTurn =>
          turn.source # "none" /\ (source[s] = "generate_reply" => turn.source = "generate_reply")

\* What has been announced is put off or has its turn, and its streams with it.
Answered(r, s) ==
  /\ r.turnOf[s] # NoTurn /\ r.contested[s] = Uncontested
  /\ \A st \in Stream : r.streams[st].sid = s => r.streams[st].owner # NoTurn

Settled(r) ==
  \A s \in Speech :
    /\ r.contested[s] # Uncontested => source[s] = "generate_reply"
    /\ source[s] # "none" => r.contested[s] # Uncontested \/ Answered(r, s)

RecorderInv ==
  /\ Sound(rec) /\ Attributed(rec)
  /\ call = "live" => Settled(rec)
  /\ source \in [Speech -> Sources \cup {"none"}]
  /\ call = "over" => \A t \in 1..Len(rec.turns) : rec.turns[t].stt # "open"

-------------------------------------------------------------------------------
(* How one recorder goes on from another *)

\* How a turn may go on while its reply, its words and its streams stay what they
\* are: a span that is open may be closed, and then holds all the words.
StepsOn(u, v) ==
  /\ v.source = u.source /\ v.open = u.open /\ v.words = u.words
  /\ v.awaitClose => u.awaitClose \/ u.open > 0
  /\ u.finished => v.finished
  /\ v.stt = "none" <=> u.stt = "none"
  /\ v.stt = "none" => v.wordsOut = u.wordsOut
  /\ v.stt = "ended" => (u.stt = "ended" /\ v.wordsOut = u.wordsOut) \/ v.wordsOut = u.words

\* A span holds no more of a turn's audio than there is.
Weighed(u) ==
  /\ u.unscoped <= u.audio /\ u.played <= u.audio
  /\ u.unscopedThen <= u.unscoped /\ u.unscopedThen <= u.played
  /\ ~u.snapshot => u.played = 0

\* The same while the turn gets no audio either.
Rests(u, v) ==
  v.audio = u.audio /\ v.unscoped = u.unscoped /\ (Weighed(u) => Weighed(v))

GoesOn(u, v) == StepsOn(u, v) /\ Rests(u, v)

SameStreams(r, q) ==
  \A st \in Stream : /\ q.streams[st].status = r.streams[st].status
                     /\ q.streams[st].sid = r.streams[st].sid
                     /\ q.streams[st].owner = r.streams[st].owner

\* The same of a recorder.
Proceeds(r, q) ==
  /\ Known(q)
  /\ Len(q.turns) = Len(r.turns)
  /\ q.turnOf = r.turnOf /\ q.contested = r.contested /\ q.preemptive = r.preemptive
  /\ \A t \in 1..Len(r.turns) : StepsOn(r.turns[t], q.turns[t])
  /\ SameStreams(r, q)

\* No audio comes and none changes hands, as far as can be told of it.
Quiet(r, q) ==
  /\ Len(q.turns) = Len(r.turns) /\ q.inferred = r.inferred
  /\ \A t \in 1..Len(r.turns) : Rests(r.turns[t], q.turns[t])
  /\ \A st \in Stream :
       /\ q.streams[st].owner = r.streams[st].owner /\ q.streams[st].held = r.streams[st].held
       /\ r.streams[st].owner # NoTurn => q.streams[st].sid = r.streams[st].sid

Continues(r, q) == Proceeds(r, q) /\ Quiet(r, q)

StreamsOf(r, t) == {st \in Stream : r.streams[st].owner = t}

\* A turn has audio that did not name its speech, given the frames w of each stream.
Guessed(r, w) ==
  \/ \E t \in 1..Len(r.turns) : r.turns[t].unscoped > 0
  \/ \E st \in Stream :
       r.streams[st].owner # NoTurn /\ r.streams[st].sid = NoSpeech /\ w[st] > 0

\* The frames of a stream are on the turn that owns it or wait with it, and the audio of
\* a turn is that of its streams and what came by timing alone.
Balanced(r, w) ==
  /\ \A t \in 1..Len(r.turns) :
       /\ Weighed(r.turns[t])
       /\ r.turns[t].audio = r.turns[t].unscoped + SumFunctionOnSet(w, StreamsOf(r, t))
  /\ \A st \in Stream :
       r.streams[st].held = IF r.streams[st].owner = NoTurn THEN w[st] ELSE 0
  /\ r.inferred <=> Guessed(r, w)

\* All the audio that is on a turn or waits for one.
Heard(r) == SumOver(r, LAMBDA turn : turn.audio)
            + SumFunction([st \in Stream |-> r.streams[st].held])

\* Books that balance go on to balance, with as much audio.
Carries(r, q) ==
  \A w \in [Stream -> Nat] : Balanced(r, w) => Balanced(q, w) /\ Heard(q) = Heard(r)

\* A turn's reply may be named, or become the answer to a user; its words stay.
Later(u, v) ==
  /\ v.words = u.words
  /\ u.source # "none" => v.source # "none"
  /\ u.source = "generate_reply" => v.source = "generate_reply"

\* What is not about speech s stays: no turn is forgotten and none gets words, a
\* stream keeps its speech and its owner.
Holds(r, q, s) ==
  /\ Sound(q)
  /\ Len(r.turns) <= Len(q.turns)
  /\ \A t \in 1..Len(r.turns) : Later(r.turns[t], q.turns[t])
  /\ \A t \in (Len(r.turns) + 1)..Len(q.turns) : q.turns[t].words = 0
  /\ \A x \in Speech \ {s} : q.turnOf[x] = r.turnOf[x] /\ q.contested[x] = r.contested[x]
  /\ \A st \in Stream :
       /\ q.streams[st].sid = r.streams[st].sid
       /\ q.streams[st].status = "unused" <=> r.streams[st].status = "unused"
       /\ r.streams[st].owner # NoTurn => q.streams[st].owner = r.streams[st].owner

Keeps(r, q, s) == Holds(r, q, s) /\ Carries(r, q)

LEMMA KnownFacts ==
  ASSUME NEW r, Known(r)
  PROVE  /\ r \in RecorderRec /\ r.turns \in Seq(TurnRec) /\ Len(r.turns) \in Nat
         /\ \A t \in 1..Len(r.turns) : r.turns[t] \in TurnRec
         /\ Newest(r) = Len(r.turns) /\ DOMAIN r.turns = 1..Len(r.turns)
         /\ r.turnOf \in [Speech -> Nat] /\ r.streams \in [Stream -> StreamRec]
         /\ r.inferred \in BOOLEAN
         /\ {r.pending, r.collecting, r.preemptive, r.current, r.speaking, r.retired}
              \subseteq 0..Len(r.turns)
         /\ \A s \in Speech : /\ r.turnOf[s] \in 0..Len(r.turns)
                              /\ r.contested[s].carry \in 0..Len(r.turns)
         /\ \A st \in Stream : r.streams[st].owner \in 0..Len(r.turns)
<1>1. r.turns \in Seq(TurnRec)
  BY DEF Known, RecorderRec
<1>2. /\ r.turnOf \in [Speech -> Nat] /\ r.streams \in [Stream -> StreamRec]
      /\ r.inferred \in BOOLEAN
  BY DEF Known, RecorderRec
<1>3. QED BY <1>1, <1>2 DEF Known, Places, Newest

LEMMA GoesOnReflexive == ASSUME NEW u PROVE GoesOn(u, u) /\ StepsOn(u, u)
  BY DEF GoesOn, StepsOn, Rests

LEMMA ContinuesReflexive == ASSUME NEW r, Known(r) PROVE Continues(r, r)
  BY GoesOnReflexive DEF Continues, Proceeds, Quiet, GoesOn, SameStreams

LEMMA GoesOnTransitive ==
  ASSUME NEW u, NEW v, NEW w, GoesOn(u, v), GoesOn(v, w) PROVE GoesOn(u, w)
  BY DEF GoesOn, StepsOn, Rests

LEMMA ContinuesGoesOn ==
  ASSUME NEW r, NEW q
  PROVE  Continues(r, q) <=>
           /\ Proceeds(r, q) /\ Quiet(r, q)
           /\ \A t \in 1..Len(r.turns) : GoesOn(r.turns[t], q.turns[t])
  BY DEF Continues, Proceeds, Quiet, GoesOn

LEMMA ContinuesTransitive ==
  ASSUME NEW r, NEW p, NEW q, Continues(r, p), Continues(p, q)
  PROVE  Continues(r, q)
<1>1. \A t \in 1..Len(r.turns) : GoesOn(r.turns[t], p.turns[t]) /\ GoesOn(p.turns[t], q.turns[t])
  BY DEF Continues, Proceeds, Quiet, GoesOn
<1>2. \A t \in 1..Len(r.turns) : GoesOn(r.turns[t], q.turns[t])
  BY <1>1, GoesOnTransitive
<1>3. Proceeds(r, q)
  BY <1>2 DEF Continues, Proceeds, GoesOn, SameStreams
<1>4. Quiet(r, q)
  BY <1>2 DEF Continues, Quiet, GoesOn
<1>5. QED BY <1>3, <1>4 DEF Continues

\* Where no audio comes and none changes hands the books stay what they are.
LEMMA QuietCarries ==
  ASSUME NEW r, Known(r), NEW q, Known(q), Quiet(r, q)
  PROVE  Carries(r, q)
<1>1. DOMAIN q.turns = DOMAIN r.turns /\ DOMAIN r.turns = 1..Len(r.turns)
  BY KnownFacts DEF Quiet
<1>2. Heard(q) = Heard(r)
  <2>1. [t \in DOMAIN q.turns |-> q.turns[t].audio] = [t \in DOMAIN r.turns |-> r.turns[t].audio]
    BY <1>1 DEF Quiet, Rests
  <2>2. [st \in Stream |-> q.streams[st].held] = [st \in Stream |-> r.streams[st].held]
    BY DEF Quiet
  <2>3. QED BY <2>1, <2>2, Zenon DEF Heard, SumOver
<1>3. ASSUME NEW w \in [Stream -> Nat], Balanced(r, w)
      PROVE  Balanced(q, w)
  <2>1. ASSUME NEW t \in 1..Len(q.turns)
        PROVE  /\ Weighed(q.turns[t])
               /\ q.turns[t].audio = q.turns[t].unscoped + SumFunctionOnSet(w, StreamsOf(q, t))
    <3>1. StreamsOf(q, t) = StreamsOf(r, t)
      BY DEF Quiet, StreamsOf
    <3>2. /\ Weighed(r.turns[t])
          /\ r.turns[t].audio = r.turns[t].unscoped + SumFunctionOnSet(w, StreamsOf(r, t))
      BY <1>3 DEF Balanced, Quiet
    <3>3. Rests(r.turns[t], q.turns[t])
      BY DEF Quiet
    <3>4. QED BY ONLY <3>1, <3>2, <3>3 DEF Rests
  <2>2. \A st \in Stream : q.streams[st].held = IF q.streams[st].owner = NoTurn THEN w[st] ELSE 0
    BY <1>3 DEF Balanced, Quiet
  <2>3. Guessed(q, w) <=> Guessed(r, w)
    <3>1. /\ Len(q.turns) = Len(r.turns)
          /\ \A t \in 1..Len(r.turns) : q.turns[t].unscoped = r.turns[t].unscoped
          /\ \A st \in Stream : /\ q.streams[st].owner = r.streams[st].owner
                                /\ r.streams[st].owner # NoTurn =>
                                     q.streams[st].sid = r.streams[st].sid
      BY DEF Quiet, Rests
    <3>2. QED BY ONLY <3>1 DEF Guessed
  <2>4. q.inferred <=> Guessed(q, w)
    BY <1>3, <2>3 DEF Balanced, Quiet
  <2>5. QED BY <2>1, <2>2, <2>4 DEF Balanced
<1>4. QED BY <1>2, <1>3 DEF Carries

LEMMA CarriesReflexive == ASSUME NEW r PROVE Carries(r, r)
  BY DEF Carries

LEMMA CarriesTransitive ==
  ASSUME NEW r, NEW p, NEW q, Carries(r, p), Carries(p, q) PROVE Carries(r, q)
  BY DEF Carries

LEMMA KeepsReflexive ==
  ASSUME NEW r, Sound(r), NEW s PROVE Keeps(r, r, s)
<1>1. Len(r.turns) \in Nat
  BY DEF Sound, Known, RecorderRec
<1>2. QED BY <1>1, CarriesReflexive DEF Keeps, Holds, Later

LEMMA KeepsWidens ==
  ASSUME NEW r, NEW q, Keeps(r, q, NoSpeech), NEW s PROVE Keeps(r, q, s)
<1>1. \A x \in Speech \ {s} : x \in Speech \ {NoSpeech}
  BY TurnsAssumption
<1>2. QED BY <1>1 DEF Keeps, Holds

LEMMA HoldsWidens ==
  ASSUME NEW r, NEW q, Holds(r, q, NoSpeech), NEW s PROVE Holds(r, q, s)
<1>1. \A x \in Speech \ {s} : x \in Speech \ {NoSpeech}
  BY TurnsAssumption
<1>2. QED BY <1>1 DEF Holds

LEMMA HoldsTransitive ==
  ASSUME NEW r, NEW p, NEW q, NEW s, Sound(r), Holds(r, p, s), Holds(p, q, s)
  PROVE  Holds(r, q, s)
<1>1. Len(r.turns) \in Nat /\ Len(p.turns) \in Nat /\ Len(q.turns) \in Nat
  BY KnownFacts DEF Sound, Holds
<1>2. Len(r.turns) <= Len(q.turns)
  BY <1>1 DEF Holds
<1>3. ASSUME NEW t \in 1..Len(r.turns) PROVE Later(r.turns[t], q.turns[t])
  <2>1. t \in 1..Len(p.turns)
    BY <1>1 DEF Holds
  <2>2. Later(r.turns[t], p.turns[t]) /\ Later(p.turns[t], q.turns[t])
    BY <2>1 DEF Holds
  <2>3. QED BY <2>2 DEF Later
<1>4. ASSUME NEW t \in (Len(r.turns) + 1)..Len(q.turns) PROVE q.turns[t].words = 0
  <2>1. CASE t \in 1..Len(p.turns)
    <3>1. t \in (Len(r.turns) + 1)..Len(p.turns)
      BY <1>1, <2>1
    <3>2. p.turns[t].words = 0 /\ Later(p.turns[t], q.turns[t])
      BY <2>1, <3>1 DEF Holds
    <3>3. QED BY <3>2 DEF Later
  <2>2. CASE t \notin 1..Len(p.turns)
    <3>1. t \in (Len(p.turns) + 1)..Len(q.turns)
      BY <1>1, <2>2
    <3>2. QED BY <3>1 DEF Holds
  <2>3. QED BY <2>1, <2>2
<1>5. \A st \in Stream :
        /\ q.streams[st].sid = r.streams[st].sid
        /\ q.streams[st].status = "unused" <=> r.streams[st].status = "unused"
        /\ r.streams[st].owner # NoTurn => q.streams[st].owner = r.streams[st].owner
  BY DEF Holds
<1>6. \A x \in Speech \ {s} : q.turnOf[x] = r.turnOf[x] /\ q.contested[x] = r.contested[x]
  BY DEF Holds
<1>7. QED BY <1>2, <1>3, <1>4, <1>5, <1>6 DEF Holds

LEMMA KeepsTransitive ==
  ASSUME NEW r, NEW p, NEW q, NEW s, Sound(r), Keeps(r, p, s), Keeps(p, q, s)
  PROVE  Keeps(r, q, s)
  BY HoldsTransitive, CarriesTransitive DEF Keeps

LEMMA ProceedsHolds ==
  ASSUME NEW r, NEW q, Sound(r), Proceeds(r, q)
  PROVE  Holds(r, q, NoSpeech)
<1>1. Known(r) /\ Known(q) /\ Len(q.turns) = Len(r.turns) /\ Len(r.turns) \in Nat
  BY SMTT(60) DEF Sound, Known, RecorderRec, Proceeds
<1>2. Identified(q)
  BY DEF Sound, Identified, Proceeds, SameStreams
<1>3. Counted(q)
  <2> SUFFICES ASSUME NEW t \in 1..Len(q.turns)
               PROVE  /\ q.turns[t].open = Cardinality(OpenOn(q, t))
                      /\ q.turns[t].awaitClose /\ ~q.turns[t].finished => q.turns[t].open > 0
    BY DEF Counted
  <2>1. OpenOn(q, t) = OpenOn(r, t)
    BY DEF OpenOn, Proceeds, SameStreams
  <2>2. StepsOn(r.turns[t], q.turns[t])
    BY <1>1 DEF Proceeds
  <2>3. /\ r.turns[t].open = Cardinality(OpenOn(r, t))
        /\ r.turns[t].awaitClose /\ ~r.turns[t].finished => r.turns[t].open > 0
    BY <1>1 DEF Sound, Counted
  <2>4. r.turns[t] \in TurnRec /\ q.turns[t] \in TurnRec
    BY <1>1, KnownFacts
  <2>5. r.turns[t].finished \in BOOLEAN /\ q.turns[t].finished \in BOOLEAN
    BY <2>4 DEF TurnRec
  <2>6. QED BY <2>1, <2>2, <2>3, <2>5 DEF StepsOn
<1>4. Worded(q)
  <2>1. ASSUME NEW t \in 1..Len(q.turns)
        PROVE  /\ q.turns[t].stt = "ended" => q.turns[t].wordsOut = q.turns[t].words
               /\ q.turns[t].stt = "none" => q.turns[t].words = 0 /\ q.turns[t].wordsOut = 0
    <3>1. StepsOn(r.turns[t], q.turns[t])
      BY <1>1 DEF Proceeds
    <3>2. /\ r.turns[t].stt = "ended" => r.turns[t].wordsOut = r.turns[t].words
          /\ r.turns[t].stt = "none" => r.turns[t].words = 0 /\ r.turns[t].wordsOut = 0
      BY <1>1 DEF Sound, Worded
    <3>3. QED BY <3>1, <3>2 DEF StepsOn
  <2>2. ASSUME q.preemptive # NoTurn PROVE q.turns[q.preemptive].stt = "none"
    <3>1. q.preemptive = r.preemptive /\ r.preemptive \in 1..Len(r.turns)
      BY <1>1, <2>2 DEF Proceeds, Known, Places, NoTurn
    <3>2. r.turns[r.preemptive].stt = "none"
      BY <2>2, <3>1 DEF Sound, Worded
    <3>3. StepsOn(r.turns[r.preemptive], q.turns[q.preemptive])
      BY <3>1 DEF Proceeds
    <3>4. QED BY <3>2, <3>3 DEF StepsOn
  <2>3. QED BY <2>1, <2>2 DEF Worded
<1>5. PutOff(q)
  BY DEF Sound, PutOff, Proceeds
<1>6. \A t \in 1..Len(r.turns) : Later(r.turns[t], q.turns[t])
  BY DEF Proceeds, StepsOn, Later
<1>7. \A t \in (Len(r.turns) + 1)..Len(q.turns) : q.turns[t].words = 0
  BY <1>1
<1>8. QED BY <1>1, <1>2, <1>3, <1>4, <1>5, <1>6, <1>7 DEF Holds, Sound, Proceeds, SameStreams

LEMMA ContinuesKeeps ==
  ASSUME NEW r, NEW q, Sound(r), Continues(r, q)
  PROVE  Keeps(r, q, NoSpeech)
<1>1. Known(r) /\ Known(q)
  BY DEF Sound, Continues, Proceeds
<1>2. QED BY <1>1, ProceedsHolds, QuietCarries DEF Continues, Keeps

-------------------------------------------------------------------------------
(* Turns and their ends *)

\* A turn is replaced by one that goes on from it, and nothing else of the books
\* is changed.
LEMMA ReplaceTurn ==
  ASSUME NEW ts \in Seq(TurnRec), NEW t \in 1..Len(ts), NEW v \in TurnRec
  PROVE  /\ [ts EXCEPT ![t] = v] \in Seq(TurnRec)
         /\ Len([ts EXCEPT ![t] = v]) = Len(ts)
         /\ \A u \in 1..Len(ts) : [ts EXCEPT ![t] = v][u] = IF u = t THEN v ELSE ts[u]
  OBVIOUS

LEMMA TurnStepsOn ==
  ASSUME NEW r, Known(r), NEW t \in 1..Len(r.turns), NEW v \in TurnRec, StepsOn(r.turns[t], v),
         NEW q \in RecorderRec, q.turns = [r.turns EXCEPT ![t] = v],
         q.turnOf = r.turnOf, q.contested = r.contested, q.preemptive = r.preemptive,
         {q.pending, q.collecting, q.current, q.speaking, q.retired} \subseteq 0..Len(r.turns),
         q.streams = r.streams
  PROVE  Proceeds(r, q)
<1>1. r \in RecorderRec /\ r.turns \in Seq(TurnRec)
  BY DEF Known, RecorderRec
<1>2. /\ Len(q.turns) = Len(r.turns)
      /\ \A u \in 1..Len(r.turns) : q.turns[u] = IF u = t THEN v ELSE r.turns[u]
  BY <1>1, ReplaceTurn
<1>3. \A u \in 1..Len(r.turns) : StepsOn(r.turns[u], q.turns[u])
  BY <1>2, GoesOnReflexive
<1>4. Places(q)
  BY <1>1, <1>2 DEF Known, Places
<1>5. QED BY <1>2, <1>3, <1>4 DEF Proceeds, SameStreams, Known

\* Where one turn rests and nothing else changes no audio comes.
LEMMA OneTurnRests ==
  ASSUME NEW r, Known(r), NEW t \in 1..Len(r.turns), NEW v, Rests(r.turns[t], v),
         NEW q, q.turns = [r.turns EXCEPT ![t] = v], q.streams = r.streams,
         q.inferred = r.inferred
  PROVE  Quiet(r, q)
<1>1. r.turns \in Seq(TurnRec)
  BY KnownFacts
<1>2. /\ Len(q.turns) = Len(r.turns)
      /\ \A x \in 1..Len(r.turns) : q.turns[x] = IF x = t THEN v ELSE r.turns[x]
  BY <1>1
<1>3. \A x \in 1..Len(r.turns) : Rests(r.turns[x], q.turns[x])
  BY <1>2 DEF Rests
<1>4. QED BY <1>2, <1>3 DEF Quiet

LEMMA TurnGoesOn ==
  ASSUME NEW r, Known(r), NEW t \in 1..Len(r.turns), NEW v \in TurnRec, GoesOn(r.turns[t], v),
         NEW q \in RecorderRec, q.turns = [r.turns EXCEPT ![t] = v],
         q.turnOf = r.turnOf, q.contested = r.contested, q.preemptive = r.preemptive,
         {q.pending, q.collecting, q.current, q.speaking, q.retired} \subseteq 0..Len(r.turns),
         q.streams = r.streams, q.inferred = r.inferred
  PROVE  Continues(r, q)
<1>1. StepsOn(r.turns[t], v) /\ Rests(r.turns[t], v)
  BY DEF GoesOn
<1>2. Quiet(r, q)
  BY <1>1, OneTurnRests, ZenonT(60)
<1>3. Proceeds(r, q)
  BY <1>1, TurnStepsOn
<1>4. QED BY <1>2, <1>3 DEF Continues

\* The audio of a turn and what its span has of it.
SameAudio(u, v) ==
  /\ v.audio = u.audio /\ v.unscoped = u.unscoped /\ v.played = u.played
  /\ v.unscopedThen = u.unscopedThen /\ v.snapshot = u.snapshot

LEMMA SameAudioRests == ASSUME NEW u, NEW v, SameAudio(u, v) PROVE Rests(u, v)
  BY DEF SameAudio, Rests, Weighed

LEMMA EndSttGoesOn ==
  ASSUME NEW u \in TurnRec
  PROVE  EndStt(u) \in TurnRec /\ GoesOn(u, EndStt(u))
<1>1. CASE u.stt = "open"
  <2>1. PICK v : v = [u EXCEPT !.stt = "ended", !.wordsOut = u.words]
    OBVIOUS
  <2>2. EndStt(u) = v
    BY <1>1, <2>1 DEF EndStt
  <2>3. u.words \in Nat
    BY DEF TurnRec
  <2>4. v \in TurnRec
    BY <2>1, <2>3 DEF TurnRec, Span
  <2>5. /\ v.source = u.source /\ v.open = u.open /\ v.words = u.words /\ v.stt = "ended"
        /\ v.wordsOut = u.words /\ v.awaitClose = u.awaitClose /\ v.finished = u.finished
    BY <2>1 DEF TurnRec
  <2>6. SameAudio(u, v)
    BY <2>1 DEF TurnRec, SameAudio
  <2>7. Rests(u, v)
    BY <2>6, SameAudioRests
  <2>8. StepsOn(u, v)
    BY ONLY <1>1, <2>5 DEF StepsOn
  <2>9. QED BY <2>2, <2>4, <2>7, <2>8 DEF GoesOn
<1>2. QED BY <1>1, GoesOnReflexive DEF EndStt

LEMMA EndTtsGoesOn ==
  ASSUME NEW u \in TurnRec
  PROVE  EndTts(u) \in TurnRec /\ GoesOn(u, EndTts(u))
<1>1. CASE EndTts(u) = u
  BY <1>1, GoesOnReflexive
<1>2. CASE EndTts(u) # u
  <2>1. PICK v : v = [u EXCEPT !.tts = "ended", !.played = u.audio,
                               !.unscopedThen = u.unscoped, !.snapshot = TRUE]
    OBVIOUS
  <2>2. EndTts(u) = v
    BY <1>2, <2>1 DEF EndTts
  <2>3. u.audio \in Nat /\ u.unscoped \in Nat
    BY DEF TurnRec
  <2>4. v \in TurnRec
    BY <2>1, <2>3 DEF TurnRec, Span
  <2>5. /\ v.source = u.source /\ v.open = u.open /\ v.words = u.words /\ v.stt = u.stt
        /\ v.wordsOut = u.wordsOut /\ v.awaitClose = u.awaitClose /\ v.finished = u.finished
    BY <2>1 DEF TurnRec
  <2>6. /\ v.audio = u.audio /\ v.unscoped = u.unscoped /\ v.played = u.audio
        /\ v.unscopedThen = u.unscoped /\ v.snapshot
    BY <2>1 DEF TurnRec
  <2>7. Rests(u, v)
    BY <2>3, <2>6 DEF Rests, Weighed
  <2>8. StepsOn(u, v)
    BY ONLY <2>5 DEF StepsOn
  <2>9. QED BY <2>2, <2>4, <2>7, <2>8 DEF GoesOn
<1>3. QED BY <1>1, <1>2

LEMMA FinishTurnContinues ==
  ASSUME NEW r, Known(r), NEW t \in 1..Len(r.turns)
  PROVE  Continues(r, FinishTurn(r, t))
<1>1. r \in RecorderRec /\ r.turns[t] \in TurnRec /\ Newest(r) \in Nat
  BY DEF Known, RecorderRec, Newest
<1>2. CASE r.turns[t].finished
  BY <1>2, ContinuesReflexive DEF FinishTurn
<1>3. CASE ~r.turns[t].finished
  <2>1. PICK e : e = EndTts(EndStt(r.turns[t]))
    OBVIOUS
  <2>2. e \in TurnRec /\ GoesOn(r.turns[t], e)
    BY <1>1, <2>1, EndSttGoesOn, EndTtsGoesOn, GoesOnTransitive
  <2>3. PICK v : v = [e EXCEPT !.finished = TRUE, !.finishedAt = Newest(r)]
    OBVIOUS
  <2>4. v \in TurnRec
    BY <1>1, <2>2, <2>3 DEF TurnRec
  <2>5. /\ v.source = e.source /\ v.open = e.open /\ v.words = e.words /\ v.stt = e.stt
        /\ v.wordsOut = e.wordsOut /\ v.awaitClose = e.awaitClose /\ v.finished
    BY <2>2, <2>3 DEF TurnRec
  <2>6. GoesOn(r.turns[t], v)
    <3>1. SameAudio(e, v)
      BY <2>2, <2>3 DEF TurnRec, SameAudio
    <3>2. GoesOn(e, v)
      BY <2>5, <3>1, SameAudioRests DEF GoesOn, StepsOn
    <3>3. QED BY <2>2, <3>2, GoesOnTransitive
  <2>7. PICK ts : ts = [r.turns EXCEPT ![t] = v]
    OBVIOUS
  <2>8. ts \in Seq(TurnRec)
    BY <1>1, <2>4, <2>7, ReplaceTurn DEF RecorderRec
  <2>9. PICK c : c = IF r.current = t THEN NoTurn ELSE r.current
    OBVIOUS
  <2>10. c \in 0..Len(r.turns) /\ c \in Nat
    BY <1>1, <2>9 DEF Known, Places, NoTurn, RecorderRec
  <2>11. PICK q : q = [r EXCEPT !.turns = ts, !.current = c]
    OBVIOUS
  <2>12. FinishTurn(r, t) = q
    BY <1>1, <1>3, <2>1, <2>3, <2>7, <2>9, <2>11 DEF FinishTurn, RecorderRec
  <2>13. q \in RecorderRec
    BY <1>1, <2>8, <2>10, <2>11 DEF RecorderRec
  <2>14. /\ q.turns = ts /\ q.current = c /\ q.turnOf = r.turnOf /\ q.contested = r.contested
         /\ q.preemptive = r.preemptive /\ q.streams = r.streams /\ q.pending = r.pending
         /\ q.collecting = r.collecting /\ q.speaking = r.speaking /\ q.retired = r.retired
         /\ q.inferred = r.inferred
    BY <1>1, <2>11 DEF RecorderRec
  <2>15. {q.pending, q.collecting, q.current, q.speaking, q.retired} \subseteq 0..Len(r.turns)
    BY <2>10, <2>14 DEF Known, Places
  <2>17. Continues(r, q)
    BY <2>4, <2>6, <2>7, <2>13, <2>14, <2>15, TurnGoesOn, SMTT(60)
  <2>18. QED BY <2>12, <2>17
<1>4. QED BY <1>2, <1>3

\* One turn goes on, and with it no more than who is on stage.
LEMMA OneTurn ==
  ASSUME NEW r, Known(r), NEW t \in 1..Len(r.turns), NEW v \in TurnRec, GoesOn(r.turns[t], v)
  PROVE  /\ Continues(r, [r EXCEPT !.turns = [r.turns EXCEPT ![t] = v]])
         /\ Continues(r, [r EXCEPT !.turns = [r.turns EXCEPT ![t] = v], !.retired = t])
<1>1. r \in RecorderRec /\ r.turns \in Seq(TurnRec) /\ t \in Nat
  BY KnownFacts
<1>2. PICK ts : ts = [r.turns EXCEPT ![t] = v]
  OBVIOUS
<1>3. ts \in Seq(TurnRec)
  BY <1>1, <1>2, ReplaceTurn
<1>4. ASSUME NEW q, \/ q = [r EXCEPT !.turns = ts]
                    \/ q = [r EXCEPT !.turns = ts, !.retired = t]
      PROVE  Continues(r, q)
  <2>1. q \in RecorderRec
    BY <1>1, <1>3, <1>4, ZenonT(60) DEF RecorderRec
  <2>2. /\ q.turns = ts /\ q.current = r.current /\ q.turnOf = r.turnOf
        /\ q.contested = r.contested /\ q.preemptive = r.preemptive /\ q.streams = r.streams
        /\ q.pending = r.pending /\ q.collecting = r.collecting /\ q.speaking = r.speaking
        /\ q.retired \in {r.retired, t} /\ q.inferred = r.inferred
    BY <1>1, <1>4 DEF RecorderRec
  <2>3. {q.pending, q.collecting, q.current, q.speaking, q.retired} \subseteq 0..Len(r.turns)
    BY <1>1, <2>2, KnownFacts
  <2>4. QED BY <1>2, <2>1, <2>2, <2>3, TurnGoesOn, SMTT(60)
<1>5. QED BY <1>2, <1>4

\* The same, and the recorder may say that it guesses.
Marked(r, q, t, v, f) ==
  q = [r EXCEPT !.turns = [r.turns EXCEPT ![t] = v], !.inferred = f]

LEMMA OneTurnMarked ==
  ASSUME NEW r, Known(r), NEW t \in 1..Len(r.turns), NEW v \in TurnRec, StepsOn(r.turns[t], v),
         NEW f \in BOOLEAN, NEW q, Marked(r, q, t, v, f)
  PROVE  /\ Proceeds(r, q) /\ Known(q) /\ Len(q.turns) = Len(r.turns)
         /\ q.streams = r.streams /\ q.inferred = f
         /\ \A y \in 1..Len(r.turns) : q.turns[y] = IF y = t THEN v ELSE r.turns[y]
<1>1. r \in RecorderRec /\ r.turns \in Seq(TurnRec) /\ t \in Nat
  BY KnownFacts
<1>2. PICK ts : ts = [r.turns EXCEPT ![t] = v]
  OBVIOUS
<1>0. q = [r EXCEPT !.turns = ts, !.inferred = f]
  BY <1>2 DEF Marked
<1>3. /\ ts \in Seq(TurnRec)
      /\ \A y \in 1..Len(r.turns) : ts[y] = IF y = t THEN v ELSE r.turns[y]
  BY <1>1, <1>2, ReplaceTurn
<1>4. q \in RecorderRec
  BY <1>0, <1>1, <1>3 DEF RecorderRec
<1>5. /\ q.turns = ts /\ q.current = r.current /\ q.turnOf = r.turnOf
      /\ q.contested = r.contested /\ q.preemptive = r.preemptive /\ q.streams = r.streams
      /\ q.pending = r.pending /\ q.collecting = r.collecting /\ q.speaking = r.speaking
      /\ q.retired = r.retired /\ q.inferred = f
  BY <1>0, <1>1 DEF RecorderRec
<1>6. {q.pending, q.collecting, q.current, q.speaking, q.retired} \subseteq 0..Len(r.turns)
  BY <1>5, KnownFacts
<1>7. Proceeds(r, q)
  <2>1. /\ Known(r) /\ t \in 1..Len(r.turns) /\ v \in TurnRec /\ StepsOn(r.turns[t], v)
        /\ q.turns = [r.turns EXCEPT ![t] = v]
    BY <1>2, <1>5
  <2>2. QED BY ONLY <1>4, <1>5, <1>6, <2>1, TurnStepsOn, SMTT(60)
<1>8. QED BY <1>3, <1>5, <1>7 DEF Proceeds

LEMMA RetireReplyContinues ==
  ASSUME NEW r, Known(r), NEW keep
  PROVE  Continues(r, RetireReply(r, keep))
<1>1. PICK t, u : t = r.speaking /\ u = r.turns[t]
  OBVIOUS
<1>2. CASE t \in {NoTurn, keep} \/ u.finished
  BY <1>1, <1>2, ContinuesReflexive DEF RetireReply
<1>3. CASE ~(t \in {NoTurn, keep} \/ u.finished)
  <2>1. /\ t \in 1..Len(r.turns) /\ u \in TurnRec /\ r \in RecorderRec
        /\ u.open \in Nat /\ u.awaitClose \in BOOLEAN /\ r.turns \in Seq(TurnRec)
    <3>1. t \in 1..Len(r.turns) /\ u \in TurnRec /\ r \in RecorderRec
      BY <1>1, <1>3, KnownFacts DEF NoTurn
    <3>2. QED BY <3>1, KnownFacts DEF TurnRec
  <2>2. PICK w : w = (u.awaitClose \/ u.open > 0) /\ w \in BOOLEAN
    BY <2>1
  <2>3. PICK v : v = [u EXCEPT !.awaitClose = w]
    OBVIOUS
  <2>4. PICK x : x = [v EXCEPT !.awaitItem = TRUE]
    OBVIOUS
  <2>5. v \in TurnRec
    BY <2>1, <2>2, <2>3 DEF TurnRec
  <2>6. x \in TurnRec
    BY <2>4, <2>5 DEF TurnRec
  <2>7. /\ v.source = u.source /\ v.open = u.open /\ v.words = u.words /\ v.stt = u.stt
        /\ v.wordsOut = u.wordsOut /\ v.awaitClose = w /\ v.finished = u.finished
    BY <2>1, <2>3 DEF TurnRec
  <2>8. /\ x.source = v.source /\ x.open = v.open /\ x.words = v.words /\ x.stt = v.stt
        /\ x.wordsOut = v.wordsOut /\ x.awaitClose = v.awaitClose /\ x.finished = v.finished
    BY <2>4, <2>5 DEF TurnRec
  <2>9. GoesOn(u, v) /\ GoesOn(u, x)
    <3>1. SameAudio(u, v)
      BY <2>1, <2>3 DEF TurnRec, SameAudio
    <3>2. SameAudio(v, x)
      BY <2>4, <2>5 DEF TurnRec, SameAudio
    <3>3. StepsOn(u, v) /\ StepsOn(u, x)
      BY <2>2, <2>7, <2>8 DEF StepsOn
    <3>4. Rests(u, v) /\ Rests(u, x)
      <4>1. SameAudio(u, x)
        BY <3>1, <3>2 DEF SameAudio
      <4>2. QED BY <3>1, <4>1, SameAudioRests
    <3>5. QED BY <3>3, <3>4 DEF GoesOn
  <2>10. PICK held : held = [r EXCEPT !.turns = [r.turns EXCEPT ![t] = v], !.retired = t]
    OBVIOUS
  <2>11. PICK told : told = [r EXCEPT !.turns = [r.turns EXCEPT ![t] = x], !.retired = t]
    OBVIOUS
  <2>12. Continues(r, held) /\ Continues(r, told)
    BY <1>1, <2>1, <2>5, <2>6, <2>9, <2>10, <2>11, OneTurn
  <2>13. held = [r EXCEPT !.retired = t, !.turns[t].awaitClose = @ \/ u.open > 0]
    BY <1>1, <2>1, <2>2, <2>3, <2>10 DEF RecorderRec
  <2>14. [held EXCEPT !.turns[t].awaitItem = TRUE] = told
    <3>1. PICK vs : vs = [r.turns EXCEPT ![t] = v]
      OBVIOUS
    <3>2. PICK xs : xs = [r.turns EXCEPT ![t] = x]
      OBVIOUS
    <3>3. vs[t] = v /\ [vs EXCEPT ![t] = x] = xs
      BY <2>1, <3>1, <3>2
    <3>4. held.turns = vs
      BY <2>1, <2>10, <3>1 DEF RecorderRec
    <3>5. [held EXCEPT !.turns = xs] = told
      BY ONLY <2>1, <2>10, <2>11, <3>1, <3>2 DEF RecorderRec
    <3>6. [held EXCEPT !.turns[t].awaitItem = TRUE] = [held EXCEPT !.turns = xs]
      BY ONLY <2>4, <3>3, <3>4
    <3>7. QED BY <3>5, <3>6
  <2>15. Known(held) /\ t \in 1..Len(held.turns)
    BY <2>1, <2>12 DEF Continues, Proceeds
  <2>16. Continues(r, FinishTurn(held, t))
    BY <2>12, <2>15, FinishTurnContinues, ContinuesTransitive, SMTT(60)
  <2>17. RetireReply(r, keep) \in {held, told, FinishTurn(held, t)}
    BY <1>1, <1>3, <2>13, <2>14 DEF RetireReply
  <2>18. QED BY <2>12, <2>16, <2>17
<1>4. QED BY <1>2, <1>3

-------------------------------------------------------------------------------
(* Streams *)

LEMMA CountedOn ==
  ASSUME NEW r, Sound(r), NEW t \in 1..Len(r.turns)
  PROVE  /\ r.turns[t].open = Cardinality(OpenOn(r, t))
         /\ IsFiniteSet(OpenOn(r, t)) /\ r.turns[t].open \in Nat
<1>1. IsFiniteSet(OpenOn(r, t))
  BY TurnsAssumption, FS_Subset DEF OpenOn
<1>2. QED BY <1>1, FS_CardinalityType DEF Sound, Counted

-------------------------------------------------------------------------------
(* The audio of turns and streams *)

AudioIn(r) == [t \in 1..Len(r.turns) |-> r.turns[t].audio]
AudioOf(r) == SumFunctionOnSet(AudioIn(r), 1..Len(r.turns))
HeldIn(r) == [st \in Stream |-> r.streams[st].held]
HeldOf(r) == SumFunctionOnSet(HeldIn(r), Stream)

LEMMA HeardIs ==
  ASSUME NEW r, Known(r)
  PROVE  /\ Heard(r) = AudioOf(r) + HeldOf(r) /\ AudioOf(r) \in Nat /\ HeldOf(r) \in Nat
         /\ IsFiniteSet(1..Len(r.turns))
         /\ \A t \in 1..Len(r.turns) : AudioIn(r)[t] = r.turns[t].audio /\ AudioIn(r)[t] \in Nat
         /\ \A st \in Stream : HeldIn(r)[st] = r.streams[st].held /\ HeldIn(r)[st] \in Nat
<1>1. /\ Len(r.turns) \in Nat /\ DOMAIN r.turns = 1..Len(r.turns)
      /\ \A t \in 1..Len(r.turns) : r.turns[t] \in TurnRec
      /\ \A st \in Stream : r.streams[st] \in StreamRec
  BY KnownFacts
<1>2. IsFiniteSet(1..Len(r.turns))
  BY <1>1, FS_Interval
<1>3. \A t \in 1..Len(r.turns) : AudioIn(r)[t] = r.turns[t].audio /\ AudioIn(r)[t] \in Nat
  <2>1. \A t \in 1..Len(r.turns) : r.turns[t].audio \in Nat
    BY <1>1 DEF TurnRec
  <2>2. QED BY <2>1 DEF AudioIn
<1>4. \A st \in Stream : HeldIn(r)[st] = r.streams[st].held /\ HeldIn(r)[st] \in Nat
  <2>1. \A st \in Stream : r.streams[st].held \in Nat
    BY <1>1 DEF StreamRec
  <2>2. QED BY <2>1 DEF HeldIn
<1>5. Heard(r) = AudioOf(r) + HeldOf(r)
  <2>1. SumOver(r, LAMBDA turn : turn.audio) = SumFunction(AudioIn(r))
    BY <1>1 DEF SumOver, AudioIn
  <2>2. DOMAIN AudioIn(r) = 1..Len(r.turns) /\ DOMAIN HeldIn(r) = Stream
    BY DEF AudioIn, HeldIn
  <2>3. SumFunction(AudioIn(r)) = AudioOf(r) /\ SumFunction(HeldIn(r)) = HeldOf(r)
    BY <2>2 DEF SumFunction, AudioOf, HeldOf
  <2>4. QED BY <2>1, <2>3 DEF Heard, HeldIn
<1>6. AudioOf(r) \in Nat /\ HeldOf(r) \in Nat
  BY <1>2, <1>3, <1>4, SumFacts, TurnsAssumption DEF AudioOf, HeldOf
<1>7. QED BY <1>2, <1>3, <1>4, <1>5, <1>6

LEMMA MoreAudio ==
  ASSUME NEW r, Known(r), NEW q, Known(q), Len(r.turns) <= Len(q.turns), NEW t, NEW k \in Nat,
         \A x \in 1..Len(q.turns) :
           q.turns[x].audio = (IF x \in 1..Len(r.turns) THEN r.turns[x].audio ELSE 0)
                              + (IF x = t THEN k ELSE 0)
  PROVE  AudioOf(q) = AudioOf(r) + (IF t \in 1..Len(q.turns) THEN k ELSE 0)
<1>1. PICK V, W : V = 1..Len(r.turns) /\ W = 1..Len(q.turns)
  OBVIOUS
<1>2. PICK a, b : a = AudioIn(r) /\ b = AudioIn(q)
  OBVIOUS
<1>3. V \in SUBSET W /\ IsFiniteSet(W)
  <2>1. Len(r.turns) \in Nat /\ Len(q.turns) \in Nat
    BY KnownFacts
  <2>2. QED BY <1>1, <2>1, HeardIs
<1>4. /\ \A x \in V : a[x] = r.turns[x].audio /\ a[x] \in Nat
      /\ \A x \in W : b[x] = q.turns[x].audio /\ b[x] \in Nat
  BY <1>1, <1>2, HeardIs
<1>5. MoreAt(a, V, b, W, t, k)
  BY <1>1, <1>3, <1>4 DEF MoreAt
<1>6. SumFunctionOnSet(b, W) = SumFunctionOnSet(a, V) + (IF t \in W THEN k ELSE 0)
  BY <1>3, <1>4, <1>5, SumGrows
<1>7. QED BY <1>1, <1>2, <1>6 DEF AudioOf

LEMMA MoreHeld ==
  ASSUME NEW r, Known(r), NEW q, Known(q), NEW st \in Stream, NEW k \in Nat,
         \A x \in Stream :
           q.streams[x].held = r.streams[x].held + (IF x = st THEN k ELSE 0)
  PROVE  HeldOf(q) = HeldOf(r) + k
<1>1. PICK a, b : a = HeldIn(r) /\ b = HeldIn(q)
  OBVIOUS
<1>2. /\ \A x \in Stream : a[x] = r.streams[x].held /\ a[x] \in Nat
      /\ \A x \in Stream : b[x] = q.streams[x].held /\ b[x] \in Nat
  BY <1>1, HeardIs
<1>3. MoreAt(a, Stream, b, Stream, st, k)
  BY <1>2 DEF MoreAt
<1>4. SumFunctionOnSet(b, Stream) = SumFunctionOnSet(a, Stream) + (IF st \in Stream THEN k ELSE 0)
  BY <1>2, <1>3, SumGrows, TurnsAssumption
<1>5. QED BY <1>1, <1>4 DEF HeldOf

LEMMA OneMoreStream ==
  ASSUME NEW w \in [Stream -> Nat], NEW V \in SUBSET Stream, NEW st \in Stream \ V
  PROVE  SumFunctionOnSet(w, V \cup {st}) = SumFunctionOnSet(w, V) + w[st]
<1>1. PICK W : W = V \cup {st}
  OBVIOUS
<1>2. W \subseteq Stream /\ IsFiniteSet(W) /\ V = W \ {st} /\ st \in W
  BY <1>1, TurnsAssumption, FS_Subset
<1>3. \A x \in W : w[x] \in Nat
  BY <1>2
<1>4. SumFunctionOnSet(w, W) = w[st] + SumFunctionOnSet(w, V)
  BY <1>2, <1>3, SumFacts
<1>5. SumFunctionOnSet(w, V) \in Nat
  <2>1. IsFiniteSet(V) /\ (\A x \in V : w[x] \in Nat)
    BY <1>2, <1>3, FS_Subset
  <2>2. QED BY <2>1, SumFacts
<1>6. QED BY <1>1, <1>2, <1>3, <1>4, <1>5

-------------------------------------------------------------------------------
(* Turns and streams that are added *)

\* A new turn has no streams and no words.
LEMMA AddTurnKeeps ==
  ASSUME NEW r, Sound(r)
  PROVE  /\ Keeps(r, AddTurn(r), NoSpeech)
         /\ AddTurn(r) = [r EXCEPT !.turns = AddTurn(r).turns]
         /\ Len(AddTurn(r).turns) = Len(r.turns) + 1
         /\ AddTurn(r).turns[Len(r.turns) + 1] = FreshTurn
         /\ \A t \in 1..Len(r.turns) : AddTurn(r).turns[t] = r.turns[t]
<1>1. Known(r) /\ r \in RecorderRec /\ r.turns \in Seq(TurnRec) /\ Len(r.turns) \in Nat
  BY KnownFacts DEF Sound
<1>2. FreshTurn \in TurnRec
  BY DEF FreshTurn, TurnRec, Span, Sources
<1>3. PICK ts : ts = Append(r.turns, FreshTurn)
  OBVIOUS
<1>4. /\ ts \in Seq(TurnRec) /\ Len(ts) = Len(r.turns) + 1 /\ ts[Len(r.turns) + 1] = FreshTurn
      /\ \A t \in 1..Len(r.turns) : ts[t] = r.turns[t]
  BY <1>1, <1>2, <1>3
<1>5. PICK q : q = AddTurn(r)
  OBVIOUS
<1>6. q = [r EXCEPT !.turns = ts]
  BY <1>3, <1>5 DEF AddTurn
<1>7. q \in RecorderRec
  BY <1>1, <1>4, <1>6 DEF RecorderRec
<1>8. /\ q.turns = ts /\ q.current = r.current /\ q.turnOf = r.turnOf
      /\ q.contested = r.contested /\ q.preemptive = r.preemptive /\ q.streams = r.streams
      /\ q.pending = r.pending /\ q.collecting = r.collecting /\ q.speaking = r.speaking
      /\ q.retired = r.retired /\ q.inferred = r.inferred
  BY <1>1, <1>6 DEF RecorderRec
<1>9. Places(q)
  <2>1. /\ {r.pending, r.collecting, r.preemptive, r.current, r.speaking, r.retired}
             \subseteq 0..Len(ts)
        /\ \A s \in Speech : /\ r.turnOf[s] \in 0..Len(ts)
                             /\ r.contested[s].carry \in 0..Len(ts)
        /\ \A st \in Stream : r.streams[st].owner \in 0..Len(ts)
    <3>1. 0..Len(r.turns) \subseteq 0..Len(ts)
      BY <1>1, <1>4
    <3>2. QED BY <1>1, <3>1, KnownFacts
  <2>2. QED BY ONLY <1>8, <2>1 DEF Places
<1>10. Identified(q) /\ PutOff(q)
  BY <1>8 DEF Sound, Identified, PutOff
<1>11. Counted(q)
  <2> SUFFICES ASSUME NEW t \in 1..Len(q.turns)
               PROVE  /\ q.turns[t].open = Cardinality(OpenOn(q, t))
                      /\ q.turns[t].awaitClose /\ ~q.turns[t].finished => q.turns[t].open > 0
    BY DEF Counted
  <2>1. OpenOn(q, t) = OpenOn(r, t)
    BY <1>8 DEF OpenOn
  <2>2. CASE t \in 1..Len(r.turns)
    BY <1>4, <1>8, <2>1, <2>2 DEF Sound, Counted
  <2>3. CASE t = Len(r.turns) + 1
    <3>1. OpenOn(r, t) = {}
      BY <1>1, <2>3, KnownFacts DEF OpenOn
    <3>2. Cardinality(OpenOn(q, t)) = 0
      BY <2>1, <3>1, FS_EmptySet
    <3>3. q.turns[t] = FreshTurn /\ FreshTurn.open = 0 /\ ~FreshTurn.awaitClose
      BY <1>4, <1>8, <2>3 DEF FreshTurn
    <3>4. QED BY <3>2, <3>3
  <2>4. QED BY <1>1, <1>4, <1>8, <2>2, <2>3
<1>12. Worded(q)
  <2>1. ASSUME NEW t \in 1..Len(q.turns)
        PROVE  /\ q.turns[t].stt = "ended" => q.turns[t].wordsOut = q.turns[t].words
               /\ q.turns[t].stt = "none" => q.turns[t].words = 0 /\ q.turns[t].wordsOut = 0
    <3>1. CASE t \in 1..Len(r.turns)
      BY <1>4, <1>8, <3>1 DEF Sound, Worded
    <3>2. CASE t = Len(r.turns) + 1
      BY <1>4, <1>8, <3>2 DEF FreshTurn
    <3>3. QED BY <1>1, <1>4, <1>8, <3>1, <3>2
  <2>2. q.preemptive # NoTurn => q.turns[q.preemptive].stt = "none"
    BY <1>1, <1>4, <1>8, KnownFacts, SMTT(60) DEF Sound, Worded, NoTurn
  <2>3. QED BY <2>1, <2>2 DEF Worded
<1>13. Sound(q)
  BY <1>7, <1>9, <1>10, <1>11, <1>12 DEF Sound, Known
<1>14. \A t \in 1..Len(r.turns) : Later(r.turns[t], q.turns[t])
  BY <1>4, <1>8 DEF Later
<1>15. \A t \in (Len(r.turns) + 1)..Len(q.turns) : q.turns[t].words = 0
  BY <1>1, <1>4, <1>8 DEF FreshTurn
<1>16. Holds(r, q, NoSpeech)
  BY <1>1, <1>4, <1>8, <1>13, <1>14, <1>15 DEF Holds
<1>17. Carries(r, q)
  <2>1. FreshTurn.audio = 0 /\ FreshTurn.unscoped = 0 /\ Weighed(FreshTurn)
    BY DEF FreshTurn, Weighed
  <2>2. Known(q)
    BY <1>13 DEF Sound
  <2>3. Heard(q) = Heard(r)
    <3>1. \A x \in 1..Len(q.turns) :
            q.turns[x].audio = (IF x \in 1..Len(r.turns) THEN r.turns[x].audio ELSE 0)
                               + (IF x = 0 THEN 0 ELSE 0)
      <4>1. ASSUME NEW x \in 1..Len(q.turns)
            PROVE  q.turns[x].audio = IF x \in 1..Len(r.turns) THEN r.turns[x].audio ELSE 0
        BY <1>1, <1>4, <1>8, <2>1
      <4>2. \A x \in 1..Len(r.turns) : r.turns[x].audio \in Nat
        BY <1>1, HeardIs
      <4>3. QED BY <4>1, <4>2
    <3>2. AudioOf(q) = AudioOf(r) + (IF 0 \in 1..Len(q.turns) THEN 0 ELSE 0)
      <4>1. Len(r.turns) <= Len(q.turns) /\ 0 \in Nat
        BY <1>1, <1>4, <1>8
      <4>2. QED BY <1>1, <2>2, <3>1, <4>1, MoreAudio
    <3>3. HeldOf(q) = HeldOf(r)
      BY <1>8 DEF HeldOf, HeldIn
    <3>4. QED BY <1>1, <2>2, <3>2, <3>3, HeardIs
  <2>4. ASSUME NEW w \in [Stream -> Nat], Balanced(r, w)
        PROVE  Balanced(q, w)
    <3>1. ASSUME NEW t \in 1..Len(q.turns)
          PROVE  /\ Weighed(q.turns[t])
                 /\ q.turns[t].audio = q.turns[t].unscoped + SumFunctionOnSet(w, StreamsOf(q, t))
      <4>1. StreamsOf(q, t) = StreamsOf(r, t)
        BY <1>8 DEF StreamsOf
      <4>2. CASE t \in 1..Len(r.turns)
        BY <1>4, <1>8, <2>4, <4>1, <4>2 DEF Balanced
      <4>3. CASE t = Len(r.turns) + 1
        <5>1. StreamsOf(r, t) = {}
          BY <1>1, <4>3, KnownFacts DEF StreamsOf
        <5>2. SumFunctionOnSet(w, {}) = 0
          BY SumFacts, FS_EmptySet
        <5>3. q.turns[t] = FreshTurn
          BY <1>4, <1>8, <4>3
        <5>4. QED BY <2>1, <4>1, <5>1, <5>2, <5>3
      <4>4. QED BY <1>1, <1>4, <1>8, <4>2, <4>3
    <3>2. \A st \in Stream : q.streams[st].held = IF q.streams[st].owner = NoTurn THEN w[st] ELSE 0
      BY <1>8, <2>4 DEF Balanced
    <3>3. Guessed(q, w) <=> Guessed(r, w)
      <4>1. (\E t \in 1..Len(q.turns) : q.turns[t].unscoped > 0)
              <=> \E t \in 1..Len(r.turns) : r.turns[t].unscoped > 0
        <5>1. 1..Len(q.turns) = (1..Len(r.turns)) \cup {Len(r.turns) + 1}
          BY <1>1, <1>4, <1>8
        <5>2. \A t \in 1..Len(r.turns) : q.turns[t].unscoped = r.turns[t].unscoped
          BY <1>4, <1>8
        <5>3. ~(q.turns[Len(r.turns) + 1].unscoped > 0)
          BY <1>4, <1>8, <2>1
        <5>4. QED BY <5>1, <5>2, <5>3
      <4>2. QED BY <1>8, <4>1 DEF Guessed
    <3>4. QED BY <1>8, <2>4, <3>1, <3>2, <3>3 DEF Balanced
  <2>5. QED BY <2>3, <2>4 DEF Carries
<1>18. Keeps(r, q, NoSpeech)
  BY <1>16, <1>17 DEF Keeps
<1>19. QED BY <1>4, <1>5, <1>6, <1>8, <1>18

\* What pinning does to a recorder besides keeping it sound.
Pinned(r, q) ==
  /\ Keeps(r, q, NoSpeech) /\ Len(q.turns) = Len(r.turns)
  /\ q.turnOf = r.turnOf /\ q.contested = r.contested
  /\ q.preemptive = r.preemptive
  /\ \A t \in 1..Len(r.turns) : q.turns[t].source = r.turns[t].source
  /\ \A st \in Stream : q.streams[st].status = r.streams[st].status

LEMMA PinStreamPins ==
  ASSUME NEW r, Sound(r), NEW st \in Stream, NEW t \in 1..Len(r.turns),
         r.streams[st].owner = NoTurn, r.streams[st].status # "unused",
         r.streams[st].sid # NoSpeech => t = r.turnOf[r.streams[st].sid]
  PROVE  /\ Pinned(r, PinStream(r, st, t))
         /\ PinStream(r, st, t).streams[st].owner = t
         /\ \A x \in Stream \ {st} : PinStream(r, st, t).streams[x] = r.streams[x]
<1>1. /\ Known(r) /\ r \in RecorderRec /\ r.turns \in Seq(TurnRec) /\ Len(r.turns) \in Nat
      /\ t # NoTurn /\ t \in Nat
  BY KnownFacts DEF Sound, NoTurn
<1>2. PICK u, stream : u = r.turns[t] /\ stream = r.streams[st]
  OBVIOUS
<1>3. u \in TurnRec /\ stream \in StreamRec /\ r.streams \in [Stream -> StreamRec]
      /\ r.inferred \in BOOLEAN
  BY <1>1, <1>2, KnownFacts DEF RecorderRec
<1>4. /\ u.open \in Nat /\ u.audio \in Nat /\ stream.held \in Nat /\ u.open = Cardinality(OpenOn(r, t))
      /\ u.awaitClose /\ ~u.finished => u.open > 0
  <2>1. u.audio \in Nat /\ stream.held \in Nat
    BY <1>3 DEF TurnRec, StreamRec
  <2>2. QED BY <1>2, <2>1, CountedOn DEF Sound, Counted
<1>5. PICK n : n = (IF stream.status = "open" THEN u.open + 1 ELSE u.open) /\ n \in Nat
  BY <1>4
<1>6. PICK a : a = u.audio + stream.held /\ a \in Nat
  BY <1>4
<1>7. PICK f : f = (r.inferred \/ (stream.sid = NoSpeech /\ stream.held > 0)) /\ f \in BOOLEAN
  BY <1>3
<1>8. PICK v : v = [u EXCEPT !.open = n, !.audio = a]
  OBVIOUS
<1>9. PICK pinned : pinned = [stream EXCEPT !.owner = t, !.held = 0]
  OBVIOUS
<1>10. v \in TurnRec /\ pinned \in StreamRec
  <2>1. v \in TurnRec
    BY <1>3, <1>5, <1>6, <1>8, ZenonT(60) DEF TurnRec
  <2>2. pinned \in StreamRec
    BY <1>1, <1>3, <1>9 DEF StreamRec
  <2>3. QED BY <2>1, <2>2
<1>11. /\ v.source = u.source /\ v.open = n /\ v.words = u.words /\ v.stt = u.stt
       /\ v.wordsOut = u.wordsOut /\ v.awaitClose = u.awaitClose /\ v.finished = u.finished
       /\ v.audio = a /\ v.unscoped = u.unscoped /\ v.played = u.played
       /\ v.unscopedThen = u.unscopedThen /\ v.snapshot = u.snapshot
  BY <1>3, <1>8 DEF TurnRec
<1>12. pinned.status = stream.status /\ pinned.sid = stream.sid /\ pinned.owner = t
       /\ pinned.held = 0
  BY <1>3, <1>9 DEF StreamRec
<1>13. PICK ts : ts = [r.turns EXCEPT ![t] = v]
  OBVIOUS
<1>14. /\ ts \in Seq(TurnRec) /\ Len(ts) = Len(r.turns)
       /\ \A x \in 1..Len(r.turns) : ts[x] = IF x = t THEN v ELSE r.turns[x]
  BY <1>1, <1>10, <1>13, ReplaceTurn
<1>15. PICK ss : ss = [r.streams EXCEPT ![st] = pinned]
  OBVIOUS
<1>16. /\ ss \in [Stream -> StreamRec] /\ ss[st] = pinned
       /\ \A x \in Stream \ {st} : ss[x] = r.streams[x]
  BY <1>3, <1>10, <1>15
<1>17. PICK q : q = [r EXCEPT !.turns = ts, !.streams = ss, !.inferred = f]
  OBVIOUS
<1>18. PinStream(r, st, t) = q
  <2>1. PICK ow : ow = [stream EXCEPT !.owner = t]
    OBVIOUS
  <2>2. PICK up : up = [u EXCEPT !.open = n]
    OBVIOUS
  <2>3. PICK os : os = [r.streams EXCEPT ![st] = ow]
    OBVIOUS
  <2>4. PICK us : us = [r.turns EXCEPT ![t] = up]
    OBVIOUS
  <2>5. PICK owned : owned = [r EXCEPT !.streams = os, !.turns = us]
    OBVIOUS
  <2>6. owned = [r EXCEPT !.streams[st].owner = t,
                          !.turns[t].open = IF stream.status = "open" THEN @ + 1 ELSE @]
    BY <1>2, <1>5, <2>1, <2>2, <2>3, <2>4, <2>5
  <2>7. owned.streams = os /\ owned.turns = us /\ owned.inferred = r.inferred
    BY <1>1, <2>5 DEF RecorderRec
  <2>8. os[st] = ow /\ us[t] = up /\ ow.sid = stream.sid /\ ow.held = stream.held
        /\ up.audio = u.audio
    <3>1. os[st] = ow /\ us[t] = up
      BY <1>1, <1>3, <2>3, <2>4
    <3>2. ow.sid = stream.sid /\ ow.held = stream.held
      BY <1>3, <2>1 DEF StreamRec
    <3>3. up.audio = u.audio
      BY <1>3, <2>2 DEF TurnRec
    <3>4. QED BY <3>1, <3>2, <3>3
  <2>9. [ow EXCEPT !.held = 0] = pinned /\ [up EXCEPT !.audio = a] = v
    BY <1>3, <1>8, <1>9, <2>1, <2>2 DEF StreamRec, TurnRec
  <2>10. [os EXCEPT ![st] = pinned] = ss /\ [us EXCEPT ![t] = v] = ts
    BY <1>1, <1>3, <1>13, <1>15, <2>3, <2>4
  <2>11. [owned EXCEPT !.streams = ss, !.turns = ts, !.inferred = f] = q
    BY ONLY <1>1, <1>17, <2>5 DEF RecorderRec
  <2>12. FlushStreamBuffer(owned, st, t) = [owned EXCEPT !.streams = ss, !.turns = ts, !.inferred = f]
    BY ONLY <1>6, <1>7, <2>7, <2>8, <2>9, <2>10 DEF FlushStreamBuffer
  <2>13. PinStream(r, st, t) = FlushStreamBuffer(owned, st, t)
    BY ONLY <1>1, <1>2, <2>6, r.streams[st].owner = NoTurn DEF PinStream
  <2>14. QED BY <2>11, <2>12, <2>13
<1>19. q \in RecorderRec
  BY <1>1, <1>7, <1>14, <1>16, <1>17 DEF RecorderRec
<1>20. /\ q.turns = ts /\ q.current = r.current /\ q.turnOf = r.turnOf
       /\ q.contested = r.contested /\ q.preemptive = r.preemptive /\ q.streams = ss
       /\ q.pending = r.pending /\ q.collecting = r.collecting /\ q.speaking = r.speaking
       /\ q.retired = r.retired /\ q.inferred = f
  BY <1>1, <1>17 DEF RecorderRec
<1>21. Places(q)
  <2>1. \A x \in Stream : q.streams[x].owner \in 0..Len(q.turns)
    BY <1>1, <1>12, <1>14, <1>16, <1>20, KnownFacts
  <2>2. {q.pending, q.collecting, q.preemptive, q.current, q.speaking, q.retired}
          \subseteq 0..Len(q.turns)
    BY <1>1, <1>14, <1>20, KnownFacts
  <2>3. \A x \in Speech : /\ q.turnOf[x] \in 0..Len(q.turns)
                          /\ q.contested[x].carry \in 0..Len(q.turns)
    BY <1>1, <1>14, <1>20, KnownFacts
  <2>4. QED BY <2>1, <2>2, <2>3 DEF Places
<1>22. Identified(q)
  BY <1>2, <1>12, <1>16, <1>20 DEF Sound, Identified
<1>23. Counted(q)
  <2> SUFFICES ASSUME NEW x \in 1..Len(q.turns)
               PROVE  /\ q.turns[x].open = Cardinality(OpenOn(q, x))
                      /\ q.turns[x].awaitClose /\ ~q.turns[x].finished => q.turns[x].open > 0
    BY DEF Counted
  <2>1. x \in 1..Len(r.turns)
    BY <1>14, <1>20
  <2>2. CASE x # t
    <3>1. OpenOn(q, x) = OpenOn(r, x)
      BY <1>1, <1>2, <1>12, <1>16, <1>20, <2>1, <2>2 DEF OpenOn, NoTurn
    <3>2. q.turns[x] = r.turns[x]
      BY <1>14, <1>20, <2>1, <2>2
    <3>3. QED BY <2>1, <3>1, <3>2 DEF Sound, Counted
  <2>3. CASE x = t
    <3>1. st \notin OpenOn(r, t)
      BY <1>1 DEF OpenOn
    <3>2. OpenOn(q, t) = IF stream.status = "open" THEN OpenOn(r, t) \cup {st} ELSE OpenOn(r, t)
      BY <1>1, <1>2, <1>12, <1>16, <1>20 DEF OpenOn
    <3>3. Cardinality(OpenOn(r, t) \cup {st}) = Cardinality(OpenOn(r, t)) + 1
      BY <3>1, CountedOn, FS_AddElement
    <3>4. q.turns[t] = v
      BY <1>14, <1>20
    <3>5. v.open = Cardinality(OpenOn(q, t))
      BY <1>4, <1>5, <1>11, <3>2, <3>3
    <3>6. v.awaitClose /\ ~v.finished => v.open > 0
      BY <1>4, <1>5, <1>11
    <3>7. QED BY <2>3, <3>4, <3>5, <3>6
  <2>4. QED BY <2>2, <2>3
<1>24. Worded(q)
  <2>1. ASSUME NEW x \in 1..Len(q.turns)
        PROVE  /\ q.turns[x].stt = r.turns[x].stt /\ q.turns[x].words = r.turns[x].words
               /\ q.turns[x].wordsOut = r.turns[x].wordsOut
    BY <1>2, <1>11, <1>14, <1>20, <2>1
  <2>2. q.preemptive # NoTurn => q.preemptive \in 1..Len(q.turns)
    BY <1>1, <1>14, <1>20, KnownFacts DEF NoTurn
  <2>3. QED BY <1>14, <1>20, <2>1, <2>2 DEF Sound, Worded
<1>25. PutOff(q)
  BY <1>20 DEF Sound, PutOff
<1>26. Sound(q)
  BY <1>19, <1>21, <1>22, <1>23, <1>24, <1>25 DEF Sound, Known
<1>27. \A x \in 1..Len(r.turns) : /\ q.turns[x].source = r.turns[x].source
                                  /\ q.turns[x].words = r.turns[x].words
  BY <1>2, <1>11, <1>14, <1>20
<1>28. \A x \in Stream : /\ q.streams[x].sid = r.streams[x].sid
                         /\ q.streams[x].status = r.streams[x].status
                         /\ r.streams[x].owner # NoTurn => q.streams[x].owner = r.streams[x].owner
  BY <1>2, <1>12, <1>16, <1>20
<1>29. Keeps(r, q, NoSpeech)
  <2>1. Holds(r, q, NoSpeech)
    BY <1>1, <1>14, <1>20, <1>26, <1>27, <1>28 DEF Holds, Later
  <2>2. Known(q)
    BY <1>26 DEF Sound
  <2>3. Heard(q) = Heard(r)
    <3>1. \A x \in 1..Len(q.turns) :
            q.turns[x].audio = (IF x \in 1..Len(r.turns) THEN r.turns[x].audio ELSE 0)
                               + (IF x = t THEN stream.held ELSE 0)
      <4>1. \A x \in 1..Len(r.turns) : r.turns[x].audio \in Nat
        BY <1>1, HeardIs
      <4>2. QED BY <1>2, <1>6, <1>11, <1>14, <1>20, <4>1
    <3>2. AudioOf(q) = AudioOf(r) + stream.held
      <4>1. Len(r.turns) <= Len(q.turns) /\ t \in 1..Len(q.turns)
        BY <1>1, <1>14, <1>20
      <4>2. AudioOf(q) = AudioOf(r) + (IF t \in 1..Len(q.turns) THEN stream.held ELSE 0)
        BY <1>1, <1>4, <2>2, <3>1, <4>1, MoreAudio
      <4>3. QED BY <4>1, <4>2
    <3>3. HeldOf(r) = HeldOf(q) + stream.held
      <4>1. \A x \in Stream :
              r.streams[x].held = q.streams[x].held + (IF x = st THEN stream.held ELSE 0)
        <5>1. \A x \in Stream : r.streams[x].held \in Nat
          BY <1>1, HeardIs
        <5>2. QED BY <1>2, <1>4, <1>12, <1>16, <1>20, <5>1
      <4>2. QED BY <1>1, <1>4, <2>2, <4>1, MoreHeld
    <3>4. QED BY <1>1, <1>4, <2>2, <3>2, <3>3, HeardIs
  <2>4. ASSUME NEW w \in [Stream -> Nat], Balanced(r, w)
        PROVE  Balanced(q, w)
    <3>1. stream.held = w[st]
      BY <1>2, <2>4 DEF Balanced
    <3>2. StreamsOf(q, t) = StreamsOf(r, t) \cup {st} /\ st \notin StreamsOf(r, t)
      BY <1>1, <1>12, <1>16, <1>20 DEF StreamsOf
    <3>3. SumFunctionOnSet(w, StreamsOf(q, t)) = SumFunctionOnSet(w, StreamsOf(r, t)) + stream.held
      <4>1. StreamsOf(r, t) \in SUBSET Stream
        BY DEF StreamsOf
      <4>2. QED BY <3>1, <3>2, <4>1, OneMoreStream
    <3>4. u.audio = u.unscoped + SumFunctionOnSet(w, StreamsOf(r, t)) /\ Weighed(u)
      BY <1>2, <2>4 DEF Balanced
    <3>5. SumFunctionOnSet(w, StreamsOf(r, t)) \in Nat /\ u.unscoped \in Nat
      <4>1. IsFiniteSet(StreamsOf(r, t)) /\ \A x \in StreamsOf(r, t) : w[x] \in Nat
        BY TurnsAssumption, FS_Subset DEF StreamsOf
      <4>2. u.unscoped \in Nat
        BY <1>3 DEF TurnRec
      <4>3. QED BY <4>1, <4>2, SumFacts
    <3>6. Weighed(v)
      <4>1. u.played \in Nat
        BY <1>3 DEF TurnRec
      <4>2. QED BY <1>4, <1>6, <1>11, <3>4, <3>5, <4>1, SMTT(60) DEF Weighed
    <3>7. v.audio = v.unscoped + SumFunctionOnSet(w, StreamsOf(q, t))
      BY <1>4, <1>6, <1>11, <3>3, <3>4, <3>5, SMTT(60)
    <3>8. ASSUME NEW x \in 1..Len(q.turns)
          PROVE  /\ Weighed(q.turns[x])
                 /\ q.turns[x].audio = q.turns[x].unscoped + SumFunctionOnSet(w, StreamsOf(q, x))
      <4>1. CASE x = t
        BY <1>14, <1>20, <3>6, <3>7, <4>1
      <4>2. CASE x # t
        <5>1. StreamsOf(q, x) = StreamsOf(r, x)
          <6>1. x # NoTurn /\ r.streams[st].owner = NoTurn /\ q.streams[st].owner = t
            BY <1>1, <1>12, <1>14, <1>16, <1>20 DEF NoTurn
          <6>2. \A y \in Stream \ {st} : q.streams[y] = r.streams[y]
            BY <1>16, <1>20
          <6>3. QED BY <4>2, <6>1, <6>2 DEF StreamsOf
        <5>2. QED BY <1>14, <1>20, <2>4, <4>2, <5>1 DEF Balanced
      <4>3. QED BY <4>1, <4>2
    <3>9. \A x \in Stream : q.streams[x].held = IF q.streams[x].owner = NoTurn THEN w[x] ELSE 0
      BY <1>1, <1>12, <1>16, <1>20, <2>4 DEF Balanced
    <3>10. Guessed(q, w) <=> Guessed(r, w) \/ (stream.sid = NoSpeech /\ stream.held > 0)
      <4>1. /\ Len(q.turns) = Len(r.turns)
            /\ \A x \in 1..Len(r.turns) : q.turns[x].unscoped = r.turns[x].unscoped
        BY <1>2, <1>11, <1>14, <1>20
      <4>2. /\ q.streams[st].owner # NoTurn /\ q.streams[st].sid = stream.sid
            /\ r.streams[st].owner = NoTurn
            /\ \A x \in Stream \ {st} : q.streams[x] = r.streams[x]
        BY <1>1, <1>12, <1>16, <1>20
      <4>3. QED BY ONLY <3>1, <4>1, <4>2, st \in Stream DEF Guessed
    <3>11. q.inferred <=> Guessed(q, w)
      BY <1>7, <1>20, <2>4, <3>10 DEF Balanced
    <3>12. QED BY <3>8, <3>9, <3>11 DEF Balanced
  <2>5. Carries(r, q)
    BY <2>3, <2>4 DEF Carries
  <2>6. QED BY <2>1, <2>5 DEF Keeps
<1>30. Pinned(r, q)
  BY <1>14, <1>20, <1>27, <1>28, <1>29 DEF Pinned
<1>31. QED BY <1>12, <1>16, <1>18, <1>20, <1>30

LEMMA PinnedReflexive ==
  ASSUME NEW r, Sound(r) PROVE Pinned(r, r)
  BY KeepsReflexive DEF Pinned

LEMMA PinnedTransitive ==
  ASSUME NEW r, NEW p, NEW q, Sound(r), Pinned(r, p), Pinned(p, q)
  PROVE  Pinned(r, q)
<1>1. Keeps(r, q, NoSpeech)
  BY KeepsTransitive DEF Pinned
<1>2. QED BY <1>1 DEF Pinned

\* The recorders on the way from r, as the streams of a set in D are pinned to turn t.
Pins(f, r, t, D) ==
  f = [T \in D |-> IF T = {} THEN r
                   ELSE PinStream(f[T \ {First(T)}], First(T), t)]

LEMMA PinsExist ==
  ASSUME NEW W, IsFiniteSet(W), NEW r, NEW t
  PROVE  \E f : Pins(f, r, t, SUBSET W)
<1>1. \A T \in SUBSET W : IsFiniteSet(T) /\ Cardinality(T) \in Nat
  BY FS_Subset, FS_CardinalityType
<1>2. ASSUME NEW T \in SUBSET W, NEW x \in T
      PROVE  Cardinality(T \ {x}) = Cardinality(T) - 1
  BY <1>1, FS_RemoveElement
<1>3. \A U \in SUBSET W : \E f : Pins(f, r, t, UpTo(W, U))
  <2> DEFINE D == {U \in SUBSET W : ~ \E f : Pins(f, r, t, UpTo(W, U))}
  <2> SUFFICES ASSUME D # {} PROVE FALSE
    OBVIOUS
  <2>1. PICK U \in D : \A V \in D : ~(V \subseteq U /\ V # U)
    <3>1. D \in SUBSET SUBSET W
      OBVIOUS
    <3> HIDE DEF D
    <3>2. QED BY <3>1, Minimal
  <2>2. U \in SUBSET W /\ ~ \E f : Pins(f, r, t, UpTo(W, U))
    OBVIOUS
  <2>3. CASE U = {}
    <3>1. UpTo(W, U) = {{}}
      BY <1>1, <2>3, FS_EmptySet DEF UpTo
    <3>2. PICK f : f = [T \in {{}} |-> r]
      OBVIOUS
    <3>3. f = [T \in {{}} |-> IF T = {} THEN r
                ELSE PinStream(f[T \ {First(T)}], First(T), t)]
      BY <3>2
    <3>4. Pins(f, r, t, UpTo(W, U))
      BY <3>1, <3>3 DEF Pins
    <3>5. QED BY <2>2, <3>4
  <2>4. CASE U # {}
    <3>1. PICK x : x \in U
      BY <2>4
    <3>2. PICK V : V = U \ {x}
      OBVIOUS
    <3>3. V \in SUBSET W /\ V \subseteq U /\ V # U /\ Cardinality(V) = Cardinality(U) - 1
      BY <1>2, <2>2, <3>1, <3>2
    <3>4. PICK f : Pins(f, r, t, UpTo(W, V))
      BY <2>1, <3>3
    <3>5. PICK g : g = [T \in UpTo(W, U) |-> IF T = {} THEN r
                ELSE PinStream(f[T \ {First(T)}], First(T), t)]
      OBVIOUS
    <3>6. UpTo(W, V) \subseteq UpTo(W, U)
      BY <1>1, <2>2, <3>3 DEF UpTo
    <3>7. ASSUME NEW T \in UpTo(W, V) PROVE g[T] = f[T]
      BY <3>4, <3>5, <3>6, <3>7 DEF Pins
    <3>8. ASSUME NEW T \in UpTo(W, U), T # {}
          PROVE  T \ {First(T)} \in UpTo(W, V)
      <4>1. PICK y : y = First(T)
        OBVIOUS
      <4>2. y \in T /\ T \in SUBSET W /\ Cardinality(T) <= Cardinality(U)
        BY <3>8, <4>1 DEF UpTo, First
      <4>3. T \ {y} \in SUBSET W /\ Cardinality(T \ {y}) = Cardinality(T) - 1
        BY <1>2, <4>2
      <4>4. Cardinality(T \ {y}) <= Cardinality(V)
        BY <1>1, <2>2, <3>3, <4>2, <4>3
      <4>5. QED BY <4>1, <4>3, <4>4 DEF UpTo
    <3>9. g = [T \in UpTo(W, U) |-> IF T = {} THEN r
                ELSE PinStream(g[T \ {First(T)}], First(T), t)]
      BY <3>5, <3>7, <3>8
    <3>10. QED BY <2>2, <3>9 DEF Pins
  <2>5. QED BY <2>3, <2>4
<1>4. UpTo(W, W) = SUBSET W
  BY <1>1, FS_Subset DEF UpTo
<1>5. QED BY <1>3, <1>4, ZenonT(60)

LEMMA ResolveDeferredFolds ==
  ASSUME NEW r, NEW s, NEW t, IsFiniteSet(WaitingFor(r, s))
  PROVE  \E f : Pins(f, r, t, SUBSET WaitingFor(r, s))
                /\ ResolveDeferred(r, s, t) = f[WaitingFor(r, s)]
<1>1. PICK W : W = WaitingFor(r, s)
  OBVIOUS
<1>2. \E f : Pins(f, r, t, SUBSET W)
  BY <1>1, PinsExist
<1>3. \E f : Pins(f, r, t, SUBSET W) /\ ResolveDeferred(r, s, t) = f[W]
  BY <1>1, <1>2, ZenonT(60) DEF Pins, First, ResolveDeferred, FoldSet, MapThenFoldSet
<1>4. QED BY <1>1, <1>3

\* Every stream that waited for the speech is on its turn, and no other has moved.
LEMMA ResolveDeferredPins ==
  ASSUME NEW r, Sound(r), NEW s \in Speech, NEW t \in 1..Len(r.turns), t = r.turnOf[s]
  PROVE  /\ Pinned(r, ResolveDeferred(r, s, t))
         /\ \A st \in Stream : r.streams[st].sid = s =>
              ResolveDeferred(r, s, t).streams[st].owner # NoTurn
<1>1. PICK W : W = WaitingFor(r, s)
  OBVIOUS
<1>2. W \subseteq Stream /\ IsFiniteSet(W)
  BY <1>1, TurnsAssumption, FS_Subset DEF WaitingFor
<1>3. PICK f : Pins(f, r, t, SUBSET W) /\ ResolveDeferred(r, s, t) = f[W]
  BY <1>1, <1>2, ResolveDeferredFolds
<1>4. t \in Nat /\ t # NoTurn /\ s # NoSpeech
  BY TurnsAssumption, KnownFacts DEF Sound, NoTurn
<1> DEFINE Good(T) == /\ Pinned(r, f[T])
                      /\ \A st \in T : f[T].streams[st].owner = t
                      /\ \A st \in Stream \ T : f[T].streams[st] = r.streams[st]
<1>5. \A T \in SUBSET W : Good(T)
  <2> DEFINE D == {T \in SUBSET W : ~Good(T)}
  <2> SUFFICES ASSUME D # {} PROVE FALSE
    OBVIOUS
  <2>1. PICK T \in D : \A V \in D : ~(V \subseteq T /\ V # T)
    <3>1. D \in SUBSET SUBSET W
      OBVIOUS
    <3> HIDE DEF D
    <3>2. QED BY <1>2, <3>1, Minimal
  <2>2. T \in SUBSET W /\ ~Good(T)
    OBVIOUS
  <2>3. CASE T = {}
    <3>1. f[T] = r
      BY <1>3, <2>2, <2>3 DEF Pins
    <3>2. QED BY <2>2, <2>3, <3>1, PinnedReflexive
  <2>4. CASE T # {}
    <3>1. PICK x : x = First(T)
      OBVIOUS
    <3>2. x \in T /\ x \in W /\ x \in Stream
      BY <1>2, <2>2, <2>4, <3>1 DEF First
    <3>3. PICK U : U = T \ {x}
      OBVIOUS
    <3>4. U \in SUBSET W /\ U \subseteq T /\ U # T /\ x \notin U /\ T = U \cup {x}
      BY <2>2, <3>2, <3>3
    <3>5. f[T] = PinStream(f[U], x, t)
      BY <1>3, <2>2, <2>4, <3>1, <3>3 DEF Pins
    <3>6. Good(U)
      BY <2>1, <3>4
    <3>7. PICK p : p = f[U]
      BY SMTT(60)
    <3>8. /\ Pinned(r, p) /\ Sound(p) /\ Len(p.turns) = Len(r.turns) /\ p.turnOf = r.turnOf
          /\ p.streams[x] = r.streams[x]
      BY <3>2, <3>4, <3>6, <3>7 DEF Pinned, Keeps, Holds
    <3>9. /\ p.streams[x].owner = NoTurn /\ p.streams[x].sid = s
          /\ p.streams[x].status # "unused"
      BY <1>1, <1>4, <3>2, <3>8 DEF WaitingFor, Sound, Identified
    <3>10. /\ Pinned(p, PinStream(p, x, t)) /\ PinStream(p, x, t).streams[x].owner = t
           /\ \A y \in Stream \ {x} : PinStream(p, x, t).streams[y] = p.streams[y]
      BY <3>2, <3>8, <3>9, PinStreamPins
    <3>11. Pinned(r, f[T])
      BY <3>5, <3>7, <3>8, <3>10, PinnedTransitive, SMTT(60)
    <3>12. Good(T)
      BY <1>2, <3>2, <3>4, <3>5, <3>6, <3>7, <3>10, <3>11
    <3>13. QED BY <2>2, <3>12
  <2>5. QED BY <2>3, <2>4
<1>6. Good(W)
  BY <1>5
<1>7. ASSUME NEW st \in Stream, r.streams[st].sid = s PROVE f[W].streams[st].owner # NoTurn
  <2>1. CASE st \in W
    BY <1>4, <1>6, <2>1, SMTT(60)
  <2>2. CASE st \notin W
    BY <1>1, <1>6, <1>7, <2>2 DEF WaitingFor
  <2>3. QED BY <2>1, <2>2
<1>8. QED BY <1>3, <1>6, <1>7

-------------------------------------------------------------------------------
(* Binding a reply *)

LEMMA SameBooks ==
  ASSUME NEW r, NEW q, q.turns = r.turns, q.streams = r.streams, q.inferred = r.inferred
  PROVE  Quiet(r, q)
  BY DEF Quiet, Rests

\* Who is on stage may change at any time.
LEMMA Restaged ==
  ASSUME NEW r, Known(r), NEW q \in RecorderRec, q.turns = r.turns, q.turnOf = r.turnOf,
         q.contested = r.contested, q.preemptive = r.preemptive, q.streams = r.streams,
         q.inferred = r.inferred,
         {q.pending, q.collecting, q.current, q.speaking, q.retired} \subseteq 0..Len(r.turns)
  PROVE  Continues(r, q)
<1>1. Places(q)
  BY KnownFacts DEF Places
<1>2. Proceeds(r, q)
  BY <1>1, GoesOnReflexive DEF Proceeds, Known, SameStreams
<1>3. QED BY <1>2, SameBooks DEF Continues

\* A turn's reply is named, and nothing else of it changes that the books rest on.
Relabels(u, v) ==
  /\ v.open = u.open /\ v.words = u.words /\ v.stt = u.stt /\ v.wordsOut = u.wordsOut
  /\ v.awaitClose = u.awaitClose /\ v.finished = u.finished
  /\ u.source # "none" => v.source # "none"
  /\ u.source = "generate_reply" => v.source = "generate_reply"

\* Speech s gets turn t, and the turn a label.
LEMMA TurnGiven ==
  ASSUME NEW r, Sound(r), NEW s \in Speech, NEW t \in 1..Len(r.turns), NEW v \in TurnRec,
         r.turnOf[s] \in {NoTurn, t}, r.contested[s] = Uncontested,
         Relabels(r.turns[t], v), Rests(r.turns[t], v),
         NEW q \in RecorderRec, q.turns = [r.turns EXCEPT ![t] = v],
         q.turnOf = [r.turnOf EXCEPT ![s] = t],
         q.contested = r.contested, q.preemptive = r.preemptive, q.streams = r.streams,
         q.inferred = r.inferred,
         {q.pending, q.collecting, q.current, q.speaking, q.retired} \subseteq 0..Len(r.turns)
  PROVE  /\ Keeps(r, q, s) /\ q.turnOf[s] = t /\ Len(q.turns) = Len(r.turns)
         /\ q.turns[t] = v /\ q.contested[s] = Uncontested
<1>1. /\ Known(r) /\ r \in RecorderRec /\ r.turns \in Seq(TurnRec) /\ Len(r.turns) \in Nat
      /\ r.turns[t] \in TurnRec /\ t # NoTurn /\ r.turnOf \in [Speech -> Nat]
  BY KnownFacts DEF Sound, NoTurn
<1>2. /\ Len(q.turns) = Len(r.turns)
      /\ \A x \in 1..Len(r.turns) : q.turns[x] = IF x = t THEN v ELSE r.turns[x]
  BY <1>1, ReplaceTurn
<1>3. \A x \in Speech : q.turnOf[x] = IF x = s THEN t ELSE r.turnOf[x]
  BY <1>1
<1>4. Places(q)
  BY <1>1, <1>2, <1>3, KnownFacts DEF Places
<1>5. Identified(q)
  <2> SUFFICES ASSUME NEW st \in Stream
               PROVE  /\ q.streams[st].status = "unused" =>
                           q.streams[st].sid = NoSpeech /\ q.streams[st].owner = NoTurn
                      /\ q.streams[st].sid # NoSpeech /\ q.streams[st].owner # NoTurn =>
                           q.streams[st].owner = q.turnOf[q.streams[st].sid]
    BY DEF Identified
  <2>1. r.streams[st].sid \in Speech \cup {NoSpeech}
    BY <1>1 DEF RecorderRec, StreamRec
  <2>2. QED BY <1>1, <1>3, <2>1, SMTT(60) DEF Sound, Identified
<1>6. /\ v.open = r.turns[t].open /\ v.words = r.turns[t].words /\ v.stt = r.turns[t].stt
      /\ v.awaitClose = r.turns[t].awaitClose /\ v.finished = r.turns[t].finished
      /\ v.wordsOut = r.turns[t].wordsOut
  BY DEF Relabels
<1>7. Counted(q)
  <2> SUFFICES ASSUME NEW x \in 1..Len(q.turns)
               PROVE  /\ q.turns[x].open = Cardinality(OpenOn(q, x))
                      /\ q.turns[x].awaitClose /\ ~q.turns[x].finished => q.turns[x].open > 0
    BY DEF Counted
  <2>1. OpenOn(q, x) = OpenOn(r, x)
    BY DEF OpenOn
  <2>2. CASE x # t
    BY <1>2, <2>1, <2>2 DEF Sound, Counted
  <2>3. CASE x = t
    <3>1. /\ r.turns[t].open = Cardinality(OpenOn(r, t))
          /\ r.turns[t].awaitClose /\ ~r.turns[t].finished => r.turns[t].open > 0
      BY DEF Sound, Counted
    <3>2. QED BY <1>2, <1>6, <2>1, <2>3, <3>1
  <2>4. QED BY <2>2, <2>3
<1>8. Worded(q)
  <2>1. ASSUME NEW x \in 1..Len(q.turns)
        PROVE  /\ q.turns[x].stt = "ended" => q.turns[x].wordsOut = q.turns[x].words
               /\ q.turns[x].stt = "none" => q.turns[x].words = 0 /\ q.turns[x].wordsOut = 0
               /\ q.turns[x].stt = "none" <=> r.turns[x].stt = "none"
    <3>1. /\ r.turns[x].stt = "ended" => r.turns[x].wordsOut = r.turns[x].words
          /\ r.turns[x].stt = "none" => r.turns[x].words = 0 /\ r.turns[x].wordsOut = 0
      BY <1>2 DEF Sound, Worded
    <3>2. CASE x # t
      BY <1>2, <3>1, <3>2
    <3>3. CASE x = t
      BY <1>2, <1>6, <3>1, <3>3
    <3>4. QED BY <3>2, <3>3
  <2>2. q.preemptive # NoTurn => q.preemptive \in 1..Len(q.turns)
    BY <1>1, <1>2, KnownFacts DEF NoTurn
  <2>3. QED BY <1>2, <2>1, <2>2, SMTT(60) DEF Sound, Worded
<1>9. PutOff(q)
  BY <1>3 DEF Sound, PutOff
<1>10. Sound(q)
  BY <1>4, <1>5, <1>7, <1>8, <1>9 DEF Sound, Known
<1>11. \A x \in 1..Len(r.turns) : Later(r.turns[x], q.turns[x])
  BY <1>2 DEF Later, Relabels
<1>12. Holds(r, q, s)
  BY <1>1, <1>2, <1>3, <1>10, <1>11 DEF Holds
<1>13. Carries(r, q)
  <2>1. Known(q)
    BY <1>10 DEF Sound
  <2>2. Quiet(r, q)
    <3>1. \A x \in 1..Len(r.turns) : Rests(r.turns[x], r.turns[x])
      BY DEF Rests
    <3>2. Rests(r.turns[t], q.turns[t])
      BY <1>2
    <3>3. \A x \in 1..Len(r.turns) : Rests(r.turns[x], q.turns[x])
      BY <1>2, <3>1, <3>2
    <3>4. QED BY <1>2, <3>3 DEF Quiet
  <2>3. QED BY <1>1, <2>1, <2>2, QuietCarries
<1>14. QED BY <1>1, <1>2, <1>3, <1>10, <1>12, <1>13 DEF Keeps

\* The streams that waited come to the turn, the reply before it retires, and its own
\* is the one that speaks.
TakesFloor(p, t, s) == [RetireReply(ResolveDeferred(p, s, t), t) EXCEPT !.speaking = t]

LEMMA TakesFloorKeeps ==
  ASSUME NEW p, Sound(p), NEW s \in Speech, NEW t \in 1..Len(p.turns), t = p.turnOf[s],
         p.contested[s] = Uncontested
  PROVE  /\ Keeps(p, TakesFloor(p, t, s), NoSpeech) /\ Answered(TakesFloor(p, t, s), s)
         /\ TakesFloor(p, t, s).turnOf[s] = t
         /\ TakesFloor(p, t, s).turns[t].source = p.turns[t].source
<1>1. PICK m : m = ResolveDeferred(p, s, t)
  OBVIOUS
<1>2. Pinned(p, m) /\ \A st \in Stream : p.streams[st].sid = s => m.streams[st].owner # NoTurn
  BY <1>1, ResolveDeferredPins
<1>3. Sound(m) /\ Known(m)
  BY <1>2 DEF Pinned, Keeps, Holds, Sound
<1>4. PICK n : n = RetireReply(m, t)
  OBVIOUS
<1>5. Continues(m, n) /\ Known(n) /\ n \in RecorderRec
  BY <1>3, <1>4, RetireReplyContinues DEF Continues, Proceeds, Known
<1>6. PICK q : q = [n EXCEPT !.speaking = t]
  OBVIOUS
<1>7. Len(n.turns) = Len(p.turns)
  BY <1>2, <1>5 DEF Pinned, Continues, Proceeds
<1>8. Continues(n, q)
  <2>1. q \in RecorderRec
    <3>1. t \in Nat
      BY KnownFacts DEF Sound
    <3>2. QED BY <1>5, <1>6, <3>1 DEF RecorderRec
  <2>2. /\ q.turns = n.turns /\ q.turnOf = n.turnOf /\ q.contested = n.contested
        /\ q.preemptive = n.preemptive /\ q.streams = n.streams /\ q.pending = n.pending
        /\ q.collecting = n.collecting /\ q.current = n.current /\ q.speaking = t
        /\ q.retired = n.retired /\ q.inferred = n.inferred
    BY <1>5, <1>6 DEF RecorderRec
  <2>3. {q.pending, q.collecting, q.current, q.speaking, q.retired} \subseteq 0..Len(n.turns)
    BY <1>5, <1>7, <2>2, KnownFacts
  <2>4. QED BY <1>5, <2>1, <2>2, <2>3, Restaged
<1>9. Continues(m, q)
  BY <1>5, <1>8, ContinuesTransitive
<1>10. Keeps(p, q, NoSpeech)
  BY <1>2, <1>3, <1>9, ContinuesKeeps, KeepsTransitive DEF Pinned
<1>11. q.turnOf = p.turnOf /\ q.contested = p.contested
  BY <1>2, <1>9 DEF Pinned, Continues, Proceeds
<1>12. \A st \in Stream : q.streams[st].sid = p.streams[st].sid
                          /\ q.streams[st].owner = m.streams[st].owner
  BY <1>9, <1>10 DEF Continues, Proceeds, SameStreams, Keeps, Holds
<1>13. q.turns[t].source = p.turns[t].source
  BY <1>2, <1>9 DEF Pinned, Continues, Proceeds, GoesOn, StepsOn
<1>14. t # NoTurn
  BY KnownFacts DEF Sound, NoTurn
<1>15. Answered(q, s)
  BY <1>2, <1>11, <1>12, <1>14 DEF Answered
<1>16. TakesFloor(p, t, s) = q
  BY <1>1, <1>4, <1>6 DEF TakesFloor
<1>17. QED BY <1>10, <1>11, <1>13, <1>15, <1>16

\* What a reply's binding brings about.
Binds(r, q, s, src) ==
  /\ Keeps(r, q, s) /\ Answered(q, s)
  /\ q.turns[q.turnOf[s]].source = src

LEMMA BindReplyBinds ==
  ASSUME NEW r, Sound(r), NEW s \in Speech, NEW t \in 1..Len(r.turns), NEW src \in Sources,
         r.turnOf[s] = NoTurn, r.contested[s] = Uncontested,
         src = "generate_reply" \/ r.turns[t].source = "none"
  PROVE  Binds(r, BindReply(r, t, s, src), s, src)
<1>1. /\ Known(r) /\ r \in RecorderRec /\ r.turns \in Seq(TurnRec) /\ Len(r.turns) \in Nat
      /\ r.turns[t] \in TurnRec /\ t # NoTurn /\ t \in Nat /\ r.turnOf \in [Speech -> Nat]
  BY KnownFacts DEF Sound, NoTurn
<1>2. PICK u : u = r.turns[t] /\ u \in TurnRec
  BY <1>1
<1>3. PICK v : v = [u EXCEPT !.toolOwed = FALSE, !.handle = s, !.source = src]
  OBVIOUS
<1>4. v \in TurnRec
  BY <1>2, <1>3, ZenonT(60) DEF TurnRec
<1>5. /\ v.source = src /\ v.open = u.open /\ v.words = u.words /\ v.stt = u.stt
      /\ v.wordsOut = u.wordsOut /\ v.awaitClose = u.awaitClose /\ v.finished = u.finished
  BY <1>2, <1>3 DEF TurnRec
<1>6. src # "none" /\ (u.source = "generate_reply" => src = "generate_reply")
  BY <1>2 DEF Sources
<1>7. Relabels(u, v)
  BY ONLY <1>5, <1>6 DEF Relabels
<1>8. Rests(u, v)
  <2>1. SameAudio(u, v)
    BY <1>2, <1>3 DEF TurnRec, SameAudio
  <2>2. QED BY <2>1, SameAudioRests
<1>9. PICK ts : ts = [r.turns EXCEPT ![t] = v]
  OBVIOUS
<1>10. PICK ofs : ofs = [r.turnOf EXCEPT ![s] = t]
  OBVIOUS
<1>11. ts \in Seq(TurnRec) /\ ofs \in [Speech -> Nat]
  BY <1>1, <1>4, <1>9, <1>10, ReplaceTurn
<1>12. PICK bound : bound = [r EXCEPT !.pending = NoTurn, !.turnOf = ofs, !.current = t, !.turns = ts]
  OBVIOUS
<1>13. bound \in RecorderRec
  BY <1>1, <1>11, <1>12 DEF RecorderRec, NoTurn
<1>14. /\ bound.turns = ts /\ bound.turnOf = ofs /\ bound.contested = r.contested
       /\ bound.preemptive = r.preemptive /\ bound.streams = r.streams
       /\ bound.pending = NoTurn /\ bound.collecting = r.collecting /\ bound.current = t
       /\ bound.speaking = r.speaking /\ bound.retired = r.retired
       /\ bound.inferred = r.inferred
  BY <1>1, <1>12 DEF RecorderRec
<1>15. {bound.pending, bound.collecting, bound.current, bound.speaking, bound.retired}
         \subseteq 0..Len(r.turns)
  BY <1>1, <1>14, KnownFacts DEF NoTurn
<1>16. /\ Keeps(r, bound, s) /\ bound.turnOf[s] = t /\ Len(bound.turns) = Len(r.turns)
       /\ bound.turns[t] = v /\ bound.contested[s] = Uncontested
  <2>1. Relabels(r.turns[t], v) /\ Rests(r.turns[t], v)
    BY ONLY <1>2, <1>7, <1>8
  <2>2. bound.turns = [r.turns EXCEPT ![t] = v] /\ bound.turnOf = [r.turnOf EXCEPT ![s] = t]
    BY ONLY <1>9, <1>10, <1>14
  <2>3. r.turnOf[s] \in {NoTurn, t} /\ r.contested[s] = Uncontested
    OBVIOUS
  <2>4. /\ bound.contested = r.contested /\ bound.preemptive = r.preemptive
        /\ bound.streams = r.streams /\ bound.inferred = r.inferred
    BY ONLY <1>14
  <2>5. Sound(r) /\ s \in Speech /\ t \in 1..Len(r.turns)
    OBVIOUS
  <2>6. QED BY ONLY <1>4, <1>13, <1>15, <2>1, <2>2, <2>3, <2>4, <2>5, TurnGiven
<1>17. BindReply(r, t, s, src) = TakesFloor(bound, t, s)
  <2>1. bound = [r EXCEPT !.pending = NoTurn, !.turnOf[s] = t, !.current = t,
                          !.turns[t].toolOwed = FALSE, !.turns[t].handle = s,
                          !.turns[t].source = src]
    <3>2. PICK q1 : q1 = [r EXCEPT !.pending = NoTurn, !.turnOf[s] = t, !.current = t]
      OBVIOUS
    <3>3. q1.turns = r.turns
      BY ONLY <1>1, <3>2 DEF RecorderRec
    <3>4. bound = [q1 EXCEPT !.turns = ts]
      BY ONLY <1>1, <1>10, <1>12, <3>2 DEF RecorderRec
    <3>5. PICK u1 : u1 = [u EXCEPT !.toolOwed = FALSE]
      OBVIOUS
    <3>6. PICK u2 : u2 = [u1 EXCEPT !.handle = s]
      OBVIOUS
    <3>7. v = [u2 EXCEPT !.source = src]
      BY ONLY <1>2, <1>3, <3>5, <3>6 DEF TurnRec
    <3>8. PICK a1 : a1 = [r.turns EXCEPT ![t] = u1]
      OBVIOUS
    <3>9. PICK a2 : a2 = [a1 EXCEPT ![t] = u2]
      OBVIOUS
    <3>10. a1[t] = u1 /\ a2[t] = u2 /\ [a2 EXCEPT ![t] = v] = ts
      BY ONLY <1>1, <1>9, <3>8, <3>9, t \in 1..Len(r.turns), SMTT(60)
    <3>11. PICK p1 : p1 = [q1 EXCEPT !.turns = a1]
      OBVIOUS
    <3>12. PICK p2 : p2 = [p1 EXCEPT !.turns = a2]
      OBVIOUS
    <3>13. p1.turns = a1 /\ p2.turns = a2 /\ [p2 EXCEPT !.turns = ts] = bound
      BY ONLY <1>1, <3>2, <3>4, <3>11, <3>12 DEF RecorderRec
    <3>14. p1 = [q1 EXCEPT !.turns[t].toolOwed = FALSE]
      BY ONLY <1>2, <3>3, <3>5, <3>8, <3>11
    <3>15. p2 = [p1 EXCEPT !.turns[t].handle = s]
      BY ONLY <3>6, <3>9, <3>10, <3>12, <3>13
    <3>16. bound = [p2 EXCEPT !.turns[t].source = src]
      BY ONLY <3>7, <3>10, <3>13
    <3>17. QED BY ONLY <3>2, <3>14, <3>15, <3>16
  <2>2. QED BY <2>1, Zenon DEF BindReply, TakesFloor
<1>18. Sound(bound)
  BY <1>16 DEF Keeps, Holds
<1>19. PICK q : q = TakesFloor(bound, t, s)
  OBVIOUS
<1>20. /\ Keeps(bound, q, NoSpeech) /\ Answered(q, s) /\ q.turnOf[s] = t
       /\ q.turns[t].source = src
  BY <1>5, <1>16, <1>18, <1>19, TakesFloorKeeps
<1>21. Keeps(r, q, s)
  BY <1>16, <1>20, KeepsWidens, KeepsTransitive
<1>22. QED BY <1>17, <1>19, <1>20, <1>21 DEF Binds

LEMMA KeepsThenBinds ==
  ASSUME NEW r, NEW p, NEW q, NEW s, NEW src, Sound(r), Keeps(r, p, s), Binds(p, q, s, src)
  PROVE  Binds(r, q, s, src)
  BY KeepsTransitive DEF Binds

\* The turn whose words are still to come may be any that has none.
LEMMA Preempted ==
  ASSUME NEW r, Sound(r), NEW t \in 0..Len(r.turns),
         t # NoTurn => r.turns[t].stt = "none"
  PROVE  LET q == [r EXCEPT !.preemptive = t]
         IN  /\ Keeps(r, q, NoSpeech) /\ q.turns = r.turns /\ q.turnOf = r.turnOf
             /\ q.contested = r.contested /\ q.streams = r.streams
<1>1. Known(r) /\ r \in RecorderRec /\ Len(r.turns) \in Nat /\ t \in Nat
  BY KnownFacts DEF Sound
<1>2. PICK q : q = [r EXCEPT !.preemptive = t]
  OBVIOUS
<1>3. q \in RecorderRec
  BY <1>1, <1>2 DEF RecorderRec
<1>4. /\ q.turns = r.turns /\ q.current = r.current /\ q.turnOf = r.turnOf
      /\ q.contested = r.contested /\ q.preemptive = t /\ q.streams = r.streams
      /\ q.pending = r.pending /\ q.collecting = r.collecting /\ q.speaking = r.speaking
      /\ q.retired = r.retired /\ q.inferred = r.inferred
  BY <1>1, <1>2 DEF RecorderRec
<1>5. Places(q)
  BY <1>1, <1>4, KnownFacts DEF Places
<1>6. Identified(q) /\ PutOff(q)
  BY <1>4 DEF Sound, Identified, PutOff
<1>7. Counted(q)
  <2>1. \A x : OpenOn(q, x) = OpenOn(r, x)
    BY <1>4 DEF OpenOn
  <2>2. QED BY <1>4, <2>1 DEF Sound, Counted
<1>8. Worded(q)
  BY <1>4 DEF Sound, Worded
<1>9. Sound(q)
  BY <1>3, <1>5, <1>6, <1>7, <1>8 DEF Sound, Known
<1>10. Keeps(r, q, NoSpeech)
  <2>1. Holds(r, q, NoSpeech)
    BY <1>1, <1>4, <1>9 DEF Holds, Later
  <2>2. QED BY <1>1, <1>4, <1>9, <2>1, SameBooks, QuietCarries DEF Keeps, Sound
<1>11. QED BY <1>2, <1>4, <1>10

LEMMA BindNewBinds ==
  ASSUME NEW r, Sound(r), NEW s \in Speech, NEW src \in Sources,
         r.turnOf[s] = NoTurn, r.contested[s] = Uncontested
  PROVE  Binds(r, BindNew(r, s, src), s, src)
<1>1. PICK p, t : p = AddTurn(r) /\ t = Newest(r) + 1
  OBVIOUS
<1>2. t = Len(r.turns) + 1 /\ Len(r.turns) \in Nat /\ r \in RecorderRec
  BY <1>1, KnownFacts DEF Sound
<1>3. /\ Keeps(r, p, NoSpeech) /\ p = [r EXCEPT !.turns = p.turns]
      /\ Len(p.turns) = t /\ p.turns[t] = FreshTurn
  BY <1>1, <1>2, AddTurnKeeps
<1>4. p.turnOf = r.turnOf /\ p.contested = r.contested
  BY <1>2, <1>3 DEF RecorderRec
<1>5. p.turns[t].source = "none" /\ t \in 1..Len(p.turns)
  BY <1>2, <1>3 DEF FreshTurn
<1>6. Sound(p) /\ Keeps(r, p, s)
  <2>1. Keeps(r, p, s)
    BY <1>3, KeepsWidens
  <2>2. QED BY <2>1 DEF Keeps, Holds
<1>7. Binds(p, BindReply(p, t, s, src), s, src)
  BY <1>4, <1>5, <1>6, BindReplyBinds
<1>8. BindNew(r, s, src) = BindReply(p, t, s, src)
  BY <1>1 DEF BindNew
<1>9. QED BY <1>6, <1>7, <1>8, KeepsThenBinds

LEMMA BindInFlightBinds ==
  ASSUME NEW r, Sound(r), NEW s \in Speech,
         r.turnOf[s] = NoTurn, r.contested[s] = Uncontested
  PROVE  Binds(r, BindInFlight(r, s), s, "generate_reply")
<1>1. PICK reuse \in BOOLEAN : reuse = (r.preemptive # NoTurn /\ Empty(r.turns[r.preemptive]))
  BY DEF Empty
<1>2. PICK q, t : /\ q = IF reuse THEN r ELSE AddTurn(r)
                  /\ t = IF reuse THEN r.preemptive ELSE Newest(q)
  OBVIOUS
<1>3. Len(r.turns) \in Nat /\ r \in RecorderRec /\ r.preemptive \in 0..Len(r.turns)
  BY KnownFacts DEF Sound
<1>4. /\ Keeps(r, q, NoSpeech) /\ q.turnOf = r.turnOf /\ q.contested = r.contested
      /\ t \in 1..Len(q.turns) /\ q.turns[t].stt = "none"
  <2>1. CASE reuse
    <3>1. q = r /\ t = r.preemptive /\ t # NoTurn /\ r.turns[t].stt = "none"
      BY <1>1, <1>2, <2>1 DEF Empty
    <3>2. Keeps(r, r, NoSpeech)
      BY KeepsReflexive
    <3>3. QED BY <1>3, <3>1, <3>2 DEF NoTurn
  <2>2. CASE ~reuse
    <3>1. /\ Keeps(r, q, NoSpeech) /\ q = [r EXCEPT !.turns = q.turns]
          /\ Len(q.turns) = Len(r.turns) + 1 /\ q.turns[Len(r.turns) + 1] = FreshTurn
      BY <1>2, <2>2, AddTurnKeeps
    <3>2. q.turnOf = r.turnOf /\ q.contested = r.contested
      BY <1>3, <3>1 DEF RecorderRec
    <3>3. t = Len(r.turns) + 1
      BY <1>2, <2>2, <3>1 DEF Newest
    <3>4. QED BY <1>3, <3>1, <3>2, <3>3 DEF FreshTurn
  <2>3. QED BY <2>1, <2>2
<1>5. PICK p : p = [q EXCEPT !.preemptive = t]
  OBVIOUS
<1>6. Sound(q) /\ t \in 0..Len(q.turns)
  BY <1>4 DEF Keeps, Holds
<1>7. /\ Keeps(q, p, NoSpeech) /\ p.turns = q.turns /\ p.turnOf = r.turnOf
      /\ p.contested = r.contested
  BY <1>4, <1>5, <1>6, Preempted
<1>8. Keeps(r, p, s) /\ Sound(p)
  <2>1. Keeps(r, p, NoSpeech)
    BY <1>4, <1>7, KeepsTransitive
  <2>2. Sound(p)
    BY <2>1 DEF Keeps, Holds
  <2>3. QED BY <2>1, <2>2, KeepsWidens
<1>9. t \in 1..Len(p.turns) /\ p.turnOf[s] = NoTurn /\ p.contested[s] = Uncontested
  BY <1>4, <1>7
<1>10. "generate_reply" \in Sources
  BY DEF Sources
<1>11. Binds(p, BindReply(p, t, s, "generate_reply"), s, "generate_reply")
  BY <1>8, <1>9, <1>10, BindReplyBinds
<1>12. BindInFlight(r, s) = BindReply(p, t, s, "generate_reply")
  BY <1>1, <1>2, <1>5 DEF BindInFlight
<1>13. QED BY <1>8, <1>11, <1>12, KeepsThenBinds

\* A reply that is no longer put off is as good as new.
LEMMA NoLongerPutOff ==
  ASSUME NEW r, Sound(r), NEW s \in Speech
  PROVE  LET q == [r EXCEPT !.contested[s] = Uncontested]
         IN  /\ Keeps(r, q, s) /\ q.turns = r.turns /\ q.turnOf = r.turnOf
             /\ q.contested[s] = Uncontested
<1>1. Known(r) /\ r \in RecorderRec /\ Len(r.turns) \in Nat
  BY KnownFacts DEF Sound
<1>2. PICK cs : cs = [r.contested EXCEPT ![s] = Uncontested]
  OBVIOUS
<1>3. r.contested \in [Speech -> [carry : Nat, owed : {"no", "owed", "expired"}]]
  BY <1>1 DEF RecorderRec
<1>4. Uncontested \in [carry : Nat, owed : {"no", "owed", "expired"}] /\ Uncontested.carry = 0
  BY DEF Uncontested, NoTurn
<1>5. /\ cs \in [Speech -> [carry : Nat, owed : {"no", "owed", "expired"}]]
      /\ cs[s] = Uncontested /\ \A x \in Speech \ {s} : cs[x] = r.contested[x]
  BY <1>2, <1>3, <1>4
<1>6. PICK q : q = [r EXCEPT !.contested = cs]
  OBVIOUS
<1>7. q \in RecorderRec
  BY <1>1, <1>5, <1>6 DEF RecorderRec
<1>8. /\ q.turns = r.turns /\ q.current = r.current /\ q.turnOf = r.turnOf
      /\ q.contested = cs /\ q.preemptive = r.preemptive /\ q.streams = r.streams
      /\ q.pending = r.pending /\ q.collecting = r.collecting /\ q.speaking = r.speaking
      /\ q.retired = r.retired /\ q.inferred = r.inferred
  BY <1>1, <1>6 DEF RecorderRec
<1>9. Places(q)
  <2>1. \A x \in Speech : q.contested[x].carry \in 0..Len(q.turns)
    <3>1. \A x \in Speech : r.contested[x].carry \in 0..Len(r.turns)
      BY <1>1, KnownFacts
    <3>2. \A x \in Speech : cs[x] \in {Uncontested, r.contested[x]}
      BY <1>5
    <3>3. QED BY <1>1, <1>4, <1>8, <3>1, <3>2
  <2>2. QED BY <1>1, <1>8, <2>1, KnownFacts DEF Places
<1>10. Identified(q) /\ PutOff(q)
  BY <1>5, <1>8 DEF Sound, Identified, PutOff
<1>11. Counted(q) /\ Worded(q)
  <2>1. \A x : OpenOn(q, x) = OpenOn(r, x)
    BY <1>8 DEF OpenOn
  <2>2. QED BY <1>8, <2>1 DEF Sound, Counted, Worded
<1>12. Sound(q)
  BY <1>7, <1>9, <1>10, <1>11 DEF Sound, Known
<1>13. Keeps(r, q, s)
  <2>1. Holds(r, q, s)
    BY <1>1, <1>5, <1>8, <1>12 DEF Holds, Later
  <2>2. QED BY <1>1, <1>8, <1>12, <2>1, SameBooks, QuietCarries DEF Keeps, Sound
<1>14. QED BY <1>2, <1>5, <1>6, <1>8, <1>13

\* However its origin is read, a reply that was put off is bound to some turn.
LEMMA SettleContestedBinds ==
  ASSUME NEW r, Sound(r), NEW s \in Speech, r.contested[s] # Uncontested, NEW origin
  PROVE  Binds(r, SettleContested(r, s, origin), s, "generate_reply")
<1>1. PICK q, c : q = [r EXCEPT !.contested[s] = Uncontested] /\ c = r.contested[s].carry
  OBVIOUS
<1>2. /\ Keeps(r, q, s) /\ q.turns = r.turns /\ q.turnOf = r.turnOf
      /\ q.contested[s] = Uncontested
  BY <1>1, NoLongerPutOff
<1>3. q.turnOf[s] = NoTurn /\ c # NoTurn
  BY <1>1, <1>2 DEF Sound, PutOff
<1>4. c \in 1..Len(q.turns) /\ "generate_reply" \in Sources
  BY <1>1, <1>2, <1>3, KnownFacts DEF Sound, NoTurn, Sources
<1>5. Sound(q)
  BY <1>2 DEF Keeps, Holds
<1>6. Binds(q, BindReply(q, c, s, "generate_reply"), s, "generate_reply")
  BY <1>2, <1>3, <1>4, <1>5, BindReplyBinds
<1>7. Binds(q, BindNew(q, s, "generate_reply"), s, "generate_reply")
  BY <1>2, <1>3, <1>4, <1>5, BindNewBinds
<1>8. Binds(q, BindInFlight(q, s), s, "generate_reply")
  BY <1>2, <1>3, <1>5, BindInFlightBinds
<1>9. SettleContested(r, s, origin) \in
        {BindReply(q, c, s, "generate_reply"), BindNew(q, s, "generate_reply"), BindInFlight(q, s)}
  BY <1>1, <1>3 DEF SettleContested
<1>10. Binds(q, SettleContested(r, s, origin), s, "generate_reply")
  BY <1>6, <1>7, <1>8, <1>9
<1>11. QED BY <1>2, <1>10, KeepsThenBinds

LEMMA SettlePendingBinds ==
  ASSUME NEW r, Sound(r), NEW s \in Speech \cup {NoSpeech}, NEW q \in SettlePending(r, s)
  PROVE  \/ q = r /\ (s = NoSpeech \/ r.contested[s] = Uncontested)
         \/ s \in Speech /\ r.contested[s] # Uncontested /\ Binds(r, q, s, "generate_reply")
<1>1. CASE s = NoSpeech \/ r.contested[s] = Uncontested
  BY <1>1 DEF SettlePending
<1>2. CASE ~(s = NoSpeech \/ r.contested[s] = Uncontested)
  <2>1. PICK o : q = SettleContested(r, s, o)
    BY <1>2 DEF SettlePending
  <2>2. QED BY <1>2, <2>1, SettleContestedBinds
<1>3. QED BY <1>1, <1>2

-------------------------------------------------------------------------------
(* What else the handlers do to a recorder *)

\* One more frame of a stream, in a sum over streams.
OneMore(w, x, st) == x[st] = w[st] + 1 /\ \A y \in Stream \ {st} : x[y] = w[y]

LEMMA OneMoreFrame ==
  ASSUME NEW w \in [Stream -> Nat], NEW x \in [Stream -> Nat], NEW st \in Stream,
         OneMore(w, x, st), NEW V \in SUBSET Stream
  PROVE  SumFunctionOnSet(x, V) = SumFunctionOnSet(w, V) + (IF st \in V THEN 1 ELSE 0)
<1>1. IsFiniteSet(V) /\ V \in SUBSET V
  BY TurnsAssumption, FS_Subset
<1>2. (\A y \in V : w[y] \in Nat) /\ (\A y \in V : x[y] \in Nat)
  OBVIOUS
<1>3. MoreAt(w, V, x, V, st, 1)
  <2>1. \A y \in V : x[y] = w[y] + (IF y = st THEN 1 ELSE 0)
    BY <1>2 DEF OneMore
  <2>2. QED BY <2>1 DEF MoreAt
<1>4. 1 \in Nat
  OBVIOUS
<1>5. QED BY ONLY <1>1, <1>2, <1>3, <1>4, SumGrows

\* What a frame changes in the books.
Credits(r, q, st) ==
  \A w \in [Stream -> Nat] : \A x \in [Stream -> Nat] :
    Balanced(r, w) /\ OneMore(w, x, st) =>
      Balanced(q, x) /\ Heard(q) = Heard(r) + 1

LEMMA HeldFrameCredits ==
  ASSUME NEW r, Known(r), NEW q, Known(q), NEW st \in Stream, r.streams[st].owner = NoTurn,
         q.turns = r.turns, q.inferred = r.inferred,
         \A y \in Stream :
           /\ q.streams[y].owner = r.streams[y].owner /\ q.streams[y].sid = r.streams[y].sid
           /\ q.streams[y].held = r.streams[y].held + (IF y = st THEN 1 ELSE 0)
  PROVE  Credits(r, q, st)
<1>1. Len(r.turns) \in Nat
  BY KnownFacts
<1>2. Heard(q) = Heard(r) + 1
  <2>1. HeldOf(q) = HeldOf(r) + 1
    BY MoreHeld
  <2>2. AudioOf(q) = AudioOf(r)
    BY DEF AudioOf, AudioIn
  <2>3. QED BY <2>1, <2>2, HeardIs
<1>3. ASSUME NEW w \in [Stream -> Nat], NEW x \in [Stream -> Nat], Balanced(r, w),
             OneMore(w, x, st)
      PROVE  Balanced(q, x)
  <2>1. x[st] = w[st] + 1 /\ \A y \in Stream \ {st} : x[y] = w[y]
    BY <1>3 DEF OneMore
  <2>2. ASSUME NEW t \in 1..Len(q.turns)
        PROVE  SumFunctionOnSet(x, StreamsOf(q, t)) = SumFunctionOnSet(w, StreamsOf(r, t))
    <3>1. StreamsOf(q, t) = StreamsOf(r, t) /\ StreamsOf(r, t) \in SUBSET Stream
      BY DEF StreamsOf
    <3>2. st \notin StreamsOf(r, t)
      BY <1>1 DEF StreamsOf, NoTurn
    <3>3. SumFunctionOnSet(w, StreamsOf(r, t)) \in Nat
      <4>1. IsFiniteSet(StreamsOf(r, t)) /\ \A y \in StreamsOf(r, t) : w[y] \in Nat
        BY <3>1, TurnsAssumption, FS_Subset
      <4>2. QED BY <4>1, SumFacts
    <3>4. SumFunctionOnSet(x, StreamsOf(r, t))
            = SumFunctionOnSet(w, StreamsOf(r, t)) + (IF st \in StreamsOf(r, t) THEN 1 ELSE 0)
      BY <1>3, <3>1, OneMoreFrame, SMTT(60)
    <3>5. QED BY <3>1, <3>2, <3>3, <3>4
  <2>3. \A y \in Stream : q.streams[y].held = IF q.streams[y].owner = NoTurn THEN x[y] ELSE 0
    <3>1. \A y \in Stream : r.streams[y].held = IF r.streams[y].owner = NoTurn THEN w[y] ELSE 0
      BY <1>3 DEF Balanced
    <3>2. \A y \in Stream : r.streams[y].held \in Nat
      BY HeardIs
    <3>3. QED BY <2>1, <3>1, <3>2
  <2>4. Guessed(q, x) <=> Guessed(r, w)
    <3>1. \A y \in Stream : r.streams[y].owner # NoTurn => x[y] = w[y]
      BY <2>1
    <3>2. QED BY <3>1 DEF Guessed
  <2>5. QED BY <1>3, <2>2, <2>3, <2>4 DEF Balanced
<1>4. QED BY <1>2, <1>3 DEF Credits

LEMMA OwnedFrameCredits ==
  ASSUME NEW r, Known(r), NEW q, Known(q), NEW st \in Stream, NEW t \in 1..Len(r.turns),
         r.streams[st].owner = t, q.streams = r.streams, Len(q.turns) = Len(r.turns),
         q.inferred <=> (r.inferred \/ r.streams[st].sid = NoSpeech),
         \A y \in 1..Len(r.turns) :
           /\ q.turns[y].audio = r.turns[y].audio + (IF y = t THEN 1 ELSE 0)
           /\ q.turns[y].unscoped = r.turns[y].unscoped
           /\ Weighed(r.turns[y]) => Weighed(q.turns[y])
  PROVE  Credits(r, q, st)
<1>1. Len(r.turns) \in Nat /\ t # NoTurn
  BY KnownFacts DEF NoTurn
<1>2. Heard(q) = Heard(r) + 1
  <2>1. \A y \in 1..Len(q.turns) :
          q.turns[y].audio = (IF y \in 1..Len(r.turns) THEN r.turns[y].audio ELSE 0)
                             + (IF y = t THEN 1 ELSE 0)
    OBVIOUS
  <2>2. AudioOf(q) = AudioOf(r) + (IF t \in 1..Len(q.turns) THEN 1 ELSE 0)
    <3>1. Len(r.turns) <= Len(q.turns) /\ 1 \in Nat /\ Known(r) /\ Known(q)
      BY <1>1
    <3>2. QED BY ONLY <2>1, <3>1, MoreAudio, ZenonT(60)
  <2>3. HeldOf(q) = HeldOf(r)
    BY DEF HeldOf, HeldIn
  <2>4. QED BY <2>2, <2>3, HeardIs
<1>3. ASSUME NEW w \in [Stream -> Nat], NEW x \in [Stream -> Nat], Balanced(r, w),
             OneMore(w, x, st)
      PROVE  Balanced(q, x)
  <2>1. x[st] = w[st] + 1 /\ w[st] \in Nat /\ \A y \in Stream \ {st} : x[y] = w[y]
    BY <1>3 DEF OneMore
  <2>2. ASSUME NEW y \in 1..Len(q.turns)
        PROVE  /\ Weighed(q.turns[y])
               /\ q.turns[y].audio = q.turns[y].unscoped + SumFunctionOnSet(x, StreamsOf(q, y))
    <3>1. StreamsOf(q, y) = StreamsOf(r, y) /\ StreamsOf(r, y) \in SUBSET Stream
      BY DEF StreamsOf
    <3>2. st \in StreamsOf(r, y) <=> y = t
      BY DEF StreamsOf
    <3>3. SumFunctionOnSet(w, StreamsOf(r, y)) \in Nat
      <4>1. IsFiniteSet(StreamsOf(r, y)) /\ \A z \in StreamsOf(r, y) : w[z] \in Nat
        BY <3>1, TurnsAssumption, FS_Subset
      <4>2. QED BY <4>1, SumFacts
    <3>4. SumFunctionOnSet(x, StreamsOf(r, y))
            = SumFunctionOnSet(w, StreamsOf(r, y)) + (IF st \in StreamsOf(r, y) THEN 1 ELSE 0)
      <4>1. st \in Stream
        OBVIOUS
      <4>2. QED BY ONLY <1>3, <3>1, <4>1, OneMoreFrame, SMTT(60)
    <3>5. /\ Weighed(r.turns[y])
          /\ r.turns[y].audio = r.turns[y].unscoped + SumFunctionOnSet(w, StreamsOf(r, y))
      BY <1>3 DEF Balanced
    <3>6. r.turns[y].unscoped \in Nat
      BY KnownFacts DEF TurnRec
    <3>7. QED BY <3>1, <3>2, <3>3, <3>4, <3>5, <3>6, SMTT(60)
  <2>3. \A y \in Stream : q.streams[y].held = IF q.streams[y].owner = NoTurn THEN x[y] ELSE 0
    BY <1>1, <1>3, <2>1 DEF Balanced
  <2>4. Guessed(q, x) <=> Guessed(r, w) \/ r.streams[st].sid = NoSpeech
    <3>1. \A y \in Stream : x[y] > 0 <=> (w[y] > 0 \/ y = st)
      BY <2>1
    <3>2. \A y \in 1..Len(r.turns) : q.turns[y].unscoped = r.turns[y].unscoped
      OBVIOUS
    <3>3. /\ q.streams = r.streams /\ Len(q.turns) = Len(r.turns)
          /\ r.streams[st].owner # NoTurn /\ st \in Stream
      BY <1>1
    <3>4. QED BY ONLY <3>1, <3>2, <3>3 DEF Guessed
  <2>5. QED BY <1>3, <2>2, <2>3, <2>4 DEF Balanced
<1>4. QED BY <1>2, <1>3 DEF Credits

LEMMA CreditFrameCredits ==
  ASSUME NEW r, Known(r), NEW st \in Stream
  PROVE  Proceeds(r, CreditFrame(r, st)) /\ Credits(r, CreditFrame(r, st), st)
<1>1. PICK t, stream : stream = r.streams[st] /\ t = stream.owner
  OBVIOUS
<1>2. /\ r \in RecorderRec /\ t \in 0..Len(r.turns) /\ stream \in StreamRec
      /\ r.streams \in [Stream -> StreamRec] /\ r.inferred \in BOOLEAN /\ stream.held \in Nat
  <2>1. r \in RecorderRec /\ t \in 0..Len(r.turns) /\ stream \in StreamRec
        /\ r.streams \in [Stream -> StreamRec] /\ r.inferred \in BOOLEAN
    BY <1>1, KnownFacts
  <2>2. QED BY <2>1 DEF StreamRec
<1>3. CASE t = NoTurn
  <2>1. PICK more : more = [stream EXCEPT !.held = stream.held + 1]
    OBVIOUS
  <2>2. more \in StreamRec /\ more.status = stream.status /\ more.sid = stream.sid
        /\ more.owner = stream.owner /\ more.held = stream.held + 1
    BY <1>2, <2>1 DEF StreamRec
  <2>3. PICK ss : ss = [r.streams EXCEPT ![st] = more]
    OBVIOUS
  <2>4. ss \in [Stream -> StreamRec] /\ ss[st] = more /\ \A x \in Stream \ {st} : ss[x] = r.streams[x]
    BY <1>2, <2>2, <2>3
  <2>5. PICK q : q = [r EXCEPT !.streams = ss]
    OBVIOUS
  <2>6. q \in RecorderRec
    BY <1>2, <2>4, <2>5 DEF RecorderRec
  <2>7. /\ q.turns = r.turns /\ q.current = r.current /\ q.turnOf = r.turnOf
        /\ q.contested = r.contested /\ q.preemptive = r.preemptive /\ q.streams = ss
        /\ q.pending = r.pending /\ q.collecting = r.collecting /\ q.speaking = r.speaking
        /\ q.retired = r.retired /\ q.inferred = r.inferred
    BY <1>2, <2>5 DEF RecorderRec
  <2>8. SameStreams(r, q)
    BY <1>1, <2>2, <2>4, <2>7 DEF SameStreams
  <2>9. Places(q)
    BY <2>7, <2>8, KnownFacts DEF Places, SameStreams
  <2>10. Proceeds(r, q)
    BY <2>6, <2>7, <2>8, <2>9, GoesOnReflexive DEF Proceeds, Known
  <2>11. Credits(r, q, st)
    <3>1. \A y \in Stream :
            /\ q.streams[y].owner = r.streams[y].owner /\ q.streams[y].sid = r.streams[y].sid
            /\ q.streams[y].held = r.streams[y].held + (IF y = st THEN 1 ELSE 0)
      <4>1. \A y \in Stream : r.streams[y].held \in Nat
        BY HeardIs
      <4>2. QED BY <1>1, <2>2, <2>4, <2>7, <4>1
    <3>2. Known(q)
      BY <2>6, <2>9 DEF Known
    <3>3. QED BY <1>1, <1>3, <2>7, <3>1, <3>2, HeldFrameCredits
  <2>12. CreditFrame(r, st) = q
    BY <1>1, <1>3, <2>1, <2>3, <2>5 DEF CreditFrame
  <2>13. QED BY <2>10, <2>11, <2>12
<1>4. CASE t # NoTurn
  <2>1. PICK u : u = r.turns[t]
    OBVIOUS
  <2>2. t \in 1..Len(r.turns) /\ u \in TurnRec
    BY <1>2, <1>4, <2>1, KnownFacts DEF NoTurn
  <2>3. PICK a \in Nat : a = u.audio + 1
    BY <2>2 DEF TurnRec
  <2>4. PICK v : v = [u EXCEPT !.audio = a]
    OBVIOUS
  <2>5. v \in TurnRec
    BY <2>2, <2>3, <2>4 DEF TurnRec
  <2>6. StepsOn(u, v)
    <3>1. /\ v.source = u.source /\ v.open = u.open /\ v.words = u.words /\ v.stt = u.stt
          /\ v.wordsOut = u.wordsOut /\ v.awaitClose = u.awaitClose /\ v.finished = u.finished
      BY <2>2, <2>4 DEF TurnRec
    <3>2. QED BY <3>1 DEF StepsOn
  <2>7. PICK f : f = (r.inferred \/ stream.sid = NoSpeech) /\ f \in BOOLEAN
    BY <1>2
  <2>0. PICK ts : ts = [r.turns EXCEPT ![t] = v]
    OBVIOUS
  <2>8. PICK q : q = [r EXCEPT !.turns = ts, !.inferred = f]
    OBVIOUS
  <2>9. /\ Proceeds(r, q) /\ Known(q) /\ Len(q.turns) = Len(r.turns)
        /\ q.streams = r.streams /\ q.inferred = f
        /\ \A y \in 1..Len(r.turns) : q.turns[y] = IF y = t THEN v ELSE r.turns[y]
    <3>1. Known(r) /\ StepsOn(r.turns[t], v) /\ t \in 1..Len(r.turns) /\ f \in BOOLEAN
      BY <2>1, <2>2, <2>6, <2>7
    <3>2. Marked(r, q, t, v, f)
      BY ONLY <2>0, <2>8 DEF Marked
    <3>3. QED BY ONLY <2>5, <3>1, <3>2, OneTurnMarked
  <2>10. Credits(r, q, st)
    <3>1. /\ v.audio = u.audio + 1 /\ v.unscoped = u.unscoped /\ v.played = u.played
          /\ v.unscopedThen = u.unscopedThen /\ v.snapshot = u.snapshot
      BY <2>2, <2>3, <2>4 DEF TurnRec
    <3>2. Weighed(u) => Weighed(v)
      <4>1. u.unscoped \in Nat /\ u.played \in Nat /\ u.audio \in Nat
        BY <2>2 DEF TurnRec
      <4>2. QED BY <3>1, <4>1 DEF Weighed
    <3>3. \A y \in 1..Len(r.turns) :
            /\ q.turns[y].audio = r.turns[y].audio + (IF y = t THEN 1 ELSE 0)
            /\ q.turns[y].unscoped = r.turns[y].unscoped
            /\ Weighed(r.turns[y]) => Weighed(q.turns[y])
      <4>1. \A y \in 1..Len(r.turns) : r.turns[y].audio \in Nat
        BY HeardIs
      <4>2. QED BY <2>1, <2>9, <3>1, <3>2, <4>1
    <3>4. q.inferred <=> (r.inferred \/ r.streams[st].sid = NoSpeech)
      BY <1>1, <2>7, <2>9
    <3>5. r.streams[st].owner = t
      BY <1>1
    <3>6. QED BY <2>2, <2>9, <3>3, <3>4, <3>5, OwnedFrameCredits
  <2>11. CreditFrame(r, st) = q
    BY <1>1, <1>2, <1>4, <2>0, <2>1, <2>3, <2>4, <2>7, <2>8 DEF CreditFrame, RecorderRec
  <2>12. QED BY <2>9, <2>10, <2>11
<1>5. QED BY <1>3, <1>4

LEMMA RenderingIsATurn ==
  ASSUME NEW r, Known(r) PROVE Rendering(r) \in 0..Len(r.turns)
  BY KnownFacts DEF Rendering

\* What a frame without a stream may change in the books.
CreditsUnscoped(r, q) ==
  \A w \in [Stream -> Nat] :
    Balanced(r, w) => Balanced(q, w) /\ Heard(q) \in {Heard(r), Heard(r) + 1}

LEMMA UnscopedFrameCredits ==
  ASSUME NEW r, Known(r), NEW q, Known(q), NEW t \in 1..Len(r.turns),
         q.streams = r.streams, Len(q.turns) = Len(r.turns), q.inferred = TRUE,
         \A y \in 1..Len(r.turns) :
           /\ q.turns[y].audio = r.turns[y].audio + (IF y = t THEN 1 ELSE 0)
           /\ q.turns[y].unscoped = r.turns[y].unscoped + (IF y = t THEN 1 ELSE 0)
           /\ Weighed(r.turns[y]) => Weighed(q.turns[y])
  PROVE  CreditsUnscoped(r, q)
<1>1. Len(r.turns) \in Nat
  BY KnownFacts
<1>2. Heard(q) = Heard(r) + 1
  <2>1. \A y \in 1..Len(q.turns) :
          q.turns[y].audio = (IF y \in 1..Len(r.turns) THEN r.turns[y].audio ELSE 0)
                             + (IF y = t THEN 1 ELSE 0)
    OBVIOUS
  <2>2. AudioOf(q) = AudioOf(r) + (IF t \in 1..Len(q.turns) THEN 1 ELSE 0)
    <3>1. Len(r.turns) <= Len(q.turns) /\ 1 \in Nat /\ Known(r) /\ Known(q)
      BY <1>1
    <3>2. QED BY ONLY <2>1, <3>1, MoreAudio, ZenonT(60)
  <2>3. HeldOf(q) = HeldOf(r)
    BY DEF HeldOf, HeldIn
  <2>4. QED BY <2>2, <2>3, HeardIs
<1>3. ASSUME NEW w \in [Stream -> Nat], Balanced(r, w)
      PROVE  Balanced(q, w)
  <2>1. ASSUME NEW y \in 1..Len(q.turns)
        PROVE  /\ Weighed(q.turns[y])
               /\ q.turns[y].audio = q.turns[y].unscoped + SumFunctionOnSet(w, StreamsOf(q, y))
    <3>1. StreamsOf(q, y) = StreamsOf(r, y)
      BY DEF StreamsOf
    <3>2. SumFunctionOnSet(w, StreamsOf(r, y)) \in Nat
      <4>1. IsFiniteSet(StreamsOf(r, y)) /\ \A z \in StreamsOf(r, y) : w[z] \in Nat
        BY TurnsAssumption, FS_Subset DEF StreamsOf
      <4>2. QED BY <4>1, SumFacts
    <3>3. /\ Weighed(r.turns[y])
          /\ r.turns[y].audio = r.turns[y].unscoped + SumFunctionOnSet(w, StreamsOf(r, y))
      BY <1>3 DEF Balanced
    <3>4. r.turns[y].unscoped \in Nat /\ y \in 1..Len(r.turns)
      BY KnownFacts DEF TurnRec
    <3>5. PICK d \in 0..1 : d = IF y = t THEN 1 ELSE 0
      OBVIOUS
    <3>6. /\ q.turns[y].audio = r.turns[y].audio + d
          /\ q.turns[y].unscoped = r.turns[y].unscoped + d
          /\ Weighed(r.turns[y]) => Weighed(q.turns[y])
      BY <3>4, <3>5
    <3>7. PICK sum \in Nat : sum = SumFunctionOnSet(w, StreamsOf(r, y))
      BY <3>2
    <3>8. q.turns[y].audio = q.turns[y].unscoped + sum
      BY ONLY <3>3, <3>4, <3>5, <3>6, <3>7
    <3>9. QED BY <3>1, <3>3, <3>6, <3>7, <3>8
  <2>2. \A y \in Stream : q.streams[y].held = IF q.streams[y].owner = NoTurn THEN w[y] ELSE 0
    BY <1>3 DEF Balanced
  <2>3. Guessed(q, w)
    <3>1. r.turns[t].unscoped \in Nat
      BY KnownFacts DEF TurnRec
    <3>2. q.turns[t].unscoped > 0
      BY <3>1
    <3>3. QED BY <3>2 DEF Guessed
  <2>4. QED BY <2>1, <2>2, <2>3 DEF Balanced
<1>4. QED BY <1>2, <1>3 DEF CreditsUnscoped

LEMMA CreditUnscopedCredits ==
  ASSUME NEW r, Known(r)
  PROVE  Proceeds(r, CreditUnscoped(r)) /\ CreditsUnscoped(r, CreditUnscoped(r))
<1>1. PICK t : t = Rendering(r)
  OBVIOUS
<1>2. CASE t = NoTurn
  <2>1. CreditUnscoped(r) = r
    BY <1>1, <1>2 DEF CreditUnscoped
  <2>2. Proceeds(r, r) /\ CreditsUnscoped(r, r)
    BY ContinuesReflexive DEF Continues, CreditsUnscoped
  <2>3. QED BY <2>1, <2>2
<1>3. CASE t # NoTurn
  <2>1. PICK u : u = r.turns[t]
    OBVIOUS
  <2>2. t \in 1..Len(r.turns) /\ u \in TurnRec /\ r \in RecorderRec
    BY <1>1, <1>3, <2>1, KnownFacts, RenderingIsATurn DEF NoTurn
  <2>3. PICK a \in Nat, b \in Nat : a = u.audio + 1 /\ b = u.unscoped + 1
    BY <2>2 DEF TurnRec
  <2>4. PICK v : v = [u EXCEPT !.audio = a, !.unscoped = b]
    OBVIOUS
  <2>5. v \in TurnRec
    BY <2>2, <2>3, <2>4 DEF TurnRec
  <2>6. StepsOn(u, v)
    <3>1. /\ v.source = u.source /\ v.open = u.open /\ v.words = u.words /\ v.stt = u.stt
          /\ v.wordsOut = u.wordsOut /\ v.awaitClose = u.awaitClose /\ v.finished = u.finished
      BY <2>2, <2>4 DEF TurnRec
    <3>2. QED BY <3>1 DEF StepsOn
  <2>0. PICK f \in BOOLEAN : f = TRUE
    OBVIOUS
  <2>7. PICK q : q = [r EXCEPT !.turns = [r.turns EXCEPT ![t] = v], !.inferred = TRUE]
    OBVIOUS
  <2>8. CreditUnscoped(r) = [r EXCEPT !.turns = [r.turns EXCEPT ![t] = v], !.inferred = TRUE]
    <3>1. PICK u1 : u1 = [u EXCEPT !.audio = u.audio + 1]
      OBVIOUS
    <3>2. u1.unscoped = u.unscoped /\ v = [u1 EXCEPT !.unscoped = u.unscoped + 1]
      BY <2>2, <2>3, <2>4, <3>1 DEF TurnRec
    <3>3. PICK a1 : a1 = [r.turns EXCEPT ![t] = u1]
      OBVIOUS
    <3>4. a1[t] = u1 /\ [a1 EXCEPT ![t] = v] = [r.turns EXCEPT ![t] = v]
      BY <2>2, <3>3, KnownFacts
    <3>5. PICK p1 : p1 = [r EXCEPT !.turns = a1]
      OBVIOUS
    <3>6. p1.turns = a1
      BY <2>2, <3>5 DEF RecorderRec
    <3>7. [p1 EXCEPT !.turns = [a1 EXCEPT ![t] = v], !.inferred = TRUE]
            = [r EXCEPT !.turns = [r.turns EXCEPT ![t] = v], !.inferred = TRUE]
      BY ONLY <2>2, <3>4, <3>5 DEF RecorderRec
    <3>8. CreditUnscoped(r) = [[p1 EXCEPT !.turns[t].unscoped = @ + 1] EXCEPT !.inferred = TRUE]
      <4>1. CreditUnscoped(r) = [r EXCEPT !.turns[t].audio = r.turns[t].audio + 1,
                                          !.turns[t].unscoped = r.turns[t].unscoped + 1,
                                          !.inferred = TRUE]
        BY <1>1, <1>3 DEF CreditUnscoped
      <4>2. p1 = [r EXCEPT !.turns[t].audio = r.turns[t].audio + 1]
        BY ONLY <2>1, <3>1, <3>3, <3>5
      <4>3. p1.turns[t].unscoped = r.turns[t].unscoped
        BY <2>1, <3>2, <3>4, <3>6
      <4>4. QED BY ONLY <4>1, <4>2, <4>3
    <3>9. [p1 EXCEPT !.turns[t].unscoped = @ + 1] = [p1 EXCEPT !.turns = [a1 EXCEPT ![t] = v]]
      BY ONLY <3>2, <3>4, <3>6
    <3>10. QED BY <3>7, <3>8, <3>9
  <2>9. /\ Proceeds(r, q) /\ Known(q) /\ Len(q.turns) = Len(r.turns)
        /\ q.streams = r.streams /\ q.inferred = TRUE
        /\ \A y \in 1..Len(r.turns) : q.turns[y] = IF y = t THEN v ELSE r.turns[y]
    <3>1. Marked(r, q, t, v, f)
      BY ONLY <2>0, <2>7 DEF Marked
    <3>2. Known(r) /\ t \in 1..Len(r.turns) /\ StepsOn(r.turns[t], v)
      BY <2>1, <2>2, <2>6
    <3>3. /\ Proceeds(r, q) /\ Known(q) /\ Len(q.turns) = Len(r.turns)
          /\ q.streams = r.streams /\ q.inferred = f
          /\ \A y \in 1..Len(r.turns) : q.turns[y] = IF y = t THEN v ELSE r.turns[y]
      <4>1. f \in BOOLEAN /\ v \in TurnRec
        BY <2>0, <2>5
      <4>2. QED BY ONLY <3>1, <3>2, <4>1, OneTurnMarked
    <3>4. QED BY ONLY <2>0, <3>3
  <2>10. /\ v.audio = u.audio + 1 /\ v.unscoped = u.unscoped + 1 /\ v.played = u.played
         /\ v.unscopedThen = u.unscopedThen /\ v.snapshot = u.snapshot
    BY <2>2, <2>3, <2>4 DEF TurnRec
  <2>11. Weighed(u) => Weighed(v)
    <3>1. /\ u.unscoped \in Nat /\ u.played \in Nat /\ u.audio \in Nat
          /\ u.unscopedThen \in Nat
      BY <2>2 DEF TurnRec
    <3>2. QED BY <2>10, <3>1 DEF Weighed
  <2>12. \A y \in 1..Len(r.turns) :
           /\ q.turns[y].audio = r.turns[y].audio + (IF y = t THEN 1 ELSE 0)
           /\ q.turns[y].unscoped = r.turns[y].unscoped + (IF y = t THEN 1 ELSE 0)
           /\ Weighed(r.turns[y]) => Weighed(q.turns[y])
    <3>1. \A y \in 1..Len(r.turns) : r.turns[y].audio \in Nat /\ r.turns[y].unscoped \in Nat
      BY KnownFacts DEF TurnRec
    <3>2. QED BY <2>1, <2>9, <2>10, <2>11, <3>1
  <2>13. CreditsUnscoped(r, q)
    BY <2>2, <2>9, <2>12, UnscopedFrameCredits
  <2>14. CreditUnscoped(r) = q
    BY <2>7, <2>8
  <2>15. QED BY <2>9, <2>13, <2>14
<1>4. QED BY <1>2, <1>3

LEMMA RecordMetricContinues ==
  ASSUME NEW r, Known(r), NEW t \in 1..Len(r.turns), NEW stage
  PROVE  Continues(r, RecordMetric(r, t, stage))
<1>1. PICK u : u = r.turns[t]
  OBVIOUS
<1>2. u \in TurnRec /\ r \in RecorderRec
  BY <1>1, KnownFacts
<1>0. PICK tts \in Span : tts = IF u.tts = "none" THEN "open" ELSE u.tts
  BY <1>2 DEF TurnRec, Span
<1>3. ASSUME NEW v, \/ v = [u EXCEPT !.llm = TRUE]
                    \/ v = [u EXCEPT !.tts = tts]
      PROVE  Continues(r, [r EXCEPT !.turns = [r.turns EXCEPT ![t] = v]])
  <2>1. v \in TurnRec
    BY <1>2, <1>3, ZenonT(60) DEF TurnRec
  <2>2. /\ v.source = u.source /\ v.open = u.open /\ v.words = u.words /\ v.stt = u.stt
        /\ v.wordsOut = u.wordsOut /\ v.awaitClose = u.awaitClose /\ v.finished = u.finished
    BY <1>2, <1>3, SMTT(60) DEF TurnRec
  <2>3. GoesOn(u, v)
    <3>1. SameAudio(u, v)
      BY <1>2, <1>3, SMTT(60) DEF TurnRec, SameAudio
    <3>2. StepsOn(u, v)
      BY <2>2 DEF StepsOn
    <3>3. QED BY <3>1, <3>2, SameAudioRests DEF GoesOn
  <2>4. QED BY <1>1, <2>1, <2>3, OneTurn
<1>4. CASE stage = "llm"
  BY <1>1, <1>2, <1>3, <1>4 DEF RecordMetric, RecorderRec
<1>5. CASE stage = "tts"
  BY <1>0, <1>1, <1>2, <1>3, <1>5 DEF RecordMetric, RecorderRec
<1>6. CASE stage \notin {"llm", "tts"}
  BY <1>6, ContinuesReflexive DEF RecordMetric
<1>7. QED BY <1>4, <1>5, <1>6

LEMMA RecordItemContinues ==
  ASSUME NEW r, Known(r), NEW t \in 1..Len(r.turns), NEW exact, NEW timed, NEW worded
  PROVE  Continues(r, RecordItem(r, t, exact, timed, worded))
<1>1. PICK u : u = r.turns[t]
  OBVIOUS
<1>2. u \in TurnRec /\ r \in RecorderRec
  BY <1>1, KnownFacts
<1>3. PICK spoke \in Span : spoke = SpokenSpan(u, exact /\ worded)
  BY <1>2 DEF SpokenSpan, TurnRec, Span
<1>4. PICK thought \in BOOLEAN : thought = LlmSpan(u, exact, timed)
  BY DEF LlmSpan
<1>5. PICK waits \in BOOLEAN : waits = (u.awaitClose \/ (u.awaitItem /\ u.open > 0))
  OBVIOUS
<1>7. PICK v : v = [u EXCEPT !.tts = spoke, !.llm = thought, !.complete = TRUE,
                             !.awaitItem = FALSE, !.awaitClose = waits]
  OBVIOUS
<1>8. v \in TurnRec
  <2>1. PICK w : w = [u EXCEPT !.tts = spoke, !.llm = thought, !.complete = TRUE]
    OBVIOUS
  <2>2. w \in TurnRec
    BY <1>2, <1>3, <1>4, <2>1, ZenonT(60) DEF TurnRec
  <2>3. v = [w EXCEPT !.awaitItem = FALSE, !.awaitClose = waits]
    BY <1>2, <1>7, <2>1 DEF TurnRec
  <2>4. QED BY <1>5, <2>2, <2>3, ZenonT(60) DEF TurnRec
<1>9. /\ v.source = u.source /\ v.open = u.open /\ v.words = u.words /\ v.stt = u.stt
      /\ v.wordsOut = u.wordsOut /\ v.awaitClose = waits /\ v.finished = u.finished
  BY <1>2, <1>7 DEF TurnRec
<1>10. GoesOn(u, v)
  <2>1. SameAudio(u, v)
    BY <1>2, <1>7 DEF TurnRec, SameAudio
  <2>2. StepsOn(u, v)
    BY <1>5, <1>9 DEF StepsOn
  <2>3. QED BY <2>1, <2>2, SameAudioRests DEF GoesOn
<1>11. PICK q : q = [r EXCEPT !.turns = [r.turns EXCEPT ![t] = v]]
  OBVIOUS
<1>12. Continues(r, q)
  BY <1>1, <1>8, <1>10, <1>11, OneTurn
<1>13. Known(q) /\ t \in 1..Len(q.turns)
  BY <1>12 DEF Continues, Proceeds
<1>14. Continues(r, FinishTurn(q, t))
  BY <1>12, <1>13, FinishTurnContinues, ContinuesTransitive
<1>15. RecordItem(r, t, exact, timed, worded) \in {q, FinishTurn(q, t)}
  <2>1. v = [u EXCEPT !.tts = SpokenSpan(u, exact /\ worded),
                      !.llm = LlmSpan(u, exact, timed), !.complete = TRUE, !.awaitItem = FALSE,
                      !.awaitClose = u.awaitClose \/ (u.awaitItem /\ u.open > 0)]
    BY ONLY <1>3, <1>4, <1>5, <1>7
  <2>2. q = [r EXCEPT !.turns[t] = v]
    BY <1>11
  <2>3. QED BY ONLY <1>1, <2>1, <2>2 DEF RecordItem
<1>16. QED BY <1>12, <1>14, <1>15

LEMMA ToolsExecutedContinues ==
  ASSUME NEW r, Known(r), NEW t \in 1..Len(r.turns), NEW b \in BOOLEAN
  PROVE  /\ Continues(r, [r EXCEPT !.turns[t].toolOwed = b])
         /\ Continues(r, [r EXCEPT !.turns[t].committed = TRUE])
<1>1. PICK u : u = r.turns[t]
  OBVIOUS
<1>2. u \in TurnRec /\ r \in RecorderRec
  BY <1>1, KnownFacts
<1>3. ASSUME NEW v, \/ v = [u EXCEPT !.toolOwed = b]
                    \/ v = [u EXCEPT !.committed = TRUE]
      PROVE  Continues(r, [r EXCEPT !.turns = [r.turns EXCEPT ![t] = v]])
  <2>1. v \in TurnRec
    BY <1>2, <1>3, ZenonT(60) DEF TurnRec
  <2>2. /\ v.source = u.source /\ v.open = u.open /\ v.words = u.words /\ v.stt = u.stt
        /\ v.wordsOut = u.wordsOut /\ v.awaitClose = u.awaitClose /\ v.finished = u.finished
    BY <1>2, <1>3 DEF TurnRec
  <2>3. GoesOn(u, v)
    <3>1. SameAudio(u, v)
      BY <1>2, <1>3 DEF TurnRec, SameAudio
    <3>2. StepsOn(u, v)
      BY <2>2 DEF StepsOn
    <3>3. QED BY <3>1, <3>2, SameAudioRests DEF GoesOn
  <2>4. QED BY <1>1, <2>1, <2>3, OneTurn
<1>4. QED BY <1>1, <1>3

LEMMA FailedSpanContinues ==
  ASSUME NEW r, Known(r), NEW t \in 1..Len(r.turns), NEW stt, NEW tts,
         stt = r.turns[t].stt \/ (r.turns[t].stt = "open" /\ stt = "failed"),
         tts = r.turns[t].tts \/ (r.turns[t].tts = "open" /\ tts = "failed")
  PROVE  Continues(r, [r EXCEPT !.turns[t] = [r.turns[t] EXCEPT !.stt = stt, !.tts = tts]])
<1>1. PICK u : u = r.turns[t]
  OBVIOUS
<1>2. u \in TurnRec /\ r \in RecorderRec
  BY <1>1, KnownFacts
<1>3. PICK v : v = [u EXCEPT !.stt = stt, !.tts = tts]
  OBVIOUS
<1>4. stt \in Span /\ tts \in Span
  BY <1>1, <1>2 DEF TurnRec, Span
<1>5. v \in TurnRec
  BY <1>2, <1>3, <1>4 DEF TurnRec
<1>6. /\ v.source = u.source /\ v.open = u.open /\ v.words = u.words /\ v.stt = stt
      /\ v.wordsOut = u.wordsOut /\ v.awaitClose = u.awaitClose /\ v.finished = u.finished
  BY <1>2, <1>3 DEF TurnRec
<1>7. GoesOn(u, v)
  <2>1. SameAudio(u, v)
    BY <1>2, <1>3 DEF TurnRec, SameAudio
  <2>2. StepsOn(u, v)
    BY <1>1, <1>6 DEF StepsOn
  <2>3. QED BY <2>1, <2>2, SameAudioRests DEF GoesOn
<1>8. QED BY <1>1, <1>3, <1>5, <1>7, OneTurn

-------------------------------------------------------------------------------
(* Streams that open and close *)

\* A stream closes on turn t, which counts one less and no longer waits for none.
LEMMA ClosedKeeps ==
  ASSUME NEW r, Sound(r), NEW st \in Stream, r.streams[st].status = "open",
         NEW t \in 1..Len(r.turns), r.streams[st].owner = t,
         NEW v \in TurnRec, v.open = r.turns[t].open - 1, v.words = r.turns[t].words,
         v.stt = r.turns[t].stt, v.wordsOut = r.turns[t].wordsOut,
         v.source = r.turns[t].source, v.awaitClose /\ ~v.finished => v.open > 0,
         NEW q \in RecorderRec, Len(q.turns) = Len(r.turns),
         \A x \in 1..Len(r.turns) : q.turns[x] = IF x = t THEN v ELSE r.turns[x],
         \A x \in Stream \ {st} : q.streams[x] = r.streams[x],
         q.streams[st].status = "closed", q.streams[st].owner = t,
         q.streams[st].sid = r.streams[st].sid, q.streams[st].held = r.streams[st].held,
         Rests(r.turns[t], v), q.inferred = r.inferred,
         q.turnOf = r.turnOf, q.contested = r.contested, q.preemptive = r.preemptive,
         {q.pending, q.collecting, q.current, q.speaking, q.retired} \subseteq 0..Len(r.turns)
  PROVE  Keeps(r, q, NoSpeech)
<1>1. /\ Known(r) /\ r.turns \in Seq(TurnRec) /\ Len(r.turns) \in Nat
      /\ r.streams \in [Stream -> StreamRec] /\ t # NoTurn
  BY KnownFacts DEF Sound, NoTurn
<1>2. /\ Len(q.turns) = Len(r.turns)
      /\ \A x \in 1..Len(r.turns) : q.turns[x] = IF x = t THEN v ELSE r.turns[x]
  OBVIOUS
<1>3. /\ \A x \in Stream \ {st} : q.streams[x] = r.streams[x]
      /\ q.streams[st].status = "closed" /\ q.streams[st].owner = t
      /\ q.streams[st].sid = r.streams[st].sid
  OBVIOUS
<1>4. Places(q)
  <2>1. \A x \in Stream : q.streams[x].owner \in 0..Len(q.turns)
    <3>1. \A x \in Stream : r.streams[x].owner \in 0..Len(r.turns)
      BY <1>1, KnownFacts
    <3>2. \A x \in Stream : q.streams[x].owner = r.streams[x].owner
      BY <1>3
    <3>3. QED BY <1>2, <3>1, <3>2
  <2>2. {q.pending, q.collecting, q.preemptive, q.current, q.speaking, q.retired}
          \subseteq 0..Len(q.turns)
    BY <1>1, <1>2, KnownFacts
  <2>3. \A x \in Speech : /\ q.turnOf[x] \in 0..Len(q.turns)
                          /\ q.contested[x].carry \in 0..Len(q.turns)
    BY <1>1, <1>2, KnownFacts
  <2>4. QED BY <2>1, <2>2, <2>3 DEF Places
<1>5. Identified(q)
  BY <1>3, SMTT(60) DEF Sound, Identified
<1>6. Counted(q)
  <2> SUFFICES ASSUME NEW x \in 1..Len(q.turns)
               PROVE  /\ q.turns[x].open = Cardinality(OpenOn(q, x))
                      /\ q.turns[x].awaitClose /\ ~q.turns[x].finished => q.turns[x].open > 0
    BY DEF Counted
  <2>1. CASE x # t
    <3>1. OpenOn(q, x) = OpenOn(r, x)
      BY <1>3, <2>1 DEF OpenOn
    <3>2. QED BY <1>2, <2>1, <3>1 DEF Sound, Counted
  <2>2. CASE x = t
    <3>1. OpenOn(q, t) = OpenOn(r, t) \ {st} /\ st \in OpenOn(r, t)
      BY <1>3 DEF OpenOn
    <3>2. Cardinality(OpenOn(r, t) \ {st}) = Cardinality(OpenOn(r, t)) - 1
      BY <3>1, CountedOn, FS_RemoveElement
    <3>3. v.open = Cardinality(OpenOn(q, t))
      BY <3>1, <3>2, CountedOn
    <3>4. QED BY <1>2, <2>2, <3>3
  <2>3. QED BY <2>1, <2>2
<1>7. Worded(q)
  <2>1. ASSUME NEW x \in 1..Len(q.turns)
        PROVE  /\ q.turns[x].stt = r.turns[x].stt /\ q.turns[x].words = r.turns[x].words
               /\ q.turns[x].wordsOut = r.turns[x].wordsOut
    BY <1>2
  <2>2. q.preemptive # NoTurn => q.preemptive \in 1..Len(q.turns)
    BY <1>1, <1>2, KnownFacts DEF NoTurn
  <2>3. QED BY <1>2, <2>1, <2>2, SMTT(60) DEF Sound, Worded
<1>8. PutOff(q)
  BY DEF Sound, PutOff
<1>9. Sound(q)
  BY <1>4, <1>5, <1>6, <1>7, <1>8 DEF Sound, Known
<1>10. \A x \in 1..Len(r.turns) : Later(r.turns[x], q.turns[x])
  BY <1>2 DEF Later
<1>11. \A x \in Stream : q.streams[x].sid = r.streams[x].sid /\ q.streams[x].owner = r.streams[x].owner
  BY <1>3
<1>12. Holds(r, q, NoSpeech)
  BY <1>1, <1>2, <1>9, <1>10, <1>11, SMTT(60) DEF Holds
<1>13. Quiet(r, q)
  <2>1. q.inferred = r.inferred /\ Rests(r.turns[t], v)
    OBVIOUS
  <2>2. \A x \in 1..Len(r.turns) : Rests(r.turns[x], q.turns[x])
    <3>1. \A x \in 1..Len(r.turns) : Rests(r.turns[x], r.turns[x])
      BY DEF Rests
    <3>2. QED BY ONLY <1>2, <2>1, <3>1
  <2>3. \A x \in Stream :
          /\ q.streams[x].owner = r.streams[x].owner /\ q.streams[x].held = r.streams[x].held
          /\ q.streams[x].sid = r.streams[x].sid
    <3>1. q.streams[st].held = r.streams[st].held
      OBVIOUS
    <3>2. QED BY <1>3, <1>11, <3>1
  <2>4. QED BY ONLY <1>2, <2>1, <2>2, <2>3 DEF Quiet
<1>14. Carries(r, q)
  BY <1>1, <1>9, <1>13, QuietCarries DEF Sound
<1>15. QED BY <1>12, <1>14 DEF Keeps

\* The status of a stream without a turn matters to nobody; one that opens gets its
\* speech with it.
LEMMA LooseStreamKeeps ==
  ASSUME NEW r, Sound(r), NEW st \in Stream, r.streams[st].owner = NoTurn,
         NEW z \in StreamRec, z.status # "unused", z.owner = NoTurn,
         NEW q \in RecorderRec, q.turns = r.turns, q.turnOf = r.turnOf,
         q.contested = r.contested, q.preemptive = r.preemptive,
         {q.pending, q.collecting, q.current, q.speaking, q.retired} \subseteq 0..Len(r.turns),
         q.streams[st] = z, \A x \in Stream \ {st} : q.streams[x] = r.streams[x]
  PROVE  Sound(q)
<1>1. /\ Known(r) /\ r \in RecorderRec /\ Len(r.turns) \in Nat
      /\ r.streams \in [Stream -> StreamRec]
  BY KnownFacts DEF Sound
<1>6. Places(q)
  <2>1. \A x \in Stream : q.streams[x].owner \in 0..Len(q.turns)
    <3>1. \A x \in Stream : r.streams[x].owner \in 0..Len(r.turns)
      BY <1>1, KnownFacts
    <3>2. QED BY <1>1, <3>1 DEF NoTurn
  <2>2. QED BY <1>1, <2>1, KnownFacts DEF Places
<1>7. Identified(q)
  BY DEF Sound, Identified
<1>8. Counted(q)
  <2>1. \A x \in 1..Len(r.turns) : OpenOn(q, x) = OpenOn(r, x)
    BY DEF OpenOn, NoTurn
  <2>2. QED BY <2>1 DEF Sound, Counted
<1>9. Worded(q) /\ PutOff(q)
  BY DEF Sound, Worded, PutOff
<1>10. QED BY <1>6, <1>7, <1>8, <1>9 DEF Sound, Known

LEMMA CloseStreamKeeps ==
  ASSUME NEW r, Sound(r), NEW st \in Stream, r.streams[st].status = "open"
  PROVE  Keeps(r, CloseStream(r, st), NoSpeech)
<1>1. PICK t, z : t = r.streams[st].owner /\ z = [r.streams[st] EXCEPT !.status = "closed"]
  OBVIOUS
<1>2. /\ Known(r) /\ r \in RecorderRec /\ t \in 0..Len(r.turns) /\ Len(r.turns) \in Nat
      /\ r.streams \in [Stream -> StreamRec] /\ r.streams[st] \in StreamRec
      /\ r.turns \in Seq(TurnRec)
  BY <1>1, KnownFacts DEF Sound
<1>3. /\ z \in StreamRec /\ z.status = "closed" /\ z.owner = t /\ z.sid = r.streams[st].sid
      /\ z.held = r.streams[st].held
  BY <1>1, <1>2 DEF StreamRec
<1>4. PICK ss, q : ss = [r.streams EXCEPT ![st] = z] /\ q = [r EXCEPT !.streams = ss]
  OBVIOUS
<1>5. q = [r EXCEPT !.streams[st].status = "closed"]
  BY <1>1, <1>4
<1>0. /\ ss \in [Stream -> StreamRec] /\ ss[st] = z
      /\ \A x \in Stream \ {st} : ss[x] = r.streams[x]
  BY <1>2, <1>3, <1>4
<1>6. CASE t = NoTurn
  <2>1. /\ Sound(q) /\ q.turns = r.turns /\ q.turnOf = r.turnOf /\ q.contested = r.contested
        /\ q.inferred = r.inferred
        /\ q.streams[st] = z /\ \A x \in Stream \ {st} : q.streams[x] = r.streams[x]
    <3>1. z.status # "unused" /\ z.owner = NoTurn /\ r.streams[st].owner = NoTurn
      BY <1>1, <1>3, <1>6
    <3>2. q \in RecorderRec
      BY <1>0, <1>2, <1>4 DEF RecorderRec
    <3>3. /\ q.turns = r.turns /\ q.current = r.current /\ q.turnOf = r.turnOf
          /\ q.contested = r.contested /\ q.preemptive = r.preemptive /\ q.streams = ss
          /\ q.pending = r.pending /\ q.collecting = r.collecting /\ q.speaking = r.speaking
          /\ q.retired = r.retired /\ q.inferred = r.inferred
      BY <1>2, <1>4 DEF RecorderRec
    <3>4. {q.pending, q.collecting, q.current, q.speaking, q.retired} \subseteq 0..Len(r.turns)
      BY <1>2, <3>3, KnownFacts
    <3>5. Sound(q)
      BY <1>0, <1>3, <3>1, <3>2, <3>3, <3>4, LooseStreamKeeps
    <3>6. QED BY <1>0, <3>3, <3>5
  <2>2. Keeps(r, q, NoSpeech)
    <3>1. \A x \in Stream :
            /\ q.streams[x].sid = r.streams[x].sid
            /\ q.streams[x].status = "unused" <=> r.streams[x].status = "unused"
            /\ r.streams[x].owner # NoTurn => q.streams[x].owner = r.streams[x].owner
      <4>1. r.streams[st].status = "open"
        OBVIOUS
      <4>2. QED BY ONLY <1>1, <1>3, <1>6, <2>1, <4>1
    <3>2. Holds(r, q, NoSpeech)
      BY <1>2, <2>1, <3>1 DEF Holds, Later
    <3>3. Quiet(r, q)
      <4>1. \A x \in Stream : q.streams[x].owner = r.streams[x].owner
                              /\ q.streams[x].held = r.streams[x].held
        BY ONLY <1>1, <1>3, <2>1
      <4>2. QED BY <2>1, <3>1, <4>1 DEF Quiet, Rests
    <3>4. Carries(r, q)
      BY <1>2, <2>1, <3>3, QuietCarries DEF Sound
    <3>5. QED BY <3>2, <3>4 DEF Keeps
  <2>3. CloseStream(r, st) = q
    BY <1>1, <1>5, <1>6 DEF CloseStream
  <2>4. QED BY <2>2, <2>3
<1>7. CASE t # NoTurn
  <2>1. t \in 1..Len(r.turns) /\ r.turns[t] \in TurnRec
    BY <1>2, <1>7, KnownFacts DEF NoTurn
  <2>2. PICK u : u = r.turns[t] /\ u \in TurnRec
    BY <2>1
  <2>3. u.open \in Nat /\ u.open > 0
    <3>1. st \in OpenOn(r, t)
      BY <1>1 DEF OpenOn
    <3>2. /\ u.open = Cardinality(OpenOn(r, t)) /\ IsFiniteSet(OpenOn(r, t)) /\ u.open \in Nat
      BY <2>1, <2>2, CountedOn
    <3>3. QED BY <3>1, <3>2, FS_EmptySet
  <2>4. PICK n \in Nat : n = u.open - 1
    BY <2>3
  <2>5. PICK v : v = [u EXCEPT !.open = n]
    OBVIOUS
  <2>6. PICK x : x = [v EXCEPT !.awaitClose = FALSE]
    OBVIOUS
  <2>7. v \in TurnRec
    BY <2>2, <2>5 DEF TurnRec
  <2>8. x \in TurnRec
    BY <2>6, <2>7 DEF TurnRec
  <2>9. /\ v.source = u.source /\ v.open = n /\ v.words = u.words /\ v.stt = u.stt
        /\ v.wordsOut = u.wordsOut
    BY <2>2, <2>5 DEF TurnRec
  <2>25. Rests(u, v) /\ Rests(u, x)
    <3>1. SameAudio(u, v)
      BY <2>2, <2>5 DEF TurnRec, SameAudio
    <3>2. SameAudio(v, x)
      BY <2>6, <2>7 DEF TurnRec, SameAudio
    <3>3. SameAudio(u, x)
      BY <3>1, <3>2 DEF SameAudio
    <3>4. QED BY <3>1, <3>3, SameAudioRests
  <2>10. /\ x.source = v.source /\ x.open = v.open /\ x.words = v.words /\ x.stt = v.stt
         /\ x.wordsOut = v.wordsOut /\ ~x.awaitClose
    BY <2>6, <2>7 DEF TurnRec
  <2>11. PICK vs, xs : vs = [r.turns EXCEPT ![t] = v] /\ xs = [r.turns EXCEPT ![t] = x]
    OBVIOUS
  <2>12. vs \in Seq(TurnRec) /\ xs \in Seq(TurnRec) /\ vs[t] = v /\ xs[t] = x
         /\ [vs EXCEPT ![t] = x] = xs /\ Len(vs) = Len(r.turns) /\ Len(xs) = Len(r.turns)
         /\ \A y \in 1..Len(r.turns) : /\ vs[y] = IF y = t THEN v ELSE r.turns[y]
                                       /\ xs[y] = IF y = t THEN x ELSE r.turns[y]
    <3>1. /\ vs \in Seq(TurnRec) /\ xs \in Seq(TurnRec)
          /\ Len(vs) = Len(r.turns) /\ Len(xs) = Len(r.turns)
          /\ \A y \in 1..Len(r.turns) : /\ vs[y] = IF y = t THEN v ELSE r.turns[y]
                                        /\ xs[y] = IF y = t THEN x ELSE r.turns[y]
      BY <1>2, <2>1, <2>7, <2>8, <2>11, ReplaceTurn
    <3>2. QED BY <1>2, <2>1, <2>11, <3>1
  <2>14. ss \in [Stream -> StreamRec]
    BY <1>0
  <2>15. PICK p, over : /\ p = [q EXCEPT !.turns = vs]
                        /\ over = [p EXCEPT !.turns = xs]
    OBVIOUS
  <2>16. q.turns = r.turns /\ p.turns = vs
    BY <1>2, <1>4, <2>15 DEF RecorderRec
  <2>17. p \in RecorderRec /\ over \in RecorderRec
    <3>1. q \in RecorderRec
      BY <1>2, <1>4, <2>14 DEF RecorderRec
    <3>2. p \in RecorderRec
      BY <2>12, <2>15, <3>1 DEF RecorderRec
    <3>3. QED BY <2>12, <2>15, <3>2 DEF RecorderRec
  <2>18. ASSUME NEW y \in {p, over}
         PROVE  /\ y.turnOf = r.turnOf /\ y.contested = r.contested /\ y.streams = ss
                /\ y.preemptive = r.preemptive /\ y.inferred = r.inferred
                /\ {y.pending, y.collecting, y.current, y.speaking, y.retired} \subseteq 0..Len(r.turns)
    <3>1. /\ y.turnOf = r.turnOf /\ y.contested = r.contested /\ y.streams = ss
          /\ y.preemptive = r.preemptive /\ y.pending = r.pending /\ y.collecting = r.collecting
          /\ y.current = r.current /\ y.speaking = r.speaking /\ y.retired = r.retired
          /\ y.inferred = r.inferred
      BY <1>2, <1>4, <2>14, <2>15, <2>18 DEF RecorderRec
    <3>2. QED BY <1>2, <3>1, KnownFacts
  <2>19. over.turns = xs
    BY <2>15, <2>17 DEF RecorderRec
  <2>20. p = [q EXCEPT !.turns[t].open = IF @ > 0 THEN @ - 1 ELSE 0]
    BY <2>2, <2>3, <2>4, <2>5, <2>11, <2>15, <2>16
  <2>21. over = [p EXCEPT !.turns[t].awaitClose = FALSE]
    BY <2>6, <2>12, <2>15, <2>16
  <2>22. CASE p.turns[t].open > 0 \/ p.turns[t].finished \/ ~p.turns[t].awaitClose
    <3>1. CloseStream(r, st) = p
      BY <1>1, <1>5, <1>7, <2>20, <2>22 DEF CloseStream
    <3>2. v.awaitClose /\ ~v.finished => v.open > 0
      BY <2>12, <2>16, <2>22
    <3>3. /\ v.open = r.turns[t].open - 1 /\ v.words = r.turns[t].words
          /\ v.stt = r.turns[t].stt /\ v.wordsOut = r.turns[t].wordsOut
          /\ v.source = r.turns[t].source /\ Rests(r.turns[t], v)
      BY <2>2, <2>4, <2>9, <2>25
    <3>4. /\ Len(p.turns) = Len(r.turns)
          /\ \A y \in 1..Len(r.turns) : p.turns[y] = IF y = t THEN v ELSE r.turns[y]
          /\ \A y \in Stream \ {st} : p.streams[y] = r.streams[y]
          /\ p.streams[st].status = "closed" /\ p.streams[st].owner = t
          /\ p.streams[st].sid = r.streams[st].sid
          /\ p.streams[st].held = r.streams[st].held /\ p.inferred = r.inferred
          /\ p.turnOf = r.turnOf /\ p.contested = r.contested /\ p.preemptive = r.preemptive
          /\ {p.pending, p.collecting, p.current, p.speaking, p.retired} \subseteq 0..Len(r.turns)
      BY <1>0, <1>3, <2>12, <2>16, <2>18, SMTT(60)
    <3>5. /\ r.streams[st].owner = t
          /\ Sound(r) /\ st \in Stream /\ r.streams[st].status = "open"
      BY <1>1
    <3>6. Keeps(r, p, NoSpeech)
      BY ONLY <2>1, <2>7, <2>17, <3>2, <3>3, <3>4, <3>5, ClosedKeeps
    <3>7. QED BY <3>1, <3>6
  <2>23. CASE ~(p.turns[t].open > 0 \/ p.turns[t].finished \/ ~p.turns[t].awaitClose)
    <3>1. CloseStream(r, st) = IF over.turns[t].awaitItem THEN over ELSE FinishTurn(over, t)
      <4>1. CloseStream(r, st) =
              LET P == [q EXCEPT !.turns[t].open = IF @ > 0 THEN @ - 1 ELSE 0]
                  O == [P EXCEPT !.turns[t].awaitClose = FALSE]
              IN  IF t = NoTurn THEN q
                  ELSE IF P.turns[t].open > 0 \/ P.turns[t].finished \/ ~P.turns[t].awaitClose THEN P
                  ELSE IF O.turns[t].awaitItem THEN O ELSE FinishTurn(O, t)
        BY ONLY <1>1, <1>5 DEF CloseStream
      <4>2. CloseStream(r, st) =
              LET O == [p EXCEPT !.turns[t].awaitClose = FALSE]
              IN  IF t = NoTurn THEN q
                  ELSE IF p.turns[t].open > 0 \/ p.turns[t].finished \/ ~p.turns[t].awaitClose THEN p
                  ELSE IF O.turns[t].awaitItem THEN O ELSE FinishTurn(O, t)
        BY ONLY <2>20, <4>1
      <4>3. CloseStream(r, st) =
              IF t = NoTurn THEN q
              ELSE IF p.turns[t].open > 0 \/ p.turns[t].finished \/ ~p.turns[t].awaitClose THEN p
              ELSE IF over.turns[t].awaitItem THEN over ELSE FinishTurn(over, t)
        BY ONLY <2>21, <4>2
      <4>4. QED BY ONLY <1>7, <2>23, <4>3
    <3>2. x.awaitClose /\ ~x.finished => x.open > 0
      BY <2>10
    <3>3. /\ x.open = r.turns[t].open - 1 /\ x.words = r.turns[t].words
          /\ x.stt = r.turns[t].stt /\ x.wordsOut = r.turns[t].wordsOut
          /\ x.source = r.turns[t].source /\ Rests(r.turns[t], x)
      BY <2>2, <2>4, <2>9, <2>10, <2>25
    <3>4. /\ Len(over.turns) = Len(r.turns)
          /\ \A y \in 1..Len(r.turns) : over.turns[y] = IF y = t THEN x ELSE r.turns[y]
          /\ \A y \in Stream \ {st} : over.streams[y] = r.streams[y]
          /\ over.streams[st].status = "closed" /\ over.streams[st].owner = t
          /\ over.streams[st].sid = r.streams[st].sid
          /\ over.streams[st].held = r.streams[st].held /\ over.inferred = r.inferred
          /\ over.turnOf = r.turnOf /\ over.contested = r.contested /\ over.preemptive = r.preemptive
          /\ {over.pending, over.collecting, over.current, over.speaking, over.retired}
               \subseteq 0..Len(r.turns)
      BY <1>0, <1>3, <2>12, <2>18, <2>19, SMTT(60)
    <3>5. /\ r.streams[st].owner = t
          /\ Sound(r) /\ st \in Stream /\ r.streams[st].status = "open"
      BY <1>1
    <3>6. Keeps(r, over, NoSpeech)
      BY ONLY <2>1, <2>8, <2>17, <3>2, <3>3, <3>4, <3>5, ClosedKeeps
    <3>7. Sound(over) /\ Known(over) /\ t \in 1..Len(over.turns)
      BY <2>1, <3>4, <3>6 DEF Keeps, Holds, Sound
    <3>8. Keeps(r, FinishTurn(over, t), NoSpeech)
      BY <3>6, <3>7, FinishTurnContinues, ContinuesKeeps, KeepsTransitive
    <3>9. QED BY <3>1, <3>6, <3>8
  <2>24. QED BY <2>22, <2>23
<1>8. QED BY <1>6, <1>7


-------------------------------------------------------------------------------
(* A step about one speech *)

\* What the recorder owes a speech announced so.
Standing(q, s, src) ==
  /\ q.contested[s] # Uncontested => src = "generate_reply"
  /\ src # "none" => \/ q.contested[s] # Uncontested
                     \/ /\ Answered(q, s)
                        /\ q.turns[q.turnOf[s]].source # "none"
                        /\ src = "generate_reply" =>
                             q.turns[q.turnOf[s]].source = "generate_reply"

LEMMA StandingFromInv ==
  ASSUME RecorderInv, call = "live", NEW s \in Speech
  PROVE  Standing(rec, s, source[s])
  BY DEF RecorderInv, Attributed, Settled, Standing, Answered

LEMMA StandingKept ==
  ASSUME NEW r, Sound(r), NEW q, NEW x, NEW s \in Speech, s # x, Holds(r, q, x), NEW src,
         Standing(r, s, src)
  PROVE  Standing(q, s, src)
<1>1. q.turnOf[s] = r.turnOf[s] /\ q.contested[s] = r.contested[s]
  BY DEF Holds
<1>2. ASSUME Answered(r, s) PROVE Answered(q, s)
  BY <1>1, <1>2 DEF Answered, Holds
<1>3. ASSUME r.turnOf[s] # NoTurn PROVE Later(r.turns[r.turnOf[s]], q.turns[q.turnOf[s]])
  <2>1. r.turnOf[s] \in 1..Len(r.turns)
    BY <1>3, KnownFacts DEF Sound, NoTurn
  <2>2. QED BY <1>1, <2>1 DEF Holds
<1>4. QED BY <1>1, <1>2, <1>3 DEF Standing, Later, Answered

\* While the call lasts: if each speech stands as it should, so does the recorder.
LEMMA InvFromStanding ==
  ASSUME Sound(rec), \A x \in Speech : Standing(rec, x, source[x]),
         source \in [Speech -> Sources \cup {"none"}], call = "live"
  PROVE  RecorderInv
<1>1. Attributed(rec)
  <2> SUFFICES ASSUME NEW s \in Speech, source[s] # "none", rec.turnOf[s] # NoTurn
               PROVE  /\ rec.turns[rec.turnOf[s]].source # "none"
                      /\ source[s] = "generate_reply" =>
                           rec.turns[rec.turnOf[s]].source = "generate_reply"
    BY DEF Attributed
  <2>1. rec.contested[s] = Uncontested
    BY DEF Sound, PutOff
  <2>2. QED BY <2>1 DEF Standing
<1>2. Settled(rec)
  BY DEF Standing, Settled
<1>3. QED BY <1>1, <1>2 DEF RecorderInv

LEMMA InvFromStandingNext ==
  (Sound(rec) /\ (\A x \in Speech : Standing(rec, x, source[x]))
   /\ source \in [Speech -> Sources \cup {"none"}] /\ call = "live" => RecorderInv)'
  BY InvFromStanding, PTL

LEMMA NothingAnnounced ==
  ASSUME RecorderInv, call = "live", call' = "live", source' = source,
         Holds(rec, rec', NoSpeech)
  PROVE  RecorderInv'
<1>1. Sound(rec)' /\ Sound(rec)
  BY DEF Holds, RecorderInv
<1>2. ASSUME NEW s \in Speech PROVE Standing(rec', s, source'[s])
  BY <1>1, StandingFromInv, StandingKept, TurnsAssumption
<1>3. (source \in [Speech -> Sources \cup {"none"}])'
  BY DEF RecorderInv
<1>4. QED BY <1>1, <1>2, <1>3, InvFromStandingNext

LEMMA OneSpeech ==
  ASSUME RecorderInv, call = "live", call' = "live", NEW s \in Speech,
         source' \in [Speech -> Sources \cup {"none"}],
         \A x \in Speech \ {s} : source'[x] = source[x],
         Holds(rec, rec', s), Standing(rec', s, source'[s])
  PROVE  RecorderInv'
<1>1. Sound(rec)' /\ Sound(rec)
  BY DEF Holds, RecorderInv
<1>2. ASSUME NEW x \in Speech PROVE Standing(rec', x, source'[x])
  BY <1>1, StandingFromInv, StandingKept
<1>3. QED BY <1>1, <1>2, InvFromStandingNext

\* A reply that was bound stands as it should, whatever it goes on to do.
LEMMA BoundStands ==
  ASSUME NEW r, Sound(r), NEW p, NEW q, NEW s \in Speech, NEW src \in Sources,
         Binds(r, p, s, src), Holds(p, q, NoSpeech)
  PROVE  Holds(r, q, s) /\ Standing(q, s, src)
<1>1. Sound(p) /\ Holds(r, p, s)
  BY DEF Binds, Keeps, Holds
<1>2. Holds(r, q, s)
  BY <1>1, HoldsWidens, HoldsTransitive
<1>3. Standing(p, s, src)
  BY DEF Binds, Standing, Answered, Sources
<1>4. Standing(q, s, src)
  BY <1>1, <1>3, StandingKept, TurnsAssumption
<1>5. QED BY <1>2, <1>4

-------------------------------------------------------------------------------
(* The caller's words *)

\* A turn gets one more final transcript, in a span that is open; it is the turn of the
\* words, ahead of which no reply was generated.
Reworded(r, q, t, v) ==
  /\ v.stt = "open" /\ v.open = r.turns[t].open /\ v.source = r.turns[t].source
  /\ v.awaitClose = r.turns[t].awaitClose /\ v.finished = r.turns[t].finished
  /\ Rests(r.turns[t], v)
  /\ q.turns = [r.turns EXCEPT ![t] = v] /\ q.turnOf = r.turnOf /\ q.contested = r.contested
  /\ q.streams = r.streams /\ q.inferred = r.inferred /\ q.preemptive = NoTurn
  /\ {q.pending, q.collecting, q.current, q.speaking, q.retired} \subseteq 0..Len(r.turns)

LEMMA WordsGiven ==
  ASSUME NEW r, Sound(r), NEW t \in 1..Len(r.turns), NEW v \in TurnRec,
         NEW q \in RecorderRec, Reworded(r, q, t, v)
  PROVE  /\ Sound(q) /\ Len(q.turns) = Len(r.turns) /\ Carries(r, q)
         /\ \A x \in 1..Len(r.turns) : q.turns[x].source = r.turns[x].source
         /\ \A x \in 1..Len(r.turns) : x # t => q.turns[x] = r.turns[x]
         /\ q.turns[t] = v
<1>1. /\ Known(r) /\ r \in RecorderRec /\ r.turns \in Seq(TurnRec) /\ Len(r.turns) \in Nat
  BY KnownFacts DEF Sound
<1>0. /\ v.stt = "open" /\ v.open = r.turns[t].open /\ v.source = r.turns[t].source
      /\ v.awaitClose = r.turns[t].awaitClose /\ v.finished = r.turns[t].finished
      /\ Rests(r.turns[t], v)
      /\ q.turns = [r.turns EXCEPT ![t] = v] /\ q.turnOf = r.turnOf /\ q.contested = r.contested
      /\ q.streams = r.streams /\ q.inferred = r.inferred /\ q.preemptive = NoTurn
      /\ {q.pending, q.collecting, q.current, q.speaking, q.retired} \subseteq 0..Len(r.turns)
  BY DEF Reworded
<1>2. /\ Len(q.turns) = Len(r.turns)
      /\ \A x \in 1..Len(r.turns) : q.turns[x] = IF x = t THEN v ELSE r.turns[x]
  BY <1>0, <1>1, ReplaceTurn
<1>3. Places(q)
  BY <1>0, <1>1, <1>2, KnownFacts DEF Places, NoTurn
<1>4. Identified(q) /\ PutOff(q)
  BY <1>0 DEF Sound, Identified, PutOff
<1>5. Counted(q)
  <2> SUFFICES ASSUME NEW x \in 1..Len(q.turns)
               PROVE  /\ q.turns[x].open = Cardinality(OpenOn(q, x))
                      /\ q.turns[x].awaitClose /\ ~q.turns[x].finished => q.turns[x].open > 0
    BY DEF Counted
  <2>1. OpenOn(q, x) = OpenOn(r, x)
    BY <1>0 DEF OpenOn
  <2>2. /\ r.turns[x].open = Cardinality(OpenOn(r, x))
        /\ r.turns[x].awaitClose /\ ~r.turns[x].finished => r.turns[x].open > 0
    BY <1>2 DEF Sound, Counted
  <2>3. QED BY <1>0, <1>2, <2>1, <2>2
<1>6. Worded(q)
  <2>1. ASSUME NEW x \in 1..Len(q.turns)
        PROVE  /\ q.turns[x].stt = "ended" => q.turns[x].wordsOut = q.turns[x].words
               /\ q.turns[x].stt = "none" => q.turns[x].words = 0 /\ q.turns[x].wordsOut = 0
    BY <1>0, <1>2 DEF Sound, Worded
  <2>2. QED BY <1>0, <2>1 DEF Worded
<1>7. Sound(q)
  BY <1>3, <1>4, <1>5, <1>6 DEF Sound, Known
<1>8. Quiet(r, q)
  <2>1. Rests(r.turns[t], v) /\ q.inferred = r.inferred /\ q.streams = r.streams
    BY <1>0
  <2>2. \A x \in 1..Len(r.turns) : Rests(r.turns[x], r.turns[x])
    BY DEF Rests
  <2>3. \A x \in 1..Len(r.turns) : Rests(r.turns[x], q.turns[x])
    BY ONLY <1>2, <2>1, <2>2
  <2>4. QED BY ONLY <1>2, <2>1, <2>3 DEF Quiet
<1>9. Carries(r, q)
  BY <1>1, <1>7, <1>8, QuietCarries DEF Sound
<1>10. QED BY <1>0, <1>2, <1>7, <1>9

\* All that stands of the speeches stands still.
LEMMA WordsStanding ==
  ASSUME NEW r, Sound(r), NEW q, NEW s \in Speech, NEW src, Standing(r, s, src),
         q.turnOf = r.turnOf, q.contested = r.contested, q.streams = r.streams,
         \A x \in 1..Len(r.turns) : q.turns[x].source = r.turns[x].source
  PROVE  Standing(q, s, src)
<1>1. r.turnOf[s] # NoTurn => r.turnOf[s] \in 1..Len(r.turns)
  BY KnownFacts DEF Sound, NoTurn
<1>2. QED BY <1>1 DEF Standing, Answered

\* The words of a final transcript, and nothing else, are added to what the turns have.
Hears(r, q) ==
  /\ Sound(q) /\ Len(r.turns) <= Len(q.turns) /\ Carries(r, q)
  /\ q.turnOf = r.turnOf /\ q.contested = r.contested /\ q.streams = r.streams
  /\ \A x \in 1..Len(r.turns) : q.turns[x].source = r.turns[x].source
  /\ \E t \in 1..Len(q.turns) :
       /\ q.turns[t].words = (IF t \in 1..Len(r.turns) THEN r.turns[t].words ELSE 0) + 1
       /\ \A x \in 1..Len(r.turns) : x # t => q.turns[x].words = r.turns[x].words
       /\ \A x \in (Len(r.turns) + 1)..Len(q.turns) : x # t => q.turns[x].words = 0

LEMMA ExtendUserTurnHears ==
  ASSUME NEW r, Sound(r), StillCollecting(r)
  PROVE  Hears(r, ExtendUserTurn(r))
<1>1. PICK t, u : t = r.collecting /\ u = r.turns[t]
  OBVIOUS
<1>2. /\ Known(r) /\ r \in RecorderRec /\ r.turns \in Seq(TurnRec) /\ Len(r.turns) \in Nat
      /\ t \in 1..Len(r.turns) /\ u \in TurnRec /\ r.preemptive = NoTurn /\ u.stt = "open"
  <2>1. t # NoTurn /\ r.preemptive = NoTurn /\ u.stt = "open"
    BY <1>1 DEF StillCollecting
  <2>2. QED BY <1>1, <2>1, KnownFacts DEF Sound, NoTurn
<1>3. PICK n \in Nat : n = u.words + 1
  BY <1>2 DEF TurnRec
<1>4. PICK v : v = [u EXCEPT !.words = n]
  OBVIOUS
<1>5. v \in TurnRec
  BY <1>2, <1>4 DEF TurnRec
<1>6. /\ v.stt = "open" /\ v.open = u.open /\ v.source = u.source /\ v.words = n
      /\ v.awaitClose = u.awaitClose /\ v.finished = u.finished /\ Rests(u, v)
  <2>1. SameAudio(u, v)
    BY <1>2, <1>4 DEF TurnRec, SameAudio
  <2>2. QED BY <1>2, <1>4, <2>1, SameAudioRests DEF TurnRec
<1>7. PICK ts : ts = [r.turns EXCEPT ![t] = v]
  OBVIOUS
<1>8. ts \in Seq(TurnRec)
  BY <1>2, <1>5, <1>7, ReplaceTurn
<1>9. PICK q : q = [r EXCEPT !.turns = ts, !.utterance = "silent"]
  OBVIOUS
<1>10. q \in RecorderRec
  BY <1>2, <1>8, <1>9 DEF RecorderRec
<1>11. /\ q.turns = ts /\ q.current = r.current /\ q.turnOf = r.turnOf
       /\ q.contested = r.contested /\ q.preemptive = r.preemptive /\ q.streams = r.streams
       /\ q.pending = r.pending /\ q.collecting = r.collecting /\ q.speaking = r.speaking
       /\ q.retired = r.retired /\ q.inferred = r.inferred
  BY <1>2, <1>9 DEF RecorderRec
<1>12. {q.pending, q.collecting, q.current, q.speaking, q.retired} \subseteq 0..Len(r.turns)
  BY <1>2, <1>11, KnownFacts
<1>13. /\ Sound(q) /\ Len(q.turns) = Len(r.turns) /\ Carries(r, q)
       /\ \A x \in 1..Len(r.turns) : q.turns[x].source = r.turns[x].source
       /\ \A x \in 1..Len(r.turns) : x # t => q.turns[x] = r.turns[x]
       /\ q.turns[t] = v
  <2>1. /\ v.open = r.turns[t].open /\ v.source = r.turns[t].source
        /\ v.awaitClose = r.turns[t].awaitClose /\ v.finished = r.turns[t].finished
        /\ Rests(r.turns[t], v)
    BY <1>1, <1>6
  <2>2. q.turns = [r.turns EXCEPT ![t] = v] /\ q.preemptive = NoTurn
    BY <1>2, <1>7, <1>11
  <2>3. Sound(r) /\ t \in 1..Len(r.turns) /\ v.stt = "open"
    BY <1>2, <1>6
  <2>4. /\ q.turnOf = r.turnOf /\ q.contested = r.contested /\ q.streams = r.streams
        /\ q.inferred = r.inferred
    BY <1>11
  <2>5. Reworded(r, q, t, v)
    BY ONLY <1>12, <2>1, <2>2, <2>3, <2>4 DEF Reworded
  <2>6. QED BY ONLY <1>5, <1>10, <2>3, <2>5, WordsGiven, SMTT(60)
<1>14. Hears(r, q)
  BY <1>1, <1>2, <1>3, <1>6, <1>11, <1>13, SMTT(60) DEF Hears
<1>15. ExtendUserTurn(r) = q
  BY <1>1, <1>2, <1>3, <1>4, <1>7, <1>9 DEF ExtendUserTurn
<1>16. QED BY <1>14, <1>15

LEMMA OpenUserTurnHears ==
  ASSUME NEW r, Sound(r)
  PROVE  Hears(r, OpenUserTurn(r))
<1>1. PICK p, t : /\ p = IF r.preemptive = NoTurn THEN AddTurn(r) ELSE r
                  /\ t = IF r.preemptive = NoTurn THEN Newest(p) ELSE r.preemptive
  OBVIOUS
<1>2. /\ Known(r) /\ r \in RecorderRec /\ r.turns \in Seq(TurnRec) /\ Len(r.turns) \in Nat
      /\ r.preemptive \in 0..Len(r.turns)
  BY KnownFacts DEF Sound
<1>3. /\ Sound(p) /\ t \in 1..Len(p.turns) /\ Len(r.turns) <= Len(p.turns)
      /\ p.turns[t].words = 0 /\ Carries(r, p)
      /\ p.turnOf = r.turnOf /\ p.contested = r.contested /\ p.streams = r.streams
      /\ \A x \in 1..Len(r.turns) : p.turns[x] = r.turns[x]
      /\ \A x \in (Len(r.turns) + 1)..Len(p.turns) : x = t
  <2>1. CASE r.preemptive = NoTurn
    <3>1. /\ Keeps(r, p, NoSpeech) /\ p = [r EXCEPT !.turns = p.turns]
          /\ Len(p.turns) = Len(r.turns) + 1 /\ p.turns[Len(r.turns) + 1] = FreshTurn
          /\ \A x \in 1..Len(r.turns) : p.turns[x] = r.turns[x]
      BY <1>1, <2>1, AddTurnKeeps
    <3>2. p.turnOf = r.turnOf /\ p.contested = r.contested /\ p.streams = r.streams
      BY <1>2, <3>1 DEF RecorderRec
    <3>3. t = Len(r.turns) + 1
      BY <1>1, <2>1, <3>1 DEF Newest
    <3>4. FreshTurn.words = 0
      BY DEF FreshTurn
    <3>5. QED BY <1>2, <3>1, <3>2, <3>3, <3>4 DEF Keeps, Holds
  <2>2. CASE r.preemptive # NoTurn
    <3>1. p = r /\ t = r.preemptive
      BY <1>1, <2>2
    <3>2. t \in 1..Len(r.turns)
      BY <1>2, <2>2, <3>1 DEF NoTurn
    <3>3. r.turns[t].words = 0
      BY <2>2, <3>1, <3>2 DEF Sound, Worded
    <3>4. QED BY <1>2, <3>1, <3>2, <3>3, CarriesReflexive
  <2>3. QED BY <2>1, <2>2
<1>4. /\ Known(p) /\ p \in RecorderRec /\ p.turns \in Seq(TurnRec) /\ Len(p.turns) \in Nat
      /\ p.turns[t] \in TurnRec /\ t \in Nat
  BY <1>3, KnownFacts DEF Sound
<1>5. PICK u : u = p.turns[t]
  OBVIOUS
<1>6. PICK w : w = [u EXCEPT !.stt = "open"]
  OBVIOUS
<1>7. PICK v : v = [w EXCEPT !.words = 1]
  OBVIOUS
<1>8. v \in TurnRec /\ w \in TurnRec
  BY <1>4, <1>5, <1>6, <1>7, ZenonT(60) DEF TurnRec, Span
<1>9. /\ v.stt = "open" /\ v.open = u.open /\ v.source = u.source /\ v.words = 1
      /\ v.awaitClose = u.awaitClose /\ v.finished = u.finished /\ Rests(u, v)
  <2>1. SameAudio(u, w)
    BY <1>4, <1>5, <1>6 DEF TurnRec, SameAudio
  <2>2. SameAudio(w, v)
    BY <1>7, <1>8 DEF TurnRec, SameAudio
  <2>3. SameAudio(u, v)
    BY <2>1, <2>2 DEF SameAudio
  <2>4. QED BY <1>4, <1>5, <1>6, <1>7, <2>3, SameAudioRests DEF TurnRec
<1>10. PICK ws, ts : ws = [p.turns EXCEPT ![t] = w] /\ ts = [p.turns EXCEPT ![t] = v]
  OBVIOUS
<1>11. ts \in Seq(TurnRec) /\ ws \in Seq(TurnRec) /\ ws[t] = w /\ ts = [ws EXCEPT ![t] = v]
  BY <1>3, <1>4, <1>8, <1>10, ReplaceTurn
<1>12. PICK m : m = [p EXCEPT !.preemptive = NoTurn, !.utterance = "silent",
                              !.pending = t, !.collecting = t, !.current = t]
  OBVIOUS
<1>13. PICK n : n = [m EXCEPT !.turns = ws]
  OBVIOUS
<1>14. PICK q : q = [n EXCEPT !.turns = ts]
  OBVIOUS
<1>15. m.turns = p.turns /\ m \in RecorderRec
  BY <1>4, <1>12 DEF RecorderRec, NoTurn
<1>16. n.turns = ws /\ n \in RecorderRec
  BY <1>11, <1>13, <1>15 DEF RecorderRec
<1>17. q \in RecorderRec
  BY <1>11, <1>14, <1>16 DEF RecorderRec
<1>18. /\ q.turns = ts /\ q.turnOf = p.turnOf /\ q.contested = p.contested
       /\ q.preemptive = NoTurn /\ q.streams = p.streams /\ q.inferred = p.inferred
  <2>1. /\ m.turnOf = p.turnOf /\ m.contested = p.contested
        /\ m.preemptive = NoTurn /\ m.streams = p.streams /\ m.inferred = p.inferred
    BY <1>4, <1>12 DEF RecorderRec
  <2>2. /\ n.turnOf = m.turnOf /\ n.contested = m.contested
        /\ n.preemptive = m.preemptive /\ n.streams = m.streams /\ n.inferred = m.inferred
    BY <1>13, <1>15 DEF RecorderRec
  <2>3. /\ q.turnOf = n.turnOf /\ q.contested = n.contested /\ q.turns = ts
        /\ q.preemptive = n.preemptive /\ q.streams = n.streams /\ q.inferred = n.inferred
    BY <1>14, <1>16 DEF RecorderRec
  <2>4. QED BY <2>1, <2>2, <2>3
<1>19. q.pending = t /\ q.collecting = t /\ q.current = t /\ q.speaking = p.speaking /\ q.retired = p.retired
  <2>1. m.pending = t /\ m.collecting = t /\ m.current = t /\ m.speaking = p.speaking /\ m.retired = p.retired
    BY <1>4, <1>12 DEF RecorderRec
  <2>2. /\ n.pending = m.pending /\ n.collecting = m.collecting /\ n.current = m.current
        /\ n.speaking = m.speaking /\ n.retired = m.retired
    BY <1>13, <1>15 DEF RecorderRec
  <2>3. /\ q.pending = n.pending /\ q.collecting = n.collecting /\ q.current = n.current
        /\ q.speaking = n.speaking /\ q.retired = n.retired
    BY <1>14, <1>16 DEF RecorderRec
  <2>4. QED BY <2>1, <2>2, <2>3
<1>20. {q.pending, q.collecting, q.current, q.speaking, q.retired} \subseteq 0..Len(p.turns)
  BY <1>3, <1>4, <1>19, KnownFacts
<1>21. /\ Sound(q) /\ Len(q.turns) = Len(p.turns) /\ Carries(p, q)
       /\ \A x \in 1..Len(p.turns) : q.turns[x].source = p.turns[x].source
       /\ \A x \in 1..Len(p.turns) : x # t => q.turns[x] = p.turns[x]
       /\ q.turns[t] = v
  <2>1. /\ v.open = p.turns[t].open /\ v.source = p.turns[t].source
        /\ v.awaitClose = p.turns[t].awaitClose /\ v.finished = p.turns[t].finished
        /\ Rests(p.turns[t], v)
    BY <1>5, <1>9
  <2>2. q.turns = [p.turns EXCEPT ![t] = v] /\ q.preemptive = NoTurn
    BY <1>10, <1>18
  <2>3. Sound(p) /\ t \in 1..Len(p.turns) /\ v.stt = "open"
    BY <1>3, <1>8, <1>9
  <2>4. /\ q.turnOf = p.turnOf /\ q.contested = p.contested /\ q.streams = p.streams
        /\ q.inferred = p.inferred
    BY <1>18
  <2>5. v \in TurnRec
    BY <1>8
  <2>6. Reworded(p, q, t, v)
    BY ONLY <1>20, <2>1, <2>2, <2>3, <2>4 DEF Reworded
  <2>7. QED BY ONLY <1>17, <2>3, <2>5, <2>6, WordsGiven
<1>22. Hears(r, q)
  <2>1. /\ Sound(q) /\ Len(r.turns) <= Len(q.turns)
        /\ q.turnOf = r.turnOf /\ q.contested = r.contested /\ q.streams = r.streams
        /\ \A x \in 1..Len(r.turns) : q.turns[x].source = r.turns[x].source
    BY <1>2, <1>3, <1>4, <1>18, <1>21, SMTT(60)
  <2>2. t \in 1..Len(q.turns) /\ q.turns[t].words = 1
    BY <1>3, <1>9, <1>21
  <2>3. t \in 1..Len(r.turns) => r.turns[t].words = 0
    BY <1>3
  <2>4. \A x \in 1..Len(r.turns) : x # t => q.turns[x].words = r.turns[x].words
    BY <1>2, <1>3, <1>4, <1>21, SMTT(60)
  <2>5. \A x \in (Len(r.turns) + 1)..Len(q.turns) : x # t => q.turns[x].words = 0
    BY <1>3, <1>21
  <2>6. q.turns[t].words = (IF t \in 1..Len(r.turns) THEN r.turns[t].words ELSE 0) + 1
    BY <2>2, <2>3
  <2>7. Carries(r, q)
    BY <1>3, <1>21, CarriesTransitive
  <2>8. QED BY <2>1, <2>2, <2>4, <2>5, <2>6, <2>7 DEF Hears
<1>23. OpenUserTurn(r) = q
  <2>1. n = [m EXCEPT !.turns[t].stt = "open"]
    BY ONLY <1>5, <1>6, <1>10, <1>13, <1>15
  <2>2. q = [n EXCEPT !.turns[t].words = 1]
    BY ONLY <1>7, <1>11, <1>14, <1>16
  <2>3. QED BY ONLY <1>1, <1>12, <2>1, <2>2 DEF OpenUserTurn
<1>24. QED BY <1>22, <1>23

-------------------------------------------------------------------------------
(* Speeches heard of before they are announced, and those put off *)

LEMMA StateForKeeps ==
  ASSUME NEW r, Sound(r), NEW s \in Speech, r.contested[s] = Uncontested
  PROVE  /\ StateFor(r, s).current \in 1..Len(StateFor(r, s).turns)
         /\ r.turnOf[s] # NoTurn => Keeps(r, StateFor(r, s), NoSpeech)
         /\ r.turnOf[s] = NoTurn =>
              Keeps(r, StateFor(r, s), s) /\ StateFor(r, s).contested[s] = Uncontested
<1>1. /\ Known(r) /\ r \in RecorderRec /\ Len(r.turns) \in Nat /\ r.turnOf[s] \in 0..Len(r.turns)
      /\ r.pending \in 0..Len(r.turns)
  BY KnownFacts DEF Sound
<1>2. CASE r.turnOf[s] # NoTurn
  <2>1. PICK t, q : t = r.turnOf[s] /\ q = [r EXCEPT !.current = t]
    OBVIOUS
  <2>2. t \in 1..Len(r.turns) /\ t \in Nat
    BY <1>1, <1>2, <2>1 DEF NoTurn
  <2>3. q \in RecorderRec
    BY <1>1, <2>1, <2>2 DEF RecorderRec
  <2>4. /\ q.turns = r.turns /\ q.current = t /\ q.turnOf = r.turnOf
        /\ q.contested = r.contested /\ q.preemptive = r.preemptive /\ q.streams = r.streams
        /\ q.pending = r.pending /\ q.collecting = r.collecting /\ q.speaking = r.speaking
        /\ q.retired = r.retired /\ q.inferred = r.inferred
    BY <1>1, <2>1 DEF RecorderRec
  <2>5. {q.pending, q.collecting, q.current, q.speaking, q.retired} \subseteq 0..Len(r.turns)
    BY <1>1, <2>2, <2>4, KnownFacts
  <2>6. SameStreams(r, q)
    BY <2>4 DEF SameStreams
  <2>7. Continues(r, q)
    BY <1>1, <2>3, <2>4, <2>5, <2>6, Restaged
  <2>8. StateFor(r, s) = q
    BY <1>2, <2>1 DEF StateFor
  <2>9. QED BY <1>2, <2>2, <2>4, <2>7, <2>8, ContinuesKeeps
<1>3. CASE r.turnOf[s] = NoTurn
  <2>1. PICK p, t : /\ p = IF r.pending = NoTurn THEN AddTurn(r) ELSE r
                    /\ t = IF r.pending = NoTurn THEN Newest(p) ELSE r.pending
    OBVIOUS
  <2>2. /\ Keeps(r, p, NoSpeech) /\ t \in 1..Len(p.turns)
        /\ p.turnOf = r.turnOf /\ p.contested = r.contested
    <3>1. CASE r.pending = NoTurn
      <4>1. /\ Keeps(r, p, NoSpeech) /\ p = [r EXCEPT !.turns = p.turns]
            /\ Len(p.turns) = Len(r.turns) + 1
        BY <2>1, <3>1, AddTurnKeeps
      <4>2. p.turnOf = r.turnOf /\ p.contested = r.contested
        BY <1>1, <4>1 DEF RecorderRec
      <4>3. QED BY <1>1, <2>1, <3>1, <4>1, <4>2 DEF Newest
    <3>2. CASE r.pending # NoTurn
      BY <1>1, <2>1, <3>2, KeepsReflexive DEF NoTurn
    <3>3. QED BY <3>1, <3>2
  <2>3. Sound(p) /\ Known(p)
    BY <2>2 DEF Keeps, Holds, Sound
  <2>4. /\ p \in RecorderRec /\ p.turns \in Seq(TurnRec) /\ Len(p.turns) \in Nat
        /\ p.turns[t] \in TurnRec /\ t \in Nat /\ p.turnOf \in [Speech -> Nat]
    BY <2>2, <2>3, KnownFacts
  <2>5. PICK ofs : ofs = [p.turnOf EXCEPT ![s] = t]
    OBVIOUS
  <2>6. ofs \in [Speech -> Nat]
    BY <2>4, <2>5
  <2>7. PICK q : q = [p EXCEPT !.pending = NoTurn, !.turnOf = ofs, !.current = t]
    OBVIOUS
  <2>8. q \in RecorderRec
    BY <2>4, <2>6, <2>7 DEF RecorderRec, NoTurn
  <2>9. /\ q.turns = p.turns /\ q.current = t /\ q.turnOf = ofs
        /\ q.contested = p.contested /\ q.preemptive = p.preemptive /\ q.streams = p.streams
        /\ q.pending = NoTurn /\ q.collecting = p.collecting /\ q.speaking = p.speaking
        /\ q.retired = p.retired /\ q.inferred = p.inferred
    BY <2>4, <2>7 DEF RecorderRec
  <2>10. {q.pending, q.collecting, q.current, q.speaking, q.retired} \subseteq 0..Len(p.turns)
    BY <2>2, <2>3, <2>4, <2>9, KnownFacts DEF NoTurn
  <2>11. PICK v : v = p.turns[t]
    OBVIOUS
  <2>12. v \in TurnRec /\ Relabels(p.turns[t], v) /\ Rests(p.turns[t], v)
    BY <2>4, <2>11 DEF Relabels, Rests
  <2>13. q.turns = [p.turns EXCEPT ![t] = v] /\ q.turnOf = [p.turnOf EXCEPT ![s] = t]
    BY <2>4, <2>5, <2>9, <2>11
  <2>14. /\ q.contested = p.contested /\ q.preemptive = p.preemptive /\ q.streams = p.streams
         /\ p.turnOf[s] \in {NoTurn, t} /\ p.contested[s] = Uncontested /\ s \in Speech
         /\ t \in 1..Len(p.turns) /\ q.inferred = p.inferred
    BY <1>3, <2>2, <2>9
  <2>15. Keeps(p, q, s) /\ Len(q.turns) = Len(p.turns) /\ q.contested[s] = Uncontested
    BY ONLY <2>3, <2>8, <2>10, <2>12, <2>13, <2>14, TurnGiven, SMTT(60)
  <2>16. Keeps(r, q, s)
    BY <2>2, <2>15, KeepsWidens, KeepsTransitive
  <2>17. StateFor(r, s) = q
    BY <1>3, <2>1, <2>5, <2>7 DEF StateFor
  <2>18. QED BY <1>3, <2>2, <2>9, <2>15, <2>16, <2>17
<1>4. QED BY <1>2, <1>3

LEMMA KnownSpeechBinds ==
  ASSUME NEW r, Sound(r), NEW s \in Speech, r.turnOf[s] # NoTurn
  PROVE  Binds(r, KnownSpeech(s, "generate_reply"), s, "generate_reply") \/ r # rec
<1> SUFFICES ASSUME r = rec
             PROVE  Binds(r, KnownSpeech(s, "generate_reply"), s, "generate_reply")
  OBVIOUS
<1>1. PICK t, u : t = r.turnOf[s] /\ u = r.turns[t]
  OBVIOUS
<1>2. /\ Known(r) /\ r \in RecorderRec /\ r.turns \in Seq(TurnRec) /\ Len(r.turns) \in Nat
      /\ t \in 1..Len(r.turns) /\ t \in Nat /\ u \in TurnRec /\ r.contested[s] = Uncontested
  <2>1. t \in 1..Len(r.turns)
    BY <1>1, KnownFacts DEF Sound, NoTurn
  <2>2. QED BY <1>1, <2>1, KnownFacts DEF Sound, PutOff
<1>3. PICK w : w = [u EXCEPT !.handle = s]
  OBVIOUS
<1>4. PICK v : v = [w EXCEPT !.source = "generate_reply"]
  OBVIOUS
<1>5. v \in TurnRec /\ w \in TurnRec
  BY <1>2, <1>3, <1>4 DEF TurnRec, Sources
<1>6. /\ v.source = "generate_reply" /\ v.open = u.open /\ v.words = u.words /\ v.stt = u.stt
      /\ v.wordsOut = u.wordsOut /\ v.awaitClose = u.awaitClose /\ v.finished = u.finished
  BY <1>2, <1>3, <1>4 DEF TurnRec
<1>26. Rests(u, v)
  <2>1. SameAudio(u, w)
    BY <1>2, <1>3 DEF TurnRec, SameAudio
  <2>2. SameAudio(w, v)
    BY <1>4, <1>5 DEF TurnRec, SameAudio
  <2>3. SameAudio(u, v)
    BY <2>1, <2>2 DEF SameAudio
  <2>4. QED BY <2>3, SameAudioRests
<1>7. Relabels(u, v)
  BY ONLY <1>6 DEF Relabels
<1>8. PICK ws, ts : ws = [r.turns EXCEPT ![t] = w] /\ ts = [r.turns EXCEPT ![t] = v]
  OBVIOUS
<1>9. ts \in Seq(TurnRec) /\ ws \in Seq(TurnRec) /\ ws[t] = w /\ ts = [ws EXCEPT ![t] = v]
  BY <1>2, <1>5, <1>8, ReplaceTurn
<1>10. PICK n : n = [r EXCEPT !.turns = ws]
  OBVIOUS
<1>11. PICK m : m = [n EXCEPT !.turns = ts]
  OBVIOUS
<1>12. PICK q : q = [m EXCEPT !.current = t]
  OBVIOUS
<1>13. n.turns = ws /\ n \in RecorderRec
  BY <1>2, <1>9, <1>10 DEF RecorderRec
<1>14. m.turns = ts /\ m \in RecorderRec
  BY <1>9, <1>11, <1>13 DEF RecorderRec
<1>15. q \in RecorderRec
  BY <1>2, <1>12, <1>14 DEF RecorderRec
<1>16. /\ q.turns = ts /\ q.current = t /\ q.turnOf = r.turnOf
       /\ q.contested = r.contested /\ q.preemptive = r.preemptive /\ q.streams = r.streams
       /\ q.pending = r.pending /\ q.collecting = r.collecting /\ q.speaking = r.speaking
       /\ q.retired = r.retired /\ q.inferred = r.inferred
  <2>1. q = [r EXCEPT !.turns = ts, !.current = t]
    BY <1>2, <1>10, <1>11, <1>12 DEF RecorderRec
  <2>2. QED BY <1>2, <2>1 DEF RecorderRec
<1>17. {q.pending, q.collecting, q.current, q.speaking, q.retired} \subseteq 0..Len(r.turns)
  BY <1>2, <1>16, KnownFacts
<1>18. /\ Keeps(r, q, s) /\ q.turnOf[s] = t /\ Len(q.turns) = Len(r.turns)
       /\ q.turns[t] = v /\ q.contested[s] = Uncontested
  <2>1. Relabels(r.turns[t], v) /\ Rests(r.turns[t], v)
    BY ONLY <1>1, <1>7, <1>26
  <2>2. q.turns = [r.turns EXCEPT ![t] = v]
    BY ONLY <1>8, <1>16
  <2>3. q.turnOf = [r.turnOf EXCEPT ![s] = t]
    BY <1>1, <1>2, <1>16, KnownFacts
  <2>4. /\ r.turnOf[s] \in {NoTurn, t} /\ r.contested[s] = Uncontested /\ Sound(r) /\ s \in Speech
        /\ t \in 1..Len(r.turns) /\ v \in TurnRec
    BY <1>1, <1>2, <1>5
  <2>5. /\ q.contested = r.contested /\ q.preemptive = r.preemptive /\ q.streams = r.streams
        /\ q.inferred = r.inferred
    BY <1>16
  <2>6. QED BY ONLY <1>15, <1>17, <2>1, <2>2, <2>3, <2>4, <2>5, TurnGiven
<1>19. q.turns[t].source = "generate_reply"
  BY <1>6, <1>18
<1>20. Sound(q)
  BY <1>18 DEF Keeps, Holds
<1>21. KnownSpeech(s, "generate_reply") = TakesFloor(q, t, s)
  <2>1. n = [r EXCEPT !.turns[t].handle = s]
    BY ONLY <1>1, <1>3, <1>8, <1>10
  <2>2. m = [n EXCEPT !.turns[t].source = "generate_reply"]
    BY ONLY <1>4, <1>9, <1>11, <1>13
  <2>3. q = [rec EXCEPT !.turns[t].handle = s, !.turns[t].source = "generate_reply", !.current = t]
    BY ONLY <1>12, <2>1, <2>2, r = rec
  <2>4. t = rec.turnOf[s]
    BY <1>1
  <2>5. QED BY ONLY <2>3, <2>4, Zenon DEF KnownSpeech, TakesFloor
<1>22. PICK z : z = TakesFloor(q, t, s)
  OBVIOUS
<1>23. Keeps(q, z, NoSpeech) /\ Answered(z, s) /\ z.turnOf[s] = t /\ z.turns[t].source = "generate_reply"
  BY <1>2, <1>18, <1>19, <1>20, <1>22, TakesFloorKeeps
<1>24. Keeps(r, z, s)
  BY <1>18, <1>23, KeepsWidens, KeepsTransitive
<1>25. QED BY <1>21, <1>22, <1>23, <1>24 DEF Binds

\* A reply is put off, with a turn to fall back on.
LEMMA PutOffKeeps ==
  ASSUME NEW r, Sound(r), NEW s \in Speech, r.turnOf[s] = NoTurn,
         NEW c \in 1..Len(r.turns), NEW o \in {"no", "owed", "expired"}
  PROVE  LET q == [r EXCEPT !.contested[s] = [carry |-> c, owed |-> o]]
         IN  Keeps(r, q, s) /\ q.contested[s] # Uncontested
<1>1. Known(r) /\ r \in RecorderRec /\ Len(r.turns) \in Nat /\ c \in Nat /\ c # NoTurn
  BY KnownFacts DEF Sound, NoTurn
<1>2. PICK k : k = [carry |-> c, owed |-> o]
  OBVIOUS
<1>3. k \in [carry : Nat, owed : {"no", "owed", "expired"}] /\ k.carry = c
  BY <1>1, <1>2
<1>4. PICK cs : cs = [r.contested EXCEPT ![s] = k]
  OBVIOUS
<1>5. r.contested \in [Speech -> [carry : Nat, owed : {"no", "owed", "expired"}]]
  BY <1>1 DEF RecorderRec
<1>6. /\ cs \in [Speech -> [carry : Nat, owed : {"no", "owed", "expired"}]]
      /\ cs[s] = k /\ \A x \in Speech \ {s} : cs[x] = r.contested[x]
  BY <1>3, <1>4, <1>5
<1>7. PICK q : q = [r EXCEPT !.contested = cs]
  OBVIOUS
<1>8. q \in RecorderRec
  BY <1>1, <1>6, <1>7 DEF RecorderRec
<1>9. /\ q.turns = r.turns /\ q.current = r.current /\ q.turnOf = r.turnOf
      /\ q.contested = cs /\ q.preemptive = r.preemptive /\ q.streams = r.streams
      /\ q.pending = r.pending /\ q.collecting = r.collecting /\ q.speaking = r.speaking
      /\ q.retired = r.retired /\ q.inferred = r.inferred
  BY <1>1, <1>7 DEF RecorderRec
<1>10. Places(q)
  <2>1. ASSUME NEW x \in Speech PROVE q.contested[x].carry \in 0..Len(q.turns)
    <3>1. r.contested[x].carry \in 0..Len(r.turns)
      BY <1>1, KnownFacts
    <3>2. CASE x = s
      BY <1>1, <1>3, <1>6, <1>9, <3>2
    <3>3. CASE x # s
      BY <1>6, <1>9, <3>1, <3>3
    <3>4. QED BY <3>2, <3>3
  <2>2. QED BY <1>1, <1>9, <2>1, KnownFacts DEF Places
<1>11. Identified(q)
  BY <1>9 DEF Sound, Identified
<1>12. PutOff(q)
  BY <1>1, <1>3, <1>6, <1>9 DEF Sound, PutOff
<1>13. Counted(q) /\ Worded(q)
  <2>1. \A x : OpenOn(q, x) = OpenOn(r, x)
    BY <1>9 DEF OpenOn
  <2>2. QED BY <1>9, <2>1 DEF Sound, Counted, Worded
<1>14. Sound(q)
  BY <1>8, <1>10, <1>11, <1>12, <1>13 DEF Sound, Known
<1>15. Keeps(r, q, s)
  <2>1. Holds(r, q, s)
    BY <1>1, <1>6, <1>9, <1>14 DEF Holds, Later
  <2>2. Quiet(r, q)
    BY <1>9, SameBooks
  <2>3. QED BY <1>1, <1>14, <2>1, <2>2, QuietCarries DEF Keeps, Sound
<1>16. k # Uncontested
  BY <1>1, <1>3 DEF Uncontested
<1>17. QED BY <1>2, <1>4, <1>6, <1>7, <1>9, <1>15, <1>16

-------------------------------------------------------------------------------
(* tts_node streams *)

LEMMA OwnerOfIsATurn ==
  ASSUME NEW r, Known(r), NEW st \in Stream
  PROVE  OwnerOf(r, st) \in 0..Len(r.turns)
<1>1. r.streams[st].sid \in Speech \cup {NoSpeech}
  BY KnownFacts DEF StreamRec
<1>2. QED BY <1>1, KnownFacts, RenderingIsATurn DEF OwnerOf

\* A stream that is in use asks whose it is.
LEMMA AsksWhose ==
  ASSUME NEW r, Sound(r), NEW st \in Stream, r.streams[st].status # "unused"
  PROVE  LET q == PinStream(r, st, OwnerOf(r, st))
         IN  /\ Pinned(r, q)
             /\ \A x \in Stream \ {st} : q.streams[x] = r.streams[x]
             /\ OwnerOf(r, st) # NoTurn => q.streams[st].owner # NoTurn
<1>1. PICK t, q : t = OwnerOf(r, st) /\ q = PinStream(r, st, t)
  OBVIOUS
<1>2. t \in 0..Len(r.turns) /\ Len(r.turns) \in Nat
  BY <1>1, OwnerOfIsATurn, KnownFacts DEF Sound
<1>3. CASE r.streams[st].owner # NoTurn \/ t = NoTurn
  <2>1. q = r
    BY <1>1, <1>3 DEF PinStream
  <2>2. QED BY <1>1, <1>3, <2>1, PinnedReflexive
<1>4. CASE r.streams[st].owner = NoTurn /\ t # NoTurn
  <2>1. t \in 1..Len(r.turns)
    BY <1>2, <1>4 DEF NoTurn
  <2>2. r.streams[st].sid # NoSpeech => t = r.turnOf[r.streams[st].sid]
    BY <1>1 DEF OwnerOf
  <2>3. /\ Pinned(r, q) /\ q.streams[st].owner = t
        /\ \A x \in Stream \ {st} : q.streams[x] = r.streams[x]
    BY <1>1, <1>4, <2>1, <2>2, PinStreamPins
  <2>4. QED BY <1>1, <1>4, <2>3
<1>5. QED BY <1>3, <1>4

\* A stream opens for speech sid and asks whose it is.
LEMMA OpenedStands ==
  ASSUME NEW r, Sound(r), NEW st \in Stream, r.streams[st].status = "unused",
         NEW sid \in Speech \cup {NoSpeech}
  PROVE  LET q == [r EXCEPT !.streams[st] = [r.streams[st] EXCEPT !.status = "open", !.sid = sid]]
             p == PinStream(q, st, OwnerOf(q, st))
         IN  /\ Sound(p) /\ Len(p.turns) = Len(r.turns) /\ Carries(r, p)
             /\ \A t \in 1..Len(r.turns) : p.turns[t].words = r.turns[t].words
             /\ \A s \in Speech : \A src : Standing(r, s, src) => Standing(p, s, src)
<1>1. PICK z : z = [r.streams[st] EXCEPT !.status = "open", !.sid = sid]
  OBVIOUS
<1>2. /\ Known(r) /\ r \in RecorderRec /\ Len(r.turns) \in Nat
      /\ r.streams \in [Stream -> StreamRec] /\ r.streams[st] \in StreamRec
      /\ r.streams[st].sid = NoSpeech /\ r.streams[st].owner = NoTurn
  BY KnownFacts DEF Sound, Identified
<1>3. /\ z \in StreamRec /\ z.status = "open" /\ z.owner = NoTurn /\ z.sid = sid
      /\ z.held = r.streams[st].held
  BY <1>1, <1>2 DEF StreamRec
<1>4. PICK ss, q : ss = [r.streams EXCEPT ![st] = z] /\ q = [r EXCEPT !.streams = ss]
  OBVIOUS
<1>5. q = [r EXCEPT !.streams[st] = z]
  BY <1>4
<1>6. /\ ss \in [Stream -> StreamRec] /\ ss[st] = z
      /\ \A x \in Stream \ {st} : ss[x] = r.streams[x]
  BY <1>2, <1>3, <1>4
<1>7. q \in RecorderRec
  BY <1>2, <1>4, <1>6 DEF RecorderRec
<1>8. /\ q.turns = r.turns /\ q.current = r.current /\ q.turnOf = r.turnOf
      /\ q.contested = r.contested /\ q.preemptive = r.preemptive /\ q.streams = ss
      /\ q.pending = r.pending /\ q.collecting = r.collecting /\ q.speaking = r.speaking
      /\ q.retired = r.retired /\ q.inferred = r.inferred
  BY <1>2, <1>4, <1>6 DEF RecorderRec
<1>9. {q.pending, q.collecting, q.current, q.speaking, q.retired} \subseteq 0..Len(r.turns)
  BY <1>2, <1>8, KnownFacts
<1>10. q.streams[st] = z /\ \A x \in Stream \ {st} : q.streams[x] = r.streams[x]
  BY <1>6, <1>8
<1>11. Sound(q)
  <2>1. z.status # "unused" /\ Sound(r) /\ r.streams[st].owner = NoTurn
    BY <1>2, <1>3
  <2>2. /\ q.turns = r.turns /\ q.turnOf = r.turnOf /\ q.contested = r.contested
        /\ q.preemptive = r.preemptive
    BY <1>8
  <2>3. QED BY ONLY <1>3, <1>7, <1>9, <1>10, <2>1, <2>2, LooseStreamKeeps, st \in Stream
<1>12. PICK p : p = PinStream(q, st, OwnerOf(q, st))
  OBVIOUS
<1>13. /\ Pinned(q, p) /\ \A x \in Stream \ {st} : p.streams[x] = q.streams[x]
       /\ OwnerOf(q, st) # NoTurn => p.streams[st].owner # NoTurn
  BY <1>3, <1>10, <1>11, <1>12, AsksWhose
<1>14. Sound(p) /\ Len(p.turns) = Len(r.turns)
       /\ \A t \in 1..Len(r.turns) : p.turns[t].words = r.turns[t].words /\ p.turns[t].source = r.turns[t].source
  BY <1>8, <1>13 DEF Pinned, Keeps, Holds, Later
<1>15. p.turnOf = r.turnOf /\ p.contested = r.contested
  BY <1>8, <1>13 DEF Pinned
<1>16. ASSUME NEW s \in Speech, Answered(r, s) PROVE Answered(p, s)
  <2>1. ASSUME NEW x \in Stream, p.streams[x].sid = s PROVE p.streams[x].owner # NoTurn
    <3>1. CASE x = st
      <4>1. q.streams[st].sid = s
        BY <1>13, <2>1, <3>1 DEF Pinned, Keeps, Holds
      <4>2. OwnerOf(q, st) = r.turnOf[s]
        BY <1>8, <4>1, TurnsAssumption DEF OwnerOf
      <4>3. QED BY <1>13, <1>16, <3>1, <4>2 DEF Answered
    <3>2. CASE x # st
      BY <1>10, <1>13, <1>16, <2>1, <3>2 DEF Answered
    <3>3. QED BY <3>1, <3>2
  <2>2. QED BY <1>15, <1>16, <2>1 DEF Answered
<1>17. ASSUME NEW s \in Speech, NEW src, Standing(r, s, src) PROVE Standing(p, s, src)
  <2>1. r.turnOf[s] # NoTurn => r.turnOf[s] \in 1..Len(r.turns)
    BY <1>2, KnownFacts DEF NoTurn
  <2>2. QED BY <1>14, <1>15, <1>16, <1>17, <2>1 DEF Standing, Answered
<1>18. Carries(r, p)
  <2>1. Quiet(r, q)
    <3>1. \A x \in Stream :
            /\ q.streams[x].owner = r.streams[x].owner /\ q.streams[x].held = r.streams[x].held
            /\ r.streams[x].owner # NoTurn => q.streams[x].sid = r.streams[x].sid
      BY ONLY <1>2, <1>3, <1>10
    <3>2. QED BY <1>8, <3>1 DEF Quiet, Rests
  <2>2. Carries(r, q)
    BY <1>2, <1>11, <2>1, QuietCarries DEF Sound
  <2>3. Carries(q, p)
    BY <1>13 DEF Pinned, Keeps
  <2>4. QED BY <2>2, <2>3, CarriesTransitive
<1>19. QED BY <1>1, <1>5, <1>12, <1>14, <1>17, <1>18

\* A stream that has no turn yet asks again, and the call with it.
LEMMA AskedIs ==
  ASSUME NEW st \in Stream, NEW p \in Asked(st), Sound(rec), rec.streams[st].status = "open"
  PROVE  \E r : /\ r \in SettlePending(rec, rec.streams[st].sid) \/ r = rec
                /\ Sound(r) /\ r.streams[st].status # "unused"
                /\ Pinned(r, p)
<1>1. rec.streams[st].sid \in Speech \cup {NoSpeech}
  BY KnownFacts DEF Sound, StreamRec
<1>2. PICK r : /\ r \in SettlePending(rec, rec.streams[st].sid) \/ r = rec
               /\ p = PinStream(r, st, OwnerOf(r, st))
  BY DEF Asked
<1>3. Sound(r) /\ r.streams[st].status # "unused"
  BY <1>1, <1>2, SettlePendingBinds DEF Binds, Keeps, Holds
<1>4. Pinned(r, p)
  BY <1>2, <1>3, AsksWhose
<1>5. QED BY <1>2, <1>3, <1>4

-------------------------------------------------------------------------------
(* The end of the call *)

\* A turn at the end of the call: its spans are written.
Concluded(u, n) ==
  LET turn == EndTts(EndStt(u))
  IN  IF turn.finished THEN turn ELSE [turn EXCEPT !.finished = TRUE, !.finishedAt = n]

LEMMA ConcludedGoesOn ==
  ASSUME NEW u \in TurnRec, NEW n \in Nat
  PROVE  /\ Concluded(u, n) \in TurnRec /\ GoesOn(u, Concluded(u, n))
         /\ Concluded(u, n).stt # "open"
<1>1. PICK v : v = EndStt(u)
  OBVIOUS
<1>2. v \in TurnRec /\ GoesOn(u, v)
  BY <1>1, EndSttGoesOn
<1>3. v.stt # "open"
  <2>1. CASE u.stt = "open"
    <3>1. v = [u EXCEPT !.stt = "ended", !.wordsOut = u.words]
      BY <1>1, <2>1 DEF EndStt
    <3>2. QED BY <3>1 DEF TurnRec
  <2>2. CASE u.stt # "open"
    BY <1>1, <2>2 DEF EndStt
  <2>3. QED BY <2>1, <2>2
<1>4. PICK w : w = EndTts(v)
  OBVIOUS
<1>5. w \in TurnRec /\ GoesOn(v, w)
  BY <1>2, <1>4, EndTtsGoesOn
<1>6. w.stt # "open"
  <2>1. CASE w = v
    BY <1>3, <2>1
  <2>2. CASE w # v
    <3>1. w = [v EXCEPT !.tts = "ended", !.played = v.audio,
                        !.unscopedThen = v.unscoped, !.snapshot = TRUE]
      BY <1>4, <2>2 DEF EndTts
    <3>2. QED BY <1>2, <1>3, <3>1 DEF TurnRec
  <2>3. QED BY <2>1, <2>2
<1>7. PICK x : x = IF w.finished THEN w ELSE [w EXCEPT !.finished = TRUE, !.finishedAt = n]
  OBVIOUS
<1>8. x \in TurnRec /\ GoesOn(w, x) /\ x.stt # "open"
  <2>1. CASE w.finished
    BY <1>5, <1>6, <1>7, <2>1, GoesOnReflexive
  <2>2. CASE ~w.finished
    <3>1. x = [w EXCEPT !.finished = TRUE, !.finishedAt = n]
      BY <1>7, <2>2
    <3>2. x \in TurnRec
      BY <1>5, <3>1 DEF TurnRec
    <3>3. /\ x.source = w.source /\ x.open = w.open /\ x.words = w.words /\ x.stt = w.stt
          /\ x.wordsOut = w.wordsOut /\ x.awaitClose = w.awaitClose
      BY <1>5, <3>1 DEF TurnRec
    <3>4. GoesOn(w, x)
      <4>1. SameAudio(w, x)
        BY <1>5, <3>1 DEF TurnRec, SameAudio
      <4>2. QED BY <2>2, <3>3, <4>1, SameAudioRests DEF GoesOn, StepsOn
    <3>5. QED BY <1>6, <3>2, <3>3, <3>4
  <2>3. QED BY <2>1, <2>2
<1>9. Concluded(u, n) = x
  BY <1>1, <1>4, <1>7 DEF Concluded
<1>10. QED BY <1>2, <1>5, <1>8, <1>9, GoesOnTransitive

\* The recorder that is left when the call is over.
LEMMA FinishLeaves ==
  ASSUME NEW r, Sound(r)
  PROVE  LET q == FinalizeOpenSpans(r)
             p == [FreshRecorder EXCEPT !.turns = q.turns, !.turnOf = q.turnOf,
                                        !.streams = q.streams, !.inferred = q.inferred]
         IN  /\ Sound(p) /\ Len(p.turns) = Len(r.turns) /\ p.turnOf = r.turnOf
             /\ Carries(r, p) /\ p.turns = q.turns
             /\ \A t \in 1..Len(r.turns) :
                  GoesOn(r.turns[t], p.turns[t]) /\ p.turns[t].stt # "open"
<1>0. PICK q, p : /\ q = FinalizeOpenSpans(r)
                  /\ p = [FreshRecorder EXCEPT !.turns = q.turns, !.turnOf = q.turnOf,
                                               !.streams = q.streams, !.inferred = q.inferred]
  OBVIOUS
<1>1. /\ Known(r) /\ r \in RecorderRec /\ r.turns \in Seq(TurnRec) /\ Len(r.turns) \in Nat
      /\ Newest(r) = Len(r.turns) /\ DOMAIN r.turns = 1..Len(r.turns)
  BY KnownFacts DEF Sound
<1>2. PICK ts : ts = [t \in 1..Len(r.turns) |-> Concluded(r.turns[t], Len(r.turns))]
  OBVIOUS
<1>3. \A t \in 1..Len(r.turns) :
        /\ ts[t] \in TurnRec /\ GoesOn(r.turns[t], ts[t]) /\ ts[t].stt # "open"
  BY <1>1, <1>2, ConcludedGoesOn, KnownFacts
<1>4. ts \in Seq(TurnRec) /\ Len(ts) = Len(r.turns)
  <2>1. PICK n \in Nat : n = Len(r.turns)
    BY <1>1
  <2>2. ts \in [1..n -> TurnRec] /\ DOMAIN ts = 1..n
    BY <1>2, <1>3, <2>1
  <2>3. ts \in Seq(TurnRec)
    BY <2>1, <2>2
  <2>4. QED BY <2>1, <2>2, <2>3
<1>5. q = [r EXCEPT !.turns = ts]
  <2>1. q = [r EXCEPT !.turns = [t \in DOMAIN r.turns |-> Concluded(r.turns[t], Newest(r))]]
    BY <1>0 DEF FinalizeOpenSpans, Concluded
  <2>2. QED BY <1>1, <1>2, <2>1
<1>6. /\ q.turns = ts /\ q.turnOf = r.turnOf /\ q.streams = r.streams /\ q.inferred = r.inferred
  BY <1>1, <1>5 DEF RecorderRec
<1>7. p = [FreshRecorder EXCEPT !.turns = ts, !.turnOf = r.turnOf, !.streams = r.streams,
                                !.inferred = r.inferred]
  BY <1>0, <1>6
<1>8. /\ p.turns = ts /\ p.turnOf = r.turnOf /\ p.streams = r.streams
      /\ p.contested = [s \in Speech |-> Uncontested] /\ p.preemptive = NoTurn
      /\ p.pending = NoTurn /\ p.collecting = NoTurn /\ p.current = NoTurn
      /\ p.speaking = NoTurn /\ p.retired = NoTurn
      /\ p.utterance = "silent" /\ p.inferred = r.inferred
  BY <1>7 DEF FreshRecorder
<1>9. Uncontested \in [carry : Nat, owed : {"no", "owed", "expired"}] /\ Uncontested.carry = 0
  BY DEF Uncontested, NoTurn
<1>10. p \in RecorderRec
  <2>1. p = [turns |-> ts, turnOf |-> r.turnOf, streams |-> r.streams,
             contested |-> [s \in Speech |-> Uncontested], pending |-> NoTurn,
             collecting |-> NoTurn, preemptive |-> NoTurn, current |-> NoTurn,
             speaking |-> NoTurn, retired |-> NoTurn, utterance |-> "silent",
             inferred |-> r.inferred]
    BY <1>7 DEF FreshRecorder
  <2>2. /\ r.turnOf \in [Speech -> Nat] /\ r.streams \in [Stream -> StreamRec]
        /\ r.inferred \in BOOLEAN
        /\ [s \in Speech |-> Uncontested] \in
             [Speech -> [carry : Nat, owed : {"no", "owed", "expired"}]]
    BY <1>1, <1>9, KnownFacts
  <2>3. QED BY <1>4, <2>1, <2>2 DEF RecorderRec, NoTurn
<1>11. Places(p)
  <2>1. \A s \in Speech : p.contested[s].carry = 0
    BY <1>8, <1>9
  <2>2. QED BY <1>1, <1>4, <1>8, <2>1, KnownFacts DEF Places, NoTurn
<1>12. Identified(p) /\ PutOff(p)
  BY <1>8 DEF Sound, Identified, PutOff
<1>13. Counted(p)
  <2> SUFFICES ASSUME NEW t \in 1..Len(p.turns)
               PROVE  /\ p.turns[t].open = Cardinality(OpenOn(p, t))
                      /\ p.turns[t].awaitClose /\ ~p.turns[t].finished => p.turns[t].open > 0
    BY DEF Counted
  <2>1. OpenOn(p, t) = OpenOn(r, t)
    BY <1>8 DEF OpenOn
  <2>2. /\ r.turns[t].open = Cardinality(OpenOn(r, t))
        /\ r.turns[t].awaitClose /\ ~r.turns[t].finished => r.turns[t].open > 0
    BY <1>4, <1>8 DEF Sound, Counted
  <2>3. GoesOn(r.turns[t], p.turns[t])
    BY <1>3, <1>4, <1>8
  <2>4. r.turns[t] \in TurnRec /\ p.turns[t] \in TurnRec
    BY <1>1, <1>3, <1>4, <1>8, KnownFacts
  <2>5. r.turns[t].finished \in BOOLEAN /\ p.turns[t].finished \in BOOLEAN
    BY <2>4 DEF TurnRec
  <2>6. QED BY <2>1, <2>2, <2>3, <2>5 DEF GoesOn, StepsOn
<1>14. Worded(p)
  <2>1. ASSUME NEW t \in 1..Len(p.turns)
        PROVE  /\ p.turns[t].stt = "ended" => p.turns[t].wordsOut = p.turns[t].words
               /\ p.turns[t].stt = "none" => p.turns[t].words = 0 /\ p.turns[t].wordsOut = 0
    <3>1. GoesOn(r.turns[t], p.turns[t])
      BY <1>3, <1>4, <1>8
    <3>2. /\ r.turns[t].stt = "ended" => r.turns[t].wordsOut = r.turns[t].words
          /\ r.turns[t].stt = "none" => r.turns[t].words = 0 /\ r.turns[t].wordsOut = 0
      BY <1>4, <1>8 DEF Sound, Worded
    <3>3. QED BY <3>1, <3>2 DEF GoesOn, StepsOn
  <2>2. QED BY <1>8, <2>1 DEF Worded
<1>15. Sound(p)
  BY <1>10, <1>11, <1>12, <1>13, <1>14 DEF Sound, Known
<1>16. Carries(r, p)
  <2>1. \A t \in 1..Len(r.turns) : Rests(r.turns[t], p.turns[t])
    BY <1>3, <1>8 DEF GoesOn
  <2>2. Quiet(r, p)
    BY <1>4, <1>8, <2>1 DEF Quiet
  <2>3. QED BY <1>1, <1>15, <2>2, QuietCarries DEF Sound
<1>17. p.turns = q.turns
  BY <1>6, <1>8
<1>18. QED BY <1>0, <1>3, <1>4, <1>8, <1>15, <1>16, <1>17

-------------------------------------------------------------------------------
(* The steps *)

\* No final transcript is lost from the turns, none is added.
SameWords(r, q) ==
  /\ Len(r.turns) <= Len(q.turns)
  /\ \A t \in 1..Len(r.turns) : q.turns[t].words = r.turns[t].words
  /\ \A t \in (Len(r.turns) + 1)..Len(q.turns) : q.turns[t].words = 0

\* The books balance, and all that is in them came as audio.
Tallies(r, w, n) ==
  w \in [Stream -> Nat] /\ n \in Nat /\ Balanced(r, w) /\ Heard(r) <= n

BooksKept == Tallies(rec, rendered, total) => Tallies(rec', rendered', total')

\* What every step does: the invariant stays, and so do the words, or there is one
\* final transcript more; books that balance go on to.
Lasts ==
  /\ RecorderInv'
  /\ \/ SameWords(rec, rec') /\ finals' = finals
     \/ Hears(rec, rec') /\ finals' = finals + 1
  /\ BooksKept

LEMMA CarriesKept ==
  ASSUME Carries(rec, rec'), UNCHANGED <<total, rendered>> PROVE BooksKept
<1>1. PICK q, w, n : q = rec' /\ w = rendered' /\ n = total'
  OBVIOUS
<1>2. Carries(rec, q) /\ w = rendered /\ n = total
  BY <1>1
<1>3. Tallies(rec, rendered, total) => Tallies(q, w, n)
  BY <1>2 DEF Carries, Tallies
<1>4. QED BY <1>1, <1>3 DEF BooksKept

LEMMA KeepsWords ==
  ASSUME NEW r, NEW q, NEW s, Holds(r, q, s) PROVE SameWords(r, q)
  BY DEF Holds, Later, SameWords

LEMMA NothingAnnouncedLasts ==
  ASSUME RecorderInv, call = "live", UNCHANGED <<call, source, finals>>,
         Holds(rec, rec', NoSpeech), BooksKept
  PROVE  Lasts
<1>1. RecorderInv'
  BY NothingAnnounced
<1>2. SameWords(rec, rec')
  BY KeepsWords
<1>3. QED BY <1>1, <1>2 DEF Lasts

LEMMA OneSpeechLasts ==
  ASSUME RecorderInv, call = "live", UNCHANGED <<call, finals>>, NEW s \in Speech,
         source' \in [Speech -> Sources \cup {"none"}],
         \A x \in Speech \ {s} : source'[x] = source[x],
         Holds(rec, rec', s), Standing(rec', s, source'[s]), BooksKept
  PROVE  Lasts
<1>1. RecorderInv'
  BY OneSpeech
<1>2. SameWords(rec, rec')
  BY KeepsWords
<1>3. QED BY <1>1, <1>2 DEF Lasts

LEMMA KeepsLasts ==
  ASSUME RecorderInv, call = "live", UNCHANGED <<call, source, finals, total, rendered>>,
         Keeps(rec, rec', NoSpeech)
  PROVE  Lasts
  BY CarriesKept, NothingAnnouncedLasts DEF Keeps

LEMMA GoesOnLasts ==
  ASSUME RecorderInv, call = "live", UNCHANGED <<call, source, finals, total, rendered>>,
         Continues(rec, rec')
  PROVE  Lasts
  BY ContinuesKeeps, KeepsLasts DEF RecorderInv

LEMMA InvFacts ==
  ASSUME RecorderInv
  PROVE  /\ Sound(rec) /\ Known(rec) /\ rec \in RecorderRec /\ Len(rec.turns) \in Nat
         /\ DOMAIN rec.turns = 1..Len(rec.turns)
         /\ {rec.pending, rec.collecting, rec.preemptive, rec.current, rec.speaking, rec.retired}
              \subseteq 0..Len(rec.turns)
         /\ \A s \in Speech : rec.turnOf[s] \in 0..Len(rec.turns)
         /\ source \in [Speech -> Sources \cup {"none"}]
  BY KnownFacts DEF RecorderInv, Sound

LEMMA UtteranceLasts ==
  ASSUME RecorderInv, UserSpeaking \/ InterimTranscript
  PROVE  Lasts
<1>1. PICK u \in {"started", "partial"} :
        call = "live" /\ rec' = [rec EXCEPT !.utterance = u]
  BY DEF UserSpeaking, InterimTranscript, Becomes
<1>2. UNCHANGED <<call, source, finals, total, rendered>>
  BY DEF UserSpeaking, InterimTranscript, env
<1>3. rec \in RecorderRec /\ Known(rec)
  BY InvFacts
<1>4. PICK q : q = rec'
  OBVIOUS
<1>5. q \in RecorderRec
  BY <1>1, <1>3, <1>4 DEF RecorderRec
<1>6. /\ q.turns = rec.turns /\ q.current = rec.current /\ q.turnOf = rec.turnOf
      /\ q.contested = rec.contested /\ q.preemptive = rec.preemptive /\ q.streams = rec.streams
      /\ q.pending = rec.pending /\ q.collecting = rec.collecting /\ q.speaking = rec.speaking
      /\ q.retired = rec.retired /\ q.inferred = rec.inferred
  BY <1>1, <1>3, <1>4 DEF RecorderRec
<1>7. SameStreams(rec, q) /\ {q.pending, q.collecting, q.current, q.speaking, q.retired} \subseteq 0..Len(rec.turns)
  BY <1>6, InvFacts DEF SameStreams
<1>8. Continues(rec, q)
  BY <1>3, <1>5, <1>6, <1>7, Restaged
<1>9. QED BY <1>1, <1>2, <1>4, <1>8, GoesOnLasts

LEMMA FinalTranscriptLasts ==
  ASSUME RecorderInv, FinalTranscript
  PROVE  Lasts
<1>1. /\ call = "live" /\ UNCHANGED <<call, source, total, rendered>> /\ finals' = finals + 1
      /\ rec' = IF StillCollecting(rec) THEN ExtendUserTurn(rec) ELSE OpenUserTurn(rec)
  BY DEF FinalTranscript, Becomes
<1>2. Sound(rec)
  BY InvFacts
<1>3. Hears(rec, rec')
  BY <1>1, <1>2, ExtendUserTurnHears, OpenUserTurnHears
<1>4. ASSUME NEW s \in Speech PROVE Standing(rec', s, source'[s])
  <2>1. Standing(rec, s, source[s])
    BY <1>1, StandingFromInv
  <2>2. QED BY <1>1, <1>2, <1>3, <2>1, WordsStanding DEF Hears
<1>5. Sound(rec)' /\ (call = "live")' /\ (source \in [Speech -> Sources \cup {"none"}])'
  BY <1>1, <1>3, InvFacts DEF Hears
<1>6. RecorderInv'
  BY <1>4, <1>5, InvFromStandingNext
<1>7. BooksKept
  BY <1>1, <1>3, CarriesKept DEF Hears
<1>8. QED BY <1>1, <1>3, <1>6, <1>7 DEF Lasts

LEMMA UserCommittedLasts ==
  ASSUME RecorderInv, UserCommitted
  PROVE  Lasts
<1>1. PICK t \in {rec.collecting, IF rec.collecting = NoTurn THEN rec.current
                                  ELSE rec.collecting} \ {NoTurn} :
        call = "live" /\ rec' = [rec EXCEPT !.turns[t].committed = TRUE]
  BY DEF UserCommitted, Becomes
<1>2. UNCHANGED <<call, source, finals, total, rendered>>
  BY DEF UserCommitted, env
<1>3. t \in 1..Len(rec.turns)
  BY InvFacts DEF NoTurn
<1>4. Continues(rec, rec')
  BY <1>1, <1>3, InvFacts, ToolsExecutedContinues
<1>5. QED BY <1>1, <1>2, <1>4, GoesOnLasts

\* A speech that is bound as it is announced.
LEMMA AnnouncedLasts ==
  ASSUME RecorderInv, call = "live", call' = call, NEW s \in Speech, NEW src \in Sources,
         Announced(s, src), Binds(rec, rec', s, src)
  PROVE  Lasts
<1>1. UNCHANGED <<call, finals, total, rendered>> /\ source' = [source EXCEPT ![s] = src]
  BY DEF Announced
<1>2. /\ source' \in [Speech -> Sources \cup {"none"}] /\ source'[s] = src
      /\ \A x \in Speech \ {s} : source'[x] = source[x]
  BY <1>1, InvFacts
<1>3. Holds(rec', rec', NoSpeech)
  BY KeepsReflexive DEF Binds, Keeps, Holds
<1>4. Holds(rec, rec', s) /\ Standing(rec', s, source'[s])
  BY <1>2, <1>3, InvFacts, BoundStands
<1>5. BooksKept
  BY <1>1, CarriesKept DEF Binds, Keeps
<1>6. QED BY <1>1, <1>2, <1>4, <1>5, OneSpeechLasts

\* What has not been announced has not been put off.
LEMMA NotPutOff ==
  ASSUME RecorderInv, call = "live", NEW s \in Speech, source[s] # "generate_reply"
  PROVE  rec.contested[s] = Uncontested
  BY DEF RecorderInv, Settled

LEMMA SpeechCreatedLasts ==
  ASSUME RecorderInv, NEW s \in Speech, NEW src \in Sources,
         \/ RegisteredSpeech(s, src) \/ AnswerPending(s, src) \/ AdoptCollecting(s, src)
         \/ Preempt(s, src) \/ Unprompted(s, src)
  PROVE  Lasts
<1>1. call = "live" /\ call' = call /\ Announced(s, src) /\ source[s] = "none"
  BY DEF RegisteredSpeech, AnswerPending, AdoptCollecting, Preempt, Unprompted, Becomes, Announced
<1>2. Sound(rec) /\ rec.contested[s] = Uncontested
  <2>1. source[s] # "generate_reply"
    BY <1>1
  <2>2. QED BY <1>1, <2>1, InvFacts, NotPutOff
<1>3. CASE RegisteredSpeech(s, src)
  <2>1. rec.turnOf[s] # NoTurn /\ src = "generate_reply" /\ rec' = KnownSpeech(s, "generate_reply")
    BY <1>3 DEF RegisteredSpeech, Becomes
  <2>2. Binds(rec, rec', s, src)
    BY <1>2, <2>1, KnownSpeechBinds
  <2>3. QED BY <1>1, <2>2, AnnouncedLasts
<1>4. CASE AnswerPending(s, src)
  <2>1. /\ rec.turnOf[s] = NoTurn /\ rec.pending # NoTurn
        /\ rec.turns[rec.pending].source = "none"
        /\ rec' = BindReply(rec, rec.pending, s, src)
    BY <1>4 DEF AnswerPending, AnswersPending, Becomes
  <2>2. rec.pending \in 1..Len(rec.turns)
    BY <2>1, InvFacts DEF NoTurn
  <2>3. Binds(rec, rec', s, src)
    BY <1>2, <2>1, <2>2, BindReplyBinds
  <2>4. QED BY <1>1, <2>3, AnnouncedLasts
<1>5. CASE AdoptCollecting(s, src)
  <2>1. /\ rec.turnOf[s] = NoTurn /\ rec.collecting # NoTurn /\ src = "generate_reply"
        /\ rec' = BindReply(rec, rec.collecting, s, src)
    BY <1>5 DEF AdoptCollecting, Adopts, Adoptable, Becomes
  <2>2. rec.collecting \in 1..Len(rec.turns)
    BY <2>1, InvFacts DEF NoTurn
  <2>3. Binds(rec, rec', s, src)
    BY <1>2, <2>1, <2>2, BindReplyBinds
  <2>4. QED BY <1>1, <2>3, AnnouncedLasts
<1>6. CASE Preempt(s, src)
  <2>1. rec.turnOf[s] = NoTurn /\ src = "generate_reply" /\ rec' = BindInFlight(rec, s)
    BY <1>6 DEF Preempt, Becomes
  <2>2. Binds(rec, rec', s, src)
    BY <1>2, <2>1, BindInFlightBinds
  <2>3. QED BY <1>1, <2>2, AnnouncedLasts
<1>7. CASE Unprompted(s, src)
  <2>1. rec.turnOf[s] = NoTurn /\ rec' = BindNew(rec, s, src)
    BY <1>7 DEF Unprompted, Becomes
  <2>2. Binds(rec, rec', s, src)
    BY <1>2, <2>1, BindNewBinds
  <2>3. QED BY <1>1, <2>2, AnnouncedLasts
<1>8. QED BY <1>3, <1>4, <1>5, <1>6, <1>7

LEMMA DeferContestedLasts ==
  ASSUME RecorderInv, NEW s \in Speech, NEW src \in Sources, DeferContested(s, src)
  PROVE  Lasts
<1>1. PICK o \in {"no", "owed", "expired"} :
        /\ call = "live"
        /\ rec' = [rec EXCEPT !.contested[s] = [carry |-> rec.collecting, owed |-> o]]
  BY DEF DeferContested, Becomes
<1>2. /\ rec.turnOf[s] = NoTurn /\ src = "generate_reply" /\ rec.collecting # NoTurn
      /\ UNCHANGED <<call, finals, total, rendered>> /\ source' = [source EXCEPT ![s] = src]
  BY DEF DeferContested, Contestable, Adoptable, Announced
<1>3. rec.collecting \in 1..Len(rec.turns)
  BY <1>2, InvFacts DEF NoTurn
<1>4. Keeps(rec, rec', s) /\ rec'.contested[s] # Uncontested
  <2>1. Sound(rec)
    BY InvFacts
  <2>2. QED BY ONLY <1>1, <1>2, <1>3, <2>1, PutOffKeeps, s \in Speech
<1>5. /\ source' \in [Speech -> Sources \cup {"none"}] /\ source'[s] = src
      /\ \A x \in Speech \ {s} : source'[x] = source[x]
  BY <1>2, InvFacts
<1>6. Standing(rec', s, source'[s])
  BY <1>2, <1>4, <1>5 DEF Standing
<1>7. BooksKept
  BY <1>2, <1>4, CarriesKept DEF Keeps
<1>8. QED BY <1>1, <1>2, <1>4, <1>5, <1>6, <1>7, OneSpeechLasts DEF Keeps

\* A reply that was put off is settled, and the recorder goes on from there.
LEMMA SettledLasts ==
  ASSUME RecorderInv, call = "live", UNCHANGED <<call, source, finals>>,
         NEW s \in Speech \cup {NoSpeech}, NEW r \in SettlePending(rec, s),
         Holds(r, rec', NoSpeech), BooksKept
  PROVE  Lasts
<1>1. Sound(rec)
  BY InvFacts
<1>2. CASE r = rec
  BY <1>2, NothingAnnouncedLasts
<1>3. CASE r # rec
  <2>1. s \in Speech /\ rec.contested[s] # Uncontested /\ Binds(rec, r, s, "generate_reply")
    BY <1>1, <1>3, SettlePendingBinds
  <2>2. source[s] = "generate_reply" /\ "generate_reply" \in Sources
    BY <2>1 DEF RecorderInv, Settled, Sources
  <2>3. Holds(rec, rec', s) /\ Standing(rec', s, source'[s])
    BY <1>1, <2>1, <2>2, BoundStands
  <2>4. QED BY <2>1, <2>3, InvFacts, OneSpeechLasts
<1>4. QED BY <1>2, <1>3

LEMMA SettledIsSound ==
  ASSUME NEW r, Sound(r), NEW s \in Speech \cup {NoSpeech}, NEW q \in SettlePending(r, s)
  PROVE  Sound(q) /\ Carries(r, q)
  BY SettlePendingBinds, CarriesReflexive DEF Binds, Keeps, Holds

LEMMA LoopSliceLasts ==
  ASSUME RecorderInv, NEW s \in Speech, LoopSlice(s)
  PROVE  Lasts
<1>1. call = "live" /\ rec' \in SettlePending(rec, s) /\ UNCHANGED <<call, source, finals, total, rendered>>
  BY DEF LoopSlice, Becomes, env
<1>2. Sound(rec') /\ Carries(rec, rec')
  BY <1>1, InvFacts, SettledIsSound
<1>3. Holds(rec', rec', NoSpeech)
  BY <1>2, KeepsReflexive DEF Keeps
<1>4. BooksKept
  BY <1>1, <1>2, CarriesKept
<1>5. QED BY <1>1, <1>3, <1>4, SettledLasts

LEMMA OpenOutputStreamLasts ==
  ASSUME RecorderInv, NEW st \in Stream, NEW sid \in Speech \cup {NoSpeech},
         OpenOutputStream(st, sid)
  PROVE  Lasts
<1>1. rec.streams[st].status = "unused" /\ UNCHANGED <<call, source, finals, total, rendered>>
  BY DEF OpenOutputStream, env
<1>2. PICK r \in SettlePending(rec, sid) :
        LET q == [r EXCEPT !.streams[st] = [r.streams[st] EXCEPT !.status = "open", !.sid = sid]]
        IN  call = "live" /\ rec' = PinStream(q, st, OwnerOf(q, st))
  BY DEF OpenOutputStream, Becomes
<1>3. Sound(rec) /\ Sound(r) /\ Carries(rec, r)
  BY InvFacts, SettledIsSound
<1>4. /\ r.streams[st].status = "unused" /\ SameWords(rec, r)
      /\ \A s \in Speech : Standing(r, s, source[s])
  <2>1. CASE r = rec
    <3>1. SameWords(rec, rec)
      BY <1>3, KeepsReflexive, KeepsWords DEF Keeps
    <3>2. QED BY <1>1, <1>2, <2>1, <3>1, StandingFromInv
  <2>2. CASE r # rec
    <3>1. sid \in Speech /\ rec.contested[sid] # Uncontested /\ Binds(rec, r, sid, "generate_reply")
      BY <1>3, <2>2, SettlePendingBinds
    <3>2. source[sid] = "generate_reply" /\ "generate_reply" \in Sources
      BY <1>2, <3>1 DEF RecorderInv, Settled, Sources
    <3>3. Holds(rec, r, sid) /\ Standing(r, sid, source[sid])
      BY <1>3, <3>1, <3>2, KeepsReflexive, BoundStands DEF Keeps
    <3>4. ASSUME NEW s \in Speech, s # sid PROVE Standing(r, s, source[s])
      BY <1>2, <1>3, <3>3, <3>4, StandingFromInv, StandingKept
    <3>5. SameWords(rec, r)
      BY <3>3, KeepsWords
    <3>6. r.streams[st].status = "unused"
      BY <1>1, <3>3, SMTT(60) DEF Holds
    <3>7. QED BY <3>3, <3>4, <3>5, <3>6
  <2>3. QED BY <2>1, <2>2
<1>5. /\ Sound(rec') /\ Len(rec'.turns) = Len(r.turns) /\ Carries(r, rec')
      /\ \A t \in 1..Len(r.turns) : rec'.turns[t].words = r.turns[t].words
      /\ \A s \in Speech : \A src : Standing(r, s, src) => Standing(rec', s, src)
  BY <1>2, <1>3, <1>4, OpenedStands
<1>6. /\ Sound(rec)' /\ (call = "live")' /\ (source \in [Speech -> Sources \cup {"none"}])'
      /\ \A s \in Speech : Standing(rec', s, source'[s])
  BY <1>1, <1>2, <1>4, <1>5, InvFacts
<1>7. RecorderInv'
  BY <1>6, InvFromStandingNext
<1>8. SameWords(rec, rec')
  <2>1. PICK m, n : m = Len(rec.turns) /\ n = Len(r.turns)
    OBVIOUS
  <2>2. m \in Nat /\ n \in Nat
    BY <1>3, <2>1, KnownFacts DEF Sound
  <2>3. PICK p : p = rec'
    OBVIOUS
  <2>4. /\ Len(p.turns) = n /\ m <= n
        /\ \A t \in 1..n : p.turns[t].words = r.turns[t].words
        /\ \A t \in 1..m : r.turns[t].words = rec.turns[t].words
        /\ \A t \in (m + 1)..n : r.turns[t].words = 0
    BY <1>4, <1>5, <2>1, <2>3 DEF SameWords
  <2>5. /\ \A t \in 1..m : p.turns[t].words = rec.turns[t].words
        /\ \A t \in (m + 1)..n : p.turns[t].words = 0
    BY ONLY <2>2, <2>4
  <2>6. QED BY <2>1, <2>3, <2>4, <2>5 DEF SameWords
<1>9. BooksKept
  BY <1>1, <1>3, <1>5, CarriesTransitive, CarriesKept
<1>10. QED BY <1>1, <1>7, <1>8, <1>9 DEF Lasts

\* One frame more, on the books of the stream it came with.
LEMMA CreditsKept ==
  ASSUME Known(rec), NEW p, Carries(rec, p), NEW st \in Stream, Credits(p, rec', st),
         total' = total + 1, rendered' = [rendered EXCEPT ![st] = @ + 1]
  PROVE  BooksKept
<1>1. PICK q, w, v : q = rec' /\ w = rendered /\ v = rendered'
  OBVIOUS
<1>2. SUFFICES ASSUME Tallies(rec, w, total) PROVE Tallies(q, v, total + 1)
  BY <1>1 DEF BooksKept
<1>3. /\ w \in [Stream -> Nat] /\ total \in Nat /\ Balanced(p, w)
      /\ Heard(p) = Heard(rec) /\ Heard(rec) <= total
  BY <1>2 DEF Tallies, Carries
<1>4. v \in [Stream -> Nat] /\ OneMore(w, v, st)
  <2>1. v = [w EXCEPT ![st] = w[st] + 1]
    BY <1>1
  <2>2. QED BY <1>3, <2>1 DEF OneMore
<1>5. Balanced(q, v) /\ Heard(q) = Heard(p) + 1
  BY <1>1, <1>3, <1>4 DEF Credits
<1>6. Heard(rec) \in Nat
  BY HeardIs
<1>7. QED BY <1>3, <1>4, <1>5, <1>6 DEF Tallies

LEMMA TapLasts ==
  ASSUME RecorderInv, NEW st \in Stream, TapOutputFrame(st) \/ TapOutputText(st)
  PROVE  Lasts
<1>1. /\ rec.streams[st].status = "open" /\ call = "live" /\ UNCHANGED <<call, source, finals>>
  BY DEF TapOutputFrame, TapOutputText, Becomes, env
<1>2. PICK p \in Asked(st) :
        \/ /\ rec' = CreditFrame(p, st) /\ total' = total + 1
           /\ rendered' = [rendered EXCEPT ![st] = @ + 1]
        \/ rec' = p /\ UNCHANGED <<total, rendered>>
  BY DEF TapOutputFrame, TapOutputText, Becomes, env
<1>3. PICK r : /\ r \in SettlePending(rec, rec.streams[st].sid) \/ r = rec
               /\ Sound(r) /\ Pinned(r, p)
  BY <1>1, InvFacts, AskedIs
<1>4. Sound(p) /\ Known(p) /\ Holds(r, p, NoSpeech) /\ Carries(r, p)
  BY <1>3 DEF Pinned, Keeps, Holds, Sound
<1>5. rec.streams[st].sid \in Speech \cup {NoSpeech}
  BY InvFacts, KnownFacts DEF StreamRec
<1>6. Carries(rec, p)
  BY <1>3, <1>4, <1>5, InvFacts, SettledIsSound, CarriesTransitive
<1>7. Holds(p, rec', NoSpeech) /\ BooksKept
  <2>1. CASE rec' = p /\ UNCHANGED <<total, rendered>>
    BY <1>4, <1>6, <2>1, KeepsReflexive, CarriesKept DEF Keeps
  <2>2. CASE /\ rec' = CreditFrame(p, st) /\ total' = total + 1
             /\ rendered' = [rendered EXCEPT ![st] = @ + 1]
    <3>1. Proceeds(p, rec') /\ Credits(p, rec', st)
      BY <1>4, <2>2, CreditFrameCredits
    <3>2. Holds(p, rec', NoSpeech)
      BY <1>4, <3>1, ProceedsHolds
    <3>3. QED BY <1>6, <2>2, <3>1, <3>2, InvFacts, CreditsKept
  <2>3. QED BY <1>2, <2>1, <2>2
<1>8. Holds(r, rec', NoSpeech)
  BY <1>3, <1>4, <1>7, HoldsTransitive
<1>9. QED BY <1>1, <1>3, <1>5, <1>7, <1>8, SettledLasts, NothingAnnouncedLasts

LEMMA TapWithoutStreamLasts ==
  ASSUME RecorderInv, TapWithoutStream
  PROVE  Lasts
<1>1. /\ call = "live" /\ rec' = CreditUnscoped(rec) /\ UNCHANGED <<call, source, finals>>
      /\ total' = total + 1 /\ rendered' = rendered
  BY DEF TapWithoutStream, Becomes
<1>2. Proceeds(rec, rec') /\ CreditsUnscoped(rec, rec')
  BY <1>1, InvFacts, CreditUnscopedCredits
<1>3. Holds(rec, rec', NoSpeech)
  BY <1>2, InvFacts, ProceedsHolds
<1>4. BooksKept
  <2>1. PICK q, w : q = rec' /\ w = rendered /\ w = rendered'
    BY <1>1
  <2>2. SUFFICES ASSUME Tallies(rec, w, total) PROVE Tallies(q, w, total + 1)
    BY <1>1, <2>1 DEF BooksKept
  <2>3. /\ w \in [Stream -> Nat] /\ total \in Nat /\ Heard(rec) <= total /\ Balanced(rec, w)
    BY <2>2 DEF Tallies
  <2>4. Balanced(q, w) /\ Heard(q) \in {Heard(rec), Heard(rec) + 1}
    BY <1>2, <2>1, <2>3 DEF CreditsUnscoped
  <2>5. Heard(rec) \in Nat
    BY InvFacts, HeardIs
  <2>6. QED BY <2>3, <2>4, <2>5 DEF Tallies
<1>5. QED BY <1>1, <1>3, <1>4, NothingAnnouncedLasts

LEMMA CloseOutputStreamLasts ==
  ASSUME RecorderInv, NEW st \in Stream, CloseOutputStream(st)
  PROVE  Lasts
<1>1. /\ rec.streams[st].status = "open" /\ call = "live" /\ rec' = CloseStream(rec, st)
      /\ UNCHANGED <<call, source, finals, total, rendered>>
  BY DEF CloseOutputStream, Becomes, env
<1>2. Keeps(rec, rec', NoSpeech)
  BY <1>1, InvFacts, CloseStreamKeeps
<1>3. QED BY <1>1, <1>2, KeepsLasts

LEMMA NamedMetricLasts ==
  ASSUME RecorderInv, NEW stage, NEW s \in Speech, NamedMetric(stage, s)
  PROVE  Lasts
<1>1. call = "live" /\ UNCHANGED <<call, source, finals, total, rendered>>
  BY DEF NamedMetric, Becomes
<1>2. PICK r \in SettlePending(rec, s) :
        rec' = RecordMetric(StateFor(r, s), StateFor(r, s).current, stage)
  BY DEF NamedMetric, Becomes
<1>3. PICK q : q = StateFor(r, s)
  OBVIOUS
<1>4. Sound(rec) /\ Sound(r) /\ Carries(rec, r)
  BY InvFacts, SettledIsSound
<1>5. r.contested[s] = Uncontested
  BY <1>2, <1>4, SettlePendingBinds, TurnsAssumption DEF Binds, Answered
<1>6. /\ q.current \in 1..Len(q.turns)
      /\ r.turnOf[s] # NoTurn => Keeps(r, q, NoSpeech)
      /\ r.turnOf[s] = NoTurn => Keeps(r, q, s) /\ q.contested[s] = Uncontested
  BY <1>3, <1>4, <1>5, StateForKeeps
<1>7. Sound(q) /\ Known(q)
  BY <1>6 DEF Keeps, Holds, Sound
<1>8. Continues(q, rec')
  BY <1>2, <1>3, <1>6, <1>7, RecordMetricContinues
<1>9. Keeps(q, rec', NoSpeech)
  BY <1>7, <1>8, ContinuesKeeps
<1>13. BooksKept
  <2>1. Carries(r, q)
    BY <1>6 DEF Keeps
  <2>2. Carries(rec, rec')
    BY <1>4, <1>9, <2>1, CarriesTransitive DEF Keeps
  <2>3. QED BY <1>1, <2>2, CarriesKept
<1>10. CASE r.turnOf[s] # NoTurn
  <2>1. Holds(r, rec', NoSpeech)
    BY <1>4, <1>6, <1>9, <1>10, KeepsTransitive DEF Keeps
  <2>2. QED BY <1>1, <1>13, <2>1, SettledLasts
<1>11. CASE r.turnOf[s] = NoTurn
  <2>1. r = rec
    BY <1>4, <1>11, SettlePendingBinds DEF Binds, Answered
  <2>2. source[s] = "none"
    BY <1>1, <1>5, <1>11, <2>1 DEF RecorderInv, Settled, Answered
  <2>3. Keeps(rec, rec', s)
    BY <1>4, <1>6, <1>9, <1>11, <2>1, KeepsWidens, KeepsTransitive
  <2>4. rec'.contested[s] = Uncontested
    BY <1>6, <1>8, <1>11 DEF Continues, Proceeds
  <2>5. Standing(rec', s, source'[s])
    BY <1>1, <2>2, <2>4 DEF Standing
  <2>6. QED BY <1>1, <1>13, <2>3, <2>5, InvFacts, OneSpeechLasts DEF Keeps
<1>12. QED BY <1>10, <1>11

LEMMA UnnamedMetricLasts ==
  ASSUME RecorderInv, NEW stage, UnnamedMetric(stage)
  PROVE  Lasts
<1>1. /\ call = "live" /\ UNCHANGED <<call, source, finals, total, rendered>>
      /\ \/ rec' = rec
         \/ \E t \in UnidentifiedMetricTurn(rec, stage) : rec' = RecordMetric(rec, t, stage)
  BY DEF UnnamedMetric, Becomes
<1>2. UnidentifiedMetricTurn(rec, stage) \subseteq 1..Len(rec.turns)
  BY InvFacts DEF UnidentifiedMetricTurn, Unrivalled, Claimants
<1>3. Continues(rec, rec')
  BY <1>1, <1>2, InvFacts, ContinuesReflexive, RecordMetricContinues
<1>4. QED BY <1>1, <1>3, GoesOnLasts

\* The first of some places.
LEMMA MinIsOne ==
  ASSUME NEW n \in Nat, NEW T \in SUBSET (1..n), T # {}
  PROVE  Min(T) \in T
<1>1. PICK Below : Below = {1..k : k \in T}
  OBVIOUS
<1>2. Below \in SUBSET SUBSET (1..n) /\ Below # {}
  <2>1. ASSUME NEW k \in T PROVE 1..k \in SUBSET (1..n)
    OBVIOUS
  <2>2. QED BY <1>1, <2>1
<1>3. PICK B \in Below : \A C \in Below : ~(C \subseteq B /\ C # B)
  <2>1. PICK W : W = 1..n
    OBVIOUS
  <2>2. IsFiniteSet(W)
    BY <2>1, FS_Interval
  <2>3. Below \in SUBSET SUBSET W /\ Below # {}
    BY <1>2, <2>1
  <2>4. QED BY ONLY <2>2, <2>3, Minimal
<1>4. PICK x \in T : \A y \in T : ~(1..y \subseteq 1..x /\ 1..y # 1..x)
  <2>1. PICK x \in T : B = 1..x
    BY <1>1
  <2>2. \A y \in T : 1..y \in Below
    BY <1>1
  <2>3. QED BY <1>3, <2>1, <2>2
<1>5. ASSUME NEW y \in T PROVE x <= y
  <2>1. SUFFICES ASSUME y < x PROVE FALSE
    OBVIOUS
  <2>2. x \in 1..x /\ x \notin 1..y /\ 1..y \subseteq 1..x
    BY <2>1
  <2>3. QED BY <1>4, <2>2
<1>6. \E z \in T : \A y \in T : z =< y
  BY <1>5
<1>7. QED BY <1>6, Zenon DEF Min

LEMMA ItemOwnersAreTurns ==
  ASSUME NEW r, Known(r), NEW s
  PROVE  ItemOwners(r, s) \subseteq 1..Len(r.turns)
<1>1. PICK listed : listed = {t \in DOMAIN r.turns : r.turns[t].handle = s}
  OBVIOUS
<1>2. LateItemOwners(r) \subseteq 0..Len(r.turns)
  BY KnownFacts DEF LateItemOwners
<1>3. Len(r.turns) \in Nat /\ listed \in SUBSET (1..Len(r.turns))
  BY <1>1, KnownFacts
<1>4. listed # {} => Min(listed) \in 1..Len(r.turns)
  BY <1>3, MinIsOne
<1>5. ItemOwners(r, s) = (IF listed = {} THEN LateItemOwners(r) ELSE {Min(listed)}) \ {NoTurn}
  BY <1>1 DEF ItemOwners
<1>6. QED BY <1>2, <1>3, <1>4, <1>5 DEF NoTurn

LEMMA AssistantItemLasts ==
  ASSUME RecorderInv, NEW s \in Speech, AssistantItem(s)
  PROVE  Lasts
<1>1. /\ call = "live" /\ UNCHANGED <<call, source, finals, total, rendered>>
      /\ \/ rec' = rec
         \/ \E t \in ItemOwners(rec, s) :
              \E exact, timed, worded : rec' = RecordItem(rec, t, exact, timed, worded)
  BY DEF AssistantItem, Becomes
<1>2. Continues(rec, rec')
  BY <1>1, InvFacts, ItemOwnersAreTurns, ContinuesReflexive, RecordItemContinues
<1>3. QED BY <1>1, <1>2, GoesOnLasts

LEMMA ToolsExecutedLasts ==
  ASSUME RecorderInv, ToolsExecuted
  PROVE  Lasts
<1>1. /\ call = "live" /\ UNCHANGED <<call, source, finals, total, rendered>> /\ rec.current # NoTurn
  BY DEF ToolsExecuted, Becomes
<1>0. PICK owed \in BOOLEAN : rec' = [rec EXCEPT !.turns[rec.current].toolOwed = owed]
  BY DEF ToolsExecuted, Becomes
<1>2. PICK t : t = rec.current /\ rec' = [rec EXCEPT !.turns[t].toolOwed = owed]
  BY <1>0
<1>3. t \in 1..Len(rec.turns)
  BY <1>1, <1>2, InvFacts DEF NoTurn
<1>5. Continues(rec, rec')
  BY <1>2, <1>3, InvFacts, ToolsExecutedContinues
<1>6. QED BY <1>1, <1>5, GoesOnLasts

LEMMA SessionErrorLasts ==
  ASSUME RecorderInv, NEW stages, SessionError(stages)
  PROVE  Lasts
<1>1. call = "live" /\ UNCHANGED <<call, source, finals, total, rendered>> /\ rec.current # NoTurn
  BY DEF SessionError, Becomes
<1>2. PICK turn, stt, tts :
        /\ turn = rec.turns[rec.current]
        /\ stt = IF turn.stt = "open" /\ "stt" \in stages THEN "failed" ELSE turn.stt
        /\ tts = IF turn.tts = "open" /\ "tts" \in stages THEN "failed" ELSE turn.tts
  OBVIOUS
<1>3. rec' = [rec EXCEPT !.turns[rec.current] = [turn EXCEPT !.stt = stt, !.tts = tts]]
  BY <1>2 DEF SessionError, Becomes
<1>4. rec.current \in 1..Len(rec.turns)
  BY <1>1, InvFacts DEF NoTurn
<1>5. /\ stt = turn.stt \/ (turn.stt = "open" /\ stt = "failed")
      /\ tts = turn.tts \/ (turn.tts = "open" /\ tts = "failed")
  BY <1>2, SMTT(60)
<1>6. Continues(rec, rec')
  <2>1. Known(rec)
    BY InvFacts
  <2>2. QED BY ONLY <1>2, <1>3, <1>4, <1>5, <2>1, FailedSpanContinues
<1>7. QED BY <1>1, <1>6, GoesOnLasts

LEMMA FinishLasts ==
  ASSUME RecorderInv, Finish
  PROVE  Lasts
<1>1. PICK q : q = FinalizeOpenSpans(rec)
  OBVIOUS
<1>2. /\ rec' = [FreshRecorder EXCEPT !.turns = q.turns, !.turnOf = q.turnOf,
                                      !.streams = q.streams, !.inferred = q.inferred]
      /\ call' = "over" /\ UNCHANGED <<source, finals, total, rendered>>
  BY <1>1 DEF Finish, Becomes, env
<1>3. PICK p : p = rec'
  OBVIOUS
<1>4. /\ Sound(p) /\ Len(p.turns) = Len(rec.turns) /\ p.turnOf = rec.turnOf
      /\ Carries(rec, p)
      /\ \A t \in 1..Len(rec.turns) : GoesOn(rec.turns[t], p.turns[t]) /\ p.turns[t].stt # "open"
  <2>1. p = [FreshRecorder EXCEPT !.turns = q.turns, !.turnOf = q.turnOf,
                                  !.streams = q.streams, !.inferred = q.inferred]
    BY <1>2, <1>3
  <2>2. Sound(rec)
    BY InvFacts
  <2>3. QED BY ONLY <1>1, <2>1, <2>2, FinishLeaves
<1>5. Attributed(rec)'
  <2> SUFFICES ASSUME NEW s \in Speech, source[s] # "none", rec.turnOf[s] # NoTurn
               PROVE  /\ p.turns[rec.turnOf[s]].source # "none"
                      /\ source[s] = "generate_reply" =>
                           p.turns[rec.turnOf[s]].source = "generate_reply"
    BY <1>2, <1>3, <1>4 DEF Attributed
  <2>1. rec.turnOf[s] \in 1..Len(rec.turns)
    BY InvFacts DEF NoTurn
  <2>2. p.turns[rec.turnOf[s]].source = rec.turns[rec.turnOf[s]].source
    BY <1>4, <2>1 DEF GoesOn, StepsOn
  <2>3. QED BY <2>2 DEF RecorderInv, Attributed
<1>6. RecorderInv'
  <2>1. (source \in [Speech -> Sources \cup {"none"}])'
    BY <1>2, InvFacts
  <2>2. (call = "over" => \A t \in 1..Len(rec.turns) : rec.turns[t].stt # "open")'
    BY <1>3, <1>4
  <2>3. Sound(rec)' /\ (call # "live")'
    BY <1>2, <1>3, <1>4
  <2>4. QED BY <1>5, <2>1, <2>2, <2>3 DEF RecorderInv
<1>7. SameWords(rec, rec')
  <2>1. \A t \in 1..Len(rec.turns) : p.turns[t].words = rec.turns[t].words
    BY <1>4 DEF GoesOn, StepsOn
  <2>2. Len(rec.turns) \in Nat
    BY InvFacts
  <2>3. QED BY <1>3, <1>4, <2>1, <2>2 DEF SameWords
<1>8. BooksKept
  BY <1>2, <1>3, <1>4, CarriesKept
<1>9. QED BY <1>2, <1>6, <1>7, <1>8 DEF Lasts

LEMMA StutterLasts ==
  ASSUME RecorderInv, UNCHANGED vars
  PROVE  Lasts
<1>1. /\ rec' = rec /\ call' = call /\ source' = source /\ finals' = finals
      /\ UNCHANGED <<total, rendered>>
  BY DEF vars, env
<1>2. RecorderInv'
  BY <1>1 DEF RecorderInv, Attributed, Settled
<1>3. SameWords(rec, rec)
  BY InvFacts, KeepsReflexive, KeepsWords DEF Keeps
<1>4. BooksKept
  BY <1>1, CarriesReflexive, CarriesKept
<1>5. QED BY <1>1, <1>2, <1>3, <1>4 DEF Lasts

LEMMA StepLasts ==
  ASSUME RecorderInv, [Next]_vars
  PROVE  Lasts
<1>1. CASE UserSpeaking \/ InterimTranscript
  BY <1>1, UtteranceLasts
<1>2. CASE FinalTranscript
  BY <1>2, FinalTranscriptLasts
<1>3. CASE UserCommitted
  BY <1>3, UserCommittedLasts
<1>4. ASSUME NEW s \in Speech,
             \/ LoopSlice(s) \/ AssistantItem(s)
             \/ \E src \in Sources :
                  \/ RegisteredSpeech(s, src) \/ AnswerPending(s, src)
                  \/ AdoptCollecting(s, src) \/ DeferContested(s, src)
                  \/ Preempt(s, src) \/ Unprompted(s, src)
             \/ \E stage \in Stages : NamedMetric(stage, s)
      PROVE  Lasts
  BY <1>4, LoopSliceLasts, AssistantItemLasts, SpeechCreatedLasts, DeferContestedLasts,
     NamedMetricLasts
<1>5. ASSUME NEW st \in Stream,
             \/ \E sid \in Speech \cup {NoSpeech} : OpenOutputStream(st, sid)
             \/ TapOutputFrame(st) \/ TapOutputText(st) \/ CloseOutputStream(st)
      PROVE  Lasts
  BY <1>5, OpenOutputStreamLasts, TapLasts, CloseOutputStreamLasts
<1>6. CASE TapWithoutStream
  BY <1>6, TapWithoutStreamLasts
<1>7. ASSUME NEW stage \in Stages, UnnamedMetric(stage) PROVE Lasts
  BY <1>7, UnnamedMetricLasts
<1>8. CASE ToolsExecuted
  BY <1>8, ToolsExecutedLasts
<1>9. ASSUME NEW stages, SessionError(stages) PROVE Lasts
  BY <1>9, SessionErrorLasts
<1>10. CASE Finish
  BY <1>10, FinishLasts
<1>11. CASE UNCHANGED vars
  BY <1>11, StutterLasts
<1>12. QED
  BY <1>1, <1>2, <1>3, <1>4, <1>5, <1>6, <1>7, <1>8, <1>9, <1>10, <1>11 DEF Next

-------------------------------------------------------------------------------
(* The words of all turns *)

WordsIn(r) == [t \in 1..Len(r.turns) |-> r.turns[t].words]
WordsOf(r) == SumFunctionOnSet(WordsIn(r), 1..Len(r.turns))

LEMMA WordsAre ==
  ASSUME NEW r, Known(r)
  PROVE  /\ SumOver(r, LAMBDA turn : turn.words) = WordsOf(r)
         /\ WordsOf(r) \in Nat /\ (Len(r.turns) = 0 => WordsOf(r) = 0)
         /\ IsFiniteSet(1..Len(r.turns))
         /\ \A t \in 1..Len(r.turns) : WordsIn(r)[t] = r.turns[t].words /\ WordsIn(r)[t] \in Nat
<1>1. /\ Len(r.turns) \in Nat /\ DOMAIN r.turns = 1..Len(r.turns)
      /\ \A t \in 1..Len(r.turns) : r.turns[t] \in TurnRec
  BY KnownFacts
<1>2. IsFiniteSet(1..Len(r.turns))
  BY <1>1, FS_Interval
<1>3. \A t \in 1..Len(r.turns) : WordsIn(r)[t] = r.turns[t].words /\ WordsIn(r)[t] \in Nat
  <2>1. \A t \in 1..Len(r.turns) : r.turns[t].words \in Nat
    BY <1>1 DEF TurnRec
  <2>2. QED BY <2>1 DEF WordsIn
<1>4. SumOver(r, LAMBDA turn : turn.words) = WordsOf(r)
  <2>1. SumOver(r, LAMBDA turn : turn.words) = SumFunction(WordsIn(r))
    BY <1>1 DEF SumOver, WordsIn
  <2>2. DOMAIN WordsIn(r) = 1..Len(r.turns)
    BY DEF WordsIn
  <2>3. QED BY <2>1, <2>2 DEF SumFunction, WordsOf
<1>5. WordsOf(r) \in Nat /\ (Len(r.turns) = 0 => WordsOf(r) = 0)
  <2>1. WordsOf(r) \in Nat
    BY <1>2, <1>3, SumFacts DEF WordsOf
  <2>2. ASSUME Len(r.turns) = 0 PROVE WordsOf(r) = 0
    <3>1. 1..Len(r.turns) = {}
      BY <2>2
    <3>2. QED BY <1>2, <1>3, <3>1, SumFacts DEF WordsOf
  <2>3. QED BY <2>1, <2>2
<1>6. QED BY <1>2, <1>3, <1>4, <1>5

LEMMA MoreWords ==
  ASSUME NEW r, Known(r), NEW q, Known(q), Len(r.turns) <= Len(q.turns), NEW t, NEW k \in Nat,
         \A x \in 1..Len(q.turns) :
           q.turns[x].words = (IF x \in 1..Len(r.turns) THEN r.turns[x].words ELSE 0)
                              + (IF x = t THEN k ELSE 0)
  PROVE  WordsOf(q) = WordsOf(r) + (IF t \in 1..Len(q.turns) THEN k ELSE 0)
<1>1. PICK V, W : V = 1..Len(r.turns) /\ W = 1..Len(q.turns)
  OBVIOUS
<1>2. PICK a, b : a = WordsIn(r) /\ b = WordsIn(q)
  OBVIOUS
<1>3. V \in SUBSET W /\ IsFiniteSet(W)
  <2>1. Len(r.turns) \in Nat /\ Len(q.turns) \in Nat
    BY KnownFacts
  <2>2. IsFiniteSet(1..Len(q.turns))
    BY WordsAre
  <2>3. QED BY <1>1, <2>1, <2>2
<1>4. /\ \A x \in V : a[x] = r.turns[x].words /\ a[x] \in Nat
      /\ \A x \in W : b[x] = q.turns[x].words /\ b[x] \in Nat
  BY <1>1, <1>2, WordsAre
<1>5. MoreAt(a, V, b, W, t, k)
  BY <1>1, <1>3, <1>4 DEF MoreAt
<1>6. SumFunctionOnSet(b, W) = SumFunctionOnSet(a, V) + (IF t \in W THEN k ELSE 0)
  BY <1>3, <1>4, <1>5, SumGrows
<1>7. QED BY <1>1, <1>2, <1>6 DEF WordsOf

LEMMA SameWordsSum ==
  ASSUME NEW r, Known(r), NEW q, Known(q), SameWords(r, q)
  PROVE  WordsOf(q) = WordsOf(r)
<1>1. Len(r.turns) \in Nat /\ Len(q.turns) \in Nat
  BY KnownFacts
<1>2. \A x \in 1..Len(q.turns) :
        q.turns[x].words = (IF x \in 1..Len(r.turns) THEN r.turns[x].words ELSE 0)
                           + (IF x = 0 THEN 0 ELSE 0)
  <2> SUFFICES ASSUME NEW x \in 1..Len(q.turns)
               PROVE  q.turns[x].words = IF x \in 1..Len(r.turns) THEN r.turns[x].words ELSE 0
    <3>1. \A x \in 1..Len(r.turns) : r.turns[x].words \in Nat
      BY KnownFacts DEF TurnRec
    <3>2. QED BY <3>1
  <2>1. x \notin 1..Len(r.turns) => x \in (Len(r.turns) + 1)..Len(q.turns)
    BY <1>1
  <2>2. QED BY <2>1 DEF SameWords
<1>3. WordsOf(q) = WordsOf(r) + (IF 0 \in 1..Len(q.turns) THEN 0 ELSE 0)
  <2>1. Len(r.turns) <= Len(q.turns) /\ 0 \in Nat
    BY DEF SameWords
  <2>2. QED BY <1>2, <2>1, MoreWords
<1>4. WordsOf(r) \in Nat
  BY WordsAre
<1>5. QED BY <1>3, <1>4

LEMMA HearsSum ==
  ASSUME NEW r, Known(r), NEW q, Hears(r, q)
  PROVE  WordsOf(q) = WordsOf(r) + 1
<1>1. Known(q) /\ Len(r.turns) \in Nat /\ Len(q.turns) \in Nat
  BY KnownFacts DEF Hears, Sound
<1>2. PICK t \in 1..Len(q.turns) :
        /\ q.turns[t].words = (IF t \in 1..Len(r.turns) THEN r.turns[t].words ELSE 0) + 1
        /\ \A x \in 1..Len(r.turns) : x # t => q.turns[x].words = r.turns[x].words
        /\ \A x \in (Len(r.turns) + 1)..Len(q.turns) : x # t => q.turns[x].words = 0
  BY DEF Hears
<1>3. \A x \in 1..Len(q.turns) :
        q.turns[x].words = (IF x \in 1..Len(r.turns) THEN r.turns[x].words ELSE 0)
                           + (IF x = t THEN 1 ELSE 0)
  <2> SUFFICES ASSUME NEW x \in 1..Len(q.turns), x # t
               PROVE  q.turns[x].words = IF x \in 1..Len(r.turns) THEN r.turns[x].words ELSE 0
    <3>1. \A x \in 1..Len(r.turns) : r.turns[x].words \in Nat
      BY KnownFacts DEF TurnRec
    <3>2. QED BY <1>2, <3>1
  <2>1. x \notin 1..Len(r.turns) => x \in (Len(r.turns) + 1)..Len(q.turns)
    BY <1>1
  <2>2. QED BY <1>2, <2>1
<1>4. WordsOf(q) = WordsOf(r) + (IF t \in 1..Len(q.turns) THEN 1 ELSE 0)
  <2>1. Len(r.turns) <= Len(q.turns) /\ 1 \in Nat
    BY DEF Hears
  <2>2. QED BY <1>1, <1>3, <2>1, MoreWords
<1>5. QED BY <1>2, <1>4

-------------------------------------------------------------------------------
(* What holds of every call *)

WordsInv == WordsOf(rec) = finals /\ finals \in Nat

LEMMA FreshIsSound == Sound(FreshRecorder) /\ Len(FreshRecorder.turns) = 0
<1>1. PICK r : r = FreshRecorder
  OBVIOUS
<1>2. /\ r.turns = <<>> /\ r.turnOf = [s \in Speech |-> 0]
      /\ r.streams = [st \in Stream |-> FreshStream]
      /\ r.contested = [s \in Speech |-> Uncontested] /\ r.preemptive = 0
      /\ r.pending = 0 /\ r.collecting = 0 /\ r.current = 0 /\ r.speaking = 0 /\ r.retired = 0
  BY <1>1 DEF FreshRecorder, NoTurn
<1>3. FreshStream \in StreamRec /\ FreshStream.owner = 0 /\ FreshStream.sid = NoSpeech
  BY DEF FreshStream, StreamRec, NoTurn
<1>4. Uncontested \in [carry : Nat, owed : {"no", "owed", "expired"}] /\ Uncontested.carry = 0
  BY DEF Uncontested, NoTurn
<1>5. r \in RecorderRec
  <2>1. /\ [s \in Speech |-> 0] \in [Speech -> Nat]
        /\ [st \in Stream |-> FreshStream] \in [Stream -> StreamRec]
        /\ [s \in Speech |-> Uncontested] \in [Speech -> [carry : Nat, owed : {"no", "owed", "expired"}]]
        /\ <<>> \in Seq(TurnRec)
    BY <1>3, <1>4
  <2>2. QED BY <1>1, <2>1 DEF FreshRecorder, RecorderRec, NoTurn
<1>6. Len(r.turns) = 0
  BY <1>2
<1>7. Places(r)
  BY <1>2, <1>3, <1>4, <1>6 DEF Places
<1>8. Identified(r) /\ PutOff(r)
  BY <1>2, <1>3 DEF Identified, PutOff, NoTurn
<1>9. Counted(r) /\ Worded(r)
  BY <1>2, <1>6 DEF Counted, Worded, NoTurn
<1>10. QED BY <1>1, <1>5, <1>6, <1>7, <1>8, <1>9 DEF Sound, Known

\* Where nothing was heard the books balance.
LEMMA FreshIsBalanced ==
  ASSUME NEW w, w = [st \in Stream |-> 0] PROVE Tallies(FreshRecorder, w, 0)
<1>1. PICK r : r = FreshRecorder
  OBVIOUS
<1>2. /\ r.inferred = FALSE /\ Known(r) /\ Len(r.turns) = 0
      /\ \A st \in Stream : r.streams[st].owner = NoTurn /\ r.streams[st].held = 0
  BY <1>1, FreshIsSound DEF FreshRecorder, FreshStream, Sound
<1>3. w \in [Stream -> Nat] /\ \A st \in Stream : w[st] = 0
  OBVIOUS
<1>4. Balanced(r, w)
  BY <1>2, <1>3 DEF Balanced, Guessed
<1>5. AudioOf(r) = 0
  <2>1. 1..Len(r.turns) = {}
    BY <1>2
  <2>2. \A x \in {} : AudioIn(r)[x] \in Nat
    OBVIOUS
  <2>3. SumFunctionOnSet(AudioIn(r), {}) = 0
    BY <2>2, SumFacts, FS_EmptySet
  <2>4. QED BY <2>1, <2>3 DEF AudioOf
<1>6. HeldOf(r) = 0
  <2>1. PICK a : a = HeldIn(r)
    OBVIOUS
  <2>2. \A x \in Stream : a[x] = 0 /\ a[x] \in Nat
    BY <1>2, <2>1, HeardIs
  <2>3. /\ SumFunctionOnSet(a, Stream) \in Nat /\ SumFunctionOnSet(a, {}) = 0
        /\ SumFunctionOnSet(a, {}) < SumFunctionOnSet(a, Stream) <=> \E x \in Stream \ {} : a[x] > 0
    <3>1. IsFiniteSet(Stream) /\ {} \in SUBSET Stream /\ \A x \in Stream : a[x] \in Nat
      BY <2>2, TurnsAssumption
    <3>2. QED BY <3>1, SumFacts, SumOfAPart
  <2>4. QED BY <2>1, <2>2, <2>3 DEF HeldOf
<1>7. Heard(r) = 0
  BY <1>2, <1>5, <1>6, HeardIs
<1>8. QED BY <1>1, <1>3, <1>4, <1>7 DEF Tallies

BooksInv == Tallies(rec, rendered, total)

LEMMA InitIsSettled == Init => RecorderInv /\ WordsInv /\ BooksInv
<1> SUFFICES ASSUME Init PROVE RecorderInv /\ WordsInv /\ BooksInv
  OBVIOUS
<1>1. /\ rec = FreshRecorder /\ call = "live" /\ finals = 0
      /\ source = [s \in Speech |-> "none"]
  BY DEF Init
<1>2. Sound(rec) /\ Known(rec) /\ Len(rec.turns) = 0
  BY <1>1, FreshIsSound DEF Sound
<1>3. \A s \in Speech : Standing(rec, s, source[s])
  BY <1>1 DEF Standing, FreshRecorder
<1>4. RecorderInv
  BY <1>1, <1>2, <1>3, InvFromStanding
<1>5. WordsInv
  BY <1>1, <1>2, WordsAre DEF WordsInv
<1>6. BooksInv
  BY <1>1, FreshIsBalanced DEF BooksInv, Init
<1>7. QED BY <1>4, <1>5, <1>6

LEMMA StepKeepsWords ==
  ASSUME RecorderInv, WordsInv, Lasts PROVE WordsInv'
<1>1. PICK r, q : r = rec /\ q = rec'
  OBVIOUS
<1>2. Known(r) /\ Known(q)
  BY <1>1, InvFacts DEF Lasts, RecorderInv, Sound
<1>3. \/ SameWords(r, q) /\ finals' = finals
      \/ Hears(r, q) /\ finals' = finals + 1
  BY <1>1 DEF Lasts
<1>4. WordsOf(q) = finals' /\ finals' \in Nat
  BY <1>1, <1>2, <1>3, SameWordsSum, HearsSum DEF WordsInv
<1>5. WordsOf(rec)' = WordsOf(q)
  BY <1>1
<1>6. QED BY <1>4, <1>5 DEF WordsInv

LEMMA StepKeepsBooks ==
  ASSUME BooksInv, Lasts PROVE BooksInv'
<1>1. Tallies(rec', rendered', total')
  BY DEF BooksInv, Lasts, BooksKept
<1>2. QED BY <1>1 DEF BooksInv

LEMMA RecorderInvariant == Spec => [](RecorderInv /\ WordsInv /\ BooksInv)
<1>1. RecorderInv /\ WordsInv /\ BooksInv /\ [Next]_vars => (RecorderInv /\ WordsInv /\ BooksInv)'
  BY StepLasts, StepKeepsWords, StepKeepsBooks DEF Lasts
<1>2. QED BY <1>1, InitIsSettled, PTL DEF Spec

\* The recorder's fields keep their types, and whatever names a turn - the floor, a
\* speech, a stream, a reply that was put off - names one that there is.
THEOREM RecorderTypes == Spec => []Known(rec)
<1>1. RecorderInv => Known(rec)
  BY InvFacts
<1>2. QED BY <1>1, RecorderInvariant, PTL

\* A stream that named its speech is never credited to the turn of another reply
\* (_stream_turn, _pin_stream).
THEOREM StreamsKeepToTheirSpeech == Spec => []StreamsFollowIdentity
<1>1. RecorderInv => StreamsFollowIdentity
  BY DEF RecorderInv, Sound, Identified, StreamsFollowIdentity
<1>2. QED BY <1>1, RecorderInvariant, PTL

\* While the call lasts, no stream waits for a speech that has been announced and given
\* its turn (_bind_reply, _resolve_deferred_streams).
THEOREM NoStreamIsLeftWaiting == Spec => []NothingWaitsForABoundSpeech
<1>1. RecorderInv => NothingWaitsForABoundSpeech
  <2> SUFFICES ASSUME RecorderInv, call = "live", NEW st \in Stream,
                      rec.streams[st].sid # NoSpeech, rec.streams[st].owner = NoTurn
               PROVE  \/ source[rec.streams[st].sid] = "none"
                      \/ rec.contested[rec.streams[st].sid] # Uncontested
    BY DEF NothingWaitsForABoundSpeech
  <2>1. rec.streams[st].sid \in Speech
    BY InvFacts, KnownFacts DEF StreamRec
  <2>2. QED BY <2>1 DEF RecorderInv, Settled, Answered
<1>2. QED BY <1>1, RecorderInvariant, PTL

\* A turn counts the streams that render for it, and waits for their end only while it
\* has one (_pin_stream, close_output_stream, _retire_reply).
THEOREM TurnsCountTheirStreams == Spec => []HeldTurnsHaveStreams
<1>1. RecorderInv => HeldTurnsHaveStreams
  BY InvFacts DEF RecorderInv, Sound, Counted, OpenOn, HeldTurnsHaveStreams
<1>2. QED BY <1>1, RecorderInvariant, PTL

\* A metric that names no speech goes to an open reply only if it is that reply's, or
\* of one that had ended before that reply began (_unidentified_metric_turn).
THEOREM UnnamedMetricsAreNotGuessed == Spec => []UnnamedMetricsKeepToTheirReply
<1>1. RecorderInv => UnnamedMetricsKeepToTheirReply
  <2> SUFFICES ASSUME RecorderInv, NEW stage \in {"llm", "tts"}, NEW from \in Producers(stage),
                      NEW to \in UnidentifiedMetricTurn(rec, stage), ~rec.turns[to].finished
               PROVE  from = to \/ (rec.turns[from].finished /\ rec.turns[from].finishedAt < to)
    BY DEF UnnamedMetricsKeepToTheirReply
  <2>1. PICK s \in Speech : /\ from = rec.turnOf[s] /\ from # NoTurn
                            /\ \/ source[s] = "generate_reply"
                               \/ stage = "tts" /\ source[s] = "say"
    BY DEF Producers
  <2>2. from \in DOMAIN rec.turns
    BY <2>1, InvFacts DEF NoTurn
  <2>3. from \in Claimants(rec, stage)
    <3>1. /\ rec.turns[from].source # "none"
          /\ source[s] = "generate_reply" => rec.turns[from].source = "generate_reply"
      BY <2>1 DEF RecorderInv, Attributed
    <3>2. CouldEmit(rec.turns[from], stage)
      BY <2>1, <3>1 DEF CouldEmit
    <3>3. QED BY <2>2, <3>2 DEF Claimants
  <2>4. CASE Unrivalled(rec, stage) # {}
    <3>1. to \in Unrivalled(rec, stage)
      BY <2>4 DEF UnidentifiedMetricTurn
    <3>2. PICK live : live = {t \in Claimants(rec, stage) : ~rec.turns[t].finished}
      OBVIOUS
    <3>3. live = {to} /\ \A u \in Claimants(rec, stage) \ live : rec.turns[u].finishedAt < to
      BY <3>1, <3>2 DEF Unrivalled
    <3>4. QED BY <2>3, <3>2, <3>3
  <2>5. CASE Unrivalled(rec, stage) = {}
    <3>1. to \in Claimants(rec, stage) /\ \A t \in Claimants(rec, stage) : rec.turns[t].finished
      BY <2>5 DEF UnidentifiedMetricTurn
    <3>2. QED BY <3>1
  <2>6. QED BY <2>4, <2>5
<1>2. QED BY <1>1, RecorderInvariant, PTL

\* Every final transcript is with a turn, and in its span when that is written, unless
\* an error writes it (_close_user_turn, finalize_open_spans).
THEOREM WordsAreNotLost == Spec => []WordsReachTheirSpan
<1>1. RecorderInv /\ WordsInv => WordsReachTheirSpan
  <2> SUFFICES ASSUME RecorderInv, WordsInv PROVE WordsReachTheirSpan
    OBVIOUS
  <2>1. SumOver(rec, LAMBDA turn : turn.words) = finals
    BY InvFacts, WordsAre DEF WordsInv
  <2>2. ASSUME NEW t \in DOMAIN rec.turns,
               rec.turns[t].stt = "ended" \/ (call = "over" /\ rec.turns[t].stt # "failed")
        PROVE  rec.turns[t].wordsOut = rec.turns[t].words
    <3>1. t \in 1..Len(rec.turns)
      BY InvFacts
    <3>2. rec.turns[t].stt \in Span
      BY <3>1, InvFacts, KnownFacts DEF TurnRec
    <3>3. rec.turns[t].stt \in {"ended", "none"}
      BY <2>2, <3>1, <3>2 DEF RecorderInv, Span
    <3>4. QED BY <3>1, <3>3 DEF RecorderInv, Sound, Worded
  <2>3. QED BY <2>1, <2>2 DEF WordsReachTheirSpan
<1>2. QED BY <1>1, RecorderInvariant, PTL

-------------------------------------------------------------------------------
(* What is told of the audio *)

\* The manifest calls the ownership of streams inferred exactly when a turn has audio
\* that did not name its speech, by whatever route (_mark_ownership_inferred).
THEOREM GuessesAreTold == Spec => []OwnershipIsTold
<1>1. RecorderInv /\ BooksInv => OwnershipIsTold
  <2> SUFFICES ASSUME RecorderInv, BooksInv PROVE OwnershipIsTold
    OBVIOUS
  <2> DEFINE Named(t) == {st \in Stream : rec.streams[st].sid # NoSpeech /\ rec.streams[st].owner = t}
             Unnamed(t) == {st \in Stream : rec.streams[st].sid = NoSpeech /\ rec.streams[st].owner = t}
  <2>1. /\ rendered \in [Stream -> Nat] /\ Balanced(rec, rendered)
        /\ DOMAIN rec.turns = 1..Len(rec.turns) /\ Known(rec)
    BY InvFacts DEF BooksInv, Tallies
  <2>2. ASSUME NEW t \in 1..Len(rec.turns)
        PROVE  rec.turns[t].audio > SumFunctionOnSet(rendered, Named(t)) <=>
                 \/ rec.turns[t].unscoped > 0
                 \/ \E st \in Unnamed(t) : rendered[st] > 0
    <3>1. PICK W, V : W = StreamsOf(rec, t) /\ V = Named(t)
      OBVIOUS
    <3>2. W \ V = Unnamed(t) /\ V \in SUBSET W /\ W \in SUBSET Stream
      BY <3>1 DEF StreamsOf
    <3>3. IsFiniteSet(W) /\ IsFiniteSet(V) /\ (\A x \in W : rendered[x] \in Nat)
      BY <2>1, <3>2, TurnsAssumption, FS_Subset
    <3>4. \A x \in V : rendered[x] \in Nat
      BY <3>2, <3>3
    <3>5. PICK sv \in Nat, sw \in Nat :
            sv = SumFunctionOnSet(rendered, V) /\ sw = SumFunctionOnSet(rendered, W)
      BY <3>3, <3>4, SumFacts
    <3>6. sv <= sw /\ (sv < sw <=> \E x \in W \ V : rendered[x] > 0)
      BY <3>2, <3>3, <3>5, SumOfAPart
    <3>7. rec.turns[t].audio = rec.turns[t].unscoped + sw /\ rec.turns[t].unscoped \in Nat
      BY <2>1, <3>1, <3>5, KnownFacts DEF Balanced, TurnRec
    <3>8. rec.turns[t].audio > sv <=> rec.turns[t].unscoped > 0 \/ sv < sw
      BY ONLY <3>5, <3>6, <3>7
    <3>9. QED BY <3>1, <3>2, <3>5, <3>6, <3>8
  <2>3. \A st \in Stream : rec.streams[st].owner # NoTurn => rec.streams[st].owner \in 1..Len(rec.turns)
    BY <2>1, KnownFacts DEF NoTurn
  <2>4. NoTurn \notin 1..Len(rec.turns)
    BY DEF NoTurn
  <2>5. Guessed(rec, rendered) <=>
          \E t \in 1..Len(rec.turns) : \/ rec.turns[t].unscoped > 0
                                       \/ \E st \in Unnamed(t) : rendered[st] > 0
    BY <2>3, <2>4 DEF Guessed
  <2>6. rec.inferred <=> Guessed(rec, rendered)
    BY <2>1 DEF Balanced
  <2>7. rec.inferred <=>
          \E t \in DOMAIN rec.turns : rec.turns[t].audio > SumFunctionOnSet(rendered, Named(t))
    BY <2>1, <2>2, <2>5, <2>6
  <2>8. QED BY <2>7 DEF OwnershipIsTold
<1>2. QED BY <1>1, RecorderInvariant, PTL

\* The frames of turn u that no span of it holds.
Missing(u) ==
  Above(u.audio - u.unscoped, IF u.snapshot THEN u.played - u.unscopedThen ELSE 0)

Unpublished(r) == SumOver(r, Missing) + SumFunction([st \in Stream |-> r.streams[st].held])

\* What was published of a turn, what may be its tail and what is missing are no more
\* than its audio: a guessed frame is either in the span or in the tail, and excuses
\* none that was named.
LEMMA TurnAddsUp ==
  ASSUME NEW u \in TurnRec, Weighed(u)
  PROVE  /\ u.played \in Nat /\ Residual(u) \in Nat /\ Missing(u) \in Nat /\ u.audio \in Nat
         /\ u.played + Residual(u) + Missing(u) <= u.audio
<1>1. /\ u.audio \in Nat /\ u.unscoped \in Nat /\ u.played \in Nat /\ u.unscopedThen \in Nat
      /\ u.snapshot \in BOOLEAN
  BY DEF TurnRec
<1>2. /\ u.unscoped <= u.audio /\ u.played <= u.audio
      /\ u.unscopedThen <= u.unscoped /\ u.unscopedThen <= u.played
      /\ ~u.snapshot => u.played = 0
  BY DEF Weighed
<1>3. /\ Residual(u) \in Nat
      /\ Residual(u) <= u.audio - u.played /\ Residual(u) <= u.unscoped - u.unscopedThen
  BY <1>1, <1>2 DEF Residual, AtMost, Above
<1>4. CASE u.snapshot
  <2>1. Missing(u) = Above(u.audio - u.unscoped, u.played - u.unscopedThen)
    BY <1>4 DEF Missing
  <2>2. QED BY <1>1, <1>2, <1>3, <2>1 DEF Above
<1>5. CASE ~u.snapshot
  <2>1. Missing(u) = Above(u.audio - u.unscoped, 0)
    BY <1>5 DEF Missing
  <2>2. QED BY <1>1, <1>2, <1>3, <1>5, <2>1 DEF Above
<1>6. QED BY <1>4, <1>5

\* What is missing of a call that ends is no more than what the audit misses.
LEMMA AuditFinds ==
  ASSUME NEW p, Known(p), NEW w, Tallies(p, w, total), NEW q, q.turns = p.turns
  PROVE  Unpublished(p) > Tolerance => AuditCoverage(q)
<1>1. PICK W : W = 1..Len(p.turns)
  OBVIOUS
<1>2. /\ DOMAIN p.turns = W /\ IsFiniteSet(W) /\ total \in Nat
      /\ \A t \in W : p.turns[t] \in TurnRec /\ Weighed(p.turns[t])
  BY <1>1, KnownFacts, HeardIs DEF Tallies, Balanced
<1>3. PICK a, b, c, d :
        /\ a = [t \in W |-> p.turns[t].played] /\ b = [t \in W |-> Residual(p.turns[t])]
        /\ c = [t \in W |-> Missing(p.turns[t])] /\ d = [t \in W |-> p.turns[t].audio]
  OBVIOUS
<1>4. Within(a, b, c, d, W)
  BY <1>2, <1>3, TurnAddsUp DEF Within
<1>5. PICK sa \in Nat, sb \in Nat, sc \in Nat, sd \in Nat :
        /\ sa = SumFunctionOnSet(a, W) /\ sb = SumFunctionOnSet(b, W)
        /\ sc = SumFunctionOnSet(c, W) /\ sd = SumFunctionOnSet(d, W)
  <2>1. /\ \A x \in W : a[x] \in Nat
        /\ \A x \in W : b[x] \in Nat
        /\ \A x \in W : c[x] \in Nat
        /\ \A x \in W : d[x] \in Nat
    BY <1>4 DEF Within
  <2>2. QED BY <1>2, <2>1, SumFacts
<1>6. sa + sb + sc <= sd
  BY <1>2, <1>4, <1>5, SumsWithin
<1>7. DOMAIN a = W /\ DOMAIN b = W /\ DOMAIN c = W
  BY <1>3
<1>8. SumOver(q, LAMBDA turn : turn.played) = sa /\ SumOver(q, Residual) = sb /\ SumOver(p, Missing) = sc
  <2>1. /\ SumOver(q, LAMBDA turn : turn.played) = SumFunction(a)
        /\ SumOver(q, Residual) = SumFunction(b)
        /\ SumOver(p, Missing) = SumFunction(c)
    BY <1>2, <1>3 DEF SumOver
  <2>2. QED BY <1>5, <1>7, <2>1 DEF SumFunction
<1>9. PICK held \in Nat : held = HeldOf(p) /\ Unpublished(p) = sc + held /\ sd + held <= total
  <2>1. HeldOf(p) \in Nat /\ Heard(p) = AudioOf(p) + HeldOf(p) /\ Heard(p) <= total
    BY HeardIs DEF Tallies
  <2>2. AudioOf(p) = sd
    BY <1>1, <1>3, <1>5 DEF AudioOf, AudioIn
  <2>3. SumFunction([st \in Stream |-> p.streams[st].held]) = HeldOf(p)
    <3>1. DOMAIN HeldIn(p) = Stream
      BY DEF HeldIn
    <3>2. QED BY <3>1 DEF SumFunction, HeldOf, HeldIn
  <2>4. Unpublished(p) = sc + HeldOf(p)
    BY <1>8, <2>3 DEF Unpublished
  <2>5. QED BY <2>1, <2>2, <2>4
<1>10. AtMost(sb, TailCap) \in Nat /\ AtMost(sb, TailCap) <= sb
  BY <1>5, TurnsAssumption DEF AtMost
<1>11. ASSUME sc + held > Tolerance PROVE Above(total, sa + AtMost(sb, TailCap)) > Tolerance
  BY <1>2, <1>5, <1>6, <1>9, <1>10, <1>11, TurnsAssumption DEF Above
<1>12. QED BY <1>8, <1>9, <1>11 DEF AuditCoverage

\* Nothing happens after the call.
LEMMA OnlyWhileLive == Next => call = "live" /\ (Finish \/ call' = call)
<1> SUFFICES ASSUME Next PROVE call = "live" /\ (Finish \/ call' = call)
  OBVIOUS
<1>1. ASSUME UserSpeaking \/ InterimTranscript \/ FinalTranscript \/ UserCommitted
      PROVE  call = "live" /\ call' = call
  BY <1>1 DEF UserSpeaking, InterimTranscript, FinalTranscript, UserCommitted, Becomes
<1>2. ASSUME NEW s \in Speech,
             \/ LoopSlice(s) \/ AssistantItem(s)
             \/ \E src \in Sources :
                  \/ RegisteredSpeech(s, src) \/ AnswerPending(s, src)
                  \/ AdoptCollecting(s, src) \/ DeferContested(s, src)
                  \/ Preempt(s, src) \/ Unprompted(s, src)
             \/ \E stage \in Stages : NamedMetric(stage, s)
      PROVE  call = "live" /\ call' = call
  BY <1>2, SMTT(60) DEF LoopSlice, AssistantItem, RegisteredSpeech, AnswerPending, AdoptCollecting,
              DeferContested, Preempt, Unprompted, NamedMetric, Announced, Becomes
<1>3. ASSUME NEW st \in Stream,
             \/ \E sid \in Speech \cup {NoSpeech} : OpenOutputStream(st, sid)
             \/ TapOutputFrame(st) \/ TapOutputText(st) \/ CloseOutputStream(st)
      PROVE  call = "live" /\ call' = call
  BY <1>3 DEF OpenOutputStream, TapOutputFrame, TapOutputText, CloseOutputStream, Becomes
<1>4. ASSUME \/ TapWithoutStream \/ ToolsExecuted
             \/ \E stage \in Stages : UnnamedMetric(stage)
             \/ \E stages \in {{"stt"}, {"tts"}, {"stt", "tts"}} : SessionError(stages)
      PROVE  call = "live" /\ call' = call
  BY <1>4 DEF TapWithoutStream, ToolsExecuted, UnnamedMetric, SessionError, Becomes
<1>5. CASE Finish
  BY <1>5 DEF Finish, Becomes
<1>6. QED BY <1>1, <1>2, <1>3, <1>4, <1>5 DEF Next

LEMMA EndTellsLoss ==
  ASSUME RecorderInv, BooksInv, Finish PROVE ProvedLossIsReported'
<1>1. PICK q, p : q = FinalizeOpenSpans(rec) /\ p = rec'
  OBVIOUS
<1>2. /\ p = [FreshRecorder EXCEPT !.turns = q.turns, !.turnOf = q.turnOf,
                                    !.streams = q.streams, !.inferred = q.inferred]
      /\ gap' = AuditCoverage(q) /\ total' = total
  BY <1>1 DEF Finish, Becomes
<1>3. Known(p) /\ q.turns = p.turns
  <2>1. Sound(rec) /\ q = FinalizeOpenSpans(rec)
    BY <1>1, InvFacts
  <2>2. p = [FreshRecorder EXCEPT !.turns = q.turns, !.turnOf = q.turnOf,
                                  !.streams = q.streams, !.inferred = q.inferred]
    BY <1>2
  <2>3. Sound(p) /\ p.turns = q.turns
    BY ONLY <2>1, <2>2, FinishLeaves
  <2>4. QED BY <2>3 DEF Sound
<1>4. PICK w : w = rendered' /\ Tallies(p, w, total)
  BY <1>1, <1>2, FinishLasts DEF BooksInv, Lasts, BooksKept
<1>5. Unpublished(p) > Tolerance => AuditCoverage(q)
  BY <1>3, <1>4, AuditFinds
<1>6. UnpublishedFrames' = Unpublished(p)
  BY <1>1 DEF UnpublishedFrames, Unpublished, Missing, SumOver
<1>7. QED BY <1>2, <1>5, <1>6 DEF ProvedLossIsReported

\* More agent audio that no published span holds than the tolerance is never passed
\* over at the end of a call: frames that were placed by timing excuse themselves and
\* no others (_audit_coverage, _residual_agent_audio).
THEOREM LossIsNotPassedOver == Spec => []ProvedLossIsReported
<1>1. Init => ProvedLossIsReported
  BY DEF Init, ProvedLossIsReported
<1>2. ASSUME RecorderInv, BooksInv, ProvedLossIsReported, [Next]_vars
      PROVE  ProvedLossIsReported'
  <2>1. CASE Finish
    BY <1>2, <2>1, EndTellsLoss
  <2>2. CASE Next /\ ~Finish
    BY <2>2, OnlyWhileLive DEF ProvedLossIsReported
  <2>3. CASE UNCHANGED vars
    <3>1. rec' = rec /\ call' = call /\ gap' = gap
      BY <2>3 DEF vars
    <3>2. UnpublishedFrames' = UnpublishedFrames
      BY <3>1 DEF UnpublishedFrames, SumOver
    <3>3. QED BY <1>2, <3>1, <3>2 DEF ProvedLossIsReported
  <2>4. QED BY <1>2, <2>1, <2>2, <2>3
<1>3. QED BY <1>1, <1>2, RecorderInvariant, PTL DEF Spec
===============================================================================
