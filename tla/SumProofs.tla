----------------------------- MODULE SumProofs -----------------------------
(***************************************************************************)
(* Facts about the sums of the modules: SumFunctionOnSet(f, S), what a     *)
(* function f adds up to over a finite set S.                              *)
(*                                                                         *)
(* Every induction over S is a proof by smallest counterexample: lemma     *)
(* Smallest gives one in a set of subsets of S.                            *)
(***************************************************************************)
EXTENDS Integers, Functions, FiniteSets, FiniteSetTheorems, TLAPS

(* A set of subsets of a finite set has a smallest element.                *)
LEMMA Smallest ==
    ASSUME NEW S, IsFiniteSet(S), NEW C \in SUBSET (SUBSET S), C # {}
    PROVE  \E T \in C : \A U \in C : U \subseteq T => U = T
  <1>1. IsWellFoundedOn(StrictSubsetOrdering(S), SUBSET S)
    BY FS_StrictSubsetOrderingWellFounded, FS_FiniteSubsetsOfFinite
  <1>2. PICK T \in C : \A U \in C : ~(<<U, T>> \in StrictSubsetOrdering(S))
    BY <1>1, WFMin
  <1> QED
    BY <1>2 DEF StrictSubsetOrdering

-----------------------------------------------------------------------------
(* The recursion behind a sum is well defined.                             *)

(* The element that the recursion takes out of T.                          *)
Picked(T) == CHOOSE x \in T : TRUE

(* g adds up f on every subset of S.                                       *)
Adds(f, S, g) ==
    g = [T \in SUBSET S |->
            IF T = {} THEN 0 ELSE f[Picked(T)] + g[T \ {Picked(T)}]]

LEMMA PickedIn == ASSUME NEW T, T # {} PROVE Picked(T) \in T
  BY DEF Picked

LEMMA AddsAt ==
    ASSUME NEW f, NEW S, NEW g, Adds(f, S, g)
    PROVE  /\ g[{}] = 0
           /\ \A T \in SUBSET S : T # {} => g[T] = f[Picked(T)] + g[T \ {Picked(T)}]
  BY DEF Adds

LEMMA AddsUnique ==
    ASSUME NEW f, NEW S, IsFiniteSet(S), NEW A \in SUBSET S, NEW B \in SUBSET S,
           NEW g, Adds(f, A, g), NEW h, Adds(f, B, h), NEW T \in SUBSET A, T \subseteq B
    PROVE  g[T] = h[T]
  <1> DEFINE C == {U \in SUBSET S : U \subseteq A /\ U \subseteq B /\ g[U] # h[U]}
  <1>1. SUFFICES ASSUME C # {} PROVE FALSE
    OBVIOUS
  <1>2. C \in SUBSET (SUBSET S)
    OBVIOUS
  <1>3. \E U \in C : \A V \in C : V \subseteq U => V = U
    <2> HIDE DEF C
    <2> QED
      BY <1>1, <1>2, Smallest
  <1>4. PICK U \in C : \A V \in C : V \subseteq U => V = U
    BY <1>3
  <1>5. U \in SUBSET A /\ U \in SUBSET B /\ g[U] # h[U]
    OBVIOUS
  <1>6. CASE U = {}
    BY <1>5, <1>6, AddsAt
  <1>7. CASE U # {}
    <2> DEFINE V == U \ {Picked(U)}
    <2>1. Picked(U) \in U
      BY <1>7, PickedIn
    <2>2. V \notin C /\ V \in SUBSET S /\ V \subseteq A /\ V \subseteq B
      BY <1>4, <2>1
    <2>3. g[V] = h[V]
      BY <2>2
    <2>4. g[U] = f[Picked(U)] + g[V]
      <3>1. \A W \in SUBSET A : W # {} => g[W] = f[Picked(W)] + g[W \ {Picked(W)}]
        BY AddsAt
      <3> QED
        BY <1>5, <1>7, <3>1
    <2>5. h[U] = f[Picked(U)] + h[V]
      <3>1. \A W \in SUBSET B : W # {} => h[W] = f[Picked(W)] + h[W \ {Picked(W)}]
        BY AddsAt
      <3> QED
        BY <1>5, <1>7, <3>1
    <2> QED
      BY <1>5, <2>3, <2>4, <2>5
  <1> QED
    BY <1>6, <1>7

LEMMA AddsExists ==
    ASSUME NEW f, NEW S, IsFiniteSet(S)
    PROVE  \E g : Adds(f, S, g)
  <1> DEFINE C == {U \in SUBSET S : ~ \E g : Adds(f, U, g)}
  <1>1. SUFFICES ASSUME C # {} PROVE FALSE
    OBVIOUS
  <1>2. C \in SUBSET (SUBSET S)
    OBVIOUS
  <1>3. \E T \in C : \A V \in C : V \subseteq T => V = T
    <2> HIDE DEF C
    <2> QED
      BY <1>1, <1>2, Smallest
  <1>4. PICK T \in C : \A V \in C : V \subseteq T => V = T
    BY <1>3
  <1> DEFINE G(U) == CHOOSE g : Adds(f, U, g)
             R(U) == U \ {Picked(U)}
             g == [U \in SUBSET T |->
                     IF U = {} THEN 0 ELSE f[Picked(U)] + G(R(U))[R(U)]]
  <1>5. ASSUME NEW U \in SUBSET T, U # T PROVE Adds(f, U, G(U))
    <2>1. \E h : Adds(f, U, h)
      BY <1>4, <1>5
    <2> QED
      BY <2>1
  <1>6. ASSUME NEW U \in SUBSET T, U # {}
        PROVE  R(U) \in SUBSET T /\ R(U) # T /\ R(U) \in SUBSET U
    BY <1>6, PickedIn
  <1>7. T \in SUBSET S
    OBVIOUS
  <1>8. ASSUME NEW U \in SUBSET T, U # T, U # {}
        PROVE  G(U)[U] = f[Picked(U)] + G(R(U))[R(U)]
    <2>1. Adds(f, U, G(U)) /\ Adds(f, R(U), G(R(U)))
      BY <1>5, <1>6, <1>8
    <2>2. R(U) \in SUBSET U /\ R(U) \in SUBSET S /\ U \in SUBSET S
      BY <1>6, <1>7, <1>8
    <2> HIDE DEF G
    <2>3. G(U)[U] = f[Picked(U)] + G(U)[R(U)]
      BY <1>8, <2>1, AddsAt
    <2> HIDE DEF R
    <2>4. \A g1, g2 : Adds(f, U, g1) /\ Adds(f, R(U), g2) => g1[R(U)] = g2[R(U)]
      BY <2>2, AddsUnique
    <2>5. G(U)[R(U)] = G(R(U))[R(U)]
      BY <2>1, <2>4
    <2> QED
      BY <2>3, <2>5
  <1>9. ASSUME NEW U \in SUBSET T, U # T PROVE g[U] = G(U)[U]
    <2>1. CASE U = {}
      <3>1. Adds(f, U, G(U))
        BY <1>5, <1>9
      <3> HIDE DEF G
      <3> QED
        BY <2>1, <3>1, AddsAt
    <2>2. CASE U # {}
      <3>1. G(U)[U] = f[Picked(U)] + G(R(U))[R(U)]
        BY <1>8, <1>9, <2>2
      <3> HIDE DEF G, R
      <3> QED
        BY <2>2, <3>1
    <2> QED
      BY <2>1, <2>2
  <1>10. ASSUME NEW U \in SUBSET T
         PROVE  g[U] = IF U = {} THEN 0 ELSE f[Picked(U)] + g[U \ {Picked(U)}]
    <2>1. CASE U = {}
      BY <2>1
    <2>2. CASE U # {}
      <3>1. g[R(U)] = G(R(U))[R(U)]
        <4>1. R(U) \in SUBSET T /\ R(U) # T
          BY <1>6, <2>2
        <4> HIDE DEF R, G, g
        <4> QED
          BY <1>9, <4>1
      <3>2. g[U] = f[Picked(U)] + G(R(U))[R(U)]
        <4> HIDE DEF G, R
        <4> QED
          BY <2>2
      <3> HIDE DEF G, g
      <3> QED
        BY <2>2, <3>1, <3>2
    <2> QED
      BY <2>1, <2>2
  <1>11. g = [U \in SUBSET T |-> g[U]]
    OBVIOUS
  <1>12. Adds(f, T, g)
    <2> HIDE DEF g
    <2> QED
      BY <1>10, <1>11 DEF Adds
  <1> QED
    BY <1>12

(* The equation of the recursion.                                          *)
LEMMA SumIs ==
    ASSUME NEW f, NEW S, IsFiniteSet(S)
    PROVE  \E g : Adds(f, S, g) /\ \A T \in SUBSET S : SumFunctionOnSet(f, T) = g[T]
  <1> DEFINE G(T) == CHOOSE g : Adds(f, T, g)
  <1>1. \A T : SumFunctionOnSet(f, T) = G(T)[T]
    BY DEF SumFunctionOnSet, FoldFunctionOnSet, MapThenFoldSet, Adds, Picked
  <1>2. \A T \in SUBSET S : Adds(f, T, G(T))
    <2> TAKE T \in SUBSET S
    <2>1. \E g : Adds(f, T, g)
      BY AddsExists, FS_Subset
    <2> QED
      BY <2>1
  <1> HIDE DEF G
  <1>3. \A T \in SUBSET S : G(T)[T] = G(S)[T]
    BY <1>2, AddsUnique
  <1> QED
    BY <1>1, <1>2, <1>3

LEMMA SumEquation ==
    ASSUME NEW f, NEW S, IsFiniteSet(S)
    PROVE  /\ SumFunctionOnSet(f, {}) = 0
           /\ S # {} => /\ Picked(S) \in S
                        /\ SumFunctionOnSet(f, S)
                             = f[Picked(S)] + SumFunctionOnSet(f, S \ {Picked(S)})
  BY SumIs, AddsAt, PickedIn

-----------------------------------------------------------------------------
(* What sums are like.  Each induction looks at a smallest subset T of S   *)
(* that is not as claimed.                                                 *)

LEMMA SumNone == ASSUME NEW f PROVE SumFunctionOnSet(f, {}) = 0
  BY SumEquation, FS_EmptySet

LEMMA SumType ==
    ASSUME NEW S, IsFiniteSet(S), NEW f, \A x \in S : f[x] \in Int
    PROVE  SumFunctionOnSet(f, S) \in Int
  <1> DEFINE C == {T \in SUBSET S : SumFunctionOnSet(f, T) \notin Int}
  <1>1. SUFFICES ASSUME C # {} PROVE FALSE
    OBVIOUS
  <1>2. C \in SUBSET (SUBSET S)
    OBVIOUS
  <1>3. \E T \in C : \A V \in C : V \subseteq T => V = T
    <2> HIDE DEF C
    <2> QED
      BY <1>1, <1>2, Smallest
  <1>4. PICK T \in C : \A V \in C : V \subseteq T => V = T
    BY <1>3
  <1>5. IsFiniteSet(T)
    BY FS_Subset
  <1>6. T # {}
    <2>1. SumFunctionOnSet(f, {}) \in Int
      BY SumNone
    <2> QED
      BY <2>1
  <1>7. /\ Picked(T) \in T
        /\ SumFunctionOnSet(f, T) = f[Picked(T)] + SumFunctionOnSet(f, T \ {Picked(T)})
    BY <1>5, <1>6, SumEquation
  <1>8. SumFunctionOnSet(f, T \ {Picked(T)}) \in Int
    BY <1>4, <1>7
  <1> QED
    BY <1>7, <1>8

(* Any element can be taken out.                                           *)
LEMMA SumRemove ==
    ASSUME NEW S, IsFiniteSet(S), NEW f, \A x \in S : f[x] \in Int, NEW x \in S
    PROVE  SumFunctionOnSet(f, S) = f[x] + SumFunctionOnSet(f, S \ {x})
  <1> DEFINE Sum(T) == SumFunctionOnSet(f, T)
             C == {T \in SUBSET S : \E y \in T : Sum(T) # f[y] + Sum(T \ {y})}
  <1>1. SUFFICES ASSUME C # {} PROVE FALSE
    OBVIOUS
  <1>2. C \in SUBSET (SUBSET S)
    OBVIOUS
  <1>3. \E T \in C : \A V \in C : V \subseteq T => V = T
    <2> HIDE DEF C
    <2> QED
      BY <1>1, <1>2, Smallest
  <1>4. PICK T \in C : \A V \in C : V \subseteq T => V = T
    BY <1>3
  <1>5. PICK y \in T : Sum(T) # f[y] + Sum(T \ {y})
    OBVIOUS
  <1>6. \A V \in SUBSET S : Sum(V) \in Int
    BY SumType, FS_Subset
  <1> DEFINE p == Picked(T)
             U == (T \ {y}) \ {p}
  <1>7. p \in T /\ Sum(T) = f[p] + Sum(T \ {p})
    BY SumEquation, FS_Subset
  <1>8. p # y /\ p \in T \ {y} /\ y \in T \ {p} /\ (T \ {p}) \ {y} = U
    BY <1>5, <1>7
  <1>9. Sum(T \ {p}) = f[y] + Sum(U) /\ Sum(T \ {y}) = f[p] + Sum(U)
    <2>1. T \ {p} \notin C /\ T \ {y} \notin C
      BY <1>4, <1>7, <1>8
    <2>2. T \ {p} \in SUBSET S /\ T \ {y} \in SUBSET S
      OBVIOUS
    <2> HIDE DEF Sum, U, p
    <2> QED
      BY <1>8, <2>1, <2>2 DEF U
  <1>10. f[y] \in Int /\ f[p] \in Int /\ Sum(U) \in Int
    BY <1>6, <1>7
  <1> HIDE DEF Sum, U, p
  <1> QED
    BY <1>5, <1>7, <1>9, <1>10, SMT

(* Sums of numbers compare as their summands do, and add up as they do.    *)
LEMMA SumScaled ==
    ASSUME NEW S, IsFiniteSet(S), NEW a \in Int, NEW b \in Int,
           NEW f, NEW g, \A x \in S : f[x] \in Int /\ g[x] \in Int /\ a * f[x] <= b * g[x]
    PROVE  a * SumFunctionOnSet(f, S) <= b * SumFunctionOnSet(g, S)
  <1> DEFINE F(T) == SumFunctionOnSet(f, T)
             G(T) == SumFunctionOnSet(g, T)
             C == {T \in SUBSET S : ~(a * F(T) <= b * G(T))}
  <1>1. SUFFICES ASSUME C # {} PROVE FALSE
    OBVIOUS
  <1>2. C \in SUBSET (SUBSET S)
    OBVIOUS
  <1>3. \E T \in C : \A V \in C : V \subseteq T => V = T
    <2> HIDE DEF C
    <2> QED
      BY <1>1, <1>2, Smallest
  <1>4. PICK T \in C : \A V \in C : V \subseteq T => V = T
    BY <1>3
  <1>5. F({}) = 0 /\ G({}) = 0
    BY SumNone
  <1>6. a * 0 <= b * 0
    BY SMT
  <1>7. PICK x \in T : TRUE
    <2>1. T # {}
      <3> HIDE DEF F, G
      <3> QED
        BY <1>5, <1>6 DEF C
    <2> QED
      BY <2>1
  <1> DEFINE U == T \ {x}
  <1>8. F(T) = f[x] + F(U) /\ G(T) = g[x] + G(U) /\ F(U) \in Int /\ G(U) \in Int
    BY SumRemove, SumType, FS_Subset
  <1>9. a * F(U) <= b * G(U)
    BY <1>4, <1>7
  <1>10. f[x] \in Int /\ g[x] \in Int /\ a * f[x] <= b * g[x]
    BY <1>7
  <1> HIDE DEF F, G, U
  <1>11. a * F(T) = a * f[x] + a * F(U) /\ b * G(T) = b * g[x] + b * G(U)
    BY <1>8, <1>10, SMT
  <1>12. a * f[x] \in Int /\ a * F(U) \in Int /\ b * g[x] \in Int /\ b * G(U) \in Int
    BY <1>8, <1>10, SMT
  <1>13. a * F(T) <= b * G(T)
    BY <1>9, <1>10, <1>11, <1>12, SMT
  <1> QED
    BY <1>13

LEMMA SumPlus ==
    ASSUME NEW S, IsFiniteSet(S), NEW f, NEW g, NEW h,
           \A x \in S : f[x] \in Int /\ g[x] \in Int /\ h[x] = f[x] + g[x]
    PROVE  SumFunctionOnSet(h, S) = SumFunctionOnSet(f, S) + SumFunctionOnSet(g, S)
  <1> DEFINE F(T) == SumFunctionOnSet(f, T)
             G(T) == SumFunctionOnSet(g, T)
             H(T) == SumFunctionOnSet(h, T)
             C == {T \in SUBSET S : H(T) # F(T) + G(T)}
  <1>1. SUFFICES ASSUME C # {} PROVE FALSE
    OBVIOUS
  <1>2. C \in SUBSET (SUBSET S)
    OBVIOUS
  <1>3. \E T \in C : \A V \in C : V \subseteq T => V = T
    <2> HIDE DEF C
    <2> QED
      BY <1>1, <1>2, Smallest
  <1>4. PICK T \in C : \A V \in C : V \subseteq T => V = T
    BY <1>3
  <1>5. F({}) = 0 /\ G({}) = 0 /\ H({}) = 0
    BY SumNone
  <1>6. PICK x \in T : TRUE
    <2>1. T # {}
      <3> HIDE DEF F, G, H
      <3>1. H({}) = F({}) + G({})
        BY <1>5, SMT
      <3> QED
        BY <3>1 DEF C
    <2> QED
      BY <2>1
  <1> DEFINE U == T \ {x}
  <1>7. \A y \in S : h[y] \in Int
    OBVIOUS
  <1>8. /\ F(T) = f[x] + F(U) /\ G(T) = g[x] + G(U) /\ H(T) = h[x] + H(U)
        /\ F(U) \in Int /\ G(U) \in Int /\ H(U) \in Int
    BY <1>7, SumRemove, SumType, FS_Subset
  <1>9. H(U) = F(U) + G(U)
    BY <1>4, <1>6
  <1>10. f[x] \in Int /\ g[x] \in Int /\ h[x] = f[x] + g[x]
    BY <1>6
  <1> HIDE DEF F, G, H, U
  <1>11. H(T) = F(T) + G(T)
    BY <1>8, <1>9, <1>10, SMT
  <1> QED
    BY <1>11

(* A sum is that over a subset and that over the rest.                     *)
LEMMA SumSplit ==
    ASSUME NEW S, IsFiniteSet(S), NEW f, \A x \in S : f[x] \in Int, NEW P \in SUBSET S
    PROVE  SumFunctionOnSet(f, S) = SumFunctionOnSet(f, P) + SumFunctionOnSet(f, S \ P)
  <1> DEFINE F(T) == SumFunctionOnSet(f, T)
             Q == S \ P
             C == {T \in SUBSET P : F(Q \cup T) # F(Q) + F(T)}
  <1>0. IsFiniteSet(P) /\ IsFiniteSet(Q) /\ F(Q) \in Int /\ F(P) \in Int
    BY FS_Subset, SumType
  <1>1. ASSUME C # {} PROVE FALSE
    <2>2. C \in SUBSET (SUBSET P)
      OBVIOUS
    <2>3. \E T \in C : \A V \in C : V \subseteq T => V = T
      <3> HIDE DEF C
      <3> QED
        BY <1>0, <1>1, <2>2, Smallest
    <2>4. PICK T \in C : \A V \in C : V \subseteq T => V = T
      BY <2>3
    <2>5. F({}) = 0 /\ Q \cup {} = Q
      BY SumNone
    <2>6. PICK x \in T : TRUE
      <3>1. T # {}
        <4> HIDE DEF F, Q
        <4>1. F(Q \cup {}) = F(Q) + F({})
          BY <1>0, <2>5, SMT
        <4> QED
          BY <4>1 DEF C
      <3> QED
        BY <3>1
    <2> DEFINE U == T \ {x}
    <2>7. IsFiniteSet(T) /\ IsFiniteSet(U) /\ IsFiniteSet(Q \cup T) /\ x \in Q \cup T
      BY FS_Subset
    <2>8. (Q \cup T) \ {x} = Q \cup U
      OBVIOUS
    <2>9. F(T) = f[x] + F(U) /\ F(U) \in Int
      BY <2>7, SumRemove, SumType
    <2>10. F(Q \cup T) = f[x] + F(Q \cup U)
      <3>1. \A y \in Q \cup T : f[y] \in Int
        OBVIOUS
      <3>2. F(Q \cup T) = f[x] + F((Q \cup T) \ {x})
        <4> HIDE DEF Q, U, C
        <4> QED
          BY <3>1, <2>7, SumRemove
      <3> HIDE DEF Q, U, C, F
      <3> QED
        BY <2>8, <3>2
    <2>11. F(Q \cup U) = F(Q) + F(U)
      <3>1. U \in SUBSET P /\ U \notin C
        BY <2>4, <2>6
      <3> HIDE DEF F, Q, U
      <3> QED
        BY <3>1 DEF C
    <2>12. f[x] \in Int /\ F(Q \cup T) # F(Q) + F(T)
      BY <2>6
    <2> HIDE DEF F, U, Q
    <2> QED
      BY <1>0, <2>9, <2>10, <2>11, <2>12, SMT
  <1>2. Q \cup P = S
    OBVIOUS
  <1>3. F(Q \cup P) = F(Q) + F(P)
    <2> HIDE DEF F, Q
    <2> QED
      BY <1>1 DEF C
  <1>4. F(S) = F(Q) + F(P)
    <2> HIDE DEF F, Q
    <2> QED
      BY <1>2, <1>3
  <1>5. F(S) = F(P) + F(Q)
    <2> HIDE DEF F, Q
    <2> QED
      BY <1>0, <1>4, SMT
  <1> QED
    BY <1>5

(* What follows of functions that are never negative, that agree, or that  *)
(* agree but for one element.                                              *)
LEMMA SumAtMost ==
    ASSUME NEW S, IsFiniteSet(S), NEW f, NEW g,
           \A x \in S : f[x] \in Int /\ g[x] \in Int /\ f[x] <= g[x]
    PROVE  SumFunctionOnSet(f, S) <= SumFunctionOnSet(g, S)
  <1>1. \A x \in S : f[x] \in Int /\ g[x] \in Int /\ 1 * f[x] <= 1 * g[x]
    BY SMT
  <1>2. 1 * SumFunctionOnSet(f, S) <= 1 * SumFunctionOnSet(g, S)
    BY <1>1, SumScaled
  <1>3. SumFunctionOnSet(f, S) \in Int /\ SumFunctionOnSet(g, S) \in Int
    BY SumType
  <1> QED
    BY <1>2, <1>3, SMT

LEMMA SumSame ==
    ASSUME NEW S, IsFiniteSet(S), NEW f, NEW g, \A x \in S : f[x] \in Int /\ g[x] = f[x]
    PROVE  SumFunctionOnSet(f, S) = SumFunctionOnSet(g, S)
  <1>1. \A x \in S : f[x] \in Int /\ g[x] \in Int /\ f[x] <= g[x] /\ g[x] <= f[x]
    BY SMT
  <1>2. SumFunctionOnSet(f, S) \in Int /\ SumFunctionOnSet(g, S) \in Int
    BY <1>1, SumType
  <1>3. /\ SumFunctionOnSet(f, S) <= SumFunctionOnSet(g, S)
        /\ SumFunctionOnSet(g, S) <= SumFunctionOnSet(f, S)
    BY <1>1, SumAtMost
  <1> QED
    BY <1>2, <1>3, SMT

LEMMA SumZero ==
    ASSUME NEW S, IsFiniteSet(S), NEW f, \A x \in S : f[x] = 0
    PROVE  SumFunctionOnSet(f, S) = 0
  <1>1. \A x \in S : f[x] \in Int /\ f[x] \in Int /\ f[x] = f[x] + f[x]
    OBVIOUS
  <1>2. SumFunctionOnSet(f, S) \in Int
    BY <1>1, SumType
  <1>3. SumFunctionOnSet(f, S) = SumFunctionOnSet(f, S) + SumFunctionOnSet(f, S)
    BY <1>1, SumPlus
  <1> DEFINE n == SumFunctionOnSet(f, S)
  <1>4. n \in Int /\ n = n + n
    BY <1>2, <1>3
  <1> HIDE DEF n
  <1>5. n = 0
    BY <1>4, SMT
  <1> QED
    BY <1>5 DEF n

LEMMA SumNat ==
    ASSUME NEW S, IsFiniteSet(S), NEW f, \A x \in S : f[x] \in Nat
    PROVE  SumFunctionOnSet(f, S) \in Nat
  <1> DEFINE z == [x \in S |-> 0]
  <1>1. \A x \in S : z[x] \in Int /\ f[x] \in Int /\ z[x] <= f[x]
    BY SMT
  <1>2. SumFunctionOnSet(z, S) = 0
    BY SumZero
  <1> HIDE DEF z
  <1>3. SumFunctionOnSet(z, S) <= SumFunctionOnSet(f, S)
    BY <1>1, SumAtMost
  <1>4. SumFunctionOnSet(f, S) \in Int
    BY <1>1, SumType
  <1> QED
    BY <1>2, <1>3, <1>4, SMT

(* No summand, and no part of a sum, exceeds it.                           *)
LEMMA SumMember ==
    ASSUME NEW S, IsFiniteSet(S), NEW f, \A x \in S : f[x] \in Nat, NEW x \in S
    PROVE  f[x] <= SumFunctionOnSet(f, S)
  <1>1. \A y \in S : f[y] \in Int
    OBVIOUS
  <1>2. SumFunctionOnSet(f, S) = f[x] + SumFunctionOnSet(f, S \ {x})
    BY <1>1, SumRemove
  <1>3. SumFunctionOnSet(f, S \ {x}) \in Nat
    BY SumNat, FS_Subset
  <1> QED
    BY <1>2, <1>3, SMT

LEMMA SumPart ==
    ASSUME NEW S, IsFiniteSet(S), NEW f, \A x \in S : f[x] \in Nat, NEW P \in SUBSET S
    PROVE  /\ SumFunctionOnSet(f, P) \in Nat
           /\ SumFunctionOnSet(f, P) <= SumFunctionOnSet(f, S)
  <1>1. \A y \in S : f[y] \in Int
    OBVIOUS
  <1>2. SumFunctionOnSet(f, S) = SumFunctionOnSet(f, P) + SumFunctionOnSet(f, S \ P)
    BY <1>1, SumSplit
  <1>3. SumFunctionOnSet(f, P) \in Nat /\ SumFunctionOnSet(f, S \ P) \in Nat
    BY SumNat, FS_Subset
  <1> QED
    BY <1>2, <1>3, SMT

(* Sum over functions that agree but for x, stated for any two functions.  *)
LEMMA SumChange ==
    ASSUME NEW S, IsFiniteSet(S), NEW x \in S
    PROVE  \A f, g :
              /\ \A y \in S : f[y] \in Int /\ g[y] \in Int
              /\ \A y \in S \ {x} : g[y] = f[y]
              => SumFunctionOnSet(g, S) = SumFunctionOnSet(f, S) + (g[x] - f[x])
  <1> SUFFICES ASSUME NEW f, NEW g,
                      \A y \in S : f[y] \in Int /\ g[y] \in Int,
                      \A y \in S \ {x} : g[y] = f[y]
               PROVE  SumFunctionOnSet(g, S) = SumFunctionOnSet(f, S) + (g[x] - f[x])
    OBVIOUS
  <1>1. /\ SumFunctionOnSet(f, S) = f[x] + SumFunctionOnSet(f, S \ {x})
        /\ SumFunctionOnSet(g, S) = g[x] + SumFunctionOnSet(g, S \ {x})
    BY SumRemove
  <1>2. IsFiniteSet(S \ {x}) /\ \A y \in S \ {x} : f[y] \in Int /\ g[y] = f[y]
    BY FS_Subset
  <1>3. SumFunctionOnSet(f, S \ {x}) = SumFunctionOnSet(g, S \ {x})
    BY <1>2, SumSame
  <1>4. SumFunctionOnSet(f, S \ {x}) \in Int
    BY <1>2, SumType
  <1> QED
    BY <1>1, <1>3, <1>4, SMT
=============================================================================
