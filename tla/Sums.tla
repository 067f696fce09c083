-------------------------------- MODULE Sums --------------------------------
(***************************************************************************)
(* What SumFunctionOnSet of the community modules computes, for every      *)
(* finite set: the order in which it takes the elements does not matter,   *)
(* and one element more adds its value. The library defines it by a        *)
(* recursive function whose choices nobody knows; a function on the        *)
(* subsets to which each element adds its value exists, by induction on    *)
(* the size, and is what every order of choices computes.                  *)
(***************************************************************************)
EXTENDS Functions, FiniteSetTheorems, WellFoundedInduction, TLAPS

\* The sums over the subsets of S that the library computes.
Fold(f, S) ==
    CHOOSE iter : iter =
        [s \in SUBSET S |->
            IF s = {} THEN 0
            ELSE f[CHOOSE x \in s : TRUE] + iter[s \ {CHOOSE x \in s : TRUE}]]

\* One element more adds its value.
Additive(f, S, h) ==
    /\ h \in [SUBSET S -> Int] /\ h[{}] = 0
    /\ \A s \in SUBSET S : \A x \in S \ s : h[s \cup {x}] = h[s] + f[x]

\* A set of numbers that is not empty has a least one.
LEMMA LeastNumber ==
    ASSUME NEW T \in SUBSET Nat, T # {}
    PROVE  \E n \in T : \A m \in T : ~(m < n)
<1>1. PICK n \in T : \A m \in T : ~(<<m, n>> \in OpToRel(<, Nat))
    BY NatLessThanWellFounded, WFMin
<1> QED BY <1>1 DEF OpToRel

LEMMA SumIsFold ==
    ASSUME NEW f, NEW S
    PROVE  SumFunctionOnSet(f, S) = Fold(f, S)[S]
BY DEF SumFunctionOnSet, FoldFunctionOnSet, MapThenFoldSet, Fold

\* Such a function exists for every finite set.
LEMMA AdditiveExists ==
    ASSUME NEW f, NEW S, IsFiniteSet(S), \A x \in S : f[x] \in Int
    PROVE  \E h : Additive(f, S, h)
<1> DEFINE Without == {n \in Nat : \E T \in SUBSET S :
                         Cardinality(T) = n /\ ~\E h : Additive(f, T, h)}
<1>1. ASSUME Without # {} PROVE FALSE
  <2>1. PICK n \in Without : \A m \in Without : ~(m < n)
      BY <1>1, LeastNumber
  <2>2. PICK T \in SUBSET S : Cardinality(T) = n /\ ~\E h : Additive(f, T, h)
      BY <2>1
  <2>3. CASE T = {}
    <3> DEFINE h == [s \in SUBSET T |-> 0]
    <3>1. h \in [SUBSET T -> Int] /\ h[{}] = 0
        OBVIOUS
    <3>2. \A s \in SUBSET T : \A x \in T \ s : h[s \cup {x}] = h[s] + f[x]
        BY <2>3
    <3> HIDE DEF h
    <3> QED BY <2>2, <3>1, <3>2 DEF Additive
  <2>4. CASE T # {}
    <3>1. PICK x \in T : TRUE
        BY <2>4
    <3> DEFINE U == T \ {x}
    <3>2. IsFiniteSet(T) /\ Cardinality(U) = n - 1 /\ n - 1 \in Nat /\ U \in SUBSET S
        BY <2>2, <3>1, FS_Subset, FS_RemoveElement, FS_CardinalityType
    <3>3. \E g : Additive(f, U, g)
        BY <2>1, <3>2
    <3>4. PICK g : Additive(f, U, g)
        BY <3>3
    <3> DEFINE own(s) == IF x \in s THEN f[x] ELSE 0
               h == [s \in SUBSET T |-> g[s \ {x}] + own(s)]
    <3>5. \A s \in SUBSET T : s \ {x} \in SUBSET U /\ g[s \ {x}] \in Int /\ own(s) \in Int
        BY <3>4, <3>1 DEF Additive
    <3>6. h \in [SUBSET T -> Int] /\ h[{}] = 0
      <4>1. own({}) = 0 /\ g[{} \ {x}] = 0
          BY <3>4 DEF Additive
      <4>2. \A s \in SUBSET T : g[s \ {x}] + own(s) \in Int
        <5> TAKE s \in SUBSET T
        <5>1. PICK a \in Int, b \in Int : a = g[s \ {x}] /\ b = own(s)
            BY <3>5
        <5> QED BY <5>1
      <4>3. h[{}] = g[{} \ {x}] + own({})
          OBVIOUS
      <4> HIDE DEF own
      <4>4. h \in [SUBSET T -> Int]
          BY <4>2
      <4> HIDE DEF h
      <4> QED BY <4>1, <4>3, <4>4
    <3>7. ASSUME NEW s \in SUBSET T, NEW y \in T \ s PROVE h[s \cup {y}] = h[s] + f[y]
      <4>0. /\ s \cup {y} \in SUBSET T /\ f[y] \in Int
            /\ h[s] = g[s \ {x}] + own(s) /\ h[s \cup {y}] = g[(s \cup {y}) \ {x}] + own(s \cup {y})
          BY <2>2
      <4>1. CASE y = x
        <5>1. (s \cup {y}) \ {x} = s \ {x} /\ own(s) = 0 /\ own(s \cup {y}) = f[y]
            BY <3>7, <4>1
        <5>2. PICK a \in Int, b \in Int : a = g[s \ {x}] /\ b = f[y]
            BY <3>5, <4>0
        <5>3. h[s] = a + 0 /\ h[s \cup {y}] = a + b
            BY <4>0, <5>1, <5>2
        <5> QED BY <5>2, <5>3
      <4>2. CASE y # x
        <5>1. (s \cup {y}) \ {x} = (s \ {x}) \cup {y} /\ own(s \cup {y}) = own(s)
              /\ y \in U \ (s \ {x}) /\ s \ {x} \in SUBSET U
            BY <3>7, <4>2
        <5>2. g[(s \ {x}) \cup {y}] = g[s \ {x}] + f[y]
            BY <3>4, <5>1 DEF Additive
        <5>3. PICK a \in Int, b \in Int, k \in Int :
                  a = g[s \ {x}] /\ b = f[y] /\ k = own(s)
            BY <3>5, <4>0
        <5>4. h[s] = a + k /\ h[s \cup {y}] = (a + b) + k
            BY <4>0, <5>1, <5>2, <5>3
        <5> QED BY <5>3, <5>4
      <4> QED BY <4>1, <4>2
    <3> HIDE DEF h
    <3> QED BY <2>2, <3>6, <3>7 DEF Additive
  <2> QED BY <2>3, <2>4
<1>2. Cardinality(S) \in Nat
    BY FS_CardinalityType
<1> QED BY <1>1, <1>2

\* And it is what any order of choices computes.
LEMMA FoldIsAdditive ==
    ASSUME NEW f, NEW S, IsFiniteSet(S), \A x \in S : f[x] \in Int,
           NEW h, Additive(f, S, h)
    PROVE  Fold(f, S) = h
<1> DEFINE pick(s) == CHOOSE x \in s : TRUE
           Computes(iter) == iter = [s \in SUBSET S |->
                                IF s = {} THEN 0 ELSE f[pick(s)] + iter[s \ {pick(s)}]]
<1>1. ASSUME NEW s \in SUBSET S, s # {} PROVE pick(s) \in s
    BY <1>1
<1> HIDE DEF pick
<1>2. ASSUME NEW s \in SUBSET S, s # {}
      PROVE  h[s] = h[s \ {pick(s)}] + f[pick(s)] /\ s \ {pick(s)} \in SUBSET S
  <2>1. PICK x \in s : x = pick(s)
      BY <1>1, <1>2
  <2>2. s = (s \ {x}) \cup {x} /\ s \ {x} \in SUBSET S /\ x \in S \ (s \ {x})
      BY <1>2, <2>1
  <2>3. h[(s \ {x}) \cup {x}] = h[s \ {x}] + f[x]
      BY <2>2 DEF Additive
  <2> QED BY <2>1, <2>2, <2>3
<1>3. ASSUME NEW iter, Computes(iter) PROVE iter = h
  <2> DEFINE Apart == {n \in Nat : \E s \in SUBSET S : Cardinality(s) = n /\ iter[s] # h[s]}
  <2>1. ASSUME Apart # {} PROVE FALSE
    <3>1. PICK n \in Apart : \A m \in Apart : ~(m < n)
        BY <2>1, LeastNumber
    <3>2. PICK s \in SUBSET S : Cardinality(s) = n /\ iter[s] # h[s]
        BY <3>1
    <3>3. iter[s] = IF s = {} THEN 0 ELSE f[pick(s)] + iter[s \ {pick(s)}]
        BY <1>3
    <3>4. s # {}
        BY <3>2, <3>3 DEF Additive
    <3>5. PICK x \in s : x = pick(s)
        BY <1>1, <3>4
    <3>6. IsFiniteSet(s) /\ Cardinality(s \ {x}) = n - 1 /\ n - 1 \in Nat /\ s \ {x} \in SUBSET S
      <4>1. IsFiniteSet(s)
          BY FS_Subset
      <4>2. Cardinality(s) \in Nat /\ Cardinality(s \ {x}) = Cardinality(s) - 1
            /\ IsFiniteSet(s \ {x})
          BY <4>1, FS_RemoveElement, FS_CardinalityType
      <4>3. Cardinality(s \ {x}) \in Nat
          BY <4>2, FS_CardinalityType
      <4> QED BY <3>2, <4>1, <4>2, <4>3
    <3>7. iter[s \ {x}] = h[s \ {x}]
        BY <3>1, <3>6
    <3>8. h[s] = h[s \ {x}] + f[x] /\ iter[s] = f[x] + iter[s \ {x}]
      <4>1. h[s] = h[s \ {x}] + f[x] /\ h[s \ {x}] \in Int /\ f[x] \in Int
          BY <1>2, <3>4, <3>5 DEF Additive
      <4>2. iter[s] = f[x] + iter[s \ {x}]
          BY <3>3, <3>4, <3>5
      <4> QED BY <4>1, <4>2
    <3>9. h[s \ {x}] \in Int /\ f[x] \in Int
        BY <3>5, <3>6 DEF Additive
    <3> QED BY <3>2, <3>7, <3>8, <3>9
  <2>2. \A s \in SUBSET S : iter[s] = h[s]
    <3> TAKE s \in SUBSET S
    <3>1. Cardinality(s) \in Nat
        BY FS_Subset, FS_CardinalityType
    <3> QED BY <2>1, <3>1
  <2>3. h = [s \in SUBSET S |-> h[s]]
      BY DEF Additive
  <2> QED BY <1>3, <2>2, <2>3
<1>4. Computes(h)
  <2>1. \A s \in SUBSET S : h[s] = IF s = {} THEN 0 ELSE f[pick(s)] + h[s \ {pick(s)}]
    <3> TAKE s \in SUBSET S
    <3>1. CASE s = {}
        BY <3>1 DEF Additive
    <3>2. CASE s # {}
      <4>1. h[s] \in Int /\ h[s] = h[s \ {pick(s)}] + f[pick(s)] /\ h[s \ {pick(s)}] \in Int
          BY <1>2, <3>2 DEF Additive
      <4>2. f[pick(s)] \in Int
          BY <1>1, <3>2
      <4> QED BY <3>2, <4>1, <4>2
    <3> QED BY <3>1, <3>2
  <2>2. h = [s \in SUBSET S |-> h[s]]
      BY DEF Additive
  <2> QED BY <2>1, <2>2
<1>5. Computes(Fold(f, S))
  <2>1. Fold(f, S) = CHOOSE iter : Computes(iter)
      BY DEF Fold, pick
  <2> HIDE DEF Computes
  <2> QED BY <1>4, <2>1
<1> HIDE DEF Computes
<1> QED BY <1>3, <1>5

\* A sum is an additive function's value, and restricting it sums a subset.
LEMMA SumOfSubset ==
    ASSUME NEW f, NEW S, IsFiniteSet(S), \A x \in S : f[x] \in Int,
           NEW h, Additive(f, S, h), NEW T \in SUBSET S
    PROVE  SumFunctionOnSet(f, T) = h[T]
<1> DEFINE g == [s \in SUBSET T |-> h[s]]
<1>1. Additive(f, T, g)
  <2>1. SUBSET T \subseteq SUBSET S
      OBVIOUS
  <2>2. g \in [SUBSET T -> Int] /\ g[{}] = 0
      BY <2>1 DEF Additive
  <2>3. ASSUME NEW s \in SUBSET T, NEW x \in T \ s PROVE g[s \cup {x}] = g[s] + f[x]
      BY <2>1, <2>3 DEF Additive
  <2> HIDE DEF g
  <2> QED BY <2>2, <2>3 DEF Additive
<1>2. IsFiniteSet(T)
    BY FS_Subset
<1>3. Fold(f, T) = g
  <2> HIDE DEF g
  <2> QED BY <1>1, <1>2, FoldIsAdditive
<1>4. g[T] = h[T]
    OBVIOUS
<1> QED BY <1>3, <1>4, SumIsFold

-----------------------------------------------------------------------------
\* Nothing adds up to zero.
THEOREM SumOfNone ==
    ASSUME NEW f
    PROVE  SumFunctionOnSet(f, {}) = 0
<1>1. PICK h : Additive(f, {}, h)
    BY AdditiveExists, FS_EmptySet
<1>2. SumFunctionOnSet(f, {}) = h[{}]
    BY <1>1, SumOfSubset, FS_EmptySet
<1> QED BY <1>1, <1>2 DEF Additive

\* A finite sum is a number, and one element more adds its value.
THEOREM SumOfOneMore ==
    ASSUME NEW f, NEW S, IsFiniteSet(S), NEW x, x \notin S, \A y \in S \cup {x} : f[y] \in Int
    PROVE  /\ SumFunctionOnSet(f, S) \in Int
           /\ SumFunctionOnSet(f, S \cup {x}) = SumFunctionOnSet(f, S) + f[x]
<1>1. IsFiniteSet(S \cup {x})
    BY FS_AddElement
<1>2. PICK h : Additive(f, S \cup {x}, h)
    BY <1>1, AdditiveExists
<1>3. SumFunctionOnSet(f, S) = h[S] /\ SumFunctionOnSet(f, S \cup {x}) = h[S \cup {x}]
    BY <1>1, <1>2, SumOfSubset
<1>4. h[S] \in Int /\ h[S \cup {x}] = h[S] + f[x]
    BY <1>2 DEF Additive
<1> QED BY <1>3, <1>4

\* Only the values on the set count.
THEOREM SumsAlike ==
    ASSUME NEW f, NEW g, NEW S, IsFiniteSet(S), \A x \in S : f[x] \in Int /\ g[x] = f[x]
    PROVE  SumFunctionOnSet(g, S) = SumFunctionOnSet(f, S) /\ SumFunctionOnSet(f, S) \in Int
<1>1. PICK h : Additive(f, S, h)
    BY AdditiveExists
<1>2. Additive(g, S, h)
    BY <1>1 DEF Additive
<1>3. SumFunctionOnSet(f, S) = h[S] /\ SumFunctionOnSet(g, S) = h[S]
  <2>1. S \in SUBSET S
      OBVIOUS
  <2> QED BY <1>1, <1>2, <2>1, SumOfSubset
<1>4. h[S] \in Int
    BY <1>1 DEF Additive
<1> QED BY <1>3, <1>4

\* A value that changes moves the sum by as much.
THEOREM SumMoves ==
    ASSUME NEW f, NEW g, NEW S, IsFiniteSet(S), NEW x \in S,
           \A y \in S : f[y] \in Int /\ g[y] \in Int,
           \A y \in S \ {x} : g[y] = f[y]
    PROVE  SumFunctionOnSet(g, S) = SumFunctionOnSet(f, S) + (g[x] - f[x])
<1>1. IsFiniteSet(S \ {x}) /\ S = (S \ {x}) \cup {x} /\ x \notin S \ {x}
    BY FS_RemoveElement
<1>2. /\ SumFunctionOnSet(f, S) = SumFunctionOnSet(f, S \ {x}) + f[x]
      /\ SumFunctionOnSet(g, S) = SumFunctionOnSet(g, S \ {x}) + g[x]
      /\ SumFunctionOnSet(f, S \ {x}) \in Int
    BY <1>1, SumOfOneMore
<1>3. SumFunctionOnSet(g, S \ {x}) = SumFunctionOnSet(f, S \ {x})
    BY <1>1, SumsAlike
<1> QED BY <1>2, <1>3

\* One value that is new or changes adds what it is, or by how much it changed.
THEOREM SumOfChange ==
    ASSUME NEW f, NEW g, NEW S, IsFiniteSet(S), NEW x,
           \A y \in S : f[y] \in Int, \A y \in S \cup {x} : g[y] \in Int,
           \A y \in S \ {x} : g[y] = f[y]
    PROVE  /\ IsFiniteSet(S \cup {x}) /\ SumFunctionOnSet(f, S) \in Int
           /\ SumFunctionOnSet(g, S \cup {x}) =
                 SumFunctionOnSet(f, S) + (g[x] - (IF x \in S THEN f[x] ELSE 0))
<1>1. IsFiniteSet(S \cup {x})
    BY FS_AddElement
<1>2. SumFunctionOnSet(f, S) \in Int
    BY SumsAlike
<1>3. CASE x \in S
  <2>1. S \cup {x} = S
      BY <1>3
  <2>2. SumFunctionOnSet(g, S) = SumFunctionOnSet(f, S) + (g[x] - f[x])
      BY <1>3, SumMoves
  <2> QED BY <1>1, <1>2, <1>3, <2>1, <2>2
<1>4. CASE x \notin S
  <2>1. \A y \in S : f[y] \in Int /\ g[y] = f[y]
      BY <1>4
  <2>2. SumFunctionOnSet(g, S) = SumFunctionOnSet(f, S)
      BY <2>1, SumsAlike
  <2>3. SumFunctionOnSet(g, S \cup {x}) = SumFunctionOnSet(g, S) + g[x]
      BY <1>4, SumOfOneMore
  <2>4. g[x] \in Int
      OBVIOUS
  <2>5. g[x] - 0 = g[x]
      BY <2>4
  <2> QED BY <1>1, <1>2, <1>4, <2>2, <2>3, <2>5
<1> QED BY <1>3, <1>4

\* Of what is never negative, fewer elements never sum to more.
THEOREM SumOfFewer ==
    ASSUME NEW f, NEW S, IsFiniteSet(S), \A x \in S : f[x] \in Nat, NEW T \in SUBSET S
    PROVE  SumFunctionOnSet(f, T) \in Nat /\ SumFunctionOnSet(f, T) <= SumFunctionOnSet(f, S)
<1> DEFINE Right(U) == \E a \in Nat, b \in Nat :
               /\ a = SumFunctionOnSet(f, U \cap T) /\ b = SumFunctionOnSet(f, U) /\ a <= b
           Wrong == {n \in Nat : \E U \in SUBSET S : Cardinality(U) = n /\ ~Right(U)}
<1>1. ASSUME Wrong # {} PROVE FALSE
  <2>1. PICK n \in Wrong : \A m \in Wrong : ~(m < n)
      BY <1>1, LeastNumber
  <2>2. PICK U \in SUBSET S : Cardinality(U) = n /\ ~Right(U)
      BY <2>1
  <2>3. U # {}
    <3>1. ASSUME U = {} PROVE Right(U)
      <4>1. U \cap T = {} /\ SumFunctionOnSet(f, {}) = 0
          BY <3>1, SumOfNone
      <4> QED BY <3>1, <4>1
    <3> QED BY <2>2, <3>1
  <2>4. PICK x \in U : TRUE
      BY <2>3
  <2>5. PICK V \in SUBSET S : V = U \ {x}
      OBVIOUS
  <2>6. IsFiniteSet(V) /\ Cardinality(V) = n - 1 /\ n - 1 \in Nat
    <3>1. IsFiniteSet(U)
        BY FS_Subset
    <3>2. Cardinality(V) = Cardinality(U) - 1 /\ IsFiniteSet(V)
        BY <2>4, <2>5, <3>1, FS_RemoveElement
    <3>3. Cardinality(V) \in Nat
        BY <3>2, FS_CardinalityType
    <3> QED BY <2>2, <3>2, <3>3
  <2>7. Right(V)
    <3> HIDE DEF Right
    <3> QED BY <2>1, <2>6
  <2>8. PICK a \in Nat, b \in Nat :
            a = SumFunctionOnSet(f, V \cap T) /\ b = SumFunctionOnSet(f, V) /\ a <= b
      BY <2>7
  <2>9. PICK k \in Nat : k = f[x]
      BY <2>4
  <2>10. SumFunctionOnSet(f, U) = b + k
    <3>1. U = V \cup {x} /\ x \notin V /\ \A y \in V \cup {x} : f[y] \in Int
        BY <2>4, <2>5
    <3> QED BY <2>6, <2>8, <2>9, <3>1, SumOfOneMore
  <2>11. CASE x \in T
    <3>1. /\ U \cap T = (V \cap T) \cup {x} /\ x \notin V \cap T
          /\ \A y \in (V \cap T) \cup {x} : f[y] \in Int
        BY <2>4, <2>5, <2>11
    <3>2. IsFiniteSet(V \cap T)
        BY <2>6, FS_Subset
    <3>3. SumFunctionOnSet(f, U \cap T) = a + k
        BY <2>8, <2>9, <3>1, <3>2, SumOfOneMore
    <3>4. a + k \in Nat /\ b + k \in Nat /\ a + k <= b + k
        BY <2>8
    <3> QED BY <2>2, <2>10, <3>3, <3>4
  <2>12. CASE x \notin T
    <3>1. U \cap T = V \cap T
        BY <2>5, <2>12
    <3>2. b + k \in Nat /\ a <= b + k
        BY <2>8
    <3> QED BY <2>2, <2>8, <2>10, <3>1, <3>2
  <2> QED BY <2>11, <2>12
<1>2. Cardinality(S) \in Nat
    BY FS_CardinalityType
<1>3. S \cap T = T /\ S \in SUBSET S
    OBVIOUS
<1>4. Right(S)
  <2> HIDE DEF Right
  <2> QED BY <1>1, <1>2, <1>3
<1>5. PICK a \in Nat, b \in Nat :
          a = SumFunctionOnSet(f, T) /\ b = SumFunctionOnSet(f, S) /\ a <= b
    BY <1>3, <1>4
<1> QED BY <1>5
=============================================================================
