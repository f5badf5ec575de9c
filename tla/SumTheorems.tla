---------------------------- MODULE SumTheorems ----------------------------
(***************************************************************************)
(* Sums over finite sets. Induction is over sets of numbers and families of  *)
(* sets, so that no theorem takes an operator.                               *)
(***************************************************************************)
EXTENDS LargestRemainder, FiniteSetTheorems, WellFoundedInduction, TLAPS

LEMMA LeastOf ==
    ASSUME NEW T \in SUBSET Nat, T # {}
    PROVE  \E x \in T : \A y \in T : x <= y
<1> DEFINE R == OpToRel(<, Nat)
<1>1. IsWellFoundedOn(R, Nat)
  BY NatLessThanWellFounded
<1>2. \A x, y \in Nat : x < y <=> <<x, y>> \in R
  BY DEF OpToRel
<1> HIDE DEF R
<1>3. \E x \in T : \A y \in T : ~ (<<y, x>> \in R)
  BY <1>1, WFMin
<1>4. PICK x \in T : \A y \in T : ~ (<<y, x>> \in R)
  BY <1>3
<1>5. \A y \in T : x \in Nat /\ y \in Nat
  OBVIOUS
<1>6. \A y \in T : ~ (y < x)
  BY <1>2, <1>4, <1>5
<1>7. \A y \in T : x <= y
  BY <1>5, <1>6
<1> QED
  BY <1>7

LEMMA EveryNumber ==
    ASSUME NEW T \in SUBSET Nat, 0 \in T, \A n \in T : n + 1 \in T
    PROVE  T = Nat
<1> SUFFICES ASSUME Nat \ T # {} PROVE FALSE
  OBVIOUS
<1>1. PICK x \in Nat \ T : \A y \in Nat \ T : x <= y
  BY LeastOf
<1>2. x # 0 /\ x - 1 \in Nat
  BY <1>1
<1>3. x - 1 \in T
  BY <1>1, <1>2
<1>4. (x - 1) + 1 \in T
  BY <1>3
<1> QED
  BY <1>1, <1>4

\* A family that has every subset whose smaller subsets it has, has them all.
LEMMA EverySubset ==
    ASSUME NEW S, IsFiniteSet(S), NEW F,
           \A T \in SUBSET S : (\A R \in SUBSET T : R # T => R \in F) => T \in F
    PROVE  S \in F
<1> SUFFICES ASSUME S \notin F PROVE FALSE
  OBVIOUS
<1>1. \A T \in SUBSET S : IsFiniteSet(T) /\ Cardinality(T) \in Nat
  BY FS_Subset, FS_CardinalityType
<1> DEFINE Missing == {T \in SUBSET S : T \notin F}
           Sizes == {n \in Nat : \E T \in Missing : Cardinality(T) = n}
<1>2. Cardinality(S) \in Sizes
  BY <1>1
<1>3. PICK n \in Sizes : \A m \in Sizes : n <= m
  <2>1. Sizes \in SUBSET Nat /\ Sizes # {}
    BY <1>2
  <2> HIDE DEF Sizes
  <2> QED
    BY <2>1, LeastOf
<1>4. PICK T \in Missing : Cardinality(T) = n
  BY <1>3
<1>5. ASSUME NEW R \in SUBSET T, R # T PROVE R \in F
  <2>1. Cardinality(R) < Cardinality(T)
    <3>1. IsFiniteSet(T)
      BY <1>1
    <3>2. Cardinality(R) <= Cardinality(T) /\ Cardinality(R) # Cardinality(T)
      BY <1>5, <3>1, FS_Subset
    <3> QED
      BY <1>1, <3>2
  <2>2. ~ (n <= Cardinality(R))
    BY <1>1, <1>4, <2>1
  <2>3. R \in SUBSET S /\ Cardinality(R) \in Nat
    BY <1>1
  <2> QED
    BY <1>3, <2>2, <2>3
<1> QED
  BY <1>4, <1>5
\* The same, one element at a time.
LEMMA OneByOne ==
    ASSUME NEW S, IsFiniteSet(S), NEW F, {} \in F,
           \A T \in SUBSET S : \A x \in T : T \ {x} \in F => T \in F
    PROVE  S \in F
<1>1. ASSUME NEW T \in SUBSET S, \A R \in SUBSET T : R # T => R \in F
      PROVE  T \in F
  <2>1. CASE T = {}
    BY <2>1
  <2>2. CASE T # {}
    <3>1. PICK x \in T : TRUE
      BY <2>2
    <3>2. T \ {x} \in SUBSET T /\ T \ {x} # T
      BY <3>1
    <3>3. T \ {x} \in F
      BY <1>1, <3>2
    <3> QED
      BY <3>1, <3>3
  <2> QED
    BY <2>1, <2>2
<1> QED
  BY <1>1, EverySubset
-----------------------------------------------------------------------------
(***************************************************************************)
(* SumFunctionOnSet takes the elements in an order of its own.               *)
(***************************************************************************)
First(s) == CHOOSE x \in s : TRUE

\* sum[s] is the sum of f over each s in D.
AddsUp(sum, f, D) ==
    sum = [s \in D |-> IF s = {} THEN 0 ELSE f[First(s)] + sum[s \ {First(s)}]]

Sums(f, S) == CHOOSE sum : AddsUp(sum, f, SUBSET S)

LEMMA SumIsOfSums ==
    ASSUME NEW f, NEW S
    PROVE  SumFunctionOnSet(f, S) = Sums(f, S)[S]
BY DEF SumFunctionOnSet, FoldFunctionOnSet, MapThenFoldSet, Sums, AddsUp, First

Upto(S, n) == {s \in SUBSET S : Cardinality(s) <= n}

LEMMA SumsUpto ==
    ASSUME NEW f, NEW S, IsFiniteSet(S), NEW n \in Nat
    PROVE  \E sum : AddsUp(sum, f, Upto(S, n))
<1> DEFINE Sizes == {m \in Nat : \E sum : AddsUp(sum, f, Upto(S, m))}
<1>1. \A T \in SUBSET S : IsFiniteSet(T) /\ Cardinality(T) \in Nat
  BY FS_Subset, FS_CardinalityType
<1>2. ASSUME NEW m \in Nat, NEW s \in Upto(S, m + 1), s # {}
      PROVE  s \ {First(s)} \in Upto(S, m)
  <2>1. First(s) \in s /\ s \in SUBSET S /\ Cardinality(s) <= m + 1
    BY <1>2 DEF First, Upto
  <2>2. Cardinality(s \ {First(s)}) = Cardinality(s) - 1
    BY <1>1, <2>1, FS_RemoveElement
  <2>3. Cardinality(s \ {First(s)}) <= m
    BY <1>1, <2>1, <2>2
  <2> QED
    BY <2>1, <2>3 DEF Upto
<1>3. 0 \in Sizes
  <2>1. \A s \in Upto(S, 0) : s = {}
    BY <1>1, FS_EmptySet DEF Upto
  <2> DEFINE zero == [s \in Upto(S, 0) |-> 0]
  <2>2. AddsUp(zero, f, Upto(S, 0))
    BY <2>1 DEF AddsUp
  <2> QED
    BY <2>2
<1>4. ASSUME NEW m \in Sizes PROVE m + 1 \in Sizes
  <2>1. PICK sum : AddsUp(sum, f, Upto(S, m))
    BY <1>4
  <2> DEFINE next == [s \in Upto(S, m + 1) |->
                        IF s = {} THEN 0 ELSE f[First(s)] + sum[s \ {First(s)}]]
  <2>2. m \in Nat /\ Upto(S, m) \subseteq Upto(S, m + 1)
    <3>1. m \in Nat
      OBVIOUS
    <3> QED
      BY <1>1, <3>1 DEF Upto
  <2>3. ASSUME NEW s \in Upto(S, m) PROVE next[s] = sum[s]
    BY <2>1, <2>2 DEF AddsUp
  <2>4. ASSUME NEW s \in Upto(S, m + 1), s # {}
        PROVE  next[s \ {First(s)}] = sum[s \ {First(s)}]
    BY <1>2, <2>2, <2>3, <2>4
  <2>5. AddsUp(next, f, Upto(S, m + 1))
    BY <2>4 DEF AddsUp
  <2> HIDE DEF next
  <2> QED
    BY <2>2, <2>5
<1> HIDE DEF Sizes
<1>5. Sizes = Nat
  <2>1. Sizes \in SUBSET Nat
    BY DEF Sizes
  <2> QED
    BY <1>3, <1>4, <2>1, EveryNumber
<1>6. n \in Sizes
  BY <1>5
<1> QED
  BY <1>6 DEF Sizes

LEMMA SumsAt ==
    ASSUME NEW f, NEW S, IsFiniteSet(S), NEW s \in SUBSET S
    PROVE  Sums(f, S)[s] =
              IF s = {} THEN 0 ELSE f[First(s)] + Sums(f, S)[s \ {First(s)}]
<1>1. PICK n \in Nat : \A t \in SUBSET S : Cardinality(t) <= n
  BY FS_Subset, FS_CardinalityType
<1>2. Upto(S, n) = SUBSET S
  BY <1>1 DEF Upto
<1>3. \E sum : AddsUp(sum, f, Upto(S, n))
  BY SumsUpto
<1>4. \E sum : AddsUp(sum, f, SUBSET S)
  BY <1>2, <1>3
<1> DEFINE all == Sums(f, S)
<1>5. AddsUp(all, f, SUBSET S)
  BY <1>4 DEF Sums
<1> HIDE DEF all
<1>6. all[s] = IF s = {} THEN 0 ELSE f[First(s)] + all[s \ {First(s)}]
  BY <1>5 DEF AddsUp
<1> QED
  BY <1>6 DEF all

LEMMA SumsAgree ==
    ASSUME NEW f, NEW S, IsFiniteSet(S), NEW T \in SUBSET S
    PROVE  Sums(f, S)[T] = Sums(f, T)[T]
<1>1. IsFiniteSet(T)
  BY FS_Subset
<1> DEFINE Sizes == {n \in Nat : \A s \in SUBSET T :
                        Cardinality(s) = n => Sums(f, S)[s] = Sums(f, T)[s]}
<1>2. \A s \in SUBSET T : IsFiniteSet(s) /\ Cardinality(s) \in Nat
  BY <1>1, FS_Subset, FS_CardinalityType
<1>3. 0 \in Sizes
  <2>1. \A s \in SUBSET T : Cardinality(s) = 0 => s = {}
    BY <1>2, FS_EmptySet
  <2>2. Sums(f, S)[{}] = 0 /\ Sums(f, T)[{}] = 0
    <3>1. {} \in SUBSET S /\ {} \in SUBSET T
      OBVIOUS
    <3> QED
      BY <1>1, <3>1, SumsAt
  <2> QED
    BY <2>1, <2>2
<1>4. ASSUME NEW n \in Sizes PROVE n + 1 \in Sizes
  <2> SUFFICES ASSUME NEW s \in SUBSET T, Cardinality(s) = n + 1
               PROVE  Sums(f, S)[s] = Sums(f, T)[s]
    OBVIOUS
  <2>1. n \in Nat
    OBVIOUS
  <2>2. s # {}
    <3>1. Cardinality({}) = 0
      BY FS_EmptySet
    <3> QED
      BY <2>1, <3>1
  <2>3. First(s) \in s
    BY <2>2 DEF First
  <2>4. Cardinality(s \ {First(s)}) = n
    <3>1. IsFiniteSet(s)
      BY <1>2
    <3>2. Cardinality(s \ {First(s)}) = Cardinality(s) - 1
      BY <2>3, <3>1, FS_RemoveElement
    <3> QED
      BY <2>1, <3>2
  <2>5. Sums(f, S)[s \ {First(s)}] = Sums(f, T)[s \ {First(s)}]
    BY <2>4
  <2>6. /\ Sums(f, S)[s] = f[First(s)] + Sums(f, S)[s \ {First(s)}]
        /\ Sums(f, T)[s] = f[First(s)] + Sums(f, T)[s \ {First(s)}]
    <3>1. s \in SUBSET S /\ s \in SUBSET T
      OBVIOUS
    <3> QED
      BY <1>1, <2>2, <3>1, SumsAt
  <2> QED
    BY <2>5, <2>6
<1> HIDE DEF Sizes
<1>5. Sizes = Nat
  <2>1. Sizes \in SUBSET Nat
    BY DEF Sizes
  <2> QED
    BY <1>3, <1>4, <2>1, EveryNumber
<1>6. Cardinality(T) \in Sizes
  BY <1>2, <1>5
<1> QED
  BY <1>6 DEF Sizes

LEMMA SumEmpty == ASSUME NEW f PROVE SumFunctionOnSet(f, {}) = 0
<1>1. IsFiniteSet({}) /\ {} \in SUBSET {}
  BY FS_EmptySet
<1>2. Sums(f, {})[{}] = 0
  BY <1>1, SumsAt
<1> QED
  BY <1>2, SumIsOfSums

LEMMA SumFirst ==
    ASSUME NEW f, NEW S, IsFiniteSet(S), S # {}
    PROVE  SumFunctionOnSet(f, S) =
              f[First(S)] + SumFunctionOnSet(f, S \ {First(S)})
<1>1. Sums(f, S)[S] = f[First(S)] + Sums(f, S)[S \ {First(S)}]
  <2>1. S \in SUBSET S
    OBVIOUS
  <2> QED
    BY <2>1, SumsAt
<1>2. Sums(f, S)[S \ {First(S)}] = Sums(f, S \ {First(S)})[S \ {First(S)}]
  BY SumsAgree
<1> QED
  BY <1>1, <1>2, SumIsOfSums
-----------------------------------------------------------------------------
(***************************************************************************)
(* What the sums do.                                                        *)
(***************************************************************************)
LEMMA SumRemove ==
    ASSUME NEW f, NEW S, IsFiniteSet(S), \A x \in S : f[x] \in Int
    PROVE  /\ SumFunctionOnSet(f, S) \in Int
           /\ \A x \in S : SumFunctionOnSet(f, S) =
                              f[x] + SumFunctionOnSet(f, S \ {x})
<1> DEFINE sum(T) == SumFunctionOnSet(f, T)
           F == {T \in SUBSET S : /\ sum(T) \in Int
                                 /\ \A x \in T : sum(T) = f[x] + sum(T \ {x})}
<1>1. \A T \in SUBSET S : IsFiniteSet(T)
  BY FS_Subset
<1>2. ASSUME NEW T \in SUBSET S, \A R \in SUBSET T : R # T => R \in F
      PROVE  T \in F
  <2>1. CASE T = {}
    BY <2>1, SumEmpty
  <2>2. CASE T # {}
    <3> DEFINE a == First(T)
    <3>1. a \in T
      BY <2>2 DEF First
    <3>2. sum(T) = f[a] + sum(T \ {a})
      BY <1>1, <2>2, SumFirst
    <3> HIDE DEF a
    <3>3. T \ {a} \in F
      BY <1>2, <3>1
    <3>4. sum(T) \in Int
      BY <3>1, <3>2, <3>3
    <3>5. ASSUME NEW x \in T PROVE sum(T) = f[x] + sum(T \ {x})
      <4>1. CASE x = a
        BY <3>2, <4>1
      <4>2. CASE x # a
        <5>1. x \in T \ {a} /\ a \in T \ {x}
          BY <3>1, <4>2
        <5>2. sum(T \ {a}) = f[x] + sum((T \ {a}) \ {x})
          BY <3>3, <5>1
        <5>3. T \ {x} \in F
          BY <1>2
        <5>4. sum(T \ {x}) = f[a] + sum((T \ {x}) \ {a})
          BY <5>1, <5>3
        <5>5. (T \ {x}) \ {a} = (T \ {a}) \ {x}
          OBVIOUS
        <5> DEFINE rest == sum((T \ {a}) \ {x})
        <5>6. rest \in Int
          <6>1. (T \ {a}) \ {x} \in F
            BY <1>2, <3>1
          <6> QED
            BY <6>1
        <5>7. f[x] \in Int /\ f[a] \in Int
          BY <3>1
        <5>8. sum(T) = f[a] + (f[x] + rest) /\ sum(T \ {x}) = f[a] + rest
          BY <3>2, <5>2, <5>4, <5>5
        <5> HIDE DEF rest
        <5> QED
          BY <5>6, <5>7, <5>8
      <4> QED
        BY <4>1, <4>2
    <3> QED
      BY <3>4, <3>5
  <2> QED
    BY <2>1, <2>2
<1> HIDE DEF F
<1>3. S \in F
  BY <1>2, EverySubset
<1> QED
  BY <1>3 DEF F

\* The first fact used of a set and of what is left of it.
LEMMA SumOf ==
    ASSUME NEW f, NEW S, IsFiniteSet(S), \A x \in S : f[x] \in Int,
           NEW T \in SUBSET S, NEW x \in T
    PROVE  /\ SumFunctionOnSet(f, T) = f[x] + SumFunctionOnSet(f, T \ {x})
           /\ SumFunctionOnSet(f, T) \in Int
           /\ SumFunctionOnSet(f, T \ {x}) \in Int
<1>1. IsFiniteSet(T) /\ IsFiniteSet(T \ {x})
  BY FS_Subset
<1> QED
  BY <1>1, SumRemove

LEMMA SumSame ==
    ASSUME NEW f, NEW g, NEW S, IsFiniteSet(S),
           \A x \in S : f[x] \in Int /\ g[x] = f[x]
    PROVE  SumFunctionOnSet(g, S) = SumFunctionOnSet(f, S)
<1> DEFINE F == {T \in SUBSET S : SumFunctionOnSet(g, T) = SumFunctionOnSet(f, T)}
<1>1. {} \in F
  BY SumEmpty
<1>2. ASSUME NEW T \in SUBSET S, NEW x \in T, T \ {x} \in F PROVE T \in F
  BY <1>2, SumOf
<1> HIDE DEF F
<1>3. S \in F
  BY <1>1, <1>2, OneByOne
<1> QED
  BY <1>3 DEF F

LEMMA SumNat ==
    ASSUME NEW f, NEW S, IsFiniteSet(S), \A x \in S : f[x] \in Nat
    PROVE  SumFunctionOnSet(f, S) \in Nat
<1> DEFINE F == {T \in SUBSET S : SumFunctionOnSet(f, T) \in Nat}
<1>1. {} \in F
  BY SumEmpty
<1>2. ASSUME NEW T \in SUBSET S, NEW x \in T, T \ {x} \in F PROVE T \in F
  <2>1. SumFunctionOnSet(f, T) = f[x] + SumFunctionOnSet(f, T \ {x})
    BY SumOf
  <2>2. f[x] \in Nat /\ SumFunctionOnSet(f, T \ {x}) \in Nat
    BY <1>2
  <2> QED
    BY <2>1, <2>2
<1> HIDE DEF F
<1>3. S \in F
  BY <1>1, <1>2, OneByOne
<1> QED
  BY <1>3 DEF F

\* A sum is at most another that is so element by element.
LEMMA SumAtMost ==
    ASSUME NEW f, NEW g, NEW S, IsFiniteSet(S),
           \A x \in S : f[x] \in Int /\ g[x] \in Int /\ f[x] <= g[x]
    PROVE  SumFunctionOnSet(f, S) <= SumFunctionOnSet(g, S)
<1> DEFINE F == {T \in SUBSET S : SumFunctionOnSet(f, T) <= SumFunctionOnSet(g, T)}
<1>1. {} \in F
  BY SumEmpty
<1>2. ASSUME NEW T \in SUBSET S, NEW x \in T, T \ {x} \in F PROVE T \in F
  <2>1. /\ SumFunctionOnSet(f, T) = f[x] + SumFunctionOnSet(f, T \ {x})
        /\ SumFunctionOnSet(g, T) = g[x] + SumFunctionOnSet(g, T \ {x})
        /\ SumFunctionOnSet(f, T \ {x}) \in Int
        /\ SumFunctionOnSet(g, T \ {x}) \in Int
    BY SumOf
  <2>2. /\ f[x] \in Int /\ g[x] \in Int /\ f[x] <= g[x]
        /\ SumFunctionOnSet(f, T \ {x}) <= SumFunctionOnSet(g, T \ {x})
    BY <1>2
  <2> QED
    BY <2>1, <2>2
<1> HIDE DEF F
<1>3. S \in F
  BY <1>1, <1>2, OneByOne
<1> QED
  BY <1>3 DEF F

LEMMA SumPlus ==
    ASSUME NEW f, NEW g, NEW h, NEW S, IsFiniteSet(S),
           \A x \in S : f[x] \in Int /\ g[x] \in Int /\ h[x] = f[x] + g[x]
    PROVE  SumFunctionOnSet(h, S) =
              SumFunctionOnSet(f, S) + SumFunctionOnSet(g, S)
<1> DEFINE F == {T \in SUBSET S : SumFunctionOnSet(h, T) =
                    SumFunctionOnSet(f, T) + SumFunctionOnSet(g, T)}
<1>1. {} \in F
  BY SumEmpty
<1>2. \A x \in S : f[x] \in Int /\ g[x] \in Int
  OBVIOUS
<1>3. ASSUME NEW T \in SUBSET S, NEW x \in T, T \ {x} \in F PROVE T \in F
  <2>1. /\ SumFunctionOnSet(f, T) = f[x] + SumFunctionOnSet(f, T \ {x})
        /\ SumFunctionOnSet(f, T \ {x}) \in Int
    <3>1. \A y \in S : f[y] \in Int
      BY <1>2
    <3> QED
      BY <3>1, SumOf
  <2>2. /\ SumFunctionOnSet(g, T) = g[x] + SumFunctionOnSet(g, T \ {x})
        /\ SumFunctionOnSet(g, T \ {x}) \in Int
    <3>1. \A y \in S : g[y] \in Int
      BY <1>2
    <3> QED
      BY <3>1, SumOf
  <2>3. SumFunctionOnSet(h, T) = h[x] + SumFunctionOnSet(h, T \ {x})
    <3>1. \A y \in S : h[y] \in Int
      OBVIOUS
    <3> QED
      BY <3>1, SumOf
  <2>4. /\ f[x] \in Int /\ g[x] \in Int /\ h[x] = f[x] + g[x]
        /\ SumFunctionOnSet(h, T \ {x}) =
             SumFunctionOnSet(f, T \ {x}) + SumFunctionOnSet(g, T \ {x})
    BY <1>3
  <2> QED
    BY <2>1, <2>2, <2>3, <2>4
<1> HIDE DEF F
<1>4. S \in F
  BY <1>1, <1>3, OneByOne
<1> QED
  BY <1>4 DEF F

LEMMA SumTimes ==
    ASSUME NEW f, NEW g, NEW S, IsFiniteSet(S), NEW c \in Int,
           \A x \in S : f[x] \in Int /\ g[x] = c * f[x]
    PROVE  SumFunctionOnSet(g, S) = c * SumFunctionOnSet(f, S)
<1> DEFINE F == {T \in SUBSET S :
                   SumFunctionOnSet(g, T) = c * SumFunctionOnSet(f, T)}
<1>1. {} \in F
  <2>1. SumFunctionOnSet(f, {}) = 0 /\ SumFunctionOnSet(g, {}) = 0
    BY SumEmpty
  <2>2. c * 0 = 0
    OBVIOUS
  <2> QED
    BY <2>1, <2>2
<1>2. \A x \in S : f[x] \in Int
  OBVIOUS
<1>3. ASSUME NEW T \in SUBSET S, NEW x \in T, T \ {x} \in F PROVE T \in F
  <2>1. /\ SumFunctionOnSet(f, T) = f[x] + SumFunctionOnSet(f, T \ {x})
        /\ SumFunctionOnSet(f, T \ {x}) \in Int
    <3>1. \A y \in S : f[y] \in Int
      BY <1>2
    <3>2. SumFunctionOnSet(f, T) = f[x] + SumFunctionOnSet(f, T \ {x})
      BY <3>1, SumOf
    <3>3. SumFunctionOnSet(f, T \ {x}) \in Int
      BY <3>1, SumOf
    <3> QED
      BY <3>2, <3>3
  <2>2. SumFunctionOnSet(g, T) = g[x] + SumFunctionOnSet(g, T \ {x})
    <3>1. \A y \in S : g[y] \in Int
      OBVIOUS
    <3> QED
      BY <3>1, SumOf
  <2>3. /\ f[x] \in Int /\ g[x] = c * f[x]
        /\ SumFunctionOnSet(g, T \ {x}) = c * SumFunctionOnSet(f, T \ {x})
    BY <1>3
  <2>4. \A m, n \in Int : c * (m + n) = c * m + c * n
    OBVIOUS
  <2> QED
    BY <2>1, <2>2, <2>3, <2>4
<1> HIDE DEF F
<1>4. S \in F
  BY <1>1, <1>3, OneByOne
<1> QED
  BY <1>4 DEF F

LEMMA SumUnion ==
    ASSUME NEW f, NEW S, NEW U, IsFiniteSet(S), IsFiniteSet(U), S \cap U = {},
           \A x \in S \cup U : f[x] \in Int
    PROVE  SumFunctionOnSet(f, S \cup U) =
              SumFunctionOnSet(f, S) + SumFunctionOnSet(f, U)
<1> DEFINE F == {T \in SUBSET S : SumFunctionOnSet(f, T \cup U) =
                    SumFunctionOnSet(f, T) + SumFunctionOnSet(f, U)}
<1>1. IsFiniteSet(S \cup U) /\ SumFunctionOnSet(f, U) \in Int
  BY FS_Union, SumRemove
<1>2. {} \in F
  <2>1. {} \cup U = U
    OBVIOUS
  <2> QED
    BY <1>1, <2>1, SumEmpty
<1>3. ASSUME NEW T \in SUBSET S, NEW x \in T, T \ {x} \in F PROVE T \in F
  <2>1. /\ SumFunctionOnSet(f, T) = f[x] + SumFunctionOnSet(f, T \ {x})
        /\ SumFunctionOnSet(f, T \ {x}) \in Int
    BY SumOf
  <2>2. SumFunctionOnSet(f, T \cup U)
          = f[x] + SumFunctionOnSet(f, (T \cup U) \ {x})
    BY <1>1, SumOf
  <2>3. (T \cup U) \ {x} = (T \ {x}) \cup U
    OBVIOUS
  <2>4. SumFunctionOnSet(f, (T \ {x}) \cup U) =
          SumFunctionOnSet(f, T \ {x}) + SumFunctionOnSet(f, U)
    BY <1>3
  <2>5. f[x] \in Int
    OBVIOUS
  <2>6. SumFunctionOnSet(f, T \cup U) =
          f[x] + (SumFunctionOnSet(f, T \ {x}) + SumFunctionOnSet(f, U))
    BY <2>2, <2>3, <2>4
  <2>7. SumFunctionOnSet(f, T \cup U) =
          SumFunctionOnSet(f, T) + SumFunctionOnSet(f, U)
    BY <1>1, <2>1, <2>5, <2>6
  <2> QED
    BY <2>7
<1> HIDE DEF F
<1>4. S \in F
  BY <1>2, <1>3, OneByOne
<1> QED
  BY <1>4 DEF F

\* g holds the sums of the rows of f, h the sums of its columns c.
Crossed(f, g, c, h, S, U) ==
    /\ \A e \in S : /\ \A u \in U : f[e][u] \in Int
                    /\ g[e] = SumFunctionOnSet(f[e], U)
    /\ \A u \in U : /\ \A e \in S : c[u][e] = f[e][u]
                    /\ h[u] = SumFunctionOnSet(c[u], S)

\* Sums by rows and sums by columns are one.
LEMMA SumSwap ==
    ASSUME NEW f, NEW g, NEW c, NEW h, NEW S, NEW U,
           IsFiniteSet(S), IsFiniteSet(U), Crossed(f, g, c, h, S, U)
    PROVE  SumFunctionOnSet(h, U) = SumFunctionOnSet(g, S)
<1> DEFINE col(u) == c[u]
           row(T) == [u \in U |-> SumFunctionOnSet(col(u), T)]
           F == {T \in SUBSET S : SumFunctionOnSet(row(T), U) = SumFunctionOnSet(g, T)}
<1>1. \A u \in U : \A e \in S : col(u)[e] = f[e][u] /\ col(u)[e] \in Int
  BY DEF Crossed
<1>2. \A T : \A u \in U : row(T)[u] = SumFunctionOnSet(col(u), T)
  OBVIOUS
<1>3. \A e \in S : g[e] \in Int
  <2> SUFFICES ASSUME NEW e \in S PROVE g[e] \in Int
    OBVIOUS
  <2>1. PICK w : w = f[e]
    OBVIOUS
  <2>2. (\A u \in U : w[u] \in Int) /\ g[e] = SumFunctionOnSet(w, U)
    BY <2>1 DEF Crossed
  <2>3. SumFunctionOnSet(w, U) \in Int
    BY <2>2, SumRemove
  <2> QED
    BY <2>2, <2>3
<1>4. \A u \in U : h[u] = SumFunctionOnSet(col(u), S)
  BY DEF Crossed
<1> HIDE DEF col, row
<1>5. ASSUME NEW T \in SUBSET S, NEW u \in U PROVE row(T)[u] \in Int
  <2>1. PICK k : k = col(u)
    OBVIOUS
  <2>2. IsFiniteSet(T) /\ \A e \in T : k[e] \in Int
    BY <1>1, <2>1, FS_Subset
  <2>3. SumFunctionOnSet(k, T) \in Int
    BY <2>2, SumRemove
  <2> QED
    BY <1>2, <2>1, <2>3
<1>6. {} \in F
  <2>1. PICK r : r = row({})
    OBVIOUS
  <2>2. \A u \in U : r[u] \in Int /\ r[u] = 0 * r[u]
    BY <1>2, <2>1, SumEmpty
  <2>3. SumFunctionOnSet(r, U) = 0 * SumFunctionOnSet(r, U)
    BY <2>2, SumTimes
  <2>4. SumFunctionOnSet(r, U) \in Int
    BY <2>2, SumRemove
  <2>5. SumFunctionOnSet(r, U) = 0
    BY <2>3, <2>4
  <2> QED
    BY <2>1, <2>5, SumEmpty
<1>7. ASSUME NEW T \in SUBSET S, NEW x \in T, T \ {x} \in F PROVE T \in F
  <2>1. PICK w, old, new : w = f[x] /\ old = row(T \ {x}) /\ new = row(T)
    OBVIOUS
  <2>2. ASSUME NEW u \in U
        PROVE  w[u] \in Int /\ old[u] \in Int /\ new[u] = w[u] + old[u]
    <3>1. PICK k : k = col(u)
      OBVIOUS
    <3>2. \A e \in S : k[e] \in Int
      BY <1>1, <3>1
    <3>3. SumFunctionOnSet(k, T) = k[x] + SumFunctionOnSet(k, T \ {x})
      BY <3>2, SumOf
    <3>4. k[x] = w[u] /\ w[u] \in Int
      BY <1>1, <2>1, <3>1
    <3>5. T \ {x} \in SUBSET S
      OBVIOUS
    <3> QED
      BY <1>2, <1>5, <2>1, <3>1, <3>3, <3>4, <3>5
  <2>3. SumFunctionOnSet(new, U) = SumFunctionOnSet(w, U) + SumFunctionOnSet(old, U)
    BY <2>2, SumPlus
  <2>4. SumFunctionOnSet(g, T) = g[x] + SumFunctionOnSet(g, T \ {x})
    BY <1>3, SumOf
  <2>5. g[x] = SumFunctionOnSet(w, U)
    BY <2>1 DEF Crossed
  <2> QED
    BY <1>7, <2>1, <2>3, <2>4, <2>5
<1> HIDE DEF F
<1>8. S \in F
  BY <1>6, <1>7, OneByOne
<1>9. SumFunctionOnSet(h, U) = SumFunctionOnSet(row(S), U)
  <2>1. PICK r : r = row(S)
    OBVIOUS
  <2>2. \A u \in U : r[u] \in Int /\ h[u] = r[u]
    BY <1>2, <1>4, <1>5, <2>1
  <2>3. SumFunctionOnSet(h, U) = SumFunctionOnSet(r, U)
    BY <2>2, SumSame
  <2> QED
    BY <2>1, <2>3
<1> QED
  BY <1>8, <1>9 DEF F

\* A sum of ones and zeros counts the ones.
LEMMA SumCounts ==
    ASSUME NEW f, NEW S, IsFiniteSet(S), \A x \in S : f[x] \in {0, 1}
    PROVE  SumFunctionOnSet(f, S) = Cardinality({x \in S : f[x] = 1})
<1> DEFINE ones(T) == {x \in T : f[x] = 1}
           F == {T \in SUBSET S : SumFunctionOnSet(f, T) = Cardinality(ones(T))}
<1>1. {} \in F
  <2>1. ones({}) = {} /\ Cardinality({}) = 0
    BY FS_EmptySet
  <2> QED
    BY <2>1, SumEmpty
<1>2. ASSUME NEW T \in SUBSET S, NEW x \in T, T \ {x} \in F PROVE T \in F
  <2>1. SumFunctionOnSet(f, T) = f[x] + SumFunctionOnSet(f, T \ {x})
    BY SumOf
  <2>2. SumFunctionOnSet(f, T \ {x}) = Cardinality(ones(T \ {x}))
    BY <1>2
  <2>3. IsFiniteSet(ones(T \ {x})) /\ Cardinality(ones(T \ {x})) \in Nat
    BY FS_Subset, FS_CardinalityType
  <2>4. CASE f[x] = 0
    <3>1. ones(T) = ones(T \ {x})
      BY <2>4
    <3> QED
      BY <2>1, <2>2, <2>3, <2>4, <3>1
  <2>5. CASE f[x] = 1
    <3>1. ones(T) = ones(T \ {x}) \cup {x} /\ x \notin ones(T \ {x})
      BY <2>5
    <3>2. Cardinality(ones(T)) = Cardinality(ones(T \ {x})) + 1
      BY <2>3, <3>1, FS_AddElement
    <3> QED
      BY <2>1, <2>2, <2>3, <2>5, <3>2
  <2> QED
    BY <2>4, <2>5
<1> HIDE DEF F
<1>3. S \in F
  BY <1>1, <1>2, OneByOne
<1> QED
  BY <1>3 DEF F
\* A sum over other names for the same things.
LEMMA SumRenamed ==
    ASSUME NEW f, NEW h, NEW S, IsFiniteSet(S), NEW to,
           \A x \in S : h[x] \in Int /\ f[to[x]] = h[x],
           \A x, y \in S : to[x] = to[y] => x = y
    PROVE  SumFunctionOnSet(f, {to[x] : x \in S}) = SumFunctionOnSet(h, S)
<1> DEFINE image(T) == {to[x] : x \in T}
           F == {T \in SUBSET S :
                   SumFunctionOnSet(f, image(T)) = SumFunctionOnSet(h, T)}
<1>1. IsFiniteSet(image(S)) /\ \A y \in image(S) : f[y] \in Int
  <2>1. [x \in S |-> to[x]] \in Surjection(S, image(S))
    BY DEF Surjection
  <2>2. IsFiniteSet(image(S))
    BY <2>1, FS_Surjection
  <2> QED
    BY <2>2
<1>2. {} \in F
  <2>1. image({}) = {}
    OBVIOUS
  <2> QED
    BY <2>1, SumEmpty
<1>3. ASSUME NEW T \in SUBSET S, NEW x \in T, T \ {x} \in F PROVE T \in F
  <2>1. /\ image(T) \in SUBSET image(S) /\ to[x] \in image(T)
        /\ image(T \ {x}) = image(T) \ {to[x]}
    OBVIOUS
  <2>2. SumFunctionOnSet(f, image(T \ {x})) = SumFunctionOnSet(h, T \ {x})
    BY <1>3
  <2>3. SumFunctionOnSet(h, T) = h[x] + SumFunctionOnSet(h, T \ {x})
    BY SumOf
  <2>4. SumFunctionOnSet(f, image(T))
          = f[to[x]] + SumFunctionOnSet(f, image(T) \ {to[x]})
    <3>1. PICK I, J, y : I = image(S) /\ J = image(T) /\ y = to[x]
      OBVIOUS
    <3>2. IsFiniteSet(I) /\ \A z \in I : f[z] \in Int
      BY <1>1, <3>1
    <3>3. J \in SUBSET I /\ y \in J
      BY <2>1, <3>1
    <3>4. SumFunctionOnSet(f, J) = f[y] + SumFunctionOnSet(f, J \ {y})
      BY <3>2, <3>3, SumOf
    <3> QED
      BY <3>1, <3>4
  <2> HIDE DEF image
  <2> QED
    BY <2>1, <2>2, <2>3, <2>4
<1> HIDE DEF F
<1>4. S \in F
  BY <1>2, <1>3, OneByOne
<1> QED
  BY <1>4 DEF F

\* There is a number beyond those of a finite set.
LEMMA Bounded ==
    ASSUME NEW S \in SUBSET Nat, IsFiniteSet(S)
    PROVE  \E n \in Nat : \A x \in S : x < n
<1> DEFINE F == {T \in SUBSET S : \E n \in Nat : \A x \in T : x < n}
<1>1. {} \in F
  OBVIOUS
<1>2. ASSUME NEW T \in SUBSET S, NEW x \in T, T \ {x} \in F PROVE T \in F
  <2>1. PICK n \in Nat : \A y \in T \ {x} : y < n
    BY <1>2
  <2>2. PICK m \in Nat : m >= n /\ m > x
    <3>1. x \in Nat
      OBVIOUS
    <3>2. CASE x < n
      BY <3>2
    <3>3. CASE ~ x < n
      BY <3>1, <3>3
    <3> QED
      BY <3>2, <3>3
  <2>3. \A y \in T : y < m
    <3>1. \A y \in T : y \in Nat
      OBVIOUS
    <3> QED
      BY <2>1, <2>2, <3>1
  <2> QED
    BY <2>3
<1> HIDE DEF F
<1>3. S \in F
  BY <1>1, <1>2, OneByOne
<1> QED
  BY <1>3 DEF F
-----------------------------------------------------------------------------
(***************************************************************************)
(* Shares by largest remainder                                              *)
(***************************************************************************)
RankIn(R, D, u) == Cardinality({v \in D : <<v, u>> \in R})
Leading(R, D, k) == {u \in D : RankIn(R, D, u) < k}

\* In a strict total order, k elements have fewer than k before them.
LEMMA Ranks ==
    ASSUME NEW D, IsFiniteSet(D), NEW R,
           \A u \in D : <<u, u>> \notin R,
           \A u, v \in D : u # v => <<u, v>> \in R \/ <<v, u>> \in R,
           \A u, v, x \in D : <<u, v>> \in R /\ <<v, x>> \in R => <<u, x>> \in R,
           NEW k \in Nat, k <= Cardinality(D)
    PROVE  Cardinality(Leading(R, D, k)) = k
<1> DEFINE before(u) == {v \in D : <<v, u>> \in R}
           rank == [u \in D |-> Cardinality(before(u))]
           n == Cardinality(D)
           K == {u \in D : Cardinality(before(u)) < k}
<1>1. n \in Nat /\ \A u \in D : IsFiniteSet(before(u)) /\ rank[u] \in Nat
  BY FS_Subset, FS_CardinalityType
<1>2. \A u \in D : rank[u] < n
  <2> SUFFICES ASSUME NEW u \in D PROVE rank[u] < n
    OBVIOUS
  <2>1. Cardinality(before(u)) <= n /\ Cardinality(before(u)) # n
    BY FS_Subset
  <2> QED
    BY <1>1, <2>1
<1>3. ASSUME NEW u \in D, NEW v \in D, <<v, u>> \in R PROVE rank[v] < rank[u]
  <2>1. before(v) \in SUBSET before(u) /\ before(v) # before(u)
    BY <1>3
  <2>2. /\ Cardinality(before(v)) <= Cardinality(before(u))
        /\ Cardinality(before(v)) # Cardinality(before(u))
    BY <1>1, <2>1, FS_Subset
  <2> QED
    BY <1>1, <2>2
<1>4. \A u, v \in D : rank[u] = rank[v] => u = v
  <2> SUFFICES ASSUME NEW u \in D, NEW v \in D, u # v PROVE rank[u] # rank[v]
    OBVIOUS
  <2>1. rank[u] \in Nat /\ rank[v] \in Nat
    BY <1>1
  <2>2. <<u, v>> \in R \/ <<v, u>> \in R
    OBVIOUS
  <2>3. rank[u] < rank[v] \/ rank[v] < rank[u]
    BY <1>3, <2>2
  <2> HIDE DEF rank
  <2> QED
    BY <2>1, <2>3
<1> HIDE DEF n
<1>5. rank \in [D -> 0..(n - 1)]
  <2>1. ASSUME NEW u \in D PROVE rank[u] \in 0..(n - 1)
    <3>1. rank[u] \in Nat /\ rank[u] < n
      BY <1>1, <1>2
    <3> HIDE DEF rank
    <3> QED
      BY <1>1, <3>1
  <2> QED
    BY <2>1
<1>6. Cardinality(0..(n - 1)) = n /\ IsFiniteSet(0..(n - 1))
  BY <1>1, FS_Interval
<1>7. \A j \in 0..(n - 1) : \E u \in D : rank[u] = j
  <2> HIDE DEF rank
  <2>1. rank \in Injection(D, 0..(n - 1))
    BY <1>4, <1>5 DEF Injection, IsInjective
  <2>2. rank \in Surjection(D, 0..(n - 1))
    BY <1>6, <2>1, FS_Injection DEF n
  <2> QED
    BY <2>2 DEF Surjection
<1> DEFINE first == [u \in K |-> rank[u]]
<1>8. first \in [K -> 0..(k - 1)]
  <2>1. \A u \in K : rank[u] \in 0..(k - 1)
    BY <1>1
  <2> QED
    BY <2>1
<1>9. \A j \in 0..(k - 1) : \E u \in K : first[u] = j
  <2> SUFFICES ASSUME NEW j \in 0..(k - 1) PROVE \E u \in K : first[u] = j
    OBVIOUS
  <2>1. j \in 0..(n - 1) /\ j < k
    BY <1>1 DEF n
  <2>2. PICK u \in D : rank[u] = j
    BY <1>7, <2>1
  <2> QED
    BY <2>1, <2>2
<1>10. \A u, v \in K : first[u] = first[v] => u = v
  BY <1>4
<1>11. Cardinality(0..(k - 1)) = k /\ IsFiniteSet(0..(k - 1))
  BY FS_Interval
<1> HIDE DEF first, K
<1>12. first \in Injection(K, 0..(k - 1)) /\ first \in Surjection(K, 0..(k - 1))
  BY <1>8, <1>9, <1>10 DEF Injection, IsInjective, Surjection
<1>13. Cardinality(K) = k
  BY <1>11, <1>12, FS_Injection
<1>14. K = Leading(R, D, k)
  BY DEF K, Leading, RankIn
<1> QED
  BY <1>13, <1>14
LEMMA DivMod ==
    ASSUME NEW m \in Nat, NEW n \in Nat \ {0}
    PROVE  /\ m \div n \in Nat /\ m % n \in 0..(n - 1)
           /\ m = n * (m \div n) + (m % n)
<1>1. m % n \in 0..(n - 1)
  OBVIOUS
<1>2. m \div n \in Int
  OBVIOUS
<1>3. m = n * (m \div n) + (m % n)
  OBVIOUS
<1>4. m \div n \in Nat
  OBVIOUS
<1> QED
  BY <1>1, <1>3, <1>4

LEMMA ProductFact == \A m, n \in Nat : m * n \in Nat /\ m * n = n * m
  OBVIOUS

\* Less than a multiple of a positive number, in multiples of it.
LEMMA FewerTimes ==
    ASSUME NEW c \in Nat \ {0}, NEW m \in Int, NEW n \in Int, c * m <= c * n
    PROVE  m <= n
<1> SUFFICES ASSUME m >= n + 1 PROVE FALSE
  OBVIOUS
<1>1. c * m >= c * (n + 1)
  OBVIOUS
<1>2. c * (n + 1) = c * n + c
  OBVIOUS
<1>3. c * n \in Int
  OBVIOUS
<1>4. c * m \in Int /\ c >= 1
  OBVIOUS
<1> QED
  BY <1>1, <1>2, <1>3, <1>4
\* Weights of units, of which at least one counts.
Weighted(w) ==
    /\ IsFiniteSet(DOMAIN w) /\ DOMAIN w \in SUBSET Nat
    /\ w \in [DOMAIN w -> Nat] /\ SumFunction(w) > 0

LEMMA WholeFact ==
    ASSUME NEW w, Weighted(w)
    PROVE  SumFunction(w) \in Nat \ {0}
<1>1. SumFunctionOnSet(w, DOMAIN w) \in Nat
  BY SumNat DEF Weighted
<1> QED
  BY <1>1 DEF SumFunction, Weighted

LEMMA QuotaFact ==
    ASSUME NEW w, Weighted(w), NEW total \in Nat, NEW u \in DOMAIN w
    PROVE  /\ Floors(w, total)[u] \in Nat
           /\ Fraction(w, total, u) \in 0..(SumFunction(w) - 1)
           /\ w[u] * total \in Nat
           /\ w[u] * total =
                SumFunction(w) * Floors(w, total)[u] + Fraction(w, total, u)
<1> DEFINE whole == SumFunction(w)
           quota == w[u] * total
<1>1. whole \in Nat \ {0}
  BY WholeFact
<1>2. quota \in Nat
  <2>1. w[u] \in Nat
    BY DEF Weighted
  <2> QED
    BY <2>1, ProductFact
<1>3. Floors(w, total)[u] = quota \div whole /\ Fraction(w, total, u) = quota % whole
  BY DEF Floors, Fraction
<1> HIDE DEF whole, quota
<1> QED
  BY <1>1, <1>2, <1>3, DivMod DEF whole, quota

\* The cents left over: at most one for each fraction.
LEMMA LeftFact ==
    ASSUME NEW w, Weighted(w), NEW total \in Nat
    PROVE  /\ Left(w, total) \in Nat
           /\ Left(w, total) <=
                Cardinality({u \in DOMAIN w : Fraction(w, total, u) > 0})
<1> DEFINE D == DOMAIN w
           whole == SumFunction(w)
           quota == [u \in D |-> w[u] * total]
           floor == [u \in D |-> Floors(w, total)[u]]
           part == [u \in D |-> Fraction(w, total, u)]
           scaled == [u \in D |-> whole * floor[u]]
           some == [u \in D |-> IF part[u] > 0 THEN 1 ELSE 0]
           bound == [u \in D |-> whole * some[u]]
           P == {u \in D : Fraction(w, total, u) > 0}
<1>1. whole \in Nat \ {0} /\ IsFiniteSet(D)
  BY WholeFact DEF Weighted
<1>2. \A u \in D : /\ floor[u] \in Nat /\ part[u] \in Nat /\ part[u] < whole
                    /\ quota[u] = whole * floor[u] + part[u]
  BY <1>1, QuotaFact
<1>3. SumFunctionOnSet(quota, D) = total * whole
  <2>1. \A u \in D : w[u] \in Int /\ quota[u] = total * w[u]
    BY ProductFact DEF Weighted
  <2>2. total \in Int
    OBVIOUS
  <2> HIDE DEF quota, D
  <2>3. SumFunctionOnSet(quota, D) = total * SumFunctionOnSet(w, D)
    BY <1>1, <2>1, <2>2, SumTimes
  <2> QED
    BY <2>3 DEF D, SumFunction
<1>4. SumFunctionOnSet(floor, D) \in Nat /\ SumFunctionOnSet(part, D) \in Nat
  <2>1. (\A u \in D : floor[u] \in Nat) /\ \A u \in D : part[u] \in Nat
    BY <1>2
  <2> HIDE DEF floor, part, D
  <2> QED
    BY <1>1, <2>1, SumNat
<1>5. SumFunctionOnSet(scaled, D) = whole * SumFunctionOnSet(floor, D)
  <2>1. \A u \in D : floor[u] \in Int /\ scaled[u] = whole * floor[u]
    BY <1>2
  <2>2. whole \in Int
    BY <1>1
  <2> HIDE DEF floor, scaled, D, whole
  <2> QED
    BY <1>1, <2>1, <2>2, SumTimes
<1>6. SumFunctionOnSet(quota, D) =
        SumFunctionOnSet(scaled, D) + SumFunctionOnSet(part, D)
  <2>1. \A u \in D : /\ scaled[u] \in Int /\ part[u] \in Int
                      /\ quota[u] = scaled[u] + part[u]
    <3> SUFFICES ASSUME NEW u \in D
                 PROVE  /\ scaled[u] \in Int /\ part[u] \in Int
                        /\ quota[u] = scaled[u] + part[u]
      OBVIOUS
    <3>1. scaled[u] = whole * floor[u]
      OBVIOUS
    <3>2. floor[u] \in Nat /\ part[u] \in Nat /\ quota[u] = whole * floor[u] + part[u]
      BY <1>2
    <3> HIDE DEF scaled, floor, part, quota, whole
    <3>3. whole * floor[u] \in Int
      BY <1>1, <3>2, ProductFact
    <3> QED
      BY <3>1, <3>2, <3>3
  <2> HIDE DEF scaled, part, quota, D
  <2> QED
    BY <1>1, <2>1, SumPlus
<1>7. /\ SumFunctionOnSet(part, D) <= SumFunctionOnSet(bound, D)
      /\ SumFunctionOnSet(bound, D) = whole * SumFunctionOnSet(some, D)
  <2>1. \A u \in D : some[u] \in Int /\ bound[u] = whole * some[u]
    OBVIOUS
  <2>2. \A u \in D : part[u] \in Int /\ bound[u] \in Int /\ part[u] <= bound[u]
    <3> SUFFICES ASSUME NEW u \in D
                 PROVE  part[u] \in Int /\ bound[u] \in Int /\ part[u] <= bound[u]
      OBVIOUS
    <3>1. part[u] \in Nat /\ part[u] < whole /\ bound[u] = whole * some[u]
            /\ some[u] = IF part[u] > 0 THEN 1 ELSE 0
      BY <1>2
    <3> HIDE DEF part, bound, whole, some
    <3>2. whole * 1 = whole /\ whole * 0 = 0
      BY <1>1
    <3> QED
      BY <1>1, <3>1, <3>2
  <2>3. whole \in Int
    BY <1>1
  <2> HIDE DEF part, bound, whole, some, D
  <2>4. SumFunctionOnSet(part, D) <= SumFunctionOnSet(bound, D)
    BY <1>1, <2>2, SumAtMost
  <2>5. SumFunctionOnSet(bound, D) = whole * SumFunctionOnSet(some, D)
    BY <1>1, <2>1, <2>3, SumTimes
  <2> QED
    BY <2>4, <2>5
<1>8. SumFunctionOnSet(some, D) = Cardinality(P)
  <2>1. \A u \in D : some[u] \in {0, 1}
    OBVIOUS
  <2>2. {u \in D : some[u] = 1} = P
    OBVIOUS
  <2> HIDE DEF some, D, P
  <2> QED
    BY <1>1, <2>1, <2>2, SumCounts
<1>9. Left(w, total) = total - SumFunctionOnSet(floor, D)
  <2>1. DOMAIN Floors(w, total) = D /\ floor = Floors(w, total)
    BY DEF Floors
  <2> QED
    BY <2>1 DEF Left, SumFunction
<1> DEFINE sum == SumFunctionOnSet(floor, D)
           rest == SumFunctionOnSet(part, D)
           n == Cardinality(P)
           left == Left(w, total)
<1>10. /\ total * whole = whole * sum + rest
       /\ rest <= whole * n /\ left = total - sum
       /\ sum \in Nat /\ rest \in Nat
  BY <1>3, <1>4, <1>5, <1>6, <1>7, <1>8, <1>9
<1>11. n \in Nat
  <2>1. P \in SUBSET D
    OBVIOUS
  <2> HIDE DEF P, D
  <2> QED
    BY <1>1, <2>1, FS_Subset, FS_CardinalityType
<1> HIDE DEF whole, sum, rest, n, left, floor, part, D, P, quota, scaled, some, bound
<1>12. whole * total = whole * sum + rest
  BY <1>1, <1>10, ProductFact
<1>13. whole * sum <= whole * total
  BY <1>1, <1>10, <1>12, ProductFact
<1>14. whole * total <= whole * (sum + n)
  <2>1. whole * (sum + n) = whole * sum + whole * n
    BY <1>1, <1>10, <1>11
  <2>2. whole * n \in Nat /\ whole * sum \in Nat
    BY <1>1, <1>10, <1>11, ProductFact
  <2> QED
    BY <1>10, <1>12, <2>1, <2>2
<1>15. sum <= total
  BY <1>1, <1>10, <1>13, FewerTimes
<1>16. total <= sum + n
  <2>1. sum + n \in Int /\ total \in Int
    BY <1>10, <1>11
  <2> QED
    BY <1>1, <1>14, <2>1, FewerTimes
<1>17. left \in Nat /\ left <= n
  BY <1>10, <1>11, <1>15, <1>16
<1> QED
  BY <1>17 DEF left, n, P, D

\* splitByLargestRemainder gives out every cent, and no unit is a cent or more
\* away from its exact quota: a unit of weight 0 gets nothing.
THEOREM SplitIsExact ==
    ASSUME NEW w, Weighted(w), NEW total \in Nat
    PROVE  /\ Split(w, total) \in [DOMAIN w -> Nat]
           /\ SumFunction(Split(w, total)) = total
           /\ \A u \in DOMAIN w :
                 /\ Split(w, total)[u] * SumFunction(w)
                      < w[u] * total + SumFunction(w)
                 /\ w[u] * total
                      < Split(w, total)[u] * SumFunction(w) + SumFunction(w)
<1> DEFINE D == DOMAIN w
           whole == SumFunction(w)
           left == Left(w, total)
           floor == [u \in D |-> Floors(w, total)[u]]
           ahead(u) == {v \in D : Ahead(w, total, v, u)}
           extra == [u \in D |-> IF Cardinality(ahead(u)) < left THEN 1 ELSE 0]
           share == Split(w, total)
<1>1. /\ whole \in Nat \ {0} /\ IsFiniteSet(D) /\ D \in SUBSET Nat
      /\ left \in Nat
      /\ left <= Cardinality({u \in D : Fraction(w, total, u) > 0})
  BY WholeFact, LeftFact DEF Weighted
<1>2. \A u \in D : /\ floor[u] \in Nat /\ Fraction(w, total, u) \in 0..(whole - 1)
                    /\ w[u] * total \in Nat
                    /\ w[u] * total = whole * floor[u] + Fraction(w, total, u)
  BY QuotaFact
<1>3. share = [u \in D |-> floor[u] + extra[u]]
  BY DEF Split
<1>4. Cardinality({u \in D : Cardinality(ahead(u)) < left}) = left
  <2> DEFINE R == {p \in D \X D : Ahead(w, total, p[1], p[2])}
             fraction(u) == Fraction(w, total, u)
  <2>1. \A u, v \in D : <<v, u>> \in R <=>
           \/ fraction(v) > fraction(u)
           \/ fraction(v) = fraction(u) /\ v < u
    BY DEF Ahead
  <2>2. \A u \in D : ahead(u) = {v \in D : <<v, u>> \in R}
    OBVIOUS
  <2>3. \A u \in D : fraction(u) \in Nat /\ u \in Nat
    BY <1>1, <1>2
  <2>4. left <= Cardinality(D)
    <3> DEFINE P == {u \in D : fraction(u) > 0}
    <3>1. P \in SUBSET D
      OBVIOUS
    <3> HIDE DEF P, D
    <3>2. Cardinality(P) <= Cardinality(D) /\ IsFiniteSet(P)
      BY <1>1, <3>1, FS_Subset
    <3>3. Cardinality(P) \in Nat /\ Cardinality(D) \in Nat
      BY <1>1, <3>2, FS_CardinalityType
    <3>4. left <= Cardinality(P)
      BY <1>1 DEF P
    <3> HIDE DEF left
    <3> QED
      BY <1>1, <3>2, <3>3, <3>4
  <2> HIDE DEF R, fraction, left
  <2>5. /\ \A u \in D : <<u, u>> \notin R
        /\ \A u, v \in D : u # v => <<u, v>> \in R \/ <<v, u>> \in R
    BY <2>1, <2>3
  <2>6. \A u, v, x \in D : <<u, v>> \in R /\ <<v, x>> \in R => <<u, x>> \in R
    BY <2>1, <2>3
  <2> HIDE DEF D
  <2>7. Cardinality(Leading(R, D, left)) = left
    BY <1>1, <2>4, <2>5, <2>6, Ranks
  <2>8. Leading(R, D, left) = {u \in D : Cardinality(ahead(u)) < left}
    BY <2>2 DEF Leading, RankIn
  <2> QED
    BY <2>7, <2>8
<1>5. SumFunctionOnSet(extra, D) = left
  <2>1. \A u \in D : extra[u] \in {0, 1}
    OBVIOUS
  <2>2. {u \in D : extra[u] = 1} = {u \in D : Cardinality(ahead(u)) < left}
    OBVIOUS
  <2>3. SumFunctionOnSet(extra, D) = Cardinality({u \in D : extra[u] = 1})
    <3> HIDE DEF extra, D
    <3> QED
      BY <1>1, <2>1, SumCounts
  <2> QED
    BY <1>4, <2>2, <2>3
<1>6. SumFunctionOnSet(floor, D) \in Nat /\ left = total - SumFunctionOnSet(floor, D)
  <2>1. \A u \in D : floor[u] \in Nat
    BY <1>2
  <2>2. floor = Floors(w, total) /\ DOMAIN floor = D
    BY DEF Floors
  <2>3. SumFunctionOnSet(floor, D) \in Nat
    <3> HIDE DEF floor, D
    <3> QED
      BY <1>1, <2>1, SumNat
  <2> QED
    BY <2>2, <2>3 DEF Left, SumFunction
<1>7. SumFunctionOnSet(share, D) = total
  <2>1. \A u \in D : /\ floor[u] \in Int /\ extra[u] \in Int
                      /\ share[u] = floor[u] + extra[u]
    BY <1>2, <1>3
  <2>2. IsFiniteSet(D)
    BY <1>1
  <2> HIDE DEF floor, extra, share, D, left
  <2>3. SumFunctionOnSet(share, D) =
          SumFunctionOnSet(floor, D) + SumFunctionOnSet(extra, D)
    BY <2>1, <2>2, SumPlus
  <2> QED
    BY <1>5, <1>6, <2>3
<1>8. ASSUME NEW u \in D, Fraction(w, total, u) = 0 PROVE extra[u] = 0
  <2> DEFINE P == {v \in D : Fraction(w, total, v) > 0}
  <2>1. P \in SUBSET ahead(u) /\ ahead(u) \in SUBSET D
    BY <1>8 DEF Ahead
  <2>2. extra[u] = IF Cardinality(ahead(u)) < left THEN 1 ELSE 0
    OBVIOUS
  <2>3. left <= Cardinality(P) /\ left \in Nat
    BY <1>1
  <2> HIDE DEF P, ahead, D, left, extra
  <2>4. IsFiniteSet(ahead(u)) /\ IsFiniteSet(P)
    BY <1>1, <2>1, FS_Subset
  <2>5. /\ Cardinality(P) <= Cardinality(ahead(u))
        /\ Cardinality(P) \in Nat /\ Cardinality(ahead(u)) \in Nat
    BY <2>1, <2>4, FS_Subset, FS_CardinalityType
  <2> QED
    BY <2>2, <2>3, <2>5
<1>9. ASSUME NEW u \in D
      PROVE  /\ share[u] \in Nat
             /\ share[u] * whole < w[u] * total + whole
             /\ w[u] * total < share[u] * whole + whole
  <2> DEFINE quota == w[u] * total
             part == Fraction(w, total, u)
             e == extra[u]
             f == floor[u]
  <2>1. share[u] = f + e
    BY <1>3
  <2>2. e \in {0, 1} /\ (part = 0 => e = 0)
    BY <1>8
  <2>3. /\ f \in Nat /\ part \in 0..(whole - 1) /\ quota \in Nat
        /\ quota = whole * f + part
    BY <1>2
  <2> HIDE DEF quota, part, e, f, share, whole
  <2>4. share[u] * whole = whole * f + whole * e /\ whole * f \in Nat
    <3>1. f \in Nat /\ e \in Nat /\ whole \in Nat
      BY <1>1, <2>2, <2>3
    <3>2. \A a, b, c \in Nat : (a + b) * c = c * a + c * b
      OBVIOUS
    <3> QED
      BY <2>1, <3>1, <3>2, ProductFact
  <2>5. whole * 0 = 0 /\ whole * 1 = whole
    BY <1>1
  <2>6. share[u] \in Nat
    BY <2>1, <2>2, <2>3
  <2>7. share[u] * whole < quota + whole
    BY <1>1, <2>2, <2>3, <2>4, <2>5
  <2>8. quota < share[u] * whole + whole
    BY <1>1, <2>2, <2>3, <2>4, <2>5
  <2> QED
    BY <2>6, <2>7, <2>8 DEF quota
<1>10. share \in [D -> Nat]
  BY <1>3, <1>9
<1>11. DOMAIN share = D
  BY <1>3
<1>12. SumFunction(share) = total
  BY <1>7, <1>11 DEF SumFunction
<1> HIDE DEF share, whole
<1> QED
  BY <1>9, <1>10, <1>12 DEF share, whole
=============================================================================
