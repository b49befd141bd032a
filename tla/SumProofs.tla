------------------------------ MODULE SumProofs ------------------------------
(***************************************************************************)
(* Sums over finite sets, as the models write them (SumFunction of         *)
(* Functions.tla): how a sum reacts when its function changes at a point,  *)
(* is added to another, or is cut into parts. The books of the ledger, the *)
(* market and the barter offers are balanced with these.                   *)
(*                                                                         *)
(* A sum is a fold, a recursive function on the subsets, so everything     *)
(* here goes by induction. The library's induction rules take a predicate, *)
(* which the provers cannot be given; the rules below take the SET of the  *)
(* subsets (or numbers) for which the claim holds, and come from the       *)
(* well-foundedness of strict inclusion.                                   *)
(***************************************************************************)
EXTENDS Integers, Functions, FiniteSetTheorems, TLAPS

-----------------------------------------------------------------------------
(* Induction. *)

\* A family of subsets of a finite set has one without a smaller one.
LEMMA SubsetsHaveLeast ==
  ASSUME NEW S, IsFiniteSet(S), NEW W \in SUBSET SUBSET S, W # {}
  PROVE  \E T \in W : \A U \in W : U \subseteq T => U = T
<1>1. IsWellFoundedOn(StrictSubsetOrdering(S), SUBSET S)
  BY FS_StrictSubsetOrderingWellFounded, FS_FiniteSubsetsOfFinite
<1>2. \E T \in W : \A U \in W : ~(<<U, T>> \in StrictSubsetOrdering(S))
  BY <1>1, WFMin
<1>3. PICK T \in W : \A U \in W : ~(<<U, T>> \in StrictSubsetOrdering(S))
  BY <1>2
<1>4. ASSUME NEW U \in W, U \subseteq T, U # T PROVE FALSE
  <2>1. <<U, T>> \in (SUBSET S) \X (SUBSET S)
    OBVIOUS
  <2>2. <<U, T>> \in StrictSubsetOrdering(S)
    BY <1>4, <2>1 DEF StrictSubsetOrdering
  <2> QED  BY <1>3, <2>2
<1> QED  BY <1>4

\* What holds of a set once it holds of all its proper subsets holds of all.
LEMMA StrongInduction ==
  ASSUME NEW S, IsFiniteSet(S), NEW G,
         \A T \in SUBSET S : (\A U \in SUBSET T : U # T => U \in G) => T \in G
  PROVE  \A T \in SUBSET S : T \in G
<1> DEFINE W == {T \in SUBSET S : T \notin G}
<1> SUFFICES ASSUME W # {} PROVE FALSE
  OBVIOUS
<1>1. W \in SUBSET SUBSET S
  OBVIOUS
<1>2. \E T \in W : \A U \in W : U \subseteq T => U = T
  <2> HIDE DEF W
  <2> QED  BY <1>1, SubsetsHaveLeast
<1>3. PICK T \in SUBSET S : T \notin G /\ \A U \in W : U \subseteq T => U = T
  BY <1>2
<1> QED  BY <1>3

\* What holds of {}, and of a set once it holds without some element, holds of all.
LEMMA SetInduction ==
  ASSUME NEW S, IsFiniteSet(S), NEW G, {} \in G,
         \A T \in SUBSET S : T # {} => \E x \in T : T \ {x} \in G => T \in G
  PROVE  \A T \in SUBSET S : T \in G
<1>1. ASSUME NEW T \in SUBSET S, \A U \in SUBSET T : U # T => U \in G PROVE T \in G
  <2>1. CASE T # {}
    <3>1. PICK x \in T : T \ {x} \in G => T \in G
      BY <2>1
    <3>2. T \ {x} \in SUBSET T /\ T \ {x} # T
      OBVIOUS
    <3> QED  BY <1>1, <3>1, <3>2
  <2> QED  BY <2>1
<1> QED  BY <1>1, StrongInduction

\* What holds of 0, and of n + 1 once it holds of n, holds of every number.
LEMMA NatInductionOn ==
  ASSUME NEW G, 0 \in G, \A n \in Nat : n \in G => n + 1 \in G
  PROVE  \A n \in Nat : n \in G
<1> SUFFICES ASSUME NEW n \in Nat, n \notin G PROVE FALSE
  OBVIOUS
<1> DEFINE W == {0 .. k : k \in {m \in 0 .. n : m \notin G}}
<1>1. W \in SUBSET SUBSET (0 .. n) /\ W # {}
  OBVIOUS
<1>2. IsFiniteSet(0 .. n)
  BY FS_Interval
<1>3. \E T \in W : \A U \in W : U \subseteq T => U = T
  <2> DEFINE D == 0 .. n
  <2>1. W \in SUBSET SUBSET D /\ W # {} /\ IsFiniteSet(D)
    BY <1>1, <1>2
  <2> HIDE DEF W, D
  <2> QED  BY <2>1, SubsetsHaveLeast
<1>4. PICK k \in 0 .. n : k \notin G /\ \A U \in W : U \subseteq 0 .. k => U = 0 .. k
  BY <1>3
<1>5. k - 1 \in 0 .. n /\ (k - 1) + 1 = k
  BY <1>4
<1>6. k - 1 \notin G
  BY <1>4, <1>5
<1>7. 0 .. (k - 1) \in W
  BY <1>5, <1>6
<1>8. 0 .. (k - 1) \subseteq 0 .. k
  OBVIOUS
<1>9. 0 .. (k - 1) = 0 .. k
  BY <1>4, <1>7, <1>8
<1>10. k \in 0 .. (k - 1)
  BY <1>9
<1> QED  BY <1>10

\* A set of numbers has a least one.
LEMMA LeastNatural ==
  ASSUME NEW N \in SUBSET Nat, N # {}
  PROVE  \E m \in N : \A k \in N : m <= k
<1> SUFFICES ASSUME \A m \in N : \E k \in N : ~(m <= k) PROVE FALSE
  OBVIOUS
<1> DEFINE G == {n \in Nat : \A k \in 0 .. n : k \notin N}
<1>1. 0 \in G
  OBVIOUS
<1>2. ASSUME NEW n \in Nat, n \in G PROVE n + 1 \in G
  <2>1. n + 1 \notin N
    BY <1>2
  <2> QED  BY <1>2, <2>1
<1>3. \A n \in Nat : n \in G
  <2> HIDE DEF G
  <2> QED  BY <1>1, <1>2, NatInductionOn
<1>4. PICK n \in Nat : n \in N
  OBVIOUS
<1>5. n \in 0 .. n
  OBVIOUS
<1>6. n \in G
  BY <1>3
<1> QED  BY <1>4, <1>5, <1>6

-----------------------------------------------------------------------------
(* The definition of the sums, unfolded. *)

Chosen(s) == CHOOSE x \in s : TRUE

\* g is a function of partial sums of f.
Unfolds(f, S, g) ==
  g = [s \in SUBSET S |-> IF s = {} THEN 0 ELSE f[Chosen(s)] + g[s \ {Chosen(s)}]]

Partial(f, S) ==
  LET iter[s \in SUBSET S] == IF s = {} THEN 0 ELSE f[Chosen(s)] + iter[s \ {Chosen(s)}]
  IN  iter

\* The sum is the last of the partial sums.
LEMMA SumIsPartial ==
  ASSUME NEW f, NEW S
  PROVE  SumFunctionOnSet(f, S) = Partial(f, S)[S]
BY DEF SumFunctionOnSet, FoldFunctionOnSet, MapThenFoldSet, Partial, Chosen

\* There is such a function: it is built up by the sizes of the subsets.
LEMMA PartialExists ==
  ASSUME NEW S, IsFiniteSet(S), NEW f
  PROVE  \E g : Unfolds(f, S, g)
<1> DEFINE Step(s, g) == IF s = {} THEN 0 ELSE f[Chosen(s)] + g[s \ {Chosen(s)}]
           Good(g, n) == \A s \in SUBSET S : Cardinality(s) <= n => g[s] = Step(s, g)
           Fun(g) == g = [s \in SUBSET S |-> g[s]]
           G == {n \in Nat : \E g : Fun(g) /\ Good(g, n)}
<1>0. ASSUME NEW s \in SUBSET S
      PROVE  Cardinality(s) \in Nat /\ Cardinality(s) <= Cardinality(S) /\ IsFiniteSet(s)
  BY FS_Subset, FS_CardinalityType
<1>00. ASSUME NEW s \in SUBSET S, s # {}
      PROVE  s \ {Chosen(s)} \in SUBSET S /\ Cardinality(s \ {Chosen(s)}) = Cardinality(s) - 1
  <2>1. Chosen(s) \in s
    BY <1>00 DEF Chosen
  <2> QED  BY <1>0, <2>1, FS_RemoveElement
<1>1. 0 \in G
  <2> DEFINE g == [s \in SUBSET S |-> 0]
  <2>1. Fun(g)
    OBVIOUS
  <2>2. Good(g, 0)
    BY <1>0, FS_EmptySet
  <2> HIDE DEF g
  <2> QED  BY <2>1, <2>2
<1>2. ASSUME NEW n \in Nat, n \in G PROVE n + 1 \in G
  <2>1. PICK g : Fun(g) /\ Good(g, n)
    BY <1>2
  <2> DEFINE h == [s \in SUBSET S |-> IF Cardinality(s) <= n THEN g[s] ELSE Step(s, g)]
  <2>2. Fun(h)
    OBVIOUS
  <2>3. ASSUME NEW s \in SUBSET S, Cardinality(s) <= n + 1 PROVE h[s] = Step(s, h)
    <3>1. CASE s = {}
      BY <3>1, <2>1
    <3>2. CASE s # {}
      <4>1. h[s \ {Chosen(s)}] = g[s \ {Chosen(s)}]
        BY <3>2, <2>3, <1>00, <1>0
      <4>2. h[s] = Step(s, g)
        BY <2>1
      <4> QED  BY <3>2, <4>1, <4>2
    <3> QED  BY <3>1, <3>2
  <2>4. Good(h, n + 1)
    BY <2>3
  <2> HIDE DEF h, Good, Fun
  <2>5. \E i : Fun(i) /\ Good(i, n + 1)
    BY <2>2, <2>4
  <2> QED  BY <2>5
<1>3. Cardinality(S) \in G
  <2>1. \A n \in Nat : n \in G
    <3> HIDE DEF G
    <3> QED  BY <1>1, <1>2, NatInductionOn
  <2> QED  BY <2>1, FS_CardinalityType
<1>4. PICK g : Fun(g) /\ Good(g, Cardinality(S))
  BY <1>3
<1>5. \A s \in SUBSET S : g[s] = Step(s, g)
  BY <1>4, <1>0
<1>6. g = [s \in SUBSET S |-> Step(s, g)]
  BY <1>4, <1>5
<1> QED  BY <1>6 DEF Unfolds

\* The partial sums satisfy their own recursion.
LEMMA PartialUnfolds ==
  ASSUME NEW S, IsFiniteSet(S), NEW f
  PROVE  Unfolds(f, S, Partial(f, S))
<1>1. PICK g : Unfolds(f, S, g)
  BY PartialExists
<1>2. \E h : h = [s \in SUBSET S |-> IF s = {} THEN 0 ELSE f[Chosen(s)] + h[s \ {Chosen(s)}]]
  BY <1>1 DEF Unfolds
<1> QED  BY <1>2 DEF Partial, Unfolds

\* ... which gives the sum of each subset from a smaller one.
LEMMA PartialAt ==
  ASSUME NEW S, IsFiniteSet(S), NEW f
  PROVE  /\ Partial(f, S)[{}] = 0
         /\ \A T \in SUBSET S : T # {} =>
              Chosen(T) \in T /\ Partial(f, S)[T] = f[Chosen(T)] + Partial(f, S)[T \ {Chosen(T)}]
<1>1. \A T \in SUBSET S : T # {} => Chosen(T) \in T
  BY DEF Chosen
<1> DEFINE g == Partial(f, S)
<1>2. g = [s \in SUBSET S |-> IF s = {} THEN 0 ELSE f[Chosen(s)] + g[s \ {Chosen(s)}]]
  BY PartialUnfolds DEF Unfolds
<1> HIDE DEF g
<1>3. \A T \in SUBSET S : g[T] = IF T = {} THEN 0 ELSE f[Chosen(T)] + g[T \ {Chosen(T)}]
  BY <1>2
<1>4. g[{}] = 0 /\ \A T \in SUBSET S : T # {} => g[T] = f[Chosen(T)] + g[T \ {Chosen(T)}]
  BY <1>3
<1> QED  BY <1>1, <1>4 DEF g

\* The sum over a set looks at nothing but the values there.
LEMMA PartialSame ==
  ASSUME NEW S, NEW R, NEW T \in SUBSET S, T \subseteq R, IsFiniteSet(S), IsFiniteSet(R),
         NEW f, NEW g, \A x \in T : f[x] = g[x]
  PROVE  Partial(f, S)[T] = Partial(g, R)[T]
<1> DEFINE p == Partial(f, S)
           q == Partial(g, R)
           G == {U \in SUBSET T : p[U] = q[U]}
<1>1. p[{}] = q[{}]
  BY PartialAt
<1>2. ASSUME NEW U \in SUBSET T, U # {} PROVE \E x \in U : U \ {x} \in G => U \in G
  <2>1. Chosen(U) \in U
    BY <1>2 DEF Chosen
  <2>2. p[U] = f[Chosen(U)] + p[U \ {Chosen(U)}]
    BY <1>2, PartialAt
  <2>3. q[U] = g[Chosen(U)] + q[U \ {Chosen(U)}]
    BY <1>2, PartialAt
  <2>4. f[Chosen(U)] = g[Chosen(U)]
    BY <2>1
  <2> HIDE DEF p, q
  <2>5. U \ {Chosen(U)} \in G => U \in G
    BY <2>2, <2>3, <2>4
  <2> QED  BY <2>1, <2>5
<1>3. {} \in G /\ IsFiniteSet(T)
  BY <1>1, FS_Subset
<1>4. \A U \in SUBSET T : U \in G
  <2> HIDE DEF G
  <2> QED  BY <1>2, <1>3, SetInduction
<1> QED  BY <1>4

\* Partial sums of integers are integers.
LEMMA PartialInt ==
  ASSUME NEW S, IsFiniteSet(S), NEW f, \A x \in S : f[x] \in Int
  PROVE  \A T \in SUBSET S : Partial(f, S)[T] \in Int
<1> DEFINE p == Partial(f, S)
           G == {T \in SUBSET S : p[T] \in Int}
<1>1. p[{}] \in Int
  BY PartialAt
<1>2. ASSUME NEW U \in SUBSET S, U # {} PROVE \E x \in U : U \ {x} \in G => U \in G
  <2>1. Chosen(U) \in U /\ p[U] = f[Chosen(U)] + p[U \ {Chosen(U)}]
    BY <1>2, PartialAt
  <2> HIDE DEF p
  <2>2. U \ {Chosen(U)} \in G => U \in G
    BY <2>1
  <2> QED  BY <2>1, <2>2
<1>3. {} \in G
  BY <1>1
<1>4. \A U \in SUBSET S : U \in G
  <2> HIDE DEF G
  <2> QED  BY <1>2, <1>3, SetInduction
<1> QED  BY <1>4

\* Any element may be taken first.
LEMMA PartialRemove ==
  ASSUME NEW S, IsFiniteSet(S), NEW f, \A x \in S : f[x] \in Int
  PROVE  \A T \in SUBSET S : \A x \in T : Partial(f, S)[T] = f[x] + Partial(f, S)[T \ {x}]
<1> DEFINE p == Partial(f, S)
           G == {T \in SUBSET S : \A x \in T : p[T] = f[x] + p[T \ {x}]}
<1>1. ASSUME NEW U \in SUBSET S, \A V \in SUBSET U : V # U => V \in G,
             NEW x \in U
      PROVE  p[U] = f[x] + p[U \ {x}]
  <2> DEFINE c == Chosen(U)
  <2>1. c \in U /\ p[U] = f[c] + p[U \ {c}]
    BY PartialAt
  <2>2. CASE x = c
    BY <2>1, <2>2
  <2>3. CASE x # c
    <3>1. p[U \ {c}] = f[x] + p[(U \ {c}) \ {x}]
      BY <1>1, <2>1, <2>3
    <3>2. p[U \ {x}] = f[c] + p[(U \ {x}) \ {c}]
      BY <1>1, <2>1, <2>3
    <3>3. (U \ {c}) \ {x} = (U \ {x}) \ {c}
      OBVIOUS
    <3>4. p[(U \ {c}) \ {x}] \in Int
      BY PartialInt
    <3>5. f[x] \in Int /\ f[c] \in Int
      BY <2>1
    <3> DEFINE r == p[(U \ {c}) \ {x}]
    <3>6. p[U \ {c}] = f[x] + r /\ p[U \ {x}] = f[c] + r /\ p[U] = f[c] + p[U \ {c}] /\ r \in Int
      BY <2>1, <3>1, <3>2, <3>3, <3>4
    <3> HIDE DEF r, p, c
    <3>7. p[U] = f[c] + (f[x] + r)
      BY <3>6
    <3>8. f[x] + p[U \ {x}] = f[x] + (f[c] + r)
      BY <3>6
    <3>9. f[c] + (f[x] + r) = f[x] + (f[c] + r)
      BY <3>5, <3>6
    <3> QED  BY <3>7, <3>8, <3>9, Zenon
  <2> QED  BY <2>2, <2>3
<1>2. \A U \in SUBSET S : U \in G
  <2>1. \A U \in SUBSET S : (\A V \in SUBSET U : V # U => V \in G) => U \in G
    BY <1>1
  <2> HIDE DEF G
  <2> QED  BY <2>1, StrongInduction
<1> QED  BY <1>2

-----------------------------------------------------------------------------
(* Sums. *)

Sum(f, S) == SumFunctionOnSet(f, S)

\* SumFunction sums over the whole domain.
LEMMA SumOfFunction ==
  ASSUME NEW f, NEW S, DOMAIN f = S
  PROVE  SumFunction(f) = Sum(f, S)
BY DEF SumFunction, Sum

\* Nothing to add.
LEMMA SumEmpty ==
  ASSUME NEW f
  PROVE  Sum(f, {}) = 0
BY PartialAt, SumIsPartial, FS_EmptySet DEF Sum

\* A sum of integers is an integer.
LEMMA SumInt ==
  ASSUME NEW S, IsFiniteSet(S), NEW f, \A x \in S : f[x] \in Int
  PROVE  Sum(f, S) \in Int
BY PartialInt, SumIsPartial DEF Sum

\* The sum looks at nothing but the values on the set.
LEMMA SumSame ==
  ASSUME NEW S, IsFiniteSet(S), NEW f, NEW g, \A x \in S : f[x] = g[x]
  PROVE  Sum(f, S) = Sum(g, S)
<1>1. Partial(f, S)[S] = Partial(g, S)[S]
  BY PartialSame
<1> QED  BY <1>1, SumIsPartial DEF Sum

\* One element out.
LEMMA SumRemove ==
  ASSUME NEW S, IsFiniteSet(S), NEW f, \A y \in S : f[y] \in Int, NEW x \in S
  PROVE  Sum(f, S) = f[x] + Sum(f, S \ {x})
<1>1. Partial(f, S)[S] = f[x] + Partial(f, S)[S \ {x}]
  BY PartialRemove
<1>2. IsFiniteSet(S \ {x})
  BY FS_RemoveElement
<1>3. Partial(f, S)[S \ {x}] = Partial(f, S \ {x})[S \ {x}]
  BY <1>2, PartialSame
<1> QED  BY <1>1, <1>3, SumIsPartial DEF Sum

\* One element in.
LEMMA SumAdd ==
  ASSUME NEW S, IsFiniteSet(S), NEW f, NEW x, x \notin S, \A y \in S \cup {x} : f[y] \in Int
  PROVE  Sum(f, S \cup {x}) = f[x] + Sum(f, S)
<1>1. IsFiniteSet(S \cup {x})
  BY FS_AddElement
<1>2. (S \cup {x}) \ {x} = S
  OBVIOUS
<1>3. Sum(f, S \cup {x}) = f[x] + Sum(f, (S \cup {x}) \ {x})
  BY <1>1, SumRemove
<1> QED  BY <1>2, <1>3

\* One value changes.
LEMMA SumChange ==
  ASSUME NEW S, IsFiniteSet(S), NEW f, NEW g, NEW x \in S,
         \A y \in S : f[y] \in Int /\ g[y] \in Int, \A y \in S \ {x} : f[y] = g[y]
  PROVE  Sum(g, S) = Sum(f, S) + (g[x] - f[x])
<1>1. IsFiniteSet(S \ {x})
  BY FS_RemoveElement
<1>2. Sum(f, S \ {x}) = Sum(g, S \ {x})
  BY <1>1, SumSame
<1>3. Sum(f, S) = f[x] + Sum(f, S \ {x})
  BY SumRemove
<1>4. Sum(g, S) = g[x] + Sum(g, S \ {x})
  BY SumRemove
<1>5. Sum(f, S \ {x}) \in Int
  BY <1>1, SumInt
<1> DEFINE r == Sum(f, S \ {x})
<1> HIDE DEF r
<1>6. Sum(f, S) = f[x] + r /\ Sum(g, S) = g[x] + r /\ r \in Int /\ f[x] \in Int /\ g[x] \in Int
  BY <1>2, <1>3, <1>4, <1>5 DEF r
<1> QED  BY <1>6

\* The sum of a pointwise sum.
LEMMA SumPlus ==
  ASSUME NEW S, IsFiniteSet(S), NEW f, NEW g, NEW h,
         \A x \in S : f[x] \in Int /\ g[x] \in Int /\ h[x] = f[x] + g[x]
  PROVE  Sum(h, S) = Sum(f, S) + Sum(g, S)
<1> DEFINE G == {T \in SUBSET S : Sum(h, T) = Sum(f, T) + Sum(g, T)}
<1>1. {} \in G
  BY SumEmpty
<1>2. ASSUME NEW T \in SUBSET S, T # {} PROVE \E x \in T : T \ {x} \in G => T \in G
  <2>1. PICK x \in T : TRUE
    BY <1>2
  <2>2. IsFiniteSet(T) /\ IsFiniteSet(T \ {x})
    BY FS_Subset, FS_RemoveElement
  <2> DEFINE a == Sum(f, T \ {x})
             b == Sum(g, T \ {x})
  <2>3. Sum(f, T) = f[x] + a /\ Sum(g, T) = g[x] + b
    BY <2>2, SumRemove
  <2>4. Sum(h, T) = h[x] + Sum(h, T \ {x})
    <3>1. \A y \in T : h[y] \in Int
      OBVIOUS
    <3> QED  BY <2>2, <3>1, SumRemove
  <2>5. a \in Int /\ b \in Int
    BY <2>2, SumInt
  <2>6. f[x] \in Int /\ g[x] \in Int /\ h[x] = f[x] + g[x]
    BY <2>1
  <2>7. ASSUME T \ {x} \in G PROVE Sum(h, T) = Sum(f, T) + Sum(g, T)
    <3>1. Sum(h, T \ {x}) = a + b
      BY <2>7
    <3> HIDE DEF a, b
    <3> QED  BY <2>3, <2>4, <2>5, <2>6, <3>1
  <2> QED  BY <2>7
<1>3. \A T \in SUBSET S : T \in G
  <2> HIDE DEF G
  <2> QED  BY <1>1, <1>2, SetInduction
<1> QED  BY <1>3

\* The same amount everywhere.
LEMMA SumConst ==
  ASSUME NEW S, IsFiniteSet(S), NEW c \in Int, NEW f, \A x \in S : f[x] = c
  PROVE  Sum(f, S) = c * Cardinality(S)
<1> DEFINE G == {T \in SUBSET S : Sum(f, T) = c * Cardinality(T)}
<1>1. {} \in G
  <2>1. c * 0 = 0
    OBVIOUS
  <2> QED  BY <2>1, SumEmpty, FS_EmptySet
<1>2. ASSUME NEW T \in SUBSET S, T # {} PROVE \E x \in T : T \ {x} \in G => T \in G
  <2>1. PICK x \in T : TRUE
    BY <1>2
  <2>2. IsFiniteSet(T)
    BY FS_Subset
  <2> DEFINE n == Cardinality(T \ {x})
  <2>3. n = Cardinality(T) - 1 /\ n \in Nat /\ Cardinality(T) \in Nat
    BY <2>2, FS_RemoveElement, FS_CardinalityType
  <2>4. Sum(f, T) = c + Sum(f, T \ {x})
    <3>1. (\A y \in T : f[y] \in Int) /\ f[x] = c
      OBVIOUS
    <3> QED  BY <2>2, <3>1, SumRemove
  <2>5. ASSUME Sum(f, T \ {x}) = c * n PROVE Sum(f, T) = c * Cardinality(T)
    <3>1. c + c * n = c * (n + 1) /\ n + 1 = Cardinality(T)
      <4> HIDE DEF n
      <4> QED  BY <2>3
    <3> QED  BY <2>4, <2>5, <3>1
  <2> QED  BY <2>5
<1>3. \A T \in SUBSET S : T \in G
  <2> HIDE DEF G
  <2> QED  BY <1>1, <1>2, SetInduction
<1> QED  BY <1>3

\* Nothing anywhere.
LEMMA SumZero ==
  ASSUME NEW S, IsFiniteSet(S), NEW f, \A x \in S : f[x] = 0
  PROVE  Sum(f, S) = 0
<1>1. Sum(f, S) = 0 * Cardinality(S) /\ Cardinality(S) \in Nat
  BY SumConst, FS_CardinalityType
<1> QED  BY <1>1

\* The opposite amounts.
LEMMA SumOpposite ==
  ASSUME NEW S, IsFiniteSet(S), NEW f, NEW g, \A x \in S : f[x] \in Int /\ g[x] = -f[x]
  PROVE  Sum(g, S) = -Sum(f, S)
<1> DEFINE z == [x \in S |-> 0]
<1>1. \A x \in S : f[x] \in Int /\ g[x] \in Int /\ z[x] = f[x] + g[x]
  OBVIOUS
<1>2. Sum(z, S) = 0
  BY SumZero
<1>3. Sum(z, S) = Sum(f, S) + Sum(g, S)
  <2> HIDE DEF z
  <2> QED  BY <1>1, SumPlus
<1>4. Sum(f, S) \in Int /\ Sum(g, S) \in Int
  BY <1>1, SumInt
<1> QED  BY <1>2, <1>3, <1>4

\* A sum of naturals is a natural.
LEMMA SumNat ==
  ASSUME NEW S, IsFiniteSet(S), NEW f, \A x \in S : f[x] \in Nat
  PROVE  Sum(f, S) \in Nat
<1> DEFINE G == {T \in SUBSET S : Sum(f, T) \in Nat}
<1>1. {} \in G
  BY SumEmpty
<1>2. ASSUME NEW T \in SUBSET S, T # {} PROVE \E x \in T : T \ {x} \in G => T \in G
  <2>1. PICK x \in T : TRUE
    BY <1>2
  <2>2. IsFiniteSet(T)
    BY FS_Subset
  <2>3. Sum(f, T) = f[x] + Sum(f, T \ {x})
    <3>1. \A y \in T : f[y] \in Int
      OBVIOUS
    <3> QED  BY <2>2, <3>1, SumRemove
  <2>4. f[x] \in Nat
    OBVIOUS
  <2>5. Sum(f, T \ {x}) \in Nat => Sum(f, T) \in Nat
    BY <2>3, <2>4
  <2> QED  BY <2>5
<1>3. \A T \in SUBSET S : T \in G
  <2> HIDE DEF G
  <2> QED  BY <1>1, <1>2, SetInduction
<1> QED  BY <1>3

\* Less everywhere is less in sum.
LEMMA SumLess ==
  ASSUME NEW S, IsFiniteSet(S), NEW f, NEW g,
         \A x \in S : f[x] \in Int /\ g[x] \in Int /\ f[x] <= g[x]
  PROVE  Sum(f, S) <= Sum(g, S) /\ Sum(f, S) \in Int /\ Sum(g, S) \in Int
<1> DEFINE h == [x \in S |-> g[x] - f[x]]
<1>1. \A x \in S : h[x] \in Nat /\ f[x] \in Int /\ h[x] \in Int /\ g[x] = f[x] + h[x]
  OBVIOUS
<1> HIDE DEF h
<1>2. Sum(h, S) \in Nat
  BY <1>1, SumNat
<1>3. Sum(g, S) = Sum(f, S) + Sum(h, S)
  BY <1>1, SumPlus
<1>4. Sum(f, S) \in Int
  BY <1>1, SumInt
<1> QED  BY <1>2, <1>3, <1>4

\* The sum over a set is that over a part of it and that over the rest.
LEMMA SumSplit ==
  ASSUME NEW S, IsFiniteSet(S), NEW f, \A x \in S : f[x] \in Int, NEW R \in SUBSET S
  PROVE  Sum(f, S) = Sum(f, R) + Sum(f, S \ R)
<1> DEFINE G == {T \in SUBSET R : Sum(f, S) = Sum(f, T) + Sum(f, S \ T)}
<1>1. {} \in G
  <2>1. S \ {} = S
    OBVIOUS
  <2>2. Sum(f, S) \in Int
    BY SumInt
  <2> QED  BY <2>1, <2>2, SumEmpty
<1>2. ASSUME NEW T \in SUBSET R, T # {} PROVE \E x \in T : T \ {x} \in G => T \in G
  <2>1. PICK x \in T : TRUE
    BY <1>2
  <2>2. IsFiniteSet(T) /\ IsFiniteSet(S \ T) /\ IsFiniteSet(T \ {x})
    BY FS_Subset
  <2> DEFINE a == Sum(f, T \ {x})
             b == Sum(f, S \ T)
  <2>3. Sum(f, T) = f[x] + a
    BY <2>2, SumRemove
  <2>4. Sum(f, S \ (T \ {x})) = f[x] + b
    <3>1. S \ (T \ {x}) = (S \ T) \cup {x} /\ x \notin S \ T
      OBVIOUS
    <3>2. \A y \in (S \ T) \cup {x} : f[y] \in Int
      OBVIOUS
    <3>3. Sum(f, (S \ T) \cup {x}) = f[x] + b
      BY <2>2, <3>1, <3>2, SumAdd
    <3> QED  BY <3>1, <3>3
  <2>5. a \in Int /\ b \in Int /\ f[x] \in Int
    BY <2>2, SumInt
  <2>6. ASSUME T \ {x} \in G PROVE T \in G
    <3>1. Sum(f, S) = a + Sum(f, S \ (T \ {x}))
      BY <2>6
    <3>2. Sum(f, S) = Sum(f, T) + b
      <4> HIDE DEF a, b
      <4> QED  BY <2>3, <2>4, <2>5, <3>1
    <3> QED  BY <3>2
  <2> QED  BY <2>6
<1>3. IsFiniteSet(R)
  BY FS_Subset
<1>4. \A T \in SUBSET R : T \in G
  <2> HIDE DEF G
  <2> QED  BY <1>1, <1>2, <1>3, SetInduction
<1> QED  BY <1>4

\* An amount at one point only.
LEMMA SumPoint ==
  ASSUME NEW S, IsFiniteSet(S), NEW x \in S, NEW c \in Int, NEW f,
         \A y \in S : f[y] = IF y = x THEN c ELSE 0
  PROVE  Sum(f, S) = c
<1>1. Sum(f, S) = f[x] + Sum(f, S \ {x})
  <2>1. \A y \in S : f[y] \in Int
    OBVIOUS
  <2> QED  BY <2>1, SumRemove
<1>2. Sum(f, S \ {x}) = 0
  <2>1. IsFiniteSet(S \ {x}) /\ \A y \in S \ {x} : f[y] = 0
    BY FS_RemoveElement
  <2> QED  BY <2>1, SumZero
<1> QED  BY <1>1, <1>2

\* One point gains c, one (the same or another) gains d.
LEMMA SumMoves ==
  ASSUME NEW S, IsFiniteSet(S), NEW x \in S, NEW y \in S, NEW c \in Int, NEW d \in Int,
         NEW f, NEW g, \A u \in S : f[u] \in Int,
         \A u \in S : g[u] = f[u] + ((IF u = x THEN c ELSE 0) + (IF u = y THEN d ELSE 0))
  PROVE  Sum(g, S) = Sum(f, S) + (c + d)
<1> DEFINE p == [u \in S |-> IF u = x THEN c ELSE 0]
           q == [u \in S |-> IF u = y THEN d ELSE 0]
           r == [u \in S |-> p[u] + q[u]]
<1>1. Sum(p, S) = c /\ Sum(q, S) = d
  BY SumPoint
<1>2. \A u \in S : p[u] \in Int /\ q[u] \in Int /\ r[u] = p[u] + q[u] /\ r[u] \in Int
  OBVIOUS
<1>3. \A u \in S : g[u] = f[u] + r[u]
  OBVIOUS
<1> HIDE DEF p, q, r
<1>4. Sum(r, S) = Sum(p, S) + Sum(q, S)
  BY <1>2, SumPlus
<1>5. Sum(g, S) = Sum(f, S) + Sum(r, S)
  BY <1>2, <1>3, SumPlus
<1> QED  BY <1>1, <1>4, <1>5

-----------------------------------------------------------------------------
(* Sums over a whole function. *)

\* One more term.
LEMMA OneMore ==
  ASSUME NEW S, IsFiniteSet(S), NEW x, x \notin S, NEW f, DOMAIN f = S, NEW g, DOMAIN g = S \cup {x},
         \A y \in S : f[y] \in Int /\ g[y] = f[y], g[x] \in Int
  PROVE  SumFunction(g) = SumFunction(f) + g[x] /\ SumFunction(f) \in Int
<1>1. Sum(g, S \cup {x}) = g[x] + Sum(g, S)
  BY SumAdd
<1>2. Sum(g, S) = Sum(f, S) /\ Sum(f, S) \in Int
  BY SumSame, SumInt
<1>3. SumFunction(g) = Sum(g, S \cup {x}) /\ SumFunction(f) = Sum(f, S)
  BY SumOfFunction
<1> QED  BY <1>1, <1>2, <1>3

\* One term that changes.
LEMMA OneChanged ==
  ASSUME NEW S, IsFiniteSet(S), NEW x \in S, NEW f, DOMAIN f = S, NEW g, DOMAIN g = S,
         \A y \in S : f[y] \in Int /\ g[y] \in Int, \A y \in S \ {x} : g[y] = f[y]
  PROVE  SumFunction(g) = SumFunction(f) + (g[x] - f[x]) /\ SumFunction(f) \in Int
<1>1. Sum(g, S) = Sum(f, S) + (g[x] - f[x])
  BY SumChange
<1>2. Sum(f, S) \in Int
  BY SumInt
<1>3. SumFunction(g) = Sum(g, S) /\ SumFunction(f) = Sum(f, S)
  BY SumOfFunction
<1> QED  BY <1>1, <1>2, <1>3
=============================================================================
