-------------------------------- MODULE Sums --------------------------------
(***************************************************************************)
(* Facts about sums over finite sets (MapThenSumSet of FiniteSetsExt) that *)
(* the proofs about balances and ledger entries rest on.  The fold is a    *)
(* function chosen to satisfy its own recursion equation, so that such a   *)
(* function exists, and is the only one, has to be shown before anything   *)
(* can be said of a sum.                                                   *)
(***************************************************************************)
EXTENDS Integers, FiniteSetsExt, FiniteSetTheorems, WellFoundedInduction, TLAPS

(* The element MapThenSumSet takes out of a set next. *)
Pick(s) == CHOOSE x \in s : TRUE

(* f gives every subset of T the sum of v over it. *)
IsSum(f, v, T) ==
  f = [s \in SUBSET T |-> IF s = {} THEN 0 ELSE v[Pick(s)] + f[s \ {Pick(s)}]]

(* The sum of v over T. *)
SumOf(v, T) == MapThenSumSet(LAMBDA x : v[x], T)

(* A nonempty set of natural numbers has a least element. *)
LEMMA LeastNumber ==
  ASSUME NEW D \in SUBSET Nat, D # {}
  PROVE  \E d \in D : \A e \in D : d <= e
<1> DEFINE R == OpToRel(<, Nat)
<1>1. \A x, y \in Nat : <<y, x>> \in R <=> y < x
  BY DEF OpToRel
<1>2. IsWellFoundedOn(R, Nat)
  BY NatLessThanWellFounded
<1> HIDE DEF R
<1>3. PICK d \in D : \A e \in D : <<e, d>> \notin R
  BY <1>2, WFMin
<1>4. \A e \in D : d \in Nat /\ e \in Nat /\ ~(e < d)
  BY <1>1, <1>3
<1>5. \A e \in D : d <= e
  BY <1>4
<1>6. QED
  BY <1>5

(* What is chosen from a nonempty set is in it. *)
LEMMA PickIn ==
  ASSUME NEW s, s # {}
  PROVE  Pick(s) \in s
BY DEF Pick

(* Taking an element out of a finite set leaves a smaller one. *)
LEMMA Smaller ==
  ASSUME NEW s, IsFiniteSet(s), NEW x \in s
  PROVE  /\ IsFiniteSet(s \ {x})
         /\ Cardinality(s) \in Nat /\ Cardinality(s \ {x}) \in Nat
         /\ Cardinality(s \ {x}) < Cardinality(s)
<1>1. IsFiniteSet(s \ {x}) /\ Cardinality(s \ {x}) = Cardinality(s) - 1
  BY FS_RemoveElement
<1>2. Cardinality(s) \in Nat /\ Cardinality(s \ {x}) \in Nat
  BY <1>1, FS_CardinalityType
<1>3. QED
  BY <1>1, <1>2

(* Induction over the subsets of a finite set: what holds of a subset as soon
   as it holds of all smaller ones holds of all.  A least subset outside of
   Good would have all smaller ones in Good. *)
LEMMA SubsetInduction ==
  ASSUME NEW T, IsFiniteSet(T), NEW Good,
         \A s \in SUBSET T : (\A r \in SUBSET s : r # s => r \in Good) => s \in Good
  PROVE  SUBSET T \subseteq Good
<1> DEFINE Bad == (SUBSET T) \ Good
           D == {Cardinality(s) : s \in Bad}
<1>1. SUFFICES ASSUME Bad # {} PROVE FALSE
  OBVIOUS
<1>2. \A s \in SUBSET T : IsFiniteSet(s) /\ Cardinality(s) \in Nat
  BY FS_Subset, FS_CardinalityType
<1>3. PICK d \in D : \A e \in D : d <= e
  <2>1. D \in SUBSET Nat /\ D # {}
    BY <1>1, <1>2
  <2> HIDE DEF D
  <2>2. QED
    BY <2>1, LeastNumber
<1>4. PICK s \in Bad : d = Cardinality(s)
  OBVIOUS
<1>5. ASSUME NEW r \in SUBSET s, r # s PROVE r \in Good
  <2>1. PICK x \in s : x \notin r
    <3> HIDE DEF Bad, D
    <3> QED
      BY <1>5
  <2>2. r \subseteq s \ {x} /\ IsFiniteSet(s \ {x})
    BY <1>2, <2>1, Smaller
  <2>3. Cardinality(r) <= Cardinality(s \ {x})
    BY <2>2, FS_Subset
  <2>4. Cardinality(s \ {x}) < Cardinality(s) /\ Cardinality(s \ {x}) \in Nat
    BY <1>2, Smaller
  <2>5. r \notin Bad
    BY <1>2, <1>3, <1>4, <2>3, <2>4
  <2>6. QED
    BY <2>5
<1>6. QED
  BY <1>4, <1>5

-----------------------------------------------------------------------------
(* The fold has exactly one value.                                         *)

(* The recursion equation, one subset at a time. *)
LEMMA SumEquation ==
  ASSUME NEW T, NEW v, NEW f, IsSum(f, v, T), NEW s \in SUBSET T
  PROVE  f[s] = IF s = {} THEN 0 ELSE v[Pick(s)] + f[s \ {Pick(s)}]
BY DEF IsSum

(* Two solutions agree wherever both are defined. *)
LEMMA SumUnique ==
  ASSUME NEW T, IsFiniteSet(T), NEW U, NEW v, NEW f, NEW g,
         IsSum(f, v, T), IsSum(g, v, U)
  PROVE  \A s \in SUBSET (T \cap U) : f[s] = g[s]
<1> DEFINE B == T \cap U
           Good == {s \in SUBSET B : f[s] = g[s]}
<1>1. ASSUME NEW s \in SUBSET B, \A r \in SUBSET s : r # s => r \in Good
      PROVE  f[s] = g[s]
  <2>1. CASE s = {}
    BY <2>1, SumEquation
  <2>2. CASE s # {}
    <3>1. s \ {Pick(s)} \in Good
      BY <1>1, <2>2, PickIn
    <3>2. f[s] = v[Pick(s)] + f[s \ {Pick(s)}] /\ g[s] = v[Pick(s)] + g[s \ {Pick(s)}]
      BY <2>2, SumEquation
    <3>3. QED
      BY <3>1, <3>2
  <2>3. QED
    BY <2>1, <2>2
<1>2. SUBSET B \subseteq Good
  <2>1. IsFiniteSet(B)
    BY FS_Subset
  <2>2. \A s \in SUBSET B : (\A r \in SUBSET s : r # s => r \in Good) => s \in Good
    BY <1>1
  <2> HIDE DEF Good, B
  <2>3. QED
    BY <2>1, <2>2, SubsetInduction
<1>3. QED
  BY <1>2

(* There is a solution: those for the smaller sets agree with each other and
   so make up one for T. *)
LEMMA SumExists ==
  ASSUME NEW T, IsFiniteSet(T), NEW v
  PROVE  \E f : IsSum(f, v, T)
<1> DEFINE F(s) == CHOOSE f : IsSum(f, v, s)
           h(s) == F(s)[s]
           Good == {s \in SUBSET T : \E f : IsSum(f, v, s)}
<1>1. ASSUME NEW S \in SUBSET T, \A r \in SUBSET S : r # S => r \in Good
      PROVE  \E f : IsSum(f, v, S)
  <2> DEFINE g == [s \in SUBSET S |-> IF s = {} THEN 0 ELSE v[Pick(s)] + h(s \ {Pick(s)})]
  <2>1. \A r \in SUBSET S : r # S => IsSum(F(r), v, r)
    BY <1>1
  <2>2. ASSUME NEW r \in SUBSET S, r # S PROVE g[r] = h(r)
    <3>1. h(r) = IF r = {} THEN 0 ELSE v[Pick(r)] + F(r)[r \ {Pick(r)}]
      <4> HIDE DEF F
      <4> QED
        BY <2>1, <2>2, SumEquation
    <3>2. CASE r = {}
      BY <3>1, <3>2
    <3>3. CASE r # {}
      <4> DEFINE q == r \ {Pick(r)}
      <4>1. q \in SUBSET S /\ q # S /\ q \in SUBSET (r \cap q)
        BY <3>3, PickIn
      <4>2. IsSum(F(r), v, r) /\ IsSum(F(q), v, q) /\ IsFiniteSet(r)
        BY <2>1, <2>2, <4>1, FS_Subset
      <4>3. F(r)[q] = F(q)[q]
        <5> HIDE DEF F, q
        <5> QED
          BY <4>1, <4>2, SumUnique
      <4>4. QED
        BY <3>1, <3>3, <4>3
    <3>4. QED
      BY <3>2, <3>3
  <2>3. ASSUME NEW s \in SUBSET S, s # {} PROVE g[s \ {Pick(s)}] = h(s \ {Pick(s)})
    <3>1. s \ {Pick(s)} \in SUBSET S /\ s \ {Pick(s)} # S
      BY <2>3, PickIn
    <3> HIDE DEF g, h, F
    <3>2. QED
      BY <2>2, <3>1
  <2>4. [s \in SUBSET S |-> IF s = {} THEN 0 ELSE v[Pick(s)] + g[s \ {Pick(s)}]] = g
    <3> HIDE DEF h, F
    <3> QED
      BY <2>3
  <2> HIDE DEF g
  <2>5. QED
    BY <2>4 DEF IsSum
<1>2. SUBSET T \subseteq Good
  <2>1. \A s \in SUBSET T : (\A r \in SUBSET s : r # s => r \in Good) => s \in Good
    BY <1>1
  <2> HIDE DEF Good
  <2>2. QED
    BY <2>1, SubsetInduction
<1>3. QED
  BY <1>2

(* The sum is what any solution gives. *)
LEMMA SumValue ==
  ASSUME NEW T, IsFiniteSet(T), NEW v, NEW f, IsSum(f, v, T), NEW s \in SUBSET T
  PROVE  SumOf(v, s) = f[s]
<1> DEFINE g == CHOOSE g : IsSum(g, v, s)
<1>1. IsFiniteSet(s) /\ s \in SUBSET (T \cap s)
  BY FS_Subset
<1>2. IsSum(g, v, s)
  BY <1>1, SumExists
<1>3. SumOf(v, s) = g[s]
  BY DEF SumOf, MapThenSumSet, MapThenFoldSet, IsSum, Pick
<1> HIDE DEF g
<1>4. QED
  BY <1>1, <1>2, <1>3, SumUnique

-----------------------------------------------------------------------------
(* What the proofs about the store use.                                    *)

(* The recursion equation of the sum itself. *)
LEMMA SumStep ==
  ASSUME NEW T, IsFiniteSet(T), NEW v
  PROVE  SumOf(v, T) = IF T = {} THEN 0 ELSE v[Pick(T)] + SumOf(v, T \ {Pick(T)})
<1>1. PICK f : IsSum(f, v, T)
  BY SumExists
<1>2. SumOf(v, T) = f[T] /\ SumOf(v, T \ {Pick(T)}) = f[T \ {Pick(T)}]
  BY <1>1, SumValue
<1>3. f[T] = IF T = {} THEN 0 ELSE v[Pick(T)] + f[T \ {Pick(T)}]
  BY <1>1, SumEquation
<1>4. QED
  BY <1>2, <1>3

(* A sum of integers is an integer. *)
LEMMA SumType ==
  ASSUME NEW T, IsFiniteSet(T), NEW v, \A x \in T : v[x] \in Int
  PROVE  \A s \in SUBSET T : SumOf(v, s) \in Int
<1> DEFINE Good == {s \in SUBSET T : SumOf(v, s) \in Int}
<1>1. ASSUME NEW s \in SUBSET T, \A r \in SUBSET s : r # s => r \in Good
      PROVE  SumOf(v, s) \in Int
  <2>1. IsFiniteSet(s)
    BY FS_Subset
  <2>2. CASE s = {}
    <3>1. SumOf(v, s) = 0
      BY <2>1, <2>2, SumStep
    <3>2. QED
      BY <3>1
  <2>3. CASE s # {}
    <3>1. Pick(s) \in s
      BY <2>3, PickIn
    <3>2. SumOf(v, s \ {Pick(s)}) \in Int
      BY <1>1, <3>1
    <3>3. SumOf(v, s) = v[Pick(s)] + SumOf(v, s \ {Pick(s)})
      BY <2>1, <2>3, SumStep
    <3>4. QED
      BY <3>1, <3>2, <3>3
  <2>4. QED
    BY <2>2, <2>3
<1>2. SUBSET T \subseteq Good
  <2>1. \A s \in SUBSET T : (\A r \in SUBSET s : r # s => r \in Good) => s \in Good
    BY <1>1
  <2> HIDE DEF Good
  <2>2. QED
    BY <2>1, SubsetInduction
<1>3. QED
  BY <1>2

(* Any element can be taken out first, whichever the fold takes: if that is
   another one, each can be taken out after the other. *)
LEMMA SumRemove ==
  ASSUME NEW T, IsFiniteSet(T), NEW v, \A x \in T : v[x] \in Int, NEW e \in T
  PROVE  SumOf(v, T) = v[e] + SumOf(v, T \ {e})
<1> DEFINE Sum(s) == SumOf(v, s)
           Good == {s \in SUBSET T : \A x \in s : Sum(s) = v[x] + Sum(s \ {x})}
<1>1. \A s \in SUBSET T : IsFiniteSet(s) /\ Sum(s) \in Int
  BY FS_Subset, SumType
<1>2. \A s \in SUBSET T : s # {} => Sum(s) = v[Pick(s)] + Sum(s \ {Pick(s)})
  BY <1>1, SumStep
<1>3. ASSUME NEW s \in SUBSET T, \A r \in SUBSET s : r # s => r \in Good, NEW x \in s
      PROVE  Sum(s) = v[x] + Sum(s \ {x})
  <2> DEFINE y == Pick(s)
  <2> HIDE DEF Sum
  <2>1. y \in s
    BY PickIn
  <2>2. Sum(s) = v[y] + Sum(s \ {y})
    BY <1>2
  <2> HIDE DEF y
  <2>3. CASE x = y
    BY <2>2, <2>3
  <2>4. CASE x # y
    <3> DEFINE r == (s \ {x}) \ {y}
    <3>1. s \ {x} \in Good /\ s \ {y} \in Good
      BY <1>3, <2>1
    <3>2. Sum(s \ {x}) = v[y] + Sum(r)
      BY <2>1, <2>4, <3>1
    <3>3. Sum(s \ {y}) = v[x] + Sum(r)
      <4>1. (s \ {y}) \ {x} = r
        OBVIOUS
      <4>2. QED
        BY <2>4, <3>1, <4>1
    <3>4. v[x] \in Int /\ v[y] \in Int /\ Sum(r) \in Int
      BY <1>1, <2>1
    <3> HIDE DEF r
    <3>5. QED
      BY <2>2, <3>2, <3>3, <3>4
  <2>5. QED
    BY <2>3, <2>4
<1>4. SUBSET T \subseteq Good
  <2>1. \A s \in SUBSET T : (\A r \in SUBSET s : r # s => r \in Good) => s \in Good
    BY <1>3
  <2> HIDE DEF Good
  <2>2. QED
    BY <2>1, SubsetInduction
<1>5. QED
  BY <1>4

(* Only the values on T matter. *)
LEMMA SumSame ==
  ASSUME NEW T, IsFiniteSet(T), NEW v, NEW w, \A x \in T : v[x] = w[x]
  PROVE  SumOf(v, T) = SumOf(w, T)
<1>1. PICK f : IsSum(f, v, T)
  BY SumExists
<1>2. \A s \in SUBSET T : s # {} => v[Pick(s)] = w[Pick(s)]
  BY PickIn
<1>3. IsSum(f, w, T)
  BY <1>1, <1>2 DEF IsSum
<1>4. SumOf(v, T) = f[T] /\ SumOf(w, T) = f[T]
  BY <1>1, <1>3, SumValue
<1>5. QED
  BY <1>4

(* An element that was not there adds its value. *)
LEMMA SumAdd ==
  ASSUME NEW T, IsFiniteSet(T), NEW v, NEW e, e \notin T, \A x \in T \cup {e} : v[x] \in Int
  PROVE  /\ IsFiniteSet(T \cup {e})
         /\ SumOf(v, T \cup {e}) = SumOf(v, T) + v[e]
<1>1. IsFiniteSet(T \cup {e}) /\ (T \cup {e}) \ {e} = T
  BY FS_AddElement
<1>2. SumOf(v, T \cup {e}) = v[e] + SumOf(v, T)
  <2> DEFINE U == T \cup {e}
  <2>1. IsFiniteSet(U) /\ e \in U /\ \A x \in U : v[x] \in Int
    BY <1>1
  <2> HIDE DEF U
  <2>2. SumOf(v, U) = v[e] + SumOf(v, U \ {e})
    BY <2>1, SumRemove
  <2>3. QED
    BY <1>1, <2>2 DEF U
<1>3. SumOf(v, T) \in Int
  BY SumType
<1>4. QED
  BY <1>1, <1>2, <1>3

(* Moving an amount from one place to another keeps the sum. *)
LEMMA SumMove ==
  ASSUME NEW T, IsFiniteSet(T), NEW v, NEW w,
         \A x \in T : v[x] \in Int, \A x \in T : w[x] \in Int,
         NEW from \in T, NEW to \in T, from # to,
         w[from] + w[to] = v[from] + v[to],
         \A x \in T \ {from, to} : w[x] = v[x]
  PROVE  SumOf(w, T) = SumOf(v, T)
<1> DEFINE A == T \ {from}
           B == A \ {to}
<1>1. /\ IsFiniteSet(A) /\ IsFiniteSet(B) /\ to \in A
      /\ \A x \in A : v[x] \in Int
      /\ \A x \in B : v[x] \in Int
  BY FS_Subset
<1>2. SumOf(v, T) = v[from] + SumOf(v, A) /\ SumOf(w, T) = w[from] + SumOf(w, A)
  BY SumRemove
<1>3. SumOf(v, A) = v[to] + SumOf(v, B) /\ SumOf(w, A) = w[to] + SumOf(w, B)
  <2>1. \A x \in A : w[x] \in Int
    OBVIOUS
  <2> HIDE DEF A
  <2>2. QED
    BY <1>1, <2>1, SumRemove
<1>4. SumOf(w, B) = SumOf(v, B) /\ SumOf(v, B) \in Int
  <2>1. \A x \in B : w[x] = v[x]
    OBVIOUS
  <2> HIDE DEF B
  <2>2. QED
    BY <1>1, <2>1, SumSame, SumType
<1> HIDE DEF A, B
<1>5. QED
  BY <1>2, <1>3, <1>4

(* The sum of the amounts of a set of rows, as a sum of a function's values. *)
LEMMA SumAmounts ==
  ASSUME NEW T, IsFiniteSet(T), NEW v, \A e \in T : v[e] = e.amount
  PROVE  MapThenSumSet(LAMBDA e : e.amount, T) = SumOf(v, T)
<1> DEFINE P(g) == g = [s \in SUBSET T |-> IF s = {} THEN 0
                                           ELSE Pick(s).amount + g[s \ {Pick(s)}]]
           g == CHOOSE g : P(g)
<1>1. PICK f : IsSum(f, v, T)
  BY SumExists
<1>2. \A s \in SUBSET T : s # {} => v[Pick(s)] = Pick(s).amount
  BY PickIn
<1>3. P(f)
  BY <1>1, <1>2 DEF IsSum
<1>4. P(g)
  BY <1>3
<1>5. MapThenSumSet(LAMBDA e : e.amount, T) = g[T]
  BY DEF MapThenSumSet, MapThenFoldSet, Pick
<1> HIDE DEF g
<1>6. IsSum(g, v, T)
  BY <1>2, <1>4 DEF IsSum
<1>7. QED
  BY <1>5, <1>6, SumValue
=============================================================================
