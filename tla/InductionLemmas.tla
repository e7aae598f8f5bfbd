---------------------------- MODULE InductionLemmas ----------------------------
(* What the proofs of recursive definitions need: induction as a fact about   *)
(* sets, from the well-foundedness of the naturals, that the functions which  *)
(* the definitions name exist, and what a sum over a finite set amounts to.   *)
EXTENDS Integers, Sequences, FiniteSetsExt, FiniteSetTheorems, WellFoundedInduction, TLAPS

\* A set of naturals has a least member.
LEMMA LeastNatural ==
  ASSUME NEW S, S \subseteq Nat, S # {}
  PROVE  \E n \in S : \A m \in S : n <= m
<1> DEFINE Less == OpToRel(<, Nat)
<1>1. IsWellFoundedOn(Less, Nat)
  BY NatLessThanWellFounded
<1>2. \A a, b \in Nat : a < b => <<a, b>> \in Less
  BY DEF OpToRel
<1> HIDE DEF Less
<1>3. PICK x \in S : \A y \in S : ~ (<<y, x>> \in Less)
  BY <1>1, WFMin
<1>4. \A y \in S : x <= y
  <2> TAKE y \in S
  <2>1. x \in Nat /\ y \in Nat /\ ~ (y < x)
    BY <1>2, <1>3
  <2> QED  BY <2>1
<1> QED  BY <1>4

\* Min names the least member of a set of naturals.
LEMMA MinOfNaturals ==
  ASSUME NEW S, S \subseteq Nat, S # {}
  PROVE  Min(S) \in S /\ \A n \in S : Min(S) <= n
<1>1. \E n \in S : \A m \in S : n <= m
  BY LeastNatural
<1> QED  BY <1>1 DEF Min

\* A set of naturals with a bound has a greatest one.
LEMMA MaxOfNaturals ==
  ASSUME NEW bound \in Nat, NEW S, S \subseteq 0..bound, S # {}
  PROVE  Max(S) \in S /\ \A n \in S : n <= Max(S)
<1> DEFINE Lacking == {bound - n : n \in S}
<1>1. Lacking \subseteq Nat /\ Lacking # {}
  <2>1. \A n \in S : bound - n \in Nat
    OBVIOUS
  <2>2. PICK n \in S : TRUE
    OBVIOUS
  <2>3. bound - n \in Lacking
    OBVIOUS
  <2> QED  BY <2>1, <2>3
<1>2. PICK x \in Lacking : \A y \in Lacking : x <= y
  BY <1>1, LeastNatural
<1>3. PICK top \in S : x = bound - top
  BY <1>2
<1>4. \A n \in S : n <= top
  <2> TAKE n \in S
  <2>1. x <= bound - n
    BY <1>2
  <2> QED  BY <2>1, <1>3
<1> QED  BY <1>4 DEF Max

\* Induction: whatever holds of 0, and of n + 1 when it holds of n.
LEMMA Counting ==
  ASSUME NEW S, 0 \in S, \A n \in Nat : n \in S => n + 1 \in S
  PROVE  Nat \subseteq S
<1> SUFFICES ASSUME NEW n \in Nat, n \notin S PROVE FALSE
  OBVIOUS
<1> DEFINE Out == {m \in Nat : m \notin S}
<1>1. Out # {} /\ Out \subseteq Nat
  OBVIOUS
<1>2. PICK m \in Out : \A k \in Out : m <= k
  BY <1>1, LeastNatural
<1>3. m # 0 /\ m \in Nat /\ m \notin S
  OBVIOUS
<1>4. m - 1 \in Nat /\ m - 1 \notin Out
  BY <1>2, <1>3
<1>5. m - 1 \in S
  BY <1>4
<1> QED  BY <1>3, <1>4, <1>5

\* Induction over a finite set: whatever holds of {}, and of a set when it holds
\* of the set less any of its members.
LEMMA Peeling ==
  ASSUME NEW S, IsFiniteSet(S), NEW C, {} \in C,
         \A T \in SUBSET S : T # {} /\ (\A x \in T : T \ {x} \in C) => T \in C
  PROVE  \A T \in SUBSET S : T \in C
<1> DEFINE Sized == {n \in Nat : \A T \in SUBSET S : Cardinality(T) = n => T \in C}
<1>1. \A T \in SUBSET S : IsFiniteSet(T) /\ Cardinality(T) \in Nat
  BY FS_Subset, FS_CardinalityType
<1>2. 0 \in Sized
  BY <1>1, FS_EmptySet
<1>3. ASSUME NEW n \in Nat, n \in Sized PROVE n + 1 \in Sized
  <2> SUFFICES ASSUME NEW T \in SUBSET S, Cardinality(T) = n + 1 PROVE T \in C
    OBVIOUS
  <2>1. T # {}
    BY FS_EmptySet
  <2>2. ASSUME NEW x \in T PROVE T \ {x} \in C
    <3>1. Cardinality(T \ {x}) = n
      BY <1>1, FS_RemoveElement
    <3> QED  BY <1>3, <3>1
  <2> QED  BY <2>1, <2>2
<1>4. Nat \subseteq Sized
  <2> HIDE DEF Sized
  <2> QED  BY <1>2, <1>3, Counting
<1> QED  BY <1>1, <1>4

\* The function a recursion on the naturals names exists.
LEMMA ClimbExists ==
  ASSUME NEW up, NEW start, NEW n \in Nat
  PROVE  \E climb : climb = [k \in 0..n |-> IF k = 0 THEN start ELSE up[climb[k - 1]]]
<1> DEFINE Upto(m, climb) == climb = [k \in 0..m |-> IF k = 0 THEN start ELSE up[climb[k - 1]]]
           Reached == {m \in Nat : \E climb : Upto(m, climb)}
<1>1. 0 \in Reached
  <2>1. Upto(0, [k \in 0..0 |-> start])
    OBVIOUS
  <2> QED  BY <2>1
<1>2. ASSUME NEW m \in Nat, m \in Reached PROVE m + 1 \in Reached
  <2>1. PICK g : Upto(m, g)
    BY <1>2
  <2> DEFINE h == [k \in 0..(m + 1) |-> IF k = 0 THEN start ELSE up[g[k - 1]]]
  <2>2. \A k \in 0..m : h[k] = g[k]
    BY <2>1
  <2>3. ASSUME NEW k \in 0..(m + 1) PROVE h[k] = IF k = 0 THEN start ELSE up[h[k - 1]]
    <3>1. k # 0 => k - 1 \in 0..m
      OBVIOUS
    <3> QED  BY <2>2, <3>1
  <2>4. Upto(m + 1, h)
    BY <2>3
  <2> HIDE DEF h, Upto
  <2> QED  BY <2>4
<1>3. n \in Reached
  <2> HIDE DEF Reached
  <2> QED  BY <1>1, <1>2, Counting
<1> QED  BY <1>3

IsProduct(product, base, weight, n) ==
  product = [k \in 1..n |-> IF k = 1 THEN base ELSE weight[k] * product[k - 1]]

\* As does that of a product of weights.
LEMMA ProductExists ==
  ASSUME NEW base, NEW weight, NEW n \in Nat
  PROVE  \E product : IsProduct(product, base, weight, n)
<1> DEFINE Upto(m, product) == product = [k \in 1..m |-> IF k = 1 THEN base ELSE weight[k] * product[k - 1]]
           Reached == {m \in Nat : \E product : Upto(m, product)}
<1>1. 0 \in Reached
  <2>1. Upto(0, [k \in 1..0 |-> base])
    OBVIOUS
  <2> HIDE DEF Upto
  <2> QED  BY <2>1
<1>2. ASSUME NEW m \in Nat, m \in Reached PROVE m + 1 \in Reached
  <2>1. PICK g : Upto(m, g)
    BY <1>2
  <2> DEFINE h == [k \in 1..(m + 1) |-> IF k = 1 THEN base ELSE weight[k] * g[k - 1]]
  <2>2. \A k \in 1..m : h[k] = g[k]
    BY <2>1
  <2>3. ASSUME NEW k \in 1..(m + 1) PROVE h[k] = IF k = 1 THEN base ELSE weight[k] * h[k - 1]
    <3>1. k # 1 => k - 1 \in 1..m
      OBVIOUS
    <3> QED  BY <2>2, <3>1
  <2>4. Upto(m + 1, h)
    BY <2>3
  <2> HIDE DEF h, Upto
  <2> QED  BY <2>4
<1>3. n \in Reached
  <2> HIDE DEF Reached
  <2> QED  BY <1>1, <1>2, Counting
<1> QED  BY <1>3 DEF IsProduct

-----------------------------------------------------------------------------
\* g adds up the values of f over every subset of S, in some order.
Adds(g, f, S) ==
  /\ g[{}] = 0
  /\ \A T \in SUBSET S : T # {} => \E x \in T : g[T] = f[x] + g[T \ {x}]

\* g is the function of a fold over the subsets of S that takes out pick[T] next.
IsFold(g, f, pick, S) ==
  g = [T \in SUBSET S |-> IF T = {} THEN 0 ELSE f[pick[T]] + g[T \ {pick[T]}]]

\* The function a fold over the subsets of a set names exists, however the next
\* element is picked.
LEMMA FoldExists ==
  ASSUME NEW S, IsFiniteSet(S), NEW f, NEW pick,
         \A T \in SUBSET S : T # {} => pick[T] \in T
  PROVE  \E g : IsFold(g, f, pick, S)
<1> DEFINE Small(n) == {T \in SUBSET S : Cardinality(T) <= n}
           Over(n, g) == g = [T \in Small(n) |-> IF T = {} THEN 0 ELSE f[pick[T]] + g[T \ {pick[T]}]]
           Reached == {n \in Nat : \E g : Over(n, g)}
<1>1. \A T \in SUBSET S : IsFiniteSet(T) /\ Cardinality(T) \in Nat
  BY FS_Subset, FS_CardinalityType
<1>2. \A T \in SUBSET S : T # {} =>
        T \ {pick[T]} \in SUBSET S /\ Cardinality(T \ {pick[T]}) = Cardinality(T) - 1
  BY <1>1, FS_RemoveElement
<1>3. 0 \in Reached
  <2>1. \A T \in Small(0) : T = {}
    BY <1>1, FS_EmptySet
  <2>2. Over(0, [T \in Small(0) |-> 0])
    BY <2>1
  <2> HIDE DEF Over
  <2> QED  BY <2>2
<1>4. ASSUME NEW n \in Nat, n \in Reached PROVE n + 1 \in Reached
  <2>1. PICK g : Over(n, g)
    BY <1>4
  <2> DEFINE h == [T \in Small(n + 1) |-> IF T = {} THEN 0 ELSE f[pick[T]] + g[T \ {pick[T]}]]
  <2>2. ASSUME NEW T \in Small(n) PROVE T \in Small(n + 1) /\ h[T] = g[T]
    <3>1. T \in Small(n + 1)
      BY <1>1
    <3>2. g[T] = IF T = {} THEN 0 ELSE f[pick[T]] + g[T \ {pick[T]}]
      BY <2>1
    <3> QED  BY <3>1, <3>2
  <2>3. ASSUME NEW T \in Small(n + 1), T # {} PROVE T \ {pick[T]} \in Small(n)
    BY <1>1, <1>2, <2>3
  <2>4. ASSUME NEW T \in Small(n + 1)
        PROVE  h[T] = IF T = {} THEN 0 ELSE f[pick[T]] + h[T \ {pick[T]}]
    BY <2>2, <2>3
  <2>5. Over(n + 1, h)
    BY <2>4
  <2> HIDE DEF h, Over
  <2> QED  BY <2>5
<1>5. Cardinality(S) \in Reached
  <2>1. Cardinality(S) \in Nat
    BY <1>1
  <2> HIDE DEF Reached
  <2> QED  BY <1>3, <1>4, <2>1, Counting
<1>6. SUBSET S = Small(Cardinality(S))
  BY FS_Subset
<1> QED  BY <1>5, <1>6 DEF IsFold

\* A fold is a sum: what it gives for a set is a member's value more than what
\* it gives for the rest.
LEMMA FoldAdds ==
  ASSUME NEW S, NEW f, NEW pick, NEW g,
         \A T \in SUBSET S : T # {} => pick[T] \in T,
         IsFold(g, f, pick, S)
  PROVE  Adds(g, f, S)
BY DEF Adds, IsFold

\* Integers add up to an integer, naturals to a natural number.
LEMMA SumType ==
  ASSUME NEW S, IsFiniteSet(S), NEW f, NEW g, Adds(g, f, S), NEW D \in {Int, Nat}, \A x \in S : f[x] \in D
  PROVE  \A T \in SUBSET S : g[T] \in D
<1> DEFINE C == {T \in SUBSET S : g[T] \in D}
<1>1. {} \in C
  BY DEF Adds
<1>2. ASSUME NEW T \in SUBSET S, T # {}, \A x \in T : T \ {x} \in C PROVE T \in C
  <2>1. PICK x \in T : g[T] = f[x] + g[T \ {x}]
    BY <1>2 DEF Adds
  <2>2. g[T \ {x}] \in D /\ f[x] \in D
    BY <1>2
  <2> QED  BY <2>1, <2>2
<1>3. \A T \in SUBSET S : T \in C
  <2> HIDE DEF C
  <2> QED  BY <1>1, <1>2, Peeling
<1> QED  BY <1>3

\* Whatever the order, each element of a set counts once in its sum.
LEMMA AnyFirst ==
  ASSUME NEW S, IsFiniteSet(S), NEW f, \A x \in S : f[x] \in Int, NEW g, Adds(g, f, S)
  PROVE  \A T \in SUBSET S : \A x \in T : g[T] = f[x] + g[T \ {x}]
<1> DEFINE C == {T \in SUBSET S : \A x \in T : g[T] = f[x] + g[T \ {x}]}
<1>1. \A T \in SUBSET S : g[T] \in Int
  BY SumType
<1>2. {} \in C
  OBVIOUS
<1>3. ASSUME NEW T \in SUBSET S, T # {}, \A x \in T : T \ {x} \in C PROVE T \in C
  <2> SUFFICES ASSUME NEW x \in T PROVE g[T] = f[x] + g[T \ {x}]
    OBVIOUS
  <2>1. PICK first \in T : g[T] = f[first] + g[T \ {first}]
    BY <1>3 DEF Adds
  <2>2. CASE x # first
    <3> DEFINE rest == T \ {first, x}
    <3>1. g[T \ {first}] = f[x] + g[rest]
      <4>1. (T \ {first}) \ {x} = rest /\ x \in T \ {first} /\ T \ {first} \in C
        BY <1>3, <2>2
      <4> QED  BY <4>1
    <3>2. g[T \ {x}] = f[first] + g[rest]
      <4>1. (T \ {x}) \ {first} = rest /\ first \in T \ {x} /\ T \ {x} \in C
        BY <1>3, <2>2
      <4> QED  BY <4>1
    <3>3. g[rest] \in Int /\ f[x] \in Int /\ f[first] \in Int
      BY <1>1
    <3> HIDE DEF C, rest
    <3> QED  BY <2>1, <3>1, <3>2, <3>3
  <2> QED  BY <2>1, <2>2
<1>4. \A T \in SUBSET S : T \in C
  <2> HIDE DEF C
  <2> QED  BY <1>2, <1>3, Peeling
<1> QED  BY <1>4

\* So two ways to add up the same values give the same sum.
LEMMA SumUnique ==
  ASSUME NEW S, IsFiniteSet(S), NEW e, NEW f, \A x \in S : e[x] = f[x] /\ f[x] \in Int,
         NEW g, Adds(g, e, S), NEW h, Adds(h, f, S)
  PROVE  g[S] = h[S]
<1> DEFINE C == {T \in SUBSET S : g[T] = h[T]}
<1>1. {} \in C
  BY DEF Adds
<1>2. ASSUME NEW T \in SUBSET S, T # {}, \A x \in T : T \ {x} \in C PROVE T \in C
  <2>1. PICK x \in T : g[T] = e[x] + g[T \ {x}]
    BY <1>2 DEF Adds
  <2>2. h[T] = f[x] + h[T \ {x}]
    BY AnyFirst
  <2> QED  BY <1>2, <2>1, <2>2
<1>3. \A T \in SUBSET S : T \in C
  <2> HIDE DEF C
  <2> QED  BY <1>1, <1>2, Peeling
<1> QED  BY <1>3

\* The sum of two sets that share nothing is the sum of their sums.
LEMMA SumOfUnion ==
  ASSUME NEW S, IsFiniteSet(S), NEW f, \A x \in S : f[x] \in Int, NEW g, Adds(g, f, S),
         NEW A \in SUBSET S
  PROVE  \A B \in SUBSET S : A \cap B = {} => g[A \cup B] = g[A] + g[B]
<1> DEFINE C == {B \in SUBSET S : A \cap B = {} => g[A \cup B] = g[A] + g[B]}
<1>1. \A T \in SUBSET S : g[T] \in Int
  BY SumType
<1>2. {} \in C
  BY <1>1 DEF Adds
<1>3. ASSUME NEW B \in SUBSET S, B # {}, \A x \in B : B \ {x} \in C PROVE B \in C
  <2> SUFFICES ASSUME A \cap B = {} PROVE g[A \cup B] = g[A] + g[B]
    OBVIOUS
  <2>1. PICK x \in B : TRUE
    BY <1>3
  <2>2. g[A \cup (B \ {x})] = g[A] + g[B \ {x}]
    BY <1>3, <2>1
  <2>3. (A \cup B) \ {x} = A \cup (B \ {x}) /\ x \in A \cup B
    BY <2>1
  <2>4. g[A \cup B] = f[x] + g[A \cup (B \ {x})]
    BY <2>3, AnyFirst
  <2>5. g[B] = f[x] + g[B \ {x}]
    BY <1>3, <2>1, AnyFirst
  <2>6. g[A] \in Int /\ g[B \ {x}] \in Int /\ f[x] \in Int
    BY <1>1
  <2> QED  BY <2>2, <2>4, <2>5, <2>6
<1>4. \A B \in SUBSET S : B \in C
  <2> HIDE DEF C
  <2> QED  BY <1>2, <1>3, Peeling
<1> QED  BY <1>4

\* A sum of naturals is at least each of them, and 0 if they all are.
LEMMA SumBounds ==
  ASSUME NEW S, IsFiniteSet(S), NEW f, \A x \in S : f[x] \in Nat, NEW g, Adds(g, f, S)
  PROVE  (\A x \in S : g[S] >= f[x]) /\ ((\A x \in S : f[x] = 0) => g[S] = 0)
<1>1. \A T \in SUBSET S : g[T] \in Nat
  BY SumType
<1>2. ASSUME NEW x \in S PROVE g[S] >= f[x]
  <2>1. g[S] = f[x] + g[S \ {x}]
    BY AnyFirst
  <2> QED  BY <1>1, <2>1
<1>3. ASSUME \A x \in S : f[x] = 0 PROVE g[S] = 0
  <2> DEFINE C == {T \in SUBSET S : g[T] = 0}
  <2>1. {} \in C
    BY DEF Adds
  <2>2. ASSUME NEW T \in SUBSET S, T # {}, \A x \in T : T \ {x} \in C PROVE T \in C
    <3>1. PICK x \in T : g[T] = f[x] + g[T \ {x}]
      BY <2>2 DEF Adds
    <3>2. g[T \ {x}] = 0 /\ f[x] = 0
      BY <1>3, <2>2
    <3> QED  BY <3>1, <3>2
  <2>3. \A T \in SUBSET S : T \in C
    <3> HIDE DEF C
    <3> QED  BY <2>1, <2>2, Peeling
  <2> QED  BY <2>3
<1> QED  BY <1>2, <1>3

\* Numbers of which none is above a bound add up to at most that many bounds.
LEMMA SumAtMost ==
  ASSUME NEW S, IsFiniteSet(S), NEW bound \in Nat, NEW f, \A x \in S : f[x] \in 0..bound, NEW g, Adds(g, f, S)
  PROVE  \A T \in SUBSET S : g[T] \in Nat /\ g[T] <= bound * Cardinality(T)
<1> DEFINE C == {T \in SUBSET S : g[T] \in Nat /\ g[T] <= bound * Cardinality(T)}
<1>1. {} \in C
  BY FS_EmptySet DEF Adds
<1>2. ASSUME NEW T \in SUBSET S, T # {}, \A x \in T : T \ {x} \in C PROVE T \in C
  <2>1. PICK x \in T : g[T] = f[x] + g[T \ {x}]
    BY <1>2 DEF Adds
  <2>2. g[T \ {x}] \in Nat /\ g[T \ {x}] <= bound * Cardinality(T \ {x}) /\ f[x] \in 0..bound
    BY <1>2
  <2>3. IsFiniteSet(T) /\ Cardinality(T) \in Nat /\ Cardinality(T \ {x}) = Cardinality(T) - 1
    BY FS_Subset, FS_CardinalityType, FS_RemoveElement
  <2>4. bound * Cardinality(T \ {x}) + bound = bound * Cardinality(T)
    BY <2>3
  <2> QED  BY <2>1, <2>2, <2>3, <2>4
<1>3. \A T \in SUBSET S : T \in C
  <2> HIDE DEF C
  <2> QED  BY <1>1, <1>2, Peeling
<1> QED  BY <1>3

\* A mean is not above what nothing it is of is above, and reaches it exactly only.
LEMMA MeanAtMost ==
  ASSUME NEW total \in Nat, NEW count \in Nat \ {0}, total <= 100 * count
  PROVE  /\ total \div count \in 0..100 /\ total % count \in Nat
         /\ total \div count = 100 => total % count = 0
<1>1. total \div count \in Int /\ total % count \in 0..(count - 1)
  OBVIOUS
<1>2. total = count * (total \div count) + (total % count)
  OBVIOUS
<1> DEFINE q == total \div count
           r == total % count
<1>3. q \in Int /\ r \in 0..(count - 1) /\ total = count * q + r
  BY <1>1, <1>2
<1> HIDE DEF q, r
<1>4. q < 101
  <2> SUFFICES ASSUME q >= 101 PROVE FALSE
    BY <1>3
  <2>1. PICK d \in Nat : q = 101 + d
    <3>1. q - 101 \in Nat /\ q = 101 + (q - 101)
      BY <1>3
    <3> QED  BY <3>1
  <2>2. count * q = 101 * count + count * d /\ count * d \in Nat
    BY <1>3, <2>1
  <2> QED  BY <1>3, <2>2
<1>5. q > -1
  <2> SUFFICES ASSUME q <= -1 PROVE FALSE
    BY <1>3
  <2>1. PICK d \in Nat : q = -1 - d
    <3>1. -1 - q \in Nat /\ q = -1 - (-1 - q)
      BY <1>3
    <3> QED  BY <3>1
  <2>2. count * q = -count - count * d /\ count * d \in Nat
    BY <1>3, <2>1
  <2> QED  BY <1>3, <2>2
<1>6. q = 100 => r = 0
  BY <1>3
<1> QED  BY <1>3, <1>4, <1>5, <1>6 DEF q, r
==============================================================================
