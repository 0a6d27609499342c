------------------------------ MODULE Folding ------------------------------
(***************************************************************************)
(* What a fold and a recursive function compute, for sequences of every    *)
(* length: the operator Op is a parameter, c is what it depends on, and a  *)
(* module that folds takes an instance of this one for each of its folds.  *)
(*                                                                         *)
(* The induction they rest on is one over a set of numbers, and holds as < *)
(* is well-founded.                                                        *)
(***************************************************************************)
EXTENDS Naturals, Sequences, WellFoundedInduction, TLAPS

CONSTANT Op(_, _, _)

(***************************************************************************)
(* Numbers                                                                 *)
(***************************************************************************)

\* < on the numbers, as a relation.
LessNat == {p \in Nat \X Nat : p[1] < p[2]}

\* What the library says of < on the numbers, for the relation spelled out.
LEMMA LessNatIsWellFounded == IsWellFoundedOn(LessNat, Nat)
<1>1. OpToRel(<, Nat) = LessNat
  BY DEF OpToRel, LessNat
<1> QED
  BY <1>1, NatLessThanWellFounded

\* A set of numbers has a least one.
LEMMA LeastNat ==
  ASSUME NEW T \in SUBSET Nat, T # {}
  PROVE  \E x \in T : \A y \in T : x <= y
<1>1. PICK x \in T : \A y \in T : <<y, x>> \notin LessNat
  BY WFMin, LessNatIsWellFounded
<1>2. ASSUME NEW y \in T
      PROVE  x <= y
  <2>1. <<y, x>> \notin LessNat /\ x \in Nat /\ y \in Nat
    BY <1>1, <1>2
  <2> QED
    BY <2>1 DEF LessNat
<1> QED
  BY <1>1, <1>2

\* A set with 0 and all successors of its numbers has every number.
LEMMA NatInduct ==
  ASSUME NEW T, 0 \in T, \A n \in Nat : n \in T => n + 1 \in T
  PROVE  Nat \subseteq T
<1> SUFFICES ASSUME Nat \ T # {}
             PROVE  FALSE
  OBVIOUS
<1>1. PICK x \in Nat \ T : \A y \in Nat \ T : x <= y
  BY LeastNat
<1>2. x - 1 \in Nat /\ x - 1 \in T
  BY <1>1
<1> QED
  BY <1>1, <1>2

(***************************************************************************)
(* FoldLeft                                                                *)
(***************************************************************************)

\* The last position of u comes last.
Top(u) == CHOOSE x \in u : \A y \in u : x >= y

\* What is folded of u: of all but its last position, and then of that.
Step(c, base, s, g, u) ==
  IF u = {} THEN base ELSE Op(c, g[u \ {Top(u)}], s[Top(u)])

\* What is folded of the positions in a subset of S.
Steps(c, base, s, S) ==
  CHOOSE g : g = [u \in SUBSET S |-> Step(c, base, s, g, u)]

\* FoldLeft of SequencesExt, with the definitions it rests on expanded.
Fold(c, base, s) == Steps(c, base, s, DOMAIN s)[DOMAIN s]

\* s and t are the same up to n.
Agree(s, t, n) == \A i \in 1 .. n : s[i] = t[i]

\* Of a set of positions up to n that has n, n is the last.
LEMMA TopIsLast ==
  ASSUME NEW n \in Nat, NEW u \in SUBSET (1 .. n), n \in u
  PROVE  Top(u) = n
<1>1. \A y \in u : n >= y
  OBVIOUS
<1>2. Top(u) \in u /\ \A y \in u : Top(u) >= y
  BY <1>1 DEF Top
<1>3. PICK x \in 1 .. n : x = Top(u)
  BY <1>2
<1>4. x >= n /\ n >= x
  BY <1>1, <1>2, <1>3
<1> QED
  BY <1>3, <1>4

\* What is folded of each set of positions: the function there is is the one
\* that satisfies its recursive definition.
LEMMA StepsDef ==
  ASSUME NEW c, NEW base, NEW s, NEW n \in Nat
  PROVE  \A u \in SUBSET (1 .. n) :
           Steps(c, base, s, 1 .. n)[u] = Step(c, base, s, Steps(c, base, s, 1 .. n), u)
<1> DEFINE Of(g, u) == Step(c, base, s, g, u)
           N == {m \in Nat : \E g : g = [u \in SUBSET (1 .. m) |-> Of(g, u)]}
<1>1. 0 \in N
  <2> DEFINE g == [u \in SUBSET (1 .. 0) |-> base]
  <2>1. \A u \in SUBSET (1 .. 0) : g[u] = Of(g, u)
    BY DEF Step
  <2>2. g = [u \in SUBSET (1 .. 0) |-> Of(g, u)]
    <3> HIDE DEF Of
    <3> QED
      BY <2>1
  <2>3. \E f : f = [u \in SUBSET (1 .. 0) |-> Of(f, u)]
    <3> HIDE DEF Of, g
    <3> QED
      BY <2>2
  <2>4. 0 \in Nat
    OBVIOUS
  <2> QED
    BY <2>3, <2>4, Zenon
<1>2. ASSUME NEW m \in Nat, m \in N
      PROVE  m + 1 \in N
  <2>1. PICK g : g = [u \in SUBSET (1 .. m) |-> Of(g, u)]
    BY <1>2
  <2>2. PICK k \in Nat : k = m + 1
    OBVIOUS
  <2> DEFINE h == [u \in SUBSET (1 .. k) |-> IF k \in u THEN Of(g, u) ELSE g[u]]
  <2>3. ASSUME NEW u \in SUBSET (1 .. k)
        PROVE  h[u] = Of(h, u)
    <3>1. CASE k \in u
      <4>1. Top(u) = k /\ u # {}
        BY <3>1, TopIsLast
      <4>2. u \ {k} \in SUBSET (1 .. k) /\ k \notin u \ {k}
        OBVIOUS
      <4>3. h[u \ {k}] = g[u \ {k}]
        BY <4>2, Zenon
      <4>4. Of(h, u) = Of(g, u)
        BY <4>1, <4>3 DEF Step
      <4> QED
        BY <3>1, <4>4, Zenon
    <3>2. CASE k \notin u
      <4>1. u \in SUBSET (1 .. m)
        BY <2>2, <3>2
      <4>2. g[u] = Of(g, u)
        BY <2>1, <4>1, Zenon
      <4>3. u \ {Top(u)} \in SUBSET (1 .. k) /\ k \notin u \ {Top(u)}
        BY <3>2
      <4>4. h[u \ {Top(u)}] = g[u \ {Top(u)}]
        BY <4>3, Zenon
      <4>5. Of(h, u) = Of(g, u)
        BY <4>4, Zenon DEF Step
      <4> QED
        BY <3>2, <4>2, <4>5, Zenon
    <3> QED
      BY <3>1, <3>2
  <2>4. h = [u \in SUBSET (1 .. k) |-> Of(h, u)]
    <3> HIDE DEF Of
    <3> QED
      BY <2>3
  <2>5. \E f : f = [u \in SUBSET (1 .. k) |-> Of(f, u)]
    <3> HIDE DEF Of, h
    <3> QED
      BY <2>4
  <2>6. k \in N
    BY <2>5, Zenon
  <2> QED
    BY <2>2, <2>6
<1>3. Nat \subseteq N
  <2> HIDE DEF N
  <2> QED
    BY <1>1, <1>2, NatInduct
<1>4. PICK g : g = Steps(c, base, s, 1 .. n) /\ g = [u \in SUBSET (1 .. n) |-> Of(g, u)]
  <2>1. \E g : g = [u \in SUBSET (1 .. n) |-> Of(g, u)]
    BY <1>3
  <2>2. Steps(c, base, s, 1 .. n) =
          [u \in SUBSET (1 .. n) |-> Of(Steps(c, base, s, 1 .. n), u)]
    BY <2>1, Zenon DEF Steps
  <2> QED
    BY <2>2
<1>5. ASSUME NEW u \in SUBSET (1 .. n)
      PROVE  g[u] = Of(g, u)
  BY <1>4, Zenon
<1> QED
  BY <1>4, <1>5

\* What is folded of no elements.
LEMMA StepsOfNone ==
  ASSUME NEW c, NEW base, NEW s, NEW n \in Nat
  PROVE  Steps(c, base, s, 1 .. n)[{}] = base
<1>1. {} \in SUBSET (1 .. n)
  OBVIOUS
<1>2. Steps(c, base, s, 1 .. n)[{}] = Step(c, base, s, Steps(c, base, s, 1 .. n), {})
  BY <1>1, StepsDef
<1> QED
  BY <1>2 DEF Step

\* What is folded of the first k elements.
LEMMA StepsOfFirst ==
  ASSUME NEW c, NEW base, NEW s, NEW n \in Nat, NEW k \in Nat, k < n
  PROVE  /\ Steps(c, base, s, 1 .. n)[1 .. 0] = base
         /\ Steps(c, base, s, 1 .. n)[1 .. k + 1] =
              Op(c, Steps(c, base, s, 1 .. n)[1 .. k], s[k + 1])
<1>1. PICK g : /\ g = Steps(c, base, s, 1 .. n)
               /\ \A u \in SUBSET (1 .. n) : g[u] = Step(c, base, s, g, u)
  BY StepsDef
<1>2. 1 .. 0 \in SUBSET (1 .. n) /\ 1 .. 0 = {}
  OBVIOUS
<1>3. g[1 .. 0] = base
  BY <1>1, <1>2 DEF Step
<1>4. PICK j \in Nat : j = k + 1
  OBVIOUS
<1>5. 1 .. j \in SUBSET (1 .. n) /\ 1 .. j # {} /\ (1 .. j) \ {j} = 1 .. k
  <2>1. j \in 1 .. j /\ j <= n /\ \A i \in Nat : i <= j /\ i # j => i <= k
    BY <1>4
  <2>2. 1 .. j \in SUBSET (1 .. n) /\ 1 .. j # {}
    BY <2>1
  <2>3. (1 .. j) \ {j} = 1 .. k
    BY <1>4
  <2> QED
    BY <2>2, <2>3
<1>6. Top(1 .. j) = j
  BY <1>4, TopIsLast
<1>7. g[1 .. j] = Op(c, g[1 .. k], s[j])
  BY <1>1, <1>5, <1>6 DEF Step
<1> QED
  BY <1>1, <1>3, <1>4, <1>7

\* What is folded of the first k positions depends on the sequence up to k only.
LEMMA StepsAgree ==
  ASSUME NEW c, NEW base, NEW s, NEW t, NEW n \in Nat, NEW m \in Nat,
         0 < n, n <= m, Agree(s, t, n)
  PROVE  \A k \in 0 .. n : Steps(c, base, s, 1 .. n)[1 .. k]
                             = Steps(c, base, t, 1 .. m)[1 .. k]
<1>1. PICK f, g : f = Steps(c, base, s, 1 .. n) /\ g = Steps(c, base, t, 1 .. m)
  OBVIOUS
<1> DEFINE N == {k \in Nat : k <= n => f[1 .. k] = g[1 .. k]}
<1>2. 0 \in N
  BY <1>1, StepsOfFirst
<1>3. ASSUME NEW k \in Nat, k \in N
      PROVE  k + 1 \in N
  <2>1. SUFFICES ASSUME k + 1 <= n
                 PROVE  f[1 .. k + 1] = g[1 .. k + 1]
    OBVIOUS
  <2>2. k < n /\ k < m /\ s[k + 1] = t[k + 1]
    BY <2>1 DEF Agree
  <2>3. f[1 .. k] = g[1 .. k]
    BY <1>3, <2>1
  <2>4. f[1 .. k + 1] = Op(c, f[1 .. k], s[k + 1])
    BY <1>1, <2>2, StepsOfFirst
  <2>5. g[1 .. k + 1] = Op(c, g[1 .. k], t[k + 1])
    BY <1>1, <2>2, StepsOfFirst
  <2> QED
    BY <2>2, <2>3, <2>4, <2>5
<1>4. Nat \subseteq N
  <2> HIDE DEF N
  <2> QED
    BY <1>2, <1>3, NatInduct
<1> QED
  BY <1>1, <1>4

\* Nothing folded is the base.
LEMMA FoldEmpty ==
  ASSUME NEW c, NEW base
  PROVE  Fold(c, base, <<>>) = base
<1>1. DOMAIN <<>> = 1 .. 0 /\ 0 < 1
  OBVIOUS
<1>2. Fold(c, base, <<>>) = Steps(c, base, <<>>, 1 .. 0)[1 .. 0]
  BY <1>1 DEF Fold
<1>3. Steps(c, base, <<>>, 1 .. 0)[1 .. 0]
        = Step(c, base, <<>>, Steps(c, base, <<>>, 1 .. 0), 1 .. 0)
  <2>1. 1 .. 0 \in SUBSET (1 .. 0)
    OBVIOUS
  <2> QED
    BY <2>1, StepsDef
<1>4. 1 .. 0 = {}
  OBVIOUS
<1> QED
  BY <1>2, <1>3, <1>4 DEF Step

\* One more element: it is folded last.
LEMMA FoldAppend ==
  ASSUME NEW c, NEW base, NEW S, NEW s \in Seq(S), NEW x \in S
  PROVE  Fold(c, base, Append(s, x)) = Op(c, Fold(c, base, s), x)
<1>1. PICK a \in Seq(S) : a = Append(s, x)
  <2>1. Append(s, x) \in Seq(S)
    OBVIOUS
  <2> QED
    BY <2>1
<1>2. PICK n \in Nat, m \in Nat : n = Len(s) /\ m = n + 1
  OBVIOUS
<1>3. /\ DOMAIN a = 1 .. m /\ DOMAIN s = 1 .. n
      /\ a[m] = x /\ Agree(s, a, n)
  BY <1>1, <1>2 DEF Agree
<1>4. Fold(c, base, a) = Steps(c, base, a, 1 .. m)[1 .. m]
  BY <1>3 DEF Fold
<1>5. Fold(c, base, s) = Steps(c, base, s, 1 .. n)[1 .. n]
  BY <1>3 DEF Fold
<1>6. Steps(c, base, a, 1 .. m)[1 .. m]
        = Op(c, Steps(c, base, a, 1 .. m)[1 .. n], x)
  BY <1>2, <1>3, StepsOfFirst
<1>7. Steps(c, base, a, 1 .. m)[1 .. n] = Fold(c, base, s)
  <2>1. CASE n = 0
    <3>0. Len(s) = 0
      BY <1>2, <2>1
    <3>1. s = <<>> /\ 0 < m
      BY <1>2, <2>1, <3>0
    <3>2. Steps(c, base, a, 1 .. m)[1 .. 0] = base
      BY <3>1, StepsOfFirst
    <3> QED
      BY <2>1, <3>1, <3>2, FoldEmpty
  <2>2. CASE n # 0
    <3>1. 0 < n /\ n <= m /\ n \in 0 .. n
      BY <1>2, <2>2
    <3>2. Steps(c, base, s, 1 .. n)[1 .. n] = Steps(c, base, a, 1 .. m)[1 .. n]
      BY <1>3, <3>1, StepsAgree
    <3> QED
      BY <1>5, <3>2
  <2> QED
    BY <2>1, <2>2
<1> QED
  BY <1>1, <1>4, <1>6, <1>7

\* A fold stays in a set that no step leaves.
LEMMA FoldStays ==
  ASSUME NEW c, NEW base, NEW S, NEW T, base \in T,
         \A y \in T, x \in S : Op(c, y, x) \in T
  PROVE  \A s \in Seq(S) : Fold(c, base, s) \in T
<1> SUFFICES ASSUME NEW s \in Seq(S)
             PROVE  Fold(c, base, s) \in T
  OBVIOUS
<1>1. PICK n \in Nat : n = Len(s) /\ DOMAIN s = 1 .. n /\ \A i \in 1 .. n : s[i] \in S
  OBVIOUS
<1>2. CASE n = 0
  <2>1. s = <<>>
    BY <1>1, <1>2
  <2> QED
    BY <2>1, FoldEmpty
<1>3. CASE n # 0
  <2>1. PICK g : g = Steps(c, base, s, 1 .. n)
    OBVIOUS
  <2> DEFINE N == {k \in Nat : k <= n => g[1 .. k] \in T}
  <2>2. 0 \in N
    <3>1. g[{}] = base
      BY <2>1, StepsOfNone
    <3>2. 1 .. 0 = {}
      OBVIOUS
    <3> QED
      BY <3>1, <3>2
  <2>3. ASSUME NEW k \in Nat, k \in N
        PROVE  k + 1 \in N
    <3>1. SUFFICES ASSUME k + 1 <= n
                   PROVE  g[1 .. k + 1] \in T
      OBVIOUS
    <3>2. k < n /\ k + 1 \in 1 .. n /\ g[1 .. k] \in T
      BY <2>3, <3>1
    <3>3. g[1 .. k + 1] = Op(c, g[1 .. k], s[k + 1])
      BY <2>1, <3>2, StepsOfFirst
    <3> QED
      BY <1>1, <3>2, <3>3
  <2>4. Nat \subseteq N
    <3> HIDE DEF N
    <3> QED
      BY <2>2, <2>3, NatInduct
  <2>5. g[1 .. n] \in T
    BY <2>4
  <2> QED
    BY <1>1, <2>1, <2>5, Zenon DEF Fold
<1> QED
  BY <1>2, <1>3

(***************************************************************************)
(* Recursion from the end of a sequence to its start                       *)
(***************************************************************************)

\* g and h are the same after i.
Ahead(g, h, i, n) == \A j \in i + 1 .. n : g[j] = h[j]

\* Op at i looks only at what comes after i.
LooksAhead(c, n) ==
  \A g, h : \A i \in 1 .. n : Ahead(g, h, i, n) => Op(c, g, i) = Op(c, h, i)

\* The function on 1 .. n that is defined, at each number, from what it is at
\* greater ones.
Recursion(c, n) == CHOOSE g : g = [i \in 1 .. n |-> Op(c, g, i)]

\* A recursive function is what its definition says.
LEMMA RecursionDef ==
  ASSUME NEW c, NEW n \in Nat, LooksAhead(c, n)
  PROVE  \A i \in 1 .. n : Recursion(c, n)[i] = Op(c, Recursion(c, n), i)
<1> DEFINE From(m) == {i \in 1 .. n : n - i < m}
           N == {m \in Nat : \E g : g = [i \in From(m) |-> Op(c, g, i)]}
<1>1. 0 \in N
  <2>1. From(0) = {}
    OBVIOUS
  <2>2. <<>> = [i \in From(0) |-> Op(c, <<>>, i)]
    BY <2>1
  <2>3. \E g : g = [i \in From(0) |-> Op(c, g, i)]
    <3> HIDE DEF From
    <3> QED
      BY <2>2
  <2>4. 0 \in Nat
    OBVIOUS
  <2> QED
    BY <2>3, <2>4, Zenon
<1>2. ASSUME NEW m \in Nat, m \in N
      PROVE  m + 1 \in N
  <2>1. PICK g : g = [i \in From(m) |-> Op(c, g, i)]
    BY <1>2
  <2>2. PICK k \in Nat : k = m + 1
    OBVIOUS
  <2> DEFINE h == [i \in From(k) |-> Op(c, g, i)]
  <2>3. ASSUME NEW i \in From(k)
        PROVE  h[i] = Op(c, h, i)
    <3>1. \A j \in i + 1 .. n : j \in From(m) /\ j \in From(k)
      BY <2>2
    <3>2. \A j \in From(m) : g[j] = Op(c, g, j)
      BY <2>1, Zenon
    <3>3. Ahead(g, h, i, n)
      BY <3>1, <3>2 DEF Ahead
    <3>4. Op(c, g, i) = Op(c, h, i)
      BY <3>3, Zenon DEF LooksAhead
    <3> QED
      BY <3>4
  <2>4. h = [i \in From(k) |-> Op(c, h, i)]
    BY <2>3
  <2>5. \E f : f = [i \in From(k) |-> Op(c, f, i)]
    <3> HIDE DEF h, From
    <3> QED
      BY <2>4
  <2>6. k \in N
    BY <2>5, Zenon
  <2> QED
    BY <2>2, <2>6
<1>3. Nat \subseteq N
  <2> HIDE DEF N
  <2> QED
    BY <1>1, <1>2, NatInduct
<1>4. From(n) = 1 .. n
  OBVIOUS
<1>5. \E g : g = [i \in 1 .. n |-> Op(c, g, i)]
  BY <1>3, <1>4
<1>6. PICK g : g = Recursion(c, n) /\ g = [i \in 1 .. n |-> Op(c, g, i)]
  BY <1>5, Zenon DEF Recursion
<1>7. \A i \in 1 .. n : g[i] = Op(c, g, i)
  BY <1>6, Zenon
<1> QED
  BY <1>6, <1>7
=============================================================================
