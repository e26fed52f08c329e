---------------------------- MODULE DataTheorems ----------------------------
(***************************************************************************)
(* Facts about the data of the models: sums, with SumFunction of the        *)
(* community module Functions, and queues, sequences without duplicates.    *)
(*                                                                         *)
(* SumFunction is a fold over a recursive function on the subsets of the    *)
(* domain; the inductions are arguments about a minimal counterexample, in  *)
(* a set of numbers or a set of sets, since well-foundedness is all the     *)
(* library states without an operator parameter.                            *)
(***************************************************************************)
EXTENDS Integers, SequencesExt, FiniteSetTheorems, SequenceTheorems, TLAPS

\* A set of natural numbers that is not empty has a least element.
LEMMA LeastNumber ==
    ASSUME NEW T, T \subseteq Nat, T # {}
    PROVE  \E x \in T : \A y \in T : x <= y
<1> DEFINE R == {ss \in Nat \X Nat : ss[1] < ss[2]}
<1>1. IsWellFoundedOn(R, Nat)
  BY NatLessThanWellFounded, Zenon DEF OpToRel
<1>2. PICK x \in T : \A y \in T : ~(<<y, x>> \in R)
  BY <1>1, WFMin
<1>3. x \in Nat /\ \A y \in T : y \in Nat
  OBVIOUS
<1>4. \A y \in T : ~(y < x)
  BY <1>2, <1>3
<1> QED
  BY <1>3, <1>4

\* A set of subsets of a finite set that is not empty has a minimal element.
LEMMA MinimalSet ==
    ASSUME NEW S, IsFiniteSet(S), NEW T, T \subseteq SUBSET S, T # {}
    PROVE  \E s \in T : \A u \in T : u \subseteq s => u = s
<1>1. IsWellFoundedOn(StrictSubsetOrdering(S), SUBSET S)
  BY FS_FiniteSubsetsOfFinite, FS_StrictSubsetOrderingWellFounded
<1>2. \E s \in T : \A u \in T : ~(<<u, s>> \in StrictSubsetOrdering(S))
  BY <1>1, WFMin
<1> QED
  BY <1>2 DEF StrictSubsetOrdering

\* The element that the fold takes first.
Pick(s) == CHOOSE x \in s : TRUE

\* h holds the sums of f over the sets of D.
Sums(f, D, h) ==
    h = [s \in D |-> IF s = {} THEN 0 ELSE f[Pick(s)] + h[s \ {Pick(s)}]]

\* The recursion is well founded, so there is such a function.
LEMMA SumsExist ==
    ASSUME NEW S, IsFiniteSet(S), NEW f
    PROVE  \E h : Sums(f, SUBSET S, h)
<1> DEFINE D(k) == {s \in SUBSET S : Cardinality(s) <= k}
           Bad == {k \in Nat : ~ \E h : Sums(f, D(k), h)}
<1>0. \A s \in SUBSET S :
        /\ IsFiniteSet(s) /\ Cardinality(s) \in Nat
        /\ Cardinality(s) = 0 <=> s = {}
        /\ s # {} => /\ Pick(s) \in s
                     /\ s \ {Pick(s)} \in SUBSET S
                     /\ Cardinality(s \ {Pick(s)}) = Cardinality(s) - 1
        /\ Cardinality(s) <= Cardinality(S)
  <2> SUFFICES ASSUME NEW s \in SUBSET S
               PROVE /\ IsFiniteSet(s) /\ Cardinality(s) \in Nat
                     /\ Cardinality(s) = 0 <=> s = {}
                     /\ s # {} => /\ Pick(s) \in s
                                  /\ s \ {Pick(s)} \in SUBSET S
                                  /\ Cardinality(s \ {Pick(s)}) = Cardinality(s) - 1
                     /\ Cardinality(s) <= Cardinality(S)
    OBVIOUS
  <2>1. IsFiniteSet(s) /\ Cardinality(s) <= Cardinality(S)
    BY FS_Subset
  <2>2. Cardinality(s) \in Nat
    BY <2>1, FS_CardinalityType
  <2>3. s # {} => Pick(s) \in s
    BY DEF Pick
  <2> QED
    BY <2>1, <2>2, <2>3, FS_EmptySet, FS_RemoveElement
<1>1. \A k \in Nat : k \in Bad <=> ~ \E h : Sums(f, D(k), h)
  OBVIOUS
<1>2. \A k, s : s \in D(k) <=> s \in SUBSET S /\ Cardinality(s) <= k
  OBVIOUS
<1>3. Bad \subseteq Nat
  OBVIOUS
<1> HIDE DEF D, Bad
<1>4. Bad = {}
  <2> SUFFICES ASSUME Bad # {} PROVE FALSE
    OBVIOUS
  <2>1. PICK k \in Bad : \A j \in Bad : k <= j
    BY <1>3, LeastNumber
  <2>2. k \in Nat
    BY <1>3
  <2>3. CASE k = 0
    <3>1. ASSUME NEW s \in D(0) PROVE s = {}
      <4>1. s \in SUBSET S /\ Cardinality(s) <= 0
        BY <1>2
      <4>2. Cardinality(s) \in Nat
        BY <1>0, <4>1
      <4>3. Cardinality(s) = 0
        BY <4>1, <4>2
      <4> QED
        BY <1>0, <4>1, <4>3
    <3>2. Sums(f, D(0), [s \in D(0) |-> 0])
      BY <3>1 DEF Sums
    <3> QED
      BY <1>1, <2>1, <2>3, <3>2
  <2>4. CASE k # 0
    <3>1. k - 1 \in Nat /\ k - 1 \notin Bad
      BY <2>1, <2>2, <2>4
    <3>2. PICK h : Sums(f, D(k - 1), h)
      BY <1>1, <3>1
    <3> DEFINE g == [s \in D(k) |-> IF s = {} THEN 0
                                    ELSE f[Pick(s)] + h[s \ {Pick(s)}]]
    <3>3. ASSUME NEW s \in D(k), s # {}
          PROVE  g[s \ {Pick(s)}] = h[s \ {Pick(s)}]
      <4>1. s \ {Pick(s)} \in SUBSET S
        BY <1>0, <1>2, <3>3
      <4>2. Cardinality(s \ {Pick(s)}) <= k - 1 /\ Cardinality(s \ {Pick(s)}) <= k
        BY <1>0, <1>2, <2>2, <3>3
      <4>3. s \ {Pick(s)} \in D(k - 1) /\ s \ {Pick(s)} \in D(k)
        BY <1>2, <4>1, <4>2
      <4> QED
        BY <3>2, <4>3 DEF Sums
    <3>4. Sums(f, D(k), g)
      BY <3>3 DEF Sums
    <3> QED
      BY <1>1, <2>1, <2>2, <3>4
  <2> QED
    BY <2>3, <2>4
<1>5. Cardinality(S) \in Nat /\ D(Cardinality(S)) = SUBSET S
  BY <1>0, <1>2
<1> QED
  BY <1>1, <1>4, <1>5

\* So the sum over a set is what the recursion computes.
LEMMA SumFunctionSums ==
    ASSUME NEW S, IsFiniteSet(S), NEW f
    PROVE  \E h : Sums(f, SUBSET S, h) /\ SumFunctionOnSet(f, S) = h[S]
<1>1. SumFunctionOnSet(f, S) = (CHOOSE h : Sums(f, SUBSET S, h))[S]
  BY DEF SumFunctionOnSet, FoldFunctionOnSet, MapThenFoldSet, Sums, Pick
<1> QED
  BY <1>1, SumsExist

\* A property of all sums of subsets, shown for a set from the same set
\* without the element picked first.
LEMMA SumInduction ==
    ASSUME NEW S, IsFiniteSet(S), NEW Good, Good \subseteq SUBSET S, {} \in Good,
           \A s \in SUBSET S : s # {} /\ s \ {Pick(s)} \in Good => s \in Good
    PROVE  S \in Good
<1> DEFINE Bad == (SUBSET S) \ Good
<1> SUFFICES ASSUME Bad # {} PROVE FALSE
  OBVIOUS
<1>1. Bad \subseteq SUBSET S
  OBVIOUS
<1>2. PICK s \in Bad : \A u \in Bad : u \subseteq s => u = s
  <2> HIDE DEF Bad
  <2> QED
    BY <1>1, MinimalSet
<1>3. s # {} /\ s \in SUBSET S
  OBVIOUS
<1>4. Pick(s) \in s
  BY <1>3 DEF Pick
<1>5. s \ {Pick(s)} \in Good
  BY <1>2, <1>3, <1>4
<1> QED
  BY <1>3, <1>5

\* A sum of natural numbers is one, and at least each of them.
LEMMA SumNat ==
    ASSUME NEW S, IsFiniteSet(S), NEW f \in [S -> Nat]
    PROVE  /\ SumFunction(f) \in Nat
           /\ \A x \in S : f[x] <= SumFunction(f)
<1>1. PICK h : Sums(f, SUBSET S, h) /\ SumFunctionOnSet(f, S) = h[S]
  BY SumFunctionSums
<1> DEFINE Good == {s \in SUBSET S : h[s] \in Nat /\ \A x \in s : f[x] <= h[s]}
<1>2. {} \in Good
  BY <1>1 DEF Sums
<1>3. ASSUME NEW s \in SUBSET S, s # {}, s \ {Pick(s)} \in Good
      PROVE  s \in Good
  <2>1. Pick(s) \in s /\ f[Pick(s)] \in Nat /\ \A x \in s : f[x] \in Nat
    BY <1>3 DEF Pick
  <2>2. h[s] = f[Pick(s)] + h[s \ {Pick(s)}]
    BY <1>1, <1>3 DEF Sums
  <2> QED
    BY <1>3, <2>1, <2>2
<1>4. S \in Good
  <2> HIDE DEF Good
  <2>1. Good \subseteq SUBSET S
    BY DEF Good
  <2> QED
    BY <1>2, <1>3, <2>1, SumInduction
<1> QED
  BY <1>1, <1>4 DEF SumFunction

\* The sum of zeros.
LEMMA SumZero ==
    ASSUME NEW S, IsFiniteSet(S), NEW f \in [S -> Nat], \A x \in S : f[x] = 0
    PROVE  SumFunction(f) = 0
<1>1. PICK h : Sums(f, SUBSET S, h) /\ SumFunctionOnSet(f, S) = h[S]
  BY SumFunctionSums
<1> DEFINE Good == {s \in SUBSET S : h[s] = 0}
<1>2. {} \in Good
  BY <1>1 DEF Sums
<1>3. ASSUME NEW s \in SUBSET S, s # {}, s \ {Pick(s)} \in Good
      PROVE  s \in Good
  <2>1. Pick(s) \in s /\ f[Pick(s)] = 0
    BY <1>3 DEF Pick
  <2>2. h[s] = f[Pick(s)] + h[s \ {Pick(s)}]
    BY <1>1, <1>3 DEF Sums
  <2> QED
    BY <1>3, <2>1, <2>2
<1>4. S \in Good
  <2> HIDE DEF Good
  <2>1. Good \subseteq SUBSET S
    BY DEF Good
  <2> QED
    BY <1>2, <1>3, <2>1, SumInduction
<1> QED
  BY <1>1, <1>4 DEF SumFunction

\* What a change of one value does to the sum.
LEMMA SumChange ==
    ASSUME NEW S, IsFiniteSet(S), NEW f \in [S -> Nat], NEW g \in [S -> Nat],
           NEW x \in S, \A y \in S : y # x => g[y] = f[y]
    PROVE  SumFunction(g) = SumFunction(f) + g[x] - f[x]
<1>1. PICK h : Sums(f, SUBSET S, h) /\ SumFunctionOnSet(f, S) = h[S]
  BY SumFunctionSums
<1>2. PICK k : Sums(g, SUBSET S, k) /\ SumFunctionOnSet(g, S) = k[S]
  BY SumFunctionSums
<1> DEFINE Good == {s \in SUBSET S :
                      /\ h[s] \in Nat /\ k[s] \in Nat
                      /\ k[s] = h[s] + (IF x \in s THEN g[x] - f[x] ELSE 0)}
<1>3. {} \in Good
  BY <1>1, <1>2 DEF Sums
<1>4. ASSUME NEW s \in SUBSET S, s # {}, s \ {Pick(s)} \in Good
      PROVE  s \in Good
  <2> DEFINE p == Pick(s)
             u == s \ {p}
  <2>1. p \in s /\ p \in S /\ f[p] \in Nat /\ g[p] \in Nat
    BY <1>4 DEF Pick
  <2>2. h[s] = f[p] + h[u] /\ k[s] = g[p] + k[u]
    BY <1>1, <1>2, <1>4 DEF Sums
  <2>3. h[u] \in Nat /\ k[u] \in Nat
        /\ k[u] = h[u] + (IF x \in u THEN g[x] - f[x] ELSE 0)
    BY <1>4
  <2>4. f[x] \in Nat /\ g[x] \in Nat
    OBVIOUS
  <2> HIDE DEF p
  <2>5. CASE p = x
    BY <2>1, <2>2, <2>3, <2>4, <2>5
  <2>6. CASE p # x
    <3>1. g[p] = f[p] /\ (x \in u <=> x \in s)
      BY <2>1, <2>6
    <3> QED
      BY <2>1, <2>2, <2>3, <2>4, <3>1
  <2> QED
    BY <2>5, <2>6
<1>5. S \in Good
  <2> HIDE DEF Good
  <2>1. Good \subseteq SUBSET S
    BY DEF Good
  <2> QED
    BY <1>3, <1>4, <2>1, SumInduction
<1> QED
  BY <1>1, <1>2, <1>5 DEF SumFunction

-----------------------------------------------------------------------------
\* Who is in a queue.
LEMMA QueueSet ==
    ASSUME NEW S, NEW q \in Seq(S)
    PROVE  /\ ToSet(q) \subseteq S
           /\ \A x : Contains(q, x) <=> x \in ToSet(q)
           /\ q = << >> <=> ToSet(q) = {}
<1>1. Len(q) \in Nat /\ DOMAIN q = 1 .. Len(q) /\ \A i \in 1 .. Len(q) : q[i] \in S
  BY LenProperties, ElementOfSeq
<1>2. q # << >> => q[1] \in ToSet(q)
  BY <1>1, EmptySeq DEF ToSet
<1>3. DOMAIN << >> = {}
  OBVIOUS
<1> QED
  BY <1>1, <1>2, <1>3 DEF ToSet, Contains

\* Somebody comes: TAILQ_INSERT_TAIL().
LEMMA QueueAppend ==
    ASSUME NEW S, NEW q \in Seq(S), NEW e \in S
    PROVE  /\ Append(q, e) \in Seq(S) /\ Append(q, e) # << >>
           /\ ToSet(Append(q, e)) = ToSet(q) \cup {e}
           /\ IsInjective(q) /\ e \notin ToSet(q) => IsInjective(Append(q, e))
<1> DEFINE r == Append(q, e)
<1>1. /\ r \in Seq(S) /\ Len(r) = Len(q) + 1 /\ r # << >>
      /\ \A i \in 1 .. Len(q) + 1 : r[i] = IF i = Len(q) + 1 THEN e ELSE q[i]
  BY AppendProperties
<1>2. Len(q) \in Nat /\ DOMAIN q = 1 .. Len(q) /\ DOMAIN r = 1 .. Len(q) + 1
  BY <1>1, LenProperties
<1> HIDE DEF r
<1>3. IsInjective(q) /\ e \notin ToSet(q) => IsInjective(r)
  BY <1>1, <1>2 DEF IsInjective, ToSet
<1>4. ToSet(r) \subseteq ToSet(q) \cup {e}
  BY <1>1, <1>2 DEF ToSet
<1>5. e \in ToSet(r)
  BY <1>1, <1>2 DEF ToSet
<1>6. ToSet(q) \subseteq ToSet(r)
  BY <1>1, <1>2 DEF ToSet
<1> QED
  BY <1>1, <1>3, <1>4, <1>5, <1>6 DEF r

\* The first one leaves.
LEMMA QueueTail ==
    ASSUME NEW S, NEW q \in Seq(S), q # << >>
    PROVE  /\ Head(q) \in S /\ Head(q) \in ToSet(q) /\ Tail(q) \in Seq(S)
           /\ IsInjective(q) => IsInjective(Tail(q)) /\ ToSet(Tail(q)) = ToSet(q) \ {Head(q)}
<1> DEFINE r == Tail(q)
           h == Head(q)
<1>1. /\ h \in S /\ r \in Seq(S) /\ Len(r) = Len(q) - 1
      /\ \A i \in 1 .. Len(q) - 1 : r[i] = q[i + 1]
  BY HeadTailProperties
<1>2. /\ Len(q) \in Nat \ {0} /\ DOMAIN q = 1 .. Len(q) /\ h = q[1]
      /\ DOMAIN r = 1 .. Len(q) - 1
  BY <1>1, LenProperties, EmptySeq
<1> HIDE DEF r, h
<1>3. h \in ToSet(q)
  BY <1>2 DEF ToSet
<1>4. ASSUME IsInjective(q) PROVE IsInjective(r)
  BY <1>1, <1>2, <1>4, SMTT(30) DEF IsInjective
<1>5. ASSUME IsInjective(q), NEW x \in ToSet(r) PROVE x \in ToSet(q) \ {h}
  BY <1>1, <1>2, <1>5, SMTT(30) DEF ToSet, IsInjective
<1>6. ASSUME NEW x \in ToSet(q) \ {h} PROVE x \in ToSet(r)
  <2>1. PICK i \in 1 .. Len(q) : q[i] = x
    BY <1>2 DEF ToSet
  <2>2. i - 1 \in 1 .. Len(q) - 1 /\ r[i - 1] = x
    BY <1>1, <1>2, <1>6, <2>1
  <2> QED
    BY <1>2, <2>2 DEF ToSet
<1> QED
  BY <1>1, <1>3, <1>4, <1>5, <1>6 DEF r, h

\* Somebody leaves from the middle: TAILQ_REMOVE().
LEMMA QueueRemoveAt ==
    ASSUME NEW S, NEW q \in Seq(S), NEW k \in DOMAIN q, IsInjective(q)
    PROVE  /\ RemoveAt(q, k) \in Seq(S) /\ IsInjective(RemoveAt(q, k))
           /\ ToSet(RemoveAt(q, k)) = ToSet(q) \ {q[k]}
<1>1. Len(q) \in Nat /\ DOMAIN q = 1 .. Len(q) /\ \A i \in 1 .. Len(q) : q[i] \in S
  BY LenProperties, ElementOfSeq
<1> DEFINE l == SubSeq(q, 1, k - 1)
           u == SubSeq(q, k + 1, Len(q))
           r == l \o u
<1>2. /\ l \in Seq(S) /\ Len(l) = k - 1
      /\ \A i \in 1 .. k - 1 : l[i] = q[i]
  BY <1>1, SubSeqProperties
<1>3. /\ u \in Seq(S) /\ Len(u) = Len(q) - k
      /\ \A i \in 1 .. Len(q) - k : u[i] = q[k + i]
  BY <1>1, SubSeqProperties
<1> HIDE DEF l, u
<1>4. /\ r \in Seq(S) /\ Len(r) = Len(q) - 1 /\ DOMAIN r = 1 .. Len(q) - 1
      /\ \A i \in 1 .. Len(q) - 1 : r[i] = IF i < k THEN q[i] ELSE q[i + 1]
  <2>1. /\ r \in Seq(S) /\ Len(r) = Len(l) + Len(u)
        /\ \A i \in 1 .. Len(l) + Len(u) : r[i] = IF i <= Len(l) THEN l[i] ELSE u[i - Len(l)]
    BY <1>2, <1>3, ConcatProperties
  <2> HIDE DEF r
  <2>2. Len(r) = Len(q) - 1 /\ DOMAIN r = 1 .. Len(q) - 1
    BY <1>1, <1>2, <1>3, <2>1, LenProperties
  <2>3. ASSUME NEW i \in 1 .. Len(q) - 1
        PROVE  r[i] = IF i < k THEN q[i] ELSE q[i + 1]
    <3>1. CASE i < k
      BY <1>1, <1>2, <1>3, <2>1, <3>1
    <3>2. CASE ~(i < k)
      <4>1. i - (k - 1) \in 1 .. Len(q) - k /\ k + (i - (k - 1)) = i + 1
        BY <1>1, <3>2
      <4>2. r[i] = u[i - (k - 1)]
        BY <1>1, <1>2, <1>3, <2>1, <3>2
      <4> QED
        BY <1>3, <3>2, <4>1, <4>2
    <3> QED
      BY <3>1, <3>2
  <2> QED
    BY <2>1, <2>2, <2>3
<1> HIDE DEF r
<1>5. IsInjective(r)
  BY <1>1, <1>4 DEF IsInjective
<1>6. ASSUME NEW x \in ToSet(r) PROVE x \in ToSet(q) /\ x # q[k]
  BY <1>1, <1>4 DEF ToSet, IsInjective
<1>7. ASSUME NEW x \in ToSet(q), x # q[k] PROVE x \in ToSet(r)
  <2>1. PICK i \in 1 .. Len(q) : q[i] = x
    BY <1>1 DEF ToSet
  <2>2. CASE i < k
    BY <1>1, <1>4, <2>1, <2>2 DEF ToSet
  <2>3. CASE i > k
    <3>1. i - 1 \in 1 .. Len(q) - 1 /\ r[i - 1] = x
      BY <1>1, <1>4, <2>1, <2>3
    <3> QED
      BY <1>4, <3>1 DEF ToSet
  <2> QED
    BY <1>1, <1>7, <2>1, <2>2, <2>3
<1> QED
  BY <1>4, <1>5, <1>6, <1>7 DEF RemoveAt, r, l, u

\* The same for somebody who need not be there.
LEMMA QueueRemove ==
    ASSUME NEW S, NEW q \in Seq(S), IsInjective(q), NEW e
    PROVE  /\ RemoveFirst(q, e) \in Seq(S) /\ IsInjective(RemoveFirst(q, e))
           /\ ToSet(RemoveFirst(q, e)) = ToSet(q) \ {e}
<1>1. Len(q) \in Nat /\ DOMAIN q = 1 .. Len(q)
  BY LenProperties
<1> DEFINE I == {i \in 1 .. Len(q) : q[i] = e}
<1>2. CASE I = {}
  BY <1>1, <1>2 DEF RemoveFirst, ToSet
<1>3. CASE I # {}
  <2>1. I \subseteq Nat
    BY <1>1
  <2>2. \E x \in I : \A y \in I : x <= y
    <3> HIDE DEF I
    <3> QED
      BY <1>3, <2>1, LeastNumber
  <2>3. Min(I) \in I
    <3> HIDE DEF I
    <3> QED
      BY <2>2 DEF Min
  <2>4. RemoveFirst(q, e) = RemoveAt(q, Min(I))
    BY <1>3 DEF RemoveFirst, SelectInSeq
  <2> HIDE DEF I
  <2>5. Min(I) \in DOMAIN q /\ q[Min(I)] = e
    BY <1>1, <2>3 DEF I
  <2> QED
    BY <2>4, <2>5, QueueRemoveAt
<1> QED
  BY <1>2, <1>3

\* One queue behind another.
LEMMA QueueConcat ==
    ASSUME NEW S, NEW q \in Seq(S), NEW r \in Seq(S)
    PROVE  /\ q \o r \in Seq(S) /\ ToSet(q \o r) = ToSet(q) \cup ToSet(r)
           /\ IsInjective(q) /\ IsInjective(r) /\ ToSet(q) \cap ToSet(r) = {}
                => IsInjective(q \o r)
<1> DEFINE c == q \o r
<1>1. /\ c \in Seq(S) /\ Len(c) = Len(q) + Len(r)
      /\ \A i \in 1 .. Len(q) + Len(r) : c[i] = IF i <= Len(q) THEN q[i] ELSE r[i - Len(q)]
  BY ConcatProperties
<1>2. /\ Len(q) \in Nat /\ DOMAIN q = 1 .. Len(q)
      /\ Len(r) \in Nat /\ DOMAIN r = 1 .. Len(r)
  BY LenProperties
<1> HIDE DEF c
<1>3. DOMAIN c = 1 .. Len(q) + Len(r)
  BY <1>1, LenProperties
<1>4. ASSUME NEW x \in ToSet(c) PROVE x \in ToSet(q) \cup ToSet(r)
  BY <1>1, <1>2, <1>3, SMTT(30) DEF ToSet
<1>5. ASSUME NEW x \in ToSet(q) PROVE x \in ToSet(c)
  BY <1>1, <1>2, <1>3 DEF ToSet
<1>6. ASSUME NEW x \in ToSet(r) PROVE x \in ToSet(c)
  <2>1. PICK i \in 1 .. Len(r) : r[i] = x
    BY <1>2 DEF ToSet
  <2>2. i + Len(q) \in 1 .. Len(q) + Len(r) /\ ~(i + Len(q) <= Len(q))
        /\ (i + Len(q)) - Len(q) = i
    BY <1>2
  <2>3. c[i + Len(q)] = x
    BY <1>1, <2>1, <2>2
  <2> QED
    BY <1>3, <2>2, <2>3 DEF ToSet
<1>7. ASSUME IsInjective(q), IsInjective(r), ToSet(q) \cap ToSet(r) = {},
             NEW i \in DOMAIN c, NEW j \in DOMAIN c, c[i] = c[j]
      PROVE  i = j
  <2>1. \A a \in DOMAIN q, b \in DOMAIN r : q[a] # r[b]
    BY <1>7 DEF ToSet
  <2>2. CASE i <= Len(q) /\ j <= Len(q)
    BY <1>1, <1>2, <1>3, <1>7, <2>2 DEF IsInjective
  <2>3. CASE ~(i <= Len(q)) /\ ~(j <= Len(q))
    <3>1. i - Len(q) \in DOMAIN r /\ j - Len(q) \in DOMAIN r
      BY <1>2, <1>3, <2>3
    <3>2. r[i - Len(q)] = r[j - Len(q)]
      BY <1>1, <1>2, <1>3, <1>7, <2>3
    <3>3. i - Len(q) = j - Len(q)
      BY <1>7, <3>1, <3>2 DEF IsInjective
    <3> QED
      BY <1>2, <1>3, <3>3
  <2>4. CASE i <= Len(q) /\ ~(j <= Len(q))
    <3>1. i \in DOMAIN q /\ j - Len(q) \in DOMAIN r /\ q[i] = r[j - Len(q)]
      BY <1>1, <1>2, <1>3, <1>7, <2>4
    <3> QED
      BY <2>1, <3>1
  <2>5. CASE ~(i <= Len(q)) /\ j <= Len(q)
    <3>1. j \in DOMAIN q /\ i - Len(q) \in DOMAIN r /\ q[j] = r[i - Len(q)]
      BY <1>1, <1>2, <1>3, <1>7, <2>5
    <3> QED
      BY <2>1, <3>1
  <2> QED
    BY <2>2, <2>3, <2>4, <2>5
<1> QED
  BY <1>1, <1>4, <1>5, <1>6, <1>7 DEF c, IsInjective

\* A finite set in any order.
LEMMA QueueOfSet ==
    ASSUME NEW S, IsFiniteSet(S), NEW q \in SetToSeqs(S)
    PROVE  q \in Seq(S) /\ IsInjective(q) /\ ToSet(q) = S
<1> DEFINE n == Cardinality(S)
<1>1. n \in Nat
  BY FS_CardinalityType
<1>2. q \in [1 .. n -> S] /\ \A i, j \in 1 .. n : i # j => q[i] # q[j]
  BY DEF SetToSeqs
<1>3. IsFiniteSet(1 .. n) /\ Cardinality(1 .. n) = n
  BY <1>1, FS_Interval
<1>4. q \in Injection(1 .. n, S) /\ IsInjective(q)
  BY <1>2 DEF Injection, IsInjective
<1>5. q \in Surjection(1 .. n, S)
  BY <1>3, <1>4, FS_Injection
<1>6. q \in Seq(S)
  BY <1>1, <1>2
<1>7. ToSet(q) = S
  BY <1>2, <1>5 DEF Surjection, ToSet
<1> QED
  BY <1>4, <1>6, <1>7
=============================================================================
