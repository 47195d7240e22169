------------------------- MODULE EscrowClaimsProofs --------------------------
(***************************************************************************)
(* The watcher's validation never wedges, what it tracks is on the chain,  *)
(* its claims never compete, what it marks paid was paid and what it gives *)
(* up is lost: for every set of outputs, every number of chain changes,    *)
(* reconnections and lost answers, and every window and batch size.        *)
(***************************************************************************)
EXTENDS EscrowClaims, ClaimCases, FunctionTheorems, FiniteSetTheorems, SequenceTheorems,
        NaturalsInduction, WellFoundedInduction, TLAPS

-----------------------------------------------------------------------------
(* Lists *)

\* SetToSeq lists every element of a finite set once.
LEMMA SetToSeqLists ==
    ASSUME NEW S, IsFiniteSet(S)
    PROVE  /\ SetToSeq(S) \in Seq(S) /\ Len(SetToSeq(S)) = Cardinality(S) /\ Cardinality(S) \in Nat
           /\ \A x \in S : \E i \in 1..Cardinality(S) : SetToSeq(S)[i] = x
           /\ \A i, j \in 1..Cardinality(S) : SetToSeq(S)[i] = SetToSeq(S)[j] => i = j
  <1>. DEFINE n == Cardinality(S)
              s == SetToSeq(S)
  <1>1. n \in Nat /\ ExistsBijection(1..n, S)
    BY FS_CardinalityType
  <1>2. PICK g : g \in Bijection(1..n, S)
    BY <1>1 DEF ExistsBijection
  <1>3. g \in [1..n -> S] /\ IsInjective(g)
    BY <1>2 DEF Bijection, Injection
  <1>4. s \in [1..n -> S] /\ IsInjective(s)
    BY <1>3 DEF SetToSeq
  <1>5. s \in Injection(1..n, S)
    BY <1>4 DEF Injection
  <1>6. Cardinality(1..n) = n
    BY <1>1, FS_Interval
  <1>7. s \in Surjection(1..n, S)
    <2>. HIDE DEF s, n
    <2>. QED
      BY <1>5, <1>6, FS_Injection DEF n
  <1>8. s \in Seq(S) /\ Len(s) = n
    <2>. HIDE DEF s, n
    <2>. QED
      BY <1>1, <1>4
  <1>9. \A x \in S : \E i \in 1..n : s[i] = x
    BY <1>7 DEF Surjection
  <1>10. \A i, j \in 1..n : s[i] = s[j] => i = j
    BY <1>4 DEF IsInjective
  <1>. QED
    BY <1>1, <1>8, <1>9, <1>10

\* A sequence has at most as many elements as positions.
LEMMA ElementsAreFewer ==
    ASSUME NEW S, NEW q \in Seq(S)
    PROVE  IsFiniteSet(ToSet(q)) /\ Cardinality(ToSet(q)) <= Len(q)
  <1>1. Len(q) \in Nat /\ DOMAIN q = 1..Len(q) /\ q \in [1..Len(q) -> S]
    OBVIOUS
  <1>2. q \in Surjection(1..Len(q), ToSet(q))
    BY <1>1 DEF Surjection, ToSet
  <1>3. ExistsSurjection(1..Len(q), ToSet(q))
    BY <1>2 DEF ExistsSurjection
  <1>4. IsFiniteSet(ToSet(q))
    BY <1>1, <1>3, FS_NatSurjection
  <1>5. Cardinality(ToSet(q)) <= Len(q)
    BY <1>1, <1>3, FS_SurjCardinalityBound
  <1>. QED
    BY <1>4, <1>5

\* A function on the first numbers is a sequence of its values.
LEMMA IsListed ==
    ASSUME NEW n \in Nat, NEW s, s = [i \in 1..n |-> s[i]]
    PROVE  s \in Seq(ToSet(s)) /\ Len(s) = n /\ DOMAIN s = 1..n
  <1>1. DOMAIN s = 1..n
    OBVIOUS
  <1>2. s \in [1..n -> ToSet(s)]
    BY <1>1 DEF ToSet
  <1>. QED
    BY <1>1, <1>2

\* The lists of no element and of one.
LEMMA ShortLists ==
    /\ SetToSeq({}) = <<>>
    /\ \A x : SetToSeq({x}) = <<x>>
  <1>1. SetToSeq({}) = <<>>
    <2>1. SetToSeq({}) \in Seq({}) /\ Len(SetToSeq({})) = 0
      BY SetToSeqLists, FS_EmptySet
    <2>. QED
      BY <2>1
  <1>2. ASSUME NEW x PROVE SetToSeq({x}) = <<x>>
    <2>1. SetToSeq({x}) \in Seq({x}) /\ Len(SetToSeq({x})) = 1
      BY SetToSeqLists, FS_Singleton
    <2>2. SetToSeq({x})[1] = x
      BY <2>1
    <2>. QED
      BY <2>1, <2>2
  <1>. QED
    BY <1>1, <1>2

\* Every position in a set of numbers is taken: the ranks of its elements are different, and there
\* are as many of them.
LEMMA RankExists ==
    ASSUME NEW S \in SUBSET Nat, IsFiniteSet(S), NEW k \in 1..Cardinality(S)
    PROVE  Nth(S, k) \in S /\ Cardinality({j \in S : j <= Nth(S, k)}) = k
  <1>. DEFINE R(i) == {j \in S : j <= i}
              r == [i \in S |-> Cardinality(R(i))]
              c == Cardinality(S)
  <1>1. IsFiniteSet(S) /\ c \in Nat
    BY FS_CardinalityType
  <1>2. ASSUME NEW i \in S PROVE IsFiniteSet(R(i)) /\ Cardinality(R(i)) \in 1..c
    <2>1. R(i) \in SUBSET S /\ i \in R(i)
      OBVIOUS
    <2>2. IsFiniteSet(R(i)) /\ Cardinality(R(i)) <= c
      BY <1>1, <2>1, FS_Subset
    <2>3. Cardinality(R(i)) \in Nat /\ Cardinality(R(i)) # 0
      <3>. HIDE DEF R
      <3>. QED
        BY <2>1, <2>2, FS_CardinalityType, FS_EmptySet
    <2>. HIDE DEF R, c
    <2>. QED
      BY <1>1, <2>2, <2>3
  <1>3. ASSUME NEW i \in S, NEW j \in S, i < j PROVE Cardinality(R(i)) < Cardinality(R(j))
    <2>1. R(i) \in SUBSET (R(j) \ {j}) /\ j \in R(j)
      <3>1. i \in Int /\ j \in Int /\ \A x \in S : x \in Int
        OBVIOUS
      <3>2. \A x \in R(i) : x \in S /\ x <= j /\ x # j
        BY <1>3, <3>1
      <3>3. R(i) \subseteq R(j) \ {j}
        BY <3>2
      <3>4. j \in R(j)
        BY <3>1
      <3>. HIDE DEF R
      <3>. QED
        BY <3>3, <3>4
    <2>. HIDE DEF R
    <2>2. IsFiniteSet(R(j) \ {j}) /\ Cardinality(R(j) \ {j}) = Cardinality(R(j)) - 1
      BY <1>2, <2>1, FS_RemoveElement
    <2>3. Cardinality(R(i)) <= Cardinality(R(j) \ {j})
      BY <2>1, <2>2, FS_Subset
    <2>4. Cardinality(R(i)) \in Int /\ Cardinality(R(j)) \in Int
      BY <1>2
    <2>. QED
      BY <2>2, <2>3, <2>4
  <1>. HIDE DEF R
  <1>4. r \in Injection(S, 1..c)
    <2>1. r \in [S -> 1..c]
      BY <1>2
    <2>2. ASSUME NEW i \in S, NEW j \in S, r[i] = r[j] PROVE i = j
      <3>1. i \in Int /\ j \in Int /\ Cardinality(R(i)) \in Int /\ Cardinality(R(j)) \in Int
        BY <1>2
      <3>2. Cardinality(R(i)) = Cardinality(R(j))
        BY <2>2
      <3>3. ~(i < j) /\ ~(j < i)
        BY <1>3, <3>1, <3>2
      <3>. QED
        BY <3>1, <3>3
    <2>. QED
      BY <2>1, <2>2 DEF Injection, IsInjective
  <1>5. IsFiniteSet(1..c) /\ Cardinality(1..c) = c
    BY <1>1, FS_Interval
  <1>6. r \in Surjection(S, 1..c)
    <2>. HIDE DEF r
    <2>. QED
      BY <1>4, <1>5, FS_Injection
  <1>7. \E i \in S : Cardinality(R(i)) = k
    BY <1>6 DEF Surjection
  <1>. QED
    BY <1>7 DEF Nth, R

LEMMA NthExists ==
    ASSUME NEW n \in Nat, NEW S \in SUBSET (1..n), NEW k \in 1..Cardinality(S)
    PROVE  Nth(S, k) \in S /\ Cardinality({j \in S : j <= Nth(S, k)}) = k
  <1>1. IsFiniteSet(1..n) /\ S \in SUBSET Nat
    BY FS_Interval
  <1>2. IsFiniteSet(S)
    BY <1>1, FS_Subset
  <1>. QED
    BY <1>1, <1>2, RankExists

\* In a full set of indices every one is at its own position.
LEMMA NthOfAll ==
    ASSUME NEW n \in Nat, NEW k \in 1..n
    PROVE  Nth(1..n, k) = k
  <1>. DEFINE m == Nth(1..n, k)
  <1>1. Cardinality(1..n) = n
    BY FS_Interval
  <1>2. m \in 1..n /\ Cardinality({j \in 1..n : j <= m}) = k
    BY <1>1, NthExists
  <1>. HIDE DEF m
  <1>3. {j \in 1..n : j <= m} = 1..m
    BY <1>2
  <1>4. Cardinality(1..m) = m
    BY <1>2, FS_Interval
  <1>. QED
    BY <1>2, <1>3, <1>4 DEF m

\* A set of naturals that is not empty has a least element.
LEMMA LeastNatural ==
    ASSUME NEW S \in SUBSET Nat, S # {}
    PROVE  \E x \in S : \A y \in S : x <= y
  <1>. DEFINE R == {ss \in Nat \X Nat : ss[1] < ss[2]}
  <1>1. IsWellFoundedOn(R, Nat)
    BY NatLessThanWellFounded, Zenon DEF OpToRel
  <1>2. \E x \in S : \A y \in S : <<y, x>> \notin R
    <2>. HIDE DEF R
    <2>. QED
      BY <1>1, WFMin
  <1>3. PICK x \in S : \A y \in S : <<y, x>> \notin R
    BY <1>2
  <1>4. \A y \in S : x <= y
    <2>. SUFFICES ASSUME NEW y \in S PROVE x <= y
      OBVIOUS
    <2>1. ~(y < x)
      BY <1>3
    <2>. QED
      BY <2>1
  <1>. QED
    BY <1>4
-----------------------------------------------------------------------------
(* Claim batches *)

\* Numbers in their order: each of them, once.
LEMMA InOrderOnce ==
    ASSUME NEW S \in SUBSET Nat, IsFiniteSet(S)
    PROVE  /\ InOrder(S) \in Seq(S) /\ Len(InOrder(S)) \in Nat
           /\ \A k, l \in 1..Len(InOrder(S)) : InOrder(S)[k] = InOrder(S)[l] => k = l
           /\ \A i \in S : \E k \in 1..Len(InOrder(S)) : InOrder(S)[k] = i
  <1>. DEFINE c == Cardinality(S)
              s == InOrder(S)
  <1>1. c \in Nat
    BY FS_CardinalityType
  <1>2. \A k \in 1..c : Nth(S, k) \in S /\ Cardinality({j \in S : j <= Nth(S, k)}) = k
    BY RankExists
  <1>3. s = [k \in 1..c |-> Nth(S, k)]
    BY DEF InOrder
  <1>. HIDE DEF s
  <1>4. s \in Seq(S) /\ Len(s) = c /\ s \in [1..c -> S]
    <2>. HIDE DEF c
    <2>1. s \in [1..c -> S]
      BY <1>2, <1>3
    <2>. QED
      BY <1>1, <2>1
  <1>5. ASSUME NEW k \in 1..c, NEW l \in 1..c, s[k] = s[l] PROVE k = l
    <2>. HIDE DEF c
    <2>. QED
      BY <1>2, <1>3, <1>5
  <1>6. s \in Surjection(1..c, S)
    <2>1. s \in Injection(1..c, S)
      <3>. HIDE DEF c
      <3>. QED
        BY <1>4, <1>5 DEF Injection, IsInjective
    <2>2. IsFiniteSet(1..c) /\ Cardinality(1..c) = c
      BY <1>1, FS_Interval
    <2>. QED
      BY <2>1, <2>2, FS_Injection
  <1>7. \A i \in S : \E k \in 1..c : s[k] = i
    BY <1>6 DEF Surjection
  <1>. HIDE DEF c
  <1>. QED
    BY <1>1, <1>4, <1>5, <1>7 DEF s

\* A list of different indices.
Once(q, n) == q \in Seq(1..n) /\ \A k, l \in 1..Len(q) : q[k] = q[l] => k = l

\* Each pass looks at an entry at most once.
LEMMA VisitsOnce ==
    ASSUME NEW es, Len(es) \in Nat, NEW pass
    PROVE  Once(VisitOrder(es, pass), Len(es))
  <1>. DEFINE all   == 1..Len(es)
              ahead == {i \in all : pass = Nominal /\ es[i].inference}
              s     == InOrder(ahead)
              t     == InOrder(all \ ahead)
              q     == VisitOrder(es, pass)
  <1>1. q = s \o t
    BY DEF VisitOrder
  <1>2. /\ s \in Seq(ahead) /\ Len(s) \in Nat /\ \A k, l \in 1..Len(s) : s[k] = s[l] => k = l
        /\ t \in Seq(all \ ahead) /\ Len(t) \in Nat /\ \A k, l \in 1..Len(t) : t[k] = t[l] => k = l
    <2>1. ahead \in SUBSET all /\ all \ ahead \in SUBSET all /\ all \in SUBSET Nat
      OBVIOUS
    <2>2. IsFiniteSet(all)
      BY FS_Interval
    <2>. HIDE DEF ahead, all
    <2>3. IsFiniteSet(ahead) /\ IsFiniteSet(all \ ahead)
      BY <2>1, <2>2, FS_Subset
    <2>. QED
      BY <2>1, <2>3, InOrderOnce
  <1>3. s \in Seq(all) /\ t \in Seq(all)
    <2>1. ahead \subseteq all /\ all \ ahead \subseteq all
      OBVIOUS
    <2>. HIDE DEF ahead, all, s, t
    <2>. QED
      BY <1>2, <2>1, SeqMonotonic
  <1>4. (\A k \in 1..Len(s) : s[k] \in ahead) /\ (\A k \in 1..Len(t) : t[k] \notin ahead)
    <2>. HIDE DEF ahead, all, s, t
    <2>. QED
      BY <1>2
  <1>. HIDE DEF s, t, ahead, all, q
  <1>5. /\ q \in Seq(all) /\ Len(q) = Len(s) + Len(t)
        /\ \A k \in 1..(Len(s) + Len(t)) : q[k] = IF k <= Len(s) THEN s[k] ELSE t[k - Len(s)]
    BY <1>1, <1>3, ConcatProperties
  <1>6. ASSUME NEW k \in 1..Len(q), NEW l \in 1..Len(q), q[k] = q[l] PROVE k = l
    <2>0. ASSUME NEW m \in 1..Len(q) PROVE q[m] \in ahead <=> m <= Len(s)
      <3>1. CASE m <= Len(s)
        BY <1>2, <1>4, <1>5, <3>1
      <3>2. CASE ~(m <= Len(s))
        <4>1. m - Len(s) \in 1..Len(t) /\ q[m] = t[m - Len(s)]
          BY <1>2, <1>5, <3>2
        <4>. QED
          BY <1>4, <3>2, <4>1
      <3>. QED
        BY <3>1, <3>2
    <2>1. CASE k <= Len(s) /\ l <= Len(s)
      BY SMTT(60), <1>2, <1>5, <1>6, <2>1
    <2>2. CASE k > Len(s) /\ l > Len(s)
      <3>1. k - Len(s) \in 1..Len(t) /\ l - Len(s) \in 1..Len(t) /\ t[k - Len(s)] = t[l - Len(s)]
        BY <1>2, <1>5, <1>6, <2>2
      <3>2. k - Len(s) = l - Len(s)
        BY <1>2, <3>1
      <3>. QED
        BY <1>2, <3>2
    <2>3. k <= Len(s) <=> l <= Len(s)
      BY <1>6, <2>0
    <2>4. (k > Len(s) <=> ~(k <= Len(s))) /\ (l > Len(s) <=> ~(l <= Len(s)))
      BY <1>2, <1>5
    <2>. QED
      BY <2>1, <2>2, <2>3, <2>4
  <1>. QED
    BY <1>5, <1>6 DEF Once, all, q

\* The batches one more entry at a time.
Unfolds(built, es, c, current, order) ==
    /\ built[0] = [members |-> <<>>, limit |-> MaxClaimBatch, window |-> c.window]
    /\ \A n \in 1..Len(order) : built[n] = Join(es, c.pass, current, built[n - 1], order[n])

\* The recursion over the entries visited is defined: the shortest list for which it was not would
\* be one entry longer than one for which it is.
LEMMA BuiltIsDefined ==
    ASSUME NEW es, NEW c, NEW current, NEW order, Len(order) \in Nat
    PROVE  Unfolds(Built(es, c, current, order), es, c, current, order)
  <1>. DEFINE start == [members |-> <<>>, limit |-> MaxClaimBatch, window |-> c.window]
              More(b, i) == Join(es, c.pass, current, b, order[i])
              Upto(n, f) == f = [i \in 0..n |-> IF i = 0 THEN start ELSE More(f[i - 1], i)]
              Bad == {n \in 0..Len(order) : ~ \E f : Upto(n, f)}
  <1>0. Built(es, c, current, order) = CHOOSE f : Upto(Len(order), f)
    BY DEF Built
  <1>. HIDE DEF start, More
  <1>1. Bad = {}
    <2>1. SUFFICES ASSUME Bad # {} PROVE FALSE
      OBVIOUS
    <2>2. PICK n \in Bad : \A m \in Bad : n <= m
      <3>1. Bad \in SUBSET Nat
        OBVIOUS
      <3>. HIDE DEF Bad
      <3>. QED
        BY <2>1, <3>1, LeastNatural
    <2>3. n # 0
      <3>1. Upto(0, [i \in 0..0 |-> start])
        OBVIOUS
      <3>. QED
        BY <3>1
    <2>4. n - 1 \in 0..Len(order) /\ n - 1 \notin Bad
      <3>1. n \in 0..Len(order)
        OBVIOUS
      <3>. HIDE DEF Bad
      <3>2. n - 1 \in 0..Len(order) /\ ~(n <= n - 1)
        BY <2>3, <3>1
      <3>. QED
        BY <2>2, <3>2
    <2>5. PICK f : Upto(n - 1, f)
      <3>. HIDE DEF Upto
      <3>. QED
        BY <2>4
    <2>. DEFINE g == [i \in 0..n |-> IF i <= n - 1 THEN f[i] ELSE More(f[n - 1], n)]
    <2>6. ASSUME NEW i \in 0..n
          PROVE  g[i] = IF i = 0 THEN start ELSE More(g[i - 1], i)
      <3>1. CASE i = 0
        BY <2>3, <2>4, <2>5, <3>1
      <3>2. CASE i \in 1..(n - 1)
        <4>1. g[i] = f[i] /\ g[i - 1] = f[i - 1]
          BY <2>4, <3>2
        <4>2. f[i] = More(f[i - 1], i)
          BY <2>4, <2>5, <3>2
        <4>. QED
          BY <3>2, <4>1, <4>2
      <3>3. CASE i = n
        <4>1. g[n] = More(f[n - 1], n) /\ g[n - 1] = f[n - 1]
          BY <2>3, <2>4
        <4>. QED
          BY <2>3, <3>3, <4>1
      <3>. QED
        BY <2>4, <3>1, <3>2, <3>3
    <2>7. Upto(n, g)
      BY <2>6
    <2>. QED
      BY <2>7
  <1>2. \E f : Upto(Len(order), f)
    BY <1>1
  <1>3. Upto(Len(order), Built(es, c, current, order))
    <2>. HIDE DEF Upto
    <2>. QED
      BY <1>0, <1>2
  <1>4. \A i \in 0..Len(order) : Built(es, c, current, order)[i] =
             IF i = 0 THEN start ELSE More(Built(es, c, current, order)[i - 1], i)
    BY <1>3
  <1>. QED
    BY <1>4 DEF Unfolds, start, More

\* The batch after n entries of the order: different, ready entries among them.
Fresh(b, es, order, n) ==
    /\ Once(b.members, Len(es))
    /\ \A k \in 1..Len(b.members) : es[b.members[k]].ready /\ \E m \in 1..n : b.members[k] = order[m]

LEMMA JoinKeepsFresh ==
    ASSUME NEW es, NEW pass, NEW current, NEW order, Once(order, Len(es)), NEW n \in 1..Len(order),
           NEW b, Fresh(b, es, order, n - 1), NEW d, d = Join(es, pass, current, b, order[n])
    PROVE  Fresh(d, es, order, n)
  <1>. DEFINE i == order[n]
              q == b.members
              N == 1..Len(es)
  <1>1. /\ q \in Seq(N) /\ Len(q) \in Nat /\ i \in N /\ Len(order) \in Nat
        /\ \A k, l \in 1..Len(q) : q[k] = q[l] => k = l
    <2>1. q \in Seq(N) /\ order \in Seq(N) /\ \A k, l \in 1..Len(q) : q[k] = q[l] => k = l
      BY DEF Fresh, Once
    <2>. HIDE DEF q, N
    <2>. QED
      BY <2>1
  <1>2. \A k \in 1..Len(q) : es[q[k]].ready /\ (\E m \in 1..n : q[k] = order[m]) /\ q[k] # i
    BY SMTT(60) DEF Fresh, Once
  <1>3. CASE d = b
    BY ZenonT(60), <1>1, <1>2, <1>3 DEF Fresh, Once
  <1>4. CASE d.members = Append(q, i) /\ es[i].ready
    <2>. DEFINE r == d.members
    <2>1. /\ r \in Seq(N) /\ Len(r) = Len(q) + 1 /\ r[Len(q) + 1] = i
          /\ \A k \in 1..Len(q) : r[k] = q[k]
      <3>. HIDE DEF q, N, i
      <3>. QED
        BY <1>1, <1>4, AppendProperties
    <2>. HIDE DEF r
    <2>2. \A k \in 1..Len(r) : k \in 1..Len(q) \/ k = Len(q) + 1
      BY SMTT(60), <1>1, <2>1
    <2>3. \A k \in 1..Len(r) : es[r[k]].ready /\ \E m \in 1..n : r[k] = order[m]
      <3>1. n \in 1..n
        BY <1>1
      <3>. HIDE DEF q, N
      <3>. QED
        BY ZenonT(60), <1>2, <1>4, <2>1, <2>2, <3>1
    <2>4. ASSUME NEW k \in 1..Len(r), NEW l \in 1..Len(r), r[k] = r[l] PROVE k = l
      <3>. HIDE DEF q, N, i
      <3>1. CASE k \in 1..Len(q) /\ l \in 1..Len(q)
        BY <1>1, <2>1, <2>4, <3>1
      <3>2. CASE k = Len(q) + 1 \/ l = Len(q) + 1
        BY <1>2, <2>1, <2>2, <2>4, <3>2
      <3>. QED
        BY <2>2, <3>1, <3>2
    <2>. QED
      BY <2>1, <2>3, <2>4 DEF Fresh, Once, r
  <1>. QED
    BY <1>3, <1>4 DEF Join

\* Whatever its pass and window, a batch spends entries that are ready, each once.
LEMMA BatchOnce ==
    ASSUME NEW es, Len(es) \in Nat, NEW c, NEW current
    PROVE  /\ Once(BatchOf(es, c, current), Len(es)) /\ SpendsOnce(es, BatchOf(es, c, current))
  <1>. DEFINE order == VisitOrder(es, c.pass)
              built == Built(es, c, current, order)
              Bad == {n \in 0..Len(order) : ~Fresh(built[n], es, order, n)}
  <1>1. Once(order, Len(es)) /\ Len(order) \in Nat
    BY VisitsOnce DEF Once
  <1>2. BatchOf(es, c, current) = built[Len(order)].members
    BY DEF BatchOf
  <1>. HIDE DEF order
  <1>3. /\ built[0] = [members |-> <<>>, limit |-> MaxClaimBatch, window |-> c.window]
        /\ \A n \in 1..Len(order) : built[n] = Join(es, c.pass, current, built[n - 1], order[n])
    <2>1. Unfolds(built, es, c, current, order)
      BY <1>1, BuiltIsDefined
    <2>. HIDE DEF built
    <2>. QED
      BY <2>1 DEF Unfolds
  <1>. HIDE DEF built
  <1>4. Bad = {}
    <2>. SUFFICES ASSUME Bad # {} PROVE FALSE
      OBVIOUS
    <2>1. PICK n \in Bad : \A m \in Bad : n <= m
      <3>1. Bad \in SUBSET Nat
        OBVIOUS
      <3>. HIDE DEF Bad
      <3>. QED
        BY <3>1, LeastNatural
    <2>2. n # 0
      <3>1. Fresh(built[0], es, order, 0)
        BY <1>3 DEF Fresh, Once
      <3>. QED
        BY <3>1
    <2>3. n \in 1..Len(order) /\ Fresh(built[n - 1], es, order, n - 1)
      <3>1. n \in 1..Len(order) /\ n - 1 \in 0..Len(order) /\ ~(n <= n - 1)
        BY <1>1, <2>2
      <3>. QED
        BY <2>1, <3>1
    <2>. QED
      BY <1>1, <1>3, <2>3, JoinKeepsFresh
  <1>5. Fresh(built[Len(order)], es, order, Len(order))
    BY <1>1, <1>4
  <1>. DEFINE q == built[Len(order)].members
  <1>6. Once(q, Len(es)) /\ \A k \in 1..Len(q) : es[q[k]].ready
    BY <1>5 DEF Fresh
  <1>. HIDE DEF q
  <1>7. SpendsOnce(es, q)
    BY <1>6 DEF Once, SpendsOnce
  <1>. QED
    BY <1>2, <1>6, <1>7 DEF q

\* What select_claim_batch is given: caps are numbers, and every entry has a window.
Viewed(es) ==
    /\ Len(es) \in Nat
    /\ \A i \in 1..Len(es) : es[i].cap \in Nat /\ es[i].window # AnyWindow /\ es[i].dead \in BOOLEAN

\* The batch after some entries: within its limit, which is within every member's, and of one pool.
Bounded(b, es, pass, current) ==
    /\ b.limit \in Nat /\ Len(b.members) <= b.limit /\ b.limit <= MaxClaimBatch
    /\ \A k \in 1..Len(b.members) :
          LET e == es[b.members[k]] IN
          InPass(e, pass, current) /\ e.window = b.window /\ (e.cap # 0 => b.limit <= e.cap)

LEMMA JoinKeepsBounded ==
    ASSUME NEW es, Viewed(es), NEW pass, NEW current, NEW b, Once(b.members, Len(es)), Bounded(b, es, pass, current),
           NEW i \in 1..Len(es), NEW d, d = Join(es, pass, current, b, i)
    PROVE  Bounded(d, es, pass, current)
  <1>. DEFINE q == b.members
              e == es[i]
              limit == Smaller(CapOf(e), b.limit)
              N == 1..Len(es)
  <1>1. q \in Seq(N) /\ Len(q) \in Nat /\ b.limit \in Nat /\ b.limit <= MaxClaimBatch /\ MaxClaimBatch \in Nat \ {0}
    BY MaxClaimBatchAssumption DEF Once, Bounded
  <1>2. CASE d = b
    BY <1>2
  <1>3. CASE /\ InPass(e, pass, current) /\ b.window \in {AnyWindow, e.window} /\ Len(q) < limit
             /\ d = [members |-> Append(q, i), limit |-> limit, window |-> e.window]
    <2>1. e.cap \in Nat /\ e.window # AnyWindow
      BY DEF Viewed
    <2>2. limit \in Nat /\ limit <= b.limit /\ (e.cap # 0 => limit <= e.cap)
      BY <1>1, <2>1 DEF Smaller, CapOf
    <2>. HIDE DEF limit
    <2>. DEFINE r == d.members
    <2>3. d.limit = limit /\ d.window = e.window /\ r = Append(q, i)
      BY <1>3
    <2>4. /\ Len(r) = Len(q) + 1 /\ r[Len(q) + 1] = i
          /\ \A k \in 1..Len(q) : r[k] = q[k]
      <3>. HIDE DEF q, N, r
      <3>1. i \in N
        BY DEF N
      <3>. QED
        BY <1>1, <2>3, <3>1, AppendProperties
    <2>. HIDE DEF r
    <2>5. ASSUME NEW k \in 1..Len(q)
          PROVE  /\ InPass(es[q[k]], pass, current) /\ es[q[k]].window = e.window
                 /\ es[q[k]].cap # 0 => limit <= es[q[k]].cap
      <3>1. q[k] \in N
        BY <1>1
      <3>2. es[q[k]].cap \in Nat /\ es[q[k]].window # AnyWindow
        BY <3>1 DEF Viewed
      <3>3. /\ InPass(es[q[k]], pass, current) /\ es[q[k]].window = b.window
            /\ es[q[k]].cap # 0 => b.limit <= es[q[k]].cap
        BY DEF Bounded
      <3>4. es[q[k]].window = e.window
        BY <1>3, <3>2, <3>3
      <3>5. es[q[k]].cap # 0 => limit <= es[q[k]].cap
        <4>. DEFINE cap == es[q[k]].cap
        <4>1. cap \in Nat /\ (cap # 0 => b.limit <= cap) /\ b.limit \in Nat
          BY <1>1, <3>2, <3>3
        <4>. HIDE DEF cap
        <4>2. cap # 0 => limit <= cap
          BY <2>2, <4>1
        <4>. QED
          BY <4>2 DEF cap
      <3>. QED
        BY <3>3, <3>4, <3>5
    <2>6. \A k \in 1..Len(r) : k \in 1..Len(q) \/ k = Len(q) + 1
      BY <1>1, <2>4
    <2>7. ASSUME NEW k \in 1..Len(r)
          PROVE  /\ InPass(es[r[k]], pass, current) /\ es[r[k]].window = d.window
                 /\ es[r[k]].cap # 0 => d.limit <= es[r[k]].cap
      BY <1>3, <2>2, <2>3, <2>4, <2>5, <2>6
    <2>8. d.limit \in Nat /\ Len(r) <= d.limit /\ d.limit <= MaxClaimBatch
      BY <1>1, <1>3, <2>2, <2>3, <2>4
    <2>. QED
      BY <2>7, <2>8 DEF Bounded, r
  <1>. QED
    BY <1>2, <1>3 DEF Join

\* A batch keeps to the caps of its members and draws from one pool, that of its pass.
LEMMA BatchBounded ==
    ASSUME NEW es, Viewed(es), NEW c, NEW current
    PROVE  /\ CapsRespected(es, BatchOf(es, c, current)) /\ OnePool(es, BatchOf(es, c, current))
           /\ \A i \in ToSet(BatchOf(es, c, current)) : i \in 1..Len(es) /\ InPass(es[i], c.pass, current)
  <1>. DEFINE order == VisitOrder(es, c.pass)
              built == Built(es, c, current, order)
              Good(n) == Fresh(built[n], es, order, n) /\ Bounded(built[n], es, c.pass, current)
              Bad == {n \in 0..Len(order) : ~Good(n)}
  <1>0. Len(es) \in Nat
    BY DEF Viewed
  <1>1. Once(order, Len(es)) /\ Len(order) \in Nat
    BY <1>0, VisitsOnce DEF Once
  <1>2. BatchOf(es, c, current) = built[Len(order)].members
    BY DEF BatchOf
  <1>. HIDE DEF order
  <1>3. /\ built[0] = [members |-> <<>>, limit |-> MaxClaimBatch, window |-> c.window]
        /\ \A n \in 1..Len(order) : built[n] = Join(es, c.pass, current, built[n - 1], order[n])
    <2>1. Unfolds(built, es, c, current, order)
      BY <1>1, BuiltIsDefined
    <2>. HIDE DEF built
    <2>. QED
      BY <2>1 DEF Unfolds
  <1>. HIDE DEF built
  <1>4. Bad = {}
    <2>. SUFFICES ASSUME Bad # {} PROVE FALSE
      OBVIOUS
    <2>1. PICK n \in Bad : \A m \in Bad : n <= m
      <3>1. Bad \in SUBSET Nat
        OBVIOUS
      <3>. HIDE DEF Bad
      <3>. QED
        BY <3>1, LeastNatural
    <2>2. n # 0
      <3>1. Fresh(built[0], es, order, 0)
        BY SMTT(60), <1>3 DEF Fresh, Once
      <3>2. Bounded(built[0], es, c.pass, current)
        BY <1>3, MaxClaimBatchAssumption DEF Bounded
      <3>. QED
        BY <3>1, <3>2
    <2>3. n \in 1..Len(order) /\ Good(n - 1)
      <3>1. n \in 1..Len(order) /\ n - 1 \in 0..Len(order) /\ ~(n <= n - 1)
        BY <1>1, <2>2
      <3>. QED
        BY <2>1, <3>1
    <2>4. built[n] = Join(es, c.pass, current, built[n - 1], order[n]) /\ order[n] \in 1..Len(es)
      BY SMTT(60), <1>1, <1>3, <2>3 DEF Once
    <2>5. Fresh(built[n], es, order, n)
      BY <1>1, <2>3, <2>4, JoinKeepsFresh
    <2>6. Bounded(built[n], es, c.pass, current)
      <3>1. Once(built[n - 1].members, Len(es)) /\ Bounded(built[n - 1], es, c.pass, current)
        BY <2>3 DEF Fresh
      <3>. HIDE DEF Good, Bad
      <3>. QED
        BY <2>4, <3>1, JoinKeepsBounded
    <2>. QED
      BY <2>5, <2>6
  <1>5. Good(Len(order))
    BY <1>1, <1>4
  <1>. DEFINE b == built[Len(order)]
              q == b.members
  <1>6. Once(q, Len(es)) /\ Bounded(b, es, c.pass, current)
    BY <1>5 DEF Fresh
  <1>. HIDE DEF b, Good, Bad
  <1>7. /\ b.limit \in Nat /\ Len(q) \in Nat /\ Len(q) <= b.limit /\ b.limit <= MaxClaimBatch
        /\ \A i \in ToSet(q) : /\ i \in 1..Len(es) /\ InPass(es[i], c.pass, current)
                               /\ es[i].window = b.window /\ (es[i].cap # 0 => b.limit <= es[i].cap)
    <2>1. q \in Seq(1..Len(es))
      BY <1>6 DEF Once
    <2>2. \A i \in ToSet(q) : \E k \in 1..Len(q) : i = q[k] /\ q[k] \in 1..Len(es)
      <3>. HIDE DEF q
      <3>. QED
        BY <2>1 DEF ToSet
    <2>. QED
      BY <1>6, <2>1, <2>2 DEF Bounded
  <1>. HIDE DEF q
  <1>8. CapsRespected(es, q)
    <2>1. MaxClaimBatch \in Nat /\ \A i \in ToSet(q) : es[i].cap \in Nat
      BY <1>7, MaxClaimBatchAssumption DEF Viewed
    <2>. QED
      BY <1>7, <2>1 DEF CapsRespected
  <1>9. OnePool(es, q)
    <2>1. \A i \in ToSet(q) : es[i].dead \in BOOLEAN
      BY <1>7 DEF Viewed
    <2>2. ASSUME NEW i \in ToSet(q), NEW j \in ToSet(q)
          PROVE  es[i].dead = es[j].dead /\ (~es[i].dead => ((es[i].cap = 0) = (es[j].cap = 0)))
      BY <1>7, <2>1 DEF InPass, Nominal, Repair, Drain
    <2>. QED
      BY <1>7, <2>2 DEF OnePool
  <1>. QED
    BY <1>2, <1>7, <1>8, <1>9 DEF q, b

\* select_claim_batch spends entries that are ready, each once.
LEMMA SelectionOnce ==
    ASSUME NEW es, Len(es) \in Nat, NEW current
    PROVE  Once(SelectClaimBatch(es, current), Len(es)) /\ SpendsOnce(es, SelectClaimBatch(es, current))
  <1>1. SelectClaimBatch(es, current) = <<>> \/ \E c : SelectClaimBatch(es, current) = BatchOf(es, c, current)
    BY DEF SelectClaimBatch
  <1>2. Once(<<>>, Len(es)) /\ SpendsOnce(es, <<>>)
    BY DEF Once, SpendsOnce
  <1>. QED
    BY <1>1, <1>2, BatchOnce

\* Every batch select_claim_batch returns can be signed and accepted as one transaction, whatever
\* the queue and the current window: ready entries, each once, of one window and one pool, and
\* no more than any member's cap or the node's limit allows.
THEOREM BatchesAreTransactions ==
    ASSUME NEW es, Viewed(es), NEW current
    PROVE  OneTransaction(es, SelectClaimBatch(es, current))
  <1>1. SelectClaimBatch(es, current) = <<>> \/ \E c : SelectClaimBatch(es, current) = BatchOf(es, c, current)
    BY DEF SelectClaimBatch
  <1>2. CapsRespected(es, <<>>) /\ OnePool(es, <<>>)
    BY MaxClaimBatchAssumption DEF CapsRespected, OnePool, ToSet
  <1>3. CapsRespected(es, SelectClaimBatch(es, current)) /\ OnePool(es, SelectClaimBatch(es, current))
    BY <1>1, <1>2, BatchBounded
  <1>4. SpendsOnce(es, SelectClaimBatch(es, current))
    BY SelectionOnce DEF Viewed
  <1>. QED
    BY <1>3, <1>4 DEF OneTransaction

\* A property of 0 that goes from n - 1 to n is one of every number up to the last: B holds those
\* that do not have it.
LEMMA NoLeastFailure ==
    ASSUME NEW last \in Nat, NEW B \in SUBSET (0..last), 0 \notin B,
           \A n \in 1..last : n - 1 \notin B => n \notin B
    PROVE  B = {}
  <1>. SUFFICES ASSUME B # {} PROVE FALSE
    OBVIOUS
  <1>1. PICK n \in B : \A m \in B : n <= m
    <2>1. B \in SUBSET Nat
      OBVIOUS
    <2>. QED
      BY <2>1, LeastNatural
  <1>2. n \in 1..last /\ n - 1 \notin B
    BY <1>1
  <1>. QED
    BY <1>2

\* Each pass looks at every entry, and the nominal one at an entry that is no inference escrow
\* only after all that are.
LEMMA VisitsAll ==
    ASSUME NEW es, Len(es) \in Nat, NEW pass
    PROVE  LET q == VisitOrder(es, pass) IN
           /\ \A i \in 1..Len(es) : \E k \in 1..Len(q) : q[k] = i
           /\ pass = Nominal => \A n \in 1..Len(q), i \in 1..Len(es) :
                 ~es[q[n]].inference /\ es[i].inference => \E k \in 1..(n - 1) : q[k] = i
  <1>. DEFINE all   == 1..Len(es)
              ahead == {i \in all : pass = Nominal /\ es[i].inference}
              s     == InOrder(ahead)
              t     == InOrder(all \ ahead)
              q     == VisitOrder(es, pass)
  <1>1. q = s \o t
    BY DEF VisitOrder
  <1>2. /\ s \in Seq(ahead) /\ Len(s) \in Nat /\ \A i \in ahead : \E k \in 1..Len(s) : s[k] = i
        /\ t \in Seq(all \ ahead) /\ Len(t) \in Nat /\ \A i \in all \ ahead : \E k \in 1..Len(t) : t[k] = i
    <2>1. ahead \in SUBSET all /\ all \ ahead \in SUBSET all /\ all \in SUBSET Nat
      OBVIOUS
    <2>2. IsFiniteSet(all)
      BY FS_Interval
    <2>. HIDE DEF ahead, all
    <2>3. IsFiniteSet(ahead) /\ IsFiniteSet(all \ ahead)
      BY <2>1, <2>2, FS_Subset
    <2>. QED
      BY <2>1, <2>3, InOrderOnce
  <1>3. s \in Seq(all) /\ t \in Seq(all)
    <2>1. ahead \subseteq all /\ all \ ahead \subseteq all
      OBVIOUS
    <2>. HIDE DEF ahead, all, s, t
    <2>. QED
      BY <1>2, <2>1, SeqMonotonic
  <1>. HIDE DEF s, t, all, q
  <1>4. /\ q \in Seq(all) /\ Len(q) = Len(s) + Len(t)
        /\ \A k \in 1..(Len(s) + Len(t)) : q[k] = IF k <= Len(s) THEN s[k] ELSE t[k - Len(s)]
    BY <1>1, <1>3, ConcatProperties
  <1>5. ASSUME NEW i \in ahead PROVE \E k \in 1..Len(s) : k \in 1..Len(q) /\ q[k] = i
    <2>1. PICK k \in 1..Len(s) : s[k] = i
      BY <1>2
    <2>2. k \in 1..(Len(s) + Len(t)) /\ k <= Len(s)
      BY <1>2
    <2>. QED
      BY <1>4, <2>1, <2>2
  <1>6. ASSUME NEW i \in all \ ahead PROVE \E k \in 1..Len(q) : q[k] = i
    <2>1. PICK k \in 1..Len(t) : t[k] = i
      BY <1>2
    <2>2. k + Len(s) \in 1..(Len(s) + Len(t)) /\ ~(k + Len(s) <= Len(s)) /\ k + Len(s) - Len(s) = k
      BY <1>2
    <2>. QED
      BY <1>4, <2>1, <2>2
  <1>7. \A i \in all : \E k \in 1..Len(q) : q[k] = i
    BY <1>5, <1>6
  <1>8. ASSUME pass = Nominal, NEW n \in 1..Len(q), NEW i \in all, ~es[q[n]].inference, es[i].inference
        PROVE  \E k \in 1..(n - 1) : q[k] = i
    <2>1. i \in ahead
      BY <1>8
    <2>2. PICK k \in 1..Len(s) : q[k] = i
      BY <1>5, <2>1
    <2>3. ~(n <= Len(s))
      <3>. SUFFICES ASSUME n <= Len(s) PROVE FALSE
        OBVIOUS
      <3>1. n \in 1..Len(s) /\ q[n] = s[n]
        BY <1>2, <1>4
      <3>2. q[n] \in ahead
        <4>. HIDE DEF ahead
        <4>. QED
          BY <1>2, <3>1
      <3>. QED
        BY <1>8, <3>2
    <2>4. k \in 1..(n - 1)
      BY <1>2, <1>4, <2>3
    <2>. QED
      BY <2>2, <2>4
  <1>. QED
    BY <1>7, <1>8 DEF q, all

\* What the passes rely on beside that: windows are numbers, and flags are flags.
Flagged(es) == \A i \in 1..Len(es) : /\ es[i].window \in Nat /\ es[i].ready \in BOOLEAN
                                     /\ es[i].inference \in BOOLEAN

\* A nominal batch after n entries: filled from the window, as far as it has room.
Filled(b, es, w, order, n) ==
    /\ b.limit = MaxClaimBatch /\ b.window = w
    /\ b.members \in Seq(1..Len(es)) /\ Len(b.members) <= MaxClaimBatch
    /\ ToSet(b.members) \subseteq Claimable(es, w)
    /\ Len(b.members) < MaxClaimBatch =>
          \A k \in 1..n : order[k] \in Claimable(es, w) => order[k] \in ToSet(b.members)
    /\ (\E i \in ToSet(b.members) : ~es[i].inference) =>
          \A i \in Claimable(es, w) : es[i].inference => i \in ToSet(b.members)

\* One more element at the end.
LEMMA OneMore ==
    ASSUME NEW S, NEW q \in Seq(S), NEW i \in S
    PROVE  /\ Append(q, i) \in Seq(S) /\ Len(Append(q, i)) = Len(q) + 1
           /\ ToSet(Append(q, i)) = ToSet(q) \cup {i}
  <1>. DEFINE r == Append(q, i)
  <1>1. /\ r \in Seq(S) /\ Len(q) \in Nat /\ Len(r) = Len(q) + 1 /\ r[Len(q) + 1] = i
        /\ DOMAIN q = 1..Len(q) /\ DOMAIN r = 1..(Len(q) + 1) /\ \A k \in 1..Len(q) : r[k] = q[k]
    OBVIOUS
  <1>. HIDE DEF r
  <1>2. \A k \in 1..(Len(q) + 1) : k \in 1..Len(q) \/ k = Len(q) + 1
    BY <1>1
  <1>3. Len(q) + 1 \in 1..(Len(q) + 1) /\ 1..Len(q) \subseteq 1..(Len(q) + 1)
    BY <1>1
  <1>4. \A x : (\E k \in 1..(Len(q) + 1) : x = r[k]) <=> (x = i \/ \E k \in 1..Len(q) : x = q[k])
    BY <1>1, <1>2, <1>3
  <1>5. ToSet(r) = ToSet(q) \cup {i}
    BY <1>1, <1>4 DEF ToSet
  <1>. QED
    BY <1>1, <1>5 DEF r

LEMMA JoinKeepsFilled ==
    ASSUME NEW es, Viewed(es), Flagged(es), NEW w, w # AnyWindow, NEW current,
           NEW order, Once(order, Len(es)), NEW n \in 1..Len(order),
           \A i \in 1..Len(es) :
               ~es[order[n]].inference /\ es[i].inference => \E k \in 1..(n - 1) : order[k] = i,
           NEW b, Filled(b, es, w, order, n - 1), NEW d, d = Join(es, Nominal, current, b, order[n])
    PROVE  Filled(d, es, w, order, n)
  <1>. DEFINE i == order[n]
              e == es[i]
              q == b.members
              N == 1..Len(es)
              C == Claimable(es, w)
  <1>1. q \in Seq(N) /\ Len(q) \in Nat /\ i \in N /\ MaxClaimBatch \in Nat \ {0} /\ n \in Nat
    <2>1. order \in Seq(N) /\ q \in Seq(N)
      BY DEF Once, Filled
    <2>2. i \in N
      <3>. HIDE DEF N
      <3>. QED
        BY <2>1
    <2>3. Len(q) \in Nat /\ Len(order) \in Nat
      BY <2>1
    <2>. QED
      BY <2>1, <2>2, <2>3, MaxClaimBatchAssumption
  <1>2. e.cap = 0 => CapOf(e) = MaxClaimBatch
    BY DEF CapOf
  <1>3. i \in C <=> InPass(e, Nominal, current) /\ e.ready /\ e.window = w
    <2>1. InPass(e, Nominal, current) <=> e.cap = 0 /\ ~e.dead
      BY DEF InPass, Nominal, Repair, Drain
    <2>2. i \in C <=> e.ready /\ e.window = w /\ e.cap = 0 /\ ~e.dead
      BY <1>1 DEF Claimable
    <2>. QED
      BY <2>1, <2>2
  <1>4. b.limit = MaxClaimBatch /\ b.window = w /\ Len(q) <= MaxClaimBatch /\ ToSet(q) \subseteq C
    BY DEF Filled
  <1>5. e.window # AnyWindow
    BY <1>1 DEF Viewed
  <1>6. i \in C => Smaller(CapOf(e), b.limit) = MaxClaimBatch
    BY <1>1, <1>2, <1>4 DEF Claimable, Smaller
  <1>7. d = IF i \in C /\ Len(q) < MaxClaimBatch
            THEN [members |-> Append(q, i), limit |-> MaxClaimBatch, window |-> w] ELSE b
    <2>1. b.window \in {AnyWindow, e.window} <=> e.window = w
      BY <1>4
    <2>2. CASE i \in C
      BY <1>3, <1>6, <2>1, <2>2 DEF Join
    <2>3. CASE i \notin C
      BY <1>3, <2>1, <2>3 DEF Join
    <2>. QED
      BY <2>2, <2>3
  <1>. HIDE DEF C
  <1>8. \A k \in 1..n : k \in 1..(n - 1) \/ k = n
    BY <1>1
  <1>9. CASE ~(i \in C /\ Len(q) < MaxClaimBatch)
    <2>1. d = b
      BY <1>7, <1>9
    <2>2. Len(q) < MaxClaimBatch => \A k \in 1..n : order[k] \in C => order[k] \in ToSet(q)
      BY <1>8, <1>9 DEF Filled, C
    <2>. QED
      BY <2>1, <2>2 DEF Filled, C
  <1>10. CASE i \in C /\ Len(q) < MaxClaimBatch
    <2>. DEFINE r == Append(q, i)
    <2>1. r \in Seq(N) /\ Len(r) = Len(q) + 1 /\ ToSet(r) = ToSet(q) \cup {i}
      <3>. HIDE DEF q, N, i
      <3>. QED
        BY <1>1, OneMore
    <2>2. d.members = r /\ d.limit = MaxClaimBatch /\ d.window = w
      BY <1>7, <1>10
    <2>. HIDE DEF r
    <2>3. \A k \in 1..(n - 1) : order[k] \in C => order[k] \in ToSet(q)
      BY <1>10 DEF Filled, C
    <2>4. \A k \in 1..n : order[k] \in C => order[k] \in ToSet(r)
      BY <1>8, <2>1, <2>3
    <2>5. ASSUME NEW j \in ToSet(r), ~es[j].inference, NEW m \in C, es[m].inference PROVE m \in ToSet(r)
      <3>1. m \in N
        BY DEF C, Claimable
      <3>2. CASE j = i
        <4>1. PICK k \in 1..(n - 1) : order[k] = m
          BY <2>5, <3>1, <3>2
        <4>. QED
          BY <2>1, <2>3, <4>1
      <3>3. CASE j \in ToSet(q)
        <4>1. m \in ToSet(q)
          BY <2>5, <3>3 DEF Filled, C
        <4>. QED
          BY <2>1, <4>1
      <3>. QED
        BY <2>1, <3>2, <3>3
    <2>6. Len(r) <= MaxClaimBatch /\ ToSet(r) \subseteq C
      BY SMTT(60), <1>1, <1>4, <1>10, <2>1
    <2>. QED
      BY <2>1, <2>2, <2>4, <2>5, <2>6 DEF Filled, C
  <1>. QED
    BY <1>9, <1>10

\* A nominal batch takes what its window holds, until it is full, inference escrows first.
LEMMA NominalIsFilled ==
    ASSUME NEW es, Viewed(es), Flagged(es), NEW c, c.pass = Nominal, c.window # AnyWindow, NEW current
    PROVE  LET q == BatchOf(es, c, current)
               C == Claimable(es, c.window)
           IN  /\ q \in Seq(1..Len(es)) /\ Len(q) <= MaxClaimBatch /\ ToSet(q) \subseteq C
               /\ Len(q) < MaxClaimBatch => C \subseteq ToSet(q)
               /\ (\E i \in ToSet(q) : ~es[i].inference) => \A i \in C : es[i].inference => i \in ToSet(q)
  <1>. DEFINE w == c.window
              order == VisitOrder(es, c.pass)
              built == Built(es, c, current, order)
              Bad == {n \in 0..Len(order) : ~Filled(built[n], es, w, order, n)}
              q == BatchOf(es, c, current)
  <1>0. Len(es) \in Nat /\ MaxClaimBatch \in Nat \ {0}
    BY MaxClaimBatchAssumption DEF Viewed
  <1>1. Once(order, Len(es)) /\ Len(order) \in Nat
    BY <1>0, VisitsOnce DEF Once
  <1>2. /\ \A i \in 1..Len(es) : \E k \in 1..Len(order) : order[k] = i
        /\ \A n \in 1..Len(order), i \in 1..Len(es) :
              ~es[order[n]].inference /\ es[i].inference => \E k \in 1..(n - 1) : order[k] = i
    BY <1>0, VisitsAll
  <1>3. q = built[Len(order)].members
    BY DEF BatchOf
  <1>. HIDE DEF order, q
  <1>4. /\ built[0] = [members |-> <<>>, limit |-> MaxClaimBatch, window |-> w]
        /\ \A n \in 1..Len(order) : built[n] = Join(es, Nominal, current, built[n - 1], order[n])
    <2>1. Unfolds(built, es, c, current, order)
      BY <1>1, BuiltIsDefined
    <2>. HIDE DEF built
    <2>. QED
      BY <2>1 DEF Unfolds
  <1>. HIDE DEF built
  <1>5. 0 \notin Bad
    <2>. DEFINE b == built[0]
    <2>1. b.members = <<>> /\ b.limit = MaxClaimBatch /\ b.window = w /\ ToSet(b.members) = {}
      BY <1>4 DEF ToSet
    <2>. HIDE DEF b
    <2>2. Filled(b, es, w, order, 0)
      BY <1>0, <2>1 DEF Filled
    <2>. QED
      BY <2>2 DEF b
  <1>6. ASSUME NEW n \in 1..Len(order), n - 1 \notin Bad PROVE n \notin Bad
    <2>1. n - 1 \in 0..Len(order)
      BY <1>1
    <2>2. Filled(built[n - 1], es, w, order, n - 1)
      BY <1>6, <2>1
    <2>3. built[n] = Join(es, Nominal, current, built[n - 1], order[n])
      BY <1>4
    <2>4. \A i \in 1..Len(es) : ~es[order[n]].inference /\ es[i].inference => \E k \in 1..(n - 1) : order[k] = i
      BY <1>2
    <2>. HIDE DEF Bad
    <2>5. Filled(built[n], es, w, order, n)
      BY <1>1, <2>2, <2>3, <2>4, JoinKeepsFilled
    <2>. QED
      BY <2>5 DEF Bad
  <1>7. Bad = {}
    <2>1. Bad \in SUBSET (0..Len(order))
      OBVIOUS
    <2>. HIDE DEF Bad
    <2>. QED
      BY <1>1, <1>5, <1>6, <2>1, NoLeastFailure
  <1>8. Filled(built[Len(order)], es, w, order, Len(order))
    BY <1>1, <1>7
  <1>9. Len(q) < MaxClaimBatch => Claimable(es, w) \subseteq ToSet(q)
    <2>. SUFFICES ASSUME Len(q) < MaxClaimBatch, NEW i \in Claimable(es, w) PROVE i \in ToSet(q)
      OBVIOUS
    <2>1. PICK k \in 1..Len(order) : order[k] = i
      BY <1>2 DEF Claimable
    <2>. QED
      BY <1>3, <1>8, <2>1 DEF Filled
  <1>. QED
    BY <1>3, <1>8, <1>9 DEF Filled, q

\* A batch that has no members yet has turned nothing down.
Waiting(b, es, pass, current, order, n) ==
    /\ b.members \in Seq(1..Len(es))
    /\ Len(b.members) = 0 =>
          /\ b.limit = MaxClaimBatch /\ b.window = AnyWindow
          /\ \A k \in 1..n : ~(InPass(es[order[k]], pass, current) /\ es[order[k]].ready)

LEMMA JoinKeepsWaiting ==
    ASSUME NEW es, Viewed(es), NEW pass, NEW current, NEW order, Once(order, Len(es)),
           NEW n \in 1..Len(order), NEW b, Waiting(b, es, pass, current, order, n - 1),
           NEW d, d = Join(es, pass, current, b, order[n])
    PROVE  Waiting(d, es, pass, current, order, n)
  <1>. DEFINE i == order[n]
              e == es[i]
              q == b.members
              N == 1..Len(es)
              joins == InPass(e, pass, current) /\ e.ready
  <1>1. q \in Seq(N) /\ Len(q) \in Nat /\ i \in N /\ MaxClaimBatch \in Nat \ {0} /\ n \in Nat
    <2>1. order \in Seq(N) /\ q \in Seq(N)
      BY DEF Once, Waiting
    <2>2. i \in N
      <3>. HIDE DEF N
      <3>. QED
        BY <2>1
    <2>3. Len(q) \in Nat /\ Len(order) \in Nat
      BY <2>1
    <2>. QED
      BY <2>1, <2>2, <2>3, MaxClaimBatchAssumption
  <1>2. \A k \in 1..n : k \in 1..(n - 1) \/ k = n
    BY <1>1
  <1>3. CASE d.members = Append(q, i)
    <2>1. d.members \in Seq(N) /\ Len(d.members) = Len(q) + 1
      <3>. HIDE DEF N, q, i
      <3>. QED
        BY <1>1, <1>3, OneMore
    <2>. QED
      BY <1>1, <2>1 DEF Waiting
  <1>4. CASE d = b /\ (Len(q) = 0 => ~joins)
    <2>1. Len(q) = 0 => /\ b.limit = MaxClaimBatch /\ b.window = AnyWindow
                        /\ \A k \in 1..(n - 1) : ~(InPass(es[order[k]], pass, current) /\ es[order[k]].ready)
      BY DEF Waiting
    <2>2. Len(q) = 0 => \A k \in 1..n : ~(InPass(es[order[k]], pass, current) /\ es[order[k]].ready)
      BY <1>2, <1>4, <2>1
    <2>. QED
      BY <1>1, <1>4, <2>1, <2>2 DEF Waiting
  <1>5. d.members = Append(q, i) \/ (d = b /\ (Len(q) = 0 => ~joins))
    <2>1. Len(q) = 0 => b.window \in {AnyWindow, e.window} /\ Len(q) < Smaller(CapOf(e), b.limit)
      <3>. SUFFICES ASSUME Len(q) = 0 PROVE b.window = AnyWindow /\ 0 < Smaller(CapOf(e), b.limit)
        OBVIOUS
      <3>1. b.limit = MaxClaimBatch /\ b.window = AnyWindow
        BY DEF Waiting
      <3>2. e.cap \in Nat
        BY <1>1 DEF Viewed
      <3>3. CapOf(e) \in Nat /\ 0 < CapOf(e)
        BY SMTT(60), <1>1, <3>2 DEF CapOf, Smaller
      <3>. QED
        BY <1>1, <3>1, <3>3 DEF Smaller
    <2>2. CASE ~joins
      BY <2>2 DEF Join
    <2>3. CASE joins
      <3>1. CASE b.window \in {AnyWindow, e.window} /\ Len(q) < Smaller(CapOf(e), b.limit)
        BY <2>3, <3>1 DEF Join
      <3>2. CASE ~(b.window \in {AnyWindow, e.window} /\ Len(q) < Smaller(CapOf(e), b.limit))
        BY <2>1, <2>3, <3>2 DEF Join
      <3>. QED
        BY <3>1, <3>2
    <2>. QED
      BY <2>2, <2>3
  <1>. QED
    BY <1>3, <1>4, <1>5

\* A pass that is held to no window finds a batch when it has a ready entry to draw from.
LEMMA SomeBatch ==
    ASSUME NEW es, Viewed(es), NEW c, c.window = AnyWindow, NEW current,
           NEW i \in 1..Len(es), es[i].ready, InPass(es[i], c.pass, current)
    PROVE  Len(BatchOf(es, c, current)) \in Nat \ {0}
  <1>. DEFINE order == VisitOrder(es, c.pass)
              built == Built(es, c, current, order)
              Bad == {n \in 0..Len(order) : ~Waiting(built[n], es, c.pass, current, order, n)}
              q == BatchOf(es, c, current)
  <1>0. Len(es) \in Nat /\ MaxClaimBatch \in Nat \ {0}
    BY MaxClaimBatchAssumption DEF Viewed
  <1>1. Once(order, Len(es)) /\ Len(order) \in Nat
    BY <1>0, VisitsOnce DEF Once
  <1>2. PICK k \in 1..Len(order) : order[k] = i
    BY <1>0, VisitsAll
  <1>3. q = built[Len(order)].members
    BY DEF BatchOf
  <1>. HIDE DEF order, q
  <1>4. /\ built[0] = [members |-> <<>>, limit |-> MaxClaimBatch, window |-> AnyWindow]
        /\ \A n \in 1..Len(order) : built[n] = Join(es, c.pass, current, built[n - 1], order[n])
    <2>1. Unfolds(built, es, c, current, order)
      BY <1>1, BuiltIsDefined
    <2>. HIDE DEF built
    <2>. QED
      BY <2>1 DEF Unfolds
  <1>. HIDE DEF built
  <1>5. 0 \notin Bad
    <2>. DEFINE b == built[0]
    <2>1. b.members = <<>> /\ b.limit = MaxClaimBatch /\ b.window = AnyWindow
      BY <1>4
    <2>. HIDE DEF b
    <2>2. Waiting(b, es, c.pass, current, order, 0)
      BY <1>0, <2>1 DEF Waiting
    <2>. QED
      BY <2>2 DEF b
  <1>6. ASSUME NEW n \in 1..Len(order), n - 1 \notin Bad PROVE n \notin Bad
    <2>1. n - 1 \in 0..Len(order)
      BY <1>1
    <2>2. Waiting(built[n - 1], es, c.pass, current, order, n - 1)
      BY <1>6, <2>1
    <2>3. built[n] = Join(es, c.pass, current, built[n - 1], order[n])
      BY <1>4
    <2>. HIDE DEF Bad
    <2>4. Waiting(built[n], es, c.pass, current, order, n)
      BY <1>1, <2>2, <2>3, JoinKeepsWaiting
    <2>. QED
      BY <2>4 DEF Bad
  <1>7. Bad = {}
    <2>1. Bad \in SUBSET (0..Len(order))
      OBVIOUS
    <2>. HIDE DEF Bad
    <2>. QED
      BY <1>1, <1>5, <1>6, <2>1, NoLeastFailure
  <1>8. Waiting(built[Len(order)], es, c.pass, current, order, Len(order))
    BY <1>1, <1>7
  <1>9. q \in Seq(1..Len(es)) /\ Len(q) # 0
    BY <1>2, <1>3, <1>8 DEF Waiting
  <1>. QED
    BY <1>9 DEF q

\* SelectInSeq finds the first flag that is raised.
LEMMA FirstRaised ==
    ASSUME NEW n \in Nat, NEW flags, flags = [k \in 1..n |-> flags[k]], \A k \in 1..n : flags[k] \in BOOLEAN,
           NEW f, f = SelectInSeq(flags, LAMBDA raised : raised)
    PROVE  \/ f = 0 /\ \A k \in 1..n : ~flags[k]
           \/ f \in 1..n /\ flags[f] /\ \A k \in 1..n : flags[k] => f <= k
  <1>. DEFINE I == {k \in 1..n : flags[k]}
  <1>1. Len(flags) = n
    BY IsListed
  <1>2. f = IF I # {} THEN Min(I) ELSE 0
    BY <1>1 DEF SelectInSeq
  <1>3. CASE I = {}
    BY <1>2, <1>3
  <1>4. CASE I # {}
    <2>1. I \in SUBSET Nat
      OBVIOUS
    <2>2. \E x \in I : \A y \in I : x <= y
      <3>. HIDE DEF I
      <3>. QED
        BY <1>4, <2>1, LeastNatural
    <2>3. Min(I) \in I /\ \A y \in I : Min(I) <= y
      <3>. HIDE DEF I
      <3>. QED
        BY <2>2 DEF Min
    <2>. QED
      BY <1>2, <1>4, <2>3
  <1>. QED
    BY <1>3, <1>4

\* The windows of a queue are finitely many numbers.
LEMMA WindowsAreFinite ==
    ASSUME NEW es, Len(es) \in Nat, Flagged(es)
    PROVE  WindowsOf(es) \in SUBSET Nat /\ IsFiniteSet(WindowsOf(es))
  <1>. DEFINE ws == WindowsOf(es)
              f == [i \in 1..Len(es) |-> es[i].window]
  <1>1. ws \in SUBSET Nat
    BY DEF WindowsOf, Flagged
  <1>2. f \in Surjection(1..Len(es), ws)
    BY DEF Surjection, WindowsOf
  <1>3. ExistsSurjection(1..Len(es), ws)
    BY <1>2 DEF ExistsSurjection
  <1>. HIDE DEF ws
  <1>4. IsFiniteSet(ws)
    BY <1>3, FS_NatSurjection
  <1>. QED
    BY <1>1, <1>4 DEF ws

\* A list and three more.
LEMMA ThreeMore ==
    ASSUME NEW S, NEW s \in Seq(S), NEW x \in S, NEW y \in S, NEW z \in S, NEW q, q = s \o <<x, y, z>>
    PROVE  LET m == Len(s) IN
           /\ m \in Nat /\ q \in Seq(S) /\ Len(q) = m + 3 /\ \A k \in 1..m : q[k] = s[k]
           /\ q[m + 1] = x /\ q[m + 2] = y /\ q[m + 3] = z
  <1>. DEFINE m == Len(s)
              t == <<x, y, z>>
  <1>1. t \in Seq(S) /\ Len(t) = 3 /\ t[1] = x /\ t[2] = y /\ t[3] = z /\ m \in Nat
    OBVIOUS
  <1>. HIDE DEF t
  <1>2. q = s \o t
    BY DEF t
  <1>3. /\ q \in Seq(S) /\ Len(q) = m + Len(t)
        /\ \A k \in 1..(m + Len(t)) : q[k] = IF k <= m THEN s[k] ELSE t[k - m]
    <2>1. /\ s \o t \in Seq(S) /\ Len(s \o t) = Len(s) + Len(t)
          /\ \A k \in 1..(Len(s) + Len(t)) : (s \o t)[k] = IF k <= Len(s) THEN s[k] ELSE t[k - Len(s)]
      BY <1>1, ConcatProperties, Zenon
    <2>. QED
      BY <1>2, <2>1, Zenon
  <1>. HIDE DEF m
  <1>4. m + Len(t) = m + 3 /\ \A k \in 1..m : k \in 1..(m + 3) /\ k <= m
    BY <1>1
  <1>5. \A k \in 1..m : q[k] = s[k]
    BY <1>3, <1>4
  <1>6. ASSUME NEW j \in 1..3 PROVE q[m + j] = t[j]
    <2>1. m + j \in 1..(m + 3) /\ ~(m + j <= m) /\ (m + j) - m = j
      BY <1>1
    <2>2. q[m + j] = t[(m + j) - m]
      BY <1>3, <1>4, <2>1
    <2>. QED
      BY <2>1, <2>2
  <1>7. q[m + 1] = t[1] /\ q[m + 2] = t[2] /\ q[m + 3] = t[3]
    <2>1. 1 \in 1..3 /\ 2 \in 1..3 /\ 3 \in 1..3
      OBVIOUS
    <2>. QED
      BY <1>6, <2>1
  <1>. QED
    BY <1>1, <1>3, <1>4, <1>5, <1>7 DEF m

\* The candidates: m nominal ones, of every window of the queue, then repair, drain and dead pool.
Lined(cs, m, ws) ==
    /\ m \in Nat /\ Len(cs) = m + 3
    /\ \A k \in 1..m : cs[k].pass = Nominal /\ cs[k].window \in ws
    /\ \A w \in ws : \E k \in 1..m : cs[k].window = w
    /\ cs[m + 1] = [pass |-> Repair, window |-> AnyWindow]
    /\ cs[m + 2] = [pass |-> Drain, window |-> AnyWindow]
    /\ cs[m + 3] = [pass |-> DeadPool, window |-> AnyWindow]

LEMMA CandidatesAre ==
    ASSUME NEW es, Len(es) \in Nat, Flagged(es), NEW current
    PROVE  \E m \in Nat : Lined(Candidates(es, current), m, WindowsOf(es))
  <1>. DEFINE ws == WindowsOf(es)
              now == ws \cap {current}
              other == ws \ {current}
              s == InOrder(now)
              t == InOrder(other)
              o == s \o t
              n == [k \in 1..Len(o) |-> [pass |-> Nominal, window |-> o[k]]]
              cs == Candidates(es, current)
              R == [pass : Nat, window : Nat]
              x == [pass |-> Repair, window |-> AnyWindow]
              y == [pass |-> Drain, window |-> AnyWindow]
              z == [pass |-> DeadPool, window |-> AnyWindow]
  <1>1. ws \in SUBSET Nat /\ IsFiniteSet(ws)
    BY WindowsAreFinite
  <1>2. cs = n \o <<x, y, z>>
    BY DEF Candidates
  <1>. HIDE DEF ws, cs
  <1>3. /\ now \in SUBSET ws /\ other \in SUBSET ws /\ now \in SUBSET Nat /\ other \in SUBSET Nat
        /\ ws = now \cup other
    BY <1>1
  <1>4. IsFiniteSet(now) /\ IsFiniteSet(other)
    BY <1>1, <1>3, FS_Subset
  <1>. HIDE DEF now, other
  <1>5. /\ s \in Seq(now) /\ \A i \in now : \E k \in 1..Len(s) : s[k] = i
        /\ t \in Seq(other) /\ \A i \in other : \E k \in 1..Len(t) : t[k] = i
    BY <1>3, <1>4, InOrderOnce
  <1>. HIDE DEF s, t
  <1>6. s \in Seq(ws) /\ t \in Seq(ws) /\ Len(s) \in Nat /\ Len(t) \in Nat
    BY <1>3, <1>5, SeqMonotonic
  <1>7. /\ o \in Seq(ws) /\ Len(o) = Len(s) + Len(t)
        /\ \A k \in 1..(Len(s) + Len(t)) : o[k] = IF k <= Len(s) THEN s[k] ELSE t[k - Len(s)]
    BY <1>6, ConcatProperties
  <1>. HIDE DEF o
  <1>8. ASSUME NEW w \in ws PROVE \E k \in 1..Len(o) : o[k] = w
    <2>1. CASE w \in now
      <3>1. PICK k \in 1..Len(s) : s[k] = w
        BY <1>5, <2>1
      <3>2. k \in 1..(Len(s) + Len(t)) /\ k <= Len(s)
        BY <1>6
      <3>. QED
        BY <1>7, <3>1, <3>2
    <2>2. CASE w \in other
      <3>1. PICK k \in 1..Len(t) : t[k] = w
        BY <1>5, <2>2
      <3>2. k + Len(s) \in 1..(Len(s) + Len(t)) /\ ~(k + Len(s) <= Len(s)) /\ k + Len(s) - Len(s) = k
        BY <1>6
      <3>. QED
        BY <1>7, <3>1, <3>2
    <2>. QED
      BY <1>3, <2>1, <2>2
  <1>9. Len(o) \in Nat /\ \A k \in 1..Len(o) : o[k] \in ws
    BY <1>7
  <1>10. n \in Seq(R) /\ Len(n) = Len(o)
    <2>1. n \in [1..Len(o) -> R]
      BY <1>1, <1>9 DEF Nominal
    <2>. HIDE DEF n, R
    <2>. QED
      BY <1>9, <2>1
  <1>11. x \in R /\ y \in R /\ z \in R
    BY DEF Repair, Drain, DeadPool, AnyWindow
  <1>12. \A k \in 1..Len(o) : n[k].pass = Nominal /\ n[k].window = o[k]
    OBVIOUS
  <1>. HIDE DEF n, R, x, y, z
  <1>13. /\ Len(cs) = Len(o) + 3 /\ \A k \in 1..Len(o) : cs[k] = n[k]
         /\ cs[Len(o) + 1] = x /\ cs[Len(o) + 2] = y /\ cs[Len(o) + 3] = z
    BY <1>2, <1>10, <1>11, ThreeMore
  <1>14. Lined(cs, Len(o), ws)
    <2>1. \A k \in 1..Len(o) : cs[k].pass = Nominal /\ cs[k].window \in ws
      BY <1>9, <1>12, <1>13
    <2>2. \A w \in ws : \E k \in 1..Len(o) : cs[k].window = w
      BY <1>8, <1>12, <1>13
    <2>. QED
      BY <1>9, <1>13, <2>1, <2>2 DEF Lined, x, y, z
  <1>. QED
    BY <1>9, <1>14 DEF cs, ws

\* select_claim_batch sends the first candidate that may be sent.
LEMMA FirstThatShips ==
    ASSUME NEW es, NEW current, NEW cs, cs = Candidates(es, current), Len(cs) \in Nat,
           NEW batch, batch = SelectClaimBatch(es, current)
    PROVE  LET Ships(k) == Releasable(BatchOf(es, cs[k], current), cs[k].pass) IN
           \/ batch = <<>> /\ \A k \in 1..Len(cs) : ~Ships(k)
           \/ \E f \in 1..Len(cs) : /\ batch = BatchOf(es, cs[f], current) /\ Ships(f)
                                    /\ \A k \in 1..Len(cs) : Ships(k) => f <= k
  <1>. DEFINE Ships(k) == Releasable(BatchOf(es, cs[k], current), cs[k].pass)
              flags == [k \in 1..Len(cs) |-> Ships(k)]
              f == SelectInSeq(flags, LAMBDA ships : ships)
  <1>1. batch = IF f = 0 THEN <<>> ELSE BatchOf(es, cs[f], current)
    BY DEF SelectClaimBatch
  <1>2. /\ flags = [k \in 1..Len(cs) |-> flags[k]]
        /\ \A k \in 1..Len(cs) : flags[k] \in BOOLEAN /\ flags[k] = Ships(k)
    BY DEF Releasable
  <1>. HIDE DEF flags
  <1>3. \/ f = 0 /\ \A k \in 1..Len(cs) : ~flags[k]
        \/ f \in 1..Len(cs) /\ flags[f] /\ \A k \in 1..Len(cs) : flags[k] => f <= k
    BY <1>2, FirstRaised
  <1>. HIDE DEF f, Ships
  <1>4. CASE f = 0 /\ \A k \in 1..Len(cs) : ~flags[k]
    BY <1>1, <1>2, <1>4 DEF Ships
  <1>5. CASE f \in 1..Len(cs) /\ flags[f] /\ \A k \in 1..Len(cs) : flags[k] => f <= k
    <2>1. batch = BatchOf(es, cs[f], current) /\ Ships(f) /\ \A k \in 1..Len(cs) : Ships(k) => f <= k
      BY <1>1, <1>2, <1>5
    <2>. QED
      BY <1>5, <2>1 DEF Ships
  <1>. QED
    BY <1>3, <1>4, <1>5

\* Different elements: as many as positions.
LEMMA OnceIsCounted ==
    ASSUME NEW n \in Nat, NEW q, Once(q, n)
    PROVE  Cardinality(ToSet(q)) = Len(q)
  <1>1. q \in Seq(1..n) /\ \A k, l \in 1..Len(q) : q[k] = q[l] => k = l
    BY DEF Once
  <1>2. Len(q) \in Nat /\ DOMAIN q = 1..Len(q) /\ q \in [1..Len(q) -> 1..n]
    BY <1>1
  <1>3. q \in Bijection(1..Len(q), ToSet(q))
    BY <1>1, <1>2 DEF Bijection, Injection, Surjection, IsInjective, ToSet
  <1>4. ExistsBijection(1..Len(q), ToSet(q))
    BY <1>3 DEF ExistsBijection
  <1>. QED
    BY <1>2, <1>4, FS_CountingElements

LEMMA ClaimableIsFinite ==
    ASSUME NEW es, Len(es) \in Nat, NEW w
    PROVE  IsFiniteSet(Claimable(es, w)) /\ Cardinality(Claimable(es, w)) \in Nat
  <1>1. Claimable(es, w) \in SUBSET (1..Len(es))
    BY DEF Claimable
  <1>2. IsFiniteSet(1..Len(es))
    BY FS_Interval
  <1>. QED
    BY <1>1, <1>2, FS_Subset, FS_CardinalityType

Full(es, w) == Cardinality(Claimable(es, w)) >= MaxClaimBatch

\* A window that can fill a batch does.
LEMMA FullWindowShips ==
    ASSUME NEW es, Viewed(es), Flagged(es), NEW c, c.pass = Nominal, c.window # AnyWindow, NEW current,
           Full(es, c.window)
    PROVE  Releasable(BatchOf(es, c, current), c.pass)
  <1>. DEFINE q == BatchOf(es, c, current)
              C == Claimable(es, c.window)
  <1>1. Len(es) \in Nat /\ MaxClaimBatch \in Nat \ {0}
    BY MaxClaimBatchAssumption DEF Viewed
  <1>2. q \in Seq(1..Len(es)) /\ (Len(q) < MaxClaimBatch => C \subseteq ToSet(q))
    BY NominalIsFilled
  <1>. HIDE DEF q, C
  <1>3. IsFiniteSet(ToSet(q)) /\ Cardinality(ToSet(q)) <= Len(q) /\ Len(q) \in Nat
    BY <1>2, ElementsAreFewer
  <1>4. Cardinality(ToSet(q)) \in Nat /\ Cardinality(C) \in Nat
    BY <1>1, <1>3, FS_CardinalityType, ClaimableIsFinite DEF C
  <1>5. ~(Len(q) < MaxClaimBatch)
    <2>. SUFFICES ASSUME Len(q) < MaxClaimBatch PROVE FALSE
      OBVIOUS
    <2>1. Cardinality(C) <= Cardinality(ToSet(q))
      BY <1>2, <1>3, FS_Subset
    <2>. QED
      BY <1>1, <1>3, <1>4, <2>1 DEF Full, C
  <1>. QED
    BY <1>1, <1>3, <1>5 DEF Releasable, q

\* A selection ends in one of three ways. Nothing is sent: no window is full, and nothing is ready
\* that one of the last three passes would take.
NoneSent(es, current, batch) ==
    /\ batch = <<>>
    /\ \A w \in WindowsOf(es) : ~Full(es, w)
    /\ \A i \in 1..Len(es), pass \in {Repair, Drain, DeadPool} :
          ~(es[i].ready /\ InPass(es[i], pass, current))

\* A full nominal batch of one window is sent, inference escrows first.
FullSent(es, batch) ==
    \E w \in WindowsOf(es) :
        /\ Len(batch) = MaxClaimBatch /\ ToSet(batch) \subseteq Claimable(es, w) /\ ToSet(batch) # {}
        /\ (\E i \in ToSet(batch) : ~es[i].inference) =>
              \A i \in Claimable(es, w) : es[i].inference => i \in ToSet(batch)

\* No window is full, and one of the last three passes finds a batch.
RestSent(es, current, batch) ==
    /\ Once(batch, Len(es)) /\ ToSet(batch) # {}
    /\ \A w \in WindowsOf(es) : ~Full(es, w)
    /\ \E pass \in {Repair, Drain, DeadPool} :
          \A i \in ToSet(batch) : i \in 1..Len(es) /\ InPass(es[i], pass, current)

LEMMA SelectionEnds ==
    ASSUME NEW es, Viewed(es), Flagged(es), NEW current, NEW batch, batch = SelectClaimBatch(es, current)
    PROVE  NoneSent(es, current, batch) \/ FullSent(es, batch) \/ RestSent(es, current, batch)
  <1>. DEFINE cs == Candidates(es, current)
              B(k) == BatchOf(es, cs[k], current)
              Ships(k) == Releasable(B(k), cs[k].pass)
              ws == WindowsOf(es)
              Rest == {Repair, Drain, DeadPool}
  <1>1. Len(es) \in Nat /\ MaxClaimBatch \in Nat \ {0}
    BY MaxClaimBatchAssumption DEF Viewed
  <1>2. PICK m \in Nat : Lined(cs, m, ws)
    BY <1>1, CandidatesAre
  <1>3. Len(cs) = m + 3
    BY <1>2 DEF Lined
  <1>4. \/ batch = <<>> /\ \A k \in 1..Len(cs) : ~Ships(k)
        \/ \E f \in 1..Len(cs) : /\ batch = B(f) /\ Ships(f)
                                 /\ \A k \in 1..Len(cs) : Ships(k) => f <= k
    BY <1>3, FirstThatShips
  <1>. HIDE DEF cs
  <1>5. ASSUME NEW k \in 1..m PROVE cs[k].pass = Nominal /\ cs[k].window \in ws /\ cs[k].window # AnyWindow
    <2>1. cs[k].pass = Nominal /\ cs[k].window \in ws
      BY <1>2 DEF Lined
    <2>. QED
      BY <2>1 DEF WindowsOf, Viewed
  <1>6. ASSUME NEW w \in ws, Full(es, w) PROVE \E k \in 1..m : Ships(k)
    <2>1. PICK k \in 1..m : cs[k].window = w
      BY <1>2 DEF Lined
    <2>2. Releasable(BatchOf(es, cs[k], current), cs[k].pass)
      BY <1>5, <1>6, <2>1, FullWindowShips
    <2>. QED
      BY <2>2
  <1>7. ASSUME NEW pass \in Rest
        PROVE  \E k \in (m + 1)..(m + 3) : cs[k] = [pass |-> pass, window |-> AnyWindow]
    <2>1. m + 1 \in (m + 1)..(m + 3) /\ m + 2 \in (m + 1)..(m + 3) /\ m + 3 \in (m + 1)..(m + 3)
      OBVIOUS
    <2>. QED
      BY <1>2, <2>1 DEF Lined
  <1>8. ASSUME NEW i \in 1..Len(es), NEW pass \in Rest, es[i].ready, InPass(es[i], pass, current)
        PROVE  \E k \in 1..(m + 3) : Ships(k)
    <2>1. PICK k \in (m + 1)..(m + 3) : cs[k] = [pass |-> pass, window |-> AnyWindow]
      BY <1>7
    <2>2. cs[k].pass = pass /\ cs[k].window = AnyWindow
      BY <2>1
    <2>3. Len(BatchOf(es, cs[k], current)) \in Nat \ {0}
      BY <1>8, <2>2, SomeBatch
    <2>4. pass # Nominal
      BY DEF Nominal, Repair, Drain, DeadPool
    <2>5. Ships(k)
      BY <2>2, <2>3, <2>4 DEF Releasable
    <2>6. k \in 1..(m + 3)
      OBVIOUS
    <2>. QED
      BY <2>5, <2>6
  <1>9. ASSUME batch = <<>>, \A k \in 1..Len(cs) : ~Ships(k) PROVE NoneSent(es, current, batch)
    <2>1. 1..m \subseteq 1..(m + 3)
      OBVIOUS
    <2>2. \A k \in 1..m : ~Ships(k)
      BY <1>3, <1>9, <2>1
    <2>3. \A k \in 1..(m + 3) : ~Ships(k)
      BY <1>3, <1>9
    <2>. HIDE DEF Ships
    <2>4. \A w \in ws : ~Full(es, w)
      BY <1>6, <2>2
    <2>5. \A i \in 1..Len(es), pass \in Rest : ~(es[i].ready /\ InPass(es[i], pass, current))
      BY <1>8, <2>3
    <2>. QED
      BY <1>9, <2>4, <2>5 DEF NoneSent
  <1>10. ASSUME NEW f \in 1..Len(cs), batch = B(f), Ships(f), \A k \in 1..Len(cs) : Ships(k) => f <= k
         PROVE  FullSent(es, batch) \/ RestSent(es, current, batch)
    <2>1. batch \in Seq(1..Len(es)) /\ Once(batch, Len(es)) /\ Len(batch) \in Nat
      <3>1. Once(BatchOf(es, cs[f], current), Len(es))
        BY <1>1, BatchOnce
      <3>. QED
        BY <1>10, <3>1 DEF Once
    <2>2. \A i \in ToSet(batch) : i \in 1..Len(es) /\ InPass(es[i], cs[f].pass, current)
      BY <1>10, BatchBounded
    <2>3. Len(batch) >= (IF cs[f].pass = Nominal THEN MaxClaimBatch ELSE 1)
      BY <1>10 DEF Releasable
    <2>4. ToSet(batch) # {}
      <3>1. Len(batch) >= 1
        BY <1>1, <2>1, <2>3
      <3>2. 1 \in 1..Len(batch)
        BY <2>1, <3>1
      <3>3. batch[1] \in ToSet(batch)
        BY <2>1, <3>2 DEF ToSet
      <3>. QED
        BY <3>3
    <2>5. CASE f \in 1..m
      <3>. DEFINE w == cs[f].window
      <3>1. cs[f].pass = Nominal /\ w \in ws /\ w # AnyWindow
        BY <1>5, <2>5
      <3>2. /\ Len(batch) <= MaxClaimBatch /\ ToSet(batch) \subseteq Claimable(es, w)
            /\ (\E i \in ToSet(batch) : ~es[i].inference) =>
                  \A i \in Claimable(es, w) : es[i].inference => i \in ToSet(batch)
        BY <1>10, <3>1, NominalIsFilled
      <3>3. Len(batch) = MaxClaimBatch
        BY <1>1, <2>1, <2>3, <3>1, <3>2
      <3>. HIDE DEF w
      <3>4. FullSent(es, batch)
        BY <2>4, <3>1, <3>2, <3>3 DEF FullSent
      <3>. QED
        BY <3>4
    <2>6. CASE f \notin 1..m
      <3>1. f = m + 1 \/ f = m + 2 \/ f = m + 3
        BY <1>3, <2>6
      <3>2. cs[f].pass \in Rest
        BY <1>2, <3>1 DEF Lined
      <3>3. ASSUME NEW k \in 1..m PROVE ~Ships(k)
        <4>1. k \in 1..Len(cs) /\ ~(f <= k)
          BY <1>3, <3>1
        <4>. HIDE DEF Ships
        <4>. QED
          BY <1>10, <4>1
      <3>. HIDE DEF Ships
      <3>4. \A w \in ws : ~Full(es, w)
        BY <1>6, <3>3
      <3>5. RestSent(es, current, batch)
        BY <2>1, <2>2, <2>4, <3>2, <3>4 DEF RestSent
      <3>. QED
        BY <3>5
    <2>. QED
      BY <2>5, <2>6
  <1>. HIDE DEF Ships, B
  <1>. QED
    BY <1>4, <1>9, <1>10

LEMMA NothingIsStarved ==
    ASSUME NEW es, Viewed(es), NEW current, NEW batch,
           NoneSent(es, current, batch) \/ FullSent(es, batch) \/ RestSent(es, current, batch)
    PROVE  NothingStarved(es, current, batch)
  <1>. DEFINE C == Claimable(es, current)
  <1>. SUFFICES ASSUME batch = <<>>
                PROVE  /\ \A i \in 1..Len(es) : es[i].ready => i \in C
                       /\ Cardinality(C) < MaxClaimBatch
    BY DEF NothingStarved
  <1>1. Len(es) \in Nat /\ MaxClaimBatch \in Nat \ {0}
    BY MaxClaimBatchAssumption DEF Viewed
  <1>2. NoneSent(es, current, batch)
    <2>1. ToSet(batch) = {}
      BY DEF ToSet
    <2>. QED
      BY <2>1 DEF FullSent, RestSent
  <1>3. ASSUME NEW i \in 1..Len(es), es[i].ready PROVE i \in C
    <2>1. ~InPass(es[i], Repair, current) /\ ~InPass(es[i], Drain, current) /\ ~InPass(es[i], DeadPool, current)
      BY <1>2, <1>3 DEF NoneSent
    <2>2. es[i].cap = 0 /\ ~es[i].dead /\ es[i].window = current
      BY <2>1 DEF InPass, Nominal, Repair, Drain, DeadPool
    <2>. QED
      BY <1>3, <2>2 DEF Claimable
  <1>4. Cardinality(C) < MaxClaimBatch
    <2>1. CASE C = {}
      BY <1>1, <2>1, FS_EmptySet
    <2>2. CASE C # {}
      <3>1. current \in WindowsOf(es)
        BY <2>2 DEF Claimable, WindowsOf
      <3>2. ~Full(es, current)
        BY <1>2, <3>1 DEF NoneSent
      <3>3. Cardinality(C) \in Nat
        BY <1>1, ClaimableIsFinite
      <3>. QED
        BY <1>1, <3>2, <3>3 DEF Full
    <2>. QED
      BY <2>1, <2>2
  <1>. QED
    BY <1>3, <1>4

LEMMA FullBatchesGoFirst ==
    ASSUME NEW es, NEW current, NEW batch,
           NoneSent(es, current, batch) \/ FullSent(es, batch) \/ RestSent(es, current, batch)
    PROVE  FullBatchesFirst(es, current, batch)
  <1>1. ASSUME NEW w \in WindowsOf(es), Cardinality(Claimable(es, w)) >= MaxClaimBatch
        PROVE  /\ Len(batch) = MaxClaimBatch
               /\ \E v \in WindowsOf(es) : ToSet(batch) \subseteq Claimable(es, v)
    <2>1. Full(es, w)
      BY <1>1 DEF Full
    <2>2. FullSent(es, batch)
      BY <2>1 DEF NoneSent, RestSent
    <2>. QED
      BY <2>2 DEF FullSent
  <1>2. ASSUME NEW i \in ToSet(batch), i \in Claimable(es, current) PROVE Len(batch) = MaxClaimBatch
    <2>1. es[i].cap = 0 /\ ~es[i].dead /\ es[i].window = current
      BY <1>2 DEF Claimable
    <2>2. ~NoneSent(es, current, batch)
      <3>1. batch # <<>>
        BY DEF ToSet
      <3>. QED
        BY <3>1 DEF NoneSent
    <2>3. ~RestSent(es, current, batch)
      <3>1. ~InPass(es[i], Repair, current) /\ ~InPass(es[i], Drain, current) /\ ~InPass(es[i], DeadPool, current)
        BY <2>1 DEF InPass, Nominal, Repair, Drain, DeadPool
      <3>. QED
        BY <3>1 DEF RestSent
    <2>. QED
      BY <2>2, <2>3 DEF FullSent
  <1>. QED
    BY <1>1, <1>2 DEF FullBatchesFirst

\* A drain batch as large as a full one would have been found by the nominal pass of its window.
LEMMA InferenceGoesFirst ==
    ASSUME NEW es, Viewed(es), NEW current, NEW batch,
           NoneSent(es, current, batch) \/ FullSent(es, batch) \/ RestSent(es, current, batch)
    PROVE  InferenceFirst(es, batch)
  <1>. SUFFICES ASSUME NEW w \in WindowsOf(es), Len(batch) = MaxClaimBatch,
                       ToSet(batch) \subseteq Claimable(es, w),
                       \E i \in ToSet(batch) : ~es[i].inference
                PROVE  \A i \in Claimable(es, w) : es[i].inference => i \in ToSet(batch)
    BY DEF InferenceFirst
  <1>1. Len(es) \in Nat /\ MaxClaimBatch \in Nat \ {0}
    BY MaxClaimBatchAssumption DEF Viewed
  <1>2. PICK j \in ToSet(batch) : ~es[j].inference
    OBVIOUS
  <1>3. es[j].window = w
    BY DEF Claimable
  <1>4. CASE NoneSent(es, current, batch)
    <2>1. ToSet(batch) = {}
      BY <1>4 DEF NoneSent, ToSet
    <2>. QED
      BY <1>2, <2>1
  <1>5. CASE FullSent(es, batch)
    <2>1. PICK v \in WindowsOf(es) :
              /\ ToSet(batch) \subseteq Claimable(es, v)
              /\ (\E i \in ToSet(batch) : ~es[i].inference) =>
                    \A i \in Claimable(es, v) : es[i].inference => i \in ToSet(batch)
      BY <1>5 DEF FullSent
    <2>2. v = w
      BY <1>3, <2>1 DEF Claimable
    <2>. QED
      BY <2>1, <2>2
  <1>6. CASE RestSent(es, current, batch)
    <2>1. Cardinality(ToSet(batch)) = MaxClaimBatch
      BY <1>1, <1>6, OnceIsCounted DEF RestSent
    <2>2. IsFiniteSet(Claimable(es, w)) /\ Cardinality(Claimable(es, w)) \in Nat
      BY <1>1, ClaimableIsFinite
    <2>3. Cardinality(ToSet(batch)) <= Cardinality(Claimable(es, w))
      BY <2>2, FS_Subset
    <2>4. Full(es, w)
      BY <1>1, <2>1, <2>2, <2>3 DEF Full
    <2>. QED
      BY <1>6, <2>4 DEF RestSent
  <1>. QED
    BY <1>4, <1>5, <1>6

\* No queue, or one of escrow entries and what select_claim_batch makes of it.
Selected ==
    \/ selection = NoSelection
    \/ /\ Viewed(selection.entries) /\ Flagged(selection.entries)
       /\ selection.batch = SelectClaimBatch(selection.entries, selection.now)

LEMMA SelectedIsInvariant ==
    SelectSpec => []Selected
  <1>1. SelectInit => Selected
    BY DEF SelectInit, Selected
  <1>2. ASSUME Selected, [SelectNext]_selection PROVE Selected'
    <2>1. CASE UNCHANGED selection
      BY <1>2, <2>1 DEF Selected
    <2>2. CASE SelectNext
      <3>0. PICK n \in 0..MaxQueue, now \in Windows : \E q \in [1..n -> Escrows] :
                selection' = [entries |-> q, now |-> now, batch |-> SelectClaimBatch(q, now)]
        BY <2>2 DEF SelectNext
      <3>1. PICK q \in [1..n -> Escrows] :
                selection' = [entries |-> q, now |-> now, batch |-> SelectClaimBatch(q, now)]
        BY <3>0
      <3>2. n \in Nat
        BY MaxQueueAssumption
      <3>3. Len(q) = n
        BY <3>2
      <3>4. ASSUME NEW i \in 1..n
            PROVE  /\ q[i].cap \in Nat /\ q[i].window \in Nat /\ q[i].window # AnyWindow
                   /\ q[i].dead \in BOOLEAN /\ q[i].ready \in BOOLEAN /\ q[i].inference \in BOOLEAN
        <4>1. q[i] \in Escrows
          OBVIOUS
        <4>2. q[i] \in [inference : BOOLEAN, window : Nat \ {AnyWindow}, cap : Nat, dead : BOOLEAN, ready : BOOLEAN]
          BY <4>1, EscrowsAssumption
        <4>. QED
          BY <4>2
      <3>5. Viewed(q) /\ Flagged(q)
        BY <3>2, <3>3, <3>4 DEF Viewed, Flagged
      <3>. QED
        BY <3>1, <3>5 DEF Selected
    <2>. QED
      BY <1>2, <2>1, <2>2
  <1>. QED
    BY <1>1, <1>2, PTL DEF SelectSpec

\* Every batch select_claim_batch returns can be signed and accepted as one transaction.
THEOREM BatchesAreSpendable ==
    SelectSpec => []BatchesSpendable
  <1>1. ASSUME Selected PROVE BatchesSpendable
    <2>1. CASE selection = NoSelection
      <3>1. selection.entries = <<>> /\ selection.batch = <<>>
        BY <2>1 DEF NoSelection
      <3>2. OneTransaction(<<>>, <<>>)
        BY MaxClaimBatchAssumption DEF OneTransaction, CapsRespected, OnePool, SpendsOnce, ToSet
      <3>. QED
        BY <3>1, <3>2 DEF BatchesSpendable
    <2>2. CASE selection # NoSelection
      BY <1>1, <2>2, BatchesAreTransactions DEF Selected, BatchesSpendable
    <2>. QED
      BY <2>1, <2>2
  <1>. QED
    BY <1>1, SelectedIsInvariant, PTL

\* Whatever the queue, select_claim_batch leaves nothing waiting that could be claimed: it sends
\* nothing only when every ready entry waits for a full batch of the current window, full batches
\* go before the passes that repair and drain, and inference rewards before block rewards.
THEOREM NothingIsLeftWaiting ==
    SelectSpec => []NothingWaits
  <1>. DEFINE es == selection.entries
              now == selection.now
              batch == selection.batch
  <1>1. ASSUME Selected PROVE NothingWaits
    <2>1. CASE selection = NoSelection
      <3>1. es = <<>> /\ batch = <<>>
        BY <2>1 DEF NoSelection
      <3>2. Claimable(<<>>, now) = {} /\ WindowsOf(<<>>) = {} /\ ToSet(<<>>) = {} /\ Cardinality({}) = 0
        BY FS_EmptySet DEF Claimable, WindowsOf, ToSet
      <3>3. /\ NothingStarved(<<>>, now, <<>>) /\ FullBatchesFirst(<<>>, now, <<>>)
            /\ InferenceFirst(<<>>, <<>>)
        BY SMTT(60), <3>2, MaxClaimBatchAssumption DEF NothingStarved, FullBatchesFirst, InferenceFirst
      <3>. QED
        BY <3>1, <3>3 DEF NothingWaits
    <2>2. CASE selection # NoSelection
      <3>1. Viewed(es) /\ Flagged(es) /\ batch = SelectClaimBatch(es, now)
        BY <1>1, <2>2 DEF Selected
      <3>2. NoneSent(es, now, batch) \/ FullSent(es, batch) \/ RestSent(es, now, batch)
        BY <3>1, SelectionEnds
      <3>. QED
        BY <3>1, <3>2, NothingIsStarved, FullBatchesGoFirst, InferenceGoesFirst DEF NothingWaits
    <2>. QED
      BY <2>1, <2>2
  <1>. QED
    BY <1>1, SelectedIsInvariant, PTL
-----------------------------------------------------------------------------
(* The stream *)

\* The stream is a sequence (of messages of several shapes).
Listed == inbox \in Seq(ToSet(inbox))

\* What reading the stream does to it.
LEMMA ReadEffect ==
    ASSUME Listed, Read
    PROVE  /\ Listed'
           /\ Len(inbox) \in Nat \ {0} /\ Len(inbox') = Len(inbox) - 1
           /\ NextMsg = inbox[1]
           /\ \A k \in 1..Len(inbox') : inbox'[k] = inbox[k + 1]
  <1>1. inbox # <<>> /\ inbox' = Tail(inbox) /\ inbox \in Seq(ToSet(inbox))
    BY DEF Read, Listed
  <1>2. /\ Len(inbox) \in Nat \ {0} /\ Len(inbox') = Len(inbox) - 1 /\ inbox' \in Seq(ToSet(inbox))
        /\ \A k \in 1..Len(inbox') : inbox'[k] = inbox[k + 1]
    BY <1>1, HeadTailProperties, EmptySeq
  <1>3. inbox' \in Seq(ToSet(inbox'))
    <2>1. inbox' \in [1..Len(inbox') -> ToSet(inbox')] /\ Len(inbox') \in Nat
      BY <1>2, LenProperties DEF ToSet
    <2>. QED
      BY <2>1
  <1>. QED
    BY <1>1, <1>2, <1>3 DEF Listed, NextMsg

\* What a message of the node does to the stream.
LEMMA SayEffect ==
    ASSUME Listed, NEW msg, Say(msg)
    PROVE  /\ Listed'
           /\ Len(inbox) \in Nat /\ Len(inbox') = Len(inbox) + 1
           /\ \A k \in 1..Len(inbox) : inbox'[k] = inbox[k]
           /\ inbox'[Len(inbox) + 1] = msg
  <1>. DEFINE S == ToSet(inbox) \cup {msg}
  <1>1. inbox \in Seq(S) /\ inbox' = Append(inbox, msg) /\ msg \in S
    <2>1. inbox \in Seq(ToSet(inbox)) /\ inbox' = Append(inbox, msg)
      BY DEF Say, Listed
    <2>2. ToSet(inbox) \subseteq S /\ msg \in S
      OBVIOUS
    <2>. HIDE DEF S
    <2>. QED
      BY <2>1, <2>2, SeqMonotonic
  <1>. HIDE DEF S
  <1>2. /\ Len(inbox) \in Nat /\ Len(inbox') = Len(inbox) + 1 /\ inbox' \in Seq(S)
        /\ \A k \in 1..Len(inbox) : inbox'[k] = inbox[k]
        /\ inbox'[Len(inbox) + 1] = msg
    BY <1>1, AppendProperties, LenProperties
  <1>3. inbox' \in Seq(ToSet(inbox'))
    <2>1. inbox' \in [1..Len(inbox') -> ToSet(inbox')] /\ Len(inbox') \in Nat
      BY <1>2, LenProperties DEF ToSet
    <2>. QED
      BY <2>1
  <1>. QED
    BY <1>2, <1>3 DEF Listed

\* An unread answer stays unread when another message is read.
LEMMA ReadKeepsAnswers ==
    ASSUME Listed, Read, NEW b, UnderWay(b), ~Answers(NextMsg, b), asked \subseteq asked'
    PROVE  UnderWay(b)'
  <1>1. CASE Thin(b) \in asked
    BY <1>1 DEF UnderWay, Thin
  <1>2. CASE \E k \in 1..Len(inbox) : Answers(inbox[k], b)
    <2>1. PICK k \in 1..Len(inbox) : Answers(inbox[k], b)
      BY <1>2
    <2>2. k # 1
      BY <2>1, ReadEffect
    <2>3. k - 1 \in 1..Len(inbox') /\ inbox'[k - 1] = inbox[k]
      BY <2>2, ReadEffect
    <2>4. Answers(inbox'[k - 1], b)
      BY <2>1, <2>3
    <2>. QED
      BY <2>3, <2>4 DEF UnderWay, Answers
  <1>. QED
    BY <1>1, <1>2 DEF UnderWay

\* A new message hides none.
LEMMA SayKeepsAnswers ==
    ASSUME Listed, NEW msg, Say(msg), NEW b, UnderWay(b), Thin(b) \in asked => Thin(b) \in asked' \/ Answers(msg, b)
    PROVE  UnderWay(b)'
  <1>1. CASE \E k \in 1..Len(inbox) : Answers(inbox[k], b)
    <2>1. PICK k \in 1..Len(inbox) : Answers(inbox[k], b)
      BY <1>1
    <2>2. k \in 1..Len(inbox') /\ inbox'[k] = inbox[k]
      BY SayEffect
    <2>. QED
      BY <2>1, <2>2 DEF UnderWay, Answers
  <1>2. CASE Thin(b) \in asked
    <2>1. CASE Thin(b) \in asked'
      BY <2>1 DEF UnderWay, Thin
    <2>2. CASE Answers(msg, b)
      <3>1. Len(inbox) + 1 \in 1..Len(inbox') /\ inbox'[Len(inbox) + 1] = msg
        BY SayEffect
      <3>. QED
        BY <2>2, <3>1 DEF UnderWay, Answers
    <2>. QED
      BY <1>2, <2>1, <2>2
  <1>. QED
    BY <1>1, <1>2 DEF UnderWay
-----------------------------------------------------------------------------
(* Validation *)

\* A block that waits for its validation and is not queued is being asked for, and there is one:
\* the queue is shorter than the list of blocks that wait.  (The chain rebuild may have a queued
\* block validated early; its request then goes out all the same.)
VInv ==
    /\ Listed
    /\ validation_pending \subseteq Coinbase
    /\ validation_queue \in Seq(Coinbase)
    /\ \A b \in validation_pending \ ToSet(validation_queue) : UnderWay(b)
    /\ validation_queue # <<>> => Len(validation_queue) < Cardinality(validation_pending)

LEMMA PendingIsFinite ==
    ASSUME NEW S \in SUBSET Coinbase
    PROVE  IsFiniteSet(S) /\ Cardinality(S) \in Nat
  BY OutpointsAssumption, FS_Subset, FS_CardinalityType

\* The invariant is stronger than the property.
LEMMA SomeIsUnderWay ==
    ASSUME VInv
    PROVE  ValidationNeverWedges
  <1>. SUFFICES ASSUME validation_pending # {}
                PROVE  validation_pending \ ToSet(validation_queue) # {}
    BY DEF VInv, ValidationNeverWedges
  <1>1. CASE validation_queue = <<>>
    BY <1>1 DEF ToSet
  <1>2. CASE validation_queue # <<>>
    <2>. SUFFICES ASSUME validation_pending \in SUBSET ToSet(validation_queue) PROVE FALSE
      OBVIOUS
    <2>1. /\ IsFiniteSet(ToSet(validation_queue)) /\ Cardinality(ToSet(validation_queue)) <= Len(validation_queue)
          /\ Len(validation_queue) \in Nat
      BY ElementsAreFewer DEF VInv
    <2>2. Cardinality(validation_pending) <= Cardinality(ToSet(validation_queue))
          /\ Cardinality(ToSet(validation_queue)) \in Nat
      BY <2>1, FS_Subset, FS_CardinalityType
    <2>3. Cardinality(validation_pending) \in Nat /\ Len(validation_queue) < Cardinality(validation_pending)
      BY <1>2, PendingIsFinite DEF VInv
    <2>. QED
      BY <2>1, <2>2, <2>3
  <1>. QED
    BY <1>1, <1>2

\* A connection asks for the first blocks and queues the others.
LEMMA StartsRight ==
    ASSUME NEW S \in SUBSET Coinbase, NEW order, order = SetToSeq(S), NEW first,
           first = IF Len(order) < ValidationWindow THEN Len(order) ELSE ValidationWindow
    PROVE  /\ SubSeq(order, first + 1, Len(order)) \in Seq(Coinbase)
           /\ \A b \in S \ ToSet(SubSeq(order, first + 1, Len(order))) : Thin(b) \in {Thin(order[k]) : k \in 1..first}
           /\ SubSeq(order, first + 1, Len(order)) # <<>> => Len(SubSeq(order, first + 1, Len(order))) < Cardinality(S)
  <1>. DEFINE n == Len(order)
              q == SubSeq(order, first + 1, n)
  <1>1. order \in Seq(S) /\ n = Cardinality(S) /\ n \in Nat /\ \A x \in S : \E i \in 1..n : order[i] = x
    BY PendingIsFinite, SetToSeqLists
  <1>2. first \in 0..n /\ (first = n \/ first = ValidationWindow) /\ ValidationWindow \in Nat \ {0}
    BY <1>1, WindowAssumption
  <1>. HIDE DEF n
  <1>3. \A i \in (first + 1)..n : order[i] \in Coinbase
    BY <1>1, <1>2 DEF n
  <1>4. /\ q \in Seq(Coinbase)
        /\ Len(q) = IF first + 1 <= n THEN n - (first + 1) + 1 ELSE 0
        /\ \A i \in 1..(n - (first + 1) + 1) : q[i] = order[(first + 1) + i - 1]
    BY SMTT(60), <1>1, <1>2, <1>3, SubSeqProperties
  <1>. HIDE DEF q
  <1>5. Len(q) = n - first
    BY <1>1, <1>2, <1>4
  <1>6. \A i \in (first + 1)..n : order[i] \in ToSet(q)
    <2>. SUFFICES ASSUME NEW i \in (first + 1)..n PROVE order[i] \in ToSet(q)
      OBVIOUS
    <2>. first \in Int /\ n \in Int /\ i \in Int /\ first + 1 <= i /\ i <= n
      BY <1>1, <1>2
    <2>1. i - first \in 1..(n - (first + 1) + 1) /\ i - first \in 1..(n - first) /\ (first + 1) + (i - first) - 1 = i
      OBVIOUS
    <2>2. q[i - first] = order[i]
      BY <1>4, <2>1
    <2>3. i - first \in DOMAIN q
      BY <1>4, <1>5, <2>1
    <2>. QED
      BY <2>2, <2>3 DEF ToSet
  <1>7. ASSUME NEW b \in S \ ToSet(q) PROVE Thin(b) \in {Thin(order[k]) : k \in 1..first}
    <2>1. PICK i \in 1..n : order[i] = b
      BY <1>1
    <2>2. i \notin (first + 1)..n
      BY <1>6, <1>7, <2>1
    <2>3. first \in Int /\ n \in Int /\ i \in Int /\ 1 <= i /\ i <= n
      BY <1>1, <1>2
    <2>4. i \in 1..first
      BY <2>2, <2>3
    <2>. QED
      BY <2>1, <2>4
  <1>8. q # <<>> => Len(q) < n
    <2>1. q # <<>> => Len(q) # 0
      BY <1>4
    <2>. QED
      BY <1>1, <1>2, <1>5, <2>1
  <1>. QED
    BY <1>1, <1>4, <1>7, <1>8 DEF n, q

\* A validation answer is consumed: the next queued request goes out.
LEMMA PullKeeps ==
    ASSUME VInv, Read, NextMsg.b \in validation_pending,
           validation_pending' = validation_pending \ {NextMsg.b}, Pull
    PROVE  VInv'
  <1>. DEFINE P == validation_pending
              Q == validation_queue
  <1>1. /\ validation_pending' \subseteq Coinbase /\ P \in SUBSET Coinbase /\ Q \in Seq(Coinbase) /\ Len(Q) \in Nat
        /\ \A b \in P \ ToSet(Q) : UnderWay(b)
        /\ Q # <<>> => Len(Q) < Cardinality(P)
    BY DEF VInv
  <1>2. Cardinality(P) \in Nat /\ Cardinality(validation_pending') = Cardinality(P) - 1
    BY SMTT(60), <1>1, PendingIsFinite, FS_RemoveElement
  <1>3. Listed /\ Listed'
    BY ReadEffect DEF VInv
  <1>4. ASSUME NEW b \in validation_pending', UnderWay(b) PROVE UnderWay(b)'
    <2>1. ~Answers(NextMsg, b)
      BY <1>4 DEF Answers
    <2>2. asked \subseteq asked'
      BY DEF Pull
    <2>. QED
      BY <1>3, <1>4, <2>1, <2>2, ReadKeepsAnswers
  <1>5. CASE Q = <<>>
    <2>1. validation_queue' = Q
      BY <1>5 DEF Pull
    <2>2. \A b \in validation_pending' \ ToSet(validation_queue') : UnderWay(b)'
      BY <1>1, <1>4, <2>1
    <2>. QED
      BY <1>1, <1>3, <1>5, <2>1, <2>2 DEF VInv
  <1>6. CASE Q # <<>>
    <2>1. asked' = asked \cup {Thin(Head(Q))} /\ validation_queue' = Tail(Q)
      BY <1>6 DEF Pull
    <2>2. /\ validation_queue' \in Seq(Coinbase) /\ Len(validation_queue') = Len(Q) - 1 /\ Len(Q) \in Nat \ {0}
          /\ \A k \in 1..Len(validation_queue') : validation_queue'[k] = Q[k + 1]
      BY <1>1, <1>6, <2>1, HeadTailProperties, EmptySeq
    <2>3. ASSUME NEW b \in validation_pending' \ ToSet(validation_queue') PROVE UnderWay(b)'
      <3>1. CASE b \in ToSet(Q)
        <4>1. PICK k \in 1..Len(Q) : Q[k] = b
          BY <1>1, <3>1 DEF ToSet
        <4>2. CASE k = 1
          <5>1. b = Head(Q)
            BY <1>1, <4>1, <4>2
          <5>. QED
            BY <2>1, <5>1 DEF UnderWay, Thin
        <4>3. CASE k # 1
          <5>1. k - 1 \in 1..Len(validation_queue') /\ validation_queue'[k - 1] = b
            BY <2>2, <4>1, <4>3
          <5>2. k - 1 \in DOMAIN validation_queue'
            BY <2>2, <5>1
          <5>. QED
            BY <2>3, <5>1, <5>2 DEF ToSet
        <4>. QED
          BY <4>2, <4>3
      <3>2. CASE b \notin ToSet(Q)
        BY <1>1, <1>4, <2>3, <3>2
      <3>. QED
        BY <3>1, <3>2
    <2>4. Len(validation_queue') < Cardinality(validation_pending')
      BY <1>1, <1>2, <1>6, <2>2
    <2>. QED
      BY <1>1, <1>3, <2>2, <2>3, <2>4 DEF VInv
  <1>. QED
    BY <1>5, <1>6

\* Nothing of the validation changes.
LEMMA NothingPulled ==
    ASSUME VInv, UNCHANGED <<validation_pending, validation_queue>>, Listed',
           \A b \in validation_pending : UnderWay(b) => UnderWay(b)'
    PROVE  VInv'
  BY DEF VInv

\* A message is read that is no validation answer.
LEMMA OtherMessageRead ==
    ASSUME VInv, Read, UNCHANGED <<validation_pending, validation_queue>>, asked \subseteq asked',
           \A b \in validation_pending : ~Answers(NextMsg, b)
    PROVE  VInv'
  <1>1. Listed /\ Listed'
    BY ReadEffect DEF VInv
  <1>2. \A b \in validation_pending : UnderWay(b) => UnderWay(b)'
    BY <1>1, ReadKeepsAnswers
  <1>. QED
    BY <1>1, <1>2, NothingPulled

\* The node says something else, and has forgotten no request it did not answer.
LEMMA OtherMessageSaid ==
    ASSUME VInv, UNCHANGED <<validation_pending, validation_queue>>, NEW msg, Say(msg), asked' = asked
    PROVE  VInv'
  <1>1. Listed /\ Listed'
    BY SayEffect DEF VInv
  <1>2. \A b \in validation_pending : UnderWay(b) => UnderWay(b)'
    BY <1>1, SayKeepsAnswers
  <1>. QED
    BY <1>1, <1>2, NothingPulled

\* A connection starts the validation afresh.
LEMMA ConnectStarts ==
    ASSUME NEW es, ConnectTo(es), inbox' = <<>>
    PROVE  VInv'
  <1>. DEFINE S == {es[i].o : i \in Kept(es)} \cap Coinbase
              order == SetToSeq(S)
              first == IF Len(order) < ValidationWindow THEN Len(order) ELSE ValidationWindow
  <1>1. /\ validation_pending' = S /\ asked' = {Thin(order[k]) : k \in 1..first}
        /\ validation_queue' = SubSeq(order, first + 1, Len(order))
    BY DEF ConnectTo
  <1>2. S \in SUBSET Coinbase
    OBVIOUS
  <1>. HIDE DEF S
  <1>3. /\ validation_queue' \in Seq(Coinbase)
        /\ \A b \in S \ ToSet(validation_queue') : Thin(b) \in asked'
        /\ validation_queue' # <<>> => Len(validation_queue') < Cardinality(S)
    <2>. HIDE DEF order, first
    <2>. QED
      BY <1>1, <1>2, StartsRight DEF order, first
  <1>4. Listed'
    BY DEF Listed, ToSet
  <1>. QED
    BY <1>1, <1>2, <1>3, <1>4 DEF VInv, UnderWay, Thin

LEMMA ValidationInit ==
    ASSUME Init
    PROVE  VInv
  <1>. DEFINE order == SetToSeq(Ghosts)
              first == IF Len(order) < ValidationWindow THEN Len(order) ELSE ValidationWindow
  <1>1. /\ validation_pending = Ghosts /\ asked = {Thin(order[k]) : k \in 1..first}
        /\ validation_queue = SubSeq(order, first + 1, Len(order)) /\ inbox = <<>>
    BY DEF Init
  <1>2. Ghosts \in SUBSET Coinbase
    BY OutpointsAssumption
  <1>3. /\ validation_queue \in Seq(Coinbase)
        /\ \A b \in Ghosts \ ToSet(validation_queue) : Thin(b) \in asked
        /\ validation_queue # <<>> => Len(validation_queue) < Cardinality(Ghosts)
    <2>. HIDE DEF order, first
    <2>. QED
      BY <1>1, <1>2, StartsRight DEF order, first
  <1>4. Listed
    BY <1>1 DEF Listed, ToSet
  <1>. QED
    BY <1>1, <1>2, <1>3, <1>4 DEF VInv, UnderWay

\* A request or an answer is never lost, whatever the watcher reads and the node says.
LEMMA ValidationStep ==
    ASSUME VInv, [Next]_vars
    PROVE  VInv'
  <1>1. CASE OnBlockAdded
    <2>1. Read /\ NextMsg.kind = "added" /\ UNCHANGED <<validation_pending, validation_queue, asked>>
      BY <1>1 DEF OnBlockAdded
    <2>. QED
      BY <2>1, OtherMessageRead DEF Answers
  <1>2. CASE OnBlock
    <2>1. /\ Read /\ NextMsg.kind = "block" /\ UNCHANGED <<validation_pending, validation_queue, asked>>
          /\ NextMsg.full \/ NextMsg.b \notin validation_pending
      BY <1>2 DEF OnBlock
    <2>. QED
      BY <2>1, OtherMessageRead DEF Answers
  <1>3. CASE OnValidated
    BY <1>3, PullKeeps DEF OnValidated
  <1>4. CASE OnBlockError
    <2>1. CASE NextMsg.b \in validation_pending
      BY <1>4, <2>1, PullKeeps DEF OnBlockError
    <2>2. CASE NextMsg.b \notin validation_pending
      <3>1. Read /\ UNCHANGED <<validation_pending, validation_queue, asked>>
        BY <1>4, <2>2 DEF OnBlockError
      <3>. QED
        BY <2>2, <3>1, OtherMessageRead DEF Answers
    <2>. QED
      BY <2>1, <2>2
  <1>5. CASE OnChainChanged
    <2>1. /\ Read /\ NextMsg.kind = "chain" /\ UNCHANGED <<validation_pending, validation_queue>>
          /\ asked \subseteq asked'
      BY <1>5 DEF OnChainChanged
    <2>. QED
      BY <2>1, OtherMessageRead DEF Answers
  <1>6. CASE OnSubmitResponse
    <2>1. Read /\ NextMsg.kind \in Replies /\ UNCHANGED <<validation_pending, validation_queue, asked>>
      BY <1>6 DEF OnSubmitResponse
    <2>. QED
      BY <2>1, OtherMessageRead DEF Answers, Replies
  <1>7. CASE Reconnect
    BY <1>7, ConnectStarts DEF Reconnect
  <1>8. ASSUME UNCHANGED <<validation_pending, validation_queue, inbox>>, asked \subseteq asked'
        PROVE  VInv'
    <2>1. Listed'
      BY <1>8 DEF VInv, Listed
    <2>2. \A b \in validation_pending : UnderWay(b) => UnderWay(b)'
      BY <1>8 DEF UnderWay, Thin
    <2>. QED
      BY <1>8, <2>1, <2>2, NothingPulled
  <1>9. CASE \/ \E o \in Inference : TrackInference(o)
             \/ \E b \in Coinbase : ChainRestoreAsks(b)
             \/ \E o \in Outpoints : NodeBurns(o)
             \/ UNCHANGED vars
    BY <1>8, <1>9 DEF TrackInference, ChainRestoreAsks, NodeBurns, vars, watcher, stream
  <1>10. CASE NodeAddsBlock
    <2>1. PICK msg : Say(msg) /\ UNCHANGED <<validation_pending, validation_queue, asked>>
      BY <1>10 DEF NodeAddsBlock, watcher
    <2>. QED
      BY <2>1, OtherMessageSaid
  <1>11. CASE \E removed, new \in SUBSET Coinbase : NodeChangesChain(removed, new)
    <2>1. PICK msg : Say(msg) /\ UNCHANGED <<validation_pending, validation_queue, asked>>
      BY <1>11 DEF NodeChangesChain, watcher
    <2>. QED
      BY <2>1, OtherMessageSaid
  <1>12. CASE \E q \in asked : NodeAnswersBlock(q)
    <2>1. PICK q \in asked : NodeAnswersBlock(q)
      BY <1>12
    <2>. DEFINE msg == IF q.b \in Unknown
                         THEN [kind |-> "unknown", b |-> q.b]
                         ELSE [kind |-> "block", b |-> q.b, full |-> q.full, on_chain |-> q.b \in chain]
    <2>2. Say(msg) /\ asked' = asked \ {q} /\ UNCHANGED <<validation_pending, validation_queue>>
      BY <2>1 DEF NodeAnswersBlock, watcher
    <2>3. Listed /\ Listed'
      BY <2>2, SayEffect DEF VInv
    <2>4. ASSUME NEW b, UnderWay(b) PROVE UnderWay(b)'
      <3>1. CASE q = Thin(b)
        <4>1. Answers(msg, b)
          BY <3>1 DEF Answers, Thin
        <4>. HIDE DEF msg
        <4>. QED
          BY <2>2, <2>3, <2>4, <4>1, SayKeepsAnswers
      <3>2. CASE q # Thin(b)
        <4>1. Thin(b) \in asked => Thin(b) \in asked'
          BY <2>2, <3>2
        <4>. HIDE DEF msg
        <4>. QED
          BY <2>2, <2>3, <2>4, <4>1, SayKeepsAnswers
      <3>. QED
        BY <3>1, <3>2
    <2>. QED
      BY <2>2, <2>3, <2>4, NothingPulled
  <1>13. CASE \E t \in submitted : NodeAnswersClaim(t)
    <2>1. UNCHANGED <<validation_pending, validation_queue, asked>> /\ ((\E v : Say(v)) \/ UNCHANGED inbox)
      BY <1>13 DEF NodeAnswersClaim, watcher
    <2>2. CASE \E v : Say(v)
      BY <2>1, <2>2, OtherMessageSaid
    <2>3. CASE UNCHANGED inbox
      BY <1>8, <2>1, <2>3
    <2>. QED
      BY <2>1, <2>2, <2>3
  <1>. QED
    BY <1>1, <1>2, <1>3, <1>4, <1>5, <1>6, <1>7, <1>9, <1>10, <1>11, <1>12, <1>13 DEF Next, WatcherNext, NodeNext

\* The boot validation never wedges: while blocks wait for their validation, a request for one of
\* them or an answer to it is on its way, for every window, through reorganisations, blocks the
\* node does not know, requests of the chain rebuild for the same blocks and reconnections.
THEOREM ValidationGoesOn == Spec => []ValidationNeverWedges
  <1>1. Init => VInv
    BY ValidationInit
  <1>2. VInv /\ [Next]_vars => VInv'
    BY ValidationStep
  <1>3. VInv => ValidationNeverWedges
    BY SomeIsUnderWay
  <1>. QED
    BY <1>1, <1>2, <1>3, PTL DEF Spec
-----------------------------------------------------------------------------
(* The books: entries, known outpoints and the index of blocks *)

EntryFields == {"o", "confirm", "claimed", "slashed", "dead", "retries", "after", "submits", "cap", "capset"}
Formed(e) == DOMAIN e = EntryFields /\ e.o \in Outpoints /\ e.claimed \in BOOLEAN /\ e.slashed \in BOOLEAN

\* Every live entry is known and found from its block, and no output has two.
Books(es, known, index) ==
    /\ es \in Seq(ToSet(es)) /\ \A i \in 1..Len(es) : Formed(es[i])
    /\ index \in [Coinbase -> SUBSET (1..Len(es))]
    /\ \A i \in 1..Len(es) : Live(es[i]) => es[i].o \in known /\ (es[i].o \in Coinbase => i \in index[es[i].o])
    /\ \A i, j \in 1..Len(es) : Live(es[i]) /\ Live(es[j]) /\ es[i].o = es[j].o => i = j

\* The outputs with a live entry.
Held(es) == {es[i].o : i \in Kept(es)}

\* The outputs with an entry marked claimed.
Paid(es) == {es[i].o : i \in {j \in 1..Len(es) : es[j].claimed}}

\* Entries change in place and none comes to life.
Tamer(fs, es) ==
    /\ fs = [i \in 1..Len(es) |-> fs[i]]
    /\ \A i \in 1..Len(es) : Formed(fs[i]) /\ fs[i].o = es[i].o /\ (Live(fs[i]) => Live(es[i]))

LEMMA TamerKeepsBooks ==
    ASSUME NEW es, NEW known, NEW index, Books(es, known, index), NEW fs, Tamer(fs, es)
    PROVE  Books(fs, known, index) /\ Held(fs) \subseteq Held(es) /\ Len(fs) = Len(es)
  <1>1. Len(es) \in Nat
    BY DEF Books
  <1>2. fs \in Seq(ToSet(fs)) /\ Len(fs) = Len(es)
    BY <1>1, IsListed DEF Tamer
  <1>3. Books(fs, known, index)
    BY <1>2 DEF Books, Tamer
  <1>4. Held(fs) \subseteq Held(es)
    BY <1>2 DEF Tamer, Held, Kept
  <1>. QED
    BY <1>2, <1>3, <1>4

LEMMA SlashTames ==
    ASSUME NEW es, NEW known, NEW index, Books(es, known, index), NEW at
    PROVE  /\ Tamer(SlashAt(es, at), es)
           /\ \A i \in 1..Len(es) : i \in at => ~Live(SlashAt(es, at)[i])
           /\ Paid(SlashAt(es, at)) \subseteq Paid(es)
  <1>1. ASSUME NEW i \in 1..Len(es)
        PROVE  /\ Formed(SlashAt(es, at)[i]) /\ SlashAt(es, at)[i].o = es[i].o
               /\ Live(SlashAt(es, at)[i]) => Live(es[i]) /\ i \notin at
               /\ SlashAt(es, at)[i].claimed = es[i].claimed
    <2>1. Formed(es[i])
      BY DEF Books
    <2>2. CASE i \in at /\ Live(es[i])
      <3>1. SlashAt(es, at)[i] = [es[i] EXCEPT !.slashed = TRUE]
        BY <2>2 DEF SlashAt
      <3>. QED
        BY <2>1, <3>1 DEF Formed, EntryFields, Live
    <2>3. CASE ~(i \in at /\ Live(es[i]))
      <3>1. SlashAt(es, at)[i] = es[i]
        BY <2>3 DEF SlashAt
      <3>. QED
        BY <2>1, <2>3, <3>1
    <2>. QED
      BY <2>2, <2>3
  <1>2. SlashAt(es, at) = [i \in 1..Len(es) |-> SlashAt(es, at)[i]]
    BY DEF SlashAt
  <1>3. Tamer(SlashAt(es, at), es)
    BY <1>1, <1>2 DEF Tamer
  <1>4. Paid(SlashAt(es, at)) \subseteq Paid(es)
    BY <1>1, <1>3, TamerKeepsBooks DEF Paid
  <1>. QED
    BY <1>1, <1>3, <1>4

LEMMA HealingTames ==
    ASSUME NEW es, NEW known, NEW index, Books(es, known, index), NEW daa
    PROVE  /\ Tamer([i \in 1..Len(es) |-> Healed(es[i], daa)], es)
           /\ Paid([i \in 1..Len(es) |-> Healed(es[i], daa)]) \subseteq Paid(es)
  <1>. DEFINE fs == [i \in 1..Len(es) |-> Healed(es[i], daa)]
  <1>1. ASSUME NEW i \in 1..Len(es)
        PROVE  /\ Formed(Healed(es[i], daa)) /\ Healed(es[i], daa).o = es[i].o
               /\ Live(Healed(es[i], daa)) => Live(es[i])
               /\ Healed(es[i], daa).claimed = es[i].claimed
    <2>1. Formed(es[i])
      BY DEF Books
    <2>. QED
      BY <2>1 DEF Formed, EntryFields, Live, Healed
  <1>2. Tamer(fs, es)
    BY <1>1 DEF Tamer
  <1>3. \A i \in 1..Len(es) : fs[i].o = es[i].o /\ fs[i].claimed = es[i].claimed
    BY <1>1
  <1>4. Paid(fs) \subseteq Paid(es)
    <2>. HIDE DEF fs
    <2>. QED
      BY <1>2, <1>3, TamerKeepsBooks DEF Paid
  <1>. QED
    BY <1>2, <1>4

\* EscrowWatcher::new and rebuild_indexes find every entry.
LEMMA RebuiltBooks ==
    ASSUME NEW es, es \in Seq(ToSet(es)), \A i \in 1..Len(es) : Formed(es[i]),
           \A i, j \in 1..Len(es) : Live(es[i]) /\ Live(es[j]) /\ es[i].o = es[j].o => i = j
    PROVE  Books(es, OutpointsOf(es), IndexOf(es))
  BY DEF Books, OutpointsOf, IndexOf

\* Compaction keeps the live entries; when it drops none it changes nothing.
LEMMA CompactedBooks ==
    ASSUME NEW es, NEW known, NEW index, Books(es, known, index), NEW base, base = Compacted(es)
    PROVE  /\ Books(base, OutpointsOf(base), IndexOf(base)) /\ Held(base) \subseteq Held(es)
           /\ Len(base) = Len(es) => base = es
           /\ Paid(base) = {}
  <1>. DEFINE K == Kept(es)
              c == Cardinality(K)
              n == Len(es)
  <1>1. n \in Nat /\ K \in SUBSET (1..n)
    BY DEF Books, Kept
  <1>2. IsFiniteSet(1..n) /\ Cardinality(1..n) = n
    <2>. HIDE DEF n
    <2>. QED
      BY <1>1, FS_Interval
  <1>3. c \in Nat
    BY <1>1, <1>2, FS_Subset, FS_CardinalityType
  <1>4. base = [k \in 1..c |-> es[Nth(K, k)]]
    BY DEF Compacted
  <1>. HIDE DEF K, c, n
  <1>5. base \in Seq(ToSet(base)) /\ Len(base) = c
    <2>1. base = [k \in 1..c |-> base[k]]
      BY <1>4
    <2>. QED
      BY <1>3, <2>1, IsListed
  <1>6. \A k \in 1..c : Nth(K, k) \in K /\ Cardinality({j \in K : j <= Nth(K, k)}) = k
    BY <1>1, NthExists DEF c
  <1>7. \A k \in 1..c : base[k] = es[Nth(K, k)] /\ Nth(K, k) \in 1..n /\ Live(base[k]) /\ Formed(base[k])
    BY <1>1, <1>4, <1>6 DEF Books, K, Kept, n
  <1>8. ASSUME NEW k \in 1..c, NEW l \in 1..c, base[k].o = base[l].o PROVE k = l
    <2>1. Nth(K, k) = Nth(K, l)
      BY <1>7, <1>8 DEF Books, n
    <2>. QED
      BY <1>6, <2>1
  <1>9. Books(base, OutpointsOf(base), IndexOf(base))
    BY <1>5, <1>7, <1>8, RebuiltBooks
  <1>10. Held(base) \subseteq Held(es)
    <2>. SUFFICES ASSUME NEW k \in Kept(base) PROVE base[k].o \in Held(es)
      BY DEF Held
    <2>1. k \in 1..c
      BY <1>5 DEF Kept
    <2>. QED
      BY <1>6, <1>7, <2>1 DEF Held, K
  <1>11. ASSUME Len(base) = n PROVE base = es
    <2>1. c = n
      BY <1>5, <1>11
    <2>2. K = 1..n
      BY <1>1, <1>2, <2>1, FS_Subset DEF c
    <2>3. \A k \in 1..n : base[k] = es[k]
      BY <1>1, <1>4, <2>1, <2>2, NthOfAll
    <2>4. es = [k \in 1..n |-> es[k]] /\ base = [k \in 1..n |-> base[k]]
      BY <1>4, <2>1 DEF Books, n
    <2>. QED
      BY <2>3, <2>4
  <1>12. Paid(base) = {}
    BY <1>5, <1>7 DEF Paid, Live
  <1>. QED
    BY <1>9, <1>10, <1>11, <1>12 DEF n

\* An index that also finds a new entry, the n-th, of an output.
Grown(found, index, n, o) ==
    /\ found \in [Coinbase -> SUBSET (1..n)]
    /\ \A b \in Coinbase : index[b] \subseteq found[b] /\ (b = o => n \in found[b])

\* A new entry for an output that is not known.
LEMMA NewEntryBooks ==
    ASSUME NEW es, NEW known, NEW index, Books(es, known, index),
           NEW o \in Outpoints, o \notin known, NEW daa,
           NEW found, Grown(found, index, Len(es) + 1, o)
    PROVE  /\ Books(Append(es, NewEntry(o, daa)), known \cup {o}, found)
           /\ Held(Append(es, NewEntry(o, daa))) \subseteq Held(es) \cup {o}
           /\ Paid(Append(es, NewEntry(o, daa))) \subseteq Paid(es)
  <1>. DEFINE new == NewEntry(o, daa)
              fs == Append(es, new)
              n == Len(es)
  <1>1. n \in Nat /\ es \in Seq(ToSet(es) \cup {new})
    <2>1. es \in Seq(ToSet(es)) /\ ToSet(es) \subseteq ToSet(es) \cup {new}
      BY DEF Books
    <2>. HIDE DEF new
    <2>. QED
      BY <2>1, SeqMonotonic
  <1>2. Formed(new) /\ new.o = o /\ ~new.claimed
    BY DEF Formed, NewEntry, EntryFields
  <1>. HIDE DEF new, n
  <1>3. /\ Len(fs) = n + 1 /\ fs \in Seq(ToSet(es) \cup {new}) /\ fs[n + 1] = new
        /\ \A i \in 1..n : fs[i] = es[i]
    BY <1>1, AppendProperties DEF n
  <1>. HIDE DEF fs
  <1>4. fs \in Seq(ToSet(fs))
    <2>1. fs = [i \in 1..(n + 1) |-> fs[i]] /\ n + 1 \in Nat
      BY <1>1, <1>3
    <2>. QED
      BY <2>1, IsListed
  <1>5. \A i \in 1..(n + 1) : i \in 1..n \/ i = n + 1
    BY <1>1
  <1>6. \A i \in 1..(n + 1) : Formed(fs[i])
    BY <1>2, <1>3, <1>5 DEF Books, n
  <1>7. ASSUME NEW i \in 1..(n + 1), Live(fs[i])
        PROVE  fs[i].o \in known \cup {o} /\ (fs[i].o \in Coinbase => i \in found[fs[i].o])
    BY <1>2, <1>3, <1>5, <1>7 DEF Books, Grown, n
  <1>8. ASSUME NEW i \in 1..(n + 1), NEW j \in 1..(n + 1), Live(fs[i]), Live(fs[j]), fs[i].o = fs[j].o
        PROVE  i = j
    <2>1. \A k \in 1..n : Live(es[k]) => es[k].o # o
      BY DEF Books, n
    <2>2. CASE i \in 1..n /\ j \in 1..n
      BY <1>3, <1>8, <2>2 DEF Books, n
    <2>3. CASE i = n + 1 \/ j = n + 1
      BY <1>2, <1>3, <1>5, <1>8, <2>1, <2>3
    <2>. QED
      BY <1>5, <2>2, <2>3
  <1>9. Books(fs, known \cup {o}, found)
    BY <1>3, <1>4, <1>6, <1>7, <1>8 DEF Books, Grown, n
  <1>10. Held(fs) \subseteq Held(es) \cup {o}
    <2>. SUFFICES ASSUME NEW k \in 1..(n + 1), Live(fs[k]) PROVE fs[k].o \in Held(es) \cup {o}
      BY <1>3 DEF Held, Kept
    <2>. QED
      BY <1>2, <1>3, <1>5 DEF Held, Kept, n
  <1>11. Paid(fs) \subseteq Paid(es)
    <2>. SUFFICES ASSUME NEW k \in 1..(n + 1), fs[k].claimed PROVE fs[k].o \in Paid(es)
      BY <1>3 DEF Paid
    <2>. QED
      BY <1>2, <1>3, <1>5 DEF Paid, n
  <1>. QED
    BY <1>9, <1>10, <1>11 DEF fs, new

\* What on_chain_blocks_removed slashes, releases and leaves in the index.
Purge(es, index, removed, at, released, found) ==
    /\ removed \subseteq Coinbase
    /\ at = UNION {index[b] : b \in removed}
    /\ released = {es[i].o : i \in {j \in at : Live(es[j])}}
    /\ found = [b \in Coinbase |-> IF b \in removed THEN {} ELSE index[b]]

\* A block leaves the chain: its entries are purged, and what they held is released.
LEMMA ReleasedBooks ==
    ASSUME NEW es, NEW known, NEW index, Books(es, known, index), NEW removed, NEW at, NEW released, NEW found,
           Purge(es, index, removed, at, released, found)
    PROVE  /\ Books(SlashAt(es, at), known \ released, found)
           /\ Held(SlashAt(es, at)) \subseteq Held(es) \ removed
  <1>. DEFINE fs == SlashAt(es, at)
              n == Len(es)
  <1>0. /\ removed \subseteq Coinbase /\ at = UNION {index[b] : b \in removed}
        /\ released = {es[i].o : i \in {j \in at : Live(es[j])}}
        /\ found = [b \in Coinbase |-> IF b \in removed THEN {} ELSE index[b]]
    BY DEF Purge
  <1>1. Tamer(fs, es) /\ \A i \in 1..n : i \in at => ~Live(fs[i])
    BY SlashTames
  <1>. HIDE DEF fs
  <1>2. Books(fs, known, index) /\ Held(fs) \subseteq Held(es) /\ Len(fs) = n
    BY <1>1, TamerKeepsBooks
  <1>3. \A i \in 1..n : fs[i].o = es[i].o /\ (Live(fs[i]) => Live(es[i]))
    BY <1>1 DEF Tamer
  <1>4. at \subseteq 1..n
    BY <1>0 DEF Books
  <1>5. ASSUME NEW i \in 1..n, Live(fs[i])
        PROVE  /\ fs[i].o \in known \ released
               /\ fs[i].o \in Coinbase => i \in found[fs[i].o] /\ fs[i].o \notin removed
    <2>1. i \notin at /\ fs[i].o = es[i].o /\ Live(es[i])
      BY <1>1, <1>3, <1>5
    <2>2. es[i].o \in known /\ (es[i].o \in Coinbase => i \in index[es[i].o])
      BY <2>1 DEF Books
    <2>3. es[i].o \notin released
      BY <1>0, <1>4, <2>1 DEF Books
    <2>4. es[i].o \in Coinbase => es[i].o \notin removed
      BY <1>0, <2>1, <2>2
    <2>. QED
      BY <1>0, <2>1, <2>2, <2>3, <2>4
  <1>6. found \in [Coinbase -> SUBSET (1..n)]
    BY <1>0 DEF Books
  <1>7. Books(fs, known \ released, found)
    BY <1>2, <1>5, <1>6 DEF Books
  <1>8. Held(fs) \subseteq Held(es) \ removed
    BY <1>0, <1>2, <1>5 DEF Held, Kept
  <1>. QED
    BY <1>7, <1>8 DEF fs

\* handle_block: time-outs, compaction, red blocks, a new escrow and a claim leave the books right,
\* and bring no output to life but the one they track.
LEMMA HandlingKeepsBooks ==
    ASSUME Books(entries, outpoint_set, block_index), NEW daa, NEW compacting \in BOOLEAN,
           NEW reds \in SUBSET Coinbase, NEW new \in SUBSET Coinbase, new = {} \/ \E b : new = {b},
           HandleBlock(daa, compacting, reds, new)
    PROVE  /\ Books(entries', outpoint_set', block_index') /\ Held(entries') \subseteq Held(entries) \cup new
           /\ Paid(entries') \subseteq Paid(entries)
           /\ \E es : FindClaim(es, Awaited(daa), daa) /\ Len(es) \in Nat /\ Len(entries') = Len(es)
  <1>. DEFINE base    == IF compacting THEN Compacted(entries) ELSE entries
              rebuilt == Len(base) # Len(entries)
              index   == IF rebuilt THEN IndexOf(base) ELSE block_index
              known   == IF rebuilt THEN OutpointsOf(base) ELSE outpoint_set
              at      == UNION {index[b] : b \in reds}
              slashed == SlashAt(base, at)
              fresh   == new \ known
              es      == slashed \o SetToSeq({NewEntry(o, daa) : o \in fresh})
              found   == [b \in Coinbase |-> index[b] \cup (IF b \in fresh THEN {Len(es)} ELSE {})]
  <1>1. Books(base, known, index) /\ Held(base) \subseteq Held(entries) /\ Paid(base) \subseteq Paid(entries)
    BY CompactedBooks
  <1>2. /\ outpoint_set' = known \cup fresh /\ block_index' = found /\ FindClaim(es, Awaited(daa), daa)
    BY DEF HandleBlock
  <1>. HIDE DEF base, rebuilt, index, known
  <1>3. Books(slashed, known, index) /\ Held(slashed) \subseteq Held(base) /\ Paid(slashed) \subseteq Paid(base)
    <2>1. Tamer(slashed, base) /\ Paid(slashed) \subseteq Paid(base)
      BY <1>1, SlashTames
    <2>. HIDE DEF slashed
    <2>. QED
      BY <1>1, <2>1, TamerKeepsBooks
  <1>. HIDE DEF slashed, at
  <1>4. /\ Books(es, known \cup fresh, found) /\ Held(es) \subseteq Held(slashed) \cup new
        /\ Paid(es) \subseteq Paid(slashed)
    <2>. slashed \in Seq(ToSet(slashed)) /\ Len(slashed) \in Nat
      BY <1>3 DEF Books
    <2>1. CASE fresh = {}
      <3>1. {NewEntry(o, daa) : o \in fresh} = {}
        BY <2>1
      <3>2. es = slashed
        BY <3>1, ShortLists, ConcatEmptySeq
      <3>3. found = index
        BY <1>3, <2>1 DEF Books
      <3>. HIDE DEF es, found, fresh
      <3>. QED
        BY <1>3, <2>1, <3>2, <3>3
    <2>2. CASE fresh # {}
      <3>1. PICK b : new = {b} /\ fresh = {b} /\ b \in Coinbase /\ b \notin known
        BY <2>2
      <3>. DEFINE e == NewEntry(b, daa)
      <3>2. {NewEntry(o, daa) : o \in fresh} = {e}
        BY <3>1
      <3>3. es = slashed \o <<e>>
        BY <3>2, ShortLists
      <3>4. es = Append(slashed, e) /\ Len(es) = Len(slashed) + 1
        <4>. HIDE DEF e, es
        <4>1. slashed \in Seq(ToSet(slashed) \cup {e})
          BY SeqMonotonic
        <4>. QED
          BY <3>3, <4>1, AppendIsConcat, AppendProperties
      <3>5. Grown(found, index, Len(slashed) + 1, b)
        <4>. HIDE DEF es
        <4>. QED
          BY <1>3, <3>1, <3>4 DEF Books, Grown
      <3>. HIDE DEF found, es, fresh
      <3>6. /\ Books(es, known \cup {b}, found) /\ Held(es) \subseteq Held(slashed) \cup {b}
            /\ Paid(es) \subseteq Paid(slashed)
        <4>1. b \in Outpoints
          BY <3>1 DEF Outpoints
        <4>2. es = Append(slashed, NewEntry(b, daa))
          BY <3>4
        <4>. HIDE DEF e
        <4>3. /\ Books(Append(slashed, NewEntry(b, daa)), known \cup {b}, found)
              /\ Held(Append(slashed, NewEntry(b, daa))) \subseteq Held(slashed) \cup {b}
              /\ Paid(Append(slashed, NewEntry(b, daa))) \subseteq Paid(slashed)
          BY <1>3, <3>1, <3>5, <4>1, NewEntryBooks
        <4>. QED
          BY <4>2, <4>3
      <3>. QED
        BY <3>1, <3>6
    <2>. QED
      BY <2>1, <2>2
  <1>. HIDE DEF es, found, fresh
  <1>5. Tamer(entries', es) /\ Paid(entries') \subseteq Paid(es)
    <2>1. entries' = es \/ entries' = [i \in 1..Len(es) |-> Healed(es[i], daa)]
      BY Zenon, <1>2 DEF FindClaim
    <2>2. Tamer(es, es)
      BY <1>4 DEF Tamer, Books
    <2>. QED
      BY SMTT(60), <1>4, <2>1, <2>2, HealingTames
  <1>6. /\ Books(entries', known \cup fresh, found) /\ Held(entries') \subseteq Held(es)
        /\ Len(entries') = Len(es) /\ Len(es) \in Nat
    <2>1. Len(es) \in Nat
      BY <1>4 DEF Books
    <2>. QED
      BY <1>4, <1>5, <2>1, TamerKeepsBooks
  <1>7. Held(entries') \subseteq Held(entries) \cup new
    BY <1>1, <1>3, <1>4, <1>6
  <1>8. Paid(entries') \subseteq Paid(entries)
    BY <1>1, <1>3, <1>4, <1>5
  <1>. QED
    BY <1>2, <1>6, <1>7, <1>8

\* A rejection may give an entry up, and never brings one back.
LEMMA RejectionTames ==
    ASSUME NEW e, Formed(e), NEW msg, NEW n, NEW daa
    PROVE  /\ Formed(Rejected(e, msg, n, daa)) /\ Rejected(e, msg, n, daa).o = e.o
           /\ Rejected(e, msg, n, daa).claimed = e.claimed
           /\ e.slashed => Rejected(e, msg, n, daa).slashed
  <1>. DEFINE r == Rejected(e, msg, n, daa)
  <1>1. ASSUME NEW x, x = e \/ \E c, d : x = [e EXCEPT !.cap = c, !.capset = d]
        PROVE  DOMAIN x = EntryFields /\ x.o = e.o /\ x.claimed = e.claimed /\ x.slashed = e.slashed
    BY <1>1 DEF Formed, EntryFields
  <1>2. CASE msg.kind = "orphan" /\ n > 1
    <2>1. r = Capped(e, n, daa)
      BY <1>2 DEF Rejected
    <2>. HIDE DEF r
    <2>. QED
      BY <1>1, <2>1 DEF Capped, Formed, r
  <1>3. CASE msg.kind = "orphan" /\ n = 1
    <2>1. \/ r = [e EXCEPT !.retries = @ + 1, !.dead = FALSE, !.slashed = TRUE]
          \/ r = [e EXCEPT !.retries = @ + 1, !.dead = TRUE, !.after = daa + OrphanCooldown]
      BY <1>3 DEF Rejected
    <2>. HIDE DEF r
    <2>. QED
      BY <2>1 DEF Formed, EntryFields, r
  <1>4. CASE msg.kind = "seqlock"
    <2>1. r = [e EXCEPT !.after = daa + SeqLockCooldown]
      BY <1>4 DEF Rejected
    <2>. HIDE DEF r
    <2>. QED
      BY <2>1 DEF Formed, EntryFields, r
  <1>5. CASE msg.kind = "burned" /\ msg.named # {}
    <2>1. r = [e EXCEPT !.slashed = @ \/ e.o \in msg.named]
      BY <1>5 DEF Rejected
    <2>. HIDE DEF r
    <2>. QED
      BY <2>1 DEF Formed, EntryFields, r
  <1>6. CASE msg.kind = "burned" /\ msg.named = {}
    <2>1. r = Capped(e, n, daa) \/ r = [e EXCEPT !.slashed = TRUE]
      BY <1>6 DEF Rejected
    <2>. HIDE DEF r
    <2>. QED
      BY <1>1, <2>1 DEF Capped, Formed, EntryFields, r
  <1>7. CASE msg.kind \notin {"orphan", "seqlock", "burned"} \/ (msg.kind = "orphan" /\ ~(n > 1) /\ n # 1)
    <2>. DEFINE x == IF n > 1 THEN Capped(e, n, daa) ELSE e
    <2>1. r = [x EXCEPT !.submits = @ + 1, !.after = daa + Backoff(e.submits + 1)]
      BY <1>7 DEF Rejected
    <2>2. DOMAIN x = EntryFields /\ x.o = e.o /\ x.claimed = e.claimed /\ x.slashed = e.slashed
      BY <1>1 DEF Capped
    <2>. HIDE DEF r, x
    <2>. QED
      BY <2>1, <2>2 DEF Formed, EntryFields, r
  <1>. QED
    BY <1>2, <1>3, <1>4, <1>5, <1>6, <1>7
-----------------------------------------------------------------------------
(* Tracking *)

\* A message after the j-th takes the block off the chain.
Leaving(b, j, msgs) == \E k \in 1..Len(msgs) : k > j /\ msgs[k].kind = "chain" /\ b \in msgs[k].removed

WellFormed(m) ==
    /\ m.kind = "added" => m.reds \subseteq Coinbase
    /\ m.kind = "chain" => m.removed \subseteq Coinbase /\ m.added \subseteq Coinbase
    /\ m.kind = "block" => m.b \in Coinbase \ Unknown
    /\ m.kind = "unknown" => m.b \in Unknown

\* What the node said of a block still holds, or it has taken it back since.
SInv ==
    /\ asked \subseteq [b : Coinbase, full : BOOLEAN]
    /\ \A k \in 1..Len(inbox) : WellFormed(inbox[k])
    /\ \A k \in 1..Len(inbox) : inbox[k].kind = "block" /\ inbox[k].on_chain =>
                                    inbox[k].b \in chain \/ Leaving(inbox[k].b, k, inbox)

\* A block is on the chain, waits for its validation, or is known to leave.
Sure(b) == b \in chain \cup validation_pending \/ Leaving(b, 0, inbox)

TInv ==
    /\ SInv
    /\ Books(entries, outpoint_set, block_index)
    /\ \A b \in Held(entries) \ (Inference \cup Unknown) : Sure(b)

\* The invariant is stronger than the property.
LEMMA TrackedIsSure ==
    ASSUME TInv
    PROVE  TrackingMatchesChain
  <1>1. NoDoubleTracking
    BY DEF TInv, Books, NoDoubleTracking
  <1>2. ASSUME NEW i \in 1..Len(entries), Live(entries[i]), entries[i].o \in Coinbase \ Unknown
        PROVE  entries[i].o \in chain \cup validation_pending \/ News(entries[i].o)
    <2>1. entries[i].o \in Held(entries) \ (Inference \cup Unknown)
      BY <1>2, OutpointsAssumption DEF Held, Kept
    <2>2. Sure(entries[i].o)
      BY <2>1 DEF TInv
    <2>. QED
      BY <2>2 DEF Sure, Leaving, News
  <1>. QED
    BY <1>1, <1>2 DEF TrackingMatchesChain, LiveIsOnChain

LEMMA ReadKeepsStream ==
    ASSUME Listed, SInv, Read, chain' = chain, asked' \subseteq [b : Coinbase, full : BOOLEAN]
    PROVE  /\ SInv' /\ WellFormed(NextMsg)
           /\ NextMsg.kind = "block" /\ NextMsg.on_chain => NextMsg.b \in chain \/ Leaving(NextMsg.b, 0, inbox')
           /\ \A b : Leaving(b, 0, inbox) /\ (NextMsg.kind = "chain" => b \notin NextMsg.removed) => Leaving(b, 0, inbox')
  <1>0. /\ Len(inbox) \in Nat \ {0} /\ Len(inbox') = Len(inbox) - 1 /\ NextMsg = inbox[1]
        /\ \A k \in 1..Len(inbox') : inbox'[k] = inbox[k + 1] /\ k + 1 \in 1..Len(inbox)
    BY ReadEffect
  <1>1. ASSUME NEW b, NEW j \in Nat, Leaving(b, j + 1, inbox) PROVE Leaving(b, j, inbox')
    <2>1. PICK k \in 1..Len(inbox) : k > j + 1 /\ inbox[k].kind = "chain" /\ b \in inbox[k].removed
      BY <1>1 DEF Leaving
    <2>2. k - 1 \in 1..Len(inbox') /\ k - 1 > j /\ inbox'[k - 1] = inbox[k]
      BY <1>0, <2>1
    <2>. QED
      BY <2>1, <2>2 DEF Leaving
  <1>2. WellFormed(NextMsg) /\ \A k \in 1..Len(inbox') : WellFormed(inbox'[k])
    BY <1>0 DEF SInv
  <1>3. NextMsg.kind = "block" /\ NextMsg.on_chain => NextMsg.b \in chain \/ Leaving(NextMsg.b, 0, inbox')
    BY <1>0, <1>1 DEF SInv
  <1>4. ASSUME NEW k \in 1..Len(inbox'), inbox'[k].kind = "block", inbox'[k].on_chain
        PROVE  inbox'[k].b \in chain' \/ Leaving(inbox'[k].b, k, inbox')
    <2>1. inbox'[k].b \in chain \/ Leaving(inbox'[k].b, k + 1, inbox)
      BY <1>0, <1>4 DEF SInv
    <2>2. k \in Nat
      BY <1>0
    <2>. QED
      BY <1>1, <2>1, <2>2
  <1>5. SInv'
    BY <1>2, <1>4 DEF SInv, WellFormed
  <1>6. ASSUME NEW b, Leaving(b, 0, inbox), NextMsg.kind = "chain" => b \notin NextMsg.removed
        PROVE  Leaving(b, 0, inbox')
    <2>1. PICK k \in 1..Len(inbox) : k > 0 /\ inbox[k].kind = "chain" /\ b \in inbox[k].removed
      BY <1>6 DEF Leaving
    <2>2. k # 1
      BY <1>0, <1>6, <2>1
    <2>3. Leaving(b, 1, inbox)
      BY <2>1, <2>2 DEF Leaving
    <2>. QED
      BY <1>1, <2>3
  <1>. QED
    BY <1>2, <1>3, <1>5, <1>6

LEMMA SayKeepsStream ==
    ASSUME Listed, SInv, NEW msg, Say(msg), WellFormed(msg), asked' \subseteq [b : Coinbase, full : BOOLEAN],
           \A b \in chain \ chain' : msg.kind = "chain" /\ b \in msg.removed,
           msg.kind = "block" /\ msg.on_chain => msg.b \in chain'
    PROVE  SInv' /\ \A b : b \in chain \/ Leaving(b, 0, inbox) => b \in chain' \/ Leaving(b, 0, inbox')
  <1>0. /\ Len(inbox) \in Nat /\ Len(inbox') = Len(inbox) + 1 /\ inbox'[Len(inbox) + 1] = msg
        /\ \A k \in 1..Len(inbox) : inbox'[k] = inbox[k] /\ k \in 1..Len(inbox')
        /\ Len(inbox) + 1 \in 1..Len(inbox')
        /\ \A k \in 1..Len(inbox') : k \in 1..Len(inbox) \/ k = Len(inbox) + 1
    BY SayEffect
  <1>1. ASSUME NEW b, NEW j \in 0..Len(inbox), b \in chain \/ Leaving(b, j, inbox)
        PROVE  b \in chain' \/ Leaving(b, j, inbox')
    <2>1. CASE Leaving(b, j, inbox)
      <3>1. PICK k \in 1..Len(inbox) : k > j /\ inbox[k].kind = "chain" /\ b \in inbox[k].removed
        BY <2>1 DEF Leaving
      <3>. QED
        BY <1>0, <3>1 DEF Leaving
    <2>2. CASE b \in chain \ chain'
      <3>1. Len(inbox) + 1 > j
        BY <1>0
      <3>. QED
        BY <1>0, <2>2, <3>1 DEF Leaving
    <2>. QED
      BY <1>1, <2>1, <2>2
  <1>2. \A k \in 1..Len(inbox') : WellFormed(inbox'[k])
    BY <1>0 DEF SInv
  <1>3. ASSUME NEW k \in 1..Len(inbox'), inbox'[k].kind = "block", inbox'[k].on_chain
        PROVE  inbox'[k].b \in chain' \/ Leaving(inbox'[k].b, k, inbox')
    <2>1. CASE k \in 1..Len(inbox)
      <3>1. inbox'[k].b \in chain \/ Leaving(inbox'[k].b, k, inbox)
        BY <1>0, <1>3, <2>1 DEF SInv
      <3>2. k \in 0..Len(inbox)
        BY <2>1
      <3>. QED
        BY <1>1, <3>1, <3>2
    <2>2. CASE k = Len(inbox) + 1
      BY <1>0, <1>3, <2>2
    <2>. QED
      BY <1>0, <2>1, <2>2
  <1>4. SInv'
    BY <1>2, <1>3 DEF SInv, WellFormed
  <1>5. 0 \in 0..Len(inbox)
    BY <1>0
  <1>. QED
    BY <1>1, <1>4, <1>5

\* A connection asks for blocks.
LEMMA FirstAsked ==
    ASSUME NEW S \in SUBSET Coinbase, NEW order, order = SetToSeq(S), NEW first,
           first = IF Len(order) < ValidationWindow THEN Len(order) ELSE ValidationWindow
    PROVE  {Thin(order[k]) : k \in 1..first} \subseteq [b : Coinbase, full : BOOLEAN]
  <1>1. order \in Seq(S) /\ Len(order) \in Nat
    BY PendingIsFinite, SetToSeqLists
  <1>2. first \in Nat /\ first <= Len(order)
    BY <1>1, WindowAssumption
  <1>3. ASSUME NEW k \in 1..first PROVE Thin(order[k]) \in [b : Coinbase, full : BOOLEAN]
    <2>1. k \in 1..Len(order)
      BY <1>1, <1>2
    <2>2. order[k] \in Coinbase
      BY <1>1, <2>1
    <2>. QED
      BY <2>2 DEF Thin
  <1>. QED
    BY <1>3

\* The entries of the loaded state.
LEMMA LoadedEntries ==
    ASSUME Init
    PROVE  /\ entries \in Seq(ToSet(entries)) /\ Len(entries) \in Nat
           /\ \A i, j \in 1..Len(entries) : entries[i] = entries[j] => i = j
           /\ \A i \in 1..Len(entries) : Formed(entries[i]) /\ entries[i].o \in Ghosts
                                           /\ entries[i] = NewEntry(entries[i].o, 0) /\ ~entries[i].claimed
  <1>. DEFINE N == {NewEntry(o, 0) : o \in Ghosts}
              f == [o \in Ghosts |-> NewEntry(o, 0)]
  <1>1. Ghosts \in SUBSET Coinbase /\ IsFiniteSet(Ghosts)
    BY OutpointsAssumption, PendingIsFinite
  <1>2. IsFiniteSet(N)
    <2>1. f \in Surjection(Ghosts, N)
      BY DEF Surjection
    <2>. HIDE DEF f, N
    <2>. QED
      BY <1>1, <2>1, FS_Surjection
  <1>3. entries = SetToSeq(N)
    BY DEF Init
  <1>4. /\ entries \in Seq(N) /\ Len(entries) = Cardinality(N) /\ Len(entries) \in Nat
        /\ \A i, j \in 1..Len(entries) : entries[i] = entries[j] => i = j
    <2>. HIDE DEF N
    <2>. QED
      BY <1>2, <1>3, SetToSeqLists
  <1>5. \A i \in 1..Len(entries) : \E o \in Ghosts : entries[i] = NewEntry(o, 0)
    BY <1>4
  <1>6. \A i \in 1..Len(entries) : Formed(entries[i]) /\ entries[i].o \in Ghosts
                                   /\ entries[i] = NewEntry(entries[i].o, 0) /\ ~entries[i].claimed
    <2>1. \A o \in Ghosts : Formed(NewEntry(o, 0)) /\ NewEntry(o, 0).o = o /\ ~NewEntry(o, 0).claimed
      BY <1>1 DEF Formed, NewEntry, EntryFields, Outpoints
    <2>. QED
      BY <1>5, <2>1
  <1>7. entries \in Seq(ToSet(entries))
    <2>1. entries = [i \in 1..Len(entries) |-> entries[i]]
      BY <1>4
    <2>. QED
      BY <1>4, <2>1, IsListed
  <1>. QED
    BY <1>4, <1>6, <1>7

LEMMA TrackingInit ==
    ASSUME Init
    PROVE  TInv
  <1>1. Ghosts \in SUBSET Coinbase
    BY OutpointsAssumption
  <1>3. /\ outpoint_set = Ghosts /\ block_index = IndexOf(entries)
        /\ validation_pending = Ghosts /\ inbox = <<>>
    BY DEF Init
  <1>4. \A i, j \in 1..Len(entries) : entries[i] = entries[j] => i = j
    BY LoadedEntries
  <1>6. \A i \in 1..Len(entries) : Formed(entries[i]) /\ entries[i].o \in Ghosts
                                   /\ entries[i] = NewEntry(entries[i].o, 0)
    BY LoadedEntries
  <1>7. entries \in Seq(ToSet(entries))
    BY LoadedEntries
  <1>8. Books(entries, OutpointsOf(entries), IndexOf(entries))
    <2>1. \A i, j \in 1..Len(entries) : entries[i].o = entries[j].o => i = j
      BY <1>4, <1>6
    <2>. QED
      BY <1>6, <1>7, <2>1, RebuiltBooks
  <1>9. Books(entries, outpoint_set, block_index)
    BY <1>3, <1>6, <1>8 DEF Books
  <1>10. \A b \in Held(entries) : Sure(b)
    BY <1>3, <1>6 DEF Held, Kept, Sure
  <1>11. SInv
    <2>. DEFINE order == SetToSeq(Ghosts)
                first == IF Len(order) < ValidationWindow THEN Len(order) ELSE ValidationWindow
    <2>1. asked = {Thin(order[k]) : k \in 1..first}
      BY DEF Init
    <2>2. {Thin(order[k]) : k \in 1..first} \subseteq [b : Coinbase, full : BOOLEAN]
      <3>. HIDE DEF order, first
      <3>. QED
        BY <1>1, FirstAsked DEF order, first
    <2>3. asked \subseteq [b : Coinbase, full : BOOLEAN]
      BY <2>1, <2>2
    <2>. QED
      BY <1>3, <2>3 DEF SInv
  <1>. QED
    BY <1>9, <1>10, <1>11 DEF TInv

\* A message is read; every block with a live entry was sure, or is new and on the chain or leaving.
LEMMA ReadKeepsTracking ==
    ASSUME Listed, TInv, Read, chain' = chain, asked' \subseteq [b : Coinbase, full : BOOLEAN],
           Books(entries', outpoint_set', block_index'),
           \A b \in Held(entries') \ (Inference \cup Unknown) :
              \/ /\ b \in Held(entries)
                 /\ NextMsg.kind = "chain" => b \notin NextMsg.removed
                 /\ b \in validation_pending => b \in validation_pending'
              \/ b \in chain \/ Leaving(b, 0, inbox')
    PROVE  TInv'
  <1>1. SInv' /\ \A b : Leaving(b, 0, inbox) /\ (NextMsg.kind = "chain" => b \notin NextMsg.removed)
                            => Leaving(b, 0, inbox')
    BY ReadKeepsStream DEF TInv
  <1>2. ASSUME NEW b \in Held(entries') \ (Inference \cup Unknown) PROVE Sure(b)'
    <2>1. CASE b \in chain \/ Leaving(b, 0, inbox')
      BY <2>1 DEF Sure
    <2>2. CASE /\ b \in Held(entries)
               /\ NextMsg.kind = "chain" => b \notin NextMsg.removed
               /\ b \in validation_pending => b \in validation_pending'
      <3>1. Sure(b)
        BY <1>2, <2>2 DEF TInv
      <3>. QED
        BY <1>1, <2>2, <3>1 DEF Sure
    <2>. QED
      BY <1>2, <2>1, <2>2
  <1>3. \A b \in Held(entries)' \ (Inference \cup Unknown) : Sure(b)'
    BY <1>2 DEF Held, Kept, Live
  <1>. QED
    BY <1>1, <1>3 DEF TInv, Books, Formed, Live

\* The node says something: the watcher's books are as they were.
LEMMA SayKeepsTracking ==
    ASSUME Listed, TInv, NEW msg, Say(msg), WellFormed(msg), asked' \subseteq asked,
           UNCHANGED <<entries, outpoint_set, block_index, validation_pending>>,
           \A b \in chain \ chain' : msg.kind = "chain" /\ b \in msg.removed,
           msg.kind = "block" /\ msg.on_chain => msg.b \in chain'
    PROVE  TInv'
  <1>1. SInv' /\ \A b : b \in chain \/ Leaving(b, 0, inbox) => b \in chain' \/ Leaving(b, 0, inbox')
    <2>1. SInv /\ asked' \subseteq [b : Coinbase, full : BOOLEAN]
      BY DEF TInv, SInv
    <2>. QED
      BY <2>1, SayKeepsStream
  <1>2. \A b : Sure(b) => Sure(b)'
    BY <1>1 DEF Sure
  <1>. QED
    BY <1>1, <1>2 DEF TInv, Books, Formed, Live, Held, Kept

\* More blocks may be asked for.
LEMMA StillTracking ==
    ASSUME TInv, asked' \subseteq [b : Coinbase, full : BOOLEAN],
           UNCHANGED <<entries, outpoint_set, block_index, validation_pending, chain, inbox>>
    PROVE  TInv'
  <1>1. SInv' /\ \A b : Sure(b) => Sure(b)'
    BY DEF TInv, SInv, Sure, WellFormed
  <1>. QED
    BY <1>1 DEF TInv, Books, Formed, Live, Held, Kept

\* on_submit_response changes entries in place.
LEMMA SettlingTames ==
    ASSUME Books(entries, outpoint_set, block_index), OnSubmitResponse
    PROVE  Tamer(entries', entries)
  <1>. DEFINE t == NextMsg.txid
              done == NextMsg.kind \in Settling
              Settled(e) == IF done THEN [e EXCEPT !.claimed = TRUE] ELSE Rejected(e, NextMsg, Len(t), last_daa_score)
  <1>1. \A i \in 1..Len(entries) : Formed(entries[i])
    BY DEF Books
  <1>2. CASE entries' = entries
    BY <1>1, <1>2 DEF Tamer, Books
  <1>3. CASE entries' = [i \in 1..Len(entries) |->
                           IF i \in Found(entries, ToSet(t)) THEN Settled(entries[i]) ELSE entries[i]]
    <2>1. ASSUME NEW e, Formed(e)
          PROVE  Formed(Settled(e)) /\ Settled(e).o = e.o /\ (Live(Settled(e)) => Live(e))
      <3>1. CASE done
        BY <2>1, <3>1 DEF Formed, EntryFields, Live
      <3>2. CASE ~done
        <4>1. Settled(e) = Rejected(e, NextMsg, Len(t), last_daa_score)
          BY <3>2
        <4>. HIDE DEF Settled
        <4>. QED
          BY <2>1, <4>1, RejectionTames DEF Live
      <3>. QED
        BY <3>1, <3>2
    <2>. HIDE DEF Settled
    <2>. QED
      BY <1>1, <1>3, <2>1 DEF Tamer
  <1>. QED
    BY <1>2, <1>3 DEF OnSubmitResponse

\* What the watcher tracks stays what the chain has, whatever it reads and whatever the node does.
LEMMA TrackingStep ==
    ASSUME VInv, TInv, [Next]_vars
    PROVE  TInv'
  <1>0. /\ Listed /\ SInv /\ Books(entries, outpoint_set, block_index)
        /\ asked \subseteq [b : Coinbase, full : BOOLEAN]
        /\ validation_queue \in Seq(Coinbase)
    BY DEF VInv, TInv, SInv
  <1>1. CASE OnBlockAdded
    <2>1. /\ Read /\ NextMsg.kind = "added" /\ chain' = chain /\ asked' = asked
          /\ validation_pending' = validation_pending
          /\ \E daa \in Scores, compacting \in BOOLEAN : HandleBlock(daa, compacting, NextMsg.reds, {})
      BY <1>1 DEF OnBlockAdded, node
    <2>2. NextMsg.reds \in SUBSET Coinbase
      BY <1>0, <2>1, ReadKeepsStream DEF WellFormed
    <2>3. Books(entries', outpoint_set', block_index') /\ Held(entries') \subseteq Held(entries)
      <3>1. PICK daa \in Scores, compacting \in BOOLEAN : HandleBlock(daa, compacting, NextMsg.reds, {})
        BY <2>1
      <3>2. {} \in SUBSET Coinbase
        OBVIOUS
      <3>3. Books(entries', outpoint_set', block_index') /\ Held(entries') \subseteq Held(entries) \cup {}
        BY <1>0, <2>2, <3>1, <3>2, HandlingKeepsBooks
      <3>. QED
        BY <3>3
    <2>. QED
      BY <1>0, <2>1, <2>3, ReadKeepsTracking
  <1>2. CASE OnBlock
    <2>. DEFINE new == IF NextMsg.full /\ NextMsg.on_chain THEN {NextMsg.b} ELSE {}
    <2>1. /\ Read /\ NextMsg.kind = "block" /\ chain' = chain /\ asked' = asked
          /\ validation_pending' = validation_pending
          /\ \E daa \in Scores, compacting \in BOOLEAN : HandleBlock(daa, compacting, {}, new)
      BY <1>2 DEF OnBlock, node
    <2>2. /\ new \in SUBSET Coinbase /\ (new = {} \/ \E b : new = {b})
          /\ \A b \in new : b \in chain \/ Leaving(b, 0, inbox')
      BY <1>0, <2>1, ReadKeepsStream DEF WellFormed
    <2>. HIDE DEF new
    <2>3. Books(entries', outpoint_set', block_index') /\ Held(entries') \subseteq Held(entries) \cup new
      BY <1>0, <2>1, <2>2, HandlingKeepsBooks
    <2>. QED
      BY <1>0, <2>1, <2>2, <2>3, ReadKeepsTracking
  <1>3. ASSUME Pull PROVE asked' \subseteq [b : Coinbase, full : BOOLEAN]
    <2>1. CASE validation_queue = <<>>
      BY <1>0, <1>3, <2>1 DEF Pull
    <2>2. CASE validation_queue # <<>>
      <3>1. Head(validation_queue) \in Coinbase
        BY <1>0, <2>2
      <3>2. Thin(Head(validation_queue)) \in [b : Coinbase, full : BOOLEAN]
        BY <3>1 DEF Thin
      <3>3. asked' = asked \cup {Thin(Head(validation_queue))}
        BY <1>3, <2>2 DEF Pull
      <3>. QED
        BY <1>0, <3>2, <3>3
    <2>. QED
      BY <2>1, <2>2
  <1>4. CASE OnValidated
    <2>. DEFINE b == NextMsg.b
    <2>1. /\ Read /\ NextMsg.kind = "block" /\ chain' = chain /\ Pull
          /\ validation_pending' = validation_pending \ {b}
          /\ entries' = IF NextMsg.on_chain THEN entries ELSE SlashAt(entries, block_index[b])
          /\ UNCHANGED <<outpoint_set, block_index>>
      BY <1>4 DEF OnValidated, node
    <2>2. asked' \subseteq [b : Coinbase, full : BOOLEAN]
      BY <1>3, <2>1
    <2>3. b \in Coinbase /\ (NextMsg.on_chain => b \in chain \/ Leaving(b, 0, inbox'))
      BY <1>0, <2>1, <2>2, ReadKeepsStream DEF WellFormed
    <2>. HIDE DEF b
    <2>4. CASE NextMsg.on_chain
      <3>1. entries' = entries
        BY <2>1, <2>4
      <3>2. Books(entries', outpoint_set', block_index') /\ Held(entries') = Held(entries)
        BY <1>0, <2>1, <3>1
      <3>. QED
        BY <1>0, <2>1, <2>2, <2>3, <2>4, <3>2, ReadKeepsTracking
    <2>5. CASE ~NextMsg.on_chain
      <3>. DEFINE fs == SlashAt(entries, block_index[b])
      <3>1. entries' = fs
        BY <2>1, <2>5
      <3>2. Tamer(fs, entries) /\ \A i \in 1..Len(entries) : i \in block_index[b] => ~Live(fs[i])
        BY <1>0, SlashTames
      <3>. HIDE DEF fs
      <3>3. Books(fs, outpoint_set, block_index) /\ Held(fs) \subseteq Held(entries) /\ Len(fs) = Len(entries)
        BY <1>0, <3>2, TamerKeepsBooks
      <3>4. b \notin Held(fs)
        BY <2>3, <3>2, <3>3 DEF Books, Held, Kept
      <3>5. Books(entries', outpoint_set', block_index') /\ Held(entries') \subseteq Held(entries) \ {b}
        BY <2>1, <3>1, <3>3, <3>4
      <3>. QED
        BY <1>0, <2>1, <2>2, <3>5, ReadKeepsTracking
    <2>. QED
      BY <2>4, <2>5
  <1>5. CASE OnBlockError
    <2>1. /\ Read /\ NextMsg.kind = "unknown" /\ chain' = chain
          /\ validation_pending' = validation_pending \ {NextMsg.b}
          /\ UNCHANGED <<entries, outpoint_set, block_index>>
          /\ Pull \/ asked' = asked
      BY <1>5 DEF OnBlockError, node
    <2>2. asked' \subseteq [b : Coinbase, full : BOOLEAN]
      BY <1>0, <1>3, <2>1
    <2>3. NextMsg.b \in Unknown
      BY <1>0, <2>1, <2>2, ReadKeepsStream DEF WellFormed
    <2>4. Books(entries', outpoint_set', block_index') /\ Held(entries') = Held(entries)
      BY <1>0, <2>1
    <2>. QED
      BY <1>0, <2>1, <2>2, <2>3, <2>4, ReadKeepsTracking
  <1>6. CASE OnChainChanged
    <2>. DEFINE R == NextMsg.removed
                at == UNION {block_index[b] : b \in R}
    <2>1. /\ Read /\ NextMsg.kind = "chain" /\ chain' = chain
          /\ validation_pending' = validation_pending
          /\ entries' = SlashAt(entries, at) /\ outpoint_set' = outpoint_set \ Released(at)
          /\ block_index' = [b \in Coinbase |-> IF b \in R THEN {} ELSE block_index[b]]
          /\ asked' = asked \cup {[b |-> b, full |-> TRUE] : b \in NextMsg.added}
      BY <1>6 DEF OnChainChanged, node
    <2>2. R \in SUBSET Coinbase /\ NextMsg.added \subseteq Coinbase
      <3>1. WellFormed(inbox[1]) /\ NextMsg = inbox[1]
        BY <1>0, <2>1, ReadEffect DEF SInv
      <3>. QED
        BY <2>1, <3>1 DEF WellFormed
    <2>3. asked' \subseteq [b : Coinbase, full : BOOLEAN]
      <3>1. \A b \in NextMsg.added : [b |-> b, full |-> TRUE] \in [b : Coinbase, full : BOOLEAN]
        BY <2>2
      <3>. QED
        BY <1>0, <2>1, <3>1
    <2>. HIDE DEF R
    <2>4. Books(entries', outpoint_set', block_index') /\ Held(entries') \subseteq Held(entries) \ R
      <3>1. Purge(entries, block_index, R, at, Released(at), block_index')
        BY <2>1, <2>2 DEF Purge, Released
      <3>. HIDE DEF at
      <3>. QED
        BY <1>0, <2>1, <3>1, ReleasedBooks
    <2>. QED
      BY <1>0, <2>1, <2>3, <2>4, ReadKeepsTracking DEF R
  <1>7. CASE OnSubmitResponse
    <2>1. /\ Read /\ NextMsg.kind \in Replies /\ chain' = chain /\ asked' = asked
          /\ UNCHANGED <<outpoint_set, block_index, validation_pending>>
      BY <1>7 DEF OnSubmitResponse, node
    <2>2. Books(entries', outpoint_set', block_index') /\ Held(entries') \subseteq Held(entries)
      BY <1>0, <1>7, <2>1, SettlingTames, TamerKeepsBooks
    <2>3. NextMsg.kind # "chain"
      BY <2>1 DEF Replies
    <2>. QED
      BY <1>0, <2>1, <2>2, <2>3, ReadKeepsTracking
  <1>8. CASE \E o \in Inference : TrackInference(o)
    <2>1. PICK o \in Inference : TrackInference(o)
      BY <1>8
    <2>2. /\ o \notin outpoint_set /\ entries' = Append(entries, NewEntry(o, tip))
          /\ outpoint_set' = outpoint_set \cup {o}
          /\ UNCHANGED <<block_index, validation_pending, chain, asked, inbox>>
      BY <2>1 DEF TrackInference, node, stream
    <2>3. o \in Outpoints /\ o \notin Coinbase
      BY OutpointsAssumption DEF Outpoints
    <2>4. Grown(block_index, block_index, Len(entries) + 1, o)
      BY <1>0, <2>3 DEF Grown, Books
    <2>5. Books(entries', outpoint_set', block_index') /\ Held(entries') \subseteq Held(entries) \cup {o}
      BY <1>0, <2>2, <2>3, <2>4, NewEntryBooks
    <2>6. \A b \in Held(entries') \ (Inference \cup Unknown) : Sure(b)
      BY <2>5 DEF TInv
    <2>7. SInv' /\ \A b : Sure(b) => Sure(b)'
      BY <1>0, <2>2 DEF SInv, Sure, WellFormed
    <2>. QED
      BY <2>5, <2>6, <2>7 DEF TInv, Books, Formed, Live, Held, Kept
  <1>9. CASE Reconnect
    <2>. DEFINE S == Held(entries) \cap Coinbase
                order == SetToSeq(S)
                first == IF Len(order) < ValidationWindow THEN Len(order) ELSE ValidationWindow
    <2>1. /\ outpoint_set' = OutpointsOf(entries) /\ block_index' = IndexOf(entries) /\ validation_pending' = S
          /\ asked' = {Thin(order[k]) : k \in 1..first} /\ inbox' = <<>> /\ UNCHANGED <<entries, chain>>
      BY <1>9 DEF Reconnect, ConnectTo, Held, node
    <2>2. asked' \subseteq [b : Coinbase, full : BOOLEAN]
      <3>1. S \in SUBSET Coinbase
        OBVIOUS
      <3>. HIDE DEF S
      <3>2. {Thin(order[k]) : k \in 1..first} \subseteq [b : Coinbase, full : BOOLEAN]
        <4>. HIDE DEF order, first
        <4>. QED
          BY <3>1, FirstAsked DEF order, first
      <3>. QED
        BY <2>1, <3>2
    <2>. HIDE DEF order, first
    <2>3. Books(entries', outpoint_set', block_index')
      <3>1. Books(entries, OutpointsOf(entries), IndexOf(entries))
        BY <1>0, RebuiltBooks DEF Books
      <3>. QED
        BY <2>1, <3>1
    <2>4. SInv'
      BY <2>1, <2>2 DEF SInv
    <2>5. \A b \in Held(entries') \ (Inference \cup Unknown) : Sure(b)'
      <3>1. ASSUME NEW b \in Held(entries) \ Inference PROVE b \in Coinbase
        BY <1>0 DEF Held, Kept, Books, Formed, Outpoints
      <3>. QED
        BY <2>1, <3>1 DEF Sure
    <2>. QED
      BY <2>3, <2>4, <2>5 DEF TInv, Books, Formed, Live, Held, Kept
  <1>10. CASE NodeAddsBlock
    <2>1. PICK reds \in {{}} \cup {{b} : b \in Coinbase \ chain} : Say([kind |-> "added", reds |-> reds])
      BY <1>10 DEF NodeAddsBlock
    <2>. DEFINE msg == [kind |-> "added", reds |-> reds]
    <2>2. /\ Say(msg) /\ msg.kind = "added" /\ WellFormed(msg)
      BY <2>1 DEF WellFormed
    <2>3. UNCHANGED <<entries, outpoint_set, block_index, validation_pending, asked, chain>>
      BY <1>10 DEF NodeAddsBlock, watcher
    <2>. HIDE DEF msg
    <2>. QED
      BY <1>0, <2>2, <2>3, SayKeepsTracking
  <1>11. CASE \E removed, new \in SUBSET Coinbase : NodeChangesChain(removed, new)
    <2>1. PICK removed \in SUBSET Coinbase, new \in SUBSET Coinbase : NodeChangesChain(removed, new)
      BY <1>11
    <2>. DEFINE msg == [kind |-> "chain", removed |-> removed, added |-> new]
    <2>2. /\ Say(msg) /\ msg.kind = "chain" /\ WellFormed(msg) /\ msg.removed = removed
      BY <2>1 DEF WellFormed, NodeChangesChain
    <2>3. /\ UNCHANGED <<entries, outpoint_set, block_index, validation_pending, asked>>
          /\ chain' = (chain \ removed) \cup new
      BY <2>1 DEF NodeChangesChain, watcher
    <2>. HIDE DEF msg
    <2>4. \A b \in chain \ chain' : msg.kind = "chain" /\ b \in msg.removed
      BY <2>2, <2>3
    <2>. QED
      BY <1>0, <2>2, <2>3, <2>4, SayKeepsTracking
  <1>12. CASE \E q \in asked : NodeAnswersBlock(q)
    <2>1. PICK q \in asked : NodeAnswersBlock(q)
      BY <1>12
    <2>. DEFINE msg == IF q.b \in Unknown
                         THEN [kind |-> "unknown", b |-> q.b]
                         ELSE [kind |-> "block", b |-> q.b, full |-> q.full, on_chain |-> q.b \in chain]
    <2>2. /\ Say(msg) /\ asked' = asked \ {q}
          /\ UNCHANGED <<entries, outpoint_set, block_index, validation_pending, chain>>
      BY <2>1 DEF NodeAnswersBlock, watcher, node
    <2>3. q.b \in Coinbase
      BY <1>0
    <2>4. WellFormed(msg) /\ msg.kind # "chain" /\ (msg.kind = "block" /\ msg.on_chain => msg.b \in chain)
      <3>1. CASE q.b \in Unknown
        BY <2>3, <3>1 DEF WellFormed
      <3>2. CASE q.b \notin Unknown
        BY <2>3, <3>2 DEF WellFormed
      <3>. QED
        BY <3>1, <3>2
    <2>. HIDE DEF msg
    <2>. QED
      BY <1>0, <2>2, <2>4, SayKeepsTracking
  <1>13. CASE \E b \in Coinbase : ChainRestoreAsks(b)
    <2>1. PICK b \in Coinbase : ChainRestoreAsks(b)
      BY <1>13
    <2>2. /\ asked' = asked \cup {Thin(b)}
          /\ UNCHANGED <<entries, outpoint_set, block_index, validation_pending, chain, inbox>>
      BY <2>1 DEF ChainRestoreAsks, watcher, node
    <2>3. asked' \subseteq [b : Coinbase, full : BOOLEAN]
      <3>1. Thin(b) \in [b : Coinbase, full : BOOLEAN]
        BY DEF Thin
      <3>. QED
        BY <1>0, <2>2, <3>1
    <2>. QED
      BY <2>2, <2>3, StillTracking
  <1>14. CASE \E t \in submitted : NodeAnswersClaim(t)
    <2>0. PICK t \in submitted : NodeAnswersClaim(t)
      BY <1>14
    <2>1. PICK v \in Verdicts(t) : Say(v) \/ UNCHANGED inbox
      BY <2>0 DEF NodeAnswersClaim
    <2>2. UNCHANGED <<entries, outpoint_set, block_index, validation_pending, chain, asked>>
      BY <1>14 DEF NodeAnswersClaim, watcher
    <2>3. v.kind \in Replies
      BY <2>1, RejectionsAssumption DEF Verdicts, Replies
    <2>4. WellFormed(v) /\ v.kind \notin {"chain", "block"}
      BY <2>3 DEF WellFormed, Replies
    <2>5. CASE Say(v)
      BY <1>0, <2>2, <2>4, <2>5, SayKeepsTracking
    <2>6. CASE UNCHANGED inbox
      BY <1>0, <2>2, <2>6, StillTracking
    <2>. QED
      BY <2>1, <2>5, <2>6
  <1>15. CASE (\E o \in Outpoints : NodeBurns(o)) \/ UNCHANGED vars
    <2>1. UNCHANGED <<entries, outpoint_set, block_index, validation_pending, chain, inbox, asked>>
      BY <1>15 DEF NodeBurns, vars, watcher, node, stream
    <2>. QED
      BY <1>0, <2>1, StillTracking
  <1>. QED
    BY <1>1, <1>2, <1>4, <1>5, <1>6, <1>7, <1>8, <1>9, <1>10, <1>11, <1>12, <1>13, <1>14, <1>15
    DEF Next, WatcherNext, NodeNext

\* The watcher follows the chain: no output is counted twice, and a live coinbase entry is on the
\* selected chain unless its validation or its removal is on its way, or the node cannot say.
THEOREM TrackingFollowsChain == Spec => []TrackingMatchesChain
  <1>. DEFINE IInv == VInv /\ TInv
  <1>1. Init => IInv
    BY ValidationInit, TrackingInit
  <1>2. IInv /\ [Next]_vars => IInv'
    BY ValidationStep, TrackingStep
  <1>3. IInv => TrackingMatchesChain
    BY TrackedIsSure
  <1>. QED
    BY <1>1, <1>2, <1>3, PTL DEF Spec
-----------------------------------------------------------------------------
(* Payments *)

\* The node's acceptance of a claim, known to the mempool or on its way to the watcher, is behind
\* every entry marked claimed.
PInv ==
    /\ \A t \in accepted : ToSet(t) \subseteq spent
    /\ \A k \in 1..Len(inbox) : inbox[k].kind \in Settling => ToSet(inbox[k].txid) \subseteq spent
    /\ Paid(entries) \subseteq spent

LEMMA PaidIsSpent ==
    ASSUME PInv
    PROVE  ClaimedIsSpent
  BY DEF PInv, ClaimedIsSpent, Paid

\* The entries an answer settles are entries of outputs the claim spends.
LEMMA FoundIsNamed ==
    ASSUME NEW es, Len(es) \in Nat, NEW outs, NEW i \in 1..Len(es), i \in Found(es, outs)
    PROVE  es[i].o \in outs
  <1>1. PICK o \in outs : i = SelectInSeq(es, LAMBDA e : e.o = o)
    BY DEF Found
  <1>. DEFINE I == {j \in 1..Len(es) : es[j].o = o}
  <1>2. i = IF I # {} THEN Min(I) ELSE 0
    BY <1>1 DEF SelectInSeq
  <1>3. I # {} /\ i = Min(I)
    BY <1>2
  <1>4. I \in SUBSET Nat
    OBVIOUS
  <1>5. \E x \in I : \A y \in I : x <= y
    <2>. HIDE DEF I
    <2>. QED
      BY <1>3, <1>4, LeastNatural
  <1>6. i \in I
    BY <1>3, <1>5 DEF Min
  <1>. QED
    BY <1>6

\* A message is read, and no entry becomes claimed but of an output that is spent.
LEMMA ReadKeepsPayments ==
    ASSUME Listed, PInv, Read, UNCHANGED <<spent, accepted>>, Paid(entries') \subseteq Paid(entries) \cup spent
    PROVE  PInv'
  <1>1. /\ Len(inbox) \in Nat \ {0} /\ Len(inbox') = Len(inbox) - 1
        /\ \A k \in 1..Len(inbox') : inbox'[k] = inbox[k + 1]
    BY ReadEffect
  <1>2. \A k \in 1..Len(inbox') : inbox'[k].kind \in Settling => ToSet(inbox'[k].txid) \subseteq spent
    BY <1>1 DEF PInv
  <1>. QED
    BY <1>2 DEF PInv, Paid, Settling, ToSet

\* The node says something, and an answer that settles a claim comes after its outputs are spent.
LEMMA SayKeepsPayments ==
    ASSUME Listed, PInv, NEW msg, Say(msg), UNCHANGED entries, spent \subseteq spent',
           \A t \in accepted' : ToSet(t) \subseteq spent',
           msg.kind \in Settling => ToSet(msg.txid) \subseteq spent'
    PROVE  PInv'
  <1>1. /\ Len(inbox) \in Nat /\ Len(inbox') = Len(inbox) + 1
        /\ \A k \in 1..Len(inbox) : inbox'[k] = inbox[k]
        /\ inbox'[Len(inbox) + 1] = msg
    BY SayEffect
  <1>2. ASSUME NEW k \in 1..Len(inbox'), inbox'[k].kind \in Settling
        PROVE  ToSet(inbox'[k].txid) \subseteq spent'
    <2>1. CASE k \in 1..Len(inbox)
      BY <1>1, <1>2, <2>1 DEF PInv
    <2>2. CASE k = Len(inbox) + 1
      BY <1>1, <1>2, <2>2
    <2>. QED
      BY <1>1, <2>1, <2>2
  <1>. QED
    BY <1>2 DEF PInv, Paid, Settling, ToSet

\* The stream may be cut, and the node may burn outputs.
LEMMA StillPaid ==
    ASSUME PInv, inbox' = inbox \/ inbox' = <<>>, spent \subseteq spent',
           \A t \in accepted' : ToSet(t) \subseteq spent', Paid(entries') \subseteq Paid(entries)
    PROVE  PInv'
  <1>1. \A k \in 1..Len(inbox') : inbox'[k].kind \in Settling => ToSet(inbox'[k].txid) \subseteq spent'
    BY DEF PInv
  <1>. QED
    BY <1>1 DEF PInv, Paid, Settling, ToSet

LEMMA PaymentsInit ==
    ASSUME Init
    PROVE  PInv
  <1>1. accepted = {} /\ inbox = <<>>
    BY DEF Init
  <1>2. \A i \in 1..Len(entries) : ~entries[i].claimed
    BY LoadedEntries
  <1>. QED
    BY <1>1, <1>2 DEF PInv, Paid

\* No step of the watcher or of the node marks an output claimed that is not spent.
LEMMA PaymentsStep ==
    ASSUME VInv, TInv, PInv, [Next]_vars
    PROVE  PInv'
  <1>0. /\ Listed /\ SInv /\ Books(entries, outpoint_set, block_index) /\ Len(entries) \in Nat
        /\ asked \subseteq [b : Coinbase, full : BOOLEAN]
    BY DEF VInv, TInv, SInv, Books
  <1>1. ASSUME Read PROVE WellFormed(NextMsg)
    BY <1>0, <1>1, ReadEffect DEF SInv
  <1>2. CASE OnBlockAdded
    <2>1. PICK daa \in Scores, compacting \in BOOLEAN : HandleBlock(daa, compacting, NextMsg.reds, {})
      BY <1>2 DEF OnBlockAdded
    <2>2. Read /\ UNCHANGED <<spent, accepted>> /\ NextMsg.reds \in SUBSET Coinbase /\ {} \in SUBSET Coinbase
      BY <1>1, <1>2 DEF OnBlockAdded, node, WellFormed
    <2>3. Paid(entries') \subseteq Paid(entries)
      BY <1>0, <2>1, <2>2, HandlingKeepsBooks
    <2>. QED
      BY <1>0, <2>2, <2>3, ReadKeepsPayments
  <1>3. CASE OnBlock
    <2>. DEFINE new == IF NextMsg.full /\ NextMsg.on_chain THEN {NextMsg.b} ELSE {}
    <2>1. PICK daa \in Scores, compacting \in BOOLEAN : HandleBlock(daa, compacting, {}, new)
      BY <1>3 DEF OnBlock
    <2>2. /\ Read /\ UNCHANGED <<spent, accepted>> /\ {} \in SUBSET Coinbase
          /\ new \in SUBSET Coinbase /\ (new = {} \/ \E b : new = {b})
      BY <1>1, <1>3 DEF OnBlock, node, WellFormed
    <2>. HIDE DEF new
    <2>3. Paid(entries') \subseteq Paid(entries)
      BY <1>0, <2>1, <2>2, HandlingKeepsBooks
    <2>. QED
      BY <1>0, <2>2, <2>3, ReadKeepsPayments
  <1>4. CASE OnValidated \/ OnBlockError \/ OnChainChanged
    <2>1. Read /\ UNCHANGED <<spent, accepted>> /\ (entries' = entries \/ \E at : entries' = SlashAt(entries, at))
      BY <1>4 DEF OnValidated, OnBlockError, OnChainChanged, node
    <2>2. Paid(entries') \subseteq Paid(entries)
      BY <1>0, <2>1, SlashTames
    <2>. QED
      BY <1>0, <2>1, <2>2, ReadKeepsPayments
  <1>5. CASE OnSubmitResponse
    <2>. DEFINE t == NextMsg.txid
                done == NextMsg.kind \in Settling
                Settled(e) == IF done THEN [e EXCEPT !.claimed = TRUE]
                                      ELSE Rejected(e, NextMsg, Len(t), last_daa_score)
    <2>1. Read /\ UNCHANGED <<spent, accepted>>
      BY <1>5 DEF OnSubmitResponse, node
    <2>2. done => ToSet(t) \subseteq spent
      BY <1>0, <2>1, ReadEffect DEF PInv
    <2>3. ASSUME NEW i \in 1..Len(entries), entries'[i].claimed
          PROVE  entries'[i].o \in Paid(entries) \cup spent
      <3>1. entries'[i].o = entries[i].o /\ Formed(entries[i])
        BY <1>0, <1>5, SettlingTames DEF Tamer, Books
      <3>2. CASE entries[i].claimed
        BY <3>1, <3>2 DEF Paid
      <3>3. CASE ~entries[i].claimed
        <4>1. i \in Found(entries, ToSet(t)) /\ entries'[i] = Settled(entries[i])
          BY <1>5, <2>3, <3>3 DEF OnSubmitResponse
        <4>2. done
          <5>1. ~Rejected(entries[i], NextMsg, Len(t), last_daa_score).claimed
            BY <3>1, <3>3, RejectionTames
          <5>. QED
            BY <2>3, <4>1, <5>1
        <4>3. entries[i].o \in ToSet(t)
          BY <1>0, <4>1, FoundIsNamed
        <4>. QED
          BY <2>2, <3>1, <4>2, <4>3
      <3>. QED
        BY <3>2, <3>3
    <2>4. Len(entries') = Len(entries)
      BY <1>0, <1>5, SettlingTames, TamerKeepsBooks
    <2>5. Paid(entries') \subseteq Paid(entries) \cup spent
      BY <2>3, <2>4 DEF Paid
    <2>. QED
      BY <1>0, <2>1, <2>5, ReadKeepsPayments
  <1>6. CASE \E o \in Inference : TrackInference(o)
    <2>1. PICK o \in Inference : TrackInference(o)
      BY <1>6
    <2>2. /\ o \notin outpoint_set /\ entries' = Append(entries, NewEntry(o, tip))
          /\ UNCHANGED <<inbox, spent, accepted>>
      BY <2>1 DEF TrackInference, node, stream
    <2>3. o \in Outpoints /\ Grown(block_index, block_index, Len(entries) + 1, o)
      BY <1>0, OutpointsAssumption DEF Grown, Books, Outpoints
    <2>4. Paid(entries') \subseteq Paid(entries)
      BY <1>0, <2>2, <2>3, NewEntryBooks
    <2>5. \A t \in accepted' : ToSet(t) \subseteq spent'
      BY <2>2 DEF PInv
    <2>. QED
      BY <2>2, <2>4, <2>5, StillPaid
  <1>7. CASE Reconnect \/ (\E b \in Coinbase : ChainRestoreAsks(b)) \/ (\E o \in Outpoints : NodeBurns(o)) \/ UNCHANGED vars
    <2>1. UNCHANGED <<entries, spent, accepted>> /\ (inbox' = inbox \/ inbox' = <<>>)
      BY <1>7 DEF Reconnect, ChainRestoreAsks, NodeBurns, vars, watcher, node, stream
    <2>2. (\A t \in accepted' : ToSet(t) \subseteq spent') /\ Paid(entries') \subseteq Paid(entries)
      BY <2>1 DEF PInv
    <2>. QED
      BY <2>1, <2>2, StillPaid
  <1>8. CASE \/ NodeAddsBlock
             \/ \E removed, new \in SUBSET Coinbase : NodeChangesChain(removed, new)
             \/ \E q \in asked : NodeAnswersBlock(q)
    <2>1. PICK msg : Say(msg) /\ msg.kind \in {"added", "chain", "unknown", "block"}
      <3>1. CASE NodeAddsBlock
        <4>1. PICK reds : Say([kind |-> "added", reds |-> reds])
          BY <3>1 DEF NodeAddsBlock
        <4>. QED
          BY <4>1
      <3>2. CASE \E removed, new \in SUBSET Coinbase : NodeChangesChain(removed, new)
        <4>1. PICK removed, new : Say([kind |-> "chain", removed |-> removed, added |-> new])
          BY <3>2 DEF NodeChangesChain
        <4>. QED
          BY <4>1
      <3>3. CASE \E q \in asked : NodeAnswersBlock(q)
        <4>1. PICK q : Say(IF q.b \in Unknown
                             THEN [kind |-> "unknown", b |-> q.b]
                             ELSE [kind |-> "block", b |-> q.b, full |-> q.full, on_chain |-> q.b \in chain])
          BY <3>3 DEF NodeAnswersBlock
        <4>2. CASE q.b \in Unknown
          BY <4>1, <4>2
        <4>3. CASE q.b \notin Unknown
          BY <4>1, <4>3
        <4>. QED
          BY <4>2, <4>3
      <3>. QED
        BY <1>8, <3>1, <3>2, <3>3
    <2>2. UNCHANGED <<entries, spent, accepted>> /\ msg.kind \notin Settling
      BY <1>8, <2>1 DEF NodeAddsBlock, NodeChangesChain, NodeAnswersBlock, watcher, node, Settling
    <2>3. \A t \in accepted' : ToSet(t) \subseteq spent'
      BY <2>2 DEF PInv
    <2>. QED
      BY <1>0, <2>1, <2>2, <2>3, SayKeepsPayments
  <1>9. CASE \E t \in submitted : NodeAnswersClaim(t)
    <2>1. PICK t \in submitted : NodeAnswersClaim(t)
      BY <1>9
    <2>2. PICK v \in Verdicts(t) :
             /\ spent' = IF v.kind = "ok" THEN spent \cup ToSet(t) ELSE spent
             /\ accepted' = IF v.kind = "ok" THEN accepted \cup {t} ELSE accepted
             /\ Say(v) \/ UNCHANGED inbox
      BY <2>1 DEF NodeAnswersClaim
    <2>3. entries' = entries
      BY <2>1 DEF NodeAnswersClaim, watcher
    <2>4. spent \subseteq spent' /\ \A u \in accepted' : ToSet(u) \subseteq spent'
      BY <2>2 DEF PInv
    <2>5. v.txid = t /\ (v.kind = "duplicate" => t \in accepted)
      BY <2>2, RejectionsAssumption DEF Verdicts
    <2>6. v.kind \in Settling => ToSet(v.txid) \subseteq spent'
      BY <2>2, <2>5 DEF PInv, Settling
    <2>7. CASE Say(v)
      BY <1>0, <2>3, <2>4, <2>6, <2>7, SayKeepsPayments
    <2>8. CASE UNCHANGED inbox
      BY <2>3, <2>4, <2>8, StillPaid
    <2>. QED
      BY <2>2, <2>7, <2>8
  <1>. QED
    BY <1>2, <1>3, <1>4, <1>5, <1>6, <1>7, <1>8, <1>9 DEF Next, WatcherNext, NodeNext

\* The watcher marks an output claimed only when a claim of it was accepted: through answers that
\* are lost, late or repeated, retries and reconnections, and whatever entries share an output.
THEOREM PaymentsAreReal == Spec => []ClaimedIsSpent
  <1>. DEFINE IInv == VInv /\ TInv /\ PInv
  <1>1. Init => IInv
    BY ValidationInit, TrackingInit, PaymentsInit
  <1>2. IInv /\ [Next]_vars => IInv'
    BY ValidationStep, TrackingStep, PaymentsStep
  <1>3. IInv => ClaimedIsSpent
    BY PaidIsSpent
  <1>. QED
    BY <1>1, <1>2, <1>3, PTL DEF Spec
-----------------------------------------------------------------------------
(* Claims in flight *)

\* A claim spends different outputs.
Claim(t) == t \in Seq(Outpoints) /\ \A k, l \in 1..Len(t) : t[k] = t[l] => k = l

Disjoint(claims) == \A t, u \in claims : t # u => ToSet(t) \cap ToSet(u) = {}

FInv ==
    /\ \A t \in DOMAIN in_flight \cup submitted : Claim(t)
    /\ Disjoint(DOMAIN in_flight)
    /\ in_flight_outpoints = Spending(DOMAIN in_flight)

LEMMA InFlightIsExact ==
    ASSUME FInv
    PROVE  InFlightExact
  <1>1. ASSUME NEW t \in DOMAIN in_flight PROVE Cardinality(ToSet(t)) = Len(t)
    <2>1. /\ t \in Seq(Outpoints) /\ \A k, l \in 1..Len(t) : t[k] = t[l] => k = l
      BY DEF FInv, Claim
    <2>2. Len(t) \in Nat /\ DOMAIN t = 1..Len(t) /\ t \in [1..Len(t) -> ToSet(t)]
      BY <2>1 DEF ToSet
    <2>3. t \in Injection(1..Len(t), ToSet(t))
      BY <2>1, <2>2 DEF Injection, IsInjective
    <2>4. t \in Surjection(1..Len(t), ToSet(t))
      BY <2>2 DEF Surjection, ToSet
    <2>5. t \in Bijection(1..Len(t), ToSet(t))
      BY <2>3, <2>4 DEF Bijection
    <2>6. IsFiniteSet(1..Len(t)) /\ Cardinality(1..Len(t)) = Len(t)
      <3>1. PICK m \in Nat : m = Len(t)
        BY <2>2
      <3>2. IsFiniteSet(1..m) /\ Cardinality(1..m) = m
        <4>1. 1 \in Int /\ m \in Int /\ ~(1 > m + 1)
          OBVIOUS
        <4>. QED
          BY <4>1, FS_Interval
      <3>. QED
        BY SMTT(60), <3>1, <3>2
    <2>7. ExistsBijection(1..Len(t), ToSet(t))
      BY <2>5 DEF ExistsBijection
    <2>. QED
      BY <2>6, <2>7, FS_Bijection
  <1>. QED
    BY <1>1 DEF FInv, Disjoint, InFlightExact

\* Dropping disjoint claims leaves what the others spend.
LEMMA SpendingLess ==
    ASSUME NEW claims, Disjoint(claims), NEW some \in SUBSET claims
    PROVE  Spending(claims) \ Spending(claims \ some) = Spending(some)
  BY DEF Disjoint, Spending

\* find_claim: a new claim spends different outputs, and none that is in flight.
LEMMA FindKeepsInFlight ==
    ASSUME FInv, NEW known, NEW index, Books(entries', known, index),
           NEW es, Len(es) \in Nat, Len(entries') = Len(es), NEW waiting \in SUBSET (DOMAIN in_flight), NEW daa,
           FindClaim(es, waiting, daa)
    PROVE  FInv' /\ (submitted' = submitted \/ validation_pending = {})
  <1>. DEFINE n      == Len(es)
              flying == Spending(waiting)
              open   == Cardinality(waiting) < MaxInFlightClaims /\ validation_pending = {}
              view   == [i \in 1..n |-> View(entries'[i], daa, flying)]
              batch  == IF open THEN SelectClaimBatch(view, CurrentWindow(daa)) ELSE <<>>
              txid   == [k \in 1..Len(batch) |-> entries'[batch[k]].o]
              claims == waiting \cup (IF Buildable(txid) THEN {txid} ELSE {})
  <1>1. /\ in_flight' = [t \in claims |-> IF t \in waiting THEN in_flight[t] ELSE daa]
        /\ in_flight_outpoints' = (in_flight_outpoints \ Spending(DOMAIN in_flight \ waiting)) \cup Spending(claims \ waiting)
        /\ submitted' = submitted \cup (claims \ waiting)
    <2>. DEFINE healed == IF open THEN [i \in 1..Len(es) |-> Healed(es[i], daa)] ELSE es
                seen   == [i \in 1..Len(es) |-> View(healed[i], daa, flying)]
                taken  == IF open THEN SelectClaimBatch(seen, CurrentWindow(daa)) ELSE <<>>
                tx     == [k \in 1..Len(taken) |-> healed[taken[k]].o]
                all    == waiting \cup (IF Buildable(tx) THEN {tx} ELSE {})
    <2>1. /\ entries' = healed
          /\ in_flight' = [t \in all |-> IF t \in waiting THEN in_flight[t] ELSE daa]
          /\ in_flight_outpoints' = (in_flight_outpoints \ Spending(DOMAIN in_flight \ waiting)) \cup Spending(all \ waiting)
          /\ submitted' = submitted \cup (all \ waiting)
      BY Zenon DEF FindClaim
    <2>. HIDE DEF healed, open, flying
    <2>2. view = seen
      BY <2>1
    <2>3. batch = taken
      <3>. HIDE DEF view, seen
      <3>. QED
        BY <2>2
    <2>4. txid = tx
      <3>. HIDE DEF batch, taken
      <3>. QED
        BY <2>1, <2>3
    <2>5. claims = all
      <3>. HIDE DEF txid, tx
      <3>. QED
        BY <2>4
    <2>. HIDE DEF claims, all
    <2>. QED
      BY <2>1, <2>5
  <1>2. Len(view) = n /\ \A i \in 1..n : view[i].ready => Live(entries'[i]) /\ entries'[i].o \notin flying
    BY DEF View
  <1>. HIDE DEF view, flying
  <1>3. Once(batch, n) /\ \A k \in 1..Len(batch) : view[batch[k]].ready
    <2>1. CASE open
      <3>1. batch = SelectClaimBatch(view, CurrentWindow(daa))
        BY <2>1
      <3>. HIDE DEF batch, open
      <3>. QED
        BY <1>2, <3>1, SelectionOnce DEF SpendsOnce
    <2>2. CASE ~open
      <3>1. batch = <<>>
        BY <2>2
      <3>. HIDE DEF batch, open
      <3>. QED
        BY <3>1 DEF Once
    <2>. QED
      BY <2>1, <2>2
  <1>4. ~open => txid = <<>>
    OBVIOUS
  <1>. HIDE DEF batch
  <1>5. /\ Len(batch) \in Nat /\ \A k \in 1..Len(batch) : batch[k] \in 1..n
        /\ \A k, l \in 1..Len(batch) : batch[k] = batch[l] => k = l
    BY <1>3 DEF Once
  <1>6. \A k \in 1..Len(batch) : txid[k] = entries'[batch[k]].o /\ Live(entries'[batch[k]])
                                /\ txid[k] \in Outpoints \ flying
    BY <1>2, <1>3, <1>5 DEF Books, Formed
  <1>7. txid \in Seq(Outpoints) /\ Len(txid) = Len(batch)
    <2>1. txid \in [1..Len(batch) -> Outpoints]
      BY <1>6
    <2>. HIDE DEF txid
    <2>. QED
      BY <1>5, <2>1
  <1>. HIDE DEF txid
  <1>8. Claim(txid)
    <2>1. ASSUME NEW k \in 1..Len(batch), NEW l \in 1..Len(batch), txid[k] = txid[l] PROVE k = l
      <3>1. batch[k] = batch[l]
        BY SMTT(60), <1>5, <1>6, <2>1 DEF Books
      <3>. QED
        BY <1>5, <3>1
    <2>. QED
      BY <1>7, <2>1 DEF Claim
  <1>9. ToSet(txid) \cap flying = {}
    BY <1>6, <1>7 DEF ToSet
  <1>10. claims \subseteq waiting \cup {txid} /\ waiting \subseteq claims /\ DOMAIN in_flight' = claims
    BY <1>1
  <1>11. submitted' = submitted \/ validation_pending = {}
    <2>1. ~open => claims = waiting
      BY <1>4 DEF Buildable
    <2>. QED
      BY <1>1, <2>1
  <1>. HIDE DEF claims, open
  <1>12. \A t \in DOMAIN in_flight' \cup submitted' : Claim(t)
    BY <1>1, <1>8, <1>10 DEF FInv
  <1>13. Disjoint(claims)
    <2>1. \A t \in waiting : ToSet(t) \cap ToSet(txid) = {}
      BY <1>9 DEF flying, Spending
    <2>. QED
      BY <1>10, <2>1 DEF Disjoint, FInv
  <1>14. in_flight_outpoints' = Spending(claims)
    <2>1. in_flight_outpoints \ Spending(DOMAIN in_flight \ waiting) = Spending(waiting)
      BY SpendingLess DEF FInv
    <2>2. Spending(waiting) \cup Spending(claims \ waiting) = Spending(claims)
      BY <1>10 DEF Spending
    <2>. QED
      BY <1>1, <2>1, <2>2
  <1>15. FInv'
    BY <1>10, <1>12, <1>13, <1>14 DEF FInv, Disjoint, Spending, ToSet, Claim, Outpoints
  <1>. QED
    BY <1>11, <1>15
-----------------------------------------------------------------------------
(* What is given up *)

Removes(m, o) == m.kind = "chain" /\ o \in m.removed

\* By the time the k-th message is read the watcher has no live entry of an output: a removal is
\* read before it, after anything that could track the output.
Gone(o, k, msgs, held) ==
    /\ o \in held \ Unknown => \E j \in 1..(k - 1) : Removes(msgs[j], o)
    /\ \A j \in 1..(k - 1) : msgs[j].kind = "block" /\ msgs[j].on_chain /\ msgs[j].b = o =>
                               \E l \in (j + 1)..(k - 1) : Removes(msgs[l], o)

\* What a rejection says of the outputs of its claim.
Justified(m, k, msgs, held, paid, lostForGood) ==
    /\ m.kind \in {"orphan", "burned"} => m.txid \in Seq(Outpoints)
    /\ m.kind = "burned" => m.named \subseteq lostForGood /\ ToSet(m.txid) \cap lostForGood # {}
    /\ m.kind = "orphan" /\ Len(m.txid) = 1 =>
          \/ m.txid[1] \in paid \cup lostForGood
          \/ m.txid[1] \in Coinbase /\ Gone(m.txid[1], k, msgs, held)

LInv ==
    /\ validation_pending # {} => submitted = {}
    /\ chain \cap Ghosts = {}
    /\ Held(entries) \cap Unknown \subseteq Ghosts
    /\ \A k \in 1..Len(inbox) : Justified(inbox[k], k, inbox, Held(entries), spent, burned)

Handles == OnBlockAdded \/ OnBlock \/ OnValidated \/ OnBlockError \/ OnChainChanged \/ OnSubmitResponse

\* The output a message may bring to life.
Brought == IF NextMsg.kind = "block" /\ NextMsg.on_chain THEN {NextMsg.b} ELSE {}

\* What reading a message does to the entries and to the claims.
Handled ==
    /\ Read /\ UNCHANGED <<chain, spent, burned, accepted>>
    /\ Held(entries') \subseteq Held(entries) \cup Brought
    /\ \A o \in Held(entries') : ~Removes(NextMsg, o)
    /\ FInv'
    /\ submitted' = submitted \/ validation_pending = {}
    /\ validation_pending' \subseteq validation_pending

\* handle_block on a block that is given to the watcher.
LEMMA BlockIsHandled ==
    ASSUME TInv, FInv, Read, NextMsg.kind # "chain", UNCHANGED <<node, validation_pending>>,
           NEW reds \in SUBSET Coinbase, NEW new \in SUBSET Coinbase, new = {} \/ \E b : new = {b},
           new \subseteq Brought,
           \E daa \in Scores, compacting \in BOOLEAN : HandleBlock(daa, compacting, reds, new)
    PROVE  Handled
  <1>1. PICK daa \in Scores, compacting \in BOOLEAN : HandleBlock(daa, compacting, reds, new)
    OBVIOUS
  <1>2. Books(entries, outpoint_set, block_index)
    BY DEF TInv
  <1>3. /\ Books(entries', outpoint_set', block_index') /\ Held(entries') \subseteq Held(entries) \cup new
        /\ \E es : FindClaim(es, Awaited(daa), daa) /\ Len(es) \in Nat /\ Len(entries') = Len(es)
    BY <1>1, <1>2, HandlingKeepsBooks
  <1>4. PICK es : FindClaim(es, Awaited(daa), daa) /\ Len(es) \in Nat /\ Len(entries') = Len(es)
    BY <1>3
  <1>5. Awaited(daa) \in SUBSET (DOMAIN in_flight)
    BY DEF Awaited
  <1>6. FInv' /\ (submitted' = submitted \/ validation_pending = {})
    BY <1>3, <1>4, <1>5, FindKeepsInFlight
  <1>. QED
    BY <1>3, <1>6 DEF Handled, node, Removes

\* A message that changes no claim.
LEMMA ClaimsUntouched ==
    ASSUME FInv, UNCHANGED <<in_flight, in_flight_outpoints>>, submitted' \subseteq submitted
    PROVE  FInv'
  BY DEF FInv, Disjoint, Spending, ToSet, Claim, Outpoints

\* The answer to a claim releases what it spends.
LEMMA AnswerReleases ==
    ASSUME FInv, OnSubmitResponse
    PROVE  FInv'
  <1>. DEFINE t == NextMsg.txid
              D == DOMAIN in_flight
  <1>1. submitted' = submitted
    BY DEF OnSubmitResponse
  <1>2. CASE t \notin D
    BY <1>1, <1>2, ClaimsUntouched DEF OnSubmitResponse
  <1>3. CASE t \in D
    <2>1. in_flight' = [u \in D \ {t} |-> in_flight[u]] /\ in_flight_outpoints' = in_flight_outpoints \ ToSet(t)
      BY <1>3 DEF OnSubmitResponse
    <2>. HIDE DEF t
    <2>2. DOMAIN in_flight' = D \ {t}
      BY <2>1
    <2>. HIDE DEF D
    <2>3. Disjoint(D) /\ in_flight_outpoints = Spending(D) /\ \A u \in D \cup submitted : Claim(u)
      BY DEF FInv, D
    <2>4. Spending(D) \ Spending(D \ (D \ {t})) = Spending(D \ {t})
      BY <2>3, SpendingLess
    <2>5. Spending(D \ (D \ {t})) = ToSet(t)
      <3>1. D \ (D \ {t}) = {t}
        BY <1>3 DEF D
      <3>. QED
        BY <3>1 DEF Spending
    <2>6. in_flight_outpoints' = Spending(D \ {t}) /\ Disjoint(D \ {t})
      BY <2>1, <2>3, <2>4, <2>5 DEF Disjoint
    <2>. QED
      BY <1>1, <2>2, <2>3, <2>6 DEF FInv, Disjoint, Spending, ToSet, Claim, Outpoints
  <1>. QED
    BY <1>2, <1>3

LEMMA EveryMessageHandled ==
    ASSUME VInv, TInv, FInv, Handles
    PROVE  Handled
  <1>0. /\ Listed /\ SInv /\ Books(entries, outpoint_set, block_index) /\ {} \in SUBSET Coinbase
        /\ \A b \in Coinbase : block_index[b] \subseteq 1..Len(entries)
    BY DEF VInv, TInv, Books
  <1>1. ASSUME Read PROVE WellFormed(NextMsg)
    BY <1>0, <1>1, ReadEffect DEF SInv
  <1>2. CASE OnBlockAdded
    <2>1. /\ Read /\ NextMsg.kind # "chain" /\ UNCHANGED <<node, validation_pending>>
          /\ \E daa \in Scores, compacting \in BOOLEAN : HandleBlock(daa, compacting, NextMsg.reds, {})
      BY <1>2 DEF OnBlockAdded
    <2>2. NextMsg.reds \in SUBSET Coinbase
      BY <1>1, <1>2 DEF OnBlockAdded, WellFormed
    <2>3. {} \subseteq Brought
      OBVIOUS
    <2>. QED
      BY <1>0, <2>1, <2>2, <2>3, BlockIsHandled
  <1>3. CASE OnBlock
    <2>. DEFINE new == IF NextMsg.full /\ NextMsg.on_chain THEN {NextMsg.b} ELSE {}
    <2>1. /\ Read /\ NextMsg.kind = "block" /\ UNCHANGED <<node, validation_pending>>
          /\ \E daa \in Scores, compacting \in BOOLEAN : HandleBlock(daa, compacting, {}, new)
      BY <1>3 DEF OnBlock
    <2>2. new \in SUBSET Coinbase /\ (new = {} \/ \E b : new = {b}) /\ new \subseteq Brought
      BY <1>1, <2>1 DEF WellFormed, Brought
    <2>. HIDE DEF new
    <2>. QED
      BY <1>0, <2>1, <2>2, BlockIsHandled
  <1>4. CASE OnValidated \/ OnBlockError
    <2>1. /\ Read /\ NextMsg.kind # "chain" /\ UNCHANGED <<chain, spent, burned, accepted, submitted>>
          /\ UNCHANGED <<in_flight, in_flight_outpoints>>
          /\ validation_pending' \subseteq validation_pending
          /\ (entries' = entries \/ \E at : entries' = SlashAt(entries, at))
      BY <1>4 DEF OnValidated, OnBlockError, node
    <2>2. Held(entries') \subseteq Held(entries)
      <3>1. CASE entries' = entries
        BY <3>1
      <3>2. CASE \E at : entries' = SlashAt(entries, at)
        <4>1. PICK at : entries' = SlashAt(entries, at)
          BY <3>2
        <4>2. Tamer(entries', entries)
          BY <1>0, <4>1, SlashTames
        <4>. QED
          BY <1>0, <4>2, TamerKeepsBooks
      <3>. QED
        BY <2>1, <3>1, <3>2
    <2>3. FInv'
      BY <2>1, ClaimsUntouched
    <2>. QED
      BY <2>1, <2>2, <2>3 DEF Handled, Removes
  <1>5. CASE OnChainChanged
    <2>. DEFINE R == NextMsg.removed
                at == UNION {block_index[b] : b \in R}
    <2>1. /\ Read /\ NextMsg.kind = "chain" /\ UNCHANGED <<chain, spent, burned, accepted, submitted>>
          /\ UNCHANGED <<in_flight, in_flight_outpoints, validation_pending>>
          /\ entries' = SlashAt(entries, at)
          /\ block_index' = [b \in Coinbase |-> IF b \in R THEN {} ELSE block_index[b]]
      BY <1>5 DEF OnChainChanged, node
    <2>2. R \subseteq Coinbase
      BY <1>1, <2>1 DEF WellFormed
    <2>. HIDE DEF R
    <2>3. Held(entries') \subseteq Held(entries) \ R
      <3>1. Purge(entries, block_index, R, at, Released(at), block_index')
        BY <2>1, <2>2 DEF Purge, Released
      <3>. HIDE DEF at
      <3>. QED
        BY <1>0, <2>1, <3>1, ReleasedBooks
    <2>4. FInv'
      BY <2>1, ClaimsUntouched
    <2>. QED
      BY <2>1, <2>3, <2>4 DEF Handled, Removes, R
  <1>6. CASE OnSubmitResponse
    <2>1. /\ Read /\ NextMsg.kind # "chain" /\ UNCHANGED <<chain, spent, burned, accepted, submitted, validation_pending>>
      BY <1>6 DEF OnSubmitResponse, node, Replies
    <2>2. Held(entries') \subseteq Held(entries)
      BY <1>0, <1>6, SettlingTames, TamerKeepsBooks
    <2>3. FInv'
      BY <1>6, AnswerReleases
    <2>. QED
      BY <2>1, <2>2, <2>3 DEF Handled, Removes
  <1>. QED
    BY <1>2, <1>3, <1>4, <1>5, <1>6 DEF Handles

\* A removal read before a message is still before it when another message has been read.
LEMMA ReadKeepsGone ==
    ASSUME VInv, Handled, NEW o, NEW k \in 1..Len(inbox'), Gone(o, k + 1, inbox, Held(entries))
    PROVE  Gone(o, k, inbox', Held(entries'))
  <1>0. /\ Len(inbox) \in Nat \ {0} /\ Len(inbox') = Len(inbox) - 1 /\ NextMsg = inbox[1]
        /\ \A l \in 1..Len(inbox') : inbox'[l] = inbox[l + 1] /\ l + 1 \in 1..Len(inbox)
    BY ReadEffect DEF VInv, Handled
  <1>1. /\ Held(entries') \subseteq Held(entries) \cup Brought
        /\ \A x \in Held(entries') : ~Removes(NextMsg, x)
    BY DEF Handled
  <1>2. k \in Nat /\ k <= Len(inbox')
    BY <1>0
  <1>3. ASSUME NEW l \in 2..k PROVE l - 1 \in 1..(k - 1) /\ inbox'[l - 1] = inbox[l]
    <2>1. l - 1 \in 1..Len(inbox') /\ l - 1 \in 1..(k - 1) /\ (l - 1) + 1 = l
      BY <1>0, <1>2
    <2>. QED
      BY <1>0, <2>1
  <1>4. ASSUME o \in Held(entries') \ Unknown PROVE \E j \in 1..(k - 1) : Removes(inbox'[j], o)
    <2>1. \E l \in 2..k : Removes(inbox[l], o)
      <3>1. CASE o \in Held(entries)
        <4>1. PICK j \in 1..((k + 1) - 1) : Removes(inbox[j], o)
          BY <1>4, <3>1 DEF Gone
        <4>2. j # 1
          BY <1>0, <1>1, <1>4, <4>1
        <4>3. j \in 2..k
          BY <1>2, <4>2
        <4>. QED
          BY <4>1, <4>3
      <3>2. CASE o \in Brought
        <4>1. inbox[1].kind = "block" /\ inbox[1].on_chain /\ inbox[1].b = o /\ 1 \in 1..((k + 1) - 1)
          BY <1>0, <1>2, <3>2 DEF Brought
        <4>2. PICK l \in (1 + 1)..((k + 1) - 1) : Removes(inbox[l], o)
          BY <4>1 DEF Gone
        <4>3. l \in 2..k
          BY <1>2
        <4>. QED
          BY <4>2, <4>3
      <3>. QED
        BY <1>1, <1>4, <3>1, <3>2
    <2>. QED
      BY <1>3, <2>1
  <1>5. ASSUME NEW j \in 1..(k - 1), inbox'[j].kind = "block", inbox'[j].on_chain, inbox'[j].b = o
        PROVE  \E l \in (j + 1)..(k - 1) : Removes(inbox'[l], o)
    <2>1. j \in 1..Len(inbox') /\ j + 1 \in 1..((k + 1) - 1) /\ inbox'[j] = inbox[j + 1]
      BY <1>0, <1>2
    <2>2. PICK l \in ((j + 1) + 1)..((k + 1) - 1) : Removes(inbox[l], o)
      BY <1>5, <2>1 DEF Gone
    <2>3. l \in 2..k /\ l - 1 \in (j + 1)..(k - 1)
      BY <1>2
    <2>. QED
      BY <1>3, <2>2, <2>3
  <1>. QED
    BY <1>4, <1>5 DEF Gone

LEMMA SayKeepsGone ==
    ASSUME VInv, NEW msg, Say(msg), NEW o, NEW held, NEW k \in 1..(Len(inbox) + 1), Gone(o, k, inbox, held)
    PROVE  Gone(o, k, inbox', held)
  <1>1. Len(inbox) \in Nat /\ \A j \in 1..Len(inbox) : inbox'[j] = inbox[j]
    BY SayEffect DEF VInv
  <1>2. \A j \in 1..(k - 1) : inbox'[j] = inbox[j] /\ \A l \in (j + 1)..(k - 1) : inbox'[l] = inbox[l]
    BY <1>1
  <1>. QED
    BY <1>2 DEF Gone

\* What justifies a rejection still does when another message has been read.
LEMMA HandlingKeepsJustified ==
    ASSUME VInv, TInv, LInv, Handled
    PROVE  LInv'
  <1>0. /\ Len(inbox) \in Nat \ {0} /\ Len(inbox') = Len(inbox) - 1 /\ NextMsg = inbox[1]
        /\ \A k \in 1..Len(inbox') : inbox'[k] = inbox[k + 1] /\ k + 1 \in 1..Len(inbox)
    BY ReadEffect DEF VInv, Handled
  <1>1. /\ UNCHANGED <<chain, spent, burned>> /\ Held(entries') \subseteq Held(entries) \cup Brought
        /\ \A o \in Held(entries') : ~Removes(NextMsg, o)
    BY DEF Handled
  <1>2. validation_pending' # {} => submitted' = {}
    BY DEF Handled, LInv
  <1>3. Held(entries') \cap Unknown \subseteq Ghosts
    <2>1. WellFormed(NextMsg)
      BY <1>0 DEF TInv, SInv
    <2>2. Brought \cap Unknown = {}
      BY <2>1 DEF Brought, WellFormed
    <2>. QED
      BY <1>1, <2>2 DEF LInv
  <1>4. \A o : \A k \in 1..Len(inbox') : Gone(o, k + 1, inbox, Held(entries)) => Gone(o, k, inbox', Held(entries'))
    BY ReadKeepsGone
  <1>5. ASSUME NEW k \in 1..Len(inbox')
        PROVE  Justified(inbox'[k], k, inbox', Held(entries'), spent, burned)
    <2>1. inbox'[k] = inbox[k + 1] /\ Justified(inbox[k + 1], k + 1, inbox, Held(entries), spent, burned)
      BY <1>0 DEF LInv
    <2>. QED
      BY <1>4, <2>1 DEF Justified
  <1>6. chain' \cap Ghosts = {}
    BY <1>1 DEF LInv
  <1>7. \A k \in 1..Len(inbox') : Justified(inbox'[k], k, inbox', Held(entries'), spent', burned')
    BY <1>1, <1>5
  <1>. QED
    BY <1>2, <1>3, <1>6, <1>7 DEF LInv, Held, Kept, Live, Justified, Gone, Removes, ToSet, Outpoints

\* A message of the node that gives a good reason, if any, for giving an output up.
LEMMA SayKeepsJustified ==
    ASSUME VInv, LInv, NEW msg, Say(msg), UNCHANGED <<entries, validation_pending>>, submitted' \subseteq submitted,
           spent \subseteq spent', burned \subseteq burned', chain' \cap Ghosts = {},
           Justified(msg, Len(inbox) + 1, inbox, Held(entries), spent', burned')
    PROVE  LInv'
  <1>0. /\ Len(inbox) \in Nat /\ Len(inbox') = Len(inbox) + 1
        /\ \A k \in 1..Len(inbox) : inbox'[k] = inbox[k]
        /\ inbox'[Len(inbox) + 1] = msg
    BY SayEffect DEF VInv
  <1>1. \A o : \A k \in 1..(Len(inbox) + 1) : Gone(o, k, inbox, Held(entries)) => Gone(o, k, inbox', Held(entries))
    BY SayKeepsGone
  <1>2. ASSUME NEW k \in 1..Len(inbox')
        PROVE  Justified(inbox'[k], k, inbox', Held(entries), spent', burned')
    <2>1. CASE k \in 1..Len(inbox)
      <3>1. inbox'[k] = inbox[k] /\ Justified(inbox[k], k, inbox, Held(entries), spent, burned) /\ k \in 1..(Len(inbox) + 1)
        BY <1>0, <2>1 DEF LInv
      <3>. QED
        BY <1>1, <3>1 DEF Justified
    <2>2. CASE k = Len(inbox) + 1
      <3>1. inbox'[k] = msg /\ k \in 1..(Len(inbox) + 1)
        BY <1>0, <2>2
      <3>. QED
        BY <1>1, <2>2, <3>1 DEF Justified
    <2>. QED
      BY <1>0, <2>1, <2>2
  <1>3. (validation_pending' # {} => submitted' = {}) /\ Held(entries) \cap Unknown \subseteq Ghosts
    BY DEF LInv
  <1>. QED
    BY <1>2, <1>3 DEF LInv, Held, Kept, Live, Justified, Gone, Removes, ToSet, Outpoints

\* The stream stays as it is, or is cut.
LEMMA StillJustified ==
    ASSUME LInv, inbox' = inbox \/ inbox' = <<>>, spent \subseteq spent', burned \subseteq burned', chain' = chain,
           validation_pending' # {} => submitted' = {}, Held(entries') \cap Coinbase \subseteq Held(entries)
    PROVE  LInv'
  <1>1. Held(entries') \cap Unknown \subseteq Ghosts
    BY OutpointsAssumption DEF LInv
  <1>2. ASSUME NEW k \in 1..Len(inbox')
        PROVE  Justified(inbox'[k], k, inbox', Held(entries'), spent', burned')
    <2>1. inbox' = inbox
      BY <1>2
    <2>2. Justified(inbox[k], k, inbox, Held(entries), spent, burned)
      BY <2>1 DEF LInv
    <2>3. \A o \in Coinbase : Gone(o, k, inbox, Held(entries)) => Gone(o, k, inbox, Held(entries'))
      BY DEF Gone
    <2>. QED
      BY <2>1, <2>2, <2>3 DEF Justified
  <1>3. chain' \cap Ghosts = {}
    BY DEF LInv
  <1>. QED
    BY <1>1, <1>2, <1>3 DEF LInv, Held, Kept, Live, Justified, Gone, Removes, ToSet, Outpoints

\* A block that is off the chain is known to be so by the time anything the node says now is read.
LEMMA OffChainIsGone ==
    ASSUME VInv, TInv, NEW o \in Coinbase, o \notin chain \cup validation_pending
    PROVE  Gone(o, Len(inbox) + 1, inbox, Held(entries))
  <1>1. o \notin Inference
    BY OutpointsAssumption
  <1>2. Len(inbox) \in Nat /\ (Len(inbox) + 1) - 1 = Len(inbox)
    BY DEF VInv, Listed
  <1>3. ASSUME o \in Held(entries) \ Unknown PROVE \E j \in 1..Len(inbox) : Removes(inbox[j], o)
    <2>1. Sure(o)
      BY <1>1, <1>3 DEF TInv
    <2>. QED
      BY <2>1 DEF Sure, Leaving, Removes
  <1>4. ASSUME NEW j \in 1..Len(inbox), inbox[j].kind = "block", inbox[j].on_chain, inbox[j].b = o
        PROVE  \E l \in (j + 1)..Len(inbox) : Removes(inbox[l], o)
    <2>1. Leaving(o, j, inbox)
      BY <1>4 DEF TInv, SInv
    <2>2. PICK l \in 1..Len(inbox) : l > j /\ inbox[l].kind = "chain" /\ o \in inbox[l].removed
      BY <2>1 DEF Leaving
    <2>3. l \in (j + 1)..Len(inbox)
      BY <1>2, <2>2
    <2>. QED
      BY <2>2, <2>3 DEF Removes
  <1>. QED
    BY <1>2, <1>3, <1>4 DEF Gone

\* The node's verdict on a claim.
LEMMA VerdictsAreJustified ==
    ASSUME VInv, TInv, FInv, LInv, NEW t \in submitted, NEW v \in Verdicts(t)
    PROVE  Justified(v, Len(inbox) + 1, inbox, Held(entries), spent, burned)
  <1>0. /\ t \in Seq(Outpoints) /\ validation_pending = {} /\ Len(inbox) \in Nat
    <2>1. Len(inbox) \in Nat
      BY DEF VInv, Listed
    <2>. QED
      BY <2>1 DEF FInv, Claim, LInv
  <1>1. /\ v.txid = t
        /\ v.kind = "burned" => v.named \subseteq burned /\ ToSet(t) \cap burned # {}
        /\ v.kind = "orphan" => ~(ToSet(t) \subseteq Spendable)
    BY RejectionsAssumption DEF Verdicts
  <1>2. ASSUME v.kind = "orphan", Len(t) = 1, t[1] \notin spent \cup burned
        PROVE  t[1] \in Coinbase /\ Gone(t[1], Len(inbox) + 1, inbox, Held(entries))
    <2>. DEFINE o == t[1]
    <2>1. ToSet(t) = {o} /\ o \in Outpoints
      BY SMTT(60), <1>0, <1>2 DEF ToSet
    <2>2. o \in Coinbase /\ o \notin chain /\ o \notin Inference
      BY <1>1, <1>2, <2>1, OutpointsAssumption DEF Spendable, Outpoints
    <2>. HIDE DEF o
    <2>3. Gone(o, Len(inbox) + 1, inbox, Held(entries))
      BY <1>0, <2>2, OffChainIsGone
    <2>. QED
      BY <2>2, <2>3 DEF o
  <1>. QED
    BY <1>0, <1>1, <1>2 DEF Justified

LEMMA LostInit ==
    ASSUME Init
    PROVE  FInv /\ LInv
  <1>1. /\ in_flight = [t \in {} |-> 0] /\ in_flight_outpoints = {} /\ submitted = {} /\ inbox = <<>> /\ chain = {}
    BY DEF Init
  <1>2. Held(entries) \subseteq Ghosts
    BY LoadedEntries DEF Held, Kept
  <1>3. FInv
    BY <1>1 DEF FInv, Disjoint, Spending
  <1>4. LInv
    BY <1>1, <1>2 DEF LInv
  <1>. QED
    BY <1>3, <1>4

\* No step of the watcher or of the node spoils the claims in flight or the reasons for giving up.
LEMMA LostStep ==
    ASSUME VInv, TInv, FInv, LInv, [Next]_vars
    PROVE  FInv' /\ LInv'
  <1>0. Books(entries, outpoint_set, block_index) /\ Len(inbox) \in Nat
    BY DEF TInv, VInv, Listed
  <1>1. CASE Handles
    BY <1>1, EveryMessageHandled, HandlingKeepsJustified DEF Handled
  <1>2. CASE \E o \in Inference : TrackInference(o)
    <2>1. PICK o \in Inference : TrackInference(o)
      BY <1>2
    <2>2. /\ o \notin outpoint_set /\ entries' = Append(entries, NewEntry(o, tip))
          /\ UNCHANGED <<inbox, spent, burned, chain, validation_pending, submitted, in_flight, in_flight_outpoints>>
      BY <2>1 DEF TrackInference, node, stream
    <2>3. o \in Outpoints /\ o \notin Coinbase /\ Grown(block_index, block_index, Len(entries) + 1, o)
      BY <1>0, OutpointsAssumption DEF Grown, Books, Outpoints
    <2>4. Held(entries') \subseteq Held(entries) \cup {o}
      BY <1>0, <2>2, <2>3, NewEntryBooks
    <2>5. Held(entries') \cap Coinbase \subseteq Held(entries)
      BY <2>3, <2>4
    <2>6. validation_pending' # {} => submitted' = {}
      BY <2>2 DEF LInv
    <2>7. LInv'
      BY <2>2, <2>5, <2>6, StillJustified
    <2>. QED
      BY <2>2, <2>7, ClaimsUntouched
  <1>3. CASE Reconnect
    <2>1. /\ inbox' = <<>> /\ submitted' = {} /\ UNCHANGED <<entries, chain, spent, burned>>
          /\ in_flight' = [t \in {} |-> 0] /\ in_flight_outpoints' = {}
      BY <1>3 DEF Reconnect, ConnectTo, node
    <2>2. FInv'
      BY <2>1 DEF FInv, Disjoint, Spending
    <2>3. Held(entries') \cap Coinbase \subseteq Held(entries)
      BY <2>1
    <2>. QED
      BY <2>1, <2>2, <2>3, StillJustified
  <1>4. CASE (\E b \in Coinbase : ChainRestoreAsks(b)) \/ (\E o \in Outpoints : NodeBurns(o)) \/ UNCHANGED vars
    <2>1. /\ UNCHANGED <<entries, inbox, submitted, chain, spent, validation_pending, in_flight, in_flight_outpoints>>
          /\ burned \subseteq burned'
      BY <1>4 DEF ChainRestoreAsks, NodeBurns, vars, watcher, node, stream
    <2>2. (validation_pending' # {} => submitted' = {}) /\ Held(entries') \cap Coinbase \subseteq Held(entries)
      BY <2>1 DEF LInv
    <2>3. LInv'
      BY <2>1, <2>2, StillJustified
    <2>. QED
      BY <2>1, <2>3, ClaimsUntouched
  <1>5. CASE NodeAddsBlock
    <2>1. PICK reds : Say([kind |-> "added", reds |-> reds])
      BY <1>5 DEF NodeAddsBlock
    <2>. DEFINE msg == [kind |-> "added", reds |-> reds]
    <2>2. Say(msg) /\ msg.kind = "added"
      BY <2>1
    <2>3. UNCHANGED <<entries, submitted, chain, spent, burned, validation_pending, in_flight, in_flight_outpoints>>
      BY <1>5 DEF NodeAddsBlock, watcher
    <2>. HIDE DEF msg
    <2>4. Justified(msg, Len(inbox) + 1, inbox, Held(entries), spent', burned') /\ chain' \cap Ghosts = {}
      BY <2>2, <2>3 DEF Justified, LInv
    <2>5. LInv'
      BY <2>2, <2>3, <2>4, SayKeepsJustified
    <2>. QED
      BY <2>3, <2>5, ClaimsUntouched
  <1>6. CASE \E removed, new \in SUBSET Coinbase : NodeChangesChain(removed, new)
    <2>1. PICK removed \in SUBSET Coinbase, new \in SUBSET Coinbase : NodeChangesChain(removed, new)
      BY <1>6
    <2>. DEFINE msg == [kind |-> "chain", removed |-> removed, added |-> new]
    <2>2. Say(msg) /\ msg.kind = "chain"
      BY <2>1 DEF NodeChangesChain
    <2>3. /\ UNCHANGED <<entries, submitted, spent, burned, validation_pending, in_flight, in_flight_outpoints>>
          /\ chain' \cap Ghosts = {}
      BY <2>1 DEF NodeChangesChain, watcher, LInv
    <2>. HIDE DEF msg
    <2>4. Justified(msg, Len(inbox) + 1, inbox, Held(entries), spent', burned')
      BY <2>2 DEF Justified
    <2>5. LInv'
      BY <2>2, <2>3, <2>4, SayKeepsJustified
    <2>. QED
      BY <2>3, <2>5, ClaimsUntouched
  <1>7. CASE \E q \in asked : NodeAnswersBlock(q)
    <2>1. PICK q \in asked : NodeAnswersBlock(q)
      BY <1>7
    <2>. DEFINE msg == IF q.b \in Unknown
                         THEN [kind |-> "unknown", b |-> q.b]
                         ELSE [kind |-> "block", b |-> q.b, full |-> q.full, on_chain |-> q.b \in chain]
    <2>2. Say(msg)
      BY <2>1 DEF NodeAnswersBlock
    <2>3. msg.kind \in {"unknown", "block"}
      <3>1. CASE q.b \in Unknown
        BY <3>1
      <3>2. CASE q.b \notin Unknown
        BY <3>2
      <3>. QED
        BY <3>1, <3>2
    <2>4. UNCHANGED <<entries, submitted, chain, spent, burned, validation_pending, in_flight, in_flight_outpoints>>
      BY <2>1 DEF NodeAnswersBlock, watcher, node
    <2>. HIDE DEF msg
    <2>5. Justified(msg, Len(inbox) + 1, inbox, Held(entries), spent', burned') /\ chain' \cap Ghosts = {}
      BY <2>3, <2>4 DEF Justified, LInv
    <2>6. LInv'
      BY <2>2, <2>4, <2>5, SayKeepsJustified
    <2>. QED
      BY <2>4, <2>6, ClaimsUntouched
  <1>8. CASE \E t \in submitted : NodeAnswersClaim(t)
    <2>1. PICK t \in submitted : NodeAnswersClaim(t)
      BY <1>8
    <2>2. PICK v \in Verdicts(t) :
             /\ spent' = IF v.kind = "ok" THEN spent \cup ToSet(t) ELSE spent
             /\ Say(v) \/ UNCHANGED inbox
      BY <2>1 DEF NodeAnswersClaim
    <2>3. /\ UNCHANGED <<entries, chain, burned, validation_pending, in_flight, in_flight_outpoints>>
          /\ submitted' \subseteq submitted /\ spent \subseteq spent'
      BY <2>1, <2>2 DEF NodeAnswersClaim, watcher
    <2>4. Justified(v, Len(inbox) + 1, inbox, Held(entries), spent, burned)
      BY VerdictsAreJustified
    <2>5. Justified(v, Len(inbox) + 1, inbox, Held(entries), spent', burned')
      BY <2>3, <2>4 DEF Justified
    <2>6. chain' \cap Ghosts = {} /\ (validation_pending' # {} => submitted' = {})
      BY <2>3 DEF LInv
    <2>7. CASE Say(v)
      BY <2>3, <2>5, <2>6, <2>7, SayKeepsJustified, ClaimsUntouched
    <2>8. CASE UNCHANGED inbox
      <3>1. Held(entries') \cap Coinbase \subseteq Held(entries)
        BY <2>3
      <3>. QED
        BY <2>3, <2>6, <2>8, <3>1, StillJustified, ClaimsUntouched
    <2>. QED
      BY <2>2, <2>7, <2>8
  <1>. QED
    BY <1>1, <1>2, <1>3, <1>4, <1>5, <1>6, <1>7, <1>8 DEF Next, WatcherNext, NodeNext, Handles

\* The claims in flight and the index of their outputs agree, a claim spends different outputs and
\* no two of them share one: through time-outs, late answers, compaction and reconnections.
THEOREM ClaimsNeverCompete == Spec => []InFlightExact
  <1>. DEFINE IInv == VInv /\ TInv /\ FInv /\ LInv
  <1>1. Init => IInv
    BY ValidationInit, TrackingInit, LostInit
  <1>2. IInv /\ [Next]_vars => IInv'
    BY ValidationStep, TrackingStep, LostStep
  <1>3. IInv => InFlightExact
    BY InFlightIsExact
  <1>. QED
    BY <1>1, <1>2, <1>3, PTL DEF Spec

\* When a rejection gives an entry up.
LEMMA RejectionSlashes ==
    ASSUME NEW e, Formed(e), ~e.slashed, NEW msg, NEW n, NEW daa, Rejected(e, msg, n, daa).slashed
    PROVE  \/ msg.kind = "orphan" /\ n = 1
           \/ msg.kind = "burned" /\ e.o \in msg.named
           \/ msg.kind = "burned" /\ ~(n > 1)
  <1>. DEFINE r == Rejected(e, msg, n, daa)
  <1>1. ASSUME NEW x, x = e \/ \E c, d : x = [e EXCEPT !.cap = c, !.capset = d]
        PROVE  DOMAIN x = EntryFields /\ ~x.slashed
    BY <1>1 DEF Formed, EntryFields
  <1>2. CASE msg.kind = "orphan" /\ n > 1 /\ n # 1
    <2>1. r = Capped(e, n, daa)
      BY <1>2 DEF Rejected
    <2>. HIDE DEF r
    <2>. QED
      BY <1>1, <2>1 DEF Capped, r
  <1>3. CASE msg.kind = "seqlock"
    <2>1. r = [e EXCEPT !.after = daa + SeqLockCooldown]
      BY <1>3 DEF Rejected
    <2>. HIDE DEF r
    <2>. QED
      BY <2>1 DEF Formed, EntryFields, r
  <1>4. CASE msg.kind = "burned" /\ msg.named # {} /\ e.o \notin msg.named
    <2>1. r = [e EXCEPT !.slashed = @ \/ e.o \in msg.named]
      BY <1>4 DEF Rejected
    <2>. HIDE DEF r
    <2>. QED
      BY <1>4, <2>1 DEF Formed, EntryFields, r
  <1>5. CASE msg.kind = "burned" /\ msg.named = {} /\ n > 1
    <2>1. r = Capped(e, n, daa)
      BY <1>5 DEF Rejected
    <2>. HIDE DEF r
    <2>. QED
      BY <1>1, <2>1 DEF Capped, r
  <1>6. CASE msg.kind \notin {"orphan", "seqlock", "burned"} \/ (msg.kind = "orphan" /\ ~(n > 1) /\ n # 1)
    <2>. DEFINE x == IF n > 1 THEN Capped(e, n, daa) ELSE e
    <2>1. r = [x EXCEPT !.submits = @ + 1, !.after = daa + Backoff(e.submits + 1)]
      BY <1>6 DEF Rejected
    <2>2. DOMAIN x = EntryFields /\ ~x.slashed
      BY <1>1 DEF Capped
    <2>. HIDE DEF r, x
    <2>. QED
      BY <2>1, <2>2 DEF EntryFields, r
  <1>. QED
    BY <1>2, <1>3, <1>4, <1>5, <1>6

\* An answer gives an entry up only when nothing is left of its output, or no block of it ever was.
LEMMA GivenUpIsWorthless ==
    ASSUME VInv, TInv, PInv, LInv, OnSubmitResponse, NEW i \in 1..Len(entries), ~entries[i].slashed, entries'[i].slashed
    PROVE  entries[i].o \in spent \cup burned \/ entries[i].o \in Coinbase \cap Unknown \cap Held(entries)
  <1>. DEFINE m == NextMsg
              t == NextMsg.txid
              e == entries[i]
              done == NextMsg.kind \in Settling
              Settled(x) == IF done THEN [x EXCEPT !.claimed = TRUE] ELSE Rejected(x, NextMsg, Len(t), last_daa_score)
  <1>0. Listed /\ Read /\ Formed(e) /\ Len(entries) \in Nat
    BY DEF VInv, TInv, Books, OnSubmitResponse
  <1>1. /\ m = inbox[1] /\ 1 \in 1..Len(inbox)
    BY <1>0, ReadEffect
  <1>2. Justified(m, 1, inbox, Held(entries), spent, burned)
    BY <1>1 DEF LInv
  <1>3. i \in Found(entries, ToSet(t)) /\ entries'[i] = Settled(e)
    BY DEF OnSubmitResponse
  <1>4. ~done /\ Rejected(e, m, Len(t), last_daa_score).slashed
    <2>1. CASE done
      <3>1. entries'[i] = [e EXCEPT !.claimed = TRUE]
        BY <1>3, <2>1
      <3>. QED
        BY <1>0, <3>1 DEF Formed, EntryFields
    <2>. QED
      BY <1>3, <2>1
  <1>5. e.o \in ToSet(t)
    BY <1>0, <1>3, FoundIsNamed
  <1>6. \/ m.kind = "orphan" /\ Len(t) = 1
        \/ m.kind = "burned" /\ e.o \in m.named
        \/ m.kind = "burned" /\ ~(Len(t) > 1)
    BY <1>0, <1>4, RejectionSlashes
  <1>7. t \in Seq(Outpoints) /\ Len(t) \in Nat
    BY <1>2, <1>6 DEF Justified
  <1>8. Len(t) <= 1 => ToSet(t) = {t[1]} /\ Len(t) = 1
    <2>1. PICK k \in 1..Len(t) : e.o = t[k]
      BY <1>5, <1>7 DEF ToSet
    <2>2. \A n \in Nat : n = Len(t) => n >= 1
      BY <2>1
    <2>3. Len(t) >= 1
      BY <1>7, <2>2
    <2>4. \A n \in Nat : n >= 1 /\ n <= 1 => n = 1
      OBVIOUS
    <2>5. Len(t) <= 1 => Len(t) = 1
      BY <1>7, <2>3, <2>4
    <2>. QED
      BY <1>7, <2>5 DEF ToSet
  <1>9. CASE m.kind = "burned"
    <2>1. m.named \subseteq burned /\ ToSet(t) \cap burned # {}
      BY <1>2, <1>9 DEF Justified
    <2>. QED
      BY <1>5, <1>6, <1>7, <1>8, <1>9, <2>1
  <1>10. CASE m.kind = "orphan" /\ Len(t) = 1
    <2>1. e.o = t[1]
      BY <1>5, <1>8, <1>10
    <2>2. e.o \in spent \cup burned \/ (e.o \in Coinbase /\ Gone(e.o, 1, inbox, Held(entries)))
      BY <1>2, <1>10, <2>1 DEF Justified
    <2>3. CASE e.o \in Coinbase /\ Gone(e.o, 1, inbox, Held(entries))
      <3>1. e.o \notin Held(entries) \ Unknown
        BY <2>3 DEF Gone
      <3>2. CASE e.o \notin Held(entries)
        <4>1. e.claimed
          BY <1>0, <3>2 DEF Held, Kept, Live, Formed
        <4>. QED
          BY <4>1 DEF PInv, Paid
      <3>. QED
        BY <2>3, <3>1, <3>2
    <2>. QED
      BY <2>2, <2>3
  <1>. QED
    BY <1>6, <1>9, <1>10

\* An answer gives an entry up only when its output cannot be spent.
LEMMA GivenUpIsLost ==
    ASSUME VInv, TInv, PInv, LInv, OnSubmitResponse, NEW i \in 1..Len(entries), ~entries[i].slashed, entries'[i].slashed
    PROVE  entries[i].o \notin Spendable
  <1>. DEFINE o == entries[i].o
  <1>1. CASE o \in spent \cup burned
    BY <1>1 DEF Spendable
  <1>2. CASE o \in Coinbase \cap Unknown \cap Held(entries)
    <2>1. o \notin chain
      BY <1>2 DEF LInv
    <2>. QED
      BY <1>2, <2>1, OutpointsAssumption DEF Spendable
  <1>. QED
    BY <1>1, <1>2, GivenUpIsWorthless

\* "a valid entry repeatedly batched with a dead one can never be slashed by association": whatever
\* batches an output travelled in, an answer makes the watcher give its entry up only when the
\* output is spent, burned or off the chain.
THEOREM OnlyTheLostAreGivenUp == Spec => SlashedIsLost
  <1>. DEFINE IInv == VInv /\ TInv /\ PInv /\ FInv /\ LInv
              A == (inbox # <<>> /\ inbox' = Tail(inbox) /\ NextMsg.kind \in Replies) =>
                     \A i \in 1..Len(entries) :
                         ~entries[i].slashed /\ entries'[i].slashed => entries[i].o \notin Spendable
  <1>1. Init => IInv
    BY ValidationInit, TrackingInit, PaymentsInit, LostInit
  <1>2. IInv /\ [Next]_vars => IInv'
    BY ValidationStep, TrackingStep, PaymentsStep, LostStep
  <1>3. IInv /\ [Next]_vars => [A]_vars
    <2>. SUFFICES ASSUME IInv, Next, NextMsg.kind \in Replies, inbox # <<>>, inbox' = Tail(inbox),
                         NEW i \in 1..Len(entries), ~entries[i].slashed, entries'[i].slashed
                  PROVE  entries[i].o \notin Spendable
      OBVIOUS
    <2>1. CASE OnSubmitResponse
      BY <2>1, GivenUpIsLost
    <2>2. ~(OnBlockAdded \/ OnBlock \/ OnValidated \/ OnBlockError \/ OnChainChanged)
      BY DEF OnBlockAdded, OnBlock, OnValidated, OnBlockError, OnChainChanged, Replies
    <2>3. CASE \E o \in Inference : TrackInference(o)
      <3>1. inbox' = inbox
        BY <2>3 DEF TrackInference, stream
      <3>2. Len(inbox) \in Nat \ {0} /\ Len(inbox') = Len(inbox) - 1
        BY ReadEffect DEF VInv, Read
      <3>. QED
        BY <3>1, <3>2
    <2>4. CASE Reconnect \/ NodeNext
      <3>1. entries' = entries
        BY <2>4 DEF Reconnect, NodeNext, NodeAddsBlock, NodeChangesChain, NodeAnswersBlock, ChainRestoreAsks,
                    NodeAnswersClaim, NodeBurns, watcher
      <3>. QED
        BY <3>1
    <2>. QED
      BY <2>1, <2>2, <2>3, <2>4 DEF Next, WatcherNext
  <1>. QED
    BY <1>1, <1>2, <1>3, PTL DEF Spec, SlashedIsLost
-----------------------------------------------------------------------------
(* Types *)

LEMMA PowersAreNumbers ==
    ASSUME NEW k \in 0..10
    PROVE  2^k \in Nat
  <1>1. \/ k = 0 \/ k = 1 \/ k = 2 \/ k = 3 \/ k = 4 \/ k = 5
        \/ k = 6 \/ k = 7 \/ k = 8 \/ k = 9 \/ k = 10
    OBVIOUS
  <1>2. /\ 2^0 \in Nat /\ 2^1 \in Nat /\ 2^2 \in Nat /\ 2^3 \in Nat /\ 2^4 \in Nat /\ 2^5 \in Nat
        /\ 2^6 \in Nat /\ 2^7 \in Nat /\ 2^8 \in Nat /\ 2^9 \in Nat /\ 2^10 \in Nat
    OBVIOUS
  <1>. QED
    BY <1>1, <1>2

\* A verdict that expires leaves an entry.
LEMMA HealedIsEntry ==
    ASSUME NEW e \in Entry, NEW daa
    PROVE  Healed(e, daa) \in Entry
  <1>. DEFINE cap  == IF e.cap # 0 /\ daa >= e.capset + CapExpiry THEN 0 ELSE e.cap
              dead == e.dead /\ ~(e.after = None \/ daa >= e.after + CapExpiry * 2^Smaller(e.retries, 10))
  <1>1. Healed(e, daa) = [e EXCEPT !.cap = cap, !.dead = dead]
    BY Zenon DEF Healed
  <1>2. cap \in 0..MaxClaimBatch
    BY MaxClaimBatchAssumption DEF Entry
  <1>3. dead \in BOOLEAN
    BY Zenon
  <1>. HIDE DEF cap, dead
  <1>. QED
    BY <1>1, <1>2, <1>3 DEF Entry

\* A cooldown is a number of blocks.
LEMMA BackoffIsNumber ==
    ASSUME NEW n \in Nat
    PROVE  Backoff(n) \in Nat
  <1>1. Smaller(n, 9) \in 0..10
    BY DEF Smaller
  <1>2. 2^Smaller(n, 9) \in Nat
    BY <1>1, PowersAreNumbers
  <1>3. PICK p \in Nat : p = 2^Smaller(n, 9)
    BY <1>2
  <1>4. UnknownCooldown * p \in Nat /\ MaxUnknownCooldown \in Nat
    BY DurationsAssumption
  <1>. QED
    BY <1>3, <1>4 DEF Backoff, Smaller

\* A halved cap is one a batch may have.
LEMMA CappedIsEntry ==
    ASSUME NEW e \in Entry, NEW n \in Nat, n <= MaxClaimBatch, NEW daa \in Nat
    PROVE  Capped(e, n, daa) \in Entry /\ Capped(e, n, daa).submits = e.submits
  <1>1. HalvedCap(n) \in 0..MaxClaimBatch
    BY MaxClaimBatchAssumption DEF HalvedCap
  <1>. HIDE DEF HalvedCap
  <1>. QED
    BY <1>1 DEF Capped, Entry

\* A rejection leaves an entry.
LEMMA RejectedIsEntry ==
    ASSUME NEW e \in Entry, NEW msg, NEW n \in Nat, n <= MaxClaimBatch, NEW daa \in Nat
    PROVE  Rejected(e, msg, n, daa) \in Entry
  <1>. DEFINE r == Rejected(e, msg, n, daa)
  <1>1. Capped(e, n, daa) \in Entry /\ Capped(e, n, daa).submits = e.submits
    BY CappedIsEntry
  <1>2. CASE msg.kind = "orphan" /\ n > 1
    <2>1. r = Capped(e, n, daa)
      BY <1>2 DEF Rejected
    <2>. QED
      BY <1>1, <2>1
  <1>3. CASE msg.kind = "orphan" /\ n = 1
    <2>1. \/ r = [e EXCEPT !.retries = @ + 1, !.dead = FALSE, !.slashed = TRUE]
          \/ r = [e EXCEPT !.retries = @ + 1, !.dead = TRUE, !.after = daa + OrphanCooldown]
      BY <1>3 DEF Rejected
    <2>2. daa + OrphanCooldown \in Nat /\ e.retries + 1 \in Nat
      BY DurationsAssumption DEF Entry
    <2>. HIDE DEF r
    <2>3. \A m, w \in Nat : /\ [e EXCEPT !.retries = m, !.dead = FALSE, !.slashed = TRUE] \in Entry
                            /\ [e EXCEPT !.retries = m, !.dead = TRUE, !.after = w] \in Entry
      BY DEF Entry
    <2>4. r \in Entry
      BY <2>1, <2>2, <2>3
    <2>. QED
      BY <2>4 DEF r
  <1>4. CASE msg.kind = "seqlock"
    <2>1. r = [e EXCEPT !.after = daa + SeqLockCooldown]
      BY <1>4 DEF Rejected
    <2>2. daa + SeqLockCooldown \in Nat
      BY DurationsAssumption
    <2>. HIDE DEF r
    <2>. QED
      BY <2>1, <2>2 DEF Entry, r
  <1>5. CASE msg.kind = "burned" /\ msg.named # {}
    <2>1. r = [e EXCEPT !.slashed = @ \/ e.o \in msg.named]
      BY <1>5 DEF Rejected
    <2>. HIDE DEF r
    <2>. QED
      BY <2>1 DEF Entry, r
  <1>6. CASE msg.kind = "burned" /\ msg.named = {}
    <2>1. r = Capped(e, n, daa) \/ r = [e EXCEPT !.slashed = TRUE]
      BY <1>6 DEF Rejected
    <2>. HIDE DEF r
    <2>. QED
      BY <1>1, <2>1 DEF Entry, r
  <1>7. CASE msg.kind \notin {"orphan", "seqlock", "burned"} \/ (msg.kind = "orphan" /\ ~(n > 1) /\ n # 1)
    <2>. DEFINE x == IF n > 1 THEN Capped(e, n, daa) ELSE e
                wait == Backoff(e.submits + 1)
    <2>1. r = [x EXCEPT !.submits = @ + 1, !.after = daa + wait]
      BY <1>7 DEF Rejected
    <2>2. x \in Entry
      BY <1>1
    <2>3. wait \in Nat
      <3>1. e.submits + 1 \in Nat
        BY DEF Entry
      <3>. QED
        BY <3>1, BackoffIsNumber
    <2>. HIDE DEF r, x, wait
    <2>4. daa + wait \in Nat /\ x.submits + 1 \in Nat
      BY <2>2, <2>3 DEF Entry
    <2>5. \A m, w \in Nat : [x EXCEPT !.submits = m, !.after = w] \in Entry
      BY <2>2 DEF Entry
    <2>6. r \in Entry
      BY <2>1, <2>4, <2>5
    <2>. QED
      BY <2>6 DEF r
  <1>. QED
    BY <1>2, <1>3, <1>4, <1>5, <1>6, <1>7

\* Entries that are not live any more.
LEMMA SlashedAreEntries ==
    ASSUME NEW es \in Seq(Entry), NEW at
    PROVE  SlashAt(es, at) \in Seq(Entry)
  <1>1. ASSUME NEW i \in 1..Len(es) PROVE SlashAt(es, at)[i] \in Entry
    <2>1. es[i] \in Entry
      OBVIOUS
    <2>2. [es[i] EXCEPT !.slashed = TRUE] \in Entry
      BY <2>1 DEF Entry
    <2>. QED
      BY <2>1, <2>2 DEF SlashAt
  <1>2. SlashAt(es, at) \in [1..Len(es) -> Entry]
    <2>1. SlashAt(es, at) = [i \in 1..Len(es) |-> SlashAt(es, at)[i]]
      BY DEF SlashAt
    <2>. QED
      BY <1>1, <2>1
  <1>. QED
    BY <1>2

LEMMA CompactedAreEntries ==
    ASSUME NEW es \in Seq(Entry)
    PROVE  Compacted(es) \in Seq(Entry)
  <1>. DEFINE K == Kept(es)
              c == Cardinality(K)
              n == Len(es)
  <1>1. n \in Nat /\ K \in SUBSET (1..n)
    BY DEF Kept
  <1>2. c \in Nat
    <2>. HIDE DEF n, K
    <2>1. IsFiniteSet(1..n)
      BY <1>1, FS_Interval
    <2>. QED
      BY <1>1, <2>1, FS_Subset, FS_CardinalityType
  <1>3. \A k \in 1..c : Nth(K, k) \in K
    <2>. HIDE DEF n, K
    <2>. QED
      BY <1>1, NthExists
  <1>4. \A k \in 1..c : es[Nth(K, k)] \in Entry
    BY <1>1, <1>3
  <1>5. Compacted(es) = [k \in 1..c |-> es[Nth(K, k)]]
    BY DEF Compacted
  <1>. HIDE DEF K, c, n
  <1>6. Compacted(es) \in [1..c -> Entry]
    BY <1>4, <1>5
  <1>. QED
    BY <1>2, <1>6

LEMMA EntryFlags ==
    ASSUME NEW e \in Entry
    PROVE  e.cap \in Nat /\ e.dead \in BOOLEAN
  <1>1. MaxClaimBatch \in Nat
    BY MaxClaimBatchAssumption
  <1>2. e.cap \in 0..MaxClaimBatch /\ e.dead \in BOOLEAN
    BY DEF Entry
  <1>. QED
    BY <1>1, <1>2

LEMMA NewIsEntry ==
    ASSUME NEW o \in Outpoints, NEW daa \in Nat
    PROVE  NewEntry(o, daa) \in Entry
  BY MaxClaimBatchAssumption DEF NewEntry, Entry, None

\* The scores, the entries and the claims have their types, and a claim is no larger than a batch.
YInv ==
    /\ tip \in 0..MaxDaa /\ last_daa_score \in 0..MaxDaa
    /\ entries \in Seq(Entry)
    /\ \A t \in DOMAIN in_flight : Len(t) <= MaxClaimBatch /\ in_flight[t] \in 0..MaxDaa
    /\ outpoint_set \subseteq Outpoints
    /\ validation_pending \subseteq Coinbase

LEMMA TypesFollow ==
    ASSUME TInv, FInv, YInv
    PROVE  TypeOK
  BY DEF TInv, FInv, YInv, TypeOK, Books, Claim

\* find_claim: the entries stay entries, and a new claim is no larger than a batch.
LEMMA FindKeepsTypes ==
    ASSUME NEW es \in Seq(Entry), NEW waiting \in SUBSET (DOMAIN in_flight), NEW daa \in 0..MaxDaa,
           FindClaim(es, waiting, daa),
           \A t \in DOMAIN in_flight : Len(t) <= MaxClaimBatch /\ in_flight[t] \in 0..MaxDaa
    PROVE  /\ entries' \in Seq(Entry)
           /\ \A t \in DOMAIN in_flight' : Len(t) <= MaxClaimBatch /\ in_flight'[t] \in 0..MaxDaa
  <1>. DEFINE n      == Len(es)
              flying == Spending(waiting)
              open   == Cardinality(waiting) < MaxInFlightClaims /\ validation_pending = {}
              healed == IF open THEN [i \in 1..Len(es) |-> Healed(es[i], daa)] ELSE es
              view   == [i \in 1..Len(es) |-> View(healed[i], daa, flying)]
              batch  == IF open THEN SelectClaimBatch(view, CurrentWindow(daa)) ELSE <<>>
              txid   == [k \in 1..Len(batch) |-> healed[batch[k]].o]
              claims == waiting \cup (IF Buildable(txid) THEN {txid} ELSE {})
  <1>1. entries' = healed /\ in_flight' = [t \in claims |-> IF t \in waiting THEN in_flight[t] ELSE daa]
    BY Zenon DEF FindClaim
  <1>2. healed \in Seq(Entry) /\ Len(healed) = Len(es) /\ Len(es) \in Nat
    <2>1. [i \in 1..Len(es) |-> Healed(es[i], daa)] \in [1..Len(es) -> Entry]
      <3>1. \A i \in 1..Len(es) : Healed(es[i], daa) \in Entry
        BY HealedIsEntry
      <3>. QED
        BY <3>1
    <2>. HIDE DEF open
    <2>. QED
      BY <2>1
  <1>. HIDE DEF healed, flying, open
  <1>3. Viewed(view)
    <2>1. ASSUME NEW i \in 1..Len(es)
          PROVE  view[i].cap \in Nat /\ view[i].window # AnyWindow /\ view[i].dead \in BOOLEAN
      <3>1. healed[i] \in Entry
        BY <1>2, <2>1
      <3>2. view[i].cap = healed[i].cap /\ view[i].dead = healed[i].dead /\ view[i].window = WindowOf(healed[i].o)
        BY <2>1 DEF View
      <3>3. healed[i].cap \in Nat /\ healed[i].dead \in BOOLEAN
        BY <3>1, EntryFlags, Zenon
      <3>4. WindowOf(healed[i].o) # AnyWindow
        BY DurationsAssumption DEF WindowOf, AnyWindow
      <3>. QED
        BY <3>2, <3>3, <3>4
    <2>2. Len(view) = Len(es)
      BY <1>2
    <2>. HIDE DEF view
    <2>. QED
      BY <1>2, <2>1, <2>2 DEF Viewed
  <1>. HIDE DEF view
  <1>4. Len(batch) \in Nat /\ Len(batch) <= MaxClaimBatch
    <2>1. CASE open
      <3>1. batch = SelectClaimBatch(view, CurrentWindow(daa))
        BY <2>1
      <3>. HIDE DEF batch
      <3>2. Len(batch) <= MaxClaimBatch
        BY <1>3, <3>1, BatchesAreTransactions DEF OneTransaction, CapsRespected
      <3>3. Once(batch, Len(view))
        BY <1>3, <3>1, SelectionOnce DEF Viewed
      <3>. QED
        BY <3>2, <3>3 DEF Once
    <2>2. CASE ~open
      <3>1. batch = <<>>
        BY <2>2
      <3>. HIDE DEF batch
      <3>. QED
        BY <3>1, MaxClaimBatchAssumption
    <2>. QED
      BY <2>1, <2>2
  <1>. HIDE DEF batch
  <1>5. Len(txid) = Len(batch)
    BY <1>4
  <1>. HIDE DEF txid
  <1>6. claims \subseteq waiting \cup {txid} /\ DOMAIN in_flight' = claims
    BY <1>1
  <1>. HIDE DEF claims
  <1>7. ASSUME NEW t \in DOMAIN in_flight'
        PROVE  Len(t) <= MaxClaimBatch /\ in_flight'[t] \in 0..MaxDaa
    <2>1. CASE t \in waiting
      BY <1>1, <1>6, <1>7, <2>1
    <2>2. CASE t \notin waiting
      BY <1>1, <1>4, <1>5, <1>6, <1>7, <2>2
    <2>. QED
      BY <2>1, <2>2
  <1>. QED
    BY <1>1, <1>2, <1>7

\* handle_block.
LEMMA HandlingKeepsTypes ==
    ASSUME YInv, NEW reds, NEW new \in SUBSET Coinbase, new = {} \/ \E b : new = {b},
           \E daa \in Scores, compacting \in BOOLEAN : HandleBlock(daa, compacting, reds, new),
           UNCHANGED <<tip, validation_pending>>
    PROVE  YInv'
  <1>1. PICK daa \in Scores, compacting \in BOOLEAN : HandleBlock(daa, compacting, reds, new)
    OBVIOUS
  <1>2. daa \in 0..MaxDaa /\ daa \in Nat
    BY DurationsAssumption DEF Scores, YInv
  <1>. DEFINE base    == IF compacting THEN Compacted(entries) ELSE entries
              rebuilt == Len(base) # Len(entries)
              index   == IF rebuilt THEN IndexOf(base) ELSE block_index
              known   == IF rebuilt THEN OutpointsOf(base) ELSE outpoint_set
              at      == UNION {index[b] : b \in reds}
              slashed == SlashAt(base, at)
              fresh   == new \ known
              fs      == {NewEntry(o, daa) : o \in fresh}
              es      == slashed \o SetToSeq(fs)
  <1>3. /\ last_daa_score' = daa /\ outpoint_set' = known \cup fresh /\ FindClaim(es, Awaited(daa), daa)
    BY <1>1 DEF HandleBlock
  <1>4. base \in Seq(Entry)
    BY CompactedAreEntries DEF YInv
  <1>. HIDE DEF base
  <1>5. known \subseteq Outpoints
    <2>1. OutpointsOf(base) \subseteq Outpoints
      <3>1. ASSUME NEW i \in 1..Len(base) PROVE base[i].o \in Outpoints
        <4>1. base[i] \in Entry
          BY <1>4
        <4>. QED
          BY <4>1 DEF Entry
      <3>. QED
        BY <3>1 DEF OutpointsOf
    <2>. QED
      BY <2>1 DEF YInv
  <1>6. slashed \in Seq(Entry)
    BY <1>4, SlashedAreEntries
  <1>. HIDE DEF known, slashed, index, at
  <1>7. SetToSeq(fs) \in Seq(Entry)
    <2>1. fs \subseteq Entry
      BY <1>2, NewIsEntry DEF Outpoints
    <2>2. IsFiniteSet(fs)
      <3>1. fs = {} \/ \E x : fs = {x}
        OBVIOUS
      <3>2. IsFiniteSet({}) /\ \A x : IsFiniteSet({x})
        BY FS_EmptySet, FS_Singleton
      <3>. HIDE DEF fs
      <3>. QED
        BY <3>1, <3>2
    <2>. HIDE DEF fs
    <2>3. SetToSeq(fs) \in Seq(fs)
      BY <2>2, SetToSeqLists
    <2>. QED
      BY <2>1, <2>3, SeqMonotonic
  <1>8. es \in Seq(Entry)
    <2>. HIDE DEF fs
    <2>. QED
      BY <1>6, <1>7, ConcatProperties
  <1>. HIDE DEF es, fs
  <1>9. Awaited(daa) \in SUBSET (DOMAIN in_flight)
    BY DEF Awaited
  <1>10. \A t \in DOMAIN in_flight : Len(t) <= MaxClaimBatch /\ in_flight[t] \in 0..MaxDaa
    BY DEF YInv
  <1>11. /\ entries' \in Seq(Entry)
         /\ \A t \in DOMAIN in_flight' : Len(t) <= MaxClaimBatch /\ in_flight'[t] \in 0..MaxDaa
    BY <1>2, <1>3, <1>8, <1>9, <1>10, FindKeepsTypes
  <1>12. outpoint_set' \subseteq Outpoints
    BY <1>3, <1>5 DEF Outpoints
  <1>. QED
    BY <1>2, <1>3, <1>11, <1>12 DEF YInv, Entry, Outpoints

\* The answer to a claim.
LEMMA AnswerKeepsTypes ==
    ASSUME FInv, YInv, OnSubmitResponse
    PROVE  YInv'
  <1>. DEFINE t == NextMsg.txid
              D == DOMAIN in_flight
              done == NextMsg.kind \in Settling
              Settled(e) == IF done THEN [e EXCEPT !.claimed = TRUE] ELSE Rejected(e, NextMsg, Len(t), last_daa_score)
  <1>1. UNCHANGED <<tip, last_daa_score, outpoint_set, validation_pending>>
    BY DEF OnSubmitResponse, node
  <1>2. CASE t \notin D
    <2>1. UNCHANGED <<entries, in_flight>>
      BY <1>2 DEF OnSubmitResponse
    <2>. QED
      BY <1>1, <2>1 DEF YInv, Entry, Outpoints
  <1>3. CASE t \in D
    <2>1. /\ in_flight' = [u \in D \ {t} |-> in_flight[u]]
          /\ entries' = [i \in 1..Len(entries) |->
                            IF i \in Found(entries, ToSet(t)) THEN Settled(entries[i]) ELSE entries[i]]
      BY <1>3 DEF OnSubmitResponse
    <2>2. Len(t) \in Nat /\ Len(t) <= MaxClaimBatch /\ last_daa_score \in Nat
      <3>1. Claim(t) /\ Len(t) <= MaxClaimBatch /\ last_daa_score \in 0..MaxDaa
        BY <1>3 DEF FInv, YInv
      <3>. HIDE DEF t
      <3>. QED
        BY <3>1, DurationsAssumption DEF Claim
    <2>3. ASSUME NEW e \in Entry PROVE Settled(e) \in Entry
      <3>1. [e EXCEPT !.claimed = TRUE] \in Entry
        BY DEF Entry
      <3>2. Rejected(e, NextMsg, Len(t), last_daa_score) \in Entry
        <4>. HIDE DEF t
        <4>. QED
          BY <2>2, RejectedIsEntry
      <3>. QED
        BY <3>1, <3>2
    <2>. HIDE DEF Settled, t
    <2>4. entries' \in Seq(Entry)
      <3>1. entries \in Seq(Entry)
        BY DEF YInv
      <3>2. \A i \in 1..Len(entries) : entries[i] \in Entry
        BY <3>1
      <3>3. entries' \in [1..Len(entries) -> Entry]
        BY <2>1, <2>3, <3>2
      <3>. QED
        BY <3>1, <3>3
    <2>5. \A u \in DOMAIN in_flight' : Len(u) <= MaxClaimBatch /\ in_flight'[u] \in 0..MaxDaa
      BY <2>1 DEF YInv
    <2>. QED
      BY <1>1, <2>4, <2>5 DEF YInv, Entry, Outpoints
  <1>. QED
    BY <1>2, <1>3

LEMMA TypesInit ==
    ASSUME Init
    PROVE  YInv
  <1>1. /\ tip = 0 /\ last_daa_score = 0 /\ in_flight = [t \in {} |-> 0]
        /\ outpoint_set = Ghosts /\ validation_pending = Ghosts
    BY DEF Init
  <1>2. 0 \in 0..MaxDaa /\ Ghosts \subseteq Coinbase
    BY DurationsAssumption, OutpointsAssumption
  <1>3. entries \in Seq(ToSet(entries)) /\ \A i \in 1..Len(entries) : entries[i] \in Entry
    BY <1>2, LoadedEntries, NewIsEntry DEF Outpoints
  <1>4. entries \in Seq(Entry)
    BY <1>3, SeqDef
  <1>. QED
    BY <1>1, <1>2, <1>4 DEF YInv, Outpoints

LEMMA TypesStep ==
    ASSUME VInv, TInv, FInv, YInv, [Next]_vars
    PROVE  YInv'
  <1>0. Listed /\ SInv
    BY DEF VInv, TInv
  <1>1. ASSUME Read PROVE WellFormed(NextMsg)
    BY <1>0, <1>1, ReadEffect DEF SInv
  <1>2. CASE OnBlockAdded
    <2>1. /\ UNCHANGED <<tip, validation_pending>>
          /\ \E daa \in Scores, compacting \in BOOLEAN : HandleBlock(daa, compacting, NextMsg.reds, {})
      BY <1>2 DEF OnBlockAdded, node
    <2>2. {} \in SUBSET Coinbase
      OBVIOUS
    <2>. QED
      BY <2>1, <2>2, HandlingKeepsTypes
  <1>3. CASE OnBlock
    <2>. DEFINE new == IF NextMsg.full /\ NextMsg.on_chain THEN {NextMsg.b} ELSE {}
    <2>1. /\ Read /\ NextMsg.kind = "block" /\ UNCHANGED <<tip, validation_pending>>
          /\ \E daa \in Scores, compacting \in BOOLEAN : HandleBlock(daa, compacting, {}, new)
      BY <1>3 DEF OnBlock, node
    <2>2. new \in SUBSET Coinbase /\ (new = {} \/ \E b : new = {b})
      BY <1>1, <2>1 DEF WellFormed
    <2>. HIDE DEF new
    <2>. QED
      BY <2>1, <2>2, HandlingKeepsTypes
  <1>4. CASE OnValidated \/ OnBlockError \/ OnChainChanged
    <2>1. /\ UNCHANGED <<tip, last_daa_score, in_flight>> /\ outpoint_set' \subseteq outpoint_set
          /\ validation_pending' \subseteq validation_pending
          /\ (entries' = entries \/ \E at : entries' = SlashAt(entries, at))
      BY <1>4 DEF OnValidated, OnBlockError, OnChainChanged, node
    <2>2. entries' \in Seq(Entry)
      BY <2>1, SlashedAreEntries DEF YInv
    <2>. QED
      BY <2>1, <2>2 DEF YInv, Entry, Outpoints
  <1>5. CASE OnSubmitResponse
    BY <1>5, AnswerKeepsTypes
  <1>6. CASE \E o \in Inference : TrackInference(o)
    <2>1. PICK o \in Inference : TrackInference(o)
      BY <1>6
    <2>2. /\ entries' = Append(entries, NewEntry(o, tip)) /\ outpoint_set' = outpoint_set \cup {o}
          /\ UNCHANGED <<tip, last_daa_score, in_flight, validation_pending>>
      BY <2>1 DEF TrackInference, node
    <2>3. tip \in Nat /\ o \in Outpoints
      BY DurationsAssumption DEF YInv, Outpoints
    <2>4. NewEntry(o, tip) \in Entry
      BY <2>3, NewIsEntry
    <2>5. entries' \in Seq(Entry)
      BY <2>2, <2>4, AppendProperties DEF YInv
    <2>. QED
      BY <2>2, <2>3, <2>5 DEF YInv, Entry, Outpoints
  <1>7. CASE Reconnect
    <2>1. /\ in_flight' = [t \in {} |-> 0] /\ last_daa_score' = 0 /\ UNCHANGED <<entries, tip>>
          /\ outpoint_set' = OutpointsOf(entries) /\ validation_pending' \subseteq Coinbase
      BY <1>7 DEF Reconnect, ConnectTo, node
    <2>2. OutpointsOf(entries) \subseteq Outpoints
      BY DEF OutpointsOf, TInv, Books, Formed
    <2>3. 0 \in 0..MaxDaa
      BY DurationsAssumption
    <2>. QED
      BY <2>1, <2>2, <2>3 DEF YInv, Entry, Outpoints
  <1>8. CASE NodeNext \/ UNCHANGED vars
    <2>1. UNCHANGED <<entries, last_daa_score, in_flight, outpoint_set, validation_pending>>
      BY <1>8 DEF NodeNext, NodeAddsBlock, NodeChangesChain, NodeAnswersBlock, ChainRestoreAsks, NodeAnswersClaim,
                  NodeBurns, vars, watcher
    <2>2. tip' = tip \/ tip' = IF tip < MaxDaa THEN tip + 1 ELSE tip
      BY <1>8 DEF NodeNext, NodeAddsBlock, NodeChangesChain, NodeAnswersBlock, ChainRestoreAsks, NodeAnswersClaim,
                  NodeBurns, vars, node
    <2>3. tip' \in 0..MaxDaa
      BY SMTT(60), <2>2, DurationsAssumption DEF YInv
    <2>. QED
      BY <2>1, <2>3 DEF YInv, Entry, Outpoints
  <1>. QED
    BY <1>2, <1>3, <1>4, <1>5, <1>6, <1>7, <1>8 DEF Next, WatcherNext

\* The books of the claims are right: the state has its types, what is in flight is what unanswered
\* claims spend, each output in one of them, and what is marked claimed was paid.
THEOREM ClaimsStayExact == Spec => []ClaimsAreExact
  <1>. DEFINE IInv == VInv /\ TInv /\ PInv /\ FInv /\ LInv /\ YInv
  <1>1. Init => IInv
    BY ValidationInit, TrackingInit, PaymentsInit, LostInit, TypesInit
  <1>2. IInv /\ [Next]_vars => IInv'
    BY ValidationStep, TrackingStep, PaymentsStep, LostStep, TypesStep
  <1>3. IInv => ClaimsAreExact
    BY TypesFollow, InFlightIsExact, PaidIsSpent DEF ClaimsAreExact
  <1>. QED
    BY <1>1, <1>2, <1>3, PTL DEF Spec
-----------------------------------------------------------------------------
(* What is followed *)

\* The outputs this connection can only have learnt of from the chain.
Followed == Coinbase \ (Ghosts \cup Unknown)

\* The index of a block names entries of its output only.
Indexed(es, index) == \A b \in Coinbase : \A i \in index[b] : es[i].o = b

\* A known output has a live entry, or nothing is left of it.
Accounted(es, known, lostForGood) == \A b \in Followed \cap known : b \in Held(es) \cup lostForGood

\* Of the known outputs only worthless ones are forgotten.
Lasting(known, after, lostForGood) == (known \cap Followed) \ lostForGood \subseteq after

\* Compaction loses no live entry, and knows no other output.
LEMMA CompactedHolds ==
    ASSUME NEW es, NEW known, NEW index, Books(es, known, index), NEW base, base = Compacted(es)
    PROVE  Held(es) \subseteq Held(base) /\ OutpointsOf(base) \subseteq Held(base)
  <1>. DEFINE K == Kept(es)
              c == Cardinality(K)
              n == Len(es)
  <1>1. n \in Nat /\ K \in SUBSET (1..n) /\ K \in SUBSET Nat
    BY DEF Books, Kept
  <1>2. IsFiniteSet(K) /\ c \in Nat
    <2>1. IsFiniteSet(1..n)
      <3>. HIDE DEF n
      <3>. QED
        BY <1>1, FS_Interval
    <2>. QED
      BY <1>1, <2>1, FS_Subset, FS_CardinalityType
  <1>3. base = [k \in 1..c |-> es[Nth(K, k)]]
    BY DEF Compacted
  <1>. HIDE DEF K, n
  <1>4. /\ InOrder(K) = [k \in 1..c |-> Nth(K, k)]
        /\ InOrder(K) \in Seq(K) /\ \A i \in K : \E k \in 1..Len(InOrder(K)) : InOrder(K)[k] = i
    BY <1>1, <1>2, InOrderOnce DEF InOrder
  <1>. HIDE DEF c
  <1>5. base \in Seq(ToSet(base)) /\ Len(base) = c
    <2>1. base = [k \in 1..c |-> base[k]]
      BY <1>3
    <2>. QED
      BY <1>2, <2>1, IsListed
  <1>6. Len(InOrder(K)) = c
    <2>. DEFINE s == InOrder(K)
    <2>1. s = [k \in 1..c |-> s[k]]
      BY <1>4
    <2>. HIDE DEF s
    <2>2. s \in Seq(ToSet(s)) /\ Len(s) = c
      BY <1>2, <2>1, IsListed
    <2>. QED
      BY <2>2 DEF s
  <1>7. ASSUME NEW k \in 1..c PROVE base[k] = es[Nth(K, k)] /\ Nth(K, k) = InOrder(K)[k] /\ Nth(K, k) \in K
    <2>1. base[k] = es[Nth(K, k)] /\ Nth(K, k) = InOrder(K)[k]
      BY <1>3, <1>4
    <2>2. InOrder(K)[k] \in K
      <3>. DEFINE s == InOrder(K)
      <3>1. s \in Seq(K) /\ Len(s) = c
        BY <1>4, <1>6
      <3>. HIDE DEF s
      <3>2. s[k] \in K
        BY <3>1
      <3>. QED
        BY <3>2 DEF s
    <2>. QED
      BY <2>1, <2>2
  <1>8. \A k \in 1..c : Live(base[k]) /\ k \in Kept(base)
    BY <1>5, <1>7 DEF K, Kept
  <1>9. ASSUME NEW i \in K PROVE es[i].o \in Held(base)
    <2>1. PICK k \in 1..c : Nth(K, k) = i
      BY ZenonT(60), <1>4, <1>6, <1>7
    <2>. QED
      BY <1>7, <1>8, <2>1 DEF Held
  <1>10. Held(es) \subseteq Held(base)
    BY <1>9 DEF Held, K
  <1>11. OutpointsOf(base) \subseteq Held(base)
    BY <1>5, <1>8 DEF OutpointsOf, Held
  <1>. QED
    BY <1>10, <1>11

\* Slashing the entries of blocks leaves the other outputs as they are.
LEMMA SlashSpares ==
    ASSUME NEW es, NEW known, NEW index, Books(es, known, index), Indexed(es, index),
           NEW R \in SUBSET Coinbase, NEW at, \A i \in at : \E b \in R : i \in index[b]
    PROVE  Held(es) \ R \subseteq Held(SlashAt(es, at)) /\ Indexed(SlashAt(es, at), index)
  <1>. DEFINE fs == SlashAt(es, at)
              n == Len(es)
  <1>1. Tamer(fs, es)
    BY SlashTames
  <1>2. \A i \in 1..n : i \notin at => fs[i] = es[i]
    BY DEF SlashAt
  <1>. HIDE DEF fs
  <1>3. Len(fs) = n /\ \A i \in 1..n : fs[i].o = es[i].o
    BY <1>1, TamerKeepsBooks DEF Tamer
  <1>4. \A b \in Coinbase : index[b] \subseteq 1..n
    BY DEF Books
  <1>5. Indexed(fs, index)
    BY <1>3, <1>4 DEF Indexed
  <1>6. ASSUME NEW i \in 1..n, Live(es[i]), es[i].o \notin R PROVE es[i].o \in Held(fs)
    <2>1. i \notin at
      BY <1>6 DEF Indexed
    <2>2. fs[i] = es[i] /\ i \in Kept(fs)
      BY <1>2, <1>3, <1>6, <2>1 DEF Kept
    <2>. QED
      BY <2>2 DEF Held
  <1>7. Held(es) \ R \subseteq Held(fs)
    BY <1>6 DEF Held, Kept
  <1>. QED
    BY <1>5, <1>7 DEF fs

\* A new entry hides none and is found.
LEMMA NewEntryHolds ==
    ASSUME NEW es, NEW known, NEW index, Books(es, known, index), Indexed(es, index), NEW o, NEW daa
    PROVE  /\ Held(es) \cup {o} \subseteq Held(Append(es, NewEntry(o, daa)))
           /\ \A found : (\A b \in Coinbase : found[b] \subseteq index[b] \cup (IF b = o THEN {Len(es) + 1} ELSE {}))
                            => Indexed(Append(es, NewEntry(o, daa)), found)
  <1>. DEFINE new == NewEntry(o, daa)
              fs == Append(es, new)
              n == Len(es)
  <1>1. n \in Nat /\ es \in Seq(ToSet(es) \cup {new})
    <2>1. es \in Seq(ToSet(es)) /\ ToSet(es) \subseteq ToSet(es) \cup {new}
      BY DEF Books
    <2>. HIDE DEF new
    <2>. QED
      BY <2>1, SeqMonotonic
  <1>2. new.o = o /\ Live(new)
    BY DEF NewEntry, Live
  <1>. HIDE DEF new, n
  <1>3. /\ Len(fs) = n + 1 /\ fs[n + 1] = new
        /\ \A i \in 1..n : fs[i] = es[i] /\ i \in 1..(n + 1)
        /\ n + 1 \in 1..(n + 1)
    BY <1>1, AppendProperties DEF n
  <1>. HIDE DEF fs
  <1>4. Held(es) \cup {o} \subseteq Held(fs)
    <2>1. o \in Held(fs)
      <3>1. n + 1 \in Kept(fs)
        BY <1>2, <1>3 DEF Kept
      <3>. QED
        BY <1>2, <1>3, <3>1 DEF Held
    <2>2. ASSUME NEW i \in Kept(es) PROVE es[i].o \in Held(fs)
      <3>1. i \in Kept(fs) /\ fs[i] = es[i]
        BY <1>3 DEF Kept, n
      <3>. QED
        BY <3>1 DEF Held
    <2>. QED
      BY <2>1, <2>2 DEF Held
  <1>5. ASSUME NEW found, \A b \in Coinbase : found[b] \subseteq index[b] \cup (IF b = o THEN {n + 1} ELSE {})
        PROVE  Indexed(fs, found)
    <2>. SUFFICES ASSUME NEW b \in Coinbase, NEW i \in found[b] PROVE fs[i].o = b
      BY DEF Indexed
    <2>1. CASE i \in index[b]
      <3>1. es[i].o = b /\ i \in 1..n
        BY <2>1 DEF Indexed, Books, n
      <3>. QED
        BY <1>3, <3>1
    <2>2. CASE b = o /\ i = n + 1
      BY <1>2, <1>3, <2>2
    <2>. QED
      BY <1>5, <2>1, <2>2
  <1>. QED
    BY <1>4, <1>5 DEF fs, n, new

\* Healing leaves live what was.
LEMMA HealingSpares ==
    ASSUME NEW es, NEW known, NEW index, Books(es, known, index), Indexed(es, index), NEW daa, NEW fs,
           fs = es \/ fs = [i \in 1..Len(es) |-> Healed(es[i], daa)]
    PROVE  Held(es) \subseteq Held(fs) /\ Indexed(fs, index)
  <1>1. CASE fs = es
    BY <1>1
  <1>2. CASE fs = [i \in 1..Len(es) |-> Healed(es[i], daa)]
    <2>1. ASSUME NEW i \in 1..Len(es)
          PROVE  Healed(es[i], daa).o = es[i].o /\ (Live(es[i]) => Live(Healed(es[i], daa)))
      <3>1. Formed(es[i])
        BY DEF Books
      <3>. QED
        BY <3>1 DEF Formed, EntryFields, Live, Healed
    <2>2. Len(fs) = Len(es) /\ \A i \in 1..Len(es) : fs[i] = Healed(es[i], daa)
      <3>1. Len(es) \in Nat
        BY DEF Books
      <3>. QED
        BY <1>2, <3>1
    <2>3. \A i \in Kept(es) : i \in Kept(fs) /\ fs[i].o = es[i].o
      BY <2>1, <2>2 DEF Kept
    <2>4. Held(es) \subseteq Held(fs)
      BY <2>3 DEF Held
    <2>5. \A b \in Coinbase : index[b] \subseteq 1..Len(es)
      BY DEF Books
    <2>. QED
      BY SMTT(60), <2>1, <2>2, <2>4, <2>5 DEF Indexed
  <1>. QED
    BY <1>1, <1>2

\* handle_block loses no followed output: what was known and is worth something stays known, and
\* the block it scans becomes so.  The red blocks it slashes have no live entry left by then.
LEMMA HandlingFollows ==
    ASSUME Books(entries, outpoint_set, block_index), Indexed(entries, block_index),
           NEW worthless, Accounted(entries, outpoint_set, worthless),
           NEW daa, NEW compacting \in BOOLEAN, NEW reds \in SUBSET Coinbase,
           NEW new \in SUBSET Coinbase, new = {} \/ \E b : new = {b},
           reds \cap Followed \cap Held(entries) = {},
           HandleBlock(daa, compacting, reds, new)
    PROVE  /\ Indexed(entries', block_index') /\ Accounted(entries', outpoint_set', worthless)
           /\ Lasting(outpoint_set, outpoint_set', worthless)
  <1>. DEFINE base    == IF compacting THEN Compacted(entries) ELSE entries
              rebuilt == Len(base) # Len(entries)
              index   == IF rebuilt THEN IndexOf(base) ELSE block_index
              known   == IF rebuilt THEN OutpointsOf(base) ELSE outpoint_set
              at      == UNION {index[b] : b \in reds}
              slashed == SlashAt(base, at)
              fresh   == new \ known
              es      == slashed \o SetToSeq({NewEntry(o, daa) : o \in fresh})
              found   == [b \in Coinbase |-> index[b] \cup (IF b \in fresh THEN {Len(es)} ELSE {})]
  <1>1. Books(base, known, index) /\ Held(base) = Held(entries)
    <2>1. Books(base, known, index) /\ Held(base) \subseteq Held(entries)
      BY CompactedBooks
    <2>2. Held(entries) \subseteq Held(base)
      BY CompactedHolds
    <2>. HIDE DEF base, known, index
    <2>. QED
      BY <2>1, <2>2
  <1>2. Indexed(base, index) /\ (known \subseteq Held(base) \/ known = outpoint_set)
    <2>1. CASE ~rebuilt
      <3>1. base = entries /\ index = block_index /\ known = outpoint_set
        BY <2>1, CompactedBooks
      <3>. QED
        BY <3>1
    <2>2. CASE rebuilt
      <3>1. index = IndexOf(base) /\ known = OutpointsOf(base) /\ base = Compacted(entries)
        BY <2>2
      <3>. HIDE DEF base, index, known, rebuilt
      <3>2. Indexed(base, index)
        BY <3>1 DEF Indexed, IndexOf
      <3>. QED
        BY <3>1, <3>2, CompactedHolds
    <2>. QED
      BY <2>1, <2>2
  <1>3. known = outpoint_set \/ OutpointsOf(base) = known
    OBVIOUS
  <1>4. /\ outpoint_set' = known \cup fresh /\ block_index' = found /\ FindClaim(es, Awaited(daa), daa)
    BY DEF HandleBlock
  <1>5. /\ \A b \in Followed \cap known : b \in Held(base) \cup worthless
        /\ (outpoint_set \cap Followed) \ worthless \subseteq known
    <2>. HIDE DEF base, index
    <2>1. ASSUME rebuilt PROVE Held(base) \subseteq known
      BY <2>1 DEF Held, Kept, OutpointsOf
    <2>. HIDE DEF rebuilt
    <2>. QED
      BY <1>1, <1>2, <1>3, <2>1 DEF Accounted
  <1>. HIDE DEF base, rebuilt, index, known
  <1>6. Books(slashed, known, index) /\ Held(base) \ reds \subseteq Held(slashed) /\ Indexed(slashed, index)
    <2>1. Tamer(slashed, base)
      BY <1>1, SlashTames
    <2>2. \A i \in at : \E b \in reds : i \in index[b]
      OBVIOUS
    <2>3. Held(base) \ reds \subseteq Held(slashed) /\ Indexed(slashed, index)
      BY <1>1, <1>2, <2>2, SlashSpares
    <2>. HIDE DEF slashed
    <2>. QED
      BY <1>1, <2>1, <2>3, TamerKeepsBooks
  <1>. HIDE DEF slashed, at
  <1>7. Held(base) \cap Followed \subseteq Held(slashed)
    BY <1>1, <1>6
  <1>8. Books(es, known \cup fresh, found) /\ Held(slashed) \cup fresh \subseteq Held(es) /\ Indexed(es, found)
    <2>. slashed \in Seq(ToSet(slashed)) /\ Len(slashed) \in Nat
      BY <1>6 DEF Books
    <2>1. CASE fresh = {}
      <3>1. {NewEntry(o, daa) : o \in fresh} = {}
        BY <2>1
      <3>2. es = slashed
        BY <3>1, ShortLists, ConcatEmptySeq
      <3>3. found = index
        BY <1>6, <2>1 DEF Books
      <3>. HIDE DEF es, found, fresh
      <3>. QED
        BY <1>6, <2>1, <3>2, <3>3
    <2>2. CASE fresh # {}
      <3>1. PICK b : new = {b} /\ fresh = {b} /\ b \in Coinbase /\ b \notin known
        BY <2>2
      <3>. DEFINE e == NewEntry(b, daa)
      <3>2. {NewEntry(o, daa) : o \in fresh} = {e}
        BY <3>1
      <3>3. es = slashed \o <<e>>
        BY <3>2, ShortLists
      <3>4. es = Append(slashed, e) /\ Len(es) = Len(slashed) + 1
        <4>. HIDE DEF e, es
        <4>1. slashed \in Seq(ToSet(slashed) \cup {e})
          BY SeqMonotonic
        <4>. QED
          BY <3>3, <4>1, AppendIsConcat, AppendProperties
      <3>5. /\ Grown(found, index, Len(slashed) + 1, b)
            /\ \A x \in Coinbase : found[x] \subseteq index[x] \cup (IF x = b THEN {Len(slashed) + 1} ELSE {})
        <4>. HIDE DEF es
        <4>. QED
          BY <1>6, <3>1, <3>4 DEF Books, Grown
      <3>. HIDE DEF found, es, fresh
      <3>6. b \in Outpoints
        BY <3>1 DEF Outpoints
      <3>7. es = Append(slashed, NewEntry(b, daa))
        BY <3>4
      <3>. HIDE DEF e
      <3>8. Books(Append(slashed, NewEntry(b, daa)), known \cup {b}, found)
        BY <1>6, <3>1, <3>5, <3>6, NewEntryBooks
      <3>9. /\ Held(slashed) \cup {b} \subseteq Held(Append(slashed, NewEntry(b, daa)))
            /\ Indexed(Append(slashed, NewEntry(b, daa)), found)
        BY <1>6, <3>5, NewEntryHolds
      <3>. QED
        BY <3>1, <3>7, <3>8, <3>9
    <2>. QED
      BY <2>1, <2>2
  <1>. HIDE DEF es, found
  <1>9. Held(es) \subseteq Held(entries') /\ Indexed(entries', found)
    <2>1. entries' = es \/ entries' = [i \in 1..Len(es) |-> Healed(es[i], daa)]
      BY Zenon, <1>4 DEF FindClaim
    <2>. QED
      BY <1>8, <2>1, HealingSpares
  <1>10. Accounted(entries', outpoint_set', worthless)
    <2>. HIDE DEF fresh
    <2>. QED
      BY <1>4, <1>5, <1>7, <1>8, <1>9 DEF Accounted
  <1>. QED
    BY <1>4, <1>5, <1>9, <1>10 DEF Lasting

\* What is on its way to make the watcher track a block: a request, a full block that says it is on
\* the chain and is not taken back, or the news that the block joined the chain.
Coming(b, requests, msgs) ==
    \/ [b |-> b, full |-> TRUE] \in requests
    \/ \E k \in 1..Len(msgs) : /\ msgs[k].kind = "block" /\ msgs[k].full /\ msgs[k].on_chain /\ msgs[k].b = b
                               /\ ~Leaving(b, k, msgs)
    \/ \E k \in 1..Len(msgs) : msgs[k].kind = "chain" /\ b \in msgs[k].added

\* A followed block a message turns red has no live entry when the message is read.
Harmless(m, k, msgs, held) == m.kind = "added" => \A b \in m.reds \cap Followed : Gone(b, k, msgs, held)

\* While the first connection lasts, a block of the chain whose output is worth something is known
\* and not leaving, or is coming.
AInv ==
    /\ tracked \subseteq Coinbase /\ chain \subseteq Coinbase /\ validation_pending \subseteq Ghosts
    /\ Indexed(entries, block_index)
    /\ Accounted(entries, outpoint_set, spent \cup burned)
    /\ \A k \in 1..Len(inbox) : Harmless(inbox[k], k, inbox, Held(entries))
    /\ \A b \in chain \ (Unknown \cup spent \cup burned) :
          (b \in outpoint_set /\ ~Leaving(b, 0, inbox)) \/ Coming(b, asked, inbox)

\* What reading a message does to what the watcher knows.
Follows ==
    /\ Indexed(entries', block_index') /\ Accounted(entries', outpoint_set', spent \cup burned)
    /\ \A b \in (outpoint_set \cap Followed) \ (spent \cup burned) : Removes(NextMsg, b) \/ b \in outpoint_set'
    /\ NextMsg.kind = "block" /\ NextMsg.full /\ NextMsg.on_chain => NextMsg.b \in outpoint_set'
    /\ asked \subseteq asked'
    /\ NextMsg.kind = "chain" => \A b \in NextMsg.added : [b |-> b, full |-> TRUE] \in asked'
    /\ tracked' \subseteq Coinbase

\* The watcher asks for what is queued, and forgets no request.
LEMMA PullAsks ==
    ASSUME Pull
    PROVE  asked \subseteq asked'
  BY DEF Pull

\* A chain change releases the blocks that left, and no other.
LEMMA PurgeFollows ==
    ASSUME TInv, Indexed(entries, block_index), NEW worthless, Accounted(entries, outpoint_set, worthless),
           NEW R \in SUBSET Coinbase, NEW at, at = UNION {block_index[b] : b \in R},
           entries' = SlashAt(entries, at), outpoint_set' = outpoint_set \ Released(at),
           block_index' = [b \in Coinbase |-> IF b \in R THEN {} ELSE block_index[b]]
    PROVE  /\ Indexed(entries', block_index') /\ Accounted(entries', outpoint_set', worthless)
           /\ outpoint_set \ R \subseteq outpoint_set'
  <1>1. Books(entries, outpoint_set, block_index)
    BY DEF TInv
  <1>2. Held(entries) \ R \subseteq Held(entries') /\ Indexed(entries', block_index)
    <2>1. \A i \in at : \E b \in R : i \in block_index[b]
      OBVIOUS
    <2>2. Held(entries) \ R \subseteq Held(SlashAt(entries, at)) /\ Indexed(SlashAt(entries, at), block_index)
      BY <1>1, <2>1, SlashSpares
    <2>. QED
      BY <2>2
  <1>3. Indexed(entries', block_index')
    BY <1>2 DEF Indexed
  <1>4. ASSUME NEW o \in Released(at) PROVE o \in R
    BY <1>4 DEF Released, Indexed
  <1>5. ASSUME NEW b \in Held(entries) \cap R PROVE b \in Released(at)
    <2>1. PICK i \in 1..Len(entries) : Live(entries[i]) /\ entries[i].o = b
      BY <1>5 DEF Held, Kept
    <2>2. i \in block_index[b]
      BY <1>1, <1>5, <2>1 DEF Books
    <2>3. i \in at
      BY <1>5, <2>2
    <2>. QED
      BY <2>1, <2>3 DEF Released
  <1>6. Accounted(entries', outpoint_set', worthless)
    BY <1>2, <1>5 DEF Accounted
  <1>. QED
    BY <1>3, <1>4, <1>6

LEMMA EveryMessageFollows ==
    ASSUME VInv, TInv, PInv, LInv, AInv, Paid(entries') \subseteq spent, Handles
    PROVE  Follows
  <1>0. /\ Listed /\ SInv /\ Books(entries, outpoint_set, block_index) /\ {} \in SUBSET Coinbase
        /\ Indexed(entries, block_index) /\ Accounted(entries, outpoint_set, spent \cup burned)
        /\ tracked \subseteq Coinbase
    BY DEF VInv, TInv, AInv
  <1>1. ASSUME Read PROVE WellFormed(NextMsg) /\ Harmless(NextMsg, 1, inbox, Held(entries))
    BY <1>0, <1>1, ReadEffect DEF SInv, AInv
  <1>2. CASE OnBlockAdded
    <2>1. PICK daa \in Scores, compacting \in BOOLEAN : HandleBlock(daa, compacting, NextMsg.reds, {})
      BY <1>2 DEF OnBlockAdded
    <2>2. Read /\ NextMsg.kind = "added" /\ asked' = asked /\ tracked' = tracked
      BY <1>2, <2>1 DEF OnBlockAdded, HandleBlock
    <2>3. NextMsg.reds \in SUBSET Coinbase
      BY <1>1, <2>2 DEF WellFormed
    <2>4. NextMsg.reds \cap Followed \cap Held(entries) = {}
      BY <1>1, <2>2 DEF Harmless, Gone, Followed
    <2>5. /\ Indexed(entries', block_index') /\ Accounted(entries', outpoint_set', spent \cup burned)
          /\ Lasting(outpoint_set, outpoint_set', spent \cup burned)
      BY <1>0, <2>1, <2>3, <2>4, HandlingFollows
    <2>. QED
      BY <1>0, <2>2, <2>5 DEF Follows, Lasting
  <1>3. CASE OnBlock
    <2>. DEFINE new == IF NextMsg.full /\ NextMsg.on_chain THEN {NextMsg.b} ELSE {}
    <2>1. PICK daa \in Scores, compacting \in BOOLEAN : HandleBlock(daa, compacting, {}, new)
      BY <1>3 DEF OnBlock
    <2>2. Read /\ NextMsg.kind = "block" /\ asked' = asked
      BY <1>3 DEF OnBlock
    <2>3. new \in SUBSET Coinbase /\ (new = {} \/ \E b : new = {b})
      BY <1>1, <2>2 DEF WellFormed
    <2>4. NextMsg.full /\ NextMsg.on_chain => NextMsg.b \in new
      OBVIOUS
    <2>. HIDE DEF new
    <2>5. tracked' = tracked \cup new /\ new \subseteq outpoint_set'
      BY <2>1 DEF HandleBlock
    <2>6. /\ Indexed(entries', block_index') /\ Accounted(entries', outpoint_set', spent \cup burned)
          /\ Lasting(outpoint_set, outpoint_set', spent \cup burned)
      <3>1. {} \cap Followed \cap Held(entries) = {}
        OBVIOUS
      <3>. QED
        BY <1>0, <2>1, <2>3, <3>1, HandlingFollows
    <2>. QED
      BY <1>0, <2>2, <2>3, <2>4, <2>5, <2>6 DEF Follows, Lasting
  <1>4. CASE OnValidated
    <2>. DEFINE b == NextMsg.b
                at == block_index[b]
    <2>1. /\ NextMsg.kind = "block" /\ ~NextMsg.full /\ b \in validation_pending /\ Pull
          /\ entries' = IF NextMsg.on_chain THEN entries ELSE SlashAt(entries, block_index[b])
          /\ UNCHANGED <<outpoint_set, block_index, tracked>>
      BY <1>4 DEF OnValidated
    <2>2. b \in Coinbase /\ b \notin Followed
      BY <2>1, OutpointsAssumption DEF AInv, Followed
    <2>3. asked \subseteq asked'
      BY <2>1, PullAsks
    <2>4. \A i \in at : \E x \in {b} : i \in block_index[x]
      OBVIOUS
    <2>. HIDE DEF b, at
    <2>5. Held(entries) \ {b} \subseteq Held(SlashAt(entries, at)) /\ Indexed(SlashAt(entries, at), block_index)
      BY <1>0, <2>2, <2>4, SlashSpares
    <2>6. Held(entries) \ {b} \subseteq Held(entries') /\ Indexed(entries', block_index')
      <3>1. entries' = entries \/ entries' = SlashAt(entries, at)
        BY <2>1 DEF at
      <3>. QED
        BY <1>0, <2>1, <2>5, <3>1
    <2>7. Accounted(entries', outpoint_set', spent \cup burned)
      BY <1>0, <2>1, <2>2, <2>6 DEF Accounted
    <2>. QED
      BY <1>0, <2>1, <2>3, <2>6, <2>7 DEF Follows
  <1>5. CASE OnBlockError
    <2>1. /\ NextMsg.kind = "unknown" /\ (Pull \/ asked' = asked)
          /\ UNCHANGED <<entries, outpoint_set, block_index, tracked>>
      BY <1>5 DEF OnBlockError
    <2>2. asked \subseteq asked'
      BY <2>1, PullAsks
    <2>3. Indexed(entries', block_index') /\ Accounted(entries', outpoint_set', spent \cup burned)
      BY <1>0, <2>1
    <2>. QED
      BY <1>0, <2>1, <2>2, <2>3 DEF Follows
  <1>6. CASE OnChainChanged
    <2>. DEFINE R == NextMsg.removed
                at == UNION {block_index[b] : b \in R}
    <2>1. /\ Read /\ NextMsg.kind = "chain" /\ tracked' = tracked
          /\ entries' = SlashAt(entries, at) /\ outpoint_set' = outpoint_set \ Released(at)
          /\ block_index' = [b \in Coinbase |-> IF b \in R THEN {} ELSE block_index[b]]
          /\ asked' = asked \cup {[b |-> b, full |-> TRUE] : b \in NextMsg.added}
      BY <1>6 DEF OnChainChanged
    <2>2. R \in SUBSET Coinbase
      BY <1>1, <2>1 DEF WellFormed
    <2>. HIDE DEF R
    <2>3. /\ Indexed(entries', block_index') /\ Accounted(entries', outpoint_set', spent \cup burned)
          /\ outpoint_set \ R \subseteq outpoint_set'
      BY <1>0, <2>1, <2>2, PurgeFollows
    <2>4. \A b \in outpoint_set : Removes(NextMsg, b) \/ b \in outpoint_set'
      BY <2>1, <2>3 DEF Removes, R
    <2>5. asked \subseteq asked' /\ \A b \in NextMsg.added : [b |-> b, full |-> TRUE] \in asked'
      BY <2>1
    <2>. QED
      BY <1>0, <2>1, <2>3, <2>4, <2>5 DEF Follows
  <1>7. CASE OnSubmitResponse
    <2>1. /\ NextMsg.kind \notin {"chain", "block"} /\ UNCHANGED <<outpoint_set, block_index, tracked, asked>>
      BY <1>7 DEF OnSubmitResponse, Replies
    <2>2. Tamer(entries', entries)
      BY <1>0, <1>7, SettlingTames
    <2>3. Len(entries') = Len(entries) /\ \A i \in 1..Len(entries) : Formed(entries'[i]) /\ entries'[i].o = entries[i].o
      BY <1>0, <2>2, TamerKeepsBooks DEF Tamer
    <2>4. Indexed(entries', block_index')
      <3>1. \A b \in Coinbase : block_index[b] \subseteq 1..Len(entries)
        BY <1>0 DEF Books
      <3>. QED
        BY <1>0, <2>1, <2>3, <3>1 DEF Indexed
    <2>5. ASSUME NEW b \in Followed \cap Held(entries) PROVE b \in Held(entries') \cup (spent \cup burned)
      <3>1. PICK i \in 1..Len(entries) : ~entries[i].slashed /\ entries[i].o = b
        BY <2>5 DEF Held, Kept, Live
      <3>2. CASE entries'[i].slashed
        BY <1>7, <2>5, <3>1, <3>2, GivenUpIsWorthless DEF Followed
      <3>3. CASE entries'[i].claimed
        BY <2>3, <3>1, <3>3 DEF Paid
      <3>4. CASE ~entries'[i].slashed /\ ~entries'[i].claimed
        <4>1. i \in Kept(entries') /\ entries'[i].o = b
          BY <2>3, <3>1, <3>4 DEF Kept, Live
        <4>. QED
          BY <4>1 DEF Held
      <3>. QED
        BY <3>2, <3>3, <3>4
    <2>6. Accounted(entries', outpoint_set', spent \cup burned)
      BY <1>0, <2>1, <2>5 DEF Accounted
    <2>. QED
      BY <1>0, <2>1, <2>4, <2>6 DEF Follows
  <1>. QED
    BY <1>2, <1>3, <1>4, <1>5, <1>6, <1>7 DEF Handles

LEMMA FollowingInit ==
    ASSUME Init
    PROVE  restarts = 0 /\ AInv
  <1>1. /\ inbox = <<>> /\ chain = {} /\ tracked = {} /\ validation_pending = Ghosts /\ outpoint_set = Ghosts
        /\ block_index = IndexOf(entries) /\ restarts = 0
    BY DEF Init
  <1>2. Indexed(entries, block_index)
    BY <1>1 DEF Indexed, IndexOf
  <1>3. Accounted(entries, outpoint_set, spent \cup burned)
    BY <1>1 DEF Accounted, Followed
  <1>. QED
    BY <1>1, <1>2, <1>3 DEF AInv

\* Reading a message: what was coming has come, or still comes.
LEMMA HandlingFollowsChain ==
    ASSUME VInv, TInv, LInv, AInv, Handled, Follows
    PROVE  AInv'
  <1>0. /\ Len(inbox) \in Nat \ {0} /\ Len(inbox') = Len(inbox) - 1 /\ NextMsg = inbox[1] /\ 1 \in 1..Len(inbox)
        /\ \A k \in 1..Len(inbox') : inbox'[k] = inbox[k + 1] /\ k + 1 \in 1..Len(inbox)
    BY ReadEffect DEF VInv, Handled
  <1>1. UNCHANGED <<chain, spent, burned>> /\ validation_pending' \subseteq validation_pending
    BY DEF Handled
  <1>2. ASSUME NEW k \in 1..Len(inbox') PROVE Harmless(inbox'[k], k, inbox', Held(entries'))
    <2>1. inbox'[k] = inbox[k + 1] /\ Harmless(inbox[k + 1], k + 1, inbox, Held(entries))
      BY <1>0 DEF AInv
    <2>. QED
      BY <2>1, ReadKeepsGone DEF Harmless
  <1>3. ASSUME NEW b, NEW j \in Nat, Leaving(b, j, inbox') PROVE Leaving(b, j + 1, inbox)
    <2>1. PICK k \in 1..Len(inbox') : k > j /\ inbox'[k].kind = "chain" /\ b \in inbox'[k].removed
      BY <1>3 DEF Leaving
    <2>2. k + 1 \in 1..Len(inbox) /\ k + 1 > j + 1 /\ inbox'[k] = inbox[k + 1]
      BY <1>0, <2>1
    <2>. QED
      BY <2>1, <2>2 DEF Leaving
  <1>4. ASSUME NEW b \in chain \ (Unknown \cup spent \cup burned)
        PROVE  (b \in outpoint_set' /\ ~Leaving(b, 0, inbox')) \/ Coming(b, asked', inbox')
    <2>0. b \in Followed
      BY DEF LInv, AInv, Followed
    <2>1. CASE b \in outpoint_set /\ ~Leaving(b, 0, inbox)
      <3>1. ~Leaving(b, 0, inbox')
        <4>1. Leaving(b, 0 + 1, inbox) => Leaving(b, 0, inbox)
          BY DEF Leaving
        <4>. QED
          BY <1>3, <2>1, <4>1
      <3>2. ~Removes(NextMsg, b)
        BY <1>0, <2>1 DEF Leaving, Removes
      <3>. QED
        BY <2>0, <2>1, <3>1, <3>2 DEF Follows
    <2>2. CASE [b |-> b, full |-> TRUE] \in asked
      BY <2>2 DEF Follows, Coming
    <2>3. ASSUME NEW k \in 1..Len(inbox), inbox[k].kind = "block", inbox[k].full, inbox[k].on_chain, inbox[k].b = b,
                 ~Leaving(b, k, inbox)
          PROVE  (b \in outpoint_set' /\ ~Leaving(b, 0, inbox')) \/ Coming(b, asked', inbox')
      <3>1. CASE k = 1
        <4>1. b \in outpoint_set'
          BY <1>0, <2>3, <3>1 DEF Follows
        <4>2. ~Leaving(b, 0, inbox')
          BY <1>3, <2>3, <3>1
        <4>. QED
          BY <4>1, <4>2
      <3>2. CASE k # 1
        <4>1. k - 1 \in 1..Len(inbox') /\ k - 1 \in Nat /\ (k - 1) + 1 = k
          BY <1>0, <3>2
        <4>2. inbox'[k - 1] = inbox[k] /\ ~Leaving(b, k - 1, inbox')
          BY <1>0, <1>3, <2>3, <4>1
        <4>. QED
          BY <2>3, <4>1, <4>2 DEF Coming
      <3>. QED
        BY <3>1, <3>2
    <2>4. ASSUME NEW k \in 1..Len(inbox), inbox[k].kind = "chain", b \in inbox[k].added
          PROVE  Coming(b, asked', inbox')
      <3>1. CASE k = 1
        BY <1>0, <2>4, <3>1 DEF Follows, Coming
      <3>2. CASE k # 1
        <4>1. k - 1 \in 1..Len(inbox') /\ (k - 1) + 1 = k
          BY <1>0, <3>2
        <4>2. inbox'[k - 1] = inbox[k]
          BY <1>0, <4>1
        <4>. QED
          BY <2>4, <4>1, <4>2 DEF Coming
      <3>. QED
        BY <3>1, <3>2
    <2>5. (b \in outpoint_set /\ ~Leaving(b, 0, inbox)) \/ Coming(b, asked, inbox)
      BY DEF AInv
    <2>. QED
      BY <2>1, <2>2, <2>3, <2>4, <2>5 DEF Coming
  <1>5. Indexed(entries', block_index') /\ Accounted(entries', outpoint_set', spent' \cup burned')
    BY <1>1 DEF Follows
  <1>6. tracked' \subseteq Coinbase /\ chain' \subseteq Coinbase /\ validation_pending' \subseteq Ghosts
    BY <1>1 DEF Follows, AInv
  <1>7. \A b \in chain' \ (Unknown \cup spent' \cup burned') :
           (b \in outpoint_set' /\ ~Leaving(b, 0, inbox')) \/ Coming(b, asked', inbox')
    BY <1>1, <1>4
  <1>. QED
    BY <1>2, <1>5, <1>6, <1>7
    DEF AInv, Indexed, Accounted, Harmless, Coming, Leaving, Gone, Removes, Held, Kept, Live, Followed

\* The node says something: of a block that joins the chain, or as it answers a request.
LEMMA SayFollowsChain ==
    ASSUME VInv, AInv, NEW msg, Say(msg),
           UNCHANGED <<entries, outpoint_set, block_index, validation_pending, tracked>>,
           spent \subseteq spent', burned \subseteq burned', chain' \subseteq Coinbase,
           Harmless(msg, Len(inbox) + 1, inbox, Held(entries)),
           \A b \in chain' : ~Removes(msg, b),
           \A b \in chain' \ chain : msg.kind = "chain" /\ b \in msg.added,
           \A b \in chain' \ Unknown : [b |-> b, full |-> TRUE] \in asked =>
               \/ [b |-> b, full |-> TRUE] \in asked'
               \/ msg.kind = "block" /\ msg.full /\ msg.on_chain /\ msg.b = b
    PROVE  AInv'
  <1>0. /\ Len(inbox) \in Nat /\ Len(inbox') = Len(inbox) + 1 /\ inbox'[Len(inbox) + 1] = msg
        /\ \A k \in 1..Len(inbox) : inbox'[k] = inbox[k] /\ k \in 1..Len(inbox')
        /\ Len(inbox) + 1 \in 1..Len(inbox')
        /\ \A k \in 1..Len(inbox') : k \in 1..Len(inbox) \/ k = Len(inbox) + 1
    BY SayEffect DEF VInv
  <1>1. ASSUME NEW k \in 1..Len(inbox') PROVE Harmless(inbox'[k], k, inbox', Held(entries))
    <2>1. k \in 1..(Len(inbox) + 1)
      BY <1>0
    <2>2. Harmless(inbox'[k], k, inbox, Held(entries))
      BY <1>0 DEF AInv
    <2>. QED
      BY <2>1, <2>2, SayKeepsGone DEF Harmless
  <1>2. ASSUME NEW b \in chain', NEW j \in Nat, Leaving(b, j, inbox') PROVE Leaving(b, j, inbox)
    <2>1. PICK k \in 1..Len(inbox') : k > j /\ inbox'[k].kind = "chain" /\ b \in inbox'[k].removed
      BY <1>2 DEF Leaving
    <2>2. k # Len(inbox) + 1
      BY <1>0, <2>1 DEF Removes
    <2>3. k \in 1..Len(inbox) /\ inbox'[k] = inbox[k]
      BY <1>0, <2>2
    <2>. QED
      BY <2>1, <2>3 DEF Leaving
  <1>3. ASSUME NEW b \in chain' \ (Unknown \cup spent' \cup burned')
        PROVE  (b \in outpoint_set /\ ~Leaving(b, 0, inbox')) \/ Coming(b, asked', inbox')
    <2>1. CASE b \notin chain
      BY <1>0, <2>1 DEF Coming
    <2>2. CASE b \in chain
      <3>1. (b \in outpoint_set /\ ~Leaving(b, 0, inbox)) \/ Coming(b, asked, inbox)
        BY <1>3, <2>2 DEF AInv
      <3>2. CASE b \in outpoint_set /\ ~Leaving(b, 0, inbox)
        BY <1>2, <3>2
      <3>3. CASE [b |-> b, full |-> TRUE] \in asked
        <4>1. CASE [b |-> b, full |-> TRUE] \in asked'
          BY <4>1 DEF Coming
        <4>2. CASE msg.kind = "block" /\ msg.full /\ msg.on_chain /\ msg.b = b
          <5>1. ~Leaving(b, Len(inbox) + 1, inbox')
            BY <1>0 DEF Leaving
          <5>. QED
            BY <1>0, <4>2, <5>1 DEF Coming
        <4>. QED
          BY <1>3, <3>3, <4>1, <4>2
      <3>4. ASSUME NEW k \in 1..Len(inbox), inbox[k].kind = "block", inbox[k].full, inbox[k].on_chain,
                   inbox[k].b = b, ~Leaving(b, k, inbox)
            PROVE  Coming(b, asked', inbox')
        <4>1. k \in Nat /\ ~Leaving(b, k, inbox')
          BY <1>0, <1>2, <3>4
        <4>. QED
          BY <1>0, <3>4, <4>1 DEF Coming
      <3>5. ASSUME NEW k \in 1..Len(inbox), inbox[k].kind = "chain", b \in inbox[k].added
            PROVE  Coming(b, asked', inbox')
        BY <1>0, <3>5 DEF Coming
      <3>. QED
        BY <3>1, <3>2, <3>3, <3>4, <3>5 DEF Coming
    <2>. QED
      BY <2>1, <2>2
  <1>4. Indexed(entries, block_index) /\ Accounted(entries, outpoint_set, spent' \cup burned')
    BY DEF AInv, Accounted
  <1>5. tracked \subseteq Coinbase /\ validation_pending \subseteq Ghosts
    BY DEF AInv
  <1>. QED
    BY <1>1, <1>3, <1>4, <1>5
    DEF AInv, Indexed, Accounted, Harmless, Coming, Leaving, Gone, Removes, Held, Kept, Live, Followed

\* The stream and the chain stay as they are.
LEMMA StillFollowed ==
    ASSUME AInv, UNCHANGED <<inbox, chain, tracked, validation_pending>>, asked \subseteq asked',
           outpoint_set \subseteq outpoint_set', spent \subseteq spent', burned \subseteq burned',
           Indexed(entries', block_index'), Accounted(entries', outpoint_set', spent' \cup burned'),
           Held(entries') \cap Coinbase \subseteq Held(entries)
    PROVE  AInv'
  <1>1. ASSUME NEW k \in 1..Len(inbox) PROVE Harmless(inbox[k], k, inbox, Held(entries'))
    <2>1. Harmless(inbox[k], k, inbox, Held(entries))
      BY DEF AInv
    <2>. QED
      BY <2>1 DEF Harmless, Gone, Followed
  <1>2. ASSUME NEW b \in chain \ (Unknown \cup spent' \cup burned')
        PROVE  (b \in outpoint_set' /\ ~Leaving(b, 0, inbox)) \/ Coming(b, asked', inbox)
    <2>1. (b \in outpoint_set /\ ~Leaving(b, 0, inbox)) \/ Coming(b, asked, inbox)
      BY DEF AInv
    <2>. QED
      BY <2>1 DEF Coming
  <1>3. tracked \subseteq Coinbase /\ chain \subseteq Coinbase /\ validation_pending \subseteq Ghosts
    BY DEF AInv
  <1>. QED
    BY <1>1, <1>2, <1>3
    DEF AInv, Indexed, Accounted, Harmless, Coming, Leaving, Gone, Removes, Held, Kept, Live, Followed

\* No step on the first connection loses a block.
LEMMA FollowingStep ==
    ASSUME VInv, TInv, PInv, FInv, LInv, AInv, PInv', [Next]_vars, ~Reconnect
    PROVE  AInv'
  <1>0. /\ Books(entries, outpoint_set, block_index) /\ Indexed(entries, block_index)
        /\ Accounted(entries, outpoint_set, spent \cup burned) /\ chain \subseteq Coinbase /\ Len(inbox) \in Nat
    BY DEF TInv, AInv, VInv, Listed
  <1>1. CASE Handles
    <2>1. Handled
      BY <1>1, EveryMessageHandled
    <2>2. Paid(entries') \subseteq spent
      <3>1. spent' = spent
        BY <2>1 DEF Handled
      <3>. QED
        BY <3>1 DEF PInv, Paid
    <2>3. Follows
      BY <1>1, <2>2, EveryMessageFollows
    <2>. QED
      BY <2>1, <2>3, HandlingFollowsChain
  <1>2. CASE \E o \in Inference : TrackInference(o)
    <2>1. PICK o \in Inference : TrackInference(o)
      BY <1>2
    <2>2. /\ o \notin outpoint_set /\ entries' = Append(entries, NewEntry(o, tip))
          /\ outpoint_set' = outpoint_set \cup {o}
          /\ UNCHANGED <<block_index, inbox, spent, burned, chain, validation_pending, tracked, asked>>
      BY <2>1 DEF TrackInference, node, stream
    <2>3. o \in Outpoints /\ o \notin Coinbase /\ Grown(block_index, block_index, Len(entries) + 1, o)
      BY <1>0, OutpointsAssumption DEF Grown, Books, Outpoints
    <2>4. Held(entries') \subseteq Held(entries) \cup {o}
      BY <1>0, <2>2, <2>3, NewEntryBooks
    <2>5. Held(entries) \subseteq Held(entries') /\ Indexed(entries', block_index')
      <3>1. \A b \in Coinbase : block_index[b] \subseteq block_index[b] \cup (IF b = o THEN {Len(entries) + 1} ELSE {})
        OBVIOUS
      <3>2. /\ Held(entries) \cup {o} \subseteq Held(Append(entries, NewEntry(o, tip)))
            /\ Indexed(Append(entries, NewEntry(o, tip)), block_index)
        BY <1>0, <3>1, NewEntryHolds
      <3>. QED
        BY <2>2, <3>2
    <2>6. Accounted(entries', outpoint_set', spent' \cup burned')
      BY <1>0, <2>2, <2>3, <2>5 DEF Accounted, Followed
    <2>7. Held(entries') \cap Coinbase \subseteq Held(entries) /\ outpoint_set \subseteq outpoint_set'
      BY <2>2, <2>3, <2>4
    <2>. QED
      BY <2>2, <2>5, <2>6, <2>7, StillFollowed
  <1>3. ASSUME UNCHANGED <<entries, outpoint_set, block_index, inbox, chain, validation_pending, tracked>>,
               asked \subseteq asked', spent \subseteq spent', burned \subseteq burned'
        PROVE  AInv'
    <2>1. Indexed(entries', block_index') /\ Accounted(entries', outpoint_set', spent' \cup burned')
      BY <1>0, <1>3 DEF Accounted
    <2>2. Held(entries') \cap Coinbase \subseteq Held(entries) /\ outpoint_set \subseteq outpoint_set'
      BY <1>3
    <2>. QED
      BY <1>3, <2>1, <2>2, StillFollowed
  <1>4. CASE (\E b \in Coinbase : ChainRestoreAsks(b)) \/ (\E o \in Outpoints : NodeBurns(o)) \/ UNCHANGED vars
    <2>1. /\ UNCHANGED <<entries, outpoint_set, block_index, inbox, chain, validation_pending, tracked, spent>>
          /\ asked \subseteq asked' /\ burned \subseteq burned'
      BY <1>4 DEF ChainRestoreAsks, NodeBurns, vars, watcher, node, stream
    <2>. QED
      BY <1>3, <2>1
  <1>5. CASE NodeAddsBlock
    <2>1. PICK reds \in {{}} \cup {{b} : b \in Coinbase \ chain} : Say([kind |-> "added", reds |-> reds])
      BY <1>5 DEF NodeAddsBlock
    <2>. DEFINE msg == [kind |-> "added", reds |-> reds]
    <2>2. Say(msg) /\ msg.kind = "added" /\ msg.reds = reds
      BY <2>1
    <2>3. UNCHANGED <<entries, outpoint_set, block_index, chain, validation_pending, tracked, asked, spent, burned>>
      BY <1>5 DEF NodeAddsBlock, watcher
    <2>. HIDE DEF msg
    <2>4. ASSUME NEW b \in reds \cap Followed PROVE Gone(b, Len(inbox) + 1, inbox, Held(entries))
      <3>1. b \in Coinbase /\ b \notin chain \cup validation_pending
        BY <2>1, <2>4 DEF AInv, Followed
      <3>. QED
        BY <3>1, OffChainIsGone
    <2>5. Harmless(msg, Len(inbox) + 1, inbox, Held(entries))
      BY <2>2, <2>4 DEF Harmless
    <2>6. /\ \A b \in chain' : ~Removes(msg, b)
          /\ \A b \in chain' \ chain : msg.kind = "chain" /\ b \in msg.added
          /\ \A b \in chain' \ Unknown : [b |-> b, full |-> TRUE] \in asked => [b |-> b, full |-> TRUE] \in asked'
      BY <2>2, <2>3 DEF Removes
    <2>. QED
      BY <1>0, <2>2, <2>3, <2>5, <2>6, SayFollowsChain
  <1>6. CASE \E removed, new \in SUBSET Coinbase : NodeChangesChain(removed, new)
    <2>1. PICK removed \in SUBSET Coinbase, new \in SUBSET Coinbase : NodeChangesChain(removed, new)
      BY <1>6
    <2>. DEFINE msg == [kind |-> "chain", removed |-> removed, added |-> new]
    <2>2. Say(msg) /\ msg.kind = "chain" /\ msg.removed = removed /\ msg.added = new
      BY <2>1 DEF NodeChangesChain
    <2>3. /\ UNCHANGED <<entries, outpoint_set, block_index, validation_pending, tracked, asked, spent, burned>>
          /\ removed \subseteq chain /\ new \cap chain = {} /\ chain' = (chain \ removed) \cup new
      BY <2>1 DEF NodeChangesChain, watcher
    <2>. HIDE DEF msg
    <2>4. Harmless(msg, Len(inbox) + 1, inbox, Held(entries))
      BY <2>2 DEF Harmless
    <2>5. /\ \A b \in chain' : ~Removes(msg, b)
          /\ \A b \in chain' \ chain : msg.kind = "chain" /\ b \in msg.added
          /\ \A b \in chain' \ Unknown : [b |-> b, full |-> TRUE] \in asked => [b |-> b, full |-> TRUE] \in asked'
          /\ chain' \subseteq Coinbase
      BY <1>0, <2>2, <2>3 DEF Removes
    <2>. QED
      BY <2>2, <2>3, <2>4, <2>5, SayFollowsChain
  <1>7. CASE \E q \in asked : NodeAnswersBlock(q)
    <2>1. PICK q \in asked : NodeAnswersBlock(q)
      BY <1>7
    <2>. DEFINE msg == IF q.b \in Unknown
                         THEN [kind |-> "unknown", b |-> q.b]
                         ELSE [kind |-> "block", b |-> q.b, full |-> q.full, on_chain |-> q.b \in chain]
    <2>2. /\ Say(msg) /\ asked' = asked \ {q}
          /\ UNCHANGED <<entries, outpoint_set, block_index, validation_pending, tracked, chain, spent, burned>>
      BY <2>1 DEF NodeAnswersBlock, watcher, node
    <2>3. msg.kind \in {"unknown", "block"}
      <3>1. CASE q.b \in Unknown
        BY <3>1
      <3>2. CASE q.b \notin Unknown
        BY <3>2
      <3>. QED
        BY <3>1, <3>2
    <2>4. ASSUME NEW b \in chain \ Unknown, q = [b |-> b, full |-> TRUE]
          PROVE  msg.kind = "block" /\ msg.full /\ msg.on_chain /\ msg.b = b
      <3>1. q.b = b /\ q.full
        BY <2>4
      <3>2. msg = [kind |-> "block", b |-> q.b, full |-> q.full, on_chain |-> q.b \in chain]
        BY <3>1
      <3>. QED
        BY <3>1, <3>2
    <2>. HIDE DEF msg
    <2>5. Harmless(msg, Len(inbox) + 1, inbox, Held(entries))
      BY <2>3 DEF Harmless
    <2>6. /\ \A b \in chain' : ~Removes(msg, b)
          /\ \A b \in chain' \ chain : msg.kind = "chain" /\ b \in msg.added
          /\ chain' \subseteq Coinbase
      BY <1>0, <2>2, <2>3 DEF Removes
    <2>7. ASSUME NEW b \in chain' \ Unknown, [b |-> b, full |-> TRUE] \in asked
          PROVE  \/ [b |-> b, full |-> TRUE] \in asked'
                 \/ msg.kind = "block" /\ msg.full /\ msg.on_chain /\ msg.b = b
      BY <2>2, <2>4, <2>7
    <2>. QED
      BY <2>2, <2>5, <2>6, <2>7, SayFollowsChain
  <1>8. CASE \E t \in submitted : NodeAnswersClaim(t)
    <2>1. PICK t \in submitted : NodeAnswersClaim(t)
      BY <1>8
    <2>2. PICK v \in Verdicts(t) :
             /\ spent' = IF v.kind = "ok" THEN spent \cup ToSet(t) ELSE spent
             /\ Say(v) \/ UNCHANGED inbox
      BY <2>1 DEF NodeAnswersClaim
    <2>3. /\ UNCHANGED <<entries, outpoint_set, block_index, validation_pending, tracked, chain, burned, asked>>
          /\ spent \subseteq spent'
      BY <2>1, <2>2 DEF NodeAnswersClaim, watcher
    <2>4. v.kind \in Replies
      BY <2>2, RejectionsAssumption DEF Verdicts, Replies
    <2>5. v.kind \notin {"chain", "block", "added"}
      BY <2>4 DEF Replies
    <2>6. CASE Say(v)
      <3>1. Harmless(v, Len(inbox) + 1, inbox, Held(entries))
        BY <2>5 DEF Harmless
      <3>2. /\ \A b \in chain' : ~Removes(v, b)
            /\ \A b \in chain' \ chain : v.kind = "chain" /\ b \in v.added
            /\ \A b \in chain' \ Unknown : [b |-> b, full |-> TRUE] \in asked => [b |-> b, full |-> TRUE] \in asked'
            /\ chain' \subseteq Coinbase
        BY <1>0, <2>3, <2>5 DEF Removes
      <3>. QED
        BY <2>3, <2>6, <3>1, <3>2, SayFollowsChain
    <2>7. CASE UNCHANGED inbox
      BY <1>3, <2>3, <2>7
    <2>. QED
      BY <2>2, <2>6, <2>7
  <1>. QED
    BY <1>1, <1>2, <1>4, <1>5, <1>6, <1>7, <1>8 DEF Next, WatcherNext, NodeNext, Handles

\* The invariant is stronger than the property.
LEMMA FollowedIsTracked ==
    ASSUME TInv, LInv, AInv
    PROVE  ReAddedIsTracked
  <1>. SUFFICES ASSUME NEW b \in tracked \ Unknown, b \in Spendable, ~News(b)
                PROVE  \E i \in 1..Len(entries) : entries[i].o = b /\ ~entries[i].slashed
    BY DEF ReAddedIsTracked
  <1>1. b \in Coinbase /\ b \notin spent \cup burned /\ b \in chain
    BY OutpointsAssumption DEF AInv, Spendable
  <1>2. ~Coming(b, asked, inbox)
    BY DEF Coming, News
  <1>3. b \in outpoint_set /\ b \in Followed
    BY <1>1, <1>2 DEF AInv, LInv, Followed
  <1>4. b \in Held(entries)
    BY <1>1, <1>3 DEF AInv, Accounted
  <1>. QED
    BY <1>4 DEF Held, Kept, Live

\* "Their outpoints are released so a block re-added later is tracked afresh": while the first
\* connection lasts, however often blocks leave and join the chain, whatever is compacted, slashed
\* as red, rejected or retried, a spendable output that was taken from the chain has an entry that
\* is not given up once the news of its block has been read.
THEOREM ReAddedBlocksAreTracked == Spec => [](restarts = 0 => ReAddedIsTracked)
  <1>. DEFINE IInv == /\ VInv /\ TInv /\ PInv /\ FInv /\ LInv
                      /\ restarts \in Nat /\ (restarts = 0 => AInv)
  <1>1. Init => IInv
    BY ValidationInit, TrackingInit, PaymentsInit, LostInit, FollowingInit
  <1>2. IInv /\ [Next]_vars => IInv'
    <2>. SUFFICES ASSUME IInv, [Next]_vars PROVE IInv'
      OBVIOUS
    <2>1. VInv' /\ TInv' /\ PInv' /\ FInv' /\ LInv'
      BY ValidationStep, TrackingStep, PaymentsStep, LostStep
    <2>2. CASE Reconnect
      <3>1. restarts' = restarts + 1
        BY <2>2 DEF Reconnect
      <3>. QED
        BY <2>1, <3>1
    <2>3. CASE ~Reconnect
      <3>1. restarts' = restarts
        BY <2>3 DEF Next, WatcherNext, NodeNext, OnBlockAdded, OnBlock, OnValidated, OnBlockError, OnChainChanged,
                    OnSubmitResponse, TrackInference, NodeAddsBlock, NodeChangesChain, NodeAnswersBlock,
                    ChainRestoreAsks, NodeAnswersClaim, NodeBurns, vars, bounds
      <3>. QED
        BY <2>1, <2>3, <3>1, FollowingStep
    <2>. QED
      BY <2>2, <2>3
  <1>3. IInv => (restarts = 0 => ReAddedIsTracked)
    BY FollowedIsTracked
  <1>. QED
    BY <1>1, <1>2, <1>3, PTL DEF Spec
=============================================================================
