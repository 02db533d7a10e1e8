----------------------------- MODULE ProofLemmas -----------------------------
(***************************************************************************)
(* Facts about remainders, minima, totals of sequences and sorted sets     *)
(* that the proofs about the components share.                             *)
(***************************************************************************)
EXTENDS Totals, Ordered, FiniteSetsExt, TLAPS, FiniteSetTheorems, SequenceTheorems

\* The units of a sequence of naturals are finitely many.
LEMMA UnitsFinite ==
  ASSUME NEW w \in Seq(Nat)
  PROVE  IsFiniteSet(Units(w)) /\ Total(w) \in Nat
<1> DEFINE S == {{i} \X (1 .. w[i]) : i \in DOMAIN w}
           f == [i \in DOMAIN w |-> {i} \X (1 .. w[i])]
<1>1. DOMAIN w = 1 .. Len(w) /\ Len(w) \in Nat /\ \A i \in DOMAIN w : w[i] \in Nat
  OBVIOUS
<1>2. IsFiniteSet(DOMAIN w)
  BY <1>1, FS_Interval
<1>3. f \in Surjection(DOMAIN w, S)
  BY DEF Surjection
<1>4. IsFiniteSet(S)
  BY <1>2, <1>3, FS_Surjection
<1>5. ASSUME NEW T \in S PROVE IsFiniteSet(T)
  <2>1. PICK i \in DOMAIN w : T = {i} \X (1 .. w[i])
    OBVIOUS
  <2>2. w[i] \in Int
    BY <1>1
  <2>3. IsFiniteSet({i})
    BY FS_Singleton
  <2>4. IsFiniteSet(1 .. w[i])
    BY <2>2, FS_Interval
  <2> QED BY <2>1, <2>3, <2>4, FS_Product
<1>6. IsFiniteSet(UNION S)
  BY <1>4, <1>5, FS_UNION
<1> QED BY <1>6, FS_CardinalityType DEF Units, Total

\* The unit <<i, j>> stands for the j-th of the w[i] at index i.
LEMMA UnitsMember ==
  ASSUME NEW w, NEW i, NEW j
  PROVE  <<i, j>> \in Units(w) <=> i \in DOMAIN w /\ j \in 1 .. w[i]
BY DEF Units

\* Nothing sums to zero.
LEMMA TotalEmpty == Total(<< >>) = 0
<1>1. Units(<< >>) = {}
  BY DEF Units
<1> QED BY <1>1, FS_EmptySet DEF Total

\* The sum of a concatenation is the sum of the two sums.
LEMMA TotalConcat ==
  ASSUME NEW u \in Seq(Nat), NEW v \in Seq(Nat)
  PROVE  Total(u \o v) = Total(u) + Total(v)
<1> DEFINE n == Len(u)
           V == {<<n + x[1], x[2]>> : x \in Units(v)}
           f == [x \in Units(v) |-> <<n + x[1], x[2]>>]
<1>1. /\ u \o v \in Seq(Nat) /\ Len(u \o v) = n + Len(v)
      /\ n \in Nat /\ Len(v) \in Nat
      /\ DOMAIN u = 1 .. n /\ DOMAIN v = 1 .. Len(v) /\ DOMAIN (u \o v) = 1 .. n + Len(v)
      /\ \A i \in 1 .. n + Len(v) : (u \o v)[i] = IF i <= n THEN u[i] ELSE v[i - n]
  BY ConcatProperties
<1>2. IsFiniteSet(Units(u)) /\ IsFiniteSet(Units(v)) /\ Total(v) \in Nat
  BY UnitsFinite
<1>3. \A x \in Units(v) : \E i \in 1 .. Len(v) : \E j \in 1 .. v[i] : x = <<i, j>>
  BY <1>1 DEF Units
<1>4. f \in Bijection(Units(v), V)
  <2>1. f \in Surjection(Units(v), V)
    BY DEF Surjection
  <2>2. ASSUME NEW x \in Units(v), NEW y \in Units(v), f[x] = f[y] PROVE x = y
    <3>1. PICK i \in 1 .. Len(v) : \E j \in 1 .. v[i] : x = <<i, j>>
      BY <1>3
    <3>2. PICK k \in 1 .. Len(v) : \E j \in 1 .. v[k] : y = <<k, j>>
      BY <1>3
    <3>3. <<n + x[1], x[2]>> = <<n + y[1], y[2]>>
      BY <2>2
    <3>4. n + i = n + k
      BY <3>1, <3>2, <3>3
    <3>5. i = k
      BY <3>4, <1>1
    <3> QED BY <3>1, <3>2, <3>3, <3>5
  <2>3. f \in [Units(v) -> V]
    OBVIOUS
  <2> QED BY <2>1, <2>2, <2>3 DEF Bijection, Injection, IsInjective
<1>5. IsFiniteSet(V) /\ Cardinality(V) = Cardinality(Units(v))
  BY <1>2, <1>4, FS_Bijection DEF ExistsBijection
<1>6. Units(u \o v) = Units(u) \cup V
  <2>1. ASSUME NEW x \in Units(u \o v) PROVE x \in Units(u) \cup V
    <3>1. PICK i \in 1 .. n + Len(v) : \E j \in 1 .. (u \o v)[i] : x = <<i, j>>
      BY <1>1 DEF Units
    <3>0. PICK j \in 1 .. (u \o v)[i] : x = <<i, j>>
      BY <3>1
    <3>2. CASE i <= n
      BY <3>0, <3>2, <1>1, UnitsMember
    <3>3. CASE i > n
      <4>1. <<i - n, j>> \in Units(v)
        <5>1. i - n \in 1 .. Len(v) /\ (u \o v)[i] = v[i - n]
          BY <3>3, <1>1
        <5> QED BY <3>0, <5>1, <1>1, UnitsMember
      <4>2. x = <<n + <<i - n, j>>[1], <<i - n, j>>[2]>>
        BY <3>0, <1>1
      <4> QED BY <4>1, <4>2
    <3> QED BY <3>2, <3>3, <1>1
  <2>2. ASSUME NEW x \in Units(u) PROVE x \in Units(u \o v)
    <3>1. PICK i \in 1 .. n : \E j \in 1 .. u[i] : x = <<i, j>>
      BY <1>1 DEF Units
    <3>2. i \in 1 .. n + Len(v) /\ (u \o v)[i] = u[i]
      BY <1>1
    <3> QED BY <3>1, <3>2, <1>1, UnitsMember, ZenonT(60)
  <2>3. ASSUME NEW x \in V PROVE x \in Units(u \o v)
    <3>0. PICK y \in Units(v) : x = <<n + y[1], y[2]>>
      OBVIOUS
    <3>1. PICK i \in 1 .. Len(v) : \E j \in 1 .. v[i] : y = <<i, j>>
      BY <1>3
    <3>2. n + i \in 1 .. n + Len(v) /\ (u \o v)[n + i] = v[i]
      BY <1>1
    <3>3. PICK j \in 1 .. v[i] : y = <<i, j>>
      BY <3>1
    <3>4. x = <<n + i, j>>
      BY <3>0, <3>3
    <3> QED BY <3>3, <3>4, <3>2, <1>1, UnitsMember
  <2> QED BY <2>1, <2>2, <2>3
<1>7. Units(u) \cap V = {}
  <2>1. \A x \in Units(u) : \E i \in 1 .. n : \E j \in 1 .. u[i] : x = <<i, j>>
    BY <1>1 DEF Units
  <2>2. \A x \in V : \E i \in 1 .. Len(v) : \E j \in 1 .. v[i] : x = <<n + i, j>>
    BY <1>3
  <2> QED BY <2>1, <2>2, <1>1
<1> HIDE DEF V, f, n
<1>8. Cardinality(Units(u) \cup V) = Cardinality(Units(u)) + Cardinality(V) - 0
  BY <1>2, <1>5, <1>7, FS_Union, FS_EmptySet
<1>9. Cardinality(Units(u)) \in Nat
  BY <1>2, FS_CardinalityType
<1> QED BY <1>2, <1>5, <1>6, <1>8, <1>9 DEF Total

\* The sum of one number is that number.
LEMMA TotalSingle ==
  ASSUME NEW n \in Nat
  PROVE  Total(<<n>>) = n
<1> DEFINE S == {1} \X (1 .. n)
<1>1. Units(<<n>>) = S
  BY DEF Units
<1>2. IsFiniteSet({1}) /\ Cardinality({1}) = 1
  BY FS_Singleton
<1>3. IsFiniteSet(1 .. n) /\ Cardinality(1 .. n) = n
  BY FS_Interval
<1>4. Cardinality(S) = 1 * n
  BY <1>2, <1>3, FS_Product
<1> QED BY <1>1, <1>4 DEF Total

\* A sequence of ones sums to its length.
LEMMA TotalOnes ==
  ASSUME NEW w \in Seq(Nat), \A i \in DOMAIN w : w[i] = 1
  PROVE  Total(w) = Len(w)
<1>0. PICK n \in Nat : n = Len(w) /\ DOMAIN w = 1 .. n
  OBVIOUS
<1> DEFINE S == (1 .. n) \X {1}
<1>1. Units(w) = S
  BY <1>0 DEF Units
<1>2. IsFiniteSet({1}) /\ Cardinality({1}) = 1
  BY FS_Singleton
<1>3. IsFiniteSet(1 .. n) /\ Cardinality(1 .. n) = n
  BY FS_Interval
<1>4. Cardinality(S) = Cardinality(1 .. n) * Cardinality({1})
  BY <1>2, <1>3, FS_Product
<1> HIDE DEF S
<1> QED BY <1>0, <1>1, <1>2, <1>3, <1>4 DEF Total

\* What is bounded index by index is bounded in total.
LEMMA TotalBound ==
  ASSUME NEW u \in Seq(Nat), NEW v \in Seq(Nat), NEW w \in Seq(Nat),
         Len(u) = Len(v), Len(w) = Len(v),
         \A i \in DOMAIN u : u[i] <= v[i] \/ u[i] <= w[i]
  PROVE  Total(u) <= Total(v) + Total(w)
<1>1. IsFiniteSet(Units(v)) /\ IsFiniteSet(Units(w)) /\ Total(v) \in Nat /\ Total(w) \in Nat
  BY UnitsFinite
<1>2. /\ IsFiniteSet(Units(v) \cup Units(w))
      /\ Cardinality(Units(v) \cup Units(w)) = Total(v) + Total(w) - Cardinality(Units(v) \cap Units(w))
  BY <1>1, FS_Union DEF Total
<1>3. Cardinality(Units(v) \cap Units(w)) \in Nat
  BY <1>1, FS_Intersection, FS_CardinalityType
<1>4. Units(u) \in SUBSET (Units(v) \cup Units(w))
  <2>1. SUFFICES ASSUME NEW i \in DOMAIN u, NEW j \in 1 .. u[i]
                 PROVE  <<i, j>> \in Units(v) \cup Units(w)
    BY DEF Units
  <2>2. i \in DOMAIN v /\ i \in DOMAIN w /\ u[i] \in Nat /\ v[i] \in Nat /\ w[i] \in Nat
    OBVIOUS
  <2>3. j \in 1 .. v[i] \/ j \in 1 .. w[i]
    BY <2>2, SMTT(30)
  <2> QED BY <2>2, <2>3, UnitsMember
<1>5. Total(u) <= Cardinality(Units(v) \cup Units(w))
  BY <1>2, <1>4, FS_Subset DEF Total
<1>6. Total(u) \in Nat
  BY UnitsFinite
<1> QED BY <1>1, <1>2, <1>3, <1>5, <1>6

\* The sum of what h says of the entries of a queue.
Weight(q, h) == Total([i \in DOMAIN q |-> h[q[i]]])

\* A queue's weight is that of its parts.
LEMMA WeightConcat ==
  ASSUME NEW S, NEW h \in [S -> Nat], NEW q \in Seq(S), NEW r \in Seq(S)
  PROVE  Weight(q, h) \in Nat /\ Weight(q \o r, h) = Weight(q, h) + Weight(r, h)
<1> DEFINE M(s) == [i \in DOMAIN s |-> h[s[i]]]
<1>1. \A s \in Seq(S) : M(s) \in Seq(Nat) /\ Len(M(s)) = Len(s)
  OBVIOUS
<1>2. M(q \o r) = M(q) \o M(r)
  <2>1. q \o r \in Seq(S)
    BY ConcatProperties
  <2>2. M(q) \in Seq(Nat) /\ M(r) \in Seq(Nat) /\ M(q \o r) \in Seq(Nat)
    BY <1>1, <2>1
  <2>3. M(q) \o M(r) \in Seq(Nat) /\ Len(M(q) \o M(r)) = Len(M(q \o r))
    <3>1. Len(q \o r) = Len(q) + Len(r)
      BY ConcatProperties
    <3> HIDE DEF M
    <3>2. M(q) \o M(r) \in Seq(Nat) /\ Len(M(q) \o M(r)) = Len(M(q)) + Len(M(r))
      BY <2>2, ConcatProperties
    <3> QED BY <1>1, <2>1, <3>1, <3>2
  <2>4. ASSUME NEW i \in 1 .. Len(M(q \o r)) PROVE M(q \o r)[i] = (M(q) \o M(r))[i]
    BY <2>1, <2>2, <1>1, ConcatProperties, SMTT(30)
  <2> HIDE DEF M
  <2> QED BY <2>2, <2>3, <2>4, SeqEqual
<1>3. Total(M(q)) \in Nat
  BY <1>1, UnitsFinite
<1>4. Total(M(q) \o M(r)) = Total(M(q)) + Total(M(r))
  <2> HIDE DEF M
  <2> QED BY <1>1, TotalConcat
<1> QED BY <1>2, <1>3, <1>4 DEF Weight

\* The weight of one entry; the weight of none.
LEMMA WeightSingle ==
  ASSUME NEW S, NEW h \in [S -> Nat], NEW x \in S
  PROVE  Weight(<<x>>, h) = h[x] /\ Weight(<< >>, h) = 0
<1>1. [i \in DOMAIN <<x>> |-> h[<<x>>[i]]] = <<h[x]>>
  OBVIOUS
<1>2. [i \in DOMAIN << >> |-> h[<< >>[i]]] = << >>
  OBVIOUS
<1>3. Total(<<h[x]>>) = h[x]
  BY TotalSingle
<1> QED BY <1>1, <1>2, <1>3, TotalEmpty DEF Weight

\* Taking the oldest entry from a queue takes its weight away.
LEMMA WeightTail ==
  ASSUME NEW S, NEW h \in [S -> Nat], NEW q \in Seq(S), q # << >>
  PROVE  Weight(q, h) = h[Head(q)] + Weight(Tail(q), h) /\ Weight(Tail(q), h) \in Nat
<1>1. Head(q) \in S /\ Tail(q) \in Seq(S) /\ q = <<Head(q)>> \o Tail(q) /\ <<Head(q)>> \in Seq(S)
  OBVIOUS
<1>2. Weight(<<Head(q)>> \o Tail(q), h) = Weight(<<Head(q)>>, h) + Weight(Tail(q), h)
  BY <1>1, WeightConcat
<1>3. Weight(Tail(q), h) \in Nat
  BY <1>1, WeightConcat
<1> QED BY <1>1, <1>2, <1>3, WeightSingle

\* A queue of entries that weigh one each, or nothing.
LEMMA WeightUniform ==
  ASSUME NEW S, NEW h \in [S -> Nat], NEW q \in Seq(S)
  PROVE  /\ (\A i \in DOMAIN q : h[q[i]] = 1) => Weight(q, h) = Len(q)
         /\ (\A i \in DOMAIN q : h[q[i]] = 0) => Weight(q, h) = 0
<1> DEFINE w == [i \in DOMAIN q |-> h[q[i]]]
<1>1. w \in Seq(Nat) /\ Len(w) = Len(q) /\ DOMAIN w = DOMAIN q
  OBVIOUS
<1>2. ASSUME \A i \in DOMAIN q : h[q[i]] = 1 PROVE Weight(q, h) = Len(q)
  <2>1. \A i \in DOMAIN w : w[i] = 1
    BY <1>2
  <2> HIDE DEF w
  <2>2. Total(w) = Len(w)
    BY <1>1, <2>1, TotalOnes
  <2> USE DEF w
  <2> QED BY <1>1, <2>2 DEF Weight
<1>3. ASSUME \A i \in DOMAIN q : h[q[i]] = 0 PROVE Weight(q, h) = 0
  <2>1. Units(w) = {}
    BY <1>3 DEF Units
  <2> QED BY <2>1, FS_EmptySet DEF Weight, Total
<1> QED BY <1>2, <1>3

\* An offset (cursor modulo capacity) lies inside the ring.
LEMMA ModRange ==
  ASSUME NEW C \in Nat \ {0}, NEW p \in Nat
  PROVE  p % C \in 0 .. C - 1
OBVIOUS

\* Two stream positions less than a ring apart have different offsets.
LEMMA ModUnique ==
  ASSUME NEW C \in Nat \ {0}, NEW p \in Nat, NEW q \in Nat,
         p < q, q - p < C
  PROVE  p % C # q % C
<1> SUFFICES ASSUME p % C = q % C PROVE FALSE
  OBVIOUS
<1> DEFINE a == p \div C
           b == q \div C
<1>1. p = C * a + (p % C) /\ q = C * b + (q % C) /\ a \in Int /\ b \in Int
  OBVIOUS
<1>2. q - p = C * (b - a)
  BY <1>1
<1>3. CASE b - a <= 0
  BY <1>1, <1>2, <1>3
<1>4. CASE b - a >= 1
  BY <1>1, <1>2, <1>4
<1> QED BY <1>1, <1>3, <1>4

\* The smaller of two numbers.
LEMMA MinOfTwo ==
  ASSUME NEW a \in Int, NEW b \in Int
  PROVE  Min({a, b}) = IF a <= b THEN a ELSE b
<1> DEFINE S == {a, b}
<1>1. \E x \in S : \A y \in S : x <= y
  OBVIOUS
<1>2. Min(S) \in S /\ \A y \in S : Min(S) <= y
  BY <1>1 DEF Min
<1> QED BY <1>2

-----------------------------------------------------------------------------
(* Sets put in order *)

\* A relation that orders a set: no member before itself, of two the one
\* before the other, and the order is transitive.
Orders(R, S) ==
  /\ \A x \in S : <<x, x>> \notin R
  /\ \A x, y \in S : x = y \/ <<x, y>> \in R \/ <<y, x>> \in R
  /\ \A x, y, z \in S : <<x, y>> \in R /\ <<y, z>> \in R => <<x, z>> \in R

\* What a finite set sorted is: each member once, the earlier ones first.
Lists(q, S) ==
  /\ q \in Seq(S) /\ Len(q) = Cardinality(S)
  /\ \A x \in S : \E i \in DOMAIN q : q[i] = x
  /\ \A i, j \in DOMAIN q : q[i] = q[j] => i = j

\* Sorted lists the members of a finite set in the given order.
LEMMA SortedFacts ==
  ASSUME NEW S, IsFiniteSet(S), NEW R, Orders(R, S)
  PROVE  /\ Lists(Sorted(S, R), S)
         /\ \A i, j \in DOMAIN Sorted(S, R) : i < j => <<Sorted(S, R)[i], Sorted(S, R)[j]>> \in R
<1>2. PICK K \in Nat : K = Cardinality(S)
  BY FS_CardinalityType
<1> DEFINE below(x) == {y \in S : <<y, x>> \in R}
           rank(x) == Cardinality(below(x))
           f == [x \in S |-> rank(x) + 1]
<1>4. ASSUME NEW x \in S PROVE IsFiniteSet(below(x)) /\ rank(x) \in Nat /\ rank(x) < K
  <2>1. below(x) \subseteq S \ {x}
    BY DEF Orders
  <2>2. IsFiniteSet(S \ {x}) /\ Cardinality(S \ {x}) = K - 1
    BY <1>2, FS_RemoveElement
  <2>3. IsFiniteSet(below(x)) /\ rank(x) <= K - 1
    BY <2>1, <2>2, FS_Subset
  <2>4. rank(x) \in Nat
    BY <2>3, FS_CardinalityType
  <2> QED BY <2>3, <2>4
<1>5. ASSUME NEW x \in S, NEW y \in S, <<x, y>> \in R PROVE rank(x) < rank(y)
  <2>1. below(x) \cup {x} \subseteq below(y) /\ x \notin below(x)
    BY <1>5 DEF Orders
  <2>2. IsFiniteSet(below(x) \cup {x}) /\ Cardinality(below(x) \cup {x}) = rank(x) + 1
    BY <2>1, <1>4, FS_AddElement
  <2>3. Cardinality(below(x) \cup {x}) <= rank(y)
    BY <2>1, <1>4, FS_Subset
  <2>4. rank(x) \in Nat /\ rank(y) \in Nat
    BY <1>4
  <2> QED BY <2>2, <2>3, <2>4
<1> HIDE DEF below, rank
<1>6. ASSUME NEW x \in S, NEW y \in S, rank(x) = rank(y) PROVE x = y
  <2>1. rank(x) \in Nat /\ rank(y) \in Nat
    BY <1>4
  <2>2. <<x, y>> \notin R /\ <<y, x>> \notin R
    BY <1>5, <1>6, <2>1
  <2> QED BY <2>2 DEF Orders
<1>7. f \in [S -> 1 .. K] /\ (\A x \in S : f[x] = rank(x) + 1 /\ rank(x) \in Nat)
  BY <1>4
<1>8. f \in Injection(S, 1 .. K)
  <2> HIDE DEF f
  <2>1. \A x, y \in S : f[x] = f[y] => x = y
    BY <1>6, <1>7
  <2>2. IsInjective(f)
    BY <2>1, <1>7 DEF IsInjective
  <2> QED BY <1>7, <2>2 DEF Injection
<1>9. f \in Surjection(S, 1 .. K)
  <2> HIDE DEF f
  <2>1. IsFiniteSet(1 .. K) /\ Cardinality(1 .. K) = K
    BY FS_Interval
  <2> QED BY <1>2, <1>8, <2>1, FS_Injection
<1>10. \A k \in 1 .. K : \E x \in S : rank(x) = k - 1
  <2> TAKE k \in 1 .. K
  <2>1. PICK x \in S : f[x] = k
    BY <1>9 DEF Surjection
  <2> HIDE DEF f
  <2>2. rank(x) = k - 1
    BY <1>7, <2>1
  <2> QED BY <2>2
<1>11. PICK q : q = Sorted(S, R)
  OBVIOUS
<1>12. q = [k \in 1 .. K |-> CHOOSE x \in S : rank(x) = k - 1]
  BY <1>2, <1>11 DEF Sorted, rank, below
<1>13. \A k \in 1 .. K : q[k] \in S /\ rank(q[k]) = k - 1
  BY <1>10, <1>12
<1>14. DOMAIN q = 1 .. K /\ q \in Seq(S) /\ Len(q) = K
  <2>1. q \in [1 .. K -> S]
    BY <1>12, <1>13
  <2> QED BY <2>1
<1>15. \A x \in S : \E i \in DOMAIN q : q[i] = x
  <2> TAKE x \in S
  <2>1. rank(x) + 1 \in 1 .. K /\ (rank(x) + 1) - 1 = rank(x)
    BY <1>4
  <2>2. q[rank(x) + 1] \in S /\ rank(q[rank(x) + 1]) = rank(x)
    BY <1>13, <2>1
  <2>3. q[rank(x) + 1] = x
    BY <1>6, <2>2
  <2> QED BY <1>14, <2>1, <2>3
<1>16. \A i, j \in DOMAIN q : q[i] = q[j] => i = j
  <2> TAKE i, j \in DOMAIN q
  <2> HAVE q[i] = q[j]
  <2>1. i \in 1 .. K /\ j \in 1 .. K /\ i - 1 = j - 1
    BY <1>13, <1>14
  <2> QED BY <2>1
<1>17. \A i, j \in DOMAIN q : i < j => <<q[i], q[j]>> \in R
  <2> TAKE i, j \in DOMAIN q
  <2> HAVE i < j
  <2>1. i \in 1 .. K /\ j \in 1 .. K /\ q[i] \in S /\ q[j] \in S
    BY <1>13, <1>14
  <2>2. rank(q[i]) = i - 1 /\ rank(q[j]) = j - 1
    BY <1>13, <2>1
  <2>3. ~(rank(q[j]) < rank(q[i])) /\ q[i] # q[j]
    BY <2>1, <2>2
  <2>4. <<q[j], q[i]>> \notin R
    BY <1>5, <2>1, <2>3
  <2> QED BY <2>1, <2>3, <2>4 DEF Orders
<1> QED BY <1>2, <1>11, <1>14, <1>15, <1>16, <1>17 DEF Lists

\* A finite set of numbers in ascending order.
LEMMA AscendingLists ==
  ASSUME NEW S, S \subseteq Int, IsFiniteSet(S)
  PROVE  /\ Lists(Ascending(S), S)
         /\ \A i, j \in DOMAIN Ascending(S) : i < j => Ascending(S)[i] < Ascending(S)[j]
<1> DEFINE R == {b \in Int \X Int : b[1] < b[2]}
<1>1. \A x, y \in Int : <<x, y>> \in R <=> x < y
  OBVIOUS
<1>2. Orders(R, S)
  <2> HIDE DEF R
  <2> QED BY <1>1 DEF Orders
<1>3. \A x \in S : {y \in S : y < x} = {y \in S : <<y, x>> \in R}
  <2> HIDE DEF R
  <2> QED BY <1>1
<1> HIDE DEF R
<1>4. Ascending(S) = Sorted(S, R)
  <2> DEFINE A(k) == CHOOSE x \in S : Cardinality({y \in S : y < x}) = k - 1
             B(k) == CHOOSE x \in S : Cardinality({y \in S : <<y, x>> \in R}) = k - 1
  <2>1. \A k \in 1 .. Cardinality(S) : A(k) = B(k)
    BY <1>3
  <2>2. Ascending(S) = [k \in 1 .. Cardinality(S) |-> A(k)]
    BY DEF Ascending
  <2>3. Sorted(S, R) = [k \in 1 .. Cardinality(S) |-> B(k)]
    BY DEF Sorted
  <2> HIDE DEF A, B
  <2> QED BY <2>1, <2>2, <2>3
<1>5. PICK q : q = Sorted(S, R)
  OBVIOUS
<1>6. Lists(q, S) /\ \A i, j \in DOMAIN q : i < j => <<q[i], q[j]>> \in R
  BY <1>2, <1>5, SortedFacts
<1>7. \A i \in DOMAIN q : q[i] \in Int
  <2>1. q \in Seq(S)
    BY <1>6 DEF Lists
  <2>2. \A i \in DOMAIN q : q[i] \in S
    BY <2>1
  <2> QED BY <2>2
<1>8. \A i, j \in DOMAIN q : i < j => q[i] < q[j]
  BY <1>1, <1>6, <1>7
<1> QED BY <1>4, <1>5, <1>6, <1>8
=============================================================================
