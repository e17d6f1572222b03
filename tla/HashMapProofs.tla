---------------------------- MODULE HashMapProofs ----------------------------
(***************************************************************************)
(* Proofs about HashMap, for any keys, values, hashes and initial sizes:   *)
(* references are counted exactly, a sound map never leaves its array, and *)
(* it implements MapSpec.                                                  *)
(*                                                                         *)
(* Everything rests on what an operation does to Count(t, B), the number   *)
(* of buckets of the array t that are in the set B: PutBucket adds one,    *)
(* Remove takes one away, Put replaces one and Rehash, two nested loops,   *)
(* changes no count.  With B the buckets that hold x, these are the        *)
(* references to x; with B the buckets of a key, that it is stored once.   *)
(***************************************************************************)
EXTENDS HashMap, FiniteSetTheorems, FunctionTheorems, SequenceTheorems, NaturalsInduction, WellFoundedInduction, TLAPS

-----------------------------------------------------------------------------
(***************************************************************************)
(* Numbers, finite sets and recursion.                                     *)
(***************************************************************************)
\* A nonempty set of natural numbers has a least element.
LEMMA Least ==
  ASSUME NEW S \in SUBSET Nat, S # {}
  PROVE  \E n \in S : \A m \in S : n <= m
<1>1. IsWellFoundedOn(OpToRel(<, Nat), Nat)
  BY NatLessThanWellFounded
<1>2. PICK n \in S : \A m \in S : ~(<<m, n>> \in OpToRel(<, Nat))
  BY <1>1, WFMin
<1>3. \A m \in S : ~(m < n)
  BY <1>2 DEF OpToRel
<1>4. QED  BY <1>3

\* Two members of a set with at most one are the same.
LEMMA AtMostOne ==
  ASSUME NEW S, IsFiniteSet(S), Cardinality(S) <= 1, NEW x \in S, NEW y \in S
  PROVE  x = y
<1>1. SUFFICES ASSUME x # y PROVE FALSE
  OBVIOUS
<1>2. IsFiniteSet({y}) /\ Cardinality({y}) = 1
  BY FS_Singleton
<1>3. IsFiniteSet({y} \cup {x}) /\ Cardinality({y} \cup {x}) = 2
  <2>1. /\ IsFiniteSet({y} \cup {x})
        /\ Cardinality({y} \cup {x}) = IF x \in {y} THEN Cardinality({y}) ELSE Cardinality({y}) + 1
    BY <1>2, FS_AddElement
  <2>2. x \notin {y}
    BY <1>1
  <2>3. QED  BY <1>2, <2>1, <2>2
<1>4. Cardinality({y} \cup {x}) <= Cardinality(S)
  BY FS_Subset
<1>5. Cardinality(S) \in Nat
  BY FS_CardinalityType
<1>6. QED  BY <1>3, <1>4, <1>5

\* A loop of N steps st over the states S that begins with b: there is a function that
\* gives the state after each step.
Steps(S, N) == [S \X (1..N) -> S]
LoopOf(f, S, N, b, st) ==
    f \in [0..N -> S] /\ f[0] = b /\ \A p \in 1..N : f[p] = st[<<f[p - 1], p>>]

LEMMA Loop ==
  ASSUME NEW S, NEW N \in Nat, NEW b \in S, NEW st \in Steps(S, N)
  PROVE  \E f : LoopOf(f, S, N, b, st)
<1>0. st \in [S \X (1..N) -> S]
  BY DEF Steps
<1> DEFINE Upto(f, n) == f[0] = b /\ \A p \in 1..n : f[p] = st[<<f[p - 1], p>>]
           Bad == {n \in 0..N : ~ \E f \in [0..n -> S] : Upto(f, n)}
<1>1. ASSUME Bad # {} PROVE FALSE
  <2>1. PICK n \in Bad : \A m \in Bad : n <= m
    <3>1. Bad \in SUBSET Nat
      OBVIOUS
    <3>2. QED  BY <1>1, <3>1, Least
  <2>2. n # 0
    <3>1. Upto([p \in 0..0 |-> b], 0) /\ [p \in 0..0 |-> b] \in [0..0 -> S]
      OBVIOUS
    <3>2. QED  BY <3>1, <2>1
  <2>3. n - 1 \in 0..N /\ n - 1 \notin Bad /\ n \in 1..N
    BY <2>1, <2>2
  <2>4. PICK g \in [0..(n - 1) -> S] : Upto(g, n - 1)
    BY <2>3
  <2> DEFINE h == [p \in 0..n |-> IF p = n THEN st[<<g[n - 1], n>>] ELSE g[p]]
  <2>5. g[n - 1] \in S /\ <<g[n - 1], n>> \in S \X (1..N)
    BY <2>3, <2>4
  <2>6. h \in [0..n -> S]
    <3>1. \A p \in 0..n : p = n \/ p \in 0..(n - 1)
      BY <2>3
    <3>2. st[<<g[n - 1], n>>] \in S
      BY <1>0, <2>5
    <3>3. QED  BY <3>1, <3>2, <2>4
  <2>7. /\ h[0] = g[0] /\ h[n] = st[<<g[n - 1], n>>] /\ h[n - 1] = g[n - 1]
        /\ \A p \in 1..(n - 1) : h[p] = g[p] /\ h[p - 1] = g[p - 1]
    BY <2>3
  <2> HIDE DEF h
  <2>8. \A p \in 1..n : p = n \/ p \in 1..(n - 1)
    BY <2>3
  <2>9. Upto(h, n)
    BY <2>4, <2>7, <2>8
  <2>10. QED  BY <2>1, <2>6, <2>9
<1>2. N \notin Bad
  BY <1>1
<1>3. QED  BY <1>2 DEF LoopOf

\* An index is inside the array, and where hashes are not negative PutBucket and Put agree.
LEMMA IndexIs ==
  ASSUME NEW h \in Int, NEW n \in Nat \ {0}
  PROVE  /\ Index(h, n) \in 0..(n - 1)
         /\ h >= 0 => PutBucketIndex(h, n) \in 0..(n - 1)
         /\ h >= 0 /\ h < UIntRange => PutBucketIndex(h, n) = Index(h, n)
         /\ PutBucketIndex(h, n) \in Int /\ PutBucketIndex(h, n) < n
<1>1. h % UIntRange \in Nat
  BY HashMapAssumption
<1>2. \A x \in Nat : x % n \in 0..(n - 1)
  OBVIOUS
<1>3. h >= 0 /\ h < UIntRange => h % UIntRange = h
  BY HashMapAssumption
<1>4. h < 0 => -h \in Nat
  OBVIOUS
<1>5. QED  BY <1>1, <1>2, <1>3, <1>4 DEF Index, PutBucketIndex

\* The prime that the constructor takes is a size.
LEMMA LowerBoundType ==
  ASSUME NEW n \in InitialSizes
  PROVE  get_lower_bound(n) \in 1..MaxBucketSize
<1>1. get_lower_bound(n) \in Nat \ {0}
  <2>1. n \in Nat
    BY HashMapAssumption
  <2>2. CASE n <= 5 \/ n >= 6151
    BY <2>2 DEF get_lower_bound
  <2>3. CASE ~(n <= 5 \/ n >= 6151)
    <3> DEFINE i == CHOOSE j \in 1..10 : prime_list[j] <= n /\ n < prime_list[j + 1]
    <3>1. \E j \in 1..10 : prime_list[j] <= n /\ n < prime_list[j + 1]
      BY <2>1, <2>3 DEF prime_list
    <3>2. i \in 1..10
      BY <3>1
    <3> HIDE DEF i
    <3>3. prime_list[i] \in Nat \ {0} /\ prime_list[i + 1] \in Nat \ {0}
      BY <3>2 DEF prime_list
    <3>4. get_lower_bound(n) = prime_list[i] \/ get_lower_bound(n) = prime_list[i + 1]
      BY <2>1, <2>3 DEF get_lower_bound, i
    <3>5. QED  BY <3>3, <3>4
  <2>4. QED  BY <2>2, <2>3
<1>2. get_lower_bound(n) <= MaxBucketSize
  BY SizesAssumption
<1>3. QED  BY <1>1, <1>2, HashMapAssumption

-----------------------------------------------------------------------------
(***************************************************************************)
(* What the operations on an array do to the counts.                       *)
(***************************************************************************)
One(b, B) == IF b \in B THEN 1 ELSE 0

\* The places of an array and what is there.
LEMMA SlotsAre ==
  ASSUME NEW n \in Nat, NEW t \in Arrays(n)
  PROVE  /\ \A i \in 0..(n - 1), p \in Nat : p \in 1..Len(t[i]) => <<i, p>> \in Slots(t)
         /\ \A s \in Slots(t) : /\ s = <<s[1], s[2]>>
                                /\ s[1] \in 0..(n - 1) /\ s[2] \in 1..Len(t[s[1]])
                                /\ At(t, s) \in Bucket
<1>1. DOMAIN t = 0..(n - 1) /\ \A i \in 0..(n - 1) : t[i] \in Seq(Bucket) /\ DOMAIN t[i] = 1..Len(t[i])
  BY DEF Arrays
<1>2. \A i, p : <<i, p>>[1] = i /\ <<i, p>>[2] = p
  OBVIOUS
<1>3. \A s : s \in Slots(t) <=> \E i \in 0..(n - 1) : \E p \in 1..Len(t[i]) : s = <<i, p>>
  BY <1>1 DEF Slots
<1>4. ASSUME NEW s \in Slots(t)
      PROVE /\ s = <<s[1], s[2]>>
            /\ s[1] \in 0..(n - 1) /\ s[2] \in 1..Len(t[s[1]])
            /\ At(t, s) \in Bucket
  <2>1. PICK i \in 0..(n - 1) : \E p \in 1..Len(t[i]) : s = <<i, p>>
    BY <1>3
  <2>2. PICK p \in 1..Len(t[i]) : s = <<i, p>>
    BY <2>1
  <2>3. s[1] = i /\ s[2] = p
    BY <2>2
  <2>4. t[i][p] \in Bucket
    BY <1>1
  <2>5. QED  BY <2>2, <2>3, <2>4 DEF At
<1>5. QED  BY <1>3, <1>4

\* A finite array has finite counts.
LEMMA CountType ==
  ASSUME NEW t, IsFiniteSet(Slots(t)), NEW B
  PROVE  IsFiniteSet(In(t, B)) /\ Count(t, B) \in Nat
<1>1. In(t, B) \in SUBSET Slots(t)
  BY DEF In
<1>2. IsFiniteSet(In(t, B))
  BY <1>1, FS_Subset
<1>3. QED  BY <1>2, FS_CardinalityType DEF Count

\* Adding and removing a member, by cases.
LEMMA AddOne ==
  ASSUME NEW S, IsFiniteSet(S), NEW x, x \notin S
  PROVE  IsFiniteSet(S \cup {x}) /\ Cardinality(S \cup {x}) = Cardinality(S) + 1
<1>1. /\ IsFiniteSet(S \cup {x})
      /\ Cardinality(S \cup {x}) = IF x \in S THEN Cardinality(S) ELSE Cardinality(S) + 1
  BY FS_AddElement
<1>2. QED  BY <1>1

LEMMA LessOne ==
  ASSUME NEW S, IsFiniteSet(S), NEW x \in S
  PROVE  IsFiniteSet(S \ {x}) /\ Cardinality(S \ {x}) = Cardinality(S) - 1
<1>1. /\ IsFiniteSet(S \ {x})
      /\ Cardinality(S \ {x}) = IF x \in S THEN Cardinality(S) - 1 ELSE Cardinality(S)
  BY FS_RemoveElement
<1>2. QED  BY <1>1

\* A bucket at the end of a chain adds one to the counts it is in.
Added(u, t, n, j, b) ==
    /\ u \in Arrays(n) /\ IsFiniteSet(Slots(u))
    /\ \A B : Count(u, B) = Count(t, B) + One(b, B)
    /\ \A s \in Slots(u) : \/ s \in Slots(t) /\ At(u, s) = At(t, s)
                           \/ s[1] = j /\ At(u, s) = b

LEMMA AppendAdds ==
  ASSUME NEW n \in Nat, NEW t \in Arrays(n), IsFiniteSet(Slots(t)),
         NEW j \in 0..(n - 1), NEW b \in Bucket
  PROVE  Added([t EXCEPT ![j] = Append(@, b)], t, n, j, b)
<1> DEFINE u == [t EXCEPT ![j] = Append(@, b)]
           new == <<j, Len(t[j]) + 1>>
<1>1. /\ t[j] \in Seq(Bucket) /\ Len(t[j]) \in Nat
      /\ \A i \in 0..(n - 1) : t[i] \in Seq(Bucket) /\ Len(t[i]) \in Nat
  BY DEF Arrays
<1>2. /\ Append(t[j], b) \in Seq(Bucket) /\ Len(Append(t[j], b)) = Len(t[j]) + 1
      /\ Append(t[j], b)[Len(t[j]) + 1] = b
      /\ \A p \in 1..Len(t[j]) : Append(t[j], b)[p] = t[j][p]
  BY <1>1
<1>3. /\ u \in Arrays(n) /\ u[j] = Append(t[j], b)
      /\ \A i \in 0..(n - 1) : i # j => u[i] = t[i]
  BY <1>2 DEF Arrays
<1> HIDE DEF u
<1>4. /\ new[1] = j /\ new[2] = Len(t[j]) + 1
  OBVIOUS
<1> HIDE DEF new
<1>5. new \notin Slots(t)
  BY <1>1, <1>4, SlotsAre
<1>6. At(u, new) = b
  BY <1>2, <1>3, <1>4 DEF At
<1>7. ASSUME NEW s \in Slots(t) PROVE s \in Slots(u) /\ At(u, s) = At(t, s)
  <2>1. s = <<s[1], s[2]>> /\ s[1] \in 0..(n - 1) /\ s[2] \in 1..Len(t[s[1]])
    BY SlotsAre
  <2>2. s[2] \in Nat /\ s[2] \in 1..Len(u[s[1]]) /\ u[s[1]][s[2]] = t[s[1]][s[2]]
    <3>1. CASE s[1] = j
      BY <1>1, <1>2, <1>3, <2>1, <3>1
    <3>2. CASE s[1] # j
      BY <1>1, <1>3, <2>1, <3>2
    <3>3. QED  BY <3>1, <3>2
  <2>3. QED  BY <1>3, <2>1, <2>2, SlotsAre DEF At
<1>8. new \in Slots(u)
  <2>1. new = <<j, Len(t[j]) + 1>> /\ Len(t[j]) + 1 \in 1..Len(u[j]) /\ Len(t[j]) + 1 \in Nat
    BY <1>1, <1>2, <1>3 DEF new
  <2>2. QED  BY <1>3, <2>1, SlotsAre
<1>9. ASSUME NEW s \in Slots(u), s # new PROVE s \in Slots(t)
  <2>1. s = <<s[1], s[2]>> /\ s[1] \in 0..(n - 1) /\ s[2] \in 1..Len(u[s[1]])
    BY <1>3, SlotsAre
  <2>2. s[1] = j => s[2] # Len(t[j]) + 1
    BY <1>9, <2>1 DEF new
  <2>3. s[2] \in 1..Len(t[s[1]]) /\ s[2] \in Nat
    BY <1>1, <1>2, <1>3, <2>1, <2>2
  <2>4. QED  BY <2>1, <2>3, SlotsAre
<1>10. Slots(u) = Slots(t) \cup {new}
  BY <1>7, <1>8, <1>9
<1>11. IsFiniteSet(Slots(u))
  BY <1>10, FS_AddElement
<1>12. ASSUME NEW B PROVE Count(u, B) = Count(t, B) + One(b, B)
  <2>1. IsFiniteSet(In(t, B)) /\ Count(t, B) \in Nat
    BY CountType
  <2>2. new \notin In(t, B)
    BY <1>5 DEF In
  <2>3. CASE b \in B
    <3>1. In(u, B) = In(t, B) \cup {new}
      BY <1>6, <1>7, <1>10, <2>3 DEF In
    <3>2. Cardinality(In(u, B)) = Cardinality(In(t, B)) + 1
      BY <2>1, <2>2, <3>1, AddOne
    <3>3. QED  BY <2>3, <3>2 DEF Count, One
  <2>4. CASE b \notin B
    <3>1. In(u, B) = In(t, B)
      BY <1>6, <1>7, <1>10, <2>4 DEF In
    <3>2. QED  BY <2>1, <2>4, <3>1 DEF Count, One
  <2>5. QED  BY <2>3, <2>4
<1>13. \A s \in Slots(u) : \/ s \in Slots(t) /\ At(u, s) = At(t, s)
                           \/ s[1] = j /\ At(u, s) = b
  BY <1>4, <1>6, <1>7, <1>10
<1>14. Added(u, t, n, j, b)
  BY <1>3, <1>11, <1>12, <1>13 DEF Added
<1>15. QED  BY <1>14 DEF u


\* Sets with a one-to-one correspondence have the same size.
LEMMA SameSize ==
  ASSUME NEW S, IsFiniteSet(S), NEW T, NEW F \in [S -> T],
         \A a, b \in S : F[a] = F[b] => a = b,
         \A c \in T : \E a \in S : F[a] = c
  PROVE  Cardinality(T) = Cardinality(S)
<1>1. F \in Bijection(S, T)
  BY Fun_IsBij
<1>2. ExistsBijection(S, T)
  BY <1>1, Fun_ExistsBij
<1>3. QED  BY <1>2, FS_Bijection

\* Concatenation.
LEMMA Concatenated ==
  ASSUME NEW S, NEW x \in Seq(S), NEW y \in Seq(S)
  PROVE  /\ x \o y \in Seq(S) /\ Len(x \o y) = Len(x) + Len(y)
         /\ \A p \in 1..Len(x) : (x \o y)[p] = x[p]
         /\ \A p \in 1..Len(y) : (x \o y)[Len(x) + p] = y[p]
  OBVIOUS

\* RemoveAt shifts what is behind the position.
LEMMA RemoveAtIs ==
  ASSUME NEW S, NEW c \in Seq(S), NEW i \in 1..Len(c)
  PROVE  /\ SeqExt!RemoveAt(c, i) \in Seq(S) /\ Len(SeqExt!RemoveAt(c, i)) = Len(c) - 1
         /\ \A p \in 1..(i - 1) : SeqExt!RemoveAt(c, i)[p] = c[p]
         /\ \A p \in i..(Len(c) - 1) : SeqExt!RemoveAt(c, i)[p] = c[p + 1]
<1> DEFINE x == SubSeq(c, 1, i - 1)
           y == SubSeq(c, i + 1, Len(c))
<1>1. Len(c) \in Nat /\ i \in Nat /\ \A p \in 1..Len(c) : c[p] \in S
  OBVIOUS
<1>2. x \in Seq(S) /\ Len(x) = i - 1 /\ \A p \in 1..(i - 1) : x[p] = c[p]
  <2>1. \A p \in 1..(i - 1) : c[p] \in S
    BY <1>1
  <2>2. /\ x \in Seq(S) /\ Len(x) = IF 1 <= i - 1 THEN i - 1 - 1 + 1 ELSE 0
        /\ \A p \in 1..(i - 1 - 1 + 1) : x[p] = c[1 + p - 1]
    BY <1>1, <2>1, SubSeqProperties
  <2>3. QED  BY <1>1, <2>2
<1>3. y \in Seq(S) /\ Len(y) = Len(c) - i /\ \A p \in 1..(Len(c) - i) : y[p] = c[p + i]
  <2>1. \A p \in (i + 1)..Len(c) : c[p] \in S
    BY <1>1
  <2>2. /\ y \in Seq(S) /\ Len(y) = IF i + 1 <= Len(c) THEN Len(c) - (i + 1) + 1 ELSE 0
        /\ \A p \in 1..(Len(c) - (i + 1) + 1) : y[p] = c[(i + 1) + p - 1]
    BY <1>1, <2>1, SubSeqProperties
  <2>3. QED  BY <1>1, <2>2
<1>4. SeqExt!RemoveAt(c, i) = x \o y
  BY DEF SeqExt!RemoveAt
<1> HIDE DEF x, y
<1>5. /\ x \o y \in Seq(S) /\ Len(x \o y) = Len(x) + Len(y)
      /\ \A p \in 1..Len(x) : (x \o y)[p] = x[p]
      /\ \A p \in 1..Len(y) : (x \o y)[Len(x) + p] = y[p]
  <2>1. x \in Seq(S) /\ y \in Seq(S)
    BY <1>2, <1>3
  <2>2. QED  BY <2>1, Concatenated
<1>6. ASSUME NEW p \in i..(Len(c) - 1) PROVE (x \o y)[p] = c[p + 1]
  <2>1. p - (i - 1) \in 1..Len(y) /\ Len(x) + (p - (i - 1)) = p /\ p - (i - 1) + i = p + 1
    BY <1>1, <1>2, <1>3
  <2>2. (x \o y)[p] = y[p - (i - 1)]
    BY <1>5, <2>1
  <2>3. y[p - (i - 1)] = c[p + 1]
    BY <1>3, <2>1
  <2>4. QED  BY <2>2, <2>3
<1>7. QED  BY <1>1, <1>2, <1>3, <1>4, <1>5, <1>6

\* Removing a bucket takes one from the counts it is in.
Taken(u, t, n, b) ==
    /\ u \in Arrays(n) /\ IsFiniteSet(Slots(u))
    /\ \A B : Count(u, B) = Count(t, B) - One(b, B)
    /\ \A s \in Slots(u) : \E r \in Slots(t) : r[1] = s[1] /\ At(u, s) = At(t, r)

LEMMA RemoveTakes ==
  ASSUME NEW n \in Nat, NEW t \in Arrays(n), IsFiniteSet(Slots(t)),
         NEW j \in 0..(n - 1), NEW i \in 1..Len(t[j])
  PROVE  Taken([t EXCEPT ![j] = SeqExt!RemoveAt(@, i)], t, n, t[j][i])
<1> DEFINE u == [t EXCEPT ![j] = SeqExt!RemoveAt(@, i)]
           F(s) == IF s[1] = j /\ s[2] > i THEN <<j, s[2] - 1>> ELSE s
           G(s) == IF s[1] = j /\ s[2] >= i THEN <<j, s[2] + 1>> ELSE s
           old == <<j, i>>
<1>1. /\ t[j] \in Seq(Bucket) /\ Len(t[j]) \in Nat /\ i \in Nat
      /\ \A k \in 0..(n - 1) : t[k] \in Seq(Bucket) /\ Len(t[k]) \in Nat
  BY DEF Arrays
<1>2. /\ SeqExt!RemoveAt(t[j], i) \in Seq(Bucket) /\ Len(SeqExt!RemoveAt(t[j], i)) = Len(t[j]) - 1
      /\ \A p \in 1..(i - 1) : SeqExt!RemoveAt(t[j], i)[p] = t[j][p]
      /\ \A p \in i..(Len(t[j]) - 1) : SeqExt!RemoveAt(t[j], i)[p] = t[j][p + 1]
  BY <1>1, RemoveAtIs
<1>3. /\ u \in Arrays(n) /\ u[j] = SeqExt!RemoveAt(t[j], i)
      /\ \A k \in 0..(n - 1) : k # j => u[k] = t[k]
  BY <1>2 DEF Arrays
<1> HIDE DEF u
<1>4. old[1] = j /\ old[2] = i /\ old \in Slots(t) /\ At(t, old) = t[j][i]
  BY <1>1, SlotsAre DEF At
<1>5. ASSUME NEW s \in Slots(t), s # old
      PROVE  F(s) \in Slots(u) /\ At(u, F(s)) = At(t, s) /\ G(F(s)) = s
  <2>1. s = <<s[1], s[2]>> /\ s[1] \in 0..(n - 1) /\ s[2] \in 1..Len(t[s[1]])
    BY SlotsAre
  <2>2. s[1] = j => s[2] # i
    BY <1>5, <2>1
  <2>3. CASE s[1] # j
    <3>1. F(s) = s /\ G(s) = s /\ s[2] \in 1..Len(u[s[1]]) /\ s[2] \in Nat /\ u[s[1]] = t[s[1]]
      BY <1>1, <1>3, <2>1, <2>3
    <3>2. QED  BY <1>3, <2>1, <3>1, SlotsAre, SMTT(40) DEF At
  <2>4. CASE s[1] = j /\ s[2] < i
    <3>1. F(s) = s /\ G(s) = s /\ s[2] \in 1..Len(u[j]) /\ s[2] \in Nat /\ u[j][s[2]] = t[j][s[2]]
      BY <1>1, <1>2, <1>3, <2>1, <2>4
    <3>2. QED  BY <1>3, <2>1, <2>4, <3>1, SlotsAre DEF At
  <2>5. CASE s[1] = j /\ s[2] > i
    <3> DEFINE q == s[2] - 1
    <3>0. s[2] \in 1..Len(t[j]) /\ s[2] \in Nat /\ s[2] > i
      BY <1>1, <2>1, <2>5
    <3>1. /\ F(s) = <<j, q>> /\ q \in 1..Len(u[j]) /\ q \in Nat /\ u[j][q] = t[j][s[2]]
          /\ q >= i /\ q + 1 = s[2]
      <4>1. q \in i..(Len(t[j]) - 1) /\ q \in 1..(Len(t[j]) - 1) /\ q \in Nat /\ q >= i /\ q + 1 = s[2]
        BY <1>1, <3>0
      <4>2. u[j][q] = t[j][q + 1]
        BY <1>2, <1>3, <4>1
      <4>3. F(s) = <<j, q>>
        BY <2>5
      <4> HIDE DEF q, F
      <4>4. QED  BY <1>2, <1>3, <4>1, <4>2, <4>3
    <3> HIDE DEF q
    <3>2. <<j, q>>[1] = j /\ <<j, q>>[2] = q
      OBVIOUS
    <3>3. G(<<j, q>>) = <<j, s[2]>>
      BY <3>1, <3>2
    <3>4. <<j, q>> \in Slots(u)
      BY <1>3, <3>1, SlotsAre
    <3> HIDE DEF F, G
    <3>5. QED  BY <2>1, <2>5, <3>1, <3>2, <3>3, <3>4 DEF At
  <2>6. QED  BY <1>1, <2>1, <2>2, <2>3, <2>4, <2>5
<1>6. ASSUME NEW s \in Slots(u)
      PROVE  G(s) \in Slots(t) /\ G(s) # old /\ F(G(s)) = s /\ G(s)[1] = s[1]
  <2>1. s = <<s[1], s[2]>> /\ s[1] \in 0..(n - 1) /\ s[2] \in 1..Len(u[s[1]])
    BY <1>3, SlotsAre
  <2>2. CASE s[1] # j
    <3>1. F(s) = s /\ G(s) = s /\ s[2] \in 1..Len(t[s[1]]) /\ s[2] \in Nat
      BY <1>1, <1>3, <2>1, <2>2
    <3>2. QED  BY <1>4, <2>1, <2>2, <3>1, SlotsAre
  <2>3. CASE s[1] = j /\ s[2] < i
    <3>1. F(s) = s /\ G(s) = s /\ s[2] \in 1..Len(t[j]) /\ s[2] \in Nat
      BY <1>1, <1>2, <1>3, <2>1, <2>3
    <3>2. QED  BY <1>1, <1>4, <2>1, <2>3, <3>1, SlotsAre
  <2>4. CASE s[1] = j /\ s[2] >= i
    <3> DEFINE q == s[2] + 1
    <3>1. /\ G(s) = <<j, q>> /\ q \in 1..Len(t[j]) /\ q \in Nat /\ q > i /\ q - 1 = s[2]
      BY <1>1, <1>2, <1>3, <2>1, <2>4
    <3> HIDE DEF q
    <3>2. <<j, q>>[1] = j /\ <<j, q>>[2] = q
      OBVIOUS
    <3>3. F(<<j, q>>) = <<j, s[2]>>
      BY <3>1, <3>2
    <3>4. <<j, q>> \in Slots(t)
      BY <3>1, SlotsAre
    <3>5. <<j, q>> # old
      BY <1>1, <1>4, <3>1, <3>2
    <3> HIDE DEF F, G, old
    <3>6. QED  BY <2>1, <2>4, <3>1, <3>2, <3>3, <3>4, <3>5
  <2>5. QED  BY <1>1, <2>1, <2>2, <2>3, <2>4
<1> HIDE DEF F, G, old
<1>7. ASSUME NEW B
      PROVE  Cardinality(In(u, B)) = Cardinality(In(t, B) \ {old})
  <2> DEFINE S == In(t, B) \ {old}
             fn == [s \in S |-> F(s)]
  <2>1. IsFiniteSet(In(t, B))
    BY CountType
  <2>2. IsFiniteSet(S)
    BY <2>1, FS_Subset
  <2>3. \A s \in S : s \in Slots(t) /\ s # old /\ At(t, s) \in B
    BY DEF In
  <2>4. fn \in [S -> In(u, B)]
    BY <1>5, <2>3 DEF In
  <2>5. \A a, b \in S : fn[a] = fn[b] => a = b
    BY <1>5, <2>3
  <2>6. ASSUME NEW s \in In(u, B) PROVE \E a \in S : fn[a] = s
    <3>1. s \in Slots(u) /\ At(u, s) \in B
      BY DEF In
    <3>2. G(s) \in Slots(t) /\ G(s) # old /\ F(G(s)) = s
      BY <1>6, <3>1
    <3>3. At(t, G(s)) = At(u, s)
      BY <1>5, <3>2
    <3>4. G(s) \in S
      BY <3>1, <3>2, <3>3 DEF In
    <3>5. QED  BY <3>2, <3>4
  <2> HIDE DEF S, fn
  <2>7. Cardinality(In(u, B)) = Cardinality(S)
    BY <2>2, <2>4, <2>5, <2>6, SameSize
  <2>8. QED  BY <2>7 DEF S
<1>8. IsFiniteSet(Slots(u))
  <2>1. Slots(u) \in SUBSET Slots(t)
    <3>1. SUFFICES ASSUME NEW s \in Slots(u) PROVE s \in Slots(t)
      OBVIOUS
    <3>2. s = <<s[1], s[2]>> /\ s[1] \in 0..(n - 1) /\ s[2] \in 1..Len(u[s[1]])
      BY <1>3, SlotsAre
    <3>3. s[2] \in 1..Len(t[s[1]]) /\ s[2] \in Nat
      <4>1. CASE s[1] = j
        BY <1>1, <1>2, <1>3, <3>2, <4>1
      <4>2. CASE s[1] # j
        BY <1>1, <1>3, <3>2, <4>2
      <4>3. QED  BY <4>1, <4>2
    <3>4. QED  BY <3>2, <3>3, SlotsAre
  <2>2. QED  BY <2>1, FS_Subset
<1>9. ASSUME NEW B PROVE Count(u, B) = Count(t, B) - One(t[j][i], B)
  <2>1. IsFiniteSet(In(t, B)) /\ Count(t, B) \in Nat
    BY CountType
  <2>2. CASE t[j][i] \in B
    <3>1. old \in In(t, B)
      BY <1>4, <2>2 DEF In
    <3>2. Cardinality(In(t, B) \ {old}) = Cardinality(In(t, B)) - 1
      BY <2>1, <3>1, LessOne
    <3>3. QED  BY <1>7, <2>2, <3>2 DEF Count, One
  <2>3. CASE t[j][i] \notin B
    <3>1. In(t, B) \ {old} = In(t, B)
      BY <1>4, <2>3 DEF In
    <3>2. Count(u, B) = Count(t, B)
      BY <1>7, <3>1 DEF Count
    <3>3. QED  BY <2>1, <2>3, <3>2 DEF One
  <2>4. QED  BY <2>2, <2>3
<1>10. \A s \in Slots(u) : \E r \in Slots(t) : r[1] = s[1] /\ At(u, s) = At(t, r)
  <2>1. SUFFICES ASSUME NEW s \in Slots(u) PROVE \E r \in Slots(t) : r[1] = s[1] /\ At(u, s) = At(t, r)
    OBVIOUS
  <2>2. G(s) \in Slots(t) /\ G(s) # old /\ F(G(s)) = s /\ G(s)[1] = s[1]
    BY <1>6
  <2>3. At(u, F(G(s))) = At(t, G(s))
    BY <1>5, <2>2
  <2>4. QED  BY <2>2, <2>3
<1>11. Taken(u, t, n, t[j][i])
  BY <1>3, <1>8, <1>9, <1>10 DEF Taken
<1>12. QED  BY <1>11 DEF u


\* Replacing a value swaps one bucket for another in the counts.
Swapped(u, t, n, j, b, c) ==
    /\ u \in Arrays(n) /\ IsFiniteSet(Slots(u))
    /\ \A B : Count(u, B) = Count(t, B) - One(b, B) + One(c, B)
    /\ \A s \in Slots(u) : \/ s \in Slots(t) /\ At(u, s) = At(t, s)
                           \/ s[1] = j /\ At(u, s) = c

LEMMA ReplaceSwaps ==
  ASSUME NEW n \in Nat, NEW t \in Arrays(n), IsFiniteSet(Slots(t)),
         NEW j \in 0..(n - 1), NEW i \in 1..Len(t[j]), NEW v \in Values
  PROVE  Swapped([t EXCEPT ![j] = [@ EXCEPT ![i].mValue = v]], t, n, j, t[j][i],
                 [t[j][i] EXCEPT !.mValue = v])
<1> DEFINE b == t[j][i]
           c == [b EXCEPT !.mValue = v]
           chain == [t[j] EXCEPT ![i].mValue = v]
           u == [t EXCEPT ![j] = [@ EXCEPT ![i].mValue = v]]
           old == <<j, i>>
<1>1. /\ t[j] \in Seq(Bucket) /\ Len(t[j]) \in Nat /\ i \in Nat /\ b \in Bucket
      /\ \A k \in 0..(n - 1) : t[k] \in Seq(Bucket) /\ Len(t[k]) \in Nat
  BY DEF Arrays
<1>2. c \in Bucket
  BY <1>1 DEF Bucket
<1>3. chain \in Seq(Bucket) /\ Len(chain) = Len(t[j]) /\ chain[i] = c
      /\ \A p \in 1..Len(t[j]) : p # i => chain[p] = t[j][p]
  <2>1. chain = [t[j] EXCEPT ![i] = c]
    BY <1>1
  <2> HIDE DEF c, chain
  <2>2. QED  BY <1>1, <1>2, <2>1
<1>4. u = [t EXCEPT ![j] = chain]
  BY DEF Arrays
<1> HIDE DEF chain, u, c
<1>5. /\ u \in Arrays(n) /\ u[j] = chain /\ \A k \in 0..(n - 1) : k # j => u[k] = t[k]
  BY <1>3, <1>4 DEF Arrays
<1>6. old[1] = j /\ old[2] = i /\ old \in Slots(t) /\ At(t, old) = b
  BY <1>1, SlotsAre DEF At
<1>7. At(u, old) = c
  BY <1>3, <1>5, <1>6 DEF At
<1>8. Slots(u) = Slots(t)
  <2>1. \A k \in 0..(n - 1) : Len(u[k]) = Len(t[k])
    BY <1>3, <1>5
  <2>2. ASSUME NEW s \in Slots(t) PROVE s \in Slots(u)
    <3>1. s = <<s[1], s[2]>> /\ s[1] \in 0..(n - 1) /\ s[2] \in 1..Len(t[s[1]])
      BY SlotsAre
    <3>2. s[2] \in 1..Len(u[s[1]]) /\ s[2] \in Nat
      BY <1>1, <2>1, <3>1
    <3>3. QED  BY <1>5, <3>1, <3>2, SlotsAre
  <2>3. ASSUME NEW s \in Slots(u) PROVE s \in Slots(t)
    <3>1. s = <<s[1], s[2]>> /\ s[1] \in 0..(n - 1) /\ s[2] \in 1..Len(u[s[1]])
      BY <1>5, SlotsAre
    <3>2. s[2] \in 1..Len(t[s[1]]) /\ s[2] \in Nat
      BY <1>1, <2>1, <3>1
    <3>3. QED  BY <3>1, <3>2, SlotsAre
  <2>4. QED  BY <2>2, <2>3
<1>9. ASSUME NEW s \in Slots(t), s # old PROVE At(u, s) = At(t, s)
  <2>1. s = <<s[1], s[2]>> /\ s[1] \in 0..(n - 1) /\ s[2] \in 1..Len(t[s[1]])
    BY SlotsAre
  <2>2. s[1] = j => s[2] # i
    BY <1>9, <2>1
  <2>3. CASE s[1] = j
    BY <1>3, <1>5, <2>1, <2>2, <2>3 DEF At
  <2>4. CASE s[1] # j
    BY <1>5, <2>1, <2>4 DEF At
  <2>5. QED  BY <2>3, <2>4
<1> HIDE DEF old
<1>10. ASSUME NEW B PROVE Count(u, B) = Count(t, B) - One(b, B) + One(c, B)
  <2> DEFINE rest == In(t, B) \ {old}
  <2>1. IsFiniteSet(In(t, B)) /\ Cardinality(In(t, B)) \in Nat
    BY CountType DEF Count
  <2>2. IsFiniteSet(rest) /\ Cardinality(rest) \in Nat
    BY <2>1, FS_RemoveElement, FS_CardinalityType
  <2>3. Cardinality(In(t, B)) = Cardinality(rest) + One(b, B)
    <3>1. CASE b \in B
      <4>1. old \in In(t, B)
        BY <1>6, <3>1 DEF In
      <4>2. Cardinality(rest) = Cardinality(In(t, B)) - 1
        BY <2>1, <4>1, LessOne
      <4>3. QED  BY <2>1, <3>1, <4>2 DEF One
    <3>2. CASE b \notin B
      <4>1. rest = In(t, B)
        BY <1>6, <3>2 DEF In
      <4> HIDE DEF rest
      <4>2. QED  BY <2>1, <3>2, <4>1 DEF One
    <3>3. QED  BY <3>1, <3>2
  <2>4. Cardinality(In(u, B)) = Cardinality(rest) + One(c, B)
    <3>1. CASE c \in B
      <4>1. In(u, B) = rest \cup {old}
        BY <1>6, <1>7, <1>8, <1>9, <3>1 DEF In
      <4>2. Cardinality(In(u, B)) = Cardinality(rest) + 1
        BY <2>2, <4>1, AddOne
      <4>3. QED  BY <3>1, <4>2 DEF One
    <3>2. CASE c \notin B
      <4>1. In(u, B) = rest
        BY <1>6, <1>7, <1>8, <1>9, <3>2 DEF In
      <4>2. QED  BY <2>2, <3>2, <4>1 DEF One
    <3>3. QED  BY <3>1, <3>2
  <2>5. One(b, B) \in Nat /\ One(c, B) \in Nat
    BY DEF One
  <2>6. QED  BY <2>2, <2>3, <2>4, <2>5 DEF Count
<1>11. \A s \in Slots(u) : \/ s \in Slots(t) /\ At(u, s) = At(t, s)
                           \/ s[1] = j /\ At(u, s) = c
  BY <1>6, <1>7, <1>8, <1>9
<1>12. Swapped(u, t, n, j, b, c)
  BY <1>5, <1>8, <1>10, <1>11 DEF Swapped
<1>13. QED  BY <1>12 DEF u, c

-----------------------------------------------------------------------------
(***************************************************************************)
(* Rehash.                                                                 *)
(***************************************************************************)
\* Buckets that PutBucket keeps inside an array of the size, and an array in which
\* every bucket is where PutBucket puts it.
Fits(b, size) == PutBucketIndex(b.mHash, size) \in 0..(size - 1)
Home(t, size) == \A s \in Slots(t) : s[1] = PutBucketIndex(At(t, s).mHash, size)

\* u is new with the first p buckets of the chain.
InChain(chain, B, p) == {q \in 1..p : chain[q] \in B}
HasMoved(u, new, size, chain, p) ==
    /\ u \in Arrays(size) /\ IsFiniteSet(Slots(u)) /\ Home(u, size)
    /\ \A B : Count(u, B) = Count(new, B) + Cardinality(InChain(chain, B, p))

\* The buckets of a chain are moved one by one: the inner loop of Rehash.
LEMMA MoveChainIs ==
  ASSUME NEW size \in Nat, NEW new \in Arrays(size), IsFiniteSet(Slots(new)), Home(new, size),
         NEW chain \in Seq(Bucket), \A p \in 1..Len(chain) : Fits(chain[p], size)
  PROVE  HasMoved(MoveChain(new, size, chain), new, size, chain, Len(chain))
<1> DEFINE L == Len(chain)
           S == Arrays(size)
           st == [z \in S \X (1..L) |-> PutBucket(z[1], size, chain[z[2]])]
           Eq(f) == f = [p \in 0..L |-> IF p = 0 THEN new ELSE PutBucket(f[p - 1], size, chain[p])]
           m == CHOOSE f : Eq(f)
<1>1. L \in Nat /\ \A p \in 1..L : chain[p] \in Bucket
  OBVIOUS
<1>2. MoveChain(new, size, chain) = m[L]
  BY DEF MoveChain
<1>3. ASSUME NEW t \in S, NEW p \in 1..L, IsFiniteSet(Slots(t))
      PROVE  Added(PutBucket(t, size, chain[p]), t, size, PutBucketIndex(chain[p].mHash, size), chain[p])
  <2>1. chain[p] \in Bucket /\ PutBucketIndex(chain[p].mHash, size) \in 0..(size - 1)
    BY <1>1 DEF Fits
  <2> DEFINE b == chain[p]
             j == PutBucketIndex(b.mHash, size)
  <2>2. PutBucket(t, size, b) = [t EXCEPT ![j] = Append(@, b)]
    BY DEF PutBucket
  <2>3. b \in Bucket /\ j \in 0..(size - 1)
    BY <2>1
  <2> HIDE DEF b, j
  <2>4. Added([t EXCEPT ![j] = Append(@, b)], t, size, j, b)
    BY <1>3, <2>3, AppendAdds
  <2>5. QED  BY <2>2, <2>4 DEF b, j
<1>4. st \in Steps(S, L)
  <2>1. ASSUME NEW t \in S, NEW p \in 1..L PROVE PutBucket(t, size, chain[p]) \in S
    <3>1. chain[p] \in Bucket /\ PutBucketIndex(chain[p].mHash, size) \in 0..(size - 1)
      BY <1>1 DEF Fits
    <3>2. t[PutBucketIndex(chain[p].mHash, size)] \in Seq(Bucket)
      BY <3>1 DEF Arrays
    <3>3. Append(t[PutBucketIndex(chain[p].mHash, size)], chain[p]) \in Seq(Bucket)
      BY <3>1, <3>2
    <3>4. QED  BY <3>1, <3>3 DEF PutBucket, Arrays
  <2>2. ASSUME NEW z \in S \X (1..L) PROVE PutBucket(z[1], size, chain[z[2]]) \in S
    BY <2>1
  <2>3. QED  BY <2>2 DEF Steps
<1>5. PICK g : LoopOf(g, S, L, new, st)
  <2>1. new \in S /\ L \in Nat
    BY <1>1
  <2> HIDE DEF st, S, L
  <2>2. QED  BY <1>4, <2>1, Loop
<1>6. Eq(g)
  <2>0. g \in [0..L -> S] /\ g[0] = new /\ \A p \in 1..L : g[p] = st[<<g[p - 1], p>>]
    BY <1>5 DEF LoopOf
  <2>1. \A p \in 0..L : p = 0 \/ (p \in 1..L /\ g[p - 1] \in S)
    BY <1>1, <2>0
  <2>2. \A t \in S, p \in 1..L : st[<<t, p>>] = PutBucket(t, size, chain[p])
    OBVIOUS
  <2> HIDE DEF st, S
  <2>3. \A p \in 0..L : g[p] = IF p = 0 THEN new ELSE PutBucket(g[p - 1], size, chain[p])
    BY <2>0, <2>1, <2>2
  <2>4. QED  BY <2>0, <2>3
<1>7. Eq(m)
  BY <1>6
<1> HIDE DEF m, st
<1>8. /\ m[0] = new
      /\ \A p \in 1..L : m[p] = PutBucket(m[p - 1], size, chain[p])
  BY <1>1, <1>7
<1> DEFINE Bad == {p \in 0..L : ~HasMoved(m[p], new, size, chain, p)}
<1>9. ASSUME Bad # {} PROVE FALSE
  <2>1. PICK p \in Bad : \A q \in Bad : p <= q
    <3>1. Bad \in SUBSET Nat
      BY <1>1
    <3>2. QED  BY <1>9, <3>1, Least
  <2>2. p # 0
    <3>1. \A B : InChain(chain, B, 0) = {}
      BY DEF InChain
    <3>2. \A B : Cardinality(InChain(chain, B, 0)) = 0
      BY <3>1, FS_EmptySet
    <3>3. \A B : Count(new, B) \in Nat
      BY CountType
    <3>4. HasMoved(m[0], new, size, chain, 0)
      BY <1>8, <3>2, <3>3 DEF HasMoved
    <3>5. QED  BY <2>1, <3>4
  <2>3. p \in 1..L /\ p - 1 \in 0..L /\ p - 1 \notin Bad
    BY <1>1, <2>1, <2>2
  <2>4. HasMoved(m[p - 1], new, size, chain, p - 1)
    BY <2>3
  <2> DEFINE t == m[p - 1]
             u == m[p]
             b == chain[p]
             j == PutBucketIndex(b.mHash, size)
  <2>5. Added(u, t, size, j, b)
    BY <1>3, <1>8, <2>3, <2>4 DEF HasMoved
  <2>6. u \in Arrays(size) /\ IsFiniteSet(Slots(u))
    BY <2>5 DEF Added
  <2>7. Home(u, size)
    <3>1. SUFFICES ASSUME NEW s \in Slots(u) PROVE s[1] = PutBucketIndex(At(u, s).mHash, size)
      BY DEF Home
    <3>2. (s \in Slots(t) /\ At(u, s) = At(t, s)) \/ (s[1] = j /\ At(u, s) = b)
      BY <2>5 DEF Added
    <3>3. QED  BY <2>4, <3>2 DEF HasMoved, Home
  <2>8. ASSUME NEW B PROVE Count(u, B) = Count(new, B) + Cardinality(InChain(chain, B, p))
    <3>1. Count(u, B) = Count(t, B) + One(b, B)
      BY <2>5 DEF Added
    <3>2. Count(t, B) = Count(new, B) + Cardinality(InChain(chain, B, p - 1))
      BY <2>4 DEF HasMoved
    <3>3. IsFiniteSet(InChain(chain, B, p - 1)) /\ Cardinality(InChain(chain, B, p - 1)) \in Nat
      <4>1. IsFiniteSet(1..(p - 1))
        BY <2>3, FS_Interval
      <4>2. InChain(chain, B, p - 1) \in SUBSET (1..(p - 1))
        BY DEF InChain
      <4>3. IsFiniteSet(InChain(chain, B, p - 1))
        BY <4>1, <4>2, FS_Subset
      <4>4. QED  BY <4>3, FS_CardinalityType
    <3>4. Count(new, B) \in Nat
      BY CountType
    <3>5. Cardinality(InChain(chain, B, p)) = Cardinality(InChain(chain, B, p - 1)) + One(b, B)
      <4>1. \A q : q \in 1..p <=> q \in 1..(p - 1) \/ q = p
        BY <2>3
      <4>2. CASE b \in B
        <5>1. InChain(chain, B, p) = InChain(chain, B, p - 1) \cup {p}
          BY <4>1, <4>2 DEF InChain
        <5>2. p \notin InChain(chain, B, p - 1)
          BY <2>3 DEF InChain
        <5>3. Cardinality(InChain(chain, B, p)) = Cardinality(InChain(chain, B, p - 1)) + 1
          BY <3>3, <5>1, <5>2, AddOne
        <5>4. QED  BY <4>2, <5>3 DEF One
      <4>3. CASE b \notin B
        <5>1. InChain(chain, B, p) = InChain(chain, B, p - 1)
          BY <4>1, <4>3 DEF InChain
        <5>2. QED  BY <3>3, <4>3, <5>1 DEF One
      <4>4. QED  BY <4>2, <4>3
    <3>6. One(b, B) \in Nat
      BY DEF One
    <3>7. QED  BY <3>1, <3>2, <3>3, <3>4, <3>5, <3>6
  <2>9. HasMoved(m[p], new, size, chain, p)
    BY <2>6, <2>7, <2>8 DEF HasMoved
  <2>10. QED  BY <2>1, <2>9
<1>10. HasMoved(m[L], new, size, chain, L)
  BY <1>1, <1>9
<1>11. QED  BY <1>2, <1>10


\* An array of empty chains.
LEMMA EmptyArray ==
  ASSUME NEW n \in Nat, NEW t \in Arrays(n), \A j \in 0..(n - 1) : t[j] = <<>>
  PROVE  Slots(t) = {} /\ IsFiniteSet(Slots(t)) /\ \A B : Count(t, B) = 0
<1>1. Slots(t) = {}
  <2>1. SUFFICES ASSUME NEW s \in Slots(t) PROVE FALSE
    OBVIOUS
  <2>2. s[1] \in 0..(n - 1) /\ s[2] \in 1..Len(t[s[1]])
    BY SlotsAre
  <2>3. Len(t[s[1]]) = 0
    BY <2>2
  <2>4. QED  BY <2>2, <2>3
<1>2. \A B : In(t, B) = {}
  BY <1>1 DEF In
<1>3. QED  BY <1>1, <1>2, FS_EmptySet DEF Count

\* The places of the first i chains, and of chain i alone, that are in B.
Before(t, B, i) == {s \in In(t, B) : s[1] < i}
Row(t, B, i) == {s \in In(t, B) : s[1] = i}

\* The number of buckets of a chain that are in B.
LEMMA RowSize ==
  ASSUME NEW n \in Nat, NEW t \in Arrays(n), NEW i \in 0..(n - 1), NEW B
  PROVE  Cardinality(Row(t, B, i)) = Cardinality(InChain(t[i], B, Len(t[i])))
<1> DEFINE S == InChain(t[i], B, Len(t[i]))
           F == [q \in S |-> <<i, q>>]
<1>1. t[i] \in Seq(Bucket) /\ Len(t[i]) \in Nat
  BY DEF Arrays
<1>2. IsFiniteSet(S)
  <2>0. 1 \in Int /\ Len(t[i]) \in Int
    BY <1>1
  <2>1. IsFiniteSet(1..Len(t[i]))
    BY <2>0, FS_Interval
  <2>2. S \in SUBSET (1..Len(t[i]))
    BY DEF InChain
  <2>3. QED  BY <2>1, <2>2, FS_Subset
<1>3. \A q \in S : <<i, q>> \in Row(t, B, i)
  <2>1. SUFFICES ASSUME NEW q \in S PROVE <<i, q>> \in Row(t, B, i)
    OBVIOUS
  <2>2. q \in 1..Len(t[i]) /\ t[i][q] \in B /\ q \in Nat
    BY <1>1 DEF InChain
  <2>3. <<i, q>> \in Slots(t) /\ <<i, q>>[1] = i /\ <<i, q>>[2] = q
    BY <2>2, SlotsAre
  <2>4. QED  BY <2>2, <2>3 DEF Row, In, At
<1>4. \A s \in Row(t, B, i) : s[2] \in S /\ s = <<i, s[2]>>
  <2>1. SUFFICES ASSUME NEW s \in Row(t, B, i) PROVE s[2] \in S /\ s = <<i, s[2]>>
    OBVIOUS
  <2>2. s \in Slots(t) /\ At(t, s) \in B /\ s[1] = i
    BY DEF Row, In
  <2>3. s = <<s[1], s[2]>> /\ s[2] \in 1..Len(t[s[1]])
    BY <2>2, SlotsAre
  <2>4. QED  BY <2>2, <2>3 DEF InChain, At
<1>5. F \in [S -> Row(t, B, i)] /\ (\A a, b \in S : F[a] = F[b] => a = b)
  BY <1>3
<1>6. \A s \in Row(t, B, i) : \E q \in S : F[q] = s
  BY <1>4
<1> HIDE DEF S, F
<1>7. Cardinality(Row(t, B, i)) = Cardinality(S)
  BY <1>2, <1>5, <1>6, SameSize
<1>8. QED  BY <1>7 DEF S

\* Rehash moves every bucket and no other: the outer loop.
Rearranged(u, t, size) ==
    /\ u \in Arrays(size) /\ IsFiniteSet(Slots(u)) /\ Home(u, size)
    /\ \A B : Count(u, B) = Count(t, B)

LEMMA MoveChainsIs ==
  ASSUME NEW size \in Nat, NEW n \in Nat, NEW t \in Arrays(n), IsFiniteSet(Slots(t)),
         \A s \in Slots(t) : Fits(At(t, s), size)
  PROVE  Rearranged(MoveChains(size, t, n), t, size)
<1> DEFINE S == {u \in Arrays(size) : IsFiniteSet(Slots(u)) /\ Home(u, size)}
           new == [j \in 0..(size - 1) |-> <<>>]
           st == [z \in S \X (1..n) |-> MoveChain(z[1], size, t[z[2] - 1])]
           Eq(f) == f = [i \in 0..n |-> IF i = 0 THEN new ELSE MoveChain(f[i - 1], size, t[i - 1])]
           m == CHOOSE f : Eq(f)
<1>1. MoveChains(size, t, n) = m[n]
  BY DEF MoveChains
<1>2. new \in Arrays(size) /\ \A j \in 0..(size - 1) : new[j] = <<>>
  <2>1. <<>> \in Seq(Bucket)
    OBVIOUS
  <2>2. QED  BY <2>1 DEF Arrays
<1> HIDE DEF new
<1>3. Slots(new) = {} /\ IsFiniteSet(Slots(new)) /\ \A B : Count(new, B) = 0
  BY <1>2, EmptyArray
<1>4. new \in S
  BY <1>2, <1>3 DEF Home
<1>5. ASSUME NEW u \in S, NEW i \in 1..n
      PROVE  HasMoved(MoveChain(u, size, t[i - 1]), u, size, t[i - 1], Len(t[i - 1]))
  <2>0. i - 1 \in 0..(n - 1)
    OBVIOUS
  <2>1. i - 1 \in 0..(n - 1) /\ t[i - 1] \in Seq(Bucket) /\ Len(t[i - 1]) \in Nat
    BY <2>0 DEF Arrays
  <2>2. ASSUME NEW p \in 1..Len(t[i - 1]) PROVE Fits(t[i - 1][p], size)
    <3> DEFINE s == <<i - 1, p>>
    <3>1. s \in Slots(t) /\ s[1] = i - 1 /\ s[2] = p
      BY <2>1, SlotsAre
    <3>2. At(t, s) = t[i - 1][p]
      BY <3>1 DEF At
    <3>3. QED  BY <3>1, <3>2
  <2>3. QED  BY <2>1, <2>2, MoveChainIs
<1>6. st \in Steps(S, n)
  <2>1. ASSUME NEW u \in S, NEW i \in 1..n PROVE MoveChain(u, size, t[i - 1]) \in S
    BY <1>5 DEF HasMoved
  <2>2. QED  BY <2>1 DEF Steps
<1>7. PICK g : LoopOf(g, S, n, new, st)
  <2> HIDE DEF st, S
  <2>1. QED  BY <1>4, <1>6, Loop
<1>8. Eq(g)
  <2>0. g \in [0..n -> S] /\ g[0] = new /\ \A i \in 1..n : g[i] = st[<<g[i - 1], i>>]
    BY <1>7 DEF LoopOf
  <2>1. \A i \in 0..n : i = 0 \/ (i \in 1..n /\ g[i - 1] \in S)
    <3> HIDE DEF S, st
    <3>1. \A i \in 0..n : i = 0 \/ (i \in 1..n /\ i - 1 \in 0..n)
      OBVIOUS
    <3>2. QED  BY <2>0, <3>1
  <2>2. \A u \in S, i \in 1..n : st[<<u, i>>] = MoveChain(u, size, t[i - 1])
    OBVIOUS
  <2> HIDE DEF st, S
  <2>3. \A i \in 0..n : g[i] = IF i = 0 THEN new ELSE MoveChain(g[i - 1], size, t[i - 1])
    BY <2>0, <2>1, <2>2
  <2>4. QED  BY <2>0, <2>3
<1>9. Eq(m)
  BY <1>8
<1> HIDE DEF m, st
<1>10. /\ m[0] = new
       /\ \A i \in 1..n : m[i] = MoveChain(m[i - 1], size, t[i - 1])
  BY <1>9
<1> DEFINE Ok(i) == m[i] \in S /\ \A B : Count(m[i], B) = Cardinality(Before(t, B, i))
           Bad == {i \in 0..n : ~Ok(i)}
<1>11. ASSUME Bad # {} PROVE FALSE
  <2>1. PICK i \in Bad : \A q \in Bad : i <= q
    <3>1. Bad \in SUBSET Nat
      OBVIOUS
    <3>2. QED  BY <1>11, <3>1, Least
  <2>2. i # 0
    <3>1. \A s \in Slots(t) : ~(s[1] < 0)
      BY SlotsAre
    <3>2. \A B : Before(t, B, 0) = {}
      BY <3>1 DEF Before, In
    <3>3. \A B : Cardinality(Before(t, B, 0)) = 0
      BY <3>2, FS_EmptySet
    <3>4. Ok(0)
      BY <1>3, <1>4, <1>10, <3>3
    <3>5. QED  BY <2>1, <3>4
  <2>3. i \in 1..n /\ i - 1 \in 0..(n - 1) /\ i - 1 \in 0..n /\ i - 1 \notin Bad
    BY <2>1, <2>2
  <2>4. Ok(i - 1)
    BY <2>3
  <2>5. HasMoved(m[i], m[i - 1], size, t[i - 1], Len(t[i - 1]))
    BY <1>5, <1>10, <2>3, <2>4
  <2>6. m[i] \in S
    BY <2>5 DEF HasMoved
  <2>7. ASSUME NEW B PROVE Count(m[i], B) = Cardinality(Before(t, B, i))
    <3>1. Count(m[i], B) = Cardinality(Before(t, B, i - 1)) + Cardinality(Row(t, B, i - 1))
      <4>1. Count(m[i], B) = Count(m[i - 1], B) + Cardinality(InChain(t[i - 1], B, Len(t[i - 1])))
        BY <2>5 DEF HasMoved
      <4>2. Count(m[i - 1], B) = Cardinality(Before(t, B, i - 1))
        BY <2>4
      <4>3. Cardinality(Row(t, B, i - 1)) = Cardinality(InChain(t[i - 1], B, Len(t[i - 1])))
        BY <2>3, RowSize
      <4>4. QED  BY <4>1, <4>2, <4>3
    <3>2. \A s \in In(t, B) : s[1] < i <=> s[1] < i - 1 \/ s[1] = i - 1
      <4>1. \A s \in In(t, B) : s[1] \in 0..(n - 1)
        BY SlotsAre DEF In
      <4>2. QED  BY <2>3, <4>1
    <3>3. Before(t, B, i) = Before(t, B, i - 1) \cup Row(t, B, i - 1)
      BY <3>2 DEF Before, Row
    <3>4. Before(t, B, i - 1) \cap Row(t, B, i - 1) = {}
      BY <2>3 DEF Before, Row
    <3>5. IsFiniteSet(Before(t, B, i - 1)) /\ IsFiniteSet(Row(t, B, i - 1))
      <4>1. IsFiniteSet(In(t, B))
        BY CountType
      <4>2. Before(t, B, i - 1) \in SUBSET In(t, B) /\ Row(t, B, i - 1) \in SUBSET In(t, B)
        BY DEF Before, Row
      <4>3. QED  BY <4>1, <4>2, FS_Subset
    <3>6. Cardinality(Before(t, B, i)) = Cardinality(Before(t, B, i - 1)) + Cardinality(Row(t, B, i - 1))
      <4>1. Cardinality(Before(t, B, i))
            = Cardinality(Before(t, B, i - 1)) + Cardinality(Row(t, B, i - 1)) - Cardinality({})
        BY <3>3, <3>4, <3>5, FS_Union
      <4>2. Cardinality({}) = 0
        BY FS_EmptySet
      <4>3. Cardinality(Before(t, B, i - 1)) \in Nat /\ Cardinality(Row(t, B, i - 1)) \in Nat
        BY <3>5, FS_CardinalityType
      <4>4. QED  BY <4>1, <4>2, <4>3
    <3>7. QED  BY <3>1, <3>6
  <2>8. QED  BY <2>1, <2>6, <2>7
<1>12. Ok(n)
  BY <1>11
<1>13. ASSUME NEW B PROVE Count(m[n], B) = Count(t, B)
  <2>1. \A s \in In(t, B) : s[1] \in 0..(n - 1)
    BY SlotsAre DEF In
  <2>2. Before(t, B, n) = In(t, B)
    BY <2>1 DEF Before
  <2>3. QED  BY <1>12, <2>2 DEF Count
<1>14. QED  BY <1>1, <1>12, <1>13 DEF Rearranged


-----------------------------------------------------------------------------
(***************************************************************************)
(* Keys in an array.                                                       *)
(***************************************************************************)
\* Find is the position of a bucket of the key, or 0 if the chain has none.
LEMMA FindIs ==
  ASSUME NEW chain \in Seq(Bucket), NEW k
  PROVE  /\ Find(chain, k) \in 0..Len(chain)
         /\ Find(chain, k) # 0 => chain[Find(chain, k)].mKey = k
         /\ Find(chain, k) = 0 => \A p \in 1..Len(chain) : chain[p].mKey # k
<1> DEFINE I == {p \in 1..Len(chain) : chain[p].mKey = k}
<1>1. Find(chain, k) = IF I # {} THEN SeqExt!Min(I) ELSE 0
  BY DEF Find, SeqExt!SelectInSeq
<1>2. Len(chain) \in Nat
  OBVIOUS
<1>3. ASSUME I # {} PROVE SeqExt!Min(I) \in I
  <2>1. I \in SUBSET Nat
    OBVIOUS
  <2> HIDE DEF I
  <2>2. \E p \in I : \A q \in I : p <= q
    BY <1>3, <2>1, Least
  <2>3. QED  BY <2>2 DEF SeqExt!Min
<1>4. CASE I = {}
  BY <1>1, <1>2, <1>4
<1>5. CASE I # {}
  BY <1>1, <1>2, <1>3, <1>5
<1>6. QED  BY <1>4, <1>5

\* A count is positive where such a bucket is.
LEMMA Present ==
  ASSUME NEW t, IsFiniteSet(Slots(t)), NEW B
  PROVE  Count(t, B) # 0 <=> \E s \in Slots(t) : At(t, s) \in B
<1>1. IsFiniteSet(In(t, B))
  BY CountType
<1>2. Cardinality(In(t, B)) = 0 <=> In(t, B) = {}
  BY <1>1, FS_EmptySet
<1>3. QED  BY <1>2 DEF Count, In

\* Hashes are Integers, and a hash that is not negative is its own unsigned value.
LEMMA HashType ==
  ASSUME keyType \in KeyTypes
  PROVE  /\ Hash \in [Keys -> Int]
         /\ \A k \in Keys : Hash[k] >= 0 => Hash[k] < UIntRange
<1>1. keyType \in [hash : [Keys -> Int], allocFails : BOOLEAN]
  BY HashMapAssumption
<1>2. \A k \in Keys : 2 * Hash[k] < UIntRange
  BY HashMapAssumption DEF Hash
<1>3. Hash \in [Keys -> Int]
  BY <1>1 DEF Hash
<1>4. QED  BY <1>2, <1>3, HashMapAssumption

\* Where every bucket is in the chain of its hash, Find in that chain decides whether the
\* key is stored at all.
LEMMA FindDecides ==
  ASSUME keyType \in KeyTypes, NEW n \in Nat \ {0}, NEW t, Placed(t, n), IsFiniteSet(Slots(t)),
         NEW k \in Keys
  PROVE  Find(t[Index(Hash[k], n)], k) = 0 <=> Count(t, KeyIs(k)) = 0
<1> DEFINE j == Index(Hash[k], n)
           chain == t[j]
<1>1. t \in Arrays(n) /\ n \in Nat
  BY DEF Placed
<1>2. j \in 0..(n - 1)
  BY HashType, IndexIs
<1>3. chain \in Seq(Bucket) /\ Len(chain) \in Nat
  BY <1>1, <1>2 DEF Arrays
<1>4. ASSUME NEW s \in Slots(t), At(t, s) \in KeyIs(k)
      PROVE  Find(chain, k) # 0
  <2>1. s[1] = j
    BY <1>4 DEF Placed, KeyIs
  <2>2. s[2] \in 1..Len(chain) /\ chain[s[2]].mKey = k
    BY <1>1, <1>4, <2>1, SlotsAre DEF KeyIs, At
  <2> HIDE DEF chain, j
  <2>3. QED  BY <1>3, <2>2, FindIs
<1>5. ASSUME Find(chain, k) # 0
      PROVE  \E s \in Slots(t) : At(t, s) \in KeyIs(k)
  <2> DEFINE p == Find(chain, k)
             s == <<j, p>>
  <2> HIDE DEF chain, j
  <2>1. p \in 0..Len(chain) /\ p # 0 /\ chain[p].mKey = k
    BY <1>3, <1>5, FindIs
  <2> HIDE DEF p
  <2>2. p \in 1..Len(chain) /\ p \in Nat
    BY <1>3, <2>1
  <2>3. s \in Slots(t) /\ s[1] = j /\ s[2] = p
    BY <1>1, <1>2, <2>2, SlotsAre DEF chain
  <2>4. At(t, s) = chain[p]
    BY <2>3 DEF At, chain
  <2>5. chain[p] \in Bucket
    BY <1>3, <2>2
  <2>6. QED  BY <2>1, <2>3, <2>4, <2>5 DEF KeyIs
<1>6. Count(t, KeyIs(k)) # 0 <=> \E s \in Slots(t) : At(t, s) \in KeyIs(k)
  BY Present
<1>7. QED  BY <1>4, <1>5, <1>6

\* Get on an array of the size n.
Lookup(t, n, k) ==
    LET i == Find(t[Index(Hash[k], n)], k)
    IN IF i = 0 THEN "null" ELSE t[Index(Hash[k], n)][i].mValue

\* What Get returns, in terms of the buckets that there are.
LEMMA LookupIs ==
  ASSUME keyType \in KeyTypes, NEW n \in Nat \ {0}, NEW t, Placed(t, n), IsFiniteSet(Slots(t)),
         NEW k \in Keys
  PROVE  /\ Count(t, KeyIs(k)) = 0 => Lookup(t, n, k) = "null"
         /\ \A b \in KeyIs(k) : Count(t, {b}) # 0 => Lookup(t, n, k) = b.mValue
         /\ Count(t, KeyIs(k)) # 0 => \E b \in KeyIs(k) : Count(t, {b}) # 0
<1> DEFINE j == Index(Hash[k], n)
           chain == t[j]
           p == Find(chain, k)
<1>1. Count(t, KeyIs(k)) = 0 => Lookup(t, n, k) = "null"
  BY FindDecides DEF Lookup
<1>2. ASSUME NEW b \in KeyIs(k), Count(t, {b}) # 0 PROVE Lookup(t, n, k) = b.mValue
  <2>1. PICK s \in Slots(t) : At(t, s) = b
    BY <1>2, Present
  <2>2. t \in Arrays(n) /\ n \in Nat
    BY DEF Placed
  <2>3. j \in 0..(n - 1)
    BY HashType, IndexIs
  <2>4. chain \in Seq(Bucket) /\ Len(chain) \in Nat
    BY <2>2, <2>3 DEF Arrays
  <2>5. Count(t, KeyIs(k)) # 0
    BY <2>1, Present
  <2>6. p # 0
    BY <2>5, FindDecides
  <2> HIDE DEF chain, j
  <2>7. p \in 0..Len(chain) /\ chain[p].mKey = k
    BY <2>4, <2>6, FindIs
  <2>8. p \in 1..Len(chain) /\ p \in Nat
    BY <2>4, <2>6, <2>7
  <2> HIDE DEF p
  <2> DEFINE r == <<j, p>>
  <2>9. r \in Slots(t) /\ r[1] = j /\ r[2] = p
    BY <2>2, <2>3, <2>8, SlotsAre DEF chain
  <2>10. At(t, r) = chain[p] /\ chain[p] \in Bucket
    BY <2>4, <2>8, <2>9 DEF At, chain
  <2> HIDE DEF r
  <2>11. r \in In(t, KeyIs(k)) /\ s \in In(t, KeyIs(k))
    BY <2>1, <2>7, <2>9, <2>10 DEF In, KeyIs
  <2>12. IsFiniteSet(In(t, KeyIs(k)))
    BY CountType
  <2>13. Cardinality(In(t, KeyIs(k))) <= 1
    BY DEF Placed, Count
  <2>14. r = s
    BY <2>11, <2>12, <2>13, AtMostOne
  <2>15. chain[p] = b
    BY <2>1, <2>10, <2>14
  <2>16. Lookup(t, n, k) = chain[p].mValue
    BY <2>6 DEF Lookup, chain, j, p
  <2>17. QED  BY <2>15, <2>16
<1>3. ASSUME Count(t, KeyIs(k)) # 0 PROVE \E b \in KeyIs(k) : Count(t, {b}) # 0
  <2>1. PICK s \in Slots(t) : At(t, s) \in KeyIs(k)
    BY <1>3, Present
  <2>2. Count(t, {At(t, s)}) # 0
    BY Present
  <2>3. QED  BY <2>1, <2>2
<1>4. QED  BY <1>1, <1>2, <1>3

\* Arrays with the same buckets of a key agree on the key.
LEMMA SameLookup ==
  ASSUME keyType \in KeyTypes, NEW k \in Keys,
         NEW n \in Nat \ {0}, NEW t, Placed(t, n), IsFiniteSet(Slots(t)),
         NEW m \in Nat \ {0}, NEW u, Placed(u, m), IsFiniteSet(Slots(u)),
         Count(u, KeyIs(k)) = Count(t, KeyIs(k)),
         \A b \in KeyIs(k) : Count(u, {b}) = Count(t, {b})
  PROVE  Lookup(u, m, k) = Lookup(t, n, k)
<1>1. CASE Count(t, KeyIs(k)) = 0
  <2>1. Lookup(t, n, k) = "null"
    BY <1>1, LookupIs
  <2>2. Lookup(u, m, k) = "null"
    BY <1>1, LookupIs
  <2>3. QED  BY <2>1, <2>2
<1>2. CASE Count(t, KeyIs(k)) # 0
  <2>1. PICK b \in KeyIs(k) : Count(t, {b}) # 0
    BY <1>2, LookupIs
  <2>2. Lookup(t, n, k) = b.mValue
    BY <2>1, LookupIs
  <2>3. Lookup(u, m, k) = b.mValue
    BY <2>1, LookupIs
  <2>4. QED  BY <2>2, <2>3
<1>3. QED  BY <1>1, <1>2


-----------------------------------------------------------------------------
(***************************************************************************)
(* The operations keep the invariant, and a sound map takes a step of the  *)
(* abstract map.                                                           *)
(***************************************************************************)
\* A table that Put may find, with the buckets of the current one.
TableOK(t) ==
    /\ t.size \in 1..MaxBucketSize /\ t.threshold \in Int /\ t.corrupt \in BOOLEAN
    /\ \E n \in 1..t.size : t.buckets \in Arrays(n)
    /\ IsFiniteSet(Slots(t.buckets))
    /\ \A B : Count(t.buckets, B) = Count(mBuckets, B)
    /\ Sound => ~t.corrupt /\ Placed(t.buckets, t.size)

LEMMA TableIsOK == ASSUME IInv PROVE TableOK(Table)
<1>1. /\ Table.size = mBucketSize /\ Table.threshold = mThreshold /\ Table.buckets = mBuckets
      /\ Table.corrupt = FALSE
  BY DEF Table
<1>2. QED  BY <1>1 DEF IInv, TypeOK, TableOK

\* The new size is a size, and no smaller.
LEMMA NewSizeType ==
  ASSUME NEW n \in 1..MaxBucketSize
  PROVE  NewSize(n) \in 1..MaxBucketSize /\ NewSize(n) >= n
  BY HashMapAssumption DEF NewSize

\* The array is an interval; its length compared to mBucketSize is what short means.
LEMMA ArrayLength ==
  ASSUME NEW n \in Nat \ {0}, NEW t \in Arrays(n)
  PROVE  Cardinality(DOMAIN t) = n
<1>1. DOMAIN t = 0..(n - 1) /\ 0 \in Int /\ n - 1 \in Int
  BY DEF Arrays
<1>2. Cardinality(0..(n - 1)) = IF 0 > n - 1 THEN 0 ELSE n - 1 - 0 + 1
  BY <1>1, FS_Interval
<1>3. QED  BY <1>1, <1>2

\* Two arrays with the same counts, the new one ordered by PutBucket: where hashes are not
\* negative the new one is placed as Get expects.
LEMMA RearrangedPlaced ==
  ASSUME IInv, Sound, NEW size \in Nat \ {0}, NEW u, Rearranged(u, mBuckets, size)
  PROVE  Placed(u, size)
<1>1. u \in Arrays(size) /\ IsFiniteSet(Slots(u)) /\ Home(u, size) /\ \A B : Count(u, B) = Count(mBuckets, B)
  BY DEF Rearranged
<1>2. Placed(mBuckets, mBucketSize) /\ IsFiniteSet(Slots(mBuckets)) /\ keyType \in KeyTypes
  BY DEF IInv, TypeOK
<1>3. ASSUME NEW s \in Slots(u)
      PROVE  At(u, s).mHash = Hash[At(u, s).mKey] /\ s[1] = Index(At(u, s).mHash, size)
  <2> DEFINE b == At(u, s)
  <2>1. Count(u, {b}) # 0
    BY <1>1, Present
  <2>2. Count(mBuckets, {b}) # 0
    BY <1>1, <2>1
  <2>3. PICK r \in Slots(mBuckets) : At(mBuckets, r) = b
    BY <1>2, <2>2, Present
  <2>4. b.mHash = Hash[b.mKey]
    BY <1>2, <2>3 DEF Placed
  <2>5. size \in Nat /\ b \in Bucket /\ b.mKey \in Keys
    BY <1>1, SlotsAre DEF Bucket
  <2>6. b.mHash \in Int /\ b.mHash >= 0 /\ b.mHash < UIntRange
    BY <1>2, <2>4, <2>5, HashType DEF Sound
  <2>7. s[1] = PutBucketIndex(b.mHash, size)
    BY <1>1 DEF Home
  <2>8. QED  BY <2>4, <2>6, <2>7, IndexIs
<1>4. \A k \in Keys : Count(u, KeyIs(k)) <= 1
  BY <1>1, <1>2 DEF Placed
<1>5. QED  BY <1>1, <1>3, <1>4 DEF Placed

\* Rehash leaves a table that Put may find: at the limit, when the allocation fails, when it
\* leaves the array, and when it has moved everything.
LEMMA RehashIsOK ==
  ASSUME IInv, NEW fails \in {keyType.allocFails, FALSE}
  PROVE  TableOK(Rehash(fails))
<1> DEFINE size == NewSize(mBucketSize)
           short == Cardinality(DOMAIN mBuckets) < mBucketSize
           outside == \E s \in Slots(mBuckets) : PutBucketIndex(At(mBuckets, s).mHash, size) < 0
           moved == [size |-> size, threshold |-> Threshold(size),
                     buckets |-> MoveChains(size, mBuckets, mBucketSize), corrupt |-> FALSE]
<1>1. TypeOK /\ keyType \in KeyTypes /\ mBucketSize \in 1..MaxBucketSize /\ MaxBucketSize \in Nat
  BY HashMapAssumption DEF IInv, TypeOK
<1>2. size \in 1..MaxBucketSize /\ size >= mBucketSize /\ size \in Nat \ {0}
  <2>1. size \in 1..MaxBucketSize /\ size >= mBucketSize
    BY <1>1, NewSizeType
  <2> HIDE DEF size
  <2>2. QED  BY <1>1, <2>1
<1>3. PICK n \in 1..mBucketSize : mBuckets \in Arrays(n)
  BY <1>1 DEF TypeOK
<1>4. n \in Nat \ {0} /\ n <= mBucketSize /\ Cardinality(DOMAIN mBuckets) = n
  <2>1. n \in Nat \ {0} /\ n <= mBucketSize
    BY <1>1
  <2>2. QED  BY <1>3, <2>1, ArrayLength
<1>5. Sound => ~fails /\ ~short /\ ~outside
  <2>1. SUFFICES ASSUME Sound PROVE ~fails /\ ~short /\ ~outside
    OBVIOUS
  <2>2. ~fails
    BY <2>1 DEF Sound
  <2>3. mBuckets \in Arrays(mBucketSize) /\ Placed(mBuckets, mBucketSize) /\ mBucketSize \in Nat \ {0}
    BY <1>1, <2>1 DEF IInv, Placed
  <2>4. ~short
    BY <2>3, ArrayLength
  <2>5. ASSUME NEW s \in Slots(mBuckets) PROVE ~(PutBucketIndex(At(mBuckets, s).mHash, size) < 0)
    <3> DEFINE b == At(mBuckets, s)
    <3>1. b \in Bucket /\ b.mHash = Hash[b.mKey] /\ b.mKey \in Keys
      BY <1>3, <1>4, <2>3, SlotsAre DEF Placed, Bucket
    <3>2. b.mHash \in Int /\ b.mHash >= 0
      BY <1>1, <2>1, <3>1, HashType DEF Sound
    <3>3. PutBucketIndex(b.mHash, size) \in 0..(size - 1)
      BY <1>2, <3>2, IndexIs
    <3> HIDE DEF b, size
    <3>4. ~(PutBucketIndex(b.mHash, size) < 0)
      BY <1>2, <3>3
    <3>5. QED  BY <3>4 DEF b
  <2>6. QED  BY <2>2, <2>4, <2>5
<1>6. ASSUME NEW t, ~Sound, t.size = size, t.threshold = mThreshold, t.buckets = mBuckets,
             t.corrupt \in BOOLEAN
      PROVE  TableOK(t)
  <2>1. n \in 1..size
    BY <1>1, <1>2, <1>4
  <2> HIDE DEF size
  <2>2. QED  BY <1>1, <1>2, <1>3, <1>6, <2>1 DEF TypeOK, TableOK
<1>7. ~short /\ ~outside => TableOK(moved)
  <2>1. SUFFICES ASSUME ~short, ~outside PROVE TableOK(moved)
    OBVIOUS
  <2>2. n = mBucketSize
    BY <1>1, <1>4, <2>1
  <2>3. ASSUME NEW s \in Slots(mBuckets) PROVE Fits(At(mBuckets, s), size)
    <3>1. At(mBuckets, s).mHash \in Int
      BY <1>3, <1>4, SlotsAre DEF Bucket
    <3>2. ~(PutBucketIndex(At(mBuckets, s).mHash, size) < 0)
      BY <2>1
    <3> DEFINE h == At(mBuckets, s).mHash
    <3>3. PutBucketIndex(h, size) \in Int /\ PutBucketIndex(h, size) < size
      BY <1>2, <3>1, IndexIs
    <3> HIDE DEF size
    <3>4. PutBucketIndex(h, size) \in 0..(size - 1)
      BY <1>2, <3>2, <3>3
    <3>5. QED  BY <3>4 DEF Fits
  <2>4. Rearranged(MoveChains(size, mBuckets, mBucketSize), mBuckets, size)
    BY <1>1, <1>2, <1>3, <1>4, <2>2, <2>3, MoveChainsIs DEF TypeOK
  <2>5. Sound => Placed(MoveChains(size, mBuckets, mBucketSize), size)
    BY <1>2, <2>4, RearrangedPlaced
  <2>6. Threshold(size) \in Int
    BY <1>2 DEF Threshold
  <2>7. /\ moved.size = size /\ moved.threshold = Threshold(size) /\ moved.corrupt = FALSE
        /\ moved.buckets = MoveChains(size, mBuckets, mBucketSize)
    OBVIOUS
  <2>8. size \in 1..size
    BY <1>2
  <2> HIDE DEF moved, size
  <2>9. QED  BY <1>2, <2>4, <2>5, <2>6, <2>7, <2>8 DEF Rearranged, TableOK
<1>8. ~Sound => /\ TableOK([Table EXCEPT !.size = size])
                /\ TableOK([Table EXCEPT !.size = size, !.corrupt = TRUE])
  <2>1. SUFFICES ASSUME ~Sound
                 PROVE  /\ TableOK([Table EXCEPT !.size = size])
                        /\ TableOK([Table EXCEPT !.size = size, !.corrupt = TRUE])
    OBVIOUS
  <2> DEFINE t == [Table EXCEPT !.size = size]
             u == [Table EXCEPT !.size = size, !.corrupt = TRUE]
  <2>2. t.size = size /\ t.threshold = mThreshold /\ t.buckets = mBuckets /\ t.corrupt = FALSE
    BY DEF Table
  <2>3. u.size = size /\ u.threshold = mThreshold /\ u.buckets = mBuckets /\ u.corrupt = TRUE
    BY DEF Table
  <2> HIDE DEF t, u
  <2>4. TableOK(t)
    BY <1>6, <2>1, <2>2
  <2>5. TableOK(u)
    BY <1>6, <2>1, <2>3
  <2>6. QED  BY <2>4, <2>5 DEF t, u
<1>9. Rehash(fails) = IF mBucketSize = MaxBucketSize THEN Table
                      ELSE IF fails THEN [Table EXCEPT !.size = size]
                      ELSE IF short THEN [Table EXCEPT !.size = size, !.corrupt = TRUE]
                      ELSE IF outside THEN [Table EXCEPT !.size = size, !.corrupt = TRUE]
                      ELSE moved
  BY DEF Rehash
<1>10. TableOK(Table)
  BY TableIsOK
<1> HIDE DEF size, short, outside, moved
<1>11. QED  BY <1>5, <1>7, <1>8, <1>9, <1>10


\* The references after AssignFunc and DeleteFunc.
LEMMA CountedIs ==
  ASSUME TypeOK, NEW g, NEW l
  PROVE  /\ Counted(g, l) \in [Keys \cup Values -> Int]
         /\ \A x \in Keys \cup Values : Counted(g, l)[x] = refs[x] + One(x, g) - One(x, l)
  BY DEF TypeOK, Counted, One

\* What Put does to the table t that Rehash left: the array is u and the references are r.
PutOK(u, t, k, v, r) ==
    /\ \E n \in 1..t.size : u \in Arrays(n)
    /\ IsFiniteSet(Slots(u))
    /\ r \in [Keys \cup Values -> Int]
    /\ \A x \in Keys \cup Values : r[x] = Count(u, Holding(x))
    /\ Sound => /\ Placed(u, t.size) /\ Lookup(u, t.size, k) = v
                /\ \A l \in Keys \ {k} : Lookup(u, t.size, l) = Lookup(mBuckets, mBucketSize, l)

\* The length of the array of a table, its mBucketSize if the map is sound.
LEMMA TableLength ==
  ASSUME NEW t, TableOK(t)
  PROVE  \E n \in 1..t.size : t.buckets \in Arrays(n) /\ (Sound => n = t.size)
<1>1. CASE Sound
  <2>1. t.size \in 1..t.size /\ t.buckets \in Arrays(t.size)
    BY <1>1, HashMapAssumption DEF TableOK, Placed
  <2>2. QED  BY <2>1
<1>2. CASE ~Sound
  BY <1>2 DEF TableOK
<1>3. QED  BY <1>1, <1>2

\* Put of a new key.
LEMMA AddKey ==
  ASSUME IInv, NEW t, TableOK(t), NEW k \in Keys, NEW v \in Values,
         Index(Hash[k], t.size) \in DOMAIN t.buckets,
         Find(t.buckets[Index(Hash[k], t.size)], k) = 0
  PROVE  PutOK([t.buckets EXCEPT ![Index(Hash[k], t.size)] = PutInChain(@, k, v)], t, k, v,
               Counted({k, v}, {}))
<1> DEFINE size == t.size
           old == t.buckets
           j == Index(Hash[k], size)
           b == [mHash |-> Hash[k], mKey |-> k, mValue |-> v]
           u == [old EXCEPT ![j] = PutInChain(@, k, v)]
           r == Counted({k, v}, {})
<1>1. TypeOK /\ keyType \in KeyTypes /\ size \in Nat \ {0} /\ mBucketSize \in Nat \ {0}
  BY HashMapAssumption DEF IInv, TypeOK, TableOK
<1>2. b \in Bucket /\ b.mHash = Hash[k] /\ b.mKey = k /\ b.mValue = v
  BY <1>1, HashType DEF Bucket
<1>3. PICK n \in 1..size : old \in Arrays(n) /\ (Sound => n = size)
  BY TableLength
<1>4. n \in Nat /\ j \in 0..(n - 1)
  BY <1>1, <1>3 DEF Arrays
<1>5. u = [old EXCEPT ![j] = Append(@, b)]
  BY DEF PutInChain
<1>6. IsFiniteSet(Slots(old)) /\ \A B : Count(old, B) = Count(mBuckets, B)
  BY DEF TableOK
<1>7. Added(u, old, n, j, b)
  <2> HIDE DEF j, b, u, old
  <2>1. Added([old EXCEPT ![j] = Append(@, b)], old, n, j, b)
    BY <1>2, <1>3, <1>4, <1>6, AppendAdds
  <2>2. QED  BY <1>5, <2>1
<1> HIDE DEF b, u, r
<1>8. /\ u \in Arrays(n) /\ IsFiniteSet(Slots(u))
      /\ \A B : Count(u, B) = Count(mBuckets, B) + One(b, B)
      /\ \A s \in Slots(u) : (s \in Slots(old) /\ At(u, s) = At(old, s)) \/ (s[1] = j /\ At(u, s) = b)
  BY <1>6, <1>7 DEF Added
<1>9. r \in [Keys \cup Values -> Int]
  BY <1>1, CountedIs DEF r
<1>10. ASSUME NEW x \in Keys \cup Values PROVE r[x] = Count(u, Holding(x))
  <2>1. refs[x] = Count(mBuckets, Holding(x)) /\ refs[x] \in Int
    BY DEF IInv, TypeOK
  <2>2. r[x] = refs[x] + One(x, {k, v}) - One(x, {})
    BY <1>1, CountedIs DEF r
  <2>3. One(b, Holding(x)) = One(x, {k, v}) /\ One(x, {}) = 0 /\ One(x, {k, v}) \in Int
    BY <1>2 DEF One, Holding
  <2>4. Count(u, Holding(x)) = Count(mBuckets, Holding(x)) + One(b, Holding(x))
    BY <1>8
  <2>5. QED  BY <2>1, <2>2, <2>3, <2>4
<1>11. ASSUME Sound PROVE Placed(u, size)
  <2>1. Placed(old, size) /\ u \in Arrays(size)
    BY <1>3, <1>8, <1>11 DEF TableOK
  <2>2. ASSUME NEW s \in Slots(u)
        PROVE  At(u, s).mHash = Hash[At(u, s).mKey] /\ s[1] = Index(At(u, s).mHash, size)
    BY <1>2, <1>8, <2>1 DEF Placed
  <2>3. ASSUME NEW l \in Keys PROVE Count(u, KeyIs(l)) <= 1
    <3>1. Count(u, KeyIs(l)) = Count(old, KeyIs(l)) + One(b, KeyIs(l))
      BY <1>6, <1>8
    <3>2. CASE l = k
      <4>1. Count(old, KeyIs(k)) = 0
        BY <1>1, <1>6, <2>1, FindDecides
      <4>2. One(b, KeyIs(l)) <= 1 /\ One(b, KeyIs(l)) \in Int
        BY DEF One
      <4>3. QED  BY <3>1, <3>2, <4>1, <4>2
    <3>3. CASE l # k
      <4>1. One(b, KeyIs(l)) = 0
        BY <1>2, <3>3 DEF One, KeyIs
      <4>2. Count(old, KeyIs(l)) <= 1 /\ Count(old, KeyIs(l)) \in Nat
        BY <1>6, <2>1, CountType DEF Placed
      <4>3. QED  BY <3>1, <4>1, <4>2
    <3>4. QED  BY <3>2, <3>3
  <2>4. QED  BY <2>1, <2>2, <2>3 DEF Placed
<1>12. ASSUME Sound PROVE Lookup(u, size, k) = v
  <2>1. Count(u, {b}) = Count(mBuckets, {b}) + 1
    BY <1>8 DEF One
  <2>2. Count(mBuckets, {b}) \in Nat
    BY <1>1, CountType DEF TypeOK
  <2>3. Count(u, {b}) # 0 /\ b \in KeyIs(k)
    BY <1>2, <2>1, <2>2 DEF KeyIs
  <2>4. QED  BY <1>1, <1>2, <1>8, <1>11, <1>12, <2>3, LookupIs
<1>13. ASSUME Sound, NEW l \in Keys \ {k} PROVE Lookup(u, size, l) = Lookup(mBuckets, mBucketSize, l)
  <2>1. Placed(u, size) /\ Placed(mBuckets, mBucketSize) /\ IsFiniteSet(Slots(mBuckets))
    BY <1>11, <1>13 DEF IInv, TypeOK
  <2>2. ASSUME NEW B, b \notin B PROVE Count(u, B) = Count(mBuckets, B)
    <3>1. Count(u, B) = Count(mBuckets, B) + 0
      BY <1>8, <2>2 DEF One
    <3>2. Count(mBuckets, B) \in Nat
      BY <2>1, CountType
    <3>3. QED  BY <3>1, <3>2
  <2>3. b \notin KeyIs(l) /\ \A c \in KeyIs(l) : b \notin {c}
    BY <1>2, <1>13 DEF KeyIs
  <2>4. Count(u, KeyIs(l)) = Count(mBuckets, KeyIs(l))
    BY <2>2, <2>3
  <2>5. \A c \in KeyIs(l) : Count(u, {c}) = Count(mBuckets, {c})
    BY <2>2, <2>3
  <2>6. QED  BY <1>1, <1>8, <2>1, <2>4, <2>5, SameLookup
<1>14. PutOK(u, t, k, v, r)
  BY <1>3, <1>8, <1>9, <1>10, <1>11, <1>12, <1>13 DEF PutOK
<1>15. QED  BY <1>14 DEF u, r


\* Put of a key that is there.
LEMMA SwapKey ==
  ASSUME IInv, NEW t, TableOK(t), NEW k \in Keys, NEW v \in Values,
         Index(Hash[k], t.size) \in DOMAIN t.buckets,
         NEW i, i = Find(t.buckets[Index(Hash[k], t.size)], k), i # 0
  PROVE  PutOK([t.buckets EXCEPT ![Index(Hash[k], t.size)] = PutInChain(@, k, v)], t, k, v,
               Counted({v}, {t.buckets[Index(Hash[k], t.size)][i].mValue}))
<1> DEFINE size == t.size
           old == t.buckets
           j == Index(Hash[k], size)
           b == old[j][i]
           c == [b EXCEPT !.mValue = v]
           u == [old EXCEPT ![j] = PutInChain(@, k, v)]
           r == Counted({v}, {b.mValue})
<1>1. TypeOK /\ keyType \in KeyTypes /\ size \in Nat \ {0} /\ mBucketSize \in Nat \ {0}
  BY HashMapAssumption DEF IInv, TypeOK, TableOK
<1>2. PICK n \in 1..size : old \in Arrays(n) /\ (Sound => n = size)
  BY TableLength
<1>3. n \in Nat /\ j \in 0..(n - 1)
  BY <1>1, <1>2 DEF Arrays
<1>4. old[j] \in Seq(Bucket) /\ Len(old[j]) \in Nat
  BY <1>2, <1>3 DEF Arrays
<1>5. i \in 1..Len(old[j]) /\ b.mKey = k
  <2> HIDE DEF old, j
  <2>1. i \in 0..Len(old[j]) /\ old[j][i].mKey = k
    BY <1>4, FindIs DEF old, j
  <2>2. QED  BY <1>4, <2>1
<1>6. b \in Bucket
  BY <1>4, <1>5
<1>7. /\ c \in Bucket /\ c.mHash = b.mHash /\ c.mKey = k /\ c.mValue = v
      /\ b.mKey \in Keys /\ b.mValue \in Values
  BY <1>5, <1>6 DEF Bucket
<1>8. u = [old EXCEPT ![j] = [@ EXCEPT ![i].mValue = v]]
  BY DEF PutInChain
<1>9. IsFiniteSet(Slots(old)) /\ \A B : Count(old, B) = Count(mBuckets, B)
  BY DEF TableOK
<1>10. Swapped(u, old, n, j, b, c)
  <2> HIDE DEF j, u, old
  <2>1. Swapped([old EXCEPT ![j] = [@ EXCEPT ![i].mValue = v]], old, n, j, old[j][i],
                [old[j][i] EXCEPT !.mValue = v])
    BY <1>2, <1>3, <1>5, <1>9, ReplaceSwaps
  <2>2. QED  BY <1>8, <2>1
<1>11. Count(old, {b}) # 0
  <2> DEFINE s == <<j, i>>
  <2>1. s \in Slots(old) /\ s[1] = j /\ s[2] = i
    BY <1>2, <1>3, <1>4, <1>5, SlotsAre
  <2>2. At(old, s) = b
    BY <2>1 DEF At
  <2>3. QED  BY <1>9, <2>1, <2>2, Present
<1> HIDE DEF b, c, u, r
<1>12. /\ u \in Arrays(n) /\ IsFiniteSet(Slots(u))
       /\ \A B : Count(u, B) = Count(mBuckets, B) - One(b, B) + One(c, B)
       /\ \A s \in Slots(u) : (s \in Slots(old) /\ At(u, s) = At(old, s)) \/ (s[1] = j /\ At(u, s) = c)
  BY <1>9, <1>10 DEF Swapped
<1>13. \A B : Count(mBuckets, B) \in Nat
  BY <1>1, CountType DEF TypeOK
<1>14. r \in [Keys \cup Values -> Int]
  BY <1>1, CountedIs DEF r
<1>15. ASSUME NEW x \in Keys \cup Values PROVE r[x] = Count(u, Holding(x))
  <2>1. refs[x] = Count(mBuckets, Holding(x)) /\ refs[x] \in Int
    BY DEF IInv, TypeOK
  <2>2. r[x] = refs[x] + One(x, {v}) - One(x, {b.mValue})
    BY <1>1, CountedIs DEF r
  <2>3. x = k => x # v /\ x # b.mValue
    BY <1>7, KeysAndValuesDiffer
  <2>4. b.mKey = k
    BY <1>5 DEF b
  <2>5. One(c, Holding(x)) - One(b, Holding(x)) = One(x, {v}) - One(x, {b.mValue})
    BY <1>6, <1>7, <2>3, <2>4 DEF One, Holding, b
  <2>6. Count(u, Holding(x)) = Count(mBuckets, Holding(x)) - One(b, Holding(x)) + One(c, Holding(x))
    BY <1>12
  <2>7. \A y, B : One(y, B) \in Int
    BY DEF One
  <2>8. /\ One(c, Holding(x)) \in Int /\ One(b, Holding(x)) \in Int
        /\ One(x, {v}) \in Int /\ One(x, {b.mValue}) \in Int
    BY <2>7
  <2>9. QED  BY <2>1, <2>2, <2>5, <2>6, <2>8
<1>16. ASSUME NEW l \in Keys PROVE Count(u, KeyIs(l)) = Count(mBuckets, KeyIs(l))
  <2>1. One(b, KeyIs(l)) = One(c, KeyIs(l)) /\ One(b, KeyIs(l)) \in Int
    BY <1>5, <1>6, <1>7 DEF One, KeyIs, b
  <2>2. QED  BY <1>12, <1>13, <2>1
<1>17. ASSUME Sound PROVE Placed(u, size)
  <2>1. Placed(old, size) /\ u \in Arrays(size)
    BY <1>2, <1>12, <1>17 DEF TableOK
  <2>2. PICK s \in Slots(old) : At(old, s) = b
    BY <1>9, <1>11, Present
  <2>3. b.mHash = Hash[k] /\ c.mHash = Hash[c.mKey]
    BY <1>5, <1>7, <2>1, <2>2 DEF Placed, b
  <2>4. ASSUME NEW q \in Slots(u)
        PROVE  At(u, q).mHash = Hash[At(u, q).mKey] /\ q[1] = Index(At(u, q).mHash, size)
    BY <1>7, <1>12, <2>1, <2>3 DEF Placed
  <2>5. \A l \in Keys : Count(u, KeyIs(l)) <= 1
    BY <1>9, <1>16, <2>1 DEF Placed
  <2>6. QED  BY <2>1, <2>4, <2>5 DEF Placed
<1>18. ASSUME Sound PROVE Lookup(u, size, k) = v
  <2>1. Count(u, {c}) # 0
    <3>1. Count(u, {c}) = Count(mBuckets, {c}) - One(b, {c}) + 1
      BY <1>12 DEF One
    <3>2. CASE b = c
      BY <1>9, <1>11, <1>13, <3>1, <3>2 DEF One
    <3>3. CASE b # c
      BY <1>13, <3>1, <3>3 DEF One
    <3>4. QED  BY <3>2, <3>3
  <2>2. c \in KeyIs(k)
    BY <1>7 DEF KeyIs
  <2>3. QED  BY <1>1, <1>7, <1>12, <1>17, <1>18, <2>1, <2>2, LookupIs
<1>19. ASSUME Sound, NEW l \in Keys \ {k} PROVE Lookup(u, size, l) = Lookup(mBuckets, mBucketSize, l)
  <2>1. Placed(u, size) /\ Placed(mBuckets, mBucketSize) /\ IsFiniteSet(Slots(mBuckets))
    BY <1>17, <1>19 DEF IInv, TypeOK
  <2>2. ASSUME NEW d \in KeyIs(l) PROVE Count(u, {d}) = Count(mBuckets, {d})
    <3>1. b # d /\ c # d
      BY <1>5, <1>7, <1>19 DEF KeyIs, b
    <3>2. Count(u, {d}) = Count(mBuckets, {d}) - 0 + 0
      BY <1>12, <3>1 DEF One
    <3>3. QED  BY <1>13, <3>2
  <2>3. QED  BY <1>1, <1>12, <1>16, <2>1, <2>2, SameLookup, SMTT(60)
<1>20. PutOK(u, t, k, v, r)
  BY <1>2, <1>12, <1>14, <1>15, <1>17, <1>18, <1>19 DEF PutOK
<1>21. QED  BY <1>20 DEF u, r, b

\* Remove of a key that is there: the array is u and the references are r.
RemoveOK(u, k, r) ==
    /\ \E n \in 1..mBucketSize : u \in Arrays(n)
    /\ IsFiniteSet(Slots(u))
    /\ r \in [Keys \cup Values -> Int]
    /\ \A x \in Keys \cup Values : r[x] = Count(u, Holding(x))
    /\ Sound => /\ Placed(u, mBucketSize) /\ Lookup(u, mBucketSize, k) = "null"
                /\ \A l \in Keys \ {k} :
                      Lookup(u, mBucketSize, l) = Lookup(mBuckets, mBucketSize, l)

LEMMA RemoveKey ==
  ASSUME IInv, NEW k \in Keys, Index(Hash[k], mBucketSize) \in DOMAIN mBuckets,
         NEW i, i = Find(mBuckets[Index(Hash[k], mBucketSize)], k), i # 0
  PROVE  RemoveOK([mBuckets EXCEPT ![Index(Hash[k], mBucketSize)] = SeqExt!RemoveAt(@, i)], k,
                  Counted({}, {k, mBuckets[Index(Hash[k], mBucketSize)][i].mValue}))
<1> DEFINE size == mBucketSize
           old == mBuckets
           j == Index(Hash[k], size)
           b == old[j][i]
           u == [old EXCEPT ![j] = SeqExt!RemoveAt(@, i)]
           r == Counted({}, {k, b.mValue})
<1>1. TypeOK /\ keyType \in KeyTypes /\ size \in Nat \ {0} /\ IsFiniteSet(Slots(old))
  BY HashMapAssumption DEF IInv, TypeOK
<1>2. PICK n \in 1..size : old \in Arrays(n) /\ (Sound => n = size)
  <2>1. CASE Sound
    <3>1. size \in 1..size /\ old \in Arrays(size)
      BY <1>1, <2>1 DEF IInv, Placed
    <3>2. QED  BY <3>1
  <2>2. CASE ~Sound
    BY <1>1, <2>2 DEF TypeOK
  <2>3. QED  BY <2>1, <2>2
<1>3. n \in Nat /\ j \in 0..(n - 1)
  BY <1>1, <1>2 DEF Arrays
<1>4. old[j] \in Seq(Bucket) /\ Len(old[j]) \in Nat
  BY <1>2, <1>3 DEF Arrays
<1>5. i \in 1..Len(old[j]) /\ b.mKey = k
  <2> HIDE DEF j
  <2>1. i \in 0..Len(old[j]) /\ old[j][i].mKey = k
    BY <1>4, FindIs DEF j
  <2>2. QED  BY <1>4, <2>1
<1>6. b \in Bucket /\ b.mValue \in Values
  <2>1. b \in Bucket
    BY <1>4, <1>5
  <2> HIDE DEF b
  <2>2. QED  BY <2>1 DEF Bucket
<1>7. Taken(u, old, n, b)
  <2> HIDE DEF j
  <2>1. QED  BY <1>1, <1>2, <1>3, <1>5, RemoveTakes
<1>8. b.mKey = k
  BY <1>5
<1> HIDE DEF b, u, r
<1>9. /\ u \in Arrays(n) /\ IsFiniteSet(Slots(u))
      /\ \A B : Count(u, B) = Count(old, B) - One(b, B)
      /\ \A s \in Slots(u) : \E q \in Slots(old) : q[1] = s[1] /\ At(u, s) = At(old, q)
  BY <1>7 DEF Taken
<1>10. \A B : Count(old, B) \in Nat /\ Count(u, B) \in Nat
  <2>1. \A B : Count(old, B) \in Nat
    BY <1>1, CountType
  <2>2. \A B : Count(u, B) \in Nat
    BY <1>9, CountType
  <2>3. QED  BY <2>1, <2>2
<1>11. r \in [Keys \cup Values -> Int]
  BY <1>1, CountedIs DEF r
<1>12. ASSUME NEW x \in Keys \cup Values PROVE r[x] = Count(u, Holding(x))
  <2>1. refs[x] = Count(old, Holding(x)) /\ refs[x] \in Int
    BY DEF IInv, TypeOK
  <2>2. r[x] = refs[x] + One(x, {}) - One(x, {k, b.mValue})
    BY <1>1, CountedIs DEF r
  <2>3. One(b, Holding(x)) = One(x, {k, b.mValue}) /\ One(x, {}) = 0 /\ One(x, {k, b.mValue}) \in Int
    BY <1>6, <1>8 DEF One, Holding
  <2>4. Count(u, Holding(x)) = Count(old, Holding(x)) - One(b, Holding(x))
    BY <1>9
  <2>5. QED  BY <2>1, <2>2, <2>3, <2>4
<1>13. ASSUME Sound PROVE Placed(u, size)
  <2>1. Placed(old, size) /\ u \in Arrays(size)
    BY <1>2, <1>9, <1>13 DEF IInv
  <2>2. ASSUME NEW s \in Slots(u)
        PROVE  At(u, s).mHash = Hash[At(u, s).mKey] /\ s[1] = Index(At(u, s).mHash, size)
    <3>1. PICK q \in Slots(old) : q[1] = s[1] /\ At(u, s) = At(old, q)
      BY <1>9
    <3>2. QED  BY <2>1, <3>1 DEF Placed
  <2>3. ASSUME NEW l \in Keys PROVE Count(u, KeyIs(l)) <= 1
    <3>1. Count(old, KeyIs(l)) <= 1
      BY <2>1 DEF Placed
    <3>2. QED  BY <1>9, <1>10, <3>1 DEF One
  <2>4. QED  BY <2>1, <2>2, <2>3 DEF Placed
<1>14. ASSUME Sound PROVE Lookup(u, size, k) = "null"
  <2>1. Count(old, KeyIs(k)) <= 1
    BY <1>14 DEF IInv, Placed
  <2>2. Count(u, KeyIs(k)) = Count(old, KeyIs(k)) - 1
    BY <1>6, <1>8, <1>9 DEF One, KeyIs
  <2>3. Count(u, KeyIs(k)) = 0
    BY <1>10, <2>1, <2>2
  <2>4. QED  BY <1>1, <1>9, <1>13, <1>14, <2>3, LookupIs
<1>15. ASSUME Sound, NEW l \in Keys \ {k} PROVE Lookup(u, size, l) = Lookup(old, size, l)
  <2>1. Placed(u, size) /\ Placed(old, size)
    BY <1>13, <1>15 DEF IInv
  <2>2. b \notin KeyIs(l) /\ \A d \in KeyIs(l) : b \notin {d}
    BY <1>8, <1>15 DEF KeyIs
  <2>3. ASSUME NEW B, b \notin B PROVE Count(u, B) = Count(old, B)
    BY <1>9, <1>10, <2>3 DEF One
  <2>4. Count(u, KeyIs(l)) = Count(old, KeyIs(l))
    BY <2>2, <2>3
  <2>5. \A d \in KeyIs(l) : Count(u, {d}) = Count(old, {d})
    BY <2>2, <2>3
  <2>6. QED  BY <1>1, <1>9, <2>1, <2>4, <2>5, SameLookup
<1>16. RemoveOK(u, k, r)
  BY <1>2, <1>9, <1>11, <1>12, <1>13, <1>14, <1>15 DEF RemoveOK
<1>17. QED  BY <1>16 DEF u, r, b


-----------------------------------------------------------------------------
(***************************************************************************)
(* The steps.                                                              *)
(***************************************************************************)
\* A step of the abstract map, or none.
MapStep == [Map!Next]_(Map!vars)

\* In a sound map Get is Lookup, before and after a step.
LEMMA GetIs ==
  ASSUME IInv, Sound, NEW k \in Keys
  PROVE  Get(k) = Lookup(mBuckets, mBucketSize, k)
<1>1. ~corrupt /\ mBuckets \in Arrays(mBucketSize) /\ keyType \in KeyTypes /\ mBucketSize \in Nat \ {0}
  BY HashMapAssumption DEF IInv, TypeOK, Placed
<1>2. Hash[k] \in Int /\ Hash[k] # -1
  BY <1>1, HashType DEF Sound
<1>3. Index(Hash[k], mBucketSize) \in DOMAIN mBuckets
  BY <1>1, <1>2, IndexIs DEF Arrays
<1>4. QED  BY <1>1, <1>2, <1>3 DEF Get, Lookup, Chain

LEMMA GetNextIs ==
  ASSUME keyType \in KeyTypes, Sound, keyType' = keyType, corrupt' = FALSE,
         mBucketSize' \in Nat \ {0}, Placed(mBuckets', mBucketSize'), NEW k \in Keys
  PROVE  Get(k)' = Lookup(mBuckets', mBucketSize', k)
<1>1. Hash[k] \in Int /\ Hash[k] # -1 /\ Hash' = Hash
  BY HashType DEF Sound, Hash
<1>2. mBuckets' \in Arrays(mBucketSize')
  BY DEF Placed
<1>3. Index(Hash[k], mBucketSize') \in DOMAIN mBuckets'
  BY <1>1, <1>2, IndexIs DEF Arrays
<1>4. QED  BY <1>1, <1>3 DEF Get, Lookup, Chain

\* The abstract state of a sound map and of any other.
LEMMA MapIs ==
  ASSUME keyType' = keyType
  PROVE  /\ Sound' <=> Sound
         /\ ~Sound => MapStep
<1>1. Sound' <=> Sound
  BY DEF Sound, Hash
<1>2. ~Sound => MapStep
  BY <1>1 DEF MapStep, Map!vars
<1>3. QED  BY <1>1, <1>2

\* What a step leaves, put together.
LEMMA KeepsInv ==
  ASSUME keyType' = keyType, keyType \in KeyTypes,
         mBucketSize' \in 1..MaxBucketSize, mThreshold' \in Int, mCount' \in Int, corrupt' \in BOOLEAN,
         \E n \in 1..mBucketSize' : mBuckets' \in Arrays(n),
         IsFiniteSet(Slots(mBuckets')),
         refs' \in [Keys \cup Values -> Int],
         \A x \in Keys \cup Values : refs'[x] = Count(mBuckets', Holding(x)),
         Sound => ~corrupt' /\ Placed(mBuckets', mBucketSize')
  PROVE  IInv'
<1>1. Sound' <=> Sound
  BY MapIs
<1>2. Hash' = Hash
  BY DEF Hash
<1>3. TypeOK'
  BY DEF TypeOK
<1>4. Placed(mBuckets', mBucketSize') => Placed(mBuckets, mBucketSize)'
  BY <1>2 DEF Placed
<1>5. \A x \in Keys \cup Values : refs'[x] = Count(mBuckets, Holding(x))'
  BY DEF Count, In
<1>6. QED  BY <1>1, <1>3, <1>4, <1>5 DEF IInv

\* Put, with the growth that may come first.
LEMMA PutKeeps ==
  ASSUME IInv, NEW k \in Keys, NEW v \in Values, Put(k, v)
  PROVE  IInv' /\ MapStep
<1>1. PICK fails \in {keyType.allocFails, FALSE} :
         LET t == IF mCount >= mThreshold THEN Rehash(fails) ELSE Table
             reached == ~t.corrupt /\ Hash[k] # -1
             inside == Index(Hash[k], t.size) \in DOMAIN t.buckets
         IN /\ mBucketSize' = t.size /\ mThreshold' = t.threshold
            /\ corrupt' = (t.corrupt \/ (reached /\ ~inside))
            /\ IF reached /\ inside THEN PutInto(t, k, v)
               ELSE mBuckets' = t.buckets /\ UNCHANGED <<mCount, refs>>
  BY DEF Put
<1>2. keyType' = keyType /\ call' = <<"Put", k, v>>
  BY DEF Put
<1>3. PICK t : /\ TableOK(t)
               /\ mBucketSize' = t.size /\ mThreshold' = t.threshold
               /\ corrupt' = (t.corrupt \/ (~t.corrupt /\ Hash[k] # -1
                                            /\ Index(Hash[k], t.size) \notin DOMAIN t.buckets))
               /\ IF ~t.corrupt /\ Hash[k] # -1 /\ Index(Hash[k], t.size) \in DOMAIN t.buckets
                  THEN PutInto(t, k, v)
                  ELSE mBuckets' = t.buckets /\ UNCHANGED <<mCount, refs>>
  <2> DEFINE T == IF mCount >= mThreshold THEN Rehash(fails) ELSE Table
  <2>1. TableOK(T)
    BY TableIsOK, RehashIsOK
  <2> HIDE DEF T
  <2>2. /\ mBucketSize' = T.size /\ mThreshold' = T.threshold
        /\ corrupt' = (T.corrupt \/ (~T.corrupt /\ Hash[k] # -1
                                     /\ Index(Hash[k], T.size) \notin DOMAIN T.buckets))
        /\ IF ~T.corrupt /\ Hash[k] # -1 /\ Index(Hash[k], T.size) \in DOMAIN T.buckets
           THEN PutInto(T, k, v)
           ELSE mBuckets' = T.buckets /\ UNCHANGED <<mCount, refs>>
    BY <1>1 DEF T
  <2>3. QED  BY <2>1, <2>2
<1>4. /\ TypeOK /\ keyType \in KeyTypes /\ mCount \in Int /\ refs \in [Keys \cup Values -> Int]
      /\ Hash[k] \in Int
  BY HashType DEF IInv, TypeOK
<1>5. /\ t.size \in 1..MaxBucketSize /\ t.size \in Nat \ {0} /\ t.threshold \in Int
      /\ t.corrupt \in BOOLEAN /\ corrupt' \in BOOLEAN
  BY <1>3, HashMapAssumption DEF TableOK
<1>6. CASE ~t.corrupt /\ Hash[k] # -1 /\ Index(Hash[k], t.size) \in DOMAIN t.buckets
  <2> DEFINE j == Index(Hash[k], t.size)
             i == Find(t.buckets[j], k)
  <2>1. corrupt' = FALSE
    BY <1>3, <1>6
  <2>2. /\ mBuckets' = [t.buckets EXCEPT ![j] = PutInChain(@, k, v)]
        /\ mCount' = IF i = 0 THEN mCount + 1 ELSE mCount
        /\ refs' = IF i = 0 THEN Counted({k, v}, {})
                   ELSE Counted({v}, {t.buckets[j][i].mValue})
    BY <1>3, <1>6 DEF PutInto
  <2>3. PutOK(mBuckets', t, k, v, refs')
    <3>1. CASE i = 0
      BY <1>3, <1>6, <2>2, <3>1, AddKey
    <3>2. CASE i # 0
      BY <1>3, <1>6, <2>2, <3>2, SwapKey
    <3>3. QED  BY <3>1, <3>2
  <2>4. mCount' \in Int
    BY <1>4, <2>2
  <2>5. Sound => ~corrupt' /\ Placed(mBuckets', mBucketSize')
    BY <1>3, <2>1, <2>3 DEF PutOK
  <2>6. IInv'
    BY <1>2, <1>3, <1>4, <1>5, <2>3, <2>4, <2>5, KeepsInv DEF PutOK
  <2>7. ASSUME Sound PROVE MapStep
    <3>1. mBucketSize' \in Nat \ {0}
      BY <1>3, <1>5
    <3>2. \A l \in Keys : Get(l)' = Lookup(mBuckets', mBucketSize', l)
      BY <1>2, <1>4, <2>1, <2>5, <2>7, <3>1, GetNextIs
    <3>3. \A l \in Keys : Get(l) = Lookup(mBuckets, mBucketSize, l)
      BY <2>7, GetIs
    <3>4. Get(k)' = v /\ \A l \in Keys \ {k} : Get(l)' = Get(l)
      BY <1>3, <2>3, <2>7, <3>2, <3>3 DEF PutOK
    <3>5. Sound'
      BY <1>2, <2>7, MapIs
    <3>6. Map!Put(k, v)
      BY <1>2, <2>7, <3>4, <3>5 DEF Map!Put
    <3>7. QED  BY <3>6 DEF MapStep, Map!Next
  <2>8. QED  BY <1>2, <2>6, <2>7, MapIs
<1>7. CASE ~(~t.corrupt /\ Hash[k] # -1 /\ Index(Hash[k], t.size) \in DOMAIN t.buckets)
  <2>1. mBuckets' = t.buckets /\ mCount' = mCount /\ refs' = refs
    BY <1>3, <1>7
  <2>2. ~Sound
    <3>1. SUFFICES ASSUME Sound PROVE FALSE
      OBVIOUS
    <3>2. ~t.corrupt /\ t.buckets \in Arrays(t.size) /\ Hash[k] # -1
      BY <1>3, <3>1 DEF TableOK, Placed, Sound
    <3>3. Index(Hash[k], t.size) \in DOMAIN t.buckets
      BY <1>4, <1>5, <3>2, IndexIs DEF Arrays
    <3>4. QED  BY <1>7, <3>2, <3>3
  <2>3. \A x \in Keys \cup Values : refs'[x] = Count(mBuckets', Holding(x))
    BY <1>3, <2>1 DEF IInv, TableOK
  <2>4. IInv'
    BY <1>2, <1>3, <1>4, <1>5, <2>1, <2>2, <2>3, KeepsInv DEF TableOK
  <2>5. QED  BY <1>2, <2>2, <2>4, MapIs
<1>8. QED  BY <1>6, <1>7

\* Remove.
LEMMA RemoveKeeps ==
  ASSUME IInv, NEW k \in Keys, Remove(k)
  PROVE  IInv' /\ MapStep
<1> DEFINE j == Index(Hash[k], mBucketSize)
           inside == Hash[k] = -1 \/ j \in DOMAIN mBuckets
           i == IF Hash[k] = -1 \/ ~inside THEN 0 ELSE Find(mBuckets[j], k)
<1>1. /\ corrupt' = ~inside
      /\ IF i = 0 THEN UNCHANGED <<mBuckets, refs>>
         ELSE /\ mBuckets' = [mBuckets EXCEPT ![j] = SeqExt!RemoveAt(@, i)]
              /\ refs' = Counted({}, {k, mBuckets[j][i].mValue})
      /\ call' = <<"Remove", k>>
      /\ UNCHANGED <<keyType, mBucketSize, mThreshold, mCount>>
  BY DEF Remove
<1>2. /\ TypeOK /\ keyType \in KeyTypes /\ mCount \in Int /\ mThreshold \in Int
      /\ refs \in [Keys \cup Values -> Int] /\ Hash[k] \in Int
      /\ mBucketSize \in 1..MaxBucketSize /\ mBucketSize \in Nat \ {0}
      /\ \A x \in Keys \cup Values : refs[x] = Count(mBuckets, Holding(x))
  BY HashType, HashMapAssumption DEF IInv, TypeOK
<1>3. corrupt' \in BOOLEAN
  BY <1>1
<1>4. Sound => /\ Hash[k] # -1 /\ j \in DOMAIN mBuckets /\ inside /\ corrupt' = FALSE
               /\ Placed(mBuckets, mBucketSize)
  <2>1. SUFFICES ASSUME Sound PROVE /\ Hash[k] # -1 /\ j \in DOMAIN mBuckets /\ inside /\ corrupt' = FALSE
                                    /\ Placed(mBuckets, mBucketSize)
    OBVIOUS
  <2>2. Hash[k] # -1 /\ Placed(mBuckets, mBucketSize) /\ mBuckets \in Arrays(mBucketSize)
    BY <2>1 DEF IInv, Sound, Placed
  <2>3. j \in DOMAIN mBuckets
    BY <1>2, <2>2, IndexIs DEF Arrays
  <2>4. QED  BY <1>1, <2>2, <2>3
<1>5. CASE i = 0
  <2>1. mBuckets' = mBuckets /\ refs' = refs /\ mBucketSize' = mBucketSize
    BY <1>1, <1>5
  <2>2. Sound => ~corrupt' /\ Placed(mBuckets', mBucketSize')
    BY <1>4, <2>1
  <2>3. \E n \in 1..mBucketSize' : mBuckets' \in Arrays(n)
    BY <1>2, <2>1 DEF TypeOK
  <2>4. IsFiniteSet(Slots(mBuckets'))
    BY <1>2, <2>1 DEF TypeOK
  <2>5. IInv'
    BY <1>1, <1>2, <1>3, <2>1, <2>2, <2>3, <2>4, KeepsInv
  <2>6. ASSUME Sound PROVE MapStep
    <3>1. Find(mBuckets[j], k) = 0
      BY <1>4, <1>5, <2>6
    <3>2. Lookup(mBuckets, mBucketSize, k) = "null"
      BY <3>1 DEF Lookup
    <3>3. \A l \in Keys : Get(l) = Lookup(mBuckets, mBucketSize, l)
      BY <2>6, GetIs
    <3>4. \A l \in Keys : Get(l)' = Lookup(mBuckets', mBucketSize', l)
      BY <1>1, <1>2, <1>4, <2>1, <2>2, <2>6, GetNextIs
    <3>5. Get(k)' = "null" /\ \A l \in Keys \ {k} : Get(l)' = Get(l)
      BY <2>1, <3>2, <3>3, <3>4
    <3>6. Sound'
      BY <1>1, <2>6, MapIs
    <3>7. Map!Remove(k)
      BY <1>1, <2>6, <3>5, <3>6 DEF Map!Remove
    <3>8. QED  BY <3>7 DEF MapStep, Map!Next
  <2>7. QED  BY <1>1, <2>5, <2>6, MapIs
<1>6. CASE i # 0
  <2>1. /\ j \in DOMAIN mBuckets /\ i = Find(mBuckets[j], k) /\ mBucketSize' = mBucketSize
        /\ mBuckets' = [mBuckets EXCEPT ![j] = SeqExt!RemoveAt(@, i)]
        /\ refs' = Counted({}, {k, mBuckets[j][i].mValue})
    BY <1>1, <1>6
  <2>2. RemoveOK(mBuckets', k, refs')
    <3> HIDE DEF i
    <3>1. QED  BY <1>6, <2>1, RemoveKey
  <2>3. Sound => ~corrupt' /\ Placed(mBuckets', mBucketSize')
    BY <1>4, <2>1, <2>2 DEF RemoveOK
  <2>4. IInv'
    BY <1>1, <1>2, <1>3, <2>1, <2>2, <2>3, KeepsInv DEF RemoveOK
  <2>5. ASSUME Sound PROVE MapStep
    <3>1. \A l \in Keys : Get(l) = Lookup(mBuckets, mBucketSize, l)
      BY <2>5, GetIs
    <3>2. \A l \in Keys : Get(l)' = Lookup(mBuckets', mBucketSize', l)
      BY <1>1, <1>2, <1>4, <2>1, <2>3, <2>5, GetNextIs
    <3>3. Get(k)' = "null" /\ \A l \in Keys \ {k} : Get(l)' = Get(l)
      BY <2>1, <2>2, <2>5, <3>1, <3>2 DEF RemoveOK
    <3>4. Sound'
      BY <1>1, <2>5, MapIs
    <3>5. Map!Remove(k)
      BY <1>1, <2>5, <3>3, <3>4 DEF Map!Remove
    <3>6. QED  BY <3>5 DEF MapStep, Map!Next
  <2>6. QED  BY <1>1, <2>4, <2>5, MapIs
<1>7. QED  BY <1>5, <1>6

\* The array of empty chains is placed, whatever its size.
LEMMA EmptyPlaced ==
  ASSUME NEW n \in Nat, NEW t \in Arrays(n), \A j \in 0..(n - 1) : t[j] = <<>>
  PROVE  Placed(t, n)
<1>1. Slots(t) = {} /\ \A B : Count(t, B) = 0
  BY EmptyArray
<1>2. QED  BY <1>1 DEF Placed

\* Clear.
LEMMA ClearKeeps ==
  ASSUME IInv, Clear
  PROVE  IInv' /\ MapStep
<1>1. /\ corrupt' = (Cardinality(DOMAIN mBuckets) < mBucketSize)
      /\ mBuckets' = [i \in DOMAIN mBuckets |-> <<>>]
      /\ refs' = [x \in Keys \cup Values |-> 0]
      /\ call' = <<"Clear">>
      /\ keyType' = keyType /\ mBucketSize' = mBucketSize /\ mThreshold' = mThreshold /\ mCount' = mCount
  BY DEF Clear
<1>2. /\ keyType \in KeyTypes /\ mCount \in Int /\ mThreshold \in Int
      /\ mBucketSize \in 1..MaxBucketSize /\ mBucketSize \in Nat \ {0}
  BY HashMapAssumption DEF IInv, TypeOK
<1>3. PICK n \in 1..mBucketSize : mBuckets \in Arrays(n) /\ (Sound => n = mBucketSize)
  <2>1. CASE Sound
    BY <1>2, <2>1 DEF IInv, Placed
  <2>2. CASE ~Sound
    BY <2>2 DEF IInv, TypeOK
  <2>3. QED  BY <2>1, <2>2
<1>4. n \in Nat \ {0}
  BY <1>2, <1>3
<1>5. mBuckets' \in Arrays(n) /\ \A j \in 0..(n - 1) : mBuckets'[j] = <<>>
  <2>1. DOMAIN mBuckets = 0..(n - 1)
    BY <1>3 DEF Arrays
  <2>2. <<>> \in Seq(Bucket)
    OBVIOUS
  <2>3. QED  BY <1>1, <2>1, <2>2 DEF Arrays
<1>6. IsFiniteSet(Slots(mBuckets')) /\ \A B : Count(mBuckets', B) = 0
  BY <1>4, <1>5, EmptyArray
<1>7. Sound => ~corrupt' /\ Placed(mBuckets', mBucketSize')
  <2>1. SUFFICES ASSUME Sound PROVE ~corrupt' /\ Placed(mBuckets', mBucketSize')
    OBVIOUS
  <2>2. n = mBucketSize
    BY <1>3, <2>1
  <2>3. Cardinality(DOMAIN mBuckets) = n
    BY <1>3, <1>4, ArrayLength
  <2>4. ~corrupt'
    <3>1. ~(Cardinality(DOMAIN mBuckets) < mBucketSize)
      BY <1>4, <2>2, <2>3
    <3>2. QED  BY <1>1, <3>1, Zenon
  <2>5. Placed(mBuckets', n)
    BY <1>4, <1>5, EmptyPlaced
  <2>6. QED  BY <1>1, <2>2, <2>4, <2>5
<1>8. corrupt' \in BOOLEAN
  BY <1>1
<1>9. /\ refs' \in [Keys \cup Values -> Int]
      /\ \A x \in Keys \cup Values : refs'[x] = Count(mBuckets', Holding(x))
  BY <1>1, <1>6
<1>10. \E m \in 1..mBucketSize' : mBuckets' \in Arrays(m)
  BY <1>1, <1>3, <1>5
<1>11. IInv'
  BY <1>1, <1>2, <1>6, <1>7, <1>8, <1>9, <1>10, KeepsInv
<1>12. ASSUME Sound PROVE MapStep
  <2>1. /\ mBucketSize' \in Nat \ {0} /\ Placed(mBuckets', mBucketSize') /\ ~corrupt'
    BY <1>1, <1>2, <1>7, <1>12
  <2>2. ASSUME NEW l \in Keys PROVE Get(l)' = "null"
    <3>1. Get(l)' = Lookup(mBuckets', mBucketSize', l)
      BY <1>1, <1>2, <1>8, <1>12, <2>1, GetNextIs
    <3>2. Lookup(mBuckets', mBucketSize', l) = "null"
      BY <1>2, <1>6, <2>1, LookupIs
    <3>3. QED  BY <3>1, <3>2
  <2>3. Sound'
    BY <1>1, <1>12, MapIs
  <2>4. Map!Clear
    BY <1>1, <2>2, <2>3 DEF Map!Clear
  <2>5. QED  BY <2>4 DEF MapStep, Map!Next
<1>13. QED  BY <1>1, <1>11, <1>12, MapIs

\* The constructor: an empty array of the prime that was chosen.
LEMMA InitKeeps ==
  ASSUME Init
  PROVE  IInv /\ Map!Init
<1>1. PICK size \in InitialSizes :
        LET n == get_lower_bound(size)
        IN /\ mBucketSize = n /\ mThreshold = Threshold(n) /\ mCount = 0
           /\ mBuckets = [i \in 0..(n - 1) |-> <<>>]
           /\ corrupt = FALSE
           /\ refs = [x \in Keys \cup Values |-> 0]
           /\ call = <<"HashMap">>
  BY DEF Init
<1> DEFINE n == get_lower_bound(size)
<1>2. n \in 1..MaxBucketSize
  BY LowerBoundType
<1> HIDE DEF n
<1>3. /\ mBucketSize = n /\ mThreshold = Threshold(n) /\ mCount = 0
      /\ mBuckets = [i \in 0..(n - 1) |-> <<>>] /\ corrupt = FALSE
      /\ refs = [x \in Keys \cup Values |-> 0] /\ call = <<"HashMap">>
  BY <1>1 DEF n
<1>4. keyType \in KeyTypes
  BY DEF Init
<1>5. n \in Nat \ {0} /\ mThreshold \in Int
  BY <1>2, <1>3, HashMapAssumption DEF Threshold
<1>6. mBuckets \in Arrays(n) /\ \A j \in 0..(n - 1) : mBuckets[j] = <<>>
  <2>1. <<>> \in Seq(Bucket)
    OBVIOUS
  <2>2. QED  BY <1>3, <2>1 DEF Arrays
<1>7. IsFiniteSet(Slots(mBuckets)) /\ \A B : Count(mBuckets, B) = 0
  BY <1>5, <1>6, EmptyArray
<1>8. Placed(mBuckets, mBucketSize)
  BY <1>3, <1>5, <1>6, EmptyPlaced
<1>9. n \in 1..mBucketSize
  BY <1>3, <1>5
<1>10. TypeOK
  <2>1. mBucketSize \in 1..MaxBucketSize /\ mCount \in Int /\ corrupt \in BOOLEAN
    BY <1>2, <1>3
  <2>2. refs \in [Keys \cup Values -> Int]
    BY <1>3
  <2>3. \E m \in 1..mBucketSize : mBuckets \in Arrays(m)
    BY <1>6, <1>9
  <2>4. QED  BY <1>4, <1>5, <1>7, <2>1, <2>2, <2>3 DEF TypeOK
<1>11. \A x \in Keys \cup Values : refs[x] = Count(mBuckets, Holding(x))
  BY <1>3, <1>7
<1>12. IInv
  BY <1>3, <1>8, <1>10, <1>11 DEF IInv
<1>13. ASSUME Sound, NEW l \in Keys PROVE Get(l) = "null"
  <2>1. Get(l) = Lookup(mBuckets, mBucketSize, l)
    BY <1>12, <1>13, GetIs
  <2>2. Lookup(mBuckets, mBucketSize, l) = "null"
    BY <1>3, <1>4, <1>5, <1>7, <1>8, LookupIs
  <2>3. QED  BY <2>1, <2>2
<1>14. Map!Init
  BY <1>3, <1>13 DEF Map!Init
<1>15. QED  BY <1>12, <1>14

\* Any step.
LEMMA StepKeeps ==
  ASSUME IInv, [Next]_vars
  PROVE  IInv' /\ MapStep
<1>1. ASSUME NEW k \in Keys, Remove(k) PROVE IInv' /\ MapStep
  BY <1>1, RemoveKeeps
<1>2. ASSUME NEW k \in Keys, NEW v \in Values, Put(k, v) PROVE IInv' /\ MapStep
  BY <1>2, PutKeeps
<1>3. CASE Clear
  BY <1>3, ClearKeeps
<1>4. CASE UNCHANGED vars
  <2>1. /\ keyType' = keyType /\ mBucketSize' = mBucketSize /\ mThreshold' = mThreshold
        /\ mCount' = mCount /\ mBuckets' = mBuckets /\ corrupt' = corrupt /\ refs' = refs
        /\ call' = call
    BY <1>4 DEF vars
  <2>2. TypeOK /\ (\A x \in Keys \cup Values : refs[x] = Count(mBuckets, Holding(x)))
        /\ (Sound => ~corrupt /\ Placed(mBuckets, mBucketSize))
    BY DEF IInv
  <2>3. IInv'
    BY <2>1, <2>2, KeepsInv DEF TypeOK
  <2>4. Sound' <=> Sound
    BY <2>1, MapIs
  <2>5. \A k \in Keys : Get(k)' = Get(k)
    BY <2>1 DEF Get, Chain, Hash
  <2>6. MapStep
    BY <2>1, <2>4, <2>5 DEF MapStep, Map!vars
  <2>7. QED  BY <2>3, <2>6
<1>5. QED  BY <1>1, <1>2, <1>3, <1>4 DEF Next

LEMMA Invariant == Spec => []IInv
<1>1. Init => IInv
  BY InitKeeps
<1>2. IInv /\ [Next]_vars => IInv'
  BY StepKeeps
<1>3. QED  BY <1>1, <1>2, PTL DEF Spec

-----------------------------------------------------------------------------
(***************************************************************************)
(* The theorems.                                                           *)
(***************************************************************************)
\* In a map with hashes that are not negative and enough memory, Get, Put, Remove, Clear
\* and Rehash use no index outside the array, however often it has grown.
THEOREM IndexCorrect == Spec => []IndexInBounds
<1>1. IInv => IndexInBounds
  BY DEF IInv, IndexInBounds
<1>2. QED  BY <1>1, Invariant, PTL

\* The map holds one reference to a key or a value for each bucket with it, in sound maps
\* and in those that calloc or a negative hash have damaged.
THEOREM RefsCorrect == Spec => []RefsExact
<1>1. IInv => RefsExact
  <2>1. SUFFICES ASSUME IInv, NEW x \in Keys \cup Values
                 PROVE  refs[x] = Cardinality({s \in Slots(mBuckets) :
                                   x \in {At(mBuckets, s).mKey, At(mBuckets, s).mValue}})
    BY DEF RefsExact
  <2>2. PICK n \in 1..mBucketSize : mBuckets \in Arrays(n) /\ mBucketSize \in Int
    BY <2>1 DEF IInv, TypeOK
  <2>3. n \in Nat
    BY <2>2
  <2>4. \A s \in Slots(mBuckets) : At(mBuckets, s) \in Bucket
    BY <2>2, <2>3, SlotsAre
  <2>5. {s \in Slots(mBuckets) : x \in {At(mBuckets, s).mKey, At(mBuckets, s).mValue}}
          = In(mBuckets, Holding(x))
    BY <2>4 DEF In, Holding
  <2>6. refs[x] = Cardinality(In(mBuckets, Holding(x)))
    BY <2>1 DEF IInv, Count
  <2>7. QED  BY <2>5, <2>6
<1>2. QED  BY <1>1, Invariant, PTL

\* A sound HashMap is a MapSpec: whatever collides, is moved or is capped, Get answers as
\* the abstract map does.
THEOREM Refinement == Spec => ImplementsMap
<1>1. Init => Map!Init
  BY InitKeeps
<1>2. IInv /\ [Next]_vars => [Map!Next]_(Map!vars)
  BY StepKeeps DEF MapStep
<1>3. QED  BY <1>1, <1>2, Invariant, PTL DEF Spec, ImplementsMap, Map!Spec
=============================================================================
