---------------------------- MODULE MonitorProofs ----------------------------
(***************************************************************************)
(* Proofs about the Monitor: for every set of threads, every largest thin  *)
(* count and any number of calls and interrupts, the lock counts exactly,  *)
(* the wait set is the list of those inside Wait, no interrupt is lost to  *)
(* a sleeper and no contender is left asleep in front of a free monitor.   *)
(***************************************************************************)
EXTENDS Monitor, FiniteSetTheorems, WellFoundedInduction, TLAPS

\* A set of numbers that has a member has a least one.
LEMMA LeastNat ==
  ASSUME NEW S \in SUBSET Nat, S # {}
  PROVE  \E n \in S : \A m \in S : n <= m
<1>1. IsWellFoundedOn(OpToRel(<, Nat), Nat)
  BY NatLessThanWellFounded
<1>2. PICK n \in S : \A m \in S : ~(<<m, n>> \in OpToRel(<, Nat))
  BY <1>1, WFMin
<1>3. \A m \in S : ~(m < n)
  BY <1>2 DEF OpToRel
<1>4. QED  BY <1>3

\* What the links of the wait set lead to: the list, and "null" after it.
LEMMA LinkIs ==
  ASSUME NEW s \in Seq(Threads), LinkedBy(s)
  PROVE  /\ Len(s) <= Cardinality(Threads)
         /\ Link = [i \in 1..(Cardinality(Threads) + 1) |-> IF i <= Len(s) THEN s[i] ELSE "null"]
<1> DEFINE N == Cardinality(Threads)
           F(f) == [i \in 1..(N + 1) |->
                      IF i = 1 THEN mWaitSet
                      ELSE IF f[i - 1] = "null" THEN "null" ELSE mWaitNext[f[i - 1]]]
           g == [i \in 1..(N + 1) |-> IF i <= Len(s) THEN s[i] ELSE "null"]
<1>1. N \in Nat
  BY FS_CardinalityType, MonitorAssumption
<1>2. Len(s) \in Nat /\ s \in [1..Len(s) -> Threads]
  OBVIOUS
<1>3. Len(s) <= N
  <2>1. s \in Injection(1..Len(s), Threads)
    BY <1>2 DEF LinkedBy, Injection, IsInjective
  <2>2. Cardinality(1..Len(s)) <= N
    BY <2>1, FS_Injection, MonitorAssumption
  <2>3. Cardinality(1..Len(s)) = Len(s)
    BY <1>2, FS_Interval
  <2>4. QED  BY <2>2, <2>3
<1>4. g = F(g)
  <2>1. ASSUME NEW i \in 1..(N + 1) PROVE g[i] = F(g)[i]
    <3>1. CASE i = 1
      <4>1. mWaitSet = IF Len(s) = 0 THEN "null" ELSE s[1]
        BY DEF LinkedBy
      <4>2. QED  BY <1>1, <1>2, <3>1, <4>1
    <3>2. CASE i # 1 /\ i - 1 <= Len(s)
      <4>1. i - 1 \in 1..Len(s) /\ i - 1 \in 1..(N + 1)
        BY <1>1, <1>2, <3>2
      <4>2. g[i - 1] = s[i - 1] /\ s[i - 1] # "null"
        BY <4>1, <1>2, MonitorAssumption
      <4>3. mWaitNext[s[i - 1]] = IF i - 1 = Len(s) THEN "null" ELSE s[i]
        <5>1. (i - 1) + 1 = i
          BY <1>1
        <5>2. QED  BY <4>1, <5>1 DEF LinkedBy
      <4>4. QED  BY <4>1, <4>2, <4>3, <3>2, <1>1, <1>2
    <3>3. CASE i # 1 /\ i - 1 > Len(s)
      <4>1. i - 1 \in 1..(N + 1) /\ g[i - 1] = "null" /\ g[i] = "null"
        BY <1>1, <1>2, <3>3
      <4>2. QED  BY <4>1, <3>3
    <3>4. QED  BY <3>1, <3>2, <3>3, <1>1, <1>2
  <2>2. QED  BY <2>1
<1>5. Link = F(Link)
  BY <1>4 DEF Link
<1>6. Link = g
  <2> DEFINE D == {i \in 1..(N + 1) : Link[i] # g[i]}
  <2>1. SUFFICES ASSUME D # {} PROVE FALSE
    BY <1>5
  <2>2. PICK i \in D : \A j \in D : i <= j
    <3>1. D \in SUBSET Nat
      BY <1>1
    <3>2. QED  BY <2>1, <3>1, LeastNat
  <2>3. i # 1
    <3>1. 1 \in 1..(N + 1)
      BY <1>1
    <3>2. Link[1] = mWaitSet /\ g[1] = mWaitSet
      BY <1>4, <1>5, <3>1
    <3>3. QED  BY <2>2, <3>2
  <2>4. i - 1 \in 1..(N + 1) /\ Link[i - 1] = g[i - 1]
    BY <2>2, <2>3, <1>1
  <2>5. F(Link)[i] = F(g)[i]
    BY <2>3, <2>4
  <2>6. QED  BY <1>4, <1>5, <2>5, <2>2
<1>7. QED  BY <1>3, <1>6

\* WaitList reads the list off the links, and Waiters are its members.
LEMMA WaitListIs ==
  ASSUME NEW s \in Seq(Threads), LinkedBy(s)
  PROVE  /\ Len(s) <= Cardinality(Threads) /\ Cardinality(Threads) \in Nat
         /\ \A i \in 1..(Cardinality(Threads) + 1) :
               Link[i] = IF i <= Len(s) THEN s[i] ELSE "null"
         /\ WaitList = s
         /\ Waiters = {s[i] : i \in 1..Len(s)}
<1> DEFINE N == Cardinality(Threads)
<1>1. N \in Nat
  BY FS_CardinalityType, MonitorAssumption
<1>2. /\ Len(s) \in Nat /\ Len(s) <= N
      /\ Link = [i \in 1..(N + 1) |-> IF i <= Len(s) THEN s[i] ELSE "null"]
  BY LinkIs
<1>3. \A i \in 1..Len(s) : s[i] \in Threads /\ s[i] # "null"
  BY MonitorAssumption
<1>4. {i \in DOMAIN Link : Link[i] # "null"} = 1..Len(s)
  BY <1>1, <1>2, <1>3
<1>5. WaitLength = Len(s)
  <2>0. Len(s) \in Nat
    BY <1>2
  <2>1. Cardinality(1..Len(s)) = Len(s)
    <3>1. Cardinality(1..Len(s)) = IF 1 > Len(s) THEN 0 ELSE Len(s) - 1 + 1
      BY <2>0, FS_Interval
    <3>2. QED  BY <2>0, <3>1
  <2>2. QED  BY <1>4, <2>1 DEF WaitLength
<1>6. WaitList = s
  <2>1. WaitList = [i \in 1..Len(s) |-> Link[i]]
    BY <1>1, <1>2, <1>5 DEF WaitList
  <2>2. QED  BY <2>1, <1>1, <1>2
<1>7. Waiters = {s[i] : i \in 1..Len(s)}
  BY <1>1, <1>2, <1>3 DEF Waiters
<1>8. QED  BY <1>1, <1>2, <1>6, <1>7

\* AppendToWaitSet puts a thread that is not in the list at its end.
LEMMA Appended ==
  ASSUME TypeOK, NEW s \in Seq(Threads), LinkedBy(s), NEW t \in Threads,
         \A i \in 1..Len(s) : s[i] # t, AppendToWaitSet(t)
  PROVE  LinkedBy(Append(s, t))'
<1> DEFINE n == Len(s)
           r == Append(s, t)
<1>1. /\ n \in Nat /\ Len(r) = n + 1 /\ r[n + 1] = t
      /\ \A i \in 1..n : r[i] = s[i] /\ s[i] \in Threads /\ s[i] # "null"
  BY MonitorAssumption
<1>2. WaitList = s
  BY WaitListIs
<1>3. mWaitNext[t] = "null" /\ mWaitNext \in [Threads -> Threads \cup {"null"}]
  BY DEF LinkedBy, TypeOK
<1>4. /\ mWaitSet = IF n = 0 THEN "null" ELSE s[1]
      /\ \A i \in 1..n : mWaitNext[s[i]] = IF i = n THEN "null" ELSE s[i + 1]
      /\ \A i, j \in 1..n : s[i] = s[j] => i = j
      /\ \A u \in Threads : (\A i \in 1..n : s[i] # u) => mWaitNext[u] = "null"
  BY DEF LinkedBy
<1>5. CASE n = 0
  <2>1. mWaitSet' = t /\ mWaitNext' = mWaitNext
    BY <1>4, <1>5 DEF AppendToWaitSet
  <2>2. QED  BY <1>1, <1>3, <1>4, <1>5, <2>1 DEF LinkedBy
<1>6. CASE n # 0
  <2>1. mWaitSet' = mWaitSet /\ mWaitNext' = [mWaitNext EXCEPT ![s[n]] = t]
    BY <1>1, <1>2, <1>4, <1>6 DEF AppendToWaitSet
  <2>2. mWaitNext'[s[n]] = t /\ \A u \in Threads : u # s[n] => mWaitNext'[u] = mWaitNext[u]
    BY <1>1, <1>3, <1>6, <2>1
  <2>3. \A i, j \in 1..Len(r) : r[i] = r[j] => i = j
    <3>1. \A i \in 1..Len(r) : i = n + 1 \/ i \in 1..n
      BY <1>1
    <3>2. QED  BY <1>1, <1>4, <3>1
  <2>4. mWaitSet' = IF Len(r) = 0 THEN "null" ELSE r[1]
    BY <1>1, <1>4, <1>6, <2>1
  <2>5. ASSUME NEW i \in 1..Len(r)
        PROVE mWaitNext'[r[i]] = IF i = Len(r) THEN "null" ELSE r[i + 1]
    <3>1. CASE i = n + 1
      BY <1>1, <1>3, <1>6, <2>2, <3>1
    <3>2. CASE i = n
      BY <1>1, <1>6, <2>2, <3>2
    <3>3. CASE i < n
      <4>1. i \in 1..n /\ n \in 1..n /\ i + 1 \in 1..n
        BY <1>1, <3>3
      <4>2. s[i] # s[n]
        BY <4>1, <1>4, <3>3, <1>1
      <4>3. mWaitNext'[s[i]] = s[i + 1]
        BY <4>1, <4>2, <1>1, <1>4, <2>2, <3>3
      <4>4. QED  BY <4>1, <4>3, <1>1, <3>3
    <3>4. QED  BY <1>1, <3>1, <3>2, <3>3
  <2>6. ASSUME NEW u \in Threads, \A i \in 1..Len(r) : r[i] # u PROVE mWaitNext'[u] = "null"
    BY <1>1, <1>4, <1>6, <2>2, <2>6
  <2>7. QED  BY <2>3, <2>4, <2>5, <2>6 DEF LinkedBy
<1>7. QED  BY <1>5, <1>6

\* RemoveFromWaitSet takes the thread out of the list and keeps the others.
LEMMA Removed ==
  ASSUME TypeOK, NEW s \in Seq(Threads), LinkedBy(s), NEW t \in Threads, RemoveFromWaitSet(t)
  PROVE  \E r \in Seq(Threads) :
            /\ LinkedBy(r)'
            /\ {r[i] : i \in 1..Len(r)} = {s[i] : i \in 1..Len(s)} \ {t}
<1> DEFINE n == Len(s)
<1>1. /\ n \in Nat /\ \A i \in 1..n : s[i] \in Threads /\ s[i] # "null"
  BY MonitorAssumption
<1>2. WaitList = s /\ Waiters = {s[i] : i \in 1..n}
  BY WaitListIs
<1>3. mWaitNext \in [Threads -> Threads \cup {"null"}]
  BY DEF TypeOK
<1>4. /\ mWaitSet = IF n = 0 THEN "null" ELSE s[1]
      /\ \A i \in 1..n : mWaitNext[s[i]] = IF i = n THEN "null" ELSE s[i + 1]
      /\ \A i, j \in 1..n : s[i] = s[j] => i = j
      /\ \A u \in Threads : (\A i \in 1..n : s[i] # u) => mWaitNext[u] = "null"
  BY DEF LinkedBy
<1>5. CASE t \notin Waiters
  <2>1. mWaitSet # t
    <3>1. "null" # t  BY MonitorAssumption
    <3>2. CASE n = 0  BY <3>1, <3>2, <1>4
    <3>3. CASE n # 0
      <4>1. 1 \in 1..n  BY <3>3, <1>1
      <4>2. QED  BY <4>1, <3>3, <1>2, <1>4, <1>5
    <3>4. QED  BY <3>2, <3>3
  <2>2. mWaitSet' = mWaitSet /\ mWaitNext' = mWaitNext
    BY <1>5, <2>1 DEF RemoveFromWaitSet
  <2>3. LinkedBy(s)'
    BY <2>2 DEF LinkedBy
  <2>4. {s[i] : i \in 1..n} = {s[i] : i \in 1..n} \ {t}
    BY <1>2, <1>5
  <2>5. QED  BY <2>3, <2>4
<1>6. CASE t \in Waiters
  <2>1. PICK k \in 1..n : s[k] = t
    BY <1>2, <1>6
  <2> DEFINE r == [i \in 1..(n - 1) |-> IF i < k THEN s[i] ELSE s[i + 1]]
  <2>2. n - 1 \in Nat /\ k \in Nat /\ k >= 1 /\ k <= n
    BY <1>1, <2>1
  <2>3. \A i \in 1..(n - 1) : i \in 1..n /\ i + 1 \in 1..n
    BY <1>1
  <2>4. r \in Seq(Threads) /\ Len(r) = n - 1
    <3>1. \A i \in 1..(n - 1) : r[i] \in Threads
      BY <2>3, <1>1
    <3>2. r \in [1..(n - 1) -> Threads]
      BY <3>1
    <3>3. QED  BY <2>2, <3>2
  <2>5. \A i \in 1..(n - 1) : r[i] = IF i < k THEN s[i] ELSE s[i + 1]
    OBVIOUS
  <2> HIDE DEF r
  <2>6. /\ mWaitSet' = IF k = 1 THEN mWaitNext[t] ELSE mWaitSet
        /\ mWaitNext'[t] = "null"
        /\ \A u \in Threads : u # t /\ (k = 1 \/ u # s[k - 1]) => mWaitNext'[u] = mWaitNext[u]
        /\ k # 1 => mWaitNext'[s[k - 1]] = mWaitNext[t]
    <3>1. CASE k = 1
      <4>1. mWaitSet = t
        BY <1>1, <1>4, <2>1, <2>2, <3>1
      <4>2. QED  BY <4>1, <1>3, <3>1 DEF RemoveFromWaitSet
    <3>2. CASE k # 1
      <4>1. 1 \in 1..n /\ k - 1 \in 1..n /\ (k - 1) + 1 = k /\ k - 1 # n
        BY <1>1, <2>2, <3>2
      <4>2. mWaitSet # t
        BY <4>1, <1>1, <1>4, <2>1, <3>2
      <4>3. s[k - 1] \in Waiters /\ mWaitNext[s[k - 1]] = t
        BY <4>1, <1>2, <1>4, <2>1
      <4>4. ASSUME NEW p \in Waiters, mWaitNext[p] = t PROVE p = s[k - 1]
        <5>1. PICK j \in 1..n : p = s[j]
          BY <1>2, <4>4
        <5>2. j # n /\ s[j + 1] = t
          BY <5>1, <4>4, <1>4, MonitorAssumption
        <5>3. j + 1 \in 1..n
          BY <5>2, <1>1
        <5>4. j + 1 = k
          BY <5>2, <5>3, <1>4, <2>1
        <5>5. j = k - 1
          BY <5>4, <2>2
        <5>6. QED  BY <5>1, <5>5
      <4>5. (CHOOSE p \in Waiters : mWaitNext[p] = t) = s[k - 1]
        BY <4>3, <4>4
      <4>6. /\ mWaitNext' = [mWaitNext EXCEPT ![s[k - 1]] = mWaitNext[t], ![t] = "null"]
            /\ mWaitSet' = mWaitSet
        BY <1>6, <4>2, <4>5 DEF RemoveFromWaitSet
      <4>7. s[k - 1] # t /\ s[k - 1] \in Threads
        BY <4>1, <1>1, <1>4, <2>1, <2>2
      <4>8. QED  BY <4>6, <4>7, <1>3, <3>2
    <3>3. QED  BY <3>1, <3>2
  <2>7. mWaitNext[t] = IF k = n THEN "null" ELSE s[k + 1]
    BY <1>4, <2>1
  <2>8. \A i, j \in 1..Len(r) : r[i] = r[j] => i = j
    <3>1. ASSUME NEW i \in 1..(n - 1), NEW j \in 1..(n - 1), r[i] = r[j] PROVE i = j
      <4> DEFINE f(a) == IF a < k THEN a ELSE a + 1
      <4>1. f(i) \in 1..n /\ f(j) \in 1..n /\ r[i] = s[f(i)] /\ r[j] = s[f(j)]
        BY <2>3, <2>5
      <4>2. f(i) = f(j)
        BY <4>1, <3>1, <1>4
      <4>3. QED  BY <4>2, <2>2
    <3>2. QED  BY <2>4, <3>1
  <2>9. mWaitSet' = IF Len(r) = 0 THEN "null" ELSE r[1]
    BY <1>1, <1>4, <2>2, <2>4, <2>5, <2>6, <2>7
  <2>10. ASSUME NEW i \in 1..Len(r)
         PROVE  mWaitNext'[r[i]] = IF i = Len(r) THEN "null" ELSE r[i + 1]
    <3>0. i \in 1..(n - 1) /\ i \in 1..n /\ i + 1 \in 1..n /\ i \in Nat
      BY <2>4, <2>3
    <3>1. CASE i < k - 1
      <4>1. r[i] = s[i] /\ r[i + 1] = s[i + 1] /\ i # n - 1
        BY <3>0, <3>1, <2>5, <2>2
      <4>2. s[i] # t /\ s[i] # s[k - 1] /\ s[i] \in Threads
        <5>1. i # k /\ i # k - 1 /\ k - 1 \in 1..n
          BY <3>0, <3>1, <2>2
        <5>2. QED  BY <5>1, <3>0, <1>4, <2>1, <1>1
      <4>3. mWaitNext'[s[i]] = s[i + 1]
        BY <4>2, <2>6, <1>4, <3>0, <1>1, <3>1, <2>2, SMTT(40)
      <4>4. QED  BY <4>1, <4>3, <2>4
    <3>2. CASE i = k - 1
      <4>1. r[i] = s[k - 1] /\ k # 1
        BY <3>0, <3>2, <2>5, <2>2
      <4>2. mWaitNext'[r[i]] = IF k = n THEN "null" ELSE s[k + 1]
        BY <4>1, <2>6, <2>7
      <4>3. CASE i = n - 1
        BY <4>2, <4>3, <3>2, <2>4, <2>2
      <4>4. CASE i # n - 1
        <5>1. k \in 1..(n - 1) /\ r[k] = s[k + 1] /\ i + 1 = k /\ k # n
          BY <4>4, <3>0, <3>2, <2>2, <2>5
        <5>2. QED  BY <5>1, <4>2, <4>4, <2>4
      <4>5. QED  BY <4>3, <4>4
    <3>3. CASE i >= k
      <4>1. r[i] = s[i + 1]
        BY <3>0, <3>3, <2>5, <2>2
      <4>2. s[i + 1] # t /\ (k = 1 \/ s[i + 1] # s[k - 1]) /\ s[i + 1] \in Threads
        <5>1. i + 1 # k /\ i + 1 # k - 1 /\ (k = 1 \/ k - 1 \in 1..n)
          BY <3>0, <3>3, <2>2
        <5>2. QED  BY <5>1, <3>0, <1>4, <2>1, <1>1
      <4>3. mWaitNext'[r[i]] = IF i + 1 = n THEN "null" ELSE s[(i + 1) + 1]
        BY <4>1, <4>2, <2>6, <1>4, <3>0
      <4>4. i # n - 1 => r[i + 1] = s[(i + 1) + 1]
        <5>1. i # n - 1 => i + 1 \in 1..(n - 1) /\ ~(i + 1 < k)
          BY <3>0, <3>3, <2>2
        <5>2. QED  BY <5>1, <2>5
      <4>5. QED  BY <4>3, <4>4, <2>4, <3>0, <2>2
    <3>4. QED  BY <3>0, <3>1, <3>2, <3>3, <2>2
  <2>11. {r[i] : i \in 1..Len(r)} = {s[i] : i \in 1..n} \ {t}
    <3>1. ASSUME NEW i \in 1..(n - 1) PROVE r[i] \in {s[j] : j \in 1..n} \ {t}
      <4>1. \E j \in 1..n : r[i] = s[j] /\ j # k
        <5>1. CASE i < k
          <6>1. i \in 1..n /\ i # k /\ r[i] = s[i]  BY <5>1, <2>2, <2>5
          <6>2. QED  BY <6>1
        <5>2. CASE ~(i < k)
          <6>1. i + 1 \in 1..n /\ i + 1 # k /\ r[i] = s[i + 1]  BY <5>2, <2>2, <2>5
          <6>2. QED  BY <6>1
        <5>3. QED  BY <5>1, <5>2
      <4>2. QED  BY <4>1, <2>1, <1>4
    <3>2. ASSUME NEW j \in 1..n, s[j] # t PROVE \E i \in 1..(n - 1) : r[i] = s[j]
      <4>1. CASE j < k
        <5>1. j \in 1..(n - 1) /\ r[j] = s[j]  BY <4>1, <2>2, <2>5
        <5>2. QED  BY <5>1
      <4>2. CASE j > k
        <5>1. j - 1 \in 1..(n - 1) /\ (j - 1) + 1 = j /\ ~(j - 1 < k)
          BY <4>2, <2>2
        <5>2. r[j - 1] = s[j]  BY <5>1, <2>5
        <5>3. QED  BY <5>1, <5>2
      <4>3. QED  BY <4>1, <4>2, <3>2, <2>1, <2>2
    <3>3. QED  BY <3>1, <3>2, <2>4
  <2>12. ASSUME NEW u \in Threads, \A i \in 1..Len(r) : r[i] # u PROVE mWaitNext'[u] = "null"
    <3>1. CASE u = t
      BY <3>1, <2>6
    <3>2. CASE u # t
      <4>1. \A i \in 1..n : s[i] # u
        BY <2>11, <2>12, <3>2
      <4>2. k = 1 \/ k - 1 \in 1..n
        BY <2>2
      <4>3. QED  BY <4>1, <4>2, <3>2, <2>6, <1>4
    <3>3. QED  BY <3>1, <3>2
  <2>13. LinkedBy(r)'
    BY <2>8, <2>9, <2>10, <2>12 DEF LinkedBy
  <2>14. QED  BY <2>4, <2>11, <2>13
<1>7. QED  BY <1>5, <1>6

\* TakeOff(m) leaves the list from its m + 1st thread on.
LEMMA TakenOff ==
  ASSUME TypeOK, NEW s \in Seq(Threads), LinkedBy(s), NEW m \in 0..Len(s), TakeOff(m)
  PROVE  LET r == [i \in 1..(Len(s) - m) |-> s[i + m]]
         IN  /\ r \in Seq(Threads) /\ Len(r) = Len(s) - m
             /\ LinkedBy(r)'
             /\ pc' = Wake({u \in {s[i] : i \in 1..m} : mWaitMonitor[u]})
<1> DEFINE n == Len(s)
           r == [i \in 1..(n - m) |-> s[i + m]]
           off == {s[i] : i \in 1..m}
<1>1. /\ n \in Nat /\ m \in Nat /\ m <= n /\ n - m \in Nat
      /\ \A i \in 1..n : s[i] \in Threads /\ s[i] # "null"
  BY MonitorAssumption
<1>2. WaitList = s /\ Link[m + 1] = IF m + 1 <= n THEN s[m + 1] ELSE "null"
  <2>1. m + 1 \in 1..(Cardinality(Threads) + 1)
    BY WaitListIs, <1>1
  <2>2. QED  BY <2>1, WaitListIs
<1>3. mWaitNext \in [Threads -> Threads \cup {"null"}]
  BY DEF TypeOK
<1>4. /\ \A i \in 1..n : mWaitNext[s[i]] = IF i = n THEN "null" ELSE s[i + 1]
      /\ \A i, j \in 1..n : s[i] = s[j] => i = j
      /\ \A u \in Threads : (\A i \in 1..n : s[i] # u) => mWaitNext[u] = "null"
  BY DEF LinkedBy
<1>5. /\ mWaitSet' = IF m + 1 <= n THEN s[m + 1] ELSE "null"
      /\ \A u \in Threads : mWaitNext'[u] = IF u \in off THEN "null" ELSE mWaitNext[u]
      /\ pc' = Wake({u \in off : mWaitMonitor[u]})
  BY <1>2 DEF TakeOff
<1>6. \A i \in 1..(n - m) : i + m \in 1..n /\ r[i] = s[i + m]
  BY <1>1
<1>7. r \in Seq(Threads) /\ Len(r) = n - m
  <2>1. r \in [1..(n - m) -> Threads]
    BY <1>1, <1>6
  <2>2. QED  BY <2>1, <1>1
<1> HIDE DEF r
<1>8. \A i, j \in 1..Len(r) : r[i] = r[j] => i = j
  <2>1. ASSUME NEW i \in 1..(n - m), NEW j \in 1..(n - m), r[i] = r[j] PROVE i = j
    <3>1. i + m = j + m
      BY <2>1, <1>6, <1>4
    <3>2. QED  BY <3>1, <1>1
  <2>2. QED  BY <2>1, <1>7
<1>9. mWaitSet' = IF Len(r) = 0 THEN "null" ELSE r[1]
  <2>1. CASE n = m
    BY <2>1, <1>1, <1>5, <1>7
  <2>2. CASE n # m
    <3>1. 1 \in 1..(n - m) /\ 1 + m = m + 1 /\ m + 1 <= n
      BY <2>2, <1>1
    <3>2. QED  BY <3>1, <1>5, <1>6, <1>7
  <2>3. QED  BY <2>1, <2>2
<1>10. ASSUME NEW i \in 1..Len(r)
       PROVE  mWaitNext'[r[i]] = IF i = Len(r) THEN "null" ELSE r[i + 1]
  <2>1. i \in 1..(n - m) /\ i + m \in 1..n /\ r[i] = s[i + m]
    BY <1>6, <1>7
  <2>2. s[i + m] \notin off
    <3>1. \A j \in 1..m : j \in 1..n /\ j # i + m
      BY <1>1, <2>1
    <3>2. QED  BY <3>1, <2>1, <1>4
  <2>3. mWaitNext'[r[i]] = IF i + m = n THEN "null" ELSE s[(i + m) + 1]
    BY <2>1, <2>2, <1>1, <1>4, <1>5, SMTT(40)
  <2>4. i # n - m => i + 1 \in 1..(n - m) /\ (i + 1) + m = (i + m) + 1
    BY <2>1, <1>1
  <2>5. i # n - m => r[i + 1] = s[(i + m) + 1]
    BY <2>4, <1>6
  <2>6. i + m = n <=> i = n - m
    BY <2>1, <1>1
  <2>7. QED  BY <2>3, <2>5, <2>6, <1>7
<1>11. ASSUME NEW u \in Threads, \A i \in 1..Len(r) : r[i] # u PROVE mWaitNext'[u] = "null"
  <2>1. CASE u \in off
    BY <2>1, <1>5
  <2>2. CASE u \notin off
    <3>1. ASSUME NEW j \in 1..n PROVE s[j] # u
      <4>1. CASE j <= m
        BY <4>1, <2>2, <1>1
      <4>2. CASE j > m
        <5>1. j - m \in 1..(n - m) /\ (j - m) + m = j
          BY <4>2, <1>1
        <5>2. QED  BY <5>1, <1>6, <1>7, <1>11
      <4>3. QED  BY <4>1, <4>2, <1>1
    <3>2. QED  BY <3>1, <2>2, <1>4, <1>5
  <2>3. QED  BY <2>1, <2>2
<1>12. LinkedBy(r)'
  BY <1>8, <1>9, <1>10, <1>11 DEF LinkedBy
<1>13. QED  BY <1>5, <1>7, <1>12 DEF r

-----------------------------------------------------------------------------

\* The list stays good while it is not touched, nobody falls asleep and its
\* threads stay inside Wait.
LEMMA ListKept ==
  ASSUME WaitSetOK, mWaitSet' = mWaitSet, mWaitNext' = mWaitNext,
         \A u \in Threads : pc'[u] = "sleeping" => pc[u] = "sleeping",
         \A u \in Threads : InWait(u) \/ pc[u] = "relocked" => (InWait(u) \/ pc[u] = "relocked")'
  PROVE  WaitSetOK'
<1>1. PICK s \in Seq(Threads) : Queued(s)
  BY DEF WaitSetOK
<1>2. LinkedBy(s)'
  BY <1>1 DEF Queued, LinkedBy
<1>3. \A i \in 1..Len(s) : s[i] \in Threads
  OBVIOUS
<1>4. Queued(s)'
  BY <1>1, <1>2, <1>3 DEF Queued
<1>5. QED  BY <1>4 DEF WaitSetOK

\* Before inflation the wait set is empty: the new monitor forgets nobody.
LEMMA EmptyUntilFat ==
  ASSUME WaitSetOK, \A u \in Threads : PlaceOK(u), word.state # "fat"
  PROVE  mWaitSet = "null"
<1>1. PICK s \in Seq(Threads) : Queued(s)
  BY DEF WaitSetOK
<1>2. \A i \in 1..Len(s) : s[i] \in Threads
  OBVIOUS
<1>3. \A i \in 1..Len(s) : FALSE
  BY <1>1, <1>2 DEF Queued, PlaceOK
<1>4. Len(s) = 0
  <2>1. Len(s) \in Nat
    OBVIOUS
  <2>2. 1 \notin 1..Len(s)
    BY <1>3
  <2>3. QED  BY <2>1, <2>2
<1>5. QED  BY <1>1, <1>4 DEF Queued, LinkedBy

\* Signalling mMonitorContenders moves at most one thread, out of its sleep, and
\* one for certain when anybody sleeps there.
LEMMA SignalMoves ==
  ASSUME NEW after \in [Threads -> PCs], SignalContender(after)
  PROVE  /\ pc' \in [Threads -> PCs]
         /\ \A u \in Threads : \/ pc'[u] = after[u]
                               \/ after[u] = "contending" /\ pc'[u] = "relock"
         /\ (\E u \in Threads : after[u] = "contending") => \E u \in Threads : pc'[u] = "relock"
  BY DEF SignalContender, PCs

\* Signalling wait conditions moves only threads asleep there.
LEMMA WakeMoves ==
  ASSUME TypeOK, NEW S, pc' = Wake(S)
  PROVE  /\ pc' \in [Threads -> PCs]
         /\ \A u \in Threads : \/ pc'[u] = pc[u]
                               \/ pc[u] = "sleeping" /\ pc'[u] = "woken"
         /\ \A u \in S \cap Threads : pc'[u] # "sleeping"
  BY DEF Wake, TypeOK, PCs

USE DEF monitorVars, threadVars, Default, Fat, FromThinLockId

\* Lock keeps the invariant: nothing is acquired yet.
LEMMA LockKeeps == ASSUME IInv, NEW t \in Threads, Lock(t) PROVE IInv'
<1>1. TypeOK /\ MonitorOK /\ WaitSetOK /\ \A u \in Threads : PlaceOK(u)
  BY DEF IInv
<1>2. HoldsExact /\ NoInterruptedSleeper /\ NoStrandedContender
  BY DEF IInv
<1>3. TypeOK'
  BY <1>1, <1>2, MonitorAssumption DEF TypeOK, PCs, HoldsExact, OwnsThin, OwnsFat, Lock
<1>4. MonitorOK'
  BY <1>1, MonitorAssumption DEF TypeOK, MonitorOK, PlaceOK, InWait, OwnsThin, OwnsFat, Lock
<1>5. \A u \in Threads : PlaceOK(u)'
  BY <1>1, <1>2, MonitorAssumption DEF TypeOK, MonitorOK, PlaceOK, InWait, HoldsExact,
     OwnsThin, OwnsFat, Lock
<1>6. HoldsExact'
  BY <1>1, <1>2, MonitorAssumption DEF TypeOK, MonitorOK, PlaceOK, InWait, HoldsExact,
     OwnsThin, OwnsFat, Lock
<1>7. NoInterruptedSleeper' /\ NoStrandedContender'
  BY <1>1, <1>2, MonitorAssumption DEF TypeOK, PlaceOK, InWait, NoInterruptedSleeper,
     NoStrandedContender, Lock
<1>8. WaitSetOK'
  BY <1>1, ListKept DEF TypeOK, InWait, Lock
<1>9. QED  BY <1>3, <1>4, <1>5, <1>6, <1>7, <1>8 DEF IInv

\* EnterUnlocked keeps the invariant: only the thread moves.
LEMMA EnterUnlockedKeeps == ASSUME IInv, NEW t \in Threads, EnterUnlocked(t) PROVE IInv'
<1>1. TypeOK /\ MonitorOK /\ WaitSetOK /\ \A u \in Threads : PlaceOK(u)
  BY DEF IInv
<1>2. HoldsExact /\ NoInterruptedSleeper /\ NoStrandedContender
  BY DEF IInv
<1>3. TypeOK'
  BY <1>1, <1>2, MonitorAssumption DEF TypeOK, PCs, HoldsExact, OwnsThin, OwnsFat, EnterUnlocked
<1>4. MonitorOK'
  BY <1>1, MonitorAssumption DEF TypeOK, MonitorOK, PlaceOK, InWait, OwnsThin, OwnsFat,
     EnterUnlocked
<1>5. \A u \in Threads : PlaceOK(u)'
  BY <1>1, <1>2, MonitorAssumption DEF TypeOK, MonitorOK, PlaceOK, InWait, HoldsExact,
     OwnsThin, OwnsFat, EnterUnlocked
<1>6. HoldsExact'
  BY <1>1, <1>2, MonitorAssumption DEF TypeOK, MonitorOK, PlaceOK, InWait, HoldsExact,
     OwnsThin, OwnsFat, EnterUnlocked
<1>7. NoInterruptedSleeper' /\ NoStrandedContender'
  BY <1>1, <1>2, MonitorAssumption DEF TypeOK, PlaceOK, InWait, NoInterruptedSleeper,
     NoStrandedContender, EnterUnlocked
<1>8. WaitSetOK'
  BY <1>1, ListKept DEF TypeOK, InWait, EnterUnlocked
<1>9. QED  BY <1>3, <1>4, <1>5, <1>6, <1>7, <1>8 DEF IInv

\* EnterCas keeps the invariant: an unlocked word had no holder.
LEMMA EnterCasKeeps == ASSUME IInv, NEW t \in Threads, EnterCas(t) PROVE IInv'
<1>1. TypeOK /\ MonitorOK /\ WaitSetOK /\ \A u \in Threads : PlaceOK(u)
  BY DEF IInv
<1>2. HoldsExact /\ NoInterruptedSleeper /\ NoStrandedContender
  BY DEF IInv
<1>3. TypeOK'
  BY <1>1, <1>2, MonitorAssumption DEF TypeOK, PCs, HoldsExact, OwnsThin, OwnsFat, EnterCas,
     Section
<1>4. MonitorOK'
  BY <1>1, MonitorAssumption DEF TypeOK, MonitorOK, PlaceOK, InWait, OwnsThin, OwnsFat,
     EnterCas, Section
<1>5. \A u \in Threads : PlaceOK(u)'
  BY <1>1, <1>2, MonitorAssumption DEF TypeOK, MonitorOK, PlaceOK, InWait, HoldsExact,
     OwnsThin, OwnsFat, EnterCas, Section
<1>6. HoldsExact'
  BY <1>1, <1>2, MonitorAssumption DEF TypeOK, MonitorOK, PlaceOK, InWait, HoldsExact,
     OwnsThin, OwnsFat, EnterCas, Section
<1>7. NoInterruptedSleeper' /\ NoStrandedContender'
  BY <1>1, <1>2, MonitorAssumption DEF TypeOK, PlaceOK, InWait, NoInterruptedSleeper,
     NoStrandedContender, EnterCas, Section
<1>8. WaitSetOK'
  BY <1>1, ListKept DEF TypeOK, InWait, EnterCas, Section
<1>9. QED  BY <1>3, <1>4, <1>5, <1>6, <1>7, <1>8 DEF IInv

\* EnterThin keeps the invariant: inflation takes over owner and count.
LEMMA EnterThinKeeps == ASSUME IInv, NEW t \in Threads, EnterThin(t) PROVE IInv'
<1>1. TypeOK /\ MonitorOK /\ WaitSetOK /\ \A u \in Threads : PlaceOK(u)
  BY DEF IInv
<1>2. HoldsExact /\ NoInterruptedSleeper /\ NoStrandedContender
  BY DEF IInv
<1>3. TypeOK'
  BY <1>1, <1>2, MonitorAssumption DEF TypeOK, PCs, HoldsExact, OwnsThin, OwnsFat, EnterThin,
     Section, Inflate, Install
<1>4. MonitorOK'
  BY <1>1, MonitorAssumption DEF TypeOK, MonitorOK, PlaceOK, InWait, OwnsThin, OwnsFat,
     EnterThin, Section, Inflate, Install
<1>5. \A u \in Threads : PlaceOK(u)'
  BY <1>1, <1>2, MonitorAssumption DEF TypeOK, MonitorOK, PlaceOK, InWait, HoldsExact,
     OwnsThin, OwnsFat, EnterThin, Section, Inflate, Install
<1>6. HoldsExact'
  BY <1>1, <1>2, MonitorAssumption DEF TypeOK, MonitorOK, PlaceOK, InWait, HoldsExact,
     OwnsThin, OwnsFat, EnterThin, Section, Inflate, Install
<1>7. NoInterruptedSleeper' /\ NoStrandedContender'
  BY <1>1, <1>2, MonitorAssumption DEF TypeOK, PlaceOK, InWait, NoInterruptedSleeper,
     NoStrandedContender, EnterThin, Section, Inflate, Install
<1>8. WaitSetOK'
  <2>1. mWaitSet' = mWaitSet
    BY <1>1, EmptyUntilFat DEF EnterThin, OwnsThin, Inflate, Install
  <2>2. QED  BY <1>1, <2>1, ListKept DEF TypeOK, InWait, EnterThin, Section, Inflate, Install
<1>9. QED  BY <1>3, <1>4, <1>5, <1>6, <1>7, <1>8 DEF IInv

\* EnterFat keeps the invariant: the owner counts up, and a free monitor has count 0.
LEMMA EnterFatKeeps == ASSUME IInv, NEW t \in Threads, EnterFat(t) PROVE IInv'
<1>1. TypeOK /\ MonitorOK /\ WaitSetOK /\ \A u \in Threads : PlaceOK(u)
  BY DEF IInv
<1>2. HoldsExact /\ NoInterruptedSleeper /\ NoStrandedContender
  BY DEF IInv
<1>3. TypeOK'
  BY <1>1, <1>2, MonitorAssumption DEF TypeOK, PCs, HoldsExact, OwnsThin, OwnsFat, EnterFat,
     Section, TryLockLocked, Acquirable
<1>4. MonitorOK'
  BY <1>1, MonitorAssumption DEF TypeOK, MonitorOK, PlaceOK, InWait, OwnsThin, OwnsFat,
     EnterFat, Section, TryLockLocked, Acquirable
<1>5. \A u \in Threads : PlaceOK(u)'
  BY <1>1, <1>2, MonitorAssumption DEF TypeOK, MonitorOK, PlaceOK, InWait, HoldsExact,
     OwnsThin, OwnsFat, EnterFat, Section, TryLockLocked, Acquirable
<1>6. HoldsExact'
  BY <1>1, <1>2, MonitorAssumption DEF TypeOK, MonitorOK, PlaceOK, InWait, HoldsExact,
     OwnsThin, OwnsFat, EnterFat, Section, TryLockLocked, Acquirable
<1>7. NoInterruptedSleeper' /\ NoStrandedContender'
  BY <1>1, <1>2, MonitorAssumption DEF TypeOK, PlaceOK, InWait, NoInterruptedSleeper,
     NoStrandedContender, EnterFat, Section, TryLockLocked, Acquirable
<1>8. WaitSetOK'
  BY <1>1, ListKept DEF TypeOK, InWait, EnterFat, Section, TryLockLocked, Acquirable
<1>9. QED  BY <1>3, <1>4, <1>5, <1>6, <1>7, <1>8 DEF IInv

\* Wait keeps the invariant: the call has not looked at the lock yet.
LEMMA WaitKeeps == ASSUME IInv, NEW t \in Threads, Wait(t) PROVE IInv'
<1>1. TypeOK /\ MonitorOK /\ WaitSetOK /\ \A u \in Threads : PlaceOK(u)
  BY DEF IInv
<1>2. HoldsExact /\ NoInterruptedSleeper /\ NoStrandedContender
  BY DEF IInv
<1>3. TypeOK'
  BY <1>1, <1>2, MonitorAssumption DEF TypeOK, PCs, HoldsExact, OwnsThin, OwnsFat, Wait
<1>4. MonitorOK'
  BY <1>1, MonitorAssumption DEF TypeOK, MonitorOK, PlaceOK, InWait, OwnsThin, OwnsFat, Wait
<1>5. \A u \in Threads : PlaceOK(u)'
  BY <1>1, <1>2, MonitorAssumption DEF TypeOK, MonitorOK, PlaceOK, InWait, HoldsExact,
     OwnsThin, OwnsFat, Wait
<1>6. HoldsExact'
  BY <1>1, <1>2, MonitorAssumption DEF TypeOK, MonitorOK, PlaceOK, InWait, HoldsExact,
     OwnsThin, OwnsFat, Wait
<1>7. NoInterruptedSleeper' /\ NoStrandedContender'
  BY <1>1, <1>2, MonitorAssumption DEF TypeOK, PlaceOK, InWait, NoInterruptedSleeper,
     NoStrandedContender, Wait
<1>8. WaitSetOK'
  BY <1>1, ListKept DEF TypeOK, InWait, Wait
<1>9. QED  BY <1>3, <1>4, <1>5, <1>6, <1>7, <1>8 DEF IInv

\* WaitFails keeps the invariant: only the thread moves.
LEMMA WaitFailsKeeps == ASSUME IInv, NEW t \in Threads, WaitFails(t) PROVE IInv'
<1>1. TypeOK /\ MonitorOK /\ WaitSetOK /\ \A u \in Threads : PlaceOK(u)
  BY DEF IInv
<1>2. HoldsExact /\ NoInterruptedSleeper /\ NoStrandedContender
  BY DEF IInv
<1>3. TypeOK'
  BY <1>1, <1>2, MonitorAssumption DEF TypeOK, PCs, HoldsExact, OwnsThin, OwnsFat, WaitFails
<1>4. MonitorOK'
  BY <1>1, MonitorAssumption DEF TypeOK, MonitorOK, PlaceOK, InWait, OwnsThin, OwnsFat,
     WaitFails
<1>5. \A u \in Threads : PlaceOK(u)'
  BY <1>1, <1>2, MonitorAssumption DEF TypeOK, MonitorOK, PlaceOK, InWait, HoldsExact,
     OwnsThin, OwnsFat, WaitFails
<1>6. HoldsExact'
  BY <1>1, <1>2, MonitorAssumption DEF TypeOK, MonitorOK, PlaceOK, InWait, HoldsExact,
     OwnsThin, OwnsFat, WaitFails
<1>7. NoInterruptedSleeper' /\ NoStrandedContender'
  BY <1>1, <1>2, MonitorAssumption DEF TypeOK, PlaceOK, InWait, NoInterruptedSleeper,
     NoStrandedContender, WaitFails
<1>8. WaitSetOK'
  BY <1>1, ListKept DEF TypeOK, InWait, WaitFails
<1>9. QED  BY <1>3, <1>4, <1>5, <1>6, <1>7, <1>8 DEF IInv

\* WaitInflate keeps the invariant: inflation takes over owner and count.
LEMMA WaitInflateKeeps == ASSUME IInv, NEW t \in Threads, WaitInflate(t) PROVE IInv'
<1>1. TypeOK /\ MonitorOK /\ WaitSetOK /\ \A u \in Threads : PlaceOK(u)
  BY DEF IInv
<1>2. HoldsExact /\ NoInterruptedSleeper /\ NoStrandedContender
  BY DEF IInv
<1>3. TypeOK'
  BY <1>1, <1>2, MonitorAssumption DEF TypeOK, PCs, HoldsExact, OwnsThin, OwnsFat,
     WaitInflate, Inflate, Install
<1>4. MonitorOK'
  BY <1>1, MonitorAssumption DEF TypeOK, MonitorOK, PlaceOK, InWait, OwnsThin, OwnsFat,
     WaitInflate, Inflate, Install
<1>5. \A u \in Threads : PlaceOK(u)'
  BY <1>1, <1>2, MonitorAssumption DEF TypeOK, MonitorOK, PlaceOK, InWait, HoldsExact,
     OwnsThin, OwnsFat, WaitInflate, Inflate, Install
<1>6. HoldsExact'
  BY <1>1, <1>2, MonitorAssumption DEF TypeOK, MonitorOK, PlaceOK, InWait, HoldsExact,
     OwnsThin, OwnsFat, WaitInflate, Inflate, Install
<1>7. NoInterruptedSleeper' /\ NoStrandedContender'
  BY <1>1, <1>2, MonitorAssumption DEF TypeOK, PlaceOK, InWait, NoInterruptedSleeper,
     NoStrandedContender, WaitInflate, Inflate, Install
<1>8. WaitSetOK'
  <2>1. mWaitSet' = mWaitSet
    BY <1>1, EmptyUntilFat DEF WaitInflate, OwnsThin, Inflate, Install
  <2>2. QED  BY <1>1, <2>1, ListKept DEF TypeOK, InWait, WaitInflate, Inflate, Install
<1>9. QED  BY <1>3, <1>4, <1>5, <1>6, <1>7, <1>8 DEF IInv

\* Elapse keeps the invariant: a sleeper goes on inside Wait.
LEMMA ElapseKeeps == ASSUME IInv, NEW t \in Threads, Elapse(t) PROVE IInv'
<1>1. TypeOK /\ MonitorOK /\ WaitSetOK /\ \A u \in Threads : PlaceOK(u)
  BY DEF IInv
<1>2. HoldsExact /\ NoInterruptedSleeper /\ NoStrandedContender
  BY DEF IInv
<1>3. TypeOK'
  BY <1>1, <1>2, MonitorAssumption DEF TypeOK, PCs, HoldsExact, OwnsThin, OwnsFat, Elapse
<1>4. MonitorOK'
  BY <1>1, MonitorAssumption DEF TypeOK, MonitorOK, PlaceOK, InWait, OwnsThin, OwnsFat, Elapse
<1>5. \A u \in Threads : PlaceOK(u)'
  BY <1>1, <1>2, MonitorAssumption DEF TypeOK, MonitorOK, PlaceOK, InWait, HoldsExact,
     OwnsThin, OwnsFat, Elapse
<1>6. HoldsExact'
  BY <1>1, <1>2, MonitorAssumption DEF TypeOK, MonitorOK, PlaceOK, InWait, HoldsExact,
     OwnsThin, OwnsFat, Elapse
<1>7. NoInterruptedSleeper' /\ NoStrandedContender'
  BY <1>1, <1>2, MonitorAssumption DEF TypeOK, PlaceOK, InWait, NoInterruptedSleeper,
     NoStrandedContender, Elapse
<1>8. WaitSetOK'
  BY <1>1, ListKept DEF TypeOK, InWait, Elapse
<1>9. QED  BY <1>3, <1>4, <1>5, <1>6, <1>7, <1>8 DEF IInv

\* ReadInterrupted keeps the invariant: the thread stays marked as waiting.
LEMMA ReadInterruptedKeeps == ASSUME IInv, NEW t \in Threads, ReadInterrupted(t) PROVE IInv'
<1>1. TypeOK /\ MonitorOK /\ WaitSetOK /\ \A u \in Threads : PlaceOK(u)
  BY DEF IInv
<1>2. HoldsExact /\ NoInterruptedSleeper /\ NoStrandedContender
  BY DEF IInv
<1>3. TypeOK'
  BY <1>1, <1>2, MonitorAssumption DEF TypeOK, PCs, HoldsExact, OwnsThin, OwnsFat,
     ReadInterrupted
<1>4. MonitorOK'
  BY <1>1, MonitorAssumption DEF TypeOK, MonitorOK, PlaceOK, InWait, OwnsThin, OwnsFat,
     ReadInterrupted
<1>5. \A u \in Threads : PlaceOK(u)'
  BY <1>1, <1>2, MonitorAssumption DEF TypeOK, MonitorOK, PlaceOK, InWait, HoldsExact,
     OwnsThin, OwnsFat, ReadInterrupted
<1>6. HoldsExact'
  BY <1>1, <1>2, MonitorAssumption DEF TypeOK, MonitorOK, PlaceOK, InWait, HoldsExact,
     OwnsThin, OwnsFat, ReadInterrupted
<1>7. NoInterruptedSleeper' /\ NoStrandedContender'
  BY <1>1, <1>2, MonitorAssumption DEF TypeOK, PlaceOK, InWait, NoInterruptedSleeper,
     NoStrandedContender, ReadInterrupted
<1>8. WaitSetOK'
  BY <1>1, ListKept DEF TypeOK, InWait, ReadInterrupted
<1>9. QED  BY <1>3, <1>4, <1>5, <1>6, <1>7, <1>8 DEF IInv

\* ClearWaitMonitor keeps the invariant: the thread no longer sleeps.
LEMMA ClearWaitMonitorKeeps == ASSUME IInv, NEW t \in Threads, ClearWaitMonitor(t) PROVE IInv'
<1>1. TypeOK /\ MonitorOK /\ WaitSetOK /\ \A u \in Threads : PlaceOK(u)
  BY DEF IInv
<1>2. HoldsExact /\ NoInterruptedSleeper /\ NoStrandedContender
  BY DEF IInv
<1>3. TypeOK'
  BY <1>1, <1>2, MonitorAssumption DEF TypeOK, PCs, HoldsExact, OwnsThin, OwnsFat,
     ClearWaitMonitor
<1>4. MonitorOK'
  BY <1>1, MonitorAssumption DEF TypeOK, MonitorOK, PlaceOK, InWait, OwnsThin, OwnsFat,
     ClearWaitMonitor
<1>5. \A u \in Threads : PlaceOK(u)'
  BY <1>1, <1>2, MonitorAssumption DEF TypeOK, MonitorOK, PlaceOK, InWait, HoldsExact,
     OwnsThin, OwnsFat, ClearWaitMonitor
<1>6. HoldsExact'
  BY <1>1, <1>2, MonitorAssumption DEF TypeOK, MonitorOK, PlaceOK, InWait, HoldsExact,
     OwnsThin, OwnsFat, ClearWaitMonitor
<1>7. NoInterruptedSleeper' /\ NoStrandedContender'
  BY <1>1, <1>2, MonitorAssumption DEF TypeOK, PlaceOK, InWait, NoInterruptedSleeper,
     NoStrandedContender, ClearWaitMonitor
<1>8. WaitSetOK'
  BY <1>1, ListKept DEF TypeOK, InWait, ClearWaitMonitor
<1>9. QED  BY <1>3, <1>4, <1>5, <1>6, <1>7, <1>8 DEF IInv

\* ClearInterrupted keeps the invariant: the thread stays inside Wait.
LEMMA ClearInterruptedKeeps == ASSUME IInv, NEW t \in Threads, ClearInterrupted(t) PROVE IInv'
<1>1. TypeOK /\ MonitorOK /\ WaitSetOK /\ \A u \in Threads : PlaceOK(u)
  BY DEF IInv
<1>2. HoldsExact /\ NoInterruptedSleeper /\ NoStrandedContender
  BY DEF IInv
<1>3. TypeOK'
  BY <1>1, <1>2, MonitorAssumption DEF TypeOK, PCs, HoldsExact, OwnsThin, OwnsFat,
     ClearInterrupted
<1>4. MonitorOK'
  BY <1>1, MonitorAssumption DEF TypeOK, MonitorOK, PlaceOK, InWait, OwnsThin, OwnsFat,
     ClearInterrupted
<1>5. \A u \in Threads : PlaceOK(u)'
  BY <1>1, <1>2, MonitorAssumption DEF TypeOK, MonitorOK, PlaceOK, InWait, HoldsExact,
     OwnsThin, OwnsFat, ClearInterrupted
<1>6. HoldsExact'
  BY <1>1, <1>2, MonitorAssumption DEF TypeOK, MonitorOK, PlaceOK, InWait, HoldsExact,
     OwnsThin, OwnsFat, ClearInterrupted
<1>7. NoInterruptedSleeper' /\ NoStrandedContender'
  BY <1>1, <1>2, MonitorAssumption DEF TypeOK, PlaceOK, InWait, NoInterruptedSleeper,
     NoStrandedContender, ClearInterrupted
<1>8. WaitSetOK'
  BY <1>1, ListKept DEF TypeOK, InWait, ClearInterrupted
<1>9. QED  BY <1>3, <1>4, <1>5, <1>6, <1>7, <1>8 DEF IInv

\* Relock keeps the invariant: a thread inside Wait does not own the monitor yet.
LEMMA RelockKeeps == ASSUME IInv, NEW t \in Threads, Relock(t) PROVE IInv'
<1>1. TypeOK /\ MonitorOK /\ WaitSetOK /\ \A u \in Threads : PlaceOK(u)
  BY DEF IInv
<1>2. HoldsExact /\ NoInterruptedSleeper /\ NoStrandedContender
  BY DEF IInv
<1>3. TypeOK'
  BY <1>1, <1>2, MonitorAssumption DEF TypeOK, PCs, HoldsExact, OwnsThin, OwnsFat, Relock,
     TryLockLocked, Acquirable
<1>4. MonitorOK'
  BY <1>1, MonitorAssumption DEF TypeOK, MonitorOK, PlaceOK, InWait, OwnsThin, OwnsFat,
     Relock, TryLockLocked, Acquirable
<1>5. \A u \in Threads : PlaceOK(u)'
  BY <1>1, <1>2, MonitorAssumption DEF TypeOK, MonitorOK, PlaceOK, InWait, HoldsExact,
     OwnsThin, OwnsFat, Relock, TryLockLocked, Acquirable
<1>6. HoldsExact'
  BY <1>1, <1>2, MonitorAssumption DEF TypeOK, MonitorOK, PlaceOK, InWait, HoldsExact,
     OwnsThin, OwnsFat, Relock, TryLockLocked, Acquirable
<1>7. NoInterruptedSleeper' /\ NoStrandedContender'
  BY <1>1, <1>2, MonitorAssumption DEF TypeOK, PlaceOK, InWait, NoInterruptedSleeper,
     NoStrandedContender, Relock, TryLockLocked, Acquirable
<1>8. WaitSetOK'
  BY <1>1, ListKept DEF TypeOK, InWait, Relock, TryLockLocked, Acquirable
<1>9. QED  BY <1>3, <1>4, <1>5, <1>6, <1>7, <1>8 DEF IInv

\* Contend keeps the invariant: a thread goes to sleep only behind an owner.
LEMMA ContendKeeps == ASSUME IInv, NEW t \in Threads, Contend(t) PROVE IInv'
<1>1. TypeOK /\ MonitorOK /\ WaitSetOK /\ \A u \in Threads : PlaceOK(u)
  BY DEF IInv
<1>2. HoldsExact /\ NoInterruptedSleeper /\ NoStrandedContender
  BY DEF IInv
<1>3. TypeOK'
  BY <1>1, <1>2, MonitorAssumption DEF TypeOK, PCs, HoldsExact, OwnsThin, OwnsFat, Contend
<1>4. MonitorOK'
  BY <1>1, MonitorAssumption DEF TypeOK, MonitorOK, PlaceOK, InWait, OwnsThin, OwnsFat, Contend
<1>5. \A u \in Threads : PlaceOK(u)'
  BY <1>1, <1>2, MonitorAssumption DEF TypeOK, MonitorOK, PlaceOK, InWait, HoldsExact,
     OwnsThin, OwnsFat, Contend
<1>6. HoldsExact'
  BY <1>1, <1>2, MonitorAssumption DEF TypeOK, MonitorOK, PlaceOK, InWait, HoldsExact,
     OwnsThin, OwnsFat, Contend
<1>7. NoInterruptedSleeper' /\ NoStrandedContender'
  BY <1>1, <1>2, MonitorAssumption DEF TypeOK, PlaceOK, InWait, NoInterruptedSleeper,
     NoStrandedContender, Contend
<1>8. WaitSetOK'
  BY <1>1, ListKept DEF TypeOK, InWait, Contend
<1>9. QED  BY <1>3, <1>4, <1>5, <1>6, <1>7, <1>8 DEF IInv

\* Interrupted keeps the invariant: an interrupt is withdrawn.
LEMMA InterruptedKeeps == ASSUME IInv, NEW t \in Threads, Interrupted(t) PROVE IInv'
<1>1. TypeOK /\ MonitorOK /\ WaitSetOK /\ \A u \in Threads : PlaceOK(u)
  BY DEF IInv
<1>2. HoldsExact /\ NoInterruptedSleeper /\ NoStrandedContender
  BY DEF IInv
<1>3. TypeOK'
  BY <1>1, <1>2, MonitorAssumption DEF TypeOK, PCs, HoldsExact, OwnsThin, OwnsFat, Interrupted
<1>4. MonitorOK'
  BY <1>1, MonitorAssumption DEF TypeOK, MonitorOK, PlaceOK, InWait, OwnsThin, OwnsFat,
     Interrupted
<1>5. \A u \in Threads : PlaceOK(u)'
  BY <1>1, <1>2, MonitorAssumption DEF TypeOK, MonitorOK, PlaceOK, InWait, HoldsExact,
     OwnsThin, OwnsFat, Interrupted
<1>6. HoldsExact'
  BY <1>1, <1>2, MonitorAssumption DEF TypeOK, MonitorOK, PlaceOK, InWait, HoldsExact,
     OwnsThin, OwnsFat, Interrupted
<1>7. NoInterruptedSleeper' /\ NoStrandedContender'
  BY <1>1, <1>2, MonitorAssumption DEF TypeOK, PlaceOK, InWait, NoInterruptedSleeper,
     NoStrandedContender, Interrupted
<1>8. WaitSetOK'
  BY <1>1, ListKept DEF TypeOK, InWait, Interrupted
<1>9. QED  BY <1>3, <1>4, <1>5, <1>6, <1>7, <1>8 DEF IInv

\* Unlock keeps the invariant: only the owner counts down, and a contender wakes
\* when the monitor becomes free.
LEMMA UnlockKeeps == ASSUME IInv, NEW t \in Threads, Unlock(t) PROVE IInv'
<1>1. TypeOK /\ MonitorOK /\ WaitSetOK /\ \A u \in Threads : PlaceOK(u)
  BY DEF IInv
<1>2. HoldsExact /\ NoInterruptedSleeper /\ NoStrandedContender
  BY DEF IInv
<1>3. /\ pc' \in [Threads -> PCs]
      /\ \A u \in Threads : pc'[u] = pc[u] \/ (pc[u] = "contending" /\ pc'[u] = "relock")
      /\ \/ mOwner' = mOwner /\ pc' = pc
         \/ /\ mOwner' = "null"
            /\ (\E u \in Threads : pc[u] = "contending") => \E u \in Threads : pc'[u] = "relock"
  <2>1. CASE OwnsFat(t) /\ ExitFat(t) /\ mLockCount = 0
    BY <1>1, <2>1, SignalMoves DEF TypeOK, ExitFat
  <2>2. CASE ~(OwnsFat(t) /\ ExitFat(t) /\ mLockCount = 0)
    <3>1. mOwner' = mOwner /\ pc' = pc
      BY <2>2 DEF Unlock, ExitThin, ExitFat
    <3>2. QED  BY <1>1, <3>1 DEF TypeOK
  <2>3. QED  BY <2>1, <2>2
<1>4. held[t] \in Nat /\ (OwnsThin(t) \/ OwnsFat(t) => held[t] - 1 \in Nat)
  BY <1>1, <1>2 DEF Unlock, TypeOK, HoldsExact
<1>5. TypeOK'
  <2>1. word' \in [state : {"unlocked", "thin", "fat"}, owner : Threads \cup {"null"}, count : Nat]
    BY <1>1 DEF TypeOK, Unlock, ExitThin, ExitFat
  <2>2. mOwner' \in Threads \cup {"null"} /\ mLockCount' \in Nat /\ mWaitSet' = mWaitSet
    BY <1>1 DEF TypeOK, Unlock, ExitThin, ExitFat
  <2>3. depth' \in [Threads -> Nat] /\ held' \in [Threads -> Nat]
    BY <1>1, <1>4 DEF TypeOK, Unlock, Leave
  <2>4. QED  BY <1>1, <1>3, <2>1, <2>2, <2>3 DEF TypeOK, Unlock
<1>6. MonitorOK'
  BY <1>1, MonitorAssumption DEF TypeOK, MonitorOK, OwnsThin, OwnsFat, Unlock, ExitThin, ExitFat
<1>7. \A u \in Threads : PlaceOK(u)'
  BY <1>1, <1>3, MonitorAssumption DEF TypeOK, MonitorOK, PlaceOK, InWait, OwnsThin, OwnsFat,
     Unlock, ExitThin, ExitFat, Leave
<1>8. HoldsExact'
  <2>1. /\ OwnsThin(t) => held[t] = word.count + 1 /\ word.state # "fat"
        /\ OwnsFat(t) => held[t] = mLockCount + 1
    BY <1>1, <1>2 DEF HoldsExact, Unlock, OwnsThin, OwnsFat
  <2>2. \A u \in Threads : held'[u] = IF u = t /\ (OwnsThin(t) \/ OwnsFat(t)) THEN held[u] - 1 ELSE held[u]
    BY <1>1 DEF TypeOK, Unlock, Leave
  <2>3. CASE OwnsThin(t)
    BY <1>1, <1>2, <1>3, <2>1, <2>2, <2>3, MonitorAssumption DEF TypeOK, MonitorOK, PlaceOK,
       InWait, HoldsExact, OwnsThin, OwnsFat, Unlock, ExitThin
  <2>4. CASE OwnsFat(t)
    BY <1>1, <1>2, <1>3, <2>1, <2>2, <2>4, MonitorAssumption DEF TypeOK, MonitorOK, PlaceOK,
       InWait, HoldsExact, OwnsThin, OwnsFat, Unlock, ExitFat
  <2>5. CASE ~OwnsThin(t) /\ ~OwnsFat(t)
    <3>1. word' = word /\ pc' = pc /\ mOwner' = mOwner /\ mLockCount' = mLockCount /\ held' = held
      BY <1>1, <2>5 DEF Unlock, Leave, TypeOK
    <3>2. QED  BY <3>1, <1>2 DEF HoldsExact, OwnsThin, OwnsFat, InWait, Unlock
  <2>6. QED  BY <2>3, <2>4, <2>5
<1>9. NoInterruptedSleeper' /\ NoStrandedContender'
  BY <1>1, <1>2, <1>3, MonitorAssumption DEF TypeOK, NoInterruptedSleeper,
     NoStrandedContender, Unlock
<1>10. WaitSetOK'
  BY <1>1, <1>3, ListKept DEF TypeOK, InWait, Unlock, ExitThin, ExitFat
<1>11. QED  BY <1>5, <1>6, <1>7, <1>8, <1>9, <1>10 DEF IInv

\* WaitRelease keeps the invariant: the count is saved, the thread joins the list,
\* sleeps only without an interrupt, and a contender wakes.
LEMMA WaitReleaseKeeps == ASSUME IInv, NEW t \in Threads, WaitRelease(t) PROVE IInv'
<1> DEFINE after == [pc EXCEPT ![t] = IF mInterrupted[t] THEN "clear" ELSE "sleeping"]
<1>1. TypeOK /\ MonitorOK /\ WaitSetOK /\ \A u \in Threads : PlaceOK(u)
  BY DEF IInv
<1>2. HoldsExact /\ NoInterruptedSleeper /\ NoStrandedContender
  BY DEF IInv
<1>3. after \in [Threads -> PCs] /\ SignalContender(after)
  BY <1>1 DEF TypeOK, PCs, WaitRelease
<1>4. /\ pc' \in [Threads -> PCs]
      /\ pc[t] = "wait" /\ pc'[t] = IF mInterrupted[t] THEN "clear" ELSE "sleeping"
      /\ \A u \in Threads \ {t} : pc'[u] = pc[u] \/ (pc[u] = "contending" /\ pc'[u] = "relock")
      /\ (\E u \in Threads : pc'[u] = "contending") => \E u \in Threads : pc'[u] = "relock"
  <2> HIDE DEF after
  <2>1. pc[t] = "wait" /\ after[t] = (IF mInterrupted[t] THEN "clear" ELSE "sleeping")
        /\ \A u \in Threads \ {t} : after[u] = pc[u]
    BY <1>1 DEF TypeOK, WaitRelease, after
  <2>2. QED  BY <1>3, <2>1, SignalMoves
<1>5. PICK s \in Seq(Threads) : Queued(s)
  BY <1>1 DEF WaitSetOK
<1>6. \A i \in 1..Len(s) : s[i] \in Threads /\ s[i] # t
  BY <1>4, <1>5 DEF Queued, InWait
<1>7. LinkedBy(Append(s, t))'
  BY <1>1, <1>5, <1>6, Appended DEF Queued, WaitRelease
<1>8. TypeOK'
  <2>1. mWaitSet' \in Threads \cup {"null"} /\ mWaitNext' \in [Threads -> Threads \cup {"null"}]
    BY <1>1 DEF TypeOK, WaitRelease, AppendToWaitSet
  <2>2. QED  BY <1>1, <1>4, <2>1 DEF TypeOK, WaitRelease
<1>9. MonitorOK'
  BY <1>1 DEF TypeOK, MonitorOK, WaitRelease
<1>10. \A u \in Threads : PlaceOK(u)'
  BY <1>1, <1>4, MonitorAssumption DEF TypeOK, MonitorOK, PlaceOK, InWait, OwnsFat, WaitRelease
<1>11. HoldsExact'
  <2>1. held[t] = mLockCount + 1 /\ word.state = "fat" /\ mOwner = t /\ held' = held
    BY <1>1, <1>2, <1>4 DEF HoldsExact, WaitRelease, OwnsFat, OwnsThin
  <2>2. /\ word' = word /\ mOwner' = "null" /\ prevLockCount'[t] = mLockCount
        /\ \A u \in Threads \ {t} : prevLockCount'[u] = prevLockCount[u]
    BY <1>1 DEF TypeOK, WaitRelease
  <2>3. ASSUME NEW u \in Threads, pc'[u] # "relocked"
        PROVE  held[u] = IF InWait(u)' THEN prevLockCount'[u] + 1 ELSE 0
    <3>1. CASE u = t
      BY <1>4, <2>1, <2>2, <3>1 DEF InWait
    <3>2. CASE u # t
      BY <1>2, <1>4, <2>1, <2>2, <2>3, <3>2 DEF HoldsExact, InWait, OwnsFat, OwnsThin
    <3>3. QED  BY <3>1, <3>2
  <2>4. QED  BY <2>1, <2>2, <2>3, MonitorAssumption DEF HoldsExact, OwnsFat, OwnsThin
<1>12. NoInterruptedSleeper' /\ NoStrandedContender'
  <2>1. mInterrupted' = mInterrupted
    BY DEF WaitRelease
  <2>2. NoInterruptedSleeper'
    BY <1>2, <1>4, <2>1 DEF NoInterruptedSleeper
  <2>3. QED  BY <1>4, <2>2 DEF NoStrandedContender
<1>13. WaitSetOK'
  <2> DEFINE r == Append(s, t)
  <2>1. r \in Seq(Threads) /\ Len(r) = Len(s) + 1 /\ Len(s) \in Nat /\ r[Len(s) + 1] = t
        /\ \A i \in 1..Len(s) : r[i] = s[i]
    OBVIOUS
  <2> HIDE DEF r
  <2>2. \A i \in 1..Len(r) : i = Len(s) + 1 \/ i \in 1..Len(s)
    BY <2>1
  <2>3. \A i \in 1..Len(r) : (InWait(r[i]) \/ pc[r[i]] = "relocked")'
    BY <1>4, <1>5, <1>6, <2>1, <2>2 DEF InWait, Queued
  <2>4. ASSUME NEW u \in Threads, pc'[u] = "sleeping" PROVE \E i \in 1..Len(r) : r[i] = u
    <3>1. CASE u = t
      BY <3>1, <2>1
    <3>2. CASE u # t
      <4>1. PICK i \in 1..Len(s) : s[i] = u
        BY <1>4, <1>5, <2>4, <3>2 DEF Queued
      <4>2. i \in 1..Len(r) /\ r[i] = u
        BY <4>1, <2>1
      <4>3. QED  BY <4>2
    <3>3. QED  BY <3>1, <3>2
  <2>5. Queued(r)'
    BY <1>7, <2>3, <2>4 DEF Queued, r
  <2>6. QED  BY <2>1, <2>5 DEF WaitSetOK
<1>14. QED  BY <1>8, <1>9, <1>10, <1>11, <1>12, <1>13 DEF IInv

\* Restore keeps the invariant: the saved count comes back and the thread, found
\* by Notify or not, is off the list.
LEMMA RestoreKeeps == ASSUME IInv, NEW t \in Threads, Restore(t) PROVE IInv'
<1>1. TypeOK /\ MonitorOK /\ WaitSetOK /\ \A u \in Threads : PlaceOK(u)
  BY DEF IInv
<1>2. HoldsExact /\ NoInterruptedSleeper /\ NoStrandedContender
  BY DEF IInv
<1>3. TypeOK'
  <2>1. mWaitSet' \in Threads \cup {"null"} /\ mWaitNext' \in [Threads -> Threads \cup {"null"}]
    <3>1. mWaitNext[t] \in Threads \cup {"null"}
      BY <1>1 DEF TypeOK
    <3>2. ASSUME NEW p
          PROVE  [mWaitNext EXCEPT ![p] = mWaitNext[t], ![t] = "null"] \in [Threads -> Threads \cup {"null"}]
      BY <1>1, <3>1 DEF TypeOK
    <3>3. /\ mWaitSet' \in {mWaitSet, mWaitNext[t]}
          /\ \/ mWaitNext' \in {mWaitNext, [mWaitNext EXCEPT ![t] = "null"]}
             \/ \E p : mWaitNext' = [mWaitNext EXCEPT ![p] = mWaitNext[t], ![t] = "null"]
      BY DEF Restore, RemoveFromWaitSet
    <3>4. QED  BY <1>1, <3>1, <3>2, <3>3 DEF TypeOK
  <2>2. QED  BY <1>1, <2>1 DEF TypeOK, PCs, Restore
<1>4. MonitorOK'
  BY <1>1, MonitorAssumption DEF TypeOK, MonitorOK, PlaceOK, Restore
<1>5. \A u \in Threads : PlaceOK(u)'
  BY <1>1 DEF TypeOK, PlaceOK, InWait, Restore
<1>6. HoldsExact'
  BY <1>1, <1>2 DEF TypeOK, PlaceOK, InWait, HoldsExact, OwnsThin, OwnsFat, Restore
<1>7. NoInterruptedSleeper' /\ NoStrandedContender'
  BY <1>1, <1>2, MonitorAssumption DEF TypeOK, NoInterruptedSleeper, NoStrandedContender,
     Restore
<1>8. WaitSetOK'
  <2>1. PICK s \in Seq(Threads) : Queued(s)
    BY <1>1 DEF WaitSetOK
  <2>2. PICK r \in Seq(Threads) : /\ LinkedBy(r)'
                                 /\ {r[i] : i \in 1..Len(r)} = {s[i] : i \in 1..Len(s)} \ {t}
    BY <1>1, <2>1, Removed DEF Queued, Restore
  <2>3. pc[t] = "relocked" /\ pc'[t] = "run" /\ \A u \in Threads \ {t} : pc'[u] = pc[u]
    BY <1>1 DEF TypeOK, Restore
  <2>4. ASSUME NEW i \in 1..Len(r) PROVE (InWait(r[i]) \/ pc[r[i]] = "relocked")'
    <3>1. r[i] \in Threads \ {t} /\ \E j \in 1..Len(s) : s[j] = r[i]
      <4>1. r[i] \in {s[j] : j \in 1..Len(s)} \ {t}
        BY <2>2
      <4>2. QED  BY <4>1
    <3>2. QED  BY <2>1, <2>3, <3>1 DEF Queued, InWait
  <2>5. ASSUME NEW u \in Threads, pc'[u] = "sleeping" PROVE \E i \in 1..Len(r) : r[i] = u
    <3>1. u # t /\ \E j \in 1..Len(s) : s[j] = u
      BY <2>1, <2>3, <2>5 DEF Queued
    <3>2. QED  BY <2>2, <3>1
  <2>6. Queued(r)'
    BY <2>2, <2>4, <2>5 DEF Queued
  <2>7. QED  BY <2>6 DEF WaitSetOK
<1>9. QED  BY <1>3, <1>4, <1>5, <1>6, <1>7, <1>8 DEF IInv

\* Notify takes at most the whole list off.
LEMMA NotifyCountInList ==
  ASSUME NEW s \in Seq(Threads), LinkedBy(s)
  PROVE  NotifyCount \in 0..Len(s)
<1> DEFINE S == {i \in DOMAIN WaitList : mWaitMonitor[WaitList[i]]}
<1>1. WaitList = s
  BY WaitListIs
<1>2. Len(s) \in Nat /\ DOMAIN WaitList = 1..Len(s)
  BY <1>1
<1>3. S \in SUBSET Nat /\ S \subseteq 1..Len(s)
  BY <1>2
<1> HIDE DEF S
<1>4. S # {} => (CHOOSE i \in S : \A j \in S : i <= j) \in S
  BY <1>3, LeastNat
<1>5. NotifyCount = IF S = {} THEN Len(WaitList) ELSE CHOOSE i \in S : \A j \in S : i <= j
  BY DEF NotifyCount, S
<1>6. CASE S = {}
  BY <1>1, <1>2, <1>5, <1>6
<1>7. CASE S # {}
  <2>1. NotifyCount \in S
    BY <1>4, <1>5, <1>7
  <2>2. QED  BY <1>2, <1>3, <2>1
<1>8. QED  BY <1>6, <1>7

\* Taking threads off the wait set keeps the invariant, for any number of them:
\* all that slept are marked as waiting and so are signalled.
LEMMA TakeOffKeeps ==
  ASSUME IInv, NEW s \in Seq(Threads), Queued(s), NEW m \in 0..Len(s), TakeOff(m),
         UNCHANGED <<word, mOwner, mLockCount, mWaitMonitor, mInterrupted, depth, prevLockCount, wasInterrupted, held, calls, interrupts>>
  PROVE  IInv'
<1> DEFINE r == [i \in 1..(Len(s) - m) |-> s[i + m]]
           off == {u \in {s[i] : i \in 1..m} : mWaitMonitor[u]}
<1>1. TypeOK /\ MonitorOK /\ WaitSetOK /\ \A u \in Threads : PlaceOK(u)
  BY DEF IInv
<1>2. HoldsExact /\ NoInterruptedSleeper /\ NoStrandedContender
  BY DEF IInv
<1>3. r \in Seq(Threads) /\ Len(r) = Len(s) - m /\ LinkedBy(r)' /\ pc' = Wake(off)
  BY <1>1, TakenOff DEF Queued
<1>4. /\ Len(s) \in Nat /\ m \in Nat /\ m <= Len(s)
      /\ \A i \in 1..Len(s) : s[i] \in Threads
      /\ \A i \in 1..(Len(s) - m) : i + m \in 1..Len(s) /\ r[i] = s[i + m]
  OBVIOUS
<1> HIDE DEF r, off
<1>5. /\ pc' \in [Threads -> PCs]
      /\ \A u \in Threads : pc'[u] = pc[u] \/ (pc[u] = "sleeping" /\ pc'[u] = "woken")
      /\ \A u \in off \cap Threads : pc'[u] # "sleeping"
  BY <1>1, <1>3, WakeMoves
<1>6. TypeOK'
  <2>1. mWaitNext' \in [Threads -> Threads \cup {"null"}]
    BY <1>1 DEF TypeOK, TakeOff
  <2>2. mWaitSet' \in Threads \cup {"null"}
    <3>1. mWaitSet' = IF Len(r) = 0 THEN "null" ELSE r[1]
      BY <1>3 DEF LinkedBy
    <3>2. Len(r) \in Nat /\ (Len(r) # 0 => r[1] \in Threads)
      BY <1>3
    <3>3. QED  BY <3>1, <3>2
  <2>3. QED  BY <1>1, <1>5, <2>1, <2>2 DEF TypeOK
<1>7. MonitorOK' /\ (\A u \in Threads : PlaceOK(u)') /\ HoldsExact'
  BY <1>1, <1>2, <1>5 DEF MonitorOK, PlaceOK, HoldsExact, InWait, OwnsThin, OwnsFat
<1>8. NoInterruptedSleeper' /\ NoStrandedContender'
  BY <1>1, <1>2, <1>5 DEF NoInterruptedSleeper, NoStrandedContender
<1>9. \A i \in 1..Len(r) : (InWait(r[i]) \/ pc[r[i]] = "relocked")'
  BY <1>3, <1>4, <1>5 DEF Queued, InWait
<1>10. ASSUME NEW u \in Threads, pc'[u] = "sleeping" PROVE \E i \in 1..Len(r) : r[i] = u
  <2>1. PICK j \in 1..Len(s) : s[j] = u
    BY <1>5, <1>10 DEF Queued
  <2>2. mWaitMonitor[u]
    BY <1>1, <1>5, <1>10 DEF PlaceOK
  <2>3. j > m
    BY <1>4, <1>5, <1>10, <2>1, <2>2 DEF off
  <2>4. j - m \in 1..(Len(s) - m) /\ (j - m) + m = j
    BY <1>4, <2>3
  <2>5. r[j - m] = u
    BY <1>4, <2>1, <2>4
  <2>6. QED  BY <1>3, <2>4, <2>5
<1>11. Queued(r)'
  BY <1>3, <1>9, <1>10 DEF Queued
<1>12. QED  BY <1>3, <1>6, <1>7, <1>8, <1>11 DEF IInv, WaitSetOK

\* Notify and NotifyAll keep the invariant.
LEMMA NotifyKeeps == ASSUME IInv, NEW t \in Threads, Notify(t) \/ NotifyAll(t) PROVE IInv'
<1>1. PICK s \in Seq(Threads) : Queued(s)
  BY DEF IInv, WaitSetOK
<1>2. NotifyCount \in 0..Len(s)
  BY <1>1, NotifyCountInList DEF Queued
<1>3. Len(WaitList) \in 0..Len(s)
  <2>1. WaitList = s
    BY <1>1, WaitListIs DEF Queued
  <2>2. QED  BY <2>1
<1>4. CASE Notify(t)
  BY <1>1, <1>2, <1>4, TakeOffKeeps DEF Notify
<1>5. CASE NotifyAll(t)
  BY <1>1, <1>3, <1>5, TakeOffKeeps DEF NotifyAll
<1>6. QED  BY <1>4, <1>5

\* Interrupt keeps the invariant: a thread that sleeps is marked as waiting and so
\* is signalled.
LEMMA InterruptKeeps == ASSUME IInv, NEW t \in Threads, Interrupt(t) PROVE IInv'
<1>1. TypeOK /\ MonitorOK /\ WaitSetOK /\ \A u \in Threads : PlaceOK(u)
  BY DEF IInv
<1>2. HoldsExact /\ NoInterruptedSleeper /\ NoStrandedContender
  BY DEF IInv
<1>3. /\ pc' \in [Threads -> PCs]
      /\ \A u \in Threads : pc'[u] = pc[u] \/ (pc[u] = "sleeping" /\ pc'[u] = "woken")
      /\ mWaitMonitor[t] => pc'[t] # "sleeping"
  <2>1. CASE mWaitMonitor[t]
    BY <1>1, <2>1, WakeMoves DEF Interrupt
  <2>2. CASE ~mWaitMonitor[t]
    BY <1>1, <2>2 DEF TypeOK, Interrupt
  <2>3. QED  BY <2>1, <2>2
<1>4. TypeOK'
  BY <1>1, <1>3 DEF TypeOK, Interrupt
<1>5. MonitorOK' /\ (\A u \in Threads : PlaceOK(u)') /\ HoldsExact'
  BY <1>1, <1>2, <1>3, ZenonT(60) DEF MonitorOK, PlaceOK, HoldsExact, InWait, OwnsThin, OwnsFat, Interrupt
<1>6. NoInterruptedSleeper' /\ NoStrandedContender'
  <2>1. mOwner' = mOwner /\ \A u \in Threads \ {t} : mInterrupted'[u] = mInterrupted[u]
    BY <1>1 DEF TypeOK, Interrupt
  <2>2. pc'[t] # "sleeping"
    BY <1>1, <1>3 DEF PlaceOK
  <2>3. NoInterruptedSleeper'
    BY <1>2, <1>3, <2>1, <2>2 DEF NoInterruptedSleeper
  <2>4. NoStrandedContender'
    BY <1>2, <1>3, <2>1 DEF NoStrandedContender
  <2>5. QED  BY <2>3, <2>4
<1>7. WaitSetOK'
  BY <1>1, <1>3, ListKept DEF InWait, Interrupt
<1>8. QED  BY <1>4, <1>5, <1>6, <1>7 DEF IInv

-----------------------------------------------------------------------------
\* A new object's lock word is unlocked and its wait set empty.
LEMMA InitHolds == ASSUME Init PROVE IInv
<1>1. TypeOK /\ MonitorOK /\ \A u \in Threads : PlaceOK(u)
  BY DEF Init, TypeOK, PCs, MonitorOK, PlaceOK, InWait
<1>2. HoldsExact /\ NoInterruptedSleeper /\ NoStrandedContender
  BY DEF Init, HoldsExact, NoInterruptedSleeper, NoStrandedContender, OwnsThin, OwnsFat, InWait
<1>3. Queued(<<>>)
  BY DEF Init, Queued, LinkedBy
<1>4. WaitSetOK
  <2>1. <<>> \in Seq(Threads)
    OBVIOUS
  <2>2. QED  BY <1>3, <2>1 DEF WaitSetOK
<1>5. QED  BY <1>1, <1>2, <1>4 DEF IInv

\* Every step keeps the invariant.
LEMMA NextKeeps == ASSUME IInv, [Next]_vars PROVE IInv'
<1>1. CASE UNCHANGED vars
  <2>1. TypeOK' /\ MonitorOK' /\ \A u \in Threads : PlaceOK(u)'
    BY <1>1 DEF vars, IInv, TypeOK, MonitorOK, PlaceOK, InWait
  <2>2. HoldsExact' /\ NoInterruptedSleeper' /\ NoStrandedContender'
    BY <1>1 DEF vars, IInv, HoldsExact, InWait, OwnsThin, OwnsFat, NoInterruptedSleeper,
       NoStrandedContender
  <2>3. WaitSetOK'
    BY <1>1, ListKept DEF vars, IInv, InWait
  <2>4. QED  BY <2>1, <2>2, <2>3 DEF IInv
<1>2. ASSUME NEW t \in Threads, EnterStep(t) PROVE IInv'
  BY <1>2, EnterUnlockedKeeps, EnterCasKeeps, EnterThinKeeps, EnterFatKeeps DEF EnterStep
<1>3. ASSUME NEW t \in Threads, WaitStep(t) PROVE IInv'
  BY <1>3, WaitFailsKeeps, WaitInflateKeeps, WaitReleaseKeeps, ReadInterruptedKeeps,
     ClearWaitMonitorKeeps, ClearInterruptedKeeps, RelockKeeps, ContendKeeps, RestoreKeeps DEF
     WaitStep
<1>4. CASE Next
  BY <1>2, <1>3, <1>4, LockKeeps, UnlockKeeps, WaitKeeps, ElapseKeeps, NotifyKeeps,
     InterruptKeeps, InterruptedKeeps DEF Next
<1>5. QED  BY <1>1, <1>4

\* The invariant holds in every reachable state.
THEOREM MonitorInvariant == Spec => []IInv
<1>1. Init => IInv
  BY InitHolds
<1>2. IInv /\ [Next]_vars => IInv'
  BY NextKeeps
<1>3. QED  BY <1>1, <1>2, PTL DEF Spec

\* MonitorEnter, MonitorExit, inflation and Wait keep exact count: for any number
\* of threads and any kThinLockMaxCount, the lock word or the monitor says how often
\* its owner holds it, and nobody else holds it.
THEOREM HoldsCorrect == Spec => []HoldsExact
<1>1. IInv => HoldsExact
  BY DEF IInv
<1>2. QED  BY <1>1, MonitorInvariant, PTL

\* The list through mWaitNext ends, has everyone who sleeps in Wait and nobody
\* outside it, whatever order Notify, NotifyAll and returning Waits come in.
THEOREM WaitSetCorrect == Spec => []WaitSetExact
<1>1. ASSUME IInv PROVE WaitSetExact
  <2>1. PICK s \in Seq(Threads) : Queued(s)
    BY <1>1 DEF IInv, WaitSetOK
  <2>2. LinkedBy(s)
    BY <2>1 DEF Queued
  <2>3. Waiters = {s[i] : i \in 1..Len(s)}
    BY <2>2, WaitListIs
  <2>4. Link[Cardinality(Threads) + 1] = "null"
    <3>1. Cardinality(Threads) + 1 \in 1..(Cardinality(Threads) + 1) /\ ~(Cardinality(Threads) + 1 <= Len(s))
      BY <2>2, WaitListIs
    <3>2. QED  BY <2>2, <3>1, WaitListIs
  <2>5. ASSUME NEW t \in Threads
        PROVE  /\ pc[t] = "sleeping" => t \in Waiters /\ mWaitMonitor[t]
               /\ t \in Waiters => InWait(t) \/ pc[t] = "relocked"
               /\ t \notin Waiters => mWaitNext[t] = "null"
    <3>1. pc[t] = "sleeping" => t \in Waiters /\ mWaitMonitor[t]
      BY <1>1, <2>1, <2>3 DEF IInv, PlaceOK, Queued
    <3>2. t \in Waiters => InWait(t) \/ pc[t] = "relocked"
      BY <2>1, <2>3 DEF Queued
    <3>3. t \notin Waiters => mWaitNext[t] = "null"
      BY <2>2, <2>3 DEF LinkedBy
    <3>4. QED  BY <3>1, <3>2, <3>3
  <2>6. QED  BY <2>4, <2>5 DEF WaitSetExact
<1>2. QED  BY <1>1, MonitorInvariant, PTL

\* Interrupt is never lost to a thread that goes to sleep in Wait.
THEOREM InterruptSeen == Spec => []NoInterruptedSleeper
<1>1. IInv => NoInterruptedSleeper
  BY DEF IInv
<1>2. QED  BY <1>1, MonitorInvariant, PTL

\* MonitorExit and Wait never leave a free monitor with everybody asleep on it.
THEOREM ContendersServed == Spec => []NoStrandedContender
<1>1. IInv => NoStrandedContender
  BY DEF IInv
<1>2. QED  BY <1>1, MonitorInvariant, PTL
=============================================================================
