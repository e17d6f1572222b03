---------------------------- MODULE RefBaseProofs ----------------------------
(***************************************************************************)
(* Proofs about RefBase, for every set of handles: the inductive invariant *)
(* IInv, the safety properties that follow from it, and the refinement of  *)
(* ObjectLifetime.                                                         *)
(***************************************************************************)
EXTENDS RefBase, FiniteSetTheorems, TLAPS

\* A step of RefBase is a step of ObjectLifetime, or leaves it alone.
LifetimeStep == [Lifetime!Next]_(Lifetime!absVars)

\* A step that leaves the holders, the object and the mode alone stutters.
LEMMA Unmoved ==
  ASSUME StrongSet' = StrongSet, UNCHANGED <<base, everStrong, mFlags>>
  PROVE  LifetimeStep
  BY DEF LifetimeStep, Lifetime!absVars, object

\* A step of handle h to point l moves h into or out of the counted sets.
LEMMA GotoSets ==
  ASSUME TypeOK, NEW h \in Handles, NEW l \in Points, Goto(h, l)
  PROVE  /\ pc' \in [Handles -> Points]
         /\ pc'[h] = l
         /\ \A g \in Handles : g # h => pc'[g] = pc[g]
         /\ StrongSet' = IF l \in StrongPoints THEN StrongSet \cup {h} ELSE StrongSet \ {h}
         /\ WeakSet' = IF l \in WeakPoints THEN WeakSet \cup {h} ELSE WeakSet \ {h}
  <1>1. /\ pc' \in [Handles -> Points]
        /\ pc'[h] = l
        /\ \A g \in Handles : g # h => pc'[g] = pc[g]
    BY DEF TypeOK, Goto
  <1>2. StrongSet' = IF l \in StrongPoints THEN StrongSet \cup {h} ELSE StrongSet \ {h}
    BY <1>1 DEF StrongSet
  <1>3. WeakSet' = IF l \in WeakPoints THEN WeakSet \cup {h} ELSE WeakSet \ {h}
    BY <1>1 DEF WeakSet
  <1>4. QED
    BY <1>1, <1>2, <1>3

\* The counted sets are finite and no larger than the set of handles.
LEMMA SetsFinite ==
  /\ IsFiniteSet(StrongSet) /\ Cardinality(StrongSet) \in 0..MAX_COUNT
  /\ IsFiniteSet(WeakSet) /\ Cardinality(WeakSet) \in 0..MAX_COUNT
  /\ (StrongSet = {}) = (Cardinality(StrongSet) = 0)
  /\ (WeakSet = {}) = (Cardinality(WeakSet) = 0)
  <1>1. StrongSet \subseteq Handles /\ WeakSet \subseteq Handles
    BY DEF StrongSet, WeakSet
  <1>2. /\ IsFiniteSet(StrongSet) /\ Cardinality(StrongSet) <= Cardinality(Handles)
        /\ IsFiniteSet(WeakSet) /\ Cardinality(WeakSet) <= Cardinality(Handles)
    BY <1>1, HandlesAssumption, FS_Subset
  <1>3. Cardinality(StrongSet) \in Nat /\ Cardinality(WeakSet) \in Nat /\ Cardinality(Handles) \in Nat
    BY <1>2, HandlesAssumption, FS_CardinalityType
  <1>4. (StrongSet = {}) = (Cardinality(StrongSet) = 0) /\ (WeakSet = {}) = (Cardinality(WeakSet) = 0)
    BY <1>2, FS_EmptySet
  <1>5. QED
    BY <1>2, <1>3, <1>4, CountAssumption

\* How such a step changes the two cardinalities.
LEMMA GotoCounts ==
  ASSUME TypeOK, NEW h \in Handles, NEW l \in Points, Goto(h, l)
  PROVE  /\ Cardinality(StrongSet') = Cardinality(StrongSet)
               + (IF l \in StrongPoints /\ pc[h] \notin StrongPoints THEN 1 ELSE 0)
               - (IF l \notin StrongPoints /\ pc[h] \in StrongPoints THEN 1 ELSE 0)
         /\ Cardinality(WeakSet') = Cardinality(WeakSet)
               + (IF l \in WeakPoints /\ pc[h] \notin WeakPoints THEN 1 ELSE 0)
               - (IF l \notin WeakPoints /\ pc[h] \in WeakPoints THEN 1 ELSE 0)
  <1>1. /\ StrongSet' = IF l \in StrongPoints THEN StrongSet \cup {h} ELSE StrongSet \ {h}
        /\ WeakSet' = IF l \in WeakPoints THEN WeakSet \cup {h} ELSE WeakSet \ {h}
    BY GotoSets
  <1>2. /\ (h \in StrongSet) = (pc[h] \in StrongPoints)
        /\ (h \in WeakSet) = (pc[h] \in WeakPoints)
    BY DEF StrongSet, WeakSet
  <1>3. ASSUME NEW S, IsFiniteSet(S)
        PROVE  /\ Cardinality(S) \in Nat
               /\ Cardinality(S \cup {h}) = IF h \in S THEN Cardinality(S) ELSE Cardinality(S) + 1
               /\ Cardinality(S \ {h}) = IF h \in S THEN Cardinality(S) - 1 ELSE Cardinality(S)
    BY <1>3, FS_AddElement, FS_RemoveElement, FS_CardinalityType
  <1>4. Cardinality(StrongSet') = Cardinality(StrongSet)
               + (IF l \in StrongPoints /\ pc[h] \notin StrongPoints THEN 1 ELSE 0)
               - (IF l \notin StrongPoints /\ pc[h] \in StrongPoints THEN 1 ELSE 0)
    <2>1. IsFiniteSet(StrongSet)
      BY SetsFinite
    <2>2. /\ Cardinality(StrongSet) \in Nat
          /\ Cardinality(StrongSet \cup {h}) = IF h \in StrongSet THEN Cardinality(StrongSet) ELSE Cardinality(StrongSet) + 1
          /\ Cardinality(StrongSet \ {h}) = IF h \in StrongSet THEN Cardinality(StrongSet) - 1 ELSE Cardinality(StrongSet)
      BY <1>3, <2>1
    <2>3. QED
      BY <1>1, <1>2, <2>2
  <1>5. Cardinality(WeakSet') = Cardinality(WeakSet)
               + (IF l \in WeakPoints /\ pc[h] \notin WeakPoints THEN 1 ELSE 0)
               - (IF l \notin WeakPoints /\ pc[h] \in WeakPoints THEN 1 ELSE 0)
    <2>1. IsFiniteSet(WeakSet)
      BY SetsFinite
    <2>2. /\ Cardinality(WeakSet) \in Nat
          /\ Cardinality(WeakSet \cup {h}) = IF h \in WeakSet THEN Cardinality(WeakSet) ELSE Cardinality(WeakSet) + 1
          /\ Cardinality(WeakSet \ {h}) = IF h \in WeakSet THEN Cardinality(WeakSet) - 1 ELSE Cardinality(WeakSet)
      BY <1>3, <2>1
    <2>3. QED
      BY <1>1, <1>2, <2>2
  <1>6. QED
    BY <1>4, <1>5

\* The initial state satisfies the invariant.
LEMMA InitIInv == Init => IInv
  <1> SUFFICES ASSUME Init PROVE IInv
    OBVIOUS
  <1>1. StrongSet = {} /\ WeakSet = {}
    BY DEF Init, StrongSet, WeakSet, StrongPoints, WeakPoints
  <1>2. TypeOK
    <2>1. mStrong \in Nat /\ mWeak \in Nat /\ hooks \in Int
      BY CountAssumption DEF Init
    <2>2. base \in BOOLEAN /\ impl \in BOOLEAN /\ raw \in BOOLEAN /\ everStrong \in BOOLEAN
      BY Zenon DEF Init
    <2>3. /\ mFlags \in {"STRONG", "WEAK"}
          /\ pc \in [Handles -> Points]
          /\ cur \in [Handles -> Int]
          /\ src \in [Handles -> Handles \cup {"raw", "none"}]
      BY DEF Init, Points
    <2>4. QED
      BY <2>1, <2>2, <2>3 DEF TypeOK
  <1>3. CountsExact
    BY <1>1, FS_EmptySet, CountAssumption DEF Init, CountsExact, FixPoints
  <1>4. NoAssertion /\ SourcesHeld /\ ModePoints /\ RawProtects /\ Lifetimes /\ OneDestroyer
    BY <1>1, HandlesAssumption DEF Init, NoAssertion, SourcesHeld, ModePoints, RawProtects, Lifetimes, OneDestroyer
  <1>5. QED
    BY <1>2, <1>3, <1>4 DEF IInv

\* A count of zero, one, INITIAL_STRONG_VALUE or anything else says who holds
\* the object.
LEMMA StrongValues ==
  ASSUME IInv
  PROVE  /\ mStrong >= 0
         /\ mStrong = 0 => everStrong /\ StrongSet = {}
         /\ mStrong = INITIAL_STRONG_VALUE <=> ~everStrong
         /\ mStrong # 0 /\ everStrong => StrongSet # {}
         /\ mStrong = 1 => \A g, h \in StrongSet : g = h
         /\ ~BAD_STRONG(mStrong) \/ mStrong = 0
  <1>1. \A h \in Handles : pc[h] \in FixPoints => h \in StrongSet
    BY DEF StrongSet, StrongPoints, FixPoints
  <1>2. /\ mStrong = Cardinality(StrongSet)
            + (IF ~everStrong \/ \E h \in Handles : pc[h] \in FixPoints
               THEN INITIAL_STRONG_VALUE ELSE 0)
        /\ ~everStrong => StrongSet = {}
    BY DEF IInv, CountsExact, Lifetimes
  <1>3. /\ mStrong >= 0
        /\ mStrong = 0 => everStrong /\ StrongSet = {}
        /\ mStrong = INITIAL_STRONG_VALUE <=> ~everStrong
        /\ mStrong # 0 /\ everStrong => StrongSet # {}
        /\ ~BAD_STRONG(mStrong) \/ mStrong = 0
    BY <1>1, <1>2, SetsFinite, CountAssumption DEF BAD_STRONG
  <1>4. mStrong = 1 => \A g, h \in StrongSet : g = h
    <2>1. mStrong = 1 => Cardinality(StrongSet) = 1
      BY <1>1, <1>2, SetsFinite, CountAssumption
    <2>2. Cardinality(StrongSet) = 1 => \E e : StrongSet = {e}
      BY SetsFinite, FS_Singleton
    <2>3. QED
      BY <2>1, <2>2
  <1>5. QED
    BY <1>3, <1>4


\* Steps that change no counter: routing inside AttemptIncStrong, the hooks.
LEMMA QuietMove ==
  ASSUME IInv, NEW h \in Handles, NEW l \in Points, Goto(h, l),
         UNCHANGED <<mStrong, mWeak, mFlags, base, impl, raw, src, everStrong>>,
         cur' \in [Handles -> Int], \A g \in Handles : g # h => cur'[g] = cur[g],
         hooks' \in Int,
         \/ /\ pc[h] \in {"att_load", "att_cas", "att_init", "att_hook"}
            /\ l \in {"att_cas", "att_init", "att_hook", "att_add", "dec_weak"}
            /\ l \in {"att_cas", "att_init"} => cur'[h] > 0
            /\ l = "att_cas" => cur'[h] # INITIAL_STRONG_VALUE
            /\ l = "att_init" => mFlags = "STRONG"
            /\ l \in {"att_hook", "att_add"} => mFlags = "WEAK"
         \/ pc[h] \in {"first_ref", "att_last"} /\ l = "strong"
         \/ pc[h] = "last" /\ l = "delete" /\ mFlags = "STRONG"
         \/ pc[h] = "last" /\ l = "dec_weak" /\ mFlags = "WEAK"
  PROVE  IInv' /\ LifetimeStep
  <1>1. TypeOK
    BY DEF IInv
  <1>2. /\ pc' \in [Handles -> Points]
        /\ pc'[h] = l
        /\ \A g \in Handles : g # h => pc'[g] = pc[g]
    BY <1>1, GotoSets
  <1>3. StrongSet' = StrongSet /\ WeakSet' = WeakSet
    BY <1>2 DEF StrongSet, WeakSet, StrongPoints, WeakPoints
  <1>4. TypeOK'
    BY <1>1, <1>2 DEF TypeOK
  <1>5. NoAssertion'
    BY <1>2 DEF IInv, NoAssertion
  <1>6. CountsExact'
    BY <1>2, <1>3 DEF IInv, CountsExact, FixPoints
  <1>7. SourcesHeld'
    BY <1>2, HandlesAssumption DEF IInv, SourcesHeld
  <1>8. ModePoints'
    BY <1>2 DEF IInv, ModePoints
  <1>9. RawProtects'
    BY <1>2, <1>3 DEF IInv, RawProtects
  <1>10. Lifetimes'
    BY <1>2, <1>3 DEF IInv, Lifetimes
  <1>11. OneDestroyer'
    BY <1>2, <1>3 DEF IInv, OneDestroyer
  <1>12. LifetimeStep
    BY <1>3, Unmoved
  <1>13. QED
    BY <1>4, <1>5, <1>6, <1>7, <1>8, <1>9, <1>10, <1>11, <1>12 DEF IInv

\* Steps that take a strong reference.
LEMMA StrongUp ==
  ASSUME IInv, NEW h \in Handles, NEW l \in StrongPoints, Goto(h, l),
         pc[h] \in {"inc_strong", "force_strong", "att_cas", "att_init", "att_add"},
         mStrong' = mStrong + 1, everStrong' = TRUE,
         UNCHANGED <<mWeak, mFlags, base, impl, raw, hooks>>,
         cur' \in [Handles -> Int], \A g \in Handles : g # h => cur'[g] = cur[g],
         src' = [src EXCEPT ![h] = "none"],
         l \in FixPoints <=> mStrong = INITIAL_STRONG_VALUE,
         base, mFlags = "STRONG" /\ everStrong => StrongSet # {}
  PROVE  IInv' /\ LifetimeStep
  <1>1. TypeOK /\ l \in Points
    BY DEF IInv, Points, WeakPoints
  <1>2. /\ pc' \in [Handles -> Points]
        /\ pc'[h] = l
        /\ \A g \in Handles : g # h => pc'[g] = pc[g]
    BY <1>1, GotoSets
  <1>3. StrongSet' = StrongSet \cup {h} /\ WeakSet' = WeakSet
    BY <1>2 DEF StrongSet, WeakSet, StrongPoints, WeakPoints
  <1>4. TypeOK'
    BY <1>1, <1>2 DEF TypeOK
  <1>5. NoAssertion'
    BY <1>2 DEF IInv, NoAssertion, StrongPoints
  <1>6. CountsExact'
    <2>1. Cardinality(StrongSet') = Cardinality(StrongSet) + 1
      BY <1>1, GotoCounts, SetsFinite DEF StrongPoints
    <2>2. mStrong = INITIAL_STRONG_VALUE <=> ~everStrong
      BY StrongValues
    <2>3. ~everStrong => \A g \in Handles : pc[g] \notin FixPoints
      BY DEF IInv, Lifetimes, StrongSet, StrongPoints, FixPoints
    <2>4. \A g \in Handles : pc'[g] \in FixPoints <=>
              (pc[g] \in FixPoints \/ (g = h /\ mStrong = INITIAL_STRONG_VALUE))
      BY <1>2 DEF FixPoints
    <2>5. mWeak' = Cardinality(WeakSet')
      BY <1>3 DEF IInv, CountsExact
    <2>6. \A f, g \in Handles : pc'[f] \in FixPoints /\ pc'[g] \in FixPoints => f = g
      BY <2>2, <2>3, <2>4 DEF IInv, CountsExact
    <2>7. mStrong = Cardinality(StrongSet) + (IF ~everStrong \/ \E g \in Handles : pc[g] \in FixPoints
                                              THEN INITIAL_STRONG_VALUE ELSE 0)
      BY DEF IInv, CountsExact
    <2>8. mStrong' = Cardinality(StrongSet') + (IF \E g \in Handles : pc'[g] \in FixPoints
                                              THEN INITIAL_STRONG_VALUE ELSE 0)
      BY <2>1, <2>2, <2>4, <2>7, SetsFinite, CountAssumption
    <2>9. QED
      BY <2>5, <2>6, <2>8 DEF CountsExact
  <1>7. SourcesHeld'
    BY <1>1, <1>2, HandlesAssumption DEF IInv, SourcesHeld, StrongPoints, TypeOK
  <1>8. ModePoints'
    BY <1>2 DEF IInv, ModePoints, StrongPoints
  <1>9. RawProtects'
    BY <1>2, <1>3 DEF IInv, RawProtects, StrongPoints
  <1>10. Lifetimes'
    BY <1>2, <1>3 DEF IInv, Lifetimes, StrongPoints
  <1>11. OneDestroyer'
    BY <1>2, <1>3 DEF IInv, OneDestroyer, Lifetimes, StrongPoints
  <1>12. LifetimeStep
    <2>1. h \notin StrongSet /\ object \in {"fresh", "live"} /\ object' = "live"
      BY <1>3 DEF object, StrongSet, StrongPoints
    <2>2. Lifetime!Acquire(h)
      BY <1>3, <2>1 DEF Lifetime!Acquire
    <2>3. QED
      BY <2>2 DEF LifetimeStep, Lifetime!Next
  <1>13. QED
    BY <1>4, <1>5, <1>6, <1>7, <1>8, <1>9, <1>10, <1>11, <1>12 DEF IInv

\* The steps that take INITIAL_STRONG_VALUE back out of mStrong.
LEMMA FixMove ==
  ASSUME IInv, NEW h \in Handles, NEW l \in {"first_ref", "strong"}, Goto(h, l),
         pc[h] \in FixPoints,
         mStrong' = mStrong - INITIAL_STRONG_VALUE,
         UNCHANGED <<mWeak, mFlags, base, impl, raw, cur, src, everStrong, hooks>>
  PROVE  IInv' /\ LifetimeStep
  <1>1. TypeOK /\ l \in Points
    BY DEF IInv, Points, WeakPoints, StrongPoints
  <1>2. /\ pc' \in [Handles -> Points]
        /\ pc'[h] = l
        /\ \A g \in Handles : g # h => pc'[g] = pc[g]
    BY <1>1, GotoSets
  <1>3. StrongSet' = StrongSet /\ WeakSet' = WeakSet
    BY <1>2 DEF StrongSet, WeakSet, StrongPoints, WeakPoints, FixPoints
  <1>4. h \in StrongSet
    BY DEF StrongSet, StrongPoints, FixPoints
  <1>5. CountsExact'
    <2>1. \A g \in Handles : pc'[g] \notin FixPoints
      BY <1>2 DEF IInv, CountsExact, FixPoints
    <2>2. everStrong
      BY <1>4 DEF IInv, Lifetimes
    <2>3. mStrong = Cardinality(StrongSet) + INITIAL_STRONG_VALUE
      BY DEF IInv, CountsExact
    <2>4. mStrong' = Cardinality(StrongSet')
      BY <2>3, <1>3, SetsFinite, CountAssumption
    <2>5. mWeak' = Cardinality(WeakSet')
      BY <1>3 DEF IInv, CountsExact
    <2>6. everStrong'
      BY <2>2
    <2>7. QED
      BY <2>1, <2>4, <2>5, <2>6, SetsFinite, <1>3 DEF CountsExact
  <1>6. TypeOK'
    <2>1. mStrong' \in Nat
      BY <1>3, <1>5, SetsFinite, CountAssumption DEF CountsExact
    <2>2. QED
      BY <1>1, <1>2, <2>1 DEF TypeOK
  <1>7. NoAssertion'
    BY <1>2 DEF IInv, NoAssertion
  <1>8. SourcesHeld'
    BY <1>2, HandlesAssumption DEF IInv, SourcesHeld, FixPoints
  <1>9. ModePoints'
    BY <1>2 DEF IInv, ModePoints
  <1>10. RawProtects'
    BY <1>2, <1>3 DEF IInv, RawProtects, FixPoints
  <1>11. Lifetimes'
    BY <1>2, <1>3 DEF IInv, Lifetimes, FixPoints
  <1>12. OneDestroyer'
    BY <1>2, <1>3 DEF IInv, OneDestroyer
  <1>13. LifetimeStep
    BY <1>3, Unmoved
  <1>14. QED
    BY <1>5, <1>6, <1>7, <1>8, <1>9, <1>10, <1>11, <1>12, <1>13 DEF IInv

\* DecStrong's decrement.
LEMMA StrongDown ==
  ASSUME IInv, NEW h \in Handles, NEW l \in {"last", "dec_weak"}, Goto(h, l),
         MayDecStrong(h), l = "last" <=> mStrong = 1,
         mStrong' = mStrong - 1,
         UNCHANGED <<mWeak, mFlags, base, impl, raw, cur, src, everStrong, hooks>>
  PROVE  IInv' /\ LifetimeStep
  <1>1. TypeOK /\ l \in Points /\ pc[h] = "strong"
    BY DEF IInv, Points, WeakPoints, StrongPoints, MayDecStrong
  <1>2. /\ pc' \in [Handles -> Points]
        /\ pc'[h] = l
        /\ \A g \in Handles : g # h => pc'[g] = pc[g]
    BY <1>1, GotoSets
  <1>3. StrongSet' = StrongSet \ {h} /\ WeakSet' = WeakSet /\ h \in StrongSet
    BY <1>1, <1>2 DEF StrongSet, WeakSet, StrongPoints, WeakPoints
  <1>4. mStrong = 1 => StrongSet' = {}
    BY <1>3, StrongValues
  <1>5. everStrong
    BY <1>3 DEF IInv, Lifetimes
  <1>6. CountsExact'
    <2>1. Cardinality(StrongSet') = Cardinality(StrongSet) - 1
      BY <1>1, GotoCounts, SetsFinite DEF StrongPoints
    <2>2. \A g \in Handles : pc'[g] \in FixPoints <=> pc[g] \in FixPoints
      BY <1>1, <1>2 DEF FixPoints
    <2>3. QED
      BY <1>3, <1>5, <2>1, <2>2, SetsFinite, CountAssumption DEF IInv, CountsExact
  <1>7. TypeOK'
    <2>1. mStrong' \in Nat
      BY <1>3, <1>5, StrongValues, CountAssumption DEF IInv, TypeOK
    <2>2. QED
      BY <1>1, <1>2, <2>1 DEF TypeOK
  <1>8. NoAssertion'
    BY <1>2 DEF IInv, NoAssertion
  <1>9. SourcesHeld'
    BY <1>1, <1>2, HandlesAssumption DEF IInv, SourcesHeld, MayDecStrong, Pinned
  <1>10. ModePoints'
    BY <1>2 DEF IInv, ModePoints
  <1>11. RawProtects'
    BY DEF RawProtects, MayDecStrong
  <1>12. Lifetimes'
    BY <1>1, <1>2, <1>3, <1>5 DEF IInv, Lifetimes
  <1>13. OneDestroyer'
    BY <1>2, <1>3, <1>4 DEF IInv, OneDestroyer, Lifetimes
  <1>14. LifetimeStep
    <2>1. base
      BY <1>3 DEF IInv, Lifetimes
    <2>2. object' = IF mFlags = "STRONG" /\ StrongSet = {h} THEN "dying" ELSE object
      BY <1>3, <1>5, <2>1 DEF object
    <2>3. Lifetime!Release(h)
      BY <1>3, <2>2 DEF Lifetime!Release
    <2>4. QED
      BY <2>3 DEF LifetimeStep, Lifetime!Next
  <1>15. QED
    BY <1>6, <1>7, <1>8, <1>9, <1>10, <1>11, <1>12, <1>13, <1>14 DEF IInv

\* A reference somebody can copy from keeps the control block, and the object
\* unless it is a weak reference of normal lifetime.
LEMMA SourceFacts ==
  ASSUME IInv, NEW s, StrongSource(s) \/ WeakSource(s)
  PROVE  /\ impl
         /\ mFlags = "WEAK" => base
         /\ StrongSource(s) => base
         /\ ~everStrong => base
         /\ \A g \in Handles : pc[g] # "weak_zero"
  <1>1. CASE s = "raw" /\ raw
    BY <1>1, HandlesAssumption DEF IInv, RawProtects
  <1>2. CASE s \in Handles /\ pc[s] \in {"strong", "weak"}
    <2>1. s \in WeakSet /\ (pc[s] = "strong" => s \in StrongSet)
      BY <1>2 DEF StrongSet, WeakSet, StrongPoints, WeakPoints
    <2>2. s # "raw"
      BY <1>2, HandlesAssumption
    <2>3. QED
      BY <1>2, <2>1, <2>2 DEF IInv, Lifetimes, StrongSource, WeakSource
  <1>3. QED
    BY <1>1, <1>2 DEF StrongSource, WeakSource

\* The increments of mWeak.
LEMMA WeakUp ==
  ASSUME IInv, NEW h \in Handles, NEW l, Goto(h, l),
         NEW s \in Handles \cup {"raw"},
         \/ /\ StrongSource(s) \/ WeakSource(s)
            /\ \/ pc[h] = "null" /\ l = "weak" /\ src' = src
               \/ pc[h] = "weak_cas" /\ l = "weak" /\ src' = [src EXCEPT ![h] = "none"]
         \/ StrongSource(s) /\ pc[h] = "null" /\ l = "inc_strong" /\ src' = [src EXCEPT ![h] = s]
         \/ /\ StrongSource(s) \/ (WeakSource(s) /\ mFlags = "WEAK")
            /\ pc[h] = "null" /\ l = "force_strong" /\ src' = [src EXCEPT ![h] = s]
         \/ WeakSource(s) /\ pc[h] = "null" /\ l = "att_load" /\ src' = src,
         mWeak' = mWeak + 1,
         cur' \in [Handles -> Int], \A g \in Handles : g # h => cur'[g] = cur[g],
         UNCHANGED <<mStrong, mFlags, base, impl, raw, everStrong, hooks>>
  PROVE  IInv' /\ LifetimeStep
  <1>1. TypeOK /\ l \in Points
    BY DEF IInv, Points, WeakPoints, StrongPoints
  <1>2. /\ pc' \in [Handles -> Points]
        /\ pc'[h] = l
        /\ \A g \in Handles : g # h => pc'[g] = pc[g]
    BY <1>1, GotoSets
  <1>3. StrongSet' = StrongSet /\ WeakSet' = WeakSet \cup {h}
    BY <1>2 DEF StrongSet, WeakSet, StrongPoints, WeakPoints
  <1>4. /\ impl
        /\ mFlags = "WEAK" => base
        /\ StrongSource(s) => base
        /\ ~everStrong => base
        /\ \A g \in Handles : pc[g] # "weak_zero"
    BY SourceFacts
  <1>5. s \in Handles => s # h
    BY HandlesAssumption DEF StrongSource, WeakSource
  <1>6. CountsExact'
    <2>1. Cardinality(WeakSet') = Cardinality(WeakSet) + 1
      BY <1>1, GotoCounts, SetsFinite DEF StrongPoints, WeakPoints
    <2>2. \A g \in Handles : pc'[g] \in FixPoints <=> pc[g] \in FixPoints
      BY <1>2 DEF FixPoints
    <2>3. QED
      BY <1>3, <2>1, <2>2 DEF IInv, CountsExact
  <1>7. TypeOK'
    BY <1>1, <1>2 DEF TypeOK
  <1>8. NoAssertion'
    BY <1>2 DEF IInv, NoAssertion
  <1>9. SourcesHeld'
    BY <1>1, <1>2, <1>5, HandlesAssumption DEF IInv, SourcesHeld, TypeOK, StrongSource, WeakSource
  <1>10. ModePoints'
    BY <1>2 DEF IInv, ModePoints
  <1>11. RawProtects'
    BY <1>2, <1>3, <1>5, HandlesAssumption DEF IInv, RawProtects, WeakSource
  <1>12. Lifetimes'
    BY <1>2, <1>3, <1>4 DEF IInv, Lifetimes
  <1>13. OneDestroyer'
    BY <1>2, <1>3 DEF IInv, OneDestroyer
  <1>14. LifetimeStep
    BY <1>3, Unmoved
  <1>15. QED
    BY <1>6, <1>7, <1>8, <1>9, <1>10, <1>11, <1>12, <1>13, <1>14 DEF IInv

\* AttemptIncWeak before it has counted itself: start, retry and failure.
LEMMA WeakCasMove ==
  ASSUME IInv, NEW h \in Handles, NEW l \in {"null", "weak_cas"}, Goto(h, l),
         \/ /\ pc[h] = "null" /\ l = "weak_cas"
            /\ \E s \in Handles \cup {"raw"} : /\ StrongSource(s) \/ WeakSource(s)
                                               /\ src' = [src EXCEPT ![h] = s]
         \/ pc[h] = "weak_cas" /\ l = "null" /\ src' = [src EXCEPT ![h] = "none"]
         \/ pc[h] = "weak_cas" /\ l = "weak_cas" /\ src' = src,
         cur' \in [Handles -> Int], \A g \in Handles : g # h => cur'[g] = cur[g],
         UNCHANGED <<mStrong, mWeak, mFlags, base, impl, raw, everStrong, hooks>>
  PROVE  IInv' /\ LifetimeStep
  <1>1. TypeOK /\ l \in Points
    BY DEF IInv, Points, WeakPoints, StrongPoints
  <1>2. /\ pc' \in [Handles -> Points]
        /\ pc'[h] = l
        /\ \A g \in Handles : g # h => pc'[g] = pc[g]
    BY <1>1, GotoSets
  <1>3. StrongSet' = StrongSet /\ WeakSet' = WeakSet
    BY <1>2 DEF StrongSet, WeakSet, StrongPoints, WeakPoints
  <1>4. l = "weak_cas" =>
            /\ impl
            /\ ~everStrong => base
            /\ \A g \in Handles : pc[g] # "weak_zero"
    BY SourceFacts, <1>1 DEF IInv, Lifetimes
  <1>5. CountsExact'
    BY <1>2, <1>3 DEF IInv, CountsExact, FixPoints
  <1>6. TypeOK'
    BY <1>1, <1>2 DEF TypeOK
  <1>7. NoAssertion'
    BY <1>2 DEF IInv, NoAssertion
  <1>8. SourcesHeld'
    BY <1>1, <1>2, HandlesAssumption DEF IInv, SourcesHeld, TypeOK, StrongSource, WeakSource
  <1>9. ModePoints'
    BY <1>2 DEF IInv, ModePoints
  <1>10. RawProtects'
    BY <1>2, <1>3 DEF IInv, RawProtects
  <1>11. Lifetimes'
    BY <1>2, <1>3, <1>4 DEF IInv, Lifetimes
  <1>12. OneDestroyer'
    BY <1>2, <1>3 DEF IInv, OneDestroyer
  <1>13. LifetimeStep
    BY <1>3, Unmoved
  <1>14. QED
    BY <1>5, <1>6, <1>7, <1>8, <1>9, <1>10, <1>11, <1>12, <1>13 DEF IInv

\* DecWeak's decrement.
LEMMA WeakDown ==
  ASSUME IInv, ~EarlyRelease, NEW h \in Handles, NEW l \in {"null", "weak_zero"}, Goto(h, l),
         pc[h] = "dec_weak" \/ MayDecWeak(h), l = "weak_zero" <=> mWeak = 1,
         mWeak' = mWeak - 1,
         UNCHANGED <<mStrong, mFlags, base, impl, raw, cur, src, everStrong, hooks>>
  PROVE  IInv' /\ LifetimeStep
  <1>1. TypeOK /\ l \in Points /\ pc[h] \in {"weak", "dec_weak"}
    BY DEF IInv, Points, WeakPoints, StrongPoints, MayDecWeak
  <1>2. /\ pc' \in [Handles -> Points]
        /\ pc'[h] = l
        /\ \A g \in Handles : g # h => pc'[g] = pc[g]
    BY <1>1, GotoSets
  <1>3. StrongSet' = StrongSet /\ WeakSet' = WeakSet \ {h} /\ h \in WeakSet
    BY <1>1, <1>2 DEF StrongSet, WeakSet, StrongPoints, WeakPoints
  <1>4. raw => pc[h] = "dec_weak" /\ \E g \in Handles : pc[g] = "weak"
    BY DEF MayDecWeak, IInv, RawProtects
  <1>5. mWeak = 1 => ~raw /\ \A g \in Handles : g # h => pc[g] = "null"
    <2> SUFFICES ASSUME mWeak = 1
                 PROVE  ~raw /\ \A g \in Handles : g # h => pc[g] = "null"
      OBVIOUS
    <2>1. Cardinality(WeakSet) = 1
      BY DEF IInv, CountsExact
    <2>2. PICK e : WeakSet = {e}
      BY <2>1, SetsFinite, FS_Singleton
    <2>3. \A g \in Handles : g # h => pc[g] \notin WeakPoints
      BY <2>2, <1>3 DEF WeakSet
    <2>4. ~raw
      BY <1>4, <2>3 DEF WeakPoints
    <2>5. ASSUME NEW g \in Handles, g # h PROVE pc[g] = "null"
      <3>1. pc[g] \in {"null", "weak_cas", "weak_zero"}
        BY <2>3, <2>5, <1>1 DEF IInv, NoAssertion, TypeOK, Points
      <3>2. pc[g] # "weak_zero"
        BY <1>1, <2>5 DEF IInv, Lifetimes
      <3>3. pc[g] # "weak_cas"
        <4> SUFFICES ASSUME pc[g] = "weak_cas" PROVE FALSE
          OBVIOUS
        <4>1. src[g] \in Handles /\ pc[src[g]] \in {"strong", "weak"}
          BY <2>4, <1>1 DEF IInv, SourcesHeld, TypeOK
        <4>2. src[g] = h
          BY <4>1, <2>3 DEF WeakPoints, StrongPoints
        <4>3. pc[h] = "weak"
          BY <4>1, <4>2, <1>1
        <4>4. QED
          BY <4>2, <4>3 DEF MayDecWeak, Pinned
      <3>4. QED
        BY <3>1, <3>2, <3>3
    <2>6. QED
      BY <2>4, <2>5
  <1>6. CountsExact'
    <2>1. Cardinality(WeakSet') = Cardinality(WeakSet) - 1
      BY <1>1, GotoCounts, SetsFinite DEF StrongPoints, WeakPoints
    <2>2. \A g \in Handles : pc'[g] \in FixPoints <=> pc[g] \in FixPoints
      BY <1>1, <1>2 DEF FixPoints
    <2>3. QED
      BY <1>3, <2>1, <2>2 DEF IInv, CountsExact
  <1>7. TypeOK'
    <2>1. mWeak' \in Nat
      BY <1>3, SetsFinite DEF IInv, CountsExact
    <2>2. QED
      BY <1>1, <1>2, <2>1 DEF TypeOK
  <1>8. NoAssertion'
    BY <1>2 DEF IInv, NoAssertion
  <1>9. SourcesHeld'
    BY <1>1, <1>2, HandlesAssumption DEF IInv, SourcesHeld, MayDecWeak, Pinned
  <1>10. ModePoints'
    BY <1>2 DEF IInv, ModePoints
  <1>11. RawProtects'
    BY <1>1, <1>2, <1>3, <1>4, <1>5 DEF IInv, RawProtects
  <1>12. Lifetimes'
    BY <1>1, <1>2, <1>3, <1>5 DEF IInv, Lifetimes
  <1>13. OneDestroyer'
    BY <1>2, <1>3 DEF IInv, OneDestroyer
  <1>14. LifetimeStep
    BY <1>3, Unmoved
  <1>15. QED
    BY <1>6, <1>7, <1>8, <1>9, <1>10, <1>11, <1>12, <1>13, <1>14 DEF IInv

\* delete this: the object goes, the control block stays for the DecWeak.
LEMMA DeleteThisStep ==
  ASSUME IInv, NEW h \in Handles, DeleteThis(h)
  PROVE  IInv' /\ LifetimeStep
  <1>1. TypeOK /\ "dec_weak" \in Points /\ pc[h] = "delete" /\ mFlags = "STRONG"
    BY DEF IInv, Points, WeakPoints, DeleteThis, ModePoints
  <1>2. /\ pc' \in [Handles -> Points]
        /\ pc'[h] = "dec_weak"
        /\ \A g \in Handles : g # h => pc'[g] = pc[g]
    BY <1>1, GotoSets DEF DeleteThis
  <1>3. StrongSet' = StrongSet /\ WeakSet' = WeakSet /\ StrongSet = {} /\ everStrong /\ ~raw
    BY <1>1, <1>2 DEF StrongSet, WeakSet, StrongPoints, WeakPoints, IInv, OneDestroyer, Lifetimes, RawProtects
  <1>4. UNCHANGED <<mStrong, mWeak, mFlags, raw, cur, src, everStrong, hooks>> /\ base' = FALSE /\ impl' = impl
    <2>1. impl /\ mStrong # INITIAL_STRONG_VALUE
      BY <1>1, <1>3, StrongValues DEF IInv, Lifetimes
    <2>2. QED
      BY <1>1, <2>1 DEF DeleteThis, Destructor
  <1>5. CountsExact'
    BY <1>1, <1>2, <1>3, <1>4 DEF IInv, CountsExact, FixPoints
  <1>6. TypeOK'
    BY <1>1, <1>2, <1>4 DEF TypeOK
  <1>7. NoAssertion'
    BY <1>2 DEF IInv, NoAssertion
  <1>8. SourcesHeld'
    BY <1>1, <1>2, <1>4, HandlesAssumption DEF IInv, SourcesHeld
  <1>9. ModePoints'
    BY <1>2, <1>4 DEF IInv, ModePoints
  <1>10. RawProtects'
    BY <1>3, <1>4 DEF RawProtects
  <1>11. Lifetimes'
    BY <1>1, <1>2, <1>3, <1>4 DEF IInv, Lifetimes
  <1>12. OneDestroyer'
    BY <1>1, <1>2, <1>3, <1>4 DEF IInv, OneDestroyer
  <1>13. LifetimeStep
    <2>1. base
      BY <1>1 DEF IInv, OneDestroyer
    <2>2. object = "dying" /\ object' = "gone"
      BY <1>1, <1>3, <1>4, <2>1 DEF object
    <2>3. Lifetime!Destroy
      BY <1>1, <1>3, <1>4, <2>2 DEF Lifetime!Destroy
    <2>4. QED
      BY <2>3 DEF LifetimeStep, Lifetime!Next
  <1>14. QED
    BY <1>5, <1>6, <1>7, <1>8, <1>9, <1>10, <1>11, <1>12, <1>13 DEF IInv

\* The end of the last DecWeak: nobody else is left.
LEMMA LastWeakStep ==
  ASSUME IInv, NEW h \in Handles, LastWeak(h)
  PROVE  IInv' /\ LifetimeStep
  <1>1. TypeOK /\ "null" \in Points /\ pc[h] = "weak_zero"
    BY DEF IInv, Points, LastWeak
  <1>2. /\ pc' \in [Handles -> Points]
        /\ pc'[h] = "null"
        /\ \A g \in Handles : g # h => pc'[g] = pc[g]
    BY <1>1, GotoSets DEF LastWeak
  <1>3. \A g \in Handles : pc'[g] = "null"
    BY <1>1, <1>2 DEF IInv, Lifetimes
  <1>4. StrongSet' = StrongSet /\ WeakSet' = WeakSet
    BY <1>1, <1>2 DEF StrongSet, WeakSet, StrongPoints, WeakPoints
  <1>5. StrongSet' = {} /\ WeakSet' = {} /\ ~raw
    BY <1>1, <1>3 DEF StrongSet, WeakSet, StrongPoints, WeakPoints, IInv, Lifetimes
  <1>6. /\ UNCHANGED <<mStrong, mWeak, mFlags, raw, cur, src, everStrong, hooks>>
        /\ base' \in BOOLEAN /\ impl' \in BOOLEAN
    BY <1>1 DEF LastWeak, Destructor, TypeOK
  <1>7. CountsExact'
    BY <1>1, <1>2, <1>4, <1>6 DEF IInv, CountsExact, FixPoints
  <1>8. TypeOK'
    BY <1>1, <1>2, <1>6 DEF TypeOK
  <1>9. NoAssertion' /\ ModePoints' /\ RawProtects' /\ OneDestroyer'
    BY <1>3, <1>5, <1>6 DEF NoAssertion, ModePoints, RawProtects, OneDestroyer
  <1>10. SourcesHeld'
    <2>1. \A g \in Handles : src[g] = "none"
      BY <1>1, <1>2, <1>3 DEF IInv, SourcesHeld
    <2>2. QED
      BY <1>3, <1>6, <2>1, HandlesAssumption DEF SourcesHeld
  <1>11. Lifetimes'
    BY <1>3, <1>5, <1>6 DEF Lifetimes
  <1>12. LifetimeStep
    <2>1. CASE mFlags = "STRONG"
      BY <1>4, <1>6, <2>1, Unmoved DEF LastWeak
    <2>2. CASE mFlags = "WEAK"
      <3>1. base /\ base' = FALSE /\ StrongSet = {}
        BY <1>1, <1>4, <1>5, <2>2 DEF IInv, Lifetimes, LastWeak, Destructor
      <3>2. object \in {"fresh", "live"} /\ object' = "gone"
        BY <2>2, <3>1 DEF object
      <3>3. Lifetime!Destroy
        BY <1>4, <1>6, <2>2, <3>1, <3>2 DEF Lifetime!Destroy
      <3>4. QED
        BY <3>3 DEF LifetimeStep, Lifetime!Next
    <2>3. QED
      BY <1>1, <2>1, <2>2 DEF TypeOK
  <1>13. QED
    BY <1>7, <1>8, <1>9, <1>10, <1>11, <1>12 DEF IInv

\* What the creator does with its uncounted pointer.
LEMMA RawStep ==
  ASSUME IInv, ExtendObjectLifetime \/ DeleteRaw \/ DropRaw
  PROVE  IInv' /\ LifetimeStep
  <1>1. TypeOK /\ pc' = pc /\ src' = src /\ cur' = cur /\ everStrong' = everStrong /\ mStrong' = mStrong
          /\ mWeak' = mWeak /\ raw
    BY DEF IInv, ExtendObjectLifetime, DeleteRaw, DropRaw
  <1>2. StrongSet' = StrongSet /\ WeakSet' = WeakSet
    BY <1>1 DEF StrongSet, WeakSet
  <1>3. CountsExact' /\ NoAssertion'
    BY <1>1, <1>2 DEF IInv, CountsExact, NoAssertion
  <1>4. TypeOK'
    BY <1>1 DEF TypeOK, ExtendObjectLifetime, DeleteRaw, DropRaw, Destructor
  <1>5. CASE DropRaw
    <2>1. UNCHANGED <<mFlags, base, impl>> /\ raw' = FALSE /\ \A h \in Handles : src[h] # "raw"
      BY <1>5 DEF DropRaw, Pinned
    <2>2. SourcesHeld' /\ ModePoints' /\ RawProtects' /\ OneDestroyer'
      BY <1>1, <1>2, <2>1 DEF IInv, SourcesHeld, ModePoints, RawProtects, OneDestroyer
    <2>3. Lifetimes'
      BY <1>1, <1>2, <2>1 DEF IInv, Lifetimes
    <2>4. LifetimeStep
      BY <1>1, <1>2, <2>1, Unmoved
    <2>5. QED
      BY <1>3, <1>4, <2>2, <2>3, <2>4 DEF IInv
  <1>6. CASE ExtendObjectLifetime \/ DeleteRaw
    <2>1. \A h \in Handles : pc[h] = "null"
      BY <1>6 DEF ExtendObjectLifetime, DeleteRaw
    <2>2. StrongSet = {} /\ WeakSet = {}
      BY <2>1 DEF StrongSet, WeakSet, StrongPoints, WeakPoints
    <2>3. \A h \in Handles : src[h] = "none"
      BY <2>1 DEF IInv, SourcesHeld
    <2>4. SourcesHeld' /\ ModePoints' /\ OneDestroyer'
      BY <1>1, <2>1, <2>3, HandlesAssumption DEF SourcesHeld, ModePoints, OneDestroyer
    <2>5. ~everStrong /\ base /\ impl
      BY <1>1, <2>2 DEF IInv, RawProtects
    <2>6. RawProtects' /\ Lifetimes'
      <3>1. CASE ExtendObjectLifetime
        BY <1>1, <1>2, <2>1, <2>2, <2>5, <3>1 DEF RawProtects, Lifetimes, ExtendObjectLifetime
      <3>2. CASE DeleteRaw
        BY <1>1, <1>2, <2>1, <2>2, <2>5, <3>2 DEF RawProtects, Lifetimes, DeleteRaw, Destructor
      <3>3. QED
        BY <1>6, <3>1, <3>2
    <2>7. LifetimeStep
      <3>1. object = "fresh"
        BY <2>5 DEF object
      <3>2. CASE ExtendObjectLifetime
        <4>1. object' = "fresh" /\ mFlags' = "WEAK"
          BY <1>1, <2>5, <3>2 DEF object, ExtendObjectLifetime
        <4>2. Lifetime!Extend
          BY <1>2, <3>1, <4>1 DEF Lifetime!Extend
        <4>3. QED
          BY <4>2 DEF LifetimeStep, Lifetime!Next
      <3>3. CASE DeleteRaw
        <4>1. object' = "gone" /\ mFlags' = mFlags
          BY <3>3 DEF object, DeleteRaw, Destructor
        <4>2. Lifetime!Destroy
          BY <1>2, <2>2, <3>1, <4>1 DEF Lifetime!Destroy
        <4>3. QED
          BY <4>2 DEF LifetimeStep, Lifetime!Next
      <3>4. QED
        BY <1>6, <3>2, <3>3
    <2>8. QED
      BY <1>3, <1>4, <2>4, <2>6, <2>7 DEF IInv
  <1>7. QED
    BY <1>5, <1>6

\* The operations that copy a reference preserve the invariant.
LEMMA StartStep ==
  ASSUME IInv, NEW h \in Handles, NEW s \in Handles \cup {"raw"}, Start(h, s)
  PROVE  IInv' /\ LifetimeStep
  <1>1. TypeOK /\ mWeak \in Nat /\ cur \in [Handles -> Int]
    BY DEF IInv, TypeOK
  <1>2. ASSUME NEW l, IncWeakTo(h, l) PROVE mWeak' = mWeak + 1 /\ Goto(h, l)
    BY <1>1, <1>2 DEF IncWeakTo
  <1>3. CASE CreateWeak(h, s)
    <2>1. mWeak' = mWeak + 1 /\ Goto(h, "weak")
      BY <1>2, <1>3 DEF CreateWeak
    <2>2. QED
      BY <1>1, <1>3, <2>1, WeakUp DEF CreateWeak
  <1>4. CASE IncStrong(h, s)
    <2>1. mWeak' = mWeak + 1 /\ Goto(h, "inc_strong")
      BY <1>2, <1>4 DEF IncStrong
    <2>2. QED
      BY <1>1, <1>4, <2>1, WeakUp DEF IncStrong
  <1>5. CASE ForceIncStrong(h, s)
    <2>1. mWeak' = mWeak + 1 /\ Goto(h, "force_strong")
      BY <1>2, <1>5 DEF ForceIncStrong
    <2>2. QED
      BY <1>1, <1>5, <2>1, WeakUp DEF ForceIncStrong
  <1>6. CASE AttemptIncStrong(h, s)
    <2>1. mWeak' = mWeak + 1 /\ Goto(h, "att_load")
      BY <1>2, <1>6 DEF AttemptIncStrong
    <2>2. QED
      BY <1>1, <1>6, <2>1, WeakUp DEF AttemptIncStrong
  <1>7. CASE AttemptIncWeak(h, s)
    <2>1. Goto(h, "weak_cas")
      BY <1>1, <1>7 DEF AttemptIncWeak
    <2>2. cur' \in [Handles -> Int] /\ \A g \in Handles : g # h => cur'[g] = cur[g]
      BY <1>1, <1>7 DEF AttemptIncWeak
    <2>3. QED
      BY <1>7, <2>1, <2>2, WeakCasMove DEF AttemptIncWeak
  <1>8. QED
    BY <1>3, <1>4, <1>5, <1>6, <1>7 DEF Start

\* A weak CAS that succeeds, fails or gives up.
LEMMA WeakCasStep ==
  ASSUME IInv, NEW h \in Handles, AttemptIncWeakCas(h)
  PROVE  IInv' /\ LifetimeStep
  <1>1. /\ TypeOK /\ cur \in [Handles -> Int] /\ mWeak \in Nat /\ pc[h] = "weak_cas"
        /\ pc \in [Handles -> Points]
    BY DEF IInv, TypeOK, AttemptIncWeakCas
  <1>2. /\ src[h] \in Handles \cup {"raw"}
        /\ StrongSource(src[h]) \/ WeakSource(src[h])
    BY <1>1 DEF IInv, SourcesHeld, TypeOK, StrongSource, WeakSource
  <1>3. cur' \in [Handles -> Int] /\ \A g \in Handles : g # h => cur'[g] = cur[g]
    BY <1>1 DEF AttemptIncWeakCas
  <1>4. CASE mWeak' = mWeak + 1
    <2>1. Goto(h, "weak") /\ src' = [src EXCEPT ![h] = "none"]
      BY <1>1, <1>4 DEF AttemptIncWeakCas
    <2>2. UNCHANGED <<mStrong, mFlags, base, impl, raw, everStrong, hooks>>
      BY DEF AttemptIncWeakCas
    <2>3. QED
      BY <1>1, <1>2, <1>3, <1>4, <2>1, <2>2, WeakUp
  <1>5. CASE mWeak' = mWeak
    <2>1. \/ Goto(h, "null") /\ src' = [src EXCEPT ![h] = "none"]
          \/ Goto(h, "weak_cas") /\ src' = src
      BY <1>1, <1>5 DEF AttemptIncWeakCas, Goto
    <2>2. UNCHANGED <<mStrong, mFlags, base, impl, raw, everStrong, hooks>>
      BY DEF AttemptIncWeakCas
    <2>3. QED
      BY <1>1, <1>3, <1>5, <2>1, <2>2, WeakCasMove
  <1>6. QED
    BY <1>4, <1>5 DEF AttemptIncWeakCas

\* The increments of mStrong in IncStrong and ForceIncStrong.
LEMMA IncStep ==
  ASSUME IInv, NEW h \in Handles, IncStrongAdd(h) \/ ForceIncStrongAdd(h)
  PROVE  IInv' /\ LifetimeStep
  <1>1. TypeOK /\ pc[h] \in {"inc_strong", "force_strong"} /\ cur' = cur /\ cur \in [Handles -> Int]
    BY DEF IInv, TypeOK, IncStrongAdd, ForceIncStrongAdd
  <1>2. /\ src[h] \in Handles \cup {"raw"}
        /\ \/ StrongSource(src[h])
           \/ pc[h] = "force_strong" /\ mFlags = "WEAK" /\ WeakSource(src[h])
    BY <1>1 DEF IInv, SourcesHeld, TypeOK, StrongSource, WeakSource
  <1>3. base /\ (mFlags = "STRONG" /\ everStrong => StrongSet # {})
    <2>1. base
      BY <1>2, SourceFacts
    <2>2. StrongSource(src[h]) /\ everStrong => StrongSet # {}
      <3>1. CASE raw
        BY <3>1 DEF IInv, RawProtects
      <3>2. CASE src[h] \in Handles /\ pc[src[h]] = "strong"
        BY <3>2 DEF StrongSet, StrongPoints
      <3>3. QED
        BY <3>1, <3>2 DEF StrongSource
    <2>3. QED
      BY <1>2, <2>1, <2>2
  <1>4. /\ mStrong >= 0
        /\ mStrong = 0 => everStrong /\ StrongSet = {}
        /\ INITIAL_STRONG_VALUE # 0
    BY StrongValues, CountAssumption
  <1>5. /\ mStrong' = mStrong + 1 /\ everStrong' = TRUE
        /\ src' = [src EXCEPT ![h] = "none"]
        /\ UNCHANGED <<mWeak, mFlags, base, impl, raw, hooks>>
    BY DEF IncStrongAdd, ForceIncStrongAdd
  <1>6. CASE IncStrongAdd(h)
    <2>1. StrongSource(src[h])
      BY <1>2, <1>6 DEF IncStrongAdd
    <2>2. mStrong # 0
      <3>1. CASE raw
        BY <1>4, <3>1 DEF IInv, RawProtects
      <3>2. CASE src[h] \in Handles /\ pc[src[h]] = "strong"
        BY <1>4, <3>2 DEF StrongSet, StrongPoints
      <3>3. QED
        BY <2>1, <3>1, <3>2 DEF StrongSource
    <2>3. PICK l \in StrongPoints : Goto(h, l) /\ (l \in FixPoints <=> mStrong = INITIAL_STRONG_VALUE)
      <3>1. CASE mStrong = INITIAL_STRONG_VALUE
        BY <1>4, <1>6, <2>2, <3>1, CountAssumption DEF IncStrongAdd, StrongPoints, FixPoints
      <3>2. CASE mStrong # INITIAL_STRONG_VALUE
        BY <1>4, <1>6, <2>2, <3>2, <1>1 DEF IncStrongAdd, StrongPoints, FixPoints, TypeOK
      <3>3. QED
        BY <3>1, <3>2
    <2>4. QED
      BY <1>1, <1>3, <1>5, <2>3, StrongUp
  <1>7. CASE ForceIncStrongAdd(h)
    <2>1. PICK l \in StrongPoints : Goto(h, l) /\ (l \in FixPoints <=> mStrong = INITIAL_STRONG_VALUE)
      <3>1. CASE mStrong = INITIAL_STRONG_VALUE
        <4>1. Goto(h, "force_fix")
          BY <1>4, <1>7, <3>1, CountAssumption DEF ForceIncStrongAdd
        <4>2. QED
          BY <3>1, <4>1 DEF StrongPoints, FixPoints
      <3>2. CASE mStrong = 0
        <4>1. Goto(h, "first_ref")
          BY <1>4, <1>7, <3>2 DEF ForceIncStrongAdd
        <4>2. QED
          BY <1>4, <3>2, <4>1 DEF StrongPoints, FixPoints
      <3>3. CASE mStrong # INITIAL_STRONG_VALUE /\ mStrong # 0
        <4>1. Goto(h, "strong")
          BY <1>1, <1>4, <1>7, <3>3 DEF ForceIncStrongAdd, TypeOK
        <4>2. QED
          BY <3>3, <4>1 DEF StrongPoints, FixPoints
      <3>4. QED
        BY <3>1, <3>2, <3>3
    <2>2. QED
      BY <1>1, <1>3, <1>5, <2>1, StrongUp
  <1>8. QED
    BY <1>6, <1>7

\* The loads and compare-and-swaps of AttemptIncStrong.
LEMMA AttemptStep ==
  ASSUME IInv, NEW h \in Handles, AttemptLoad(h) \/ AttemptCas(h) \/ AttemptInitCas(h)
  PROVE  IInv' /\ LifetimeStep
  <1>1. /\ TypeOK /\ cur \in [Handles -> Int] /\ mStrong \in Nat
        /\ src \in [Handles -> Handles \cup {"raw", "none"}]
        /\ pc[h] \in {"att_load", "att_cas", "att_init"}
        /\ mFlags \in {"STRONG", "WEAK"}
    BY DEF IInv, TypeOK, AttemptLoad, AttemptCas, AttemptInitCas
  <1>2. cur' \in [Handles -> Int] /\ \A g \in Handles : g # h => cur'[g] = cur[g]
    BY <1>1 DEF AttemptLoad, AttemptCas, AttemptInitCas
  <1>3. /\ mStrong = INITIAL_STRONG_VALUE <=> ~everStrong
        /\ mStrong # 0 /\ everStrong => StrongSet # {}
    BY StrongValues
  <1>4. CASE mStrong' = mStrong
    <2>1. UNCHANGED <<mStrong, mWeak, mFlags, base, impl, raw, src, everStrong, hooks>>
      BY <1>1, <1>4 DEF AttemptLoad, AttemptCas, AttemptInitCas
    <2>2. cur'[h] = mStrong /\ hooks' \in Int
      BY <1>1, <1>4 DEF AttemptLoad, AttemptCas, AttemptInitCas, TypeOK
    <2>3. PICK l : /\ Goto(h, l)
                   /\ l \in {"att_cas", "att_init", "att_hook", "dec_weak"}
                   /\ l \in {"att_cas", "att_init"} => mStrong > 0
                   /\ l = "att_cas" => mStrong # INITIAL_STRONG_VALUE
                   /\ l = "att_init" => mFlags = "STRONG"
                   /\ l = "att_hook" => mFlags = "WEAK"
      <3>1. CASE AttemptLoad(h) \/ AttemptCas(h)
        <4>1. Goto(h, AttemptRoute(mStrong))
          BY <1>1, <1>4, <3>1 DEF AttemptLoad, AttemptCas
        <4>2. /\ AttemptRoute(mStrong) \in {"att_cas", "att_init", "att_hook", "dec_weak"}
              /\ AttemptRoute(mStrong) \in {"att_cas", "att_init"} => mStrong > 0
              /\ AttemptRoute(mStrong) = "att_cas" => mStrong # INITIAL_STRONG_VALUE
              /\ AttemptRoute(mStrong) = "att_init" => mFlags = "STRONG"
              /\ AttemptRoute(mStrong) = "att_hook" => mFlags = "WEAK"
          BY <1>1, CountAssumption DEF AttemptRoute
        <4>3. QED
          BY <4>1, <4>2
      <3>2. CASE AttemptInitCas(h)
        BY <1>1, <1>4, <3>2 DEF AttemptInitCas, IInv, ModePoints
      <3>3. QED
        BY <3>1, <3>2
    <2>4. l \in Points
      BY <2>3 DEF Points, WeakPoints
    <2>5. QED
      BY <1>1, <1>2, <2>1, <2>2, <2>3, <2>4, QuietMove
  <1>5. CASE mStrong' = mStrong + 1
    <2>1. pc[h] \in {"att_cas", "att_init"} /\ mStrong = cur[h] /\ mStrong > 0
      BY <1>1, <1>5 DEF AttemptLoad, AttemptCas, AttemptInitCas, IInv, ModePoints
    <2>2. /\ everStrong' = TRUE
          /\ UNCHANGED <<mWeak, mFlags, base, impl, raw, hooks, src>>
      BY <1>1, <1>5 DEF AttemptLoad, AttemptCas, AttemptInitCas
    <2>3. src' = [src EXCEPT ![h] = "none"]
      BY <1>1, <2>1, <2>2 DEF IInv, SourcesHeld
    <2>4. base
      <3>1. h \in WeakSet /\ pc[h] # "null"
        BY <2>1 DEF WeakSet, WeakPoints
      <3>2. QED
        BY <1>3, <2>1, <3>1 DEF IInv, Lifetimes
    <2>5. PICK l \in StrongPoints : Goto(h, l) /\ (l \in FixPoints <=> mStrong = INITIAL_STRONG_VALUE)
      <3>1. CASE pc[h] = "att_cas"
        <4>1. Goto(h, "strong") /\ mStrong # INITIAL_STRONG_VALUE
          BY <1>1, <1>5, <2>1, <3>1 DEF AttemptLoad, AttemptCas, AttemptInitCas, IInv, ModePoints
        <4>2. QED
          BY <4>1 DEF StrongPoints, FixPoints
      <3>2. CASE pc[h] = "att_init"
        <4>1. Goto(h, IF mStrong = INITIAL_STRONG_VALUE THEN "att_fix" ELSE "strong")
          BY <1>1, <1>5, <2>1, <3>2 DEF AttemptLoad, AttemptCas, AttemptInitCas
        <4>2. QED
          BY <4>1 DEF StrongPoints, FixPoints
      <3>3. QED
        BY <2>1, <3>1, <3>2
    <2>6. everStrong => StrongSet # {}
      BY <1>1, <1>3, <2>1
    <2>7. QED
      BY <1>2, <1>5, <2>1, <2>2, <2>3, <2>4, <2>5, <2>6, StrongUp
  <1>6. QED
    BY <1>1, <1>4, <1>5 DEF AttemptLoad, AttemptCas, AttemptInitCas

\* The fetch_add of a revival.
LEMMA AttemptAddStep ==
  ASSUME IInv, NEW h \in Handles, AttemptAdd(h)
  PROVE  IInv' /\ LifetimeStep
  <1>1. /\ TypeOK /\ cur \in [Handles -> Int] /\ mStrong \in Nat
        /\ pc[h] = "att_add" /\ mFlags = "WEAK"
    BY DEF IInv, TypeOK, AttemptAdd, ModePoints
  <1>2. cur' \in [Handles -> Int] /\ \A g \in Handles : g # h => cur'[g] = cur[g]
    BY <1>1 DEF AttemptAdd
  <1>3. base
    BY <1>1 DEF IInv, Lifetimes, WeakSet, WeakPoints
  <1>4. src' = [src EXCEPT ![h] = "none"]
    BY <1>1 DEF IInv, SourcesHeld, TypeOK, AttemptAdd
  <1>5. PICK l \in StrongPoints : Goto(h, l) /\ (l \in FixPoints <=> mStrong = INITIAL_STRONG_VALUE)
    <2>1. CASE mStrong = INITIAL_STRONG_VALUE
      <3>1. Goto(h, "att_fix")
        BY <2>1, CountAssumption DEF AttemptAdd
      <3>2. QED
        BY <2>1, <3>1 DEF StrongPoints, FixPoints
    <2>2. CASE mStrong # INITIAL_STRONG_VALUE
      <3>1. Goto(h, "strong") \/ Goto(h, "att_last")
        BY <2>2 DEF AttemptAdd
      <3>2. QED
        BY <2>2, <3>1 DEF StrongPoints, FixPoints
    <2>3. QED
      BY <2>1, <2>2
  <1>6. QED
    BY <1>1, <1>2, <1>3, <1>4, <1>5, StrongUp DEF AttemptAdd

\* Every step a handle takes by itself preserves the invariant.
LEMMA HandleStep ==
  ASSUME IInv, ~EarlyRelease, NEW h \in Handles, Step(h)
  PROVE  IInv' /\ LifetimeStep
  <1>1. /\ TypeOK /\ cur \in [Handles -> Int] /\ hooks \in Int
        /\ mFlags \in {"STRONG", "WEAK"} /\ mWeak \in Nat /\ mStrong \in Nat
    BY DEF IInv, TypeOK
  <1>2. {"strong", "first_ref", "delete", "dec_weak", "att_add"} \subseteq Points
    BY DEF Points, WeakPoints, StrongPoints
  <1>3. CASE DecWeak(h)
    <2>1. h \in WeakSet
      BY <1>3 DEF DecWeak, MayDecWeak, WeakSet, WeakPoints
    <2>2. ~BAD_WEAK(mWeak)
      BY <2>1, SetsFinite DEF BAD_WEAK, IInv, CountsExact
    <2>3. QED
      BY <1>3, <2>2, WeakDown DEF DecWeak
  <1>4. CASE DecStrong(h)
    <2>1. h \in StrongSet
      BY <1>4 DEF DecStrong, MayDecStrong, StrongSet, StrongPoints
    <2>2. ~BAD_STRONG(mStrong)
      BY <2>1, StrongValues
    <2>3. QED
      BY <1>4, <2>2, StrongDown DEF DecStrong
  <1>5. CASE SubInitial(h)
    <2>1. pc[h] \in FixPoints /\ h \in StrongSet
      BY <1>5 DEF SubInitial, FixPoints, StrongSet, StrongPoints
    <2>2. mStrong > INITIAL_STRONG_VALUE
      BY <2>1, SetsFinite, CountAssumption DEF IInv, CountsExact
    <2>3. Goto(h, "first_ref")
      BY <1>1, <1>5, <2>2, CountAssumption DEF SubInitial
    <2>4. QED
      BY <1>5, <2>1, <2>3, FixMove DEF SubInitial
  <1>6. CASE AttemptFix(h)
    BY <1>6, FixMove DEF AttemptFix, FixPoints
  <1>7. CASE OnFirstRef(h)
    BY <1>1, <1>2, <1>7, QuietMove DEF OnFirstRef
  <1>8. CASE AttemptCancel(h)
    BY <1>1, <1>2, <1>8, QuietMove DEF AttemptCancel
  <1>9. CASE OnLastStrongRef(h)
    BY <1>1, <1>2, <1>9, QuietMove DEF OnLastStrongRef
  <1>10. CASE OnIncStrongAttempted(h)
    <2>1. mFlags = "WEAK"
      BY <1>10 DEF OnIncStrongAttempted, IInv, ModePoints
    <2>2. QED
      BY <1>1, <1>2, <1>10, <2>1, QuietMove DEF OnIncStrongAttempted
  <1>11. QED
    BY <1>3, <1>4, <1>5, <1>6, <1>7, <1>8, <1>9, <1>10,
       WeakCasStep, LastWeakStep, IncStep, DeleteThisStep, AttemptStep, AttemptAddStep
       DEF Step

\* A stuttering step changes nothing.
LEMMA StutterStep == IInv /\ UNCHANGED vars => IInv' /\ LifetimeStep
  BY DEF vars, IInv, TypeOK, NoAssertion, CountsExact, SourcesHeld, ModePoints, RawProtects,
         Lifetimes, OneDestroyer, StrongSet, WeakSet, LifetimeStep, Lifetime!absVars, object

-----------------------------------------------------------------------------
(***************************************************************************)
(* The hooks and the end of the object.                                    *)
(***************************************************************************)
\* A step of a handle moves that handle only.
LEMMA StepMoves ==
  ASSUME IInv, IInv', NEW h \in Handles,
         Step(h) \/ \E s \in Handles \cup {"raw"} : Start(h, s)
  PROVE  \E l \in Points : Goto(h, l) /\ l = pc'[h]
  <1>1. TypeOK /\ TypeOK'
    BY DEF IInv
  <1>2. \E l : Goto(h, l)
    <2>1. CASE AttemptIncWeakCas(h)
      BY <1>1, <2>1 DEF Goto, TypeOK, AttemptIncWeakCas
    <2>2. CASE DecWeak(h)
      BY <1>1, <2>2 DEF Goto, TypeOK, DecWeak
    <2>3. CASE LastWeak(h)
      BY <1>1, <2>3 DEF Goto, TypeOK, LastWeak
    <2>4. CASE IncStrongAdd(h)
      BY <1>1, <2>4 DEF Goto, TypeOK, IncStrongAdd
    <2>5. CASE ForceIncStrongAdd(h)
      BY <1>1, <2>5 DEF Goto, TypeOK, ForceIncStrongAdd
    <2>6. CASE SubInitial(h)
      BY <1>1, <2>6 DEF Goto, TypeOK, SubInitial
    <2>7. CASE OnFirstRef(h)
      BY <1>1, <2>7 DEF Goto, TypeOK, OnFirstRef
    <2>8. CASE DecStrong(h)
      BY <1>1, <2>8 DEF Goto, TypeOK, DecStrong
    <2>9. CASE OnLastStrongRef(h)
      BY <1>1, <2>9 DEF Goto, TypeOK, OnLastStrongRef
    <2>10. CASE DeleteThis(h)
      BY <1>1, <2>10 DEF Goto, TypeOK, DeleteThis
    <2>11. CASE AttemptLoad(h)
      BY <1>1, <2>11 DEF Goto, TypeOK, AttemptLoad
    <2>12. CASE AttemptCas(h)
      BY <1>1, <2>12 DEF Goto, TypeOK, AttemptCas
    <2>13. CASE AttemptInitCas(h)
      BY <1>1, <2>13 DEF Goto, TypeOK, AttemptInitCas
    <2>14. CASE OnIncStrongAttempted(h)
      BY <1>1, <2>14 DEF Goto, TypeOK, OnIncStrongAttempted
    <2>15. CASE AttemptAdd(h)
      BY <1>1, <2>15 DEF Goto, TypeOK, AttemptAdd
    <2>16. CASE AttemptCancel(h)
      BY <1>1, <2>16 DEF Goto, TypeOK, AttemptCancel
    <2>17. CASE AttemptFix(h)
      BY <1>1, <2>17 DEF Goto, TypeOK, AttemptFix
    <2>18. CASE \E s \in Handles \cup {"raw"} : CreateWeak(h, s)
      BY <1>1, <2>18 DEF Goto, TypeOK, CreateWeak, IncWeakTo
    <2>19. CASE \E s \in Handles \cup {"raw"} : AttemptIncWeak(h, s)
      BY <1>1, <2>19 DEF Goto, TypeOK, AttemptIncWeak
    <2>20. CASE \E s \in Handles \cup {"raw"} : IncStrong(h, s)
      BY <1>1, <2>20 DEF Goto, TypeOK, IncStrong, IncWeakTo
    <2>21. CASE \E s \in Handles \cup {"raw"} : ForceIncStrong(h, s)
      BY <1>1, <2>21 DEF Goto, TypeOK, ForceIncStrong, IncWeakTo
    <2>22. CASE \E s \in Handles \cup {"raw"} : AttemptIncStrong(h, s)
      BY <1>1, <2>22 DEF Goto, TypeOK, AttemptIncStrong, IncWeakTo
    <2>23. QED  BY <2>1, <2>2, <2>3, <2>4, <2>5, <2>6, <2>7, <2>8, <2>9, <2>10, <2>11, <2>12, <2>13, <2>14, <2>15, <2>16, <2>17, <2>18, <2>19, <2>20, <2>21, <2>22 DEF Step, Start
  <1>3. PICK l : Goto(h, l)
    BY <1>2
  <1>4. pc'[h] = l /\ pc'[h] \in Points
    BY <1>1, <1>3 DEF Goto, TypeOK
  <1>5. QED
    BY <1>3, <1>4

\* The handles that pcs puts at the points P.
AtPoints(pcs, P) == {g \in Handles : pcs[g] \in P}

\* How such a step changes the number of handles at the points P.
LEMMA MovedCount ==
  ASSUME TypeOK, NEW h \in Handles, NEW l \in Points, Goto(h, l), NEW P
  PROVE  /\ IsFiniteSet(AtPoints(pc, P))
         /\ Cardinality(AtPoints(pc, P)) \in Nat
         /\ Cardinality(AtPoints(pc', P)) = Cardinality(AtPoints(pc, P))
               + (IF l \in P THEN 1 ELSE 0) - (IF pc[h] \in P THEN 1 ELSE 0)
  <1> DEFINE S == AtPoints(pc, P)
             T == AtPoints(pc', P)
  <1>1. pc'[h] = l /\ \A g \in Handles : g # h => pc'[g] = pc[g]
    BY DEF Goto, TypeOK
  <1>2. T = IF l \in P THEN S \cup {h} ELSE S \ {h}
    BY <1>1 DEF AtPoints
  <1>3. IsFiniteSet(S)
    BY HandlesAssumption, FS_Subset DEF AtPoints
  <1>4. /\ Cardinality(S) \in Nat
        /\ Cardinality(S \cup {h}) = IF h \in S THEN Cardinality(S) ELSE Cardinality(S) + 1
        /\ Cardinality(S \ {h}) = IF h \in S THEN Cardinality(S) - 1 ELSE Cardinality(S)
    BY <1>3, FS_AddElement, FS_RemoveElement, FS_CardinalityType
  <1>5. h \in S <=> pc[h] \in P
    BY DEF AtPoints
  <1> HIDE DEF S, T
  <1>6. Cardinality(T) = Cardinality(S) + (IF l \in P THEN 1 ELSE 0) - (IF pc[h] \in P THEN 1 ELSE 0)
    BY <1>2, <1>4, <1>5
  <1>7. QED
    BY <1>3, <1>4, <1>6 DEF S, T

\* What a handle at point p adds to the calls that opened a period.
Weight(p) == (IF p \in OpenPoints THEN 1 ELSE 0) - (IF p \in DuePoints THEN 1 ELSE 0)

\* A step of an object with extended lifetime that calls the hooks as its move asks.
LEMMA HooksMove ==
  ASSUME IInv, HooksOK, NEW h \in Handles, NEW l \in Points, Goto(h, l),
         mFlags = "WEAK", mFlags' = "WEAK",
         hooks' = hooks + (Period' - Period) + (Weight(l) - Weight(pc[h]))
  PROVE  HooksOK'
  <1>1. TypeOK
    BY DEF IInv
  <1>2. /\ Cardinality(OpenSet) \in Nat
        /\ Cardinality(OpenSet') = Cardinality(OpenSet)
               + (IF l \in OpenPoints THEN 1 ELSE 0) - (IF pc[h] \in OpenPoints THEN 1 ELSE 0)
    <2>1. OpenSet = AtPoints(pc, OpenPoints)
      BY DEF AtPoints, OpenSet
    <2>2. OpenSet' = AtPoints(pc', OpenPoints)
      BY DEF AtPoints, OpenSet, OpenPoints
    <2>3. QED
      BY <1>1, <2>1, <2>2, MovedCount
  <1>3. /\ Cardinality(DueSet) \in Nat
        /\ Cardinality(DueSet') = Cardinality(DueSet)
               + (IF l \in DuePoints THEN 1 ELSE 0) - (IF pc[h] \in DuePoints THEN 1 ELSE 0)
    <2>1. DueSet = AtPoints(pc, DuePoints)
      BY DEF AtPoints, DueSet
    <2>2. DueSet' = AtPoints(pc', DuePoints)
      BY DEF AtPoints, DueSet, DuePoints
    <2>3. QED
      BY <1>1, <2>1, <2>2, MovedCount
  <1>4. hooks = Period + Cardinality(OpenSet) - Cardinality(DueSet)
    BY DEF HooksOK
  <1>5. Period \in 0..1 /\ Period' \in 0..1
    BY DEF Period
  <1>6. hooks' = Period' + Cardinality(OpenSet') - Cardinality(DueSet')
    BY <1>2, <1>3, <1>4, <1>5 DEF Weight
  <1>7. QED
    BY <1>6 DEF HooksOK

\* A handle is the last one exactly when it finds the count at one.
LEMMA LastOne ==
  ASSUME IInv, NEW h \in StrongSet, pc[h] = "strong"
  PROVE  mStrong = 1 <=> StrongSet \ {h} = {}
  <1>1. mStrong = 1 => StrongSet \ {h} = {}
    BY StrongValues
  <1>2. ASSUME StrongSet \ {h} = {} PROVE mStrong = 1
    <2>1. StrongSet = {h} /\ Cardinality({h}) = 1
      BY <1>2, FS_Singleton
    <2>2. everStrong /\ \A g \in Handles : pc[g] \notin FixPoints
      BY <2>1 DEF IInv, Lifetimes, FixPoints, StrongSet, StrongPoints
    <2>3. QED
      BY <2>1, <2>2 DEF IInv, CountsExact
  <1>3. QED
    BY <1>1, <1>2

\* A step between points that neither hold the object nor owe a call leaves the period alone.
LEMMA NeutralMove ==
  ASSUME IInv, NEW h \in Handles, NEW l \in Points, Goto(h, l),
         pc[h] \notin StrongPoints \cup OpenPoints, l \notin StrongPoints \cup OpenPoints
  PROVE  Period' = Period /\ Weight(l) = 0 /\ Weight(pc[h]) = 0
  <1>1. StrongSet' = StrongSet
    <2>1. StrongSet' = StrongSet \ {h}
      BY GotoSets DEF IInv
    <2>2. h \notin StrongSet
      BY DEF StrongSet
    <2>3. QED
      BY <2>1, <2>2
  <1>2. QED
    BY <1>1 DEF Period, Weight, DuePoints, StrongPoints

\* Each step of a handle on an object with extended lifetime does.
LEMMA HooksAsked ==
  ASSUME IInv, IInv', NEW h \in Handles, Step(h) \/ \E s \in Handles \cup {"raw"} : Start(h, s),
         NEW l \in Points, Goto(h, l), mFlags = "WEAK"
  PROVE  hooks' = hooks + (Period' - Period) + (Weight(l) - Weight(pc[h])) /\ mFlags' = "WEAK"
  <1>1. /\ TypeOK /\ TypeOK' /\ mStrong \in Nat /\ mWeak \in Nat /\ hooks \in Int /\ mFlags \in {"STRONG", "WEAK"}
        /\ l # "abort" /\ pc[h] \in Points /\ pc'[h] = l /\ \A g \in Handles : g # h => pc'[g] = pc[g]
        /\ INITIAL_STRONG_VALUE \in Nat /\ INITIAL_STRONG_VALUE # 0
    BY CountAssumption DEF IInv, TypeOK, NoAssertion, Goto
  <1>2. StrongSet' = IF l \in StrongPoints THEN StrongSet \cup {h} ELSE StrongSet \ {h}
    BY <1>1, GotoSets
  <1>3. h \in StrongSet <=> pc[h] \in StrongPoints
    BY DEF StrongSet
  <1>4. /\ mStrong = 0 => StrongSet = {}
        /\ mStrong = INITIAL_STRONG_VALUE => StrongSet = {}
        /\ mStrong # 0 /\ mStrong # INITIAL_STRONG_VALUE => StrongSet # {}
    BY StrongValues DEF IInv, Lifetimes
  <1>5. Period \in 0..1 /\ Period' \in 0..1 /\ (StrongSet = {} <=> Period = 0) /\ (StrongSet' = {} <=> Period' = 0)
    BY DEF Period
  <1>6. CASE AttemptIncWeakCas(h)
    <2>1. /\ pc[h] = "weak_cas" /\ l \in {"null", "weak", "weak_cas"}
          /\ UNCHANGED <<hooks, mFlags, base, impl, raw, everStrong>>
      BY <1>1, <1>6 DEF Goto, TypeOK, AttemptIncWeakCas
    <2>2. pc[h] \notin StrongPoints \cup OpenPoints /\ l \notin StrongPoints \cup OpenPoints
      BY <2>1 DEF StrongPoints, OpenPoints
    <2>3. Period' = Period /\ Weight(l) = 0 /\ Weight(pc[h]) = 0
      BY <2>2, NeutralMove
    <2>4. QED
      BY <1>1, <1>5, <2>1, <2>3
  <1>7. CASE DecWeak(h)
    <2>1. /\ pc[h] \in {"weak", "dec_weak"}
          /\ \/ mWeak = 1 /\ l = "weak_zero"
             \/ mWeak # 1 /\ l = "null"
          /\ UNCHANGED <<hooks, mFlags, base, impl, raw, everStrong>>
      BY <1>1, <1>7 DEF Goto, TypeOK, DecWeak, MayDecWeak, BAD_WEAK
    <2>2. pc[h] \notin StrongPoints \cup OpenPoints /\ l \notin StrongPoints \cup OpenPoints
      BY <2>1 DEF StrongPoints, OpenPoints
    <2>3. Period' = Period /\ Weight(l) = 0 /\ Weight(pc[h]) = 0
      BY <2>2, NeutralMove
    <2>4. QED
      BY <1>1, <1>5, <2>1, <2>3
  <1>8. CASE LastWeak(h)
    <2>1. /\ pc[h] = "weak_zero" /\ l = "null"
          /\ UNCHANGED <<hooks, mFlags, raw, everStrong>>
      BY <1>1, <1>8 DEF Goto, TypeOK, LastWeak, Destructor
    <2>2. pc[h] \notin StrongPoints \cup OpenPoints /\ l \notin StrongPoints \cup OpenPoints
      BY <2>1 DEF StrongPoints, OpenPoints
    <2>3. Period' = Period /\ Weight(l) = 0 /\ Weight(pc[h]) = 0
      BY <2>2, NeutralMove
    <2>4. QED
      BY <1>1, <1>5, <2>1, <2>3
  <1>9. CASE IncStrongAdd(h)
    <2>1. /\ pc[h] = "inc_strong"
          /\ \/ mStrong = INITIAL_STRONG_VALUE /\ l = "inc_fix"
             \/ mStrong # INITIAL_STRONG_VALUE /\ mStrong # 0 /\ l = "strong"
          /\ UNCHANGED <<hooks, mFlags, base, impl, raw>> /\ everStrong'
      BY <1>1, <1>9 DEF Goto, TypeOK, IncStrongAdd
    <2>2. Period' = 1 /\ (Period = 0 <=> mStrong = 0 \/ mStrong = INITIAL_STRONG_VALUE)
      <3>1. l \in StrongPoints
        BY <2>1 DEF StrongPoints
      <3>2. QED
        BY <1>2, <1>4, <1>5, <3>1
    <2>3. QED
      BY <1>1, <1>5, <2>1, <2>2 DEF Weight, OpenPoints, DuePoints
  <1>10. CASE ForceIncStrongAdd(h)
    <2>1. /\ pc[h] = "force_strong"
          /\ \/ mStrong = INITIAL_STRONG_VALUE /\ l = "force_fix"
             \/ mStrong = 0 /\ l = "first_ref"
             \/ mStrong # INITIAL_STRONG_VALUE /\ mStrong # 0 /\ l = "strong"
          /\ UNCHANGED <<hooks, mFlags, base, impl, raw>> /\ everStrong'
      BY <1>1, <1>10 DEF Goto, TypeOK, ForceIncStrongAdd
    <2>2. Period' = 1 /\ (Period = 0 <=> mStrong = 0 \/ mStrong = INITIAL_STRONG_VALUE)
      <3>1. l \in StrongPoints
        BY <2>1 DEF StrongPoints
      <3>2. QED
        BY <1>2, <1>4, <1>5, <3>1
    <2>3. QED
      BY <1>1, <1>5, <2>1, <2>2 DEF Weight, OpenPoints, DuePoints
  <1>11. CASE SubInitial(h)
    <2>1. /\ pc[h] \in {"inc_fix", "force_fix"} /\ l = "first_ref"
          /\ UNCHANGED <<hooks, mFlags, base, impl, raw, everStrong>>
      BY <1>1, <1>11 DEF Goto, TypeOK, SubInitial
    <2>2. Period' = 1 /\ Period = 1
      BY <1>2, <1>3, <1>5, <2>1 DEF StrongPoints
    <2>3. QED
      BY <1>1, <2>1, <2>2 DEF Weight, OpenPoints, DuePoints
  <1>12. CASE OnFirstRef(h)
    <2>1. /\ pc[h] = "first_ref" /\ l = "strong"
          /\ hooks' = hooks + 1
          /\ UNCHANGED <<mFlags, base, impl, raw, everStrong>>
      BY <1>1, <1>12 DEF Goto, TypeOK, OnFirstRef
    <2>2. Period' = 1 /\ Period = 1
      BY <1>2, <1>3, <1>5, <2>1 DEF StrongPoints
    <2>3. QED
      BY <1>1, <2>1, <2>2 DEF Weight, OpenPoints, DuePoints
  <1>13. CASE DecStrong(h)
    <2>1. /\ pc[h] = "strong"
          /\ \/ mStrong = 1 /\ l = "last"
             \/ mStrong # 1 /\ l = "dec_weak"
          /\ UNCHANGED <<hooks, mFlags, base, impl, raw, everStrong>>
      BY <1>1, <1>13 DEF Goto, TypeOK, DecStrong, MayDecStrong, BAD_STRONG
    <2>2. Period = 1 /\ StrongSet' = StrongSet \ {h} /\ h \in StrongSet
      BY <1>2, <1>3, <1>5, <2>1 DEF StrongPoints
    <2>3. mStrong = 1 <=> StrongSet' = {}
      BY <2>1, <2>2, LastOne
    <2>4. CASE mStrong = 1
      <3>1. Weight(l) = 1 /\ Weight(pc[h]) = 0 /\ Period' = 0
        BY <1>5, <2>1, <2>3, <2>4 DEF Weight, OpenPoints, DuePoints
      <3>2. QED
        BY <1>1, <2>1, <2>2, <3>1
    <2>5. CASE mStrong # 1
      <3>1. Weight(l) = 0 /\ Weight(pc[h]) = 0 /\ Period' = 1
        BY <1>5, <2>1, <2>3, <2>5 DEF Weight, OpenPoints, DuePoints
      <3>2. QED
        BY <1>1, <2>1, <2>2, <3>1
    <2>6. QED
      BY <2>4, <2>5
  <1>14. CASE OnLastStrongRef(h)
    <2>1. /\ pc[h] = "last"
          /\ \/ mFlags = "STRONG" /\ l = "delete"
             \/ mFlags = "WEAK" /\ l = "dec_weak"
          /\ hooks' = hooks - 1
          /\ UNCHANGED <<mFlags, base, impl, raw, everStrong>>
      BY <1>1, <1>14 DEF Goto, TypeOK, OnLastStrongRef
    <2>2. Period' = Period
      BY <1>2, <1>3, <2>1 DEF StrongPoints, Period
    <2>3. QED
      BY <1>1, <1>5, <2>1, <2>2 DEF Weight, OpenPoints, DuePoints
  <1>15. CASE DeleteThis(h)
    <2>1. /\ pc[h] = "delete" /\ l = "dec_weak" /\ base' = FALSE
          /\ UNCHANGED <<hooks, mFlags, raw, everStrong>>
      BY <1>1, <1>15 DEF Goto, TypeOK, DeleteThis, Destructor
    <2>2. pc[h] \notin StrongPoints \cup OpenPoints /\ l \notin StrongPoints \cup OpenPoints
      BY <2>1 DEF StrongPoints, OpenPoints
    <2>3. Period' = Period /\ Weight(l) = 0 /\ Weight(pc[h]) = 0
      BY <2>2, NeutralMove
    <2>4. QED
      BY <1>1, <1>5, <2>1, <2>3
  <1>16. CASE AttemptLoad(h)
    <2>1. /\ pc[h] = "att_load" /\ l \in {"att_cas", "att_hook", "att_init", "dec_weak"}
          /\ UNCHANGED <<hooks, mFlags, base, impl, raw, everStrong>>
      BY <1>1, <1>16 DEF Goto, TypeOK, AttemptLoad, AttemptRoute
    <2>2. pc[h] \notin StrongPoints \cup OpenPoints /\ l \notin StrongPoints \cup OpenPoints
      BY <2>1 DEF StrongPoints, OpenPoints
    <2>3. Period' = Period /\ Weight(l) = 0 /\ Weight(pc[h]) = 0
      BY <2>2, NeutralMove
    <2>4. QED
      BY <1>1, <1>5, <2>1, <2>3
  <1>17. CASE AttemptCas(h)
    <2>1. /\ pc[h] = "att_cas"
          /\ \/ l = "strong" /\ mStrong # INITIAL_STRONG_VALUE /\ mStrong # 0 /\ UNCHANGED <<hooks, mFlags, base, impl, raw>> /\ everStrong'
             \/ l \in {"att_cas", "att_hook", "att_init", "dec_weak"} /\ UNCHANGED <<hooks, mFlags, base, impl, raw, everStrong>>
      BY <1>1, <1>17, StrongValues, CountAssumption DEF Goto, TypeOK, AttemptCas, AttemptRoute, IInv, ModePoints
    <2>2. CASE l = "strong"
      <3>1. Period' = 1 /\ Period = 1
        BY <1>2, <1>4, <1>5, <2>1, <2>2 DEF StrongPoints
      <3>2. QED
        BY <1>1, <2>1, <2>2, <3>1 DEF Weight, OpenPoints, DuePoints
    <2>3. CASE l # "strong"
      <3>1. pc[h] \notin StrongPoints \cup OpenPoints /\ l \notin StrongPoints \cup OpenPoints
        BY <2>1, <2>3 DEF StrongPoints, OpenPoints
      <3>2. Period' = Period /\ Weight(l) = 0 /\ Weight(pc[h]) = 0
        BY <3>1, NeutralMove
      <3>3. QED
        BY <1>1, <1>5, <2>1, <2>3, <3>2
    <2>4. QED
      BY <2>2, <2>3
  <1>18. CASE AttemptInitCas(h)
    <2>1. /\ pc[h] = "att_init" /\ mFlags = "STRONG"
          /\ \/ l \in {"att_fix", "strong"} /\ UNCHANGED <<hooks, mFlags, base, impl, raw>> /\ everStrong'
             \/ l \in {"att_init", "dec_weak"} /\ UNCHANGED <<hooks, mFlags, base, impl, raw, everStrong>>
      BY <1>1, <1>18 DEF Goto, TypeOK, AttemptInitCas, IInv, ModePoints
    <2>2. QED
      BY <2>1
  <1>19. CASE OnIncStrongAttempted(h)
    <2>1. /\ pc[h] = "att_hook"
          /\ \/ l = "att_add" /\ hooks' = hooks + 1
             \/ l = "dec_weak" /\ hooks' = hooks
          /\ UNCHANGED <<mFlags, base, impl, raw, everStrong>>
      BY <1>1, <1>19 DEF Goto, TypeOK, OnIncStrongAttempted
    <2>2. Period' = Period
      BY <1>2, <1>3, <2>1 DEF StrongPoints, Period
    <2>3. QED
      BY <1>1, <1>5, <2>1, <2>2 DEF Weight, OpenPoints, DuePoints
  <1>20. CASE AttemptAdd(h)
    <2>1. /\ pc[h] = "att_add"
          /\ \/ mStrong = INITIAL_STRONG_VALUE /\ l = "att_fix"
             \/ mStrong = 0 /\ l = "strong"
             \/ mStrong # INITIAL_STRONG_VALUE /\ mStrong # 0 /\ l = "att_last"
          /\ UNCHANGED <<hooks, mFlags, base, impl, raw>> /\ everStrong'
      BY <1>1, <1>20 DEF Goto, TypeOK, AttemptAdd
    <2>2. Period' = 1 /\ (Period = 0 <=> mStrong = 0 \/ mStrong = INITIAL_STRONG_VALUE)
      <3>1. l \in StrongPoints
        BY <2>1 DEF StrongPoints
      <3>2. QED
        BY <1>2, <1>4, <1>5, <3>1
    <2>3. QED
      BY <1>1, <1>5, <2>1, <2>2 DEF Weight, OpenPoints, DuePoints
  <1>21. CASE AttemptCancel(h)
    <2>1. /\ pc[h] = "att_last" /\ l = "strong"
          /\ hooks' = hooks - 1
          /\ UNCHANGED <<mFlags, base, impl, raw, everStrong>>
      BY <1>1, <1>21 DEF Goto, TypeOK, AttemptCancel
    <2>2. Period' = 1 /\ Period = 1
      BY <1>2, <1>3, <1>5, <2>1 DEF StrongPoints
    <2>3. QED
      BY <1>1, <2>1, <2>2 DEF Weight, OpenPoints, DuePoints
  <1>22. CASE AttemptFix(h)
    <2>1. /\ pc[h] = "att_fix" /\ l = "strong"
          /\ UNCHANGED <<hooks, mFlags, base, impl, raw, everStrong>>
      BY <1>1, <1>22 DEF Goto, TypeOK, AttemptFix
    <2>2. Period' = 1 /\ Period = 1
      BY <1>2, <1>3, <1>5, <2>1 DEF StrongPoints
    <2>3. QED
      BY <1>1, <2>1, <2>2 DEF Weight, OpenPoints, DuePoints
  <1>23. CASE \E s \in Handles \cup {"raw"} : CreateWeak(h, s)
    <2>1. /\ pc[h] = "null" /\ l = "weak"
          /\ UNCHANGED <<hooks, mFlags, base, impl, raw, everStrong>>
      BY <1>1, <1>23 DEF Goto, TypeOK, CreateWeak, IncWeakTo
    <2>2. pc[h] \notin StrongPoints \cup OpenPoints /\ l \notin StrongPoints \cup OpenPoints
      BY <2>1 DEF StrongPoints, OpenPoints
    <2>3. Period' = Period /\ Weight(l) = 0 /\ Weight(pc[h]) = 0
      BY <2>2, NeutralMove
    <2>4. QED
      BY <1>1, <1>5, <2>1, <2>3
  <1>24. CASE \E s \in Handles \cup {"raw"} : AttemptIncWeak(h, s)
    <2>1. /\ pc[h] = "null" /\ l = "weak_cas"
          /\ UNCHANGED <<hooks, mFlags, base, impl, raw, everStrong>>
      BY <1>1, <1>24 DEF Goto, TypeOK, AttemptIncWeak
    <2>2. pc[h] \notin StrongPoints \cup OpenPoints /\ l \notin StrongPoints \cup OpenPoints
      BY <2>1 DEF StrongPoints, OpenPoints
    <2>3. Period' = Period /\ Weight(l) = 0 /\ Weight(pc[h]) = 0
      BY <2>2, NeutralMove
    <2>4. QED
      BY <1>1, <1>5, <2>1, <2>3
  <1>25. CASE \E s \in Handles \cup {"raw"} : IncStrong(h, s)
    <2>1. /\ pc[h] = "null" /\ l = "inc_strong"
          /\ UNCHANGED <<hooks, mFlags, base, impl, raw, everStrong>>
      BY <1>1, <1>25 DEF Goto, TypeOK, IncStrong, IncWeakTo
    <2>2. pc[h] \notin StrongPoints \cup OpenPoints /\ l \notin StrongPoints \cup OpenPoints
      BY <2>1 DEF StrongPoints, OpenPoints
    <2>3. Period' = Period /\ Weight(l) = 0 /\ Weight(pc[h]) = 0
      BY <2>2, NeutralMove
    <2>4. QED
      BY <1>1, <1>5, <2>1, <2>3
  <1>26. CASE \E s \in Handles \cup {"raw"} : ForceIncStrong(h, s)
    <2>1. /\ pc[h] = "null" /\ l = "force_strong"
          /\ UNCHANGED <<hooks, mFlags, base, impl, raw, everStrong>>
      BY <1>1, <1>26 DEF Goto, TypeOK, ForceIncStrong, IncWeakTo
    <2>2. pc[h] \notin StrongPoints \cup OpenPoints /\ l \notin StrongPoints \cup OpenPoints
      BY <2>1 DEF StrongPoints, OpenPoints
    <2>3. Period' = Period /\ Weight(l) = 0 /\ Weight(pc[h]) = 0
      BY <2>2, NeutralMove
    <2>4. QED
      BY <1>1, <1>5, <2>1, <2>3
  <1>27. CASE \E s \in Handles \cup {"raw"} : AttemptIncStrong(h, s)
    <2>1. /\ pc[h] = "null" /\ l = "att_load"
          /\ UNCHANGED <<hooks, mFlags, base, impl, raw, everStrong>>
      BY <1>1, <1>27 DEF Goto, TypeOK, AttemptIncStrong, IncWeakTo
    <2>2. pc[h] \notin StrongPoints \cup OpenPoints /\ l \notin StrongPoints \cup OpenPoints
      BY <2>1 DEF StrongPoints, OpenPoints
    <2>3. Period' = Period /\ Weight(l) = 0 /\ Weight(pc[h]) = 0
      BY <2>2, NeutralMove
    <2>4. QED
      BY <1>1, <1>5, <2>1, <2>3
  <1>28. QED
    BY <1>6, <1>7, <1>8, <1>9, <1>10, <1>11, <1>12, <1>13, <1>14, <1>15, <1>16, <1>17, <1>18, <1>19, <1>20, <1>21, <1>22, <1>23, <1>24, <1>25, <1>26, <1>27 DEF Step, Start

\* Before the first strong reference of an object of normal lifetime no hook is called.
LEMMA NoHookYet ==
  ASSUME IInv, IInv', HooksOK, NEW h \in Handles, Step(h) \/ \E s \in Handles \cup {"raw"} : Start(h, s),
         mFlags = "STRONG"
  PROVE  HooksOK'
  <1>1. mFlags' = "STRONG" /\ (~everStrong' => ~everStrong)
    BY DEF Step, Start, AttemptIncWeakCas, DecWeak, LastWeak, IncStrongAdd, ForceIncStrongAdd, SubInitial, OnFirstRef, DecStrong, OnLastStrongRef, DeleteThis, AttemptLoad, AttemptCas, AttemptInitCas, OnIncStrongAttempted, AttemptAdd, AttemptCancel, AttemptFix, CreateWeak, AttemptIncWeak, IncStrong, ForceIncStrong, AttemptIncStrong, Destructor
  <1>2. ~everStrong => pc[h] \notin {"first_ref", "att_last", "last", "att_hook"}
    BY DEF IInv, Lifetimes, StrongSet, StrongPoints, ModePoints
  <1>3. pc[h] \notin {"first_ref", "att_last", "last", "att_hook"} => hooks' = hooks
    BY DEF Step, Start, AttemptIncWeakCas, DecWeak, LastWeak, IncStrongAdd, ForceIncStrongAdd, SubInitial, OnFirstRef, DecStrong, OnLastStrongRef, DeleteThis, AttemptLoad, AttemptCas, AttemptInitCas, OnIncStrongAttempted, AttemptAdd, AttemptCancel, AttemptFix, CreateWeak, AttemptIncWeak, IncStrong, ForceIncStrong, AttemptIncStrong, Destructor
  <1>4. QED
    BY <1>1, <1>2, <1>3 DEF HooksOK

\* Every step keeps the hooks balanced.
LEMMA NextHooks ==
  ASSUME IInv, IInv', HooksOK, [Next]_vars
  PROVE  HooksOK'
  <1>1. CASE UNCHANGED vars
    BY <1>1 DEF vars, HooksOK, Period, OpenSet, DueSet, StrongSet
  <1>2. CASE DeleteRaw \/ DropRaw
    BY <1>2 DEF DeleteRaw, DropRaw, HooksOK, Period, OpenSet, DueSet, StrongSet
  <1>3. CASE ExtendObjectLifetime
    <2>1. /\ raw /\ mFlags' = "WEAK" /\ hooks' = hooks /\ pc' = pc /\ \A h \in Handles : pc[h] = "null"
      BY <1>3 DEF ExtendObjectLifetime
    <2>2. StrongSet = {} /\ OpenSet = {} /\ DueSet = {}
      BY <2>1 DEF StrongSet, StrongPoints, OpenSet, OpenPoints, DueSet, DuePoints
    <2>3. StrongSet' = {} /\ OpenSet' = {} /\ DueSet' = {}
      BY <2>1, <2>2 DEF StrongSet, OpenSet, DueSet
    <2>4. Cardinality({}) = 0
      BY FS_EmptySet
    <2>5. ~everStrong /\ mFlags \in {"STRONG", "WEAK"}
      BY <2>1, <2>2 DEF IInv, RawProtects, TypeOK
    <2>6. hooks = 0
      BY <2>2, <2>4, <2>5 DEF HooksOK, Period
    <2>7. QED
      BY <2>1, <2>3, <2>4, <2>6 DEF HooksOK, Period
  <1>4. ASSUME NEW h \in Handles, Step(h) \/ \E s \in Handles \cup {"raw"} : Start(h, s)
        PROVE  HooksOK'
    <2>1. CASE mFlags = "STRONG"
      BY <1>4, <2>1, NoHookYet
    <2>2. CASE mFlags = "WEAK"
      <3>1. PICK l \in Points : Goto(h, l)
        BY <1>4, StepMoves
      <3>2. hooks' = hooks + (Period' - Period) + (Weight(l) - Weight(pc[h])) /\ mFlags' = "WEAK"
        BY <1>4, <2>2, <3>1, HooksAsked
      <3>3. QED
        BY <2>2, <3>1, <3>2, HooksMove
    <2>3. QED
      BY <2>1, <2>2 DEF IInv, TypeOK
  <1>5. QED
    BY <1>1, <1>2, <1>3, <1>4 DEF Next

\* A step to a point that counts weakly, of a handle that was not about to delete the object.
LEMMA HeldMove ==
  ASSUME IInv, IInv', LeakOK, NEW h \in Handles, NEW l \in WeakPoints, Goto(h, l),
         \/ l \in StrongPoints
         \/ l \in {"last", "delete"}
         \/ base' = FALSE
         \/ /\ UNCHANGED <<mFlags, base, everStrong>> /\ (mFlags = "STRONG" => (StrongSet' = {} => StrongSet = {}))
            /\ mFlags = "STRONG" => pc[h] \notin {"last", "delete"}
  PROVE  LeakOK'
  <1>1. TypeOK /\ TypeOK' /\ l \in Points
    BY DEF IInv, Points
  <1>2. pc'[h] = l /\ \A g \in Handles : g # h => pc'[g] = pc[g]
    BY <1>1, GotoSets
  <1>3. h \in WeakSet' /\ (l \in StrongPoints => h \in StrongSet')
    BY <1>2 DEF WeakSet, StrongSet, StrongPoints, WeakPoints
  <1>4. ASSUME mFlags' = "STRONG", everStrong', StrongSet' = {}, base'
        PROVE  \E g \in Handles : pc'[g] \in {"last", "delete"}
    <2>1. CASE l \in {"last", "delete"}
      BY <1>2, <2>1
    <2>2. CASE l \notin {"last", "delete"}
      <3>1. /\ UNCHANGED <<mFlags, base, everStrong>> /\ StrongSet = {}
            /\ pc[h] \notin {"last", "delete"}
        BY <1>3, <1>4, <2>2
      <3>2. PICK g \in Handles : pc[g] \in {"last", "delete"}
        BY <1>4, <3>1 DEF LeakOK
      <3>3. QED
        BY <1>2, <3>1, <3>2
    <2>3. QED
      BY <2>1, <2>2
  <1>5. QED
    BY <1>3, <1>4 DEF LeakOK

\* A step out of the weak count, or one that never was in it.
LEMMA LeftMove ==
  ASSUME IInv, IInv', LeakOK, NEW h \in Handles, NEW l \in Points, Goto(h, l),
         pc[h] \notin StrongPoints \cup {"last", "delete", "weak_zero"}, l \notin WeakPoints,
         UNCHANGED <<mFlags, base, impl, raw, everStrong>>,
         WeakSet' = WeakSet \/ WeakSet' # {} \/ l = "weak_zero"
  PROVE  LeakOK'
  <1>1. TypeOK
    BY DEF IInv
  <1>2. pc'[h] = l /\ \A g \in Handles : g # h => pc'[g] = pc[g]
    BY <1>1, GotoSets
  <1>3. StrongSet' = StrongSet
    <2>1. StrongSet' = StrongSet \ {h} /\ h \notin StrongSet
      BY <1>1, GotoSets DEF StrongSet, WeakPoints
    <2>2. QED
      BY <2>1
  <1>4. (\E g \in Handles : pc[g] \in {"last", "delete"}) => \E g \in Handles : pc'[g] \in {"last", "delete"}
    BY <1>2
  <1>5. (\E g \in Handles : pc[g] = "weak_zero") => \E g \in Handles : pc'[g] = "weak_zero"
    BY <1>2
  <1>6. l = "weak_zero" => \E g \in Handles : pc'[g] = "weak_zero"
    BY <1>2
  <1>7. QED
    BY <1>3, <1>4, <1>5, <1>6 DEF LeakOK

\* LastWeak deletes what is left.
LEMMA LastWeakLeaks ==
  ASSUME IInv, IInv', LeakOK, NEW h \in Handles, LastWeak(h)
  PROVE  LeakOK'
  <1>1. /\ TypeOK /\ pc[h] = "weak_zero" /\ pc' = [pc EXCEPT ![h] = "null"]
        /\ UNCHANGED <<mStrong, mWeak, mFlags, raw, everStrong>>
    BY DEF IInv, LastWeak, Goto
  <1>2. \A g \in Handles : g # h => pc[g] = "null"
    BY <1>1 DEF IInv, Lifetimes
  <1>3. StrongSet = {} /\ WeakSet = {} /\ \A g \in Handles : pc[g] \notin FixPoints \cup {"last", "delete"}
    BY <1>1, <1>2 DEF StrongSet, WeakSet, StrongPoints, WeakPoints, FixPoints
  <1>4. mWeak = 0 /\ (everStrong => mStrong = 0)
    BY <1>3, SetsFinite DEF IInv, CountsExact
  <1>5. INITIAL_STRONG_VALUE # 0 /\ mFlags \in {"STRONG", "WEAK"}
    BY CountAssumption DEF IInv, TypeOK
  <1>6. CASE mFlags = "STRONG"
    <2>1. everStrong => ~base /\ ~base' /\ ~impl'
      BY <1>3, <1>4, <1>5, <1>6 DEF LastWeak, LeakOK
    <2>2. QED
      BY <1>1, <1>6, <2>1 DEF LeakOK
  <1>7. CASE mFlags = "WEAK"
    <2>1. ~base' /\ ~impl'
      BY <1>4, <1>7 DEF LastWeak, Destructor
    <2>2. QED
      BY <1>1, <1>7, <2>1 DEF LeakOK
  <1>8. QED
    BY <1>5, <1>6, <1>7

\* Every step of a handle leaves somebody to delete what was released.
LEMMA HandleLeaks ==
  ASSUME IInv, IInv', LeakOK, NEW h \in Handles,
         Step(h) \/ \E s \in Handles \cup {"raw"} : Start(h, s)
  PROVE  LeakOK'
  <1>0. PICK l \in Points : Goto(h, l)
    BY StepMoves
  <1>1. /\ TypeOK /\ TypeOK' /\ mStrong \in Nat /\ mWeak \in Nat /\ hooks \in Int /\ mFlags \in {"STRONG", "WEAK"}
        /\ l # "abort" /\ pc[h] \in Points /\ pc'[h] = l /\ \A g \in Handles : g # h => pc'[g] = pc[g]
        /\ INITIAL_STRONG_VALUE \in Nat /\ INITIAL_STRONG_VALUE # 0
    BY <1>0, CountAssumption DEF IInv, TypeOK, NoAssertion, Goto
  <1>2. /\ StrongSet' = IF l \in StrongPoints THEN StrongSet \cup {h} ELSE StrongSet \ {h}
        /\ WeakSet' = IF l \in WeakPoints THEN WeakSet \cup {h} ELSE WeakSet \ {h}
    BY <1>0, <1>1, GotoSets
  <1>3. (h \in StrongSet <=> pc[h] \in StrongPoints) /\ (h \in WeakSet <=> pc[h] \in WeakPoints)
    BY DEF StrongSet, WeakSet
  <1>4. CASE AttemptIncWeakCas(h)
    <2>1. /\ pc[h] = "weak_cas" /\ l \in {"null", "weak", "weak_cas"}
          /\ UNCHANGED <<hooks, mFlags, base, impl, raw, everStrong>>
      BY <1>1, <1>4 DEF Goto, TypeOK, AttemptIncWeakCas
    <2>2. CASE l = "weak"
      <3>1. l \in WeakPoints /\ StrongSet' = StrongSet
        BY <1>2, <1>3, <2>1, <2>2 DEF StrongPoints, WeakPoints
      <3>2. QED
        BY <1>0, <2>1, <2>2, <3>1, HeldMove
    <2>3. CASE l # "weak"
      <3>1. l \notin WeakPoints /\ pc[h] \notin StrongPoints /\ WeakSet' = WeakSet
        BY <1>2, <1>3, <2>1, <2>3 DEF StrongPoints, WeakPoints
      <3>2. QED
        BY <1>0, <2>1, <3>1, LeftMove
    <2>4. QED
      BY <2>2, <2>3
  <1>5. CASE DecWeak(h)
    <2>1. /\ pc[h] \in {"weak", "dec_weak"}
          /\ \/ mWeak = 1 /\ l = "weak_zero"
             \/ mWeak # 1 /\ l = "null"
          /\ UNCHANGED <<hooks, mFlags, base, impl, raw, everStrong>>
      BY <1>1, <1>5 DEF Goto, TypeOK, DecWeak, MayDecWeak, BAD_WEAK
    <2>2. l \notin WeakPoints /\ pc[h] \notin StrongPoints /\ h \in WeakSet
      BY <1>3, <2>1 DEF StrongPoints, WeakPoints
    <2>3. mWeak # 1 => WeakSet' # {}
      <3>1. WeakSet' = {} => WeakSet = {h}
        BY <1>2, <2>2
      <3>2. Cardinality({h}) = 1 /\ mWeak = Cardinality(WeakSet)
        BY FS_Singleton DEF IInv, CountsExact
      <3>3. QED
        BY <3>1, <3>2
    <2>4. QED
      BY <1>0, <2>1, <2>2, <2>3, LeftMove
  <1>6. CASE IncStrongAdd(h)
    <2>1. /\ pc[h] = "inc_strong"
          /\ \/ mStrong = INITIAL_STRONG_VALUE /\ l = "inc_fix"
             \/ mStrong # INITIAL_STRONG_VALUE /\ mStrong # 0 /\ l = "strong"
          /\ UNCHANGED <<hooks, mFlags, base, impl, raw>> /\ everStrong'
      BY <1>1, <1>6 DEF Goto, TypeOK, IncStrongAdd
    <2>2. l \in StrongPoints /\ l \in WeakPoints
      BY <2>1 DEF StrongPoints, WeakPoints
    <2>3. QED
      BY <1>0, <2>2, HeldMove
  <1>7. CASE ForceIncStrongAdd(h)
    <2>1. /\ pc[h] = "force_strong"
          /\ \/ mStrong = INITIAL_STRONG_VALUE /\ l = "force_fix"
             \/ mStrong = 0 /\ l = "first_ref"
             \/ mStrong # INITIAL_STRONG_VALUE /\ mStrong # 0 /\ l = "strong"
          /\ UNCHANGED <<hooks, mFlags, base, impl, raw>> /\ everStrong'
      BY <1>1, <1>7 DEF Goto, TypeOK, ForceIncStrongAdd
    <2>2. l \in StrongPoints /\ l \in WeakPoints
      BY <2>1 DEF StrongPoints, WeakPoints
    <2>3. QED
      BY <1>0, <2>2, HeldMove
  <1>8. CASE SubInitial(h)
    <2>1. /\ pc[h] \in {"inc_fix", "force_fix"} /\ l = "first_ref"
          /\ UNCHANGED <<hooks, mFlags, base, impl, raw, everStrong>>
      BY <1>1, <1>8 DEF Goto, TypeOK, SubInitial
    <2>2. l \in StrongPoints /\ l \in WeakPoints
      BY <2>1 DEF StrongPoints, WeakPoints
    <2>3. QED
      BY <1>0, <2>2, HeldMove
  <1>9. CASE OnFirstRef(h)
    <2>1. /\ pc[h] = "first_ref" /\ l = "strong"
          /\ hooks' = hooks + 1
          /\ UNCHANGED <<mFlags, base, impl, raw, everStrong>>
      BY <1>1, <1>9 DEF Goto, TypeOK, OnFirstRef
    <2>2. l \in StrongPoints /\ l \in WeakPoints
      BY <2>1 DEF StrongPoints, WeakPoints
    <2>3. QED
      BY <1>0, <2>2, HeldMove
  <1>10. CASE DecStrong(h)
    <2>1. /\ pc[h] = "strong"
          /\ \/ mStrong = 1 /\ l = "last"
             \/ mStrong # 1 /\ l = "dec_weak"
          /\ UNCHANGED <<hooks, mFlags, base, impl, raw, everStrong>>
      BY <1>1, <1>10 DEF Goto, TypeOK, DecStrong, MayDecStrong, BAD_STRONG
    <2>2. l \in WeakPoints /\ h \in StrongSet /\ StrongSet' = StrongSet \ {h}
      BY <1>2, <1>3, <2>1 DEF StrongPoints, WeakPoints
    <2>3. l = "last" \/ StrongSet' # {}
      BY <2>1, <2>2, LastOne
    <2>4. QED
      BY <1>0, <2>1, <2>2, <2>3, HeldMove
  <1>11. CASE OnLastStrongRef(h)
    <2>1. /\ pc[h] = "last"
          /\ \/ mFlags = "STRONG" /\ l = "delete"
             \/ mFlags = "WEAK" /\ l = "dec_weak"
          /\ hooks' = hooks - 1
          /\ UNCHANGED <<mFlags, base, impl, raw, everStrong>>
      BY <1>1, <1>11 DEF Goto, TypeOK, OnLastStrongRef
    <2>2. l \in WeakPoints /\ (pc[h] \in StrongPoints => FALSE)
      BY <2>1 DEF StrongPoints, WeakPoints
    <2>3. l \notin StrongPoints => StrongSet' = StrongSet
      BY <1>2, <1>3, <2>2
    <2>4. QED
      BY <1>0, <2>1, <2>2, <2>3, HeldMove
  <1>12. CASE DeleteThis(h)
    <2>1. /\ pc[h] = "delete" /\ l = "dec_weak" /\ base' = FALSE
          /\ UNCHANGED <<hooks, mFlags, raw, everStrong>>
      BY <1>1, <1>12 DEF Goto, TypeOK, DeleteThis, Destructor
    <2>2. l \in WeakPoints /\ (pc[h] \in StrongPoints => FALSE)
      BY <2>1 DEF StrongPoints, WeakPoints
    <2>3. l \notin StrongPoints => StrongSet' = StrongSet
      BY <1>2, <1>3, <2>2
    <2>4. QED
      BY <1>0, <2>1, <2>2, <2>3, HeldMove
  <1>13. CASE AttemptLoad(h)
    <2>1. /\ pc[h] = "att_load" /\ l \in {"att_cas", "att_hook", "att_init", "dec_weak"}
          /\ UNCHANGED <<hooks, mFlags, base, impl, raw, everStrong>>
      BY <1>1, <1>13 DEF Goto, TypeOK, AttemptLoad, AttemptRoute
    <2>2. l \in WeakPoints /\ (pc[h] \in StrongPoints => FALSE)
      BY <2>1 DEF StrongPoints, WeakPoints
    <2>3. l \notin StrongPoints => StrongSet' = StrongSet
      BY <1>2, <1>3, <2>2
    <2>4. QED
      BY <1>0, <2>1, <2>2, <2>3, HeldMove
  <1>14. CASE AttemptCas(h)
    <2>1. /\ pc[h] = "att_cas"
          /\ \/ l = "strong" /\ mStrong # INITIAL_STRONG_VALUE /\ mStrong # 0 /\ UNCHANGED <<hooks, mFlags, base, impl, raw>> /\ everStrong'
             \/ l \in {"att_cas", "att_hook", "att_init", "dec_weak"} /\ UNCHANGED <<hooks, mFlags, base, impl, raw, everStrong>>
      BY <1>1, <1>14, StrongValues, CountAssumption DEF Goto, TypeOK, AttemptCas, AttemptRoute, IInv, ModePoints
    <2>2. l \in WeakPoints /\ (pc[h] \in StrongPoints => FALSE)
      BY <2>1 DEF StrongPoints, WeakPoints
    <2>3. l \notin StrongPoints => StrongSet' = StrongSet
      BY <1>2, <1>3, <2>2
    <2>4. CASE l \in StrongPoints
      BY <1>0, <2>2, <2>4, HeldMove
    <2>5. CASE l \notin StrongPoints
      <3>1. UNCHANGED <<mFlags, base, everStrong>> /\ pc[h] \notin {"last", "delete"}
        BY <2>1, <2>5 DEF StrongPoints
      <3>2. QED
        BY <1>0, <2>2, <2>3, <2>5, <3>1, HeldMove
    <2>6. QED
      BY <2>4, <2>5
  <1>15. CASE AttemptInitCas(h)
    <2>1. /\ pc[h] = "att_init" /\ mFlags = "STRONG"
          /\ \/ l \in {"att_fix", "strong"} /\ UNCHANGED <<hooks, mFlags, base, impl, raw>> /\ everStrong'
             \/ l \in {"att_init", "dec_weak"} /\ UNCHANGED <<hooks, mFlags, base, impl, raw, everStrong>>
      BY <1>1, <1>15 DEF Goto, TypeOK, AttemptInitCas, IInv, ModePoints
    <2>2. l \in WeakPoints /\ (pc[h] \in StrongPoints => FALSE)
      BY <2>1 DEF StrongPoints, WeakPoints
    <2>3. l \notin StrongPoints => StrongSet' = StrongSet
      BY <1>2, <1>3, <2>2
    <2>4. CASE l \in StrongPoints
      BY <1>0, <2>2, <2>4, HeldMove
    <2>5. CASE l \notin StrongPoints
      <3>1. UNCHANGED <<mFlags, base, everStrong>> /\ pc[h] \notin {"last", "delete"}
        BY <2>1, <2>5 DEF StrongPoints
      <3>2. QED
        BY <1>0, <2>2, <2>3, <2>5, <3>1, HeldMove
    <2>6. QED
      BY <2>4, <2>5
  <1>16. CASE OnIncStrongAttempted(h)
    <2>1. /\ pc[h] = "att_hook"
          /\ \/ l = "att_add" /\ hooks' = hooks + 1
             \/ l = "dec_weak" /\ hooks' = hooks
          /\ UNCHANGED <<mFlags, base, impl, raw, everStrong>>
      BY <1>1, <1>16 DEF Goto, TypeOK, OnIncStrongAttempted
    <2>2. l \in WeakPoints /\ (pc[h] \in StrongPoints => FALSE)
      BY <2>1 DEF StrongPoints, WeakPoints
    <2>3. l \notin StrongPoints => StrongSet' = StrongSet
      BY <1>2, <1>3, <2>2
    <2>4. QED
      BY <1>0, <2>1, <2>2, <2>3, HeldMove
  <1>17. CASE AttemptAdd(h)
    <2>1. /\ pc[h] = "att_add"
          /\ \/ mStrong = INITIAL_STRONG_VALUE /\ l = "att_fix"
             \/ mStrong = 0 /\ l = "strong"
             \/ mStrong # INITIAL_STRONG_VALUE /\ mStrong # 0 /\ l = "att_last"
          /\ UNCHANGED <<hooks, mFlags, base, impl, raw>> /\ everStrong'
      BY <1>1, <1>17 DEF Goto, TypeOK, AttemptAdd
    <2>2. l \in StrongPoints /\ l \in WeakPoints
      BY <2>1 DEF StrongPoints, WeakPoints
    <2>3. QED
      BY <1>0, <2>2, HeldMove
  <1>18. CASE AttemptCancel(h)
    <2>1. /\ pc[h] = "att_last" /\ l = "strong"
          /\ hooks' = hooks - 1
          /\ UNCHANGED <<mFlags, base, impl, raw, everStrong>>
      BY <1>1, <1>18 DEF Goto, TypeOK, AttemptCancel
    <2>2. l \in StrongPoints /\ l \in WeakPoints
      BY <2>1 DEF StrongPoints, WeakPoints
    <2>3. QED
      BY <1>0, <2>2, HeldMove
  <1>19. CASE AttemptFix(h)
    <2>1. /\ pc[h] = "att_fix" /\ l = "strong"
          /\ UNCHANGED <<hooks, mFlags, base, impl, raw, everStrong>>
      BY <1>1, <1>19 DEF Goto, TypeOK, AttemptFix
    <2>2. l \in StrongPoints /\ l \in WeakPoints
      BY <2>1 DEF StrongPoints, WeakPoints
    <2>3. QED
      BY <1>0, <2>2, HeldMove
  <1>20. CASE \E s \in Handles \cup {"raw"} : CreateWeak(h, s)
    <2>1. /\ pc[h] = "null" /\ l = "weak"
          /\ UNCHANGED <<hooks, mFlags, base, impl, raw, everStrong>>
      BY <1>1, <1>20 DEF Goto, TypeOK, CreateWeak, IncWeakTo
    <2>2. l \in WeakPoints /\ (pc[h] \in StrongPoints => FALSE)
      BY <2>1 DEF StrongPoints, WeakPoints
    <2>3. l \notin StrongPoints => StrongSet' = StrongSet
      BY <1>2, <1>3, <2>2
    <2>4. QED
      BY <1>0, <2>1, <2>2, <2>3, HeldMove
  <1>21. CASE \E s \in Handles \cup {"raw"} : AttemptIncWeak(h, s)
    <2>1. /\ pc[h] = "null" /\ l = "weak_cas"
          /\ UNCHANGED <<hooks, mFlags, base, impl, raw, everStrong>>
      BY <1>1, <1>21 DEF Goto, TypeOK, AttemptIncWeak
    <2>2. l \notin WeakPoints /\ pc[h] \notin StrongPoints /\ WeakSet' = WeakSet
      BY <1>2, <1>3, <2>1 DEF StrongPoints, WeakPoints
    <2>3. QED
      BY <1>0, <2>1, <2>2, LeftMove
  <1>22. CASE \E s \in Handles \cup {"raw"} : IncStrong(h, s)
    <2>1. /\ pc[h] = "null" /\ l = "inc_strong"
          /\ UNCHANGED <<hooks, mFlags, base, impl, raw, everStrong>>
      BY <1>1, <1>22 DEF Goto, TypeOK, IncStrong, IncWeakTo
    <2>2. l \in WeakPoints /\ (pc[h] \in StrongPoints => FALSE)
      BY <2>1 DEF StrongPoints, WeakPoints
    <2>3. l \notin StrongPoints => StrongSet' = StrongSet
      BY <1>2, <1>3, <2>2
    <2>4. QED
      BY <1>0, <2>1, <2>2, <2>3, HeldMove
  <1>23. CASE \E s \in Handles \cup {"raw"} : ForceIncStrong(h, s)
    <2>1. /\ pc[h] = "null" /\ l = "force_strong"
          /\ UNCHANGED <<hooks, mFlags, base, impl, raw, everStrong>>
      BY <1>1, <1>23 DEF Goto, TypeOK, ForceIncStrong, IncWeakTo
    <2>2. l \in WeakPoints /\ (pc[h] \in StrongPoints => FALSE)
      BY <2>1 DEF StrongPoints, WeakPoints
    <2>3. l \notin StrongPoints => StrongSet' = StrongSet
      BY <1>2, <1>3, <2>2
    <2>4. QED
      BY <1>0, <2>1, <2>2, <2>3, HeldMove
  <1>24. CASE \E s \in Handles \cup {"raw"} : AttemptIncStrong(h, s)
    <2>1. /\ pc[h] = "null" /\ l = "att_load"
          /\ UNCHANGED <<hooks, mFlags, base, impl, raw, everStrong>>
      BY <1>1, <1>24 DEF Goto, TypeOK, AttemptIncStrong, IncWeakTo
    <2>2. l \in WeakPoints /\ (pc[h] \in StrongPoints => FALSE)
      BY <2>1 DEF StrongPoints, WeakPoints
    <2>3. l \notin StrongPoints => StrongSet' = StrongSet
      BY <1>2, <1>3, <2>2
    <2>4. QED
      BY <1>0, <2>1, <2>2, <2>3, HeldMove
  <1>25. QED
    BY LastWeakLeaks, <1>4, <1>5, <1>6, <1>7, <1>8, <1>9, <1>10, <1>11, <1>12, <1>13, <1>14, <1>15, <1>16, <1>17, <1>18, <1>19, <1>20, <1>21, <1>22, <1>23, <1>24 DEF Step, Start

\* So does every step of the creator.
LEMMA NextLeaks ==
  ASSUME IInv, IInv', LeakOK, [Next]_vars
  PROVE  LeakOK'
  <1>1. CASE UNCHANGED vars
    BY <1>1 DEF vars, LeakOK, StrongSet, WeakSet
  <1>2. CASE ExtendObjectLifetime
    BY <1>2 DEF ExtendObjectLifetime, LeakOK
  <1>3. CASE DropRaw
    <2>1. StrongSet' = StrongSet /\ WeakSet' = WeakSet /\ UNCHANGED <<mFlags, everStrong, base, pc>>
      BY <1>3 DEF DropRaw, StrongSet, WeakSet
    <2>2. WeakSet # {}
      BY <1>3 DEF DropRaw, WeakSet, WeakPoints, StrongPoints
    <2>3. QED
      BY <2>1, <2>2 DEF LeakOK
  <1>4. CASE DeleteRaw
    <2>1. /\ raw /\ base' = FALSE /\ UNCHANGED <<mFlags, everStrong, mWeak, mStrong>>
          /\ \A h \in Handles : pc[h] = "null"
      BY <1>4 DEF DeleteRaw, Destructor
    <2>2. StrongSet = {} /\ WeakSet = {}
      BY <2>1 DEF StrongSet, WeakSet, StrongPoints, WeakPoints
    <2>3. ~everStrong /\ mWeak = 0
      BY <2>1, <2>2, SetsFinite DEF IInv, RawProtects, CountsExact
    <2>4. mFlags = "WEAK" => ~impl'
      BY <1>4, <2>3 DEF DeleteRaw, Destructor
    <2>5. QED
      BY <2>1, <2>3, <2>4 DEF LeakOK
  <1>5. QED
    BY <1>1, <1>2, <1>3, <1>4, HandleLeaks DEF Next

-----------------------------------------------------------------------------
\* The invariant holds for any number of handles, when weak references are not
\* released while the creator still uses its pointer.
THEOREM Invariance == ~EarlyRelease => (Spec => []IInv)
  <1> SUFFICES ASSUME ~EarlyRelease PROVE Spec => []IInv
    OBVIOUS
  <1>1. IInv /\ [Next]_vars => IInv'
    BY HandleStep, StartStep, RawStep, StutterStep DEF Next
  <1>2. QED
    BY <1>1, InitIInv, PTL DEF Spec

\* Type correctness of the reference counting: in particular neither counter is
\* ever negative.
THEOREM TypeCorrect == ~EarlyRelease => (Spec => []TypeOK)
  <1> SUFFICES ASSUME ~EarlyRelease PROVE Spec => []TypeOK
    OBVIOUS
  <1>1. IInv => TypeOK
    BY DEF IInv
  <1>2. QED
    BY <1>1, Invariance, PTL

\* No assert(0) of ccmrefbase.cpp is ever reached.
THEOREM AssertionsHold == ~EarlyRelease => (Spec => []NoAssertion)
  <1> SUFFICES ASSUME ~EarlyRelease PROVE Spec => []NoAssertion
    OBVIOUS
  <1>1. IInv => NoAssertion
    BY DEF IInv
  <1>2. QED
    BY <1>1, Invariance, PTL

\* The counters count the references, for any number of handles.
THEOREM CountsCorrect == ~EarlyRelease => (Spec => []CountsExact)
  <1> SUFFICES ASSUME ~EarlyRelease PROVE Spec => []CountsExact
    OBVIOUS
  <1>1. IInv => CountsExact
    BY DEF IInv
  <1>2. QED
    BY <1>1, Invariance, PTL

\* No operation of any handle touches a control block that was freed.
THEOREM BlockSafe == ~EarlyRelease => (Spec => []ImplNotFreed)
  <1> SUFFICES ASSUME ~EarlyRelease PROVE Spec => []ImplNotFreed
    OBVIOUS
  <1>1. IInv => ImplNotFreed
    BY DEF IInv, Lifetimes, RawProtects, ImplNotFreed, WeakPoints, StrongPoints
  <1>2. QED
    BY <1>1, Invariance, PTL

\* No operation of any handle uses an object that was deleted.
THEOREM ObjectSafe == ~EarlyRelease => (Spec => []ObjectAlive)
  <1> SUFFICES ASSUME ~EarlyRelease PROVE Spec => []ObjectAlive
    OBVIOUS
  <1>1. IInv => ObjectAlive
    <2> SUFFICES ASSUME IInv PROVE ObjectAlive
      OBVIOUS
    <2>1. raw => base
      BY DEF IInv, RawProtects
    <2>2. ASSUME NEW h \in Handles, UsesBase(h) PROVE base
      <3>1. CASE pc[h] \in StrongPoints
        BY <3>1 DEF IInv, Lifetimes, StrongSet
      <3>2. CASE pc[h] \in {"inc_strong", "force_strong"}
        <4>1. /\ src[h] \in Handles \cup {"raw"}
              /\ \/ StrongSource(src[h])
                 \/ mFlags = "WEAK" /\ WeakSource(src[h])
          BY <3>2 DEF IInv, SourcesHeld, TypeOK, StrongSource, WeakSource
        <4>2. QED
          BY <4>1, SourceFacts
      <3>3. CASE pc[h] \in {"last", "delete"}
        <4>1. mFlags = "STRONG" \/ (mFlags = "WEAK" /\ h \in WeakSet)
          BY <3>3 DEF IInv, TypeOK, WeakSet, WeakPoints
        <4>2. QED
          BY <3>3, <4>1 DEF IInv, OneDestroyer, Lifetimes
      <3>4. CASE pc[h] \in {"att_hook", "att_add"}
        <4>1. mFlags = "WEAK" /\ h \in WeakSet
          BY <3>4 DEF IInv, ModePoints, WeakSet, WeakPoints
        <4>2. QED
          BY <4>1 DEF IInv, Lifetimes
      <3>5. CASE pc[h] = "weak_zero" /\ mFlags = "WEAK"
        BY <3>5 DEF IInv, Lifetimes
      <3>6. QED
        BY <2>2, <3>1, <3>2, <3>3, <3>4, <3>5 DEF UsesBase
    <2>3. QED
      BY <2>1, <2>2 DEF ObjectAlive
  <1>2. QED
    BY <1>1, Invariance, PTL

\* The implementor of an object with extended lifetime hears of the beginning and
\* the end of every strong period exactly once, however promotions race.
THEOREM HooksCorrect == ~EarlyRelease => (Spec => []HooksBalanced)
  <1> SUFFICES ASSUME ~EarlyRelease PROVE Spec => []HooksBalanced
    OBVIOUS
  <1>1. Init => HooksOK
    BY DEF Init, HooksOK
  <1>2. IInv /\ IInv' /\ HooksOK /\ [Next]_vars => HooksOK'
    BY NextHooks
  <1>3. HooksOK => HooksBalanced
    <2> SUFFICES ASSUME HooksOK, mFlags = "WEAK", \A h \in Handles : pc[h] \in {"null", "weak", "strong"}
                 PROVE  hooks = IF StrongSet = {} THEN 0 ELSE 1
      BY DEF HooksBalanced
    <2>1. OpenSet = {} /\ DueSet = {}
      BY DEF OpenSet, OpenPoints, DueSet, DuePoints
    <2>2. Cardinality({}) = 0
      BY FS_EmptySet
    <2>3. QED
      BY <2>1, <2>2 DEF HooksOK, Period
  <1>4. QED
    BY <1>1, <1>2, <1>3, Invariance, PTL DEF Spec

\* When the last reference is gone so are the object and its control block,
\* whichever handles released them and in whatever order.
THEOREM NothingLeaks == ~EarlyRelease => (Spec => []NoLeak)
  <1> SUFFICES ASSUME ~EarlyRelease PROVE Spec => []NoLeak
    OBVIOUS
  <1>1. Init => LeakOK
    BY DEF Init, LeakOK
  <1>2. IInv /\ IInv' /\ LeakOK /\ [Next]_vars => LeakOK'
    BY NextLeaks
  <1>3. IInv /\ LeakOK => NoLeak
    <2> SUFFICES ASSUME IInv, LeakOK, ~raw, everStrong \/ mFlags = "WEAK", \A h \in Handles : pc[h] = "null"
                 PROVE  ~base /\ ~impl
      BY DEF NoLeak
    <2>1. StrongSet = {} /\ WeakSet = {} /\ mFlags \in {"STRONG", "WEAK"}
      BY DEF StrongSet, WeakSet, StrongPoints, WeakPoints, IInv, TypeOK
    <2>2. QED
      BY <2>1 DEF LeakOK
  <1>4. QED
    BY <1>1, <1>2, <1>3, Invariance, PTL DEF Spec

\* With the normal lifetime no promotion revives an object whose last strong
\* reference was released.
THEOREM NeverRevived == ~EarlyRelease => (Spec => NotRevived)
  <1> SUFFICES ASSUME ~EarlyRelease PROVE Spec => NotRevived
    OBVIOUS
  <1>1. IInv /\ IInv' /\ [Next]_vars
          => [(mFlags = "STRONG" /\ everStrong /\ StrongSet = {}) => StrongSet' = {}]_vars
    <2> SUFFICES ASSUME IInv, IInv', [Next]_vars,
                        mFlags = "STRONG", everStrong, StrongSet = {}
                 PROVE  StrongSet' = {}
      OBVIOUS
    <2>1. LifetimeStep
      BY HandleStep, StartStep, RawStep, StutterStep DEF Next
    <2>2. object \in {"gone", "dying"}
      BY DEF object
    <2>3. QED
      BY <2>1, <2>2 DEF LifetimeStep, Lifetime!Next, Lifetime!Extend, Lifetime!Acquire,
                        Lifetime!Release, Lifetime!Destroy, Lifetime!absVars
  <1>2. QED
    BY <1>1, Invariance, PTL DEF Spec, NotRevived

\* The counters implement ObjectLifetime, for any number of handles.
THEOREM Refinement == ~EarlyRelease => (Spec => ImplementsLifetime)
  <1> SUFFICES ASSUME ~EarlyRelease PROVE Spec => ImplementsLifetime
    OBVIOUS
  <1>1. Init => Lifetime!Init
    <2> SUFFICES ASSUME Init PROVE Lifetime!Init
      OBVIOUS
    <2>1. StrongSet = {} /\ mFlags = "STRONG" /\ object = "fresh"
      BY DEF Init, StrongSet, StrongPoints, object
    <2>2. QED
      BY <2>1 DEF Lifetime!Init
  <1>2. IInv /\ [Next]_vars => [Lifetime!Next]_(Lifetime!absVars)
    BY HandleStep, StartStep, RawStep, StutterStep DEF Next, LifetimeStep
  <1>3. QED
    BY <1>1, <1>2, Invariance, PTL DEF Spec, ImplementsLifetime, Lifetime!Spec
=============================================================================
