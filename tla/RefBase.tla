------------------------------- MODULE RefBase -------------------------------
(***************************************************************************)
(* One reference-counted object of the component runtime: RefBase and its  *)
(* WeakRefImpl (runtime/util/ccmrefbase.cpp), used concurrently by a set   *)
(* of handles.  A handle is a place that may hold a counted reference: an  *)
(* AutoPtr (strong) or a WeakReferenceImpl (weak).  Every handle runs at   *)
(* most one operation at a time; the operations of different handles       *)
(* interleave at every access to the atomics mStrong and mWeak.            *)
(***************************************************************************)
EXTENDS Integers, FiniteSets

CONSTANTS
    Handles,                \* the AutoPtr and weak reference variables
    INITIAL_STRONG_VALUE,   \* what mStrong holds before the first reference
    MAX_COUNT,              \* the largest count the BAD_ macros accept
    EarlyRelease            \* weak references may be released while the object
                            \* has had no strong one and its creator goes on using it

ASSUME HandlesAssumption ==
    /\ IsFiniteSet(Handles)
    /\ "raw" \notin Handles
    /\ "none" \notin Handles

\* Fewer references than the sanity macros of the code accept.
ASSUME CountAssumption ==
    /\ INITIAL_STRONG_VALUE \in Nat
    /\ MAX_COUNT \in Nat \ {0}
    /\ Cardinality(Handles) <= MAX_COUNT
    /\ MAX_COUNT < INITIAL_STRONG_VALUE

ASSUME EarlyReleaseAssumption == EarlyRelease \in BOOLEAN

VARIABLES
    mStrong,     \* WeakRefImpl::mStrong
    mWeak,       \* WeakRefImpl::mWeak
    mFlags,      \* the lifetime mode, "STRONG" or "WEAK"
    base,        \* the RefBase has not been deleted
    impl,        \* the WeakRefImpl has not been deleted
    raw,         \* the creator still uses the uncounted pointer it got from new
    pc,          \* what each handle holds, or where its operation is
    cur,         \* the local curCount of AttemptIncStrong and AttemptIncWeak
    src,         \* the reference an operation in progress copies from
    everStrong,  \* history: a strong reference was taken
    hooks        \* history: calls that open a strong period (OnFirstRef,
                 \* a granted OnIncStrongAttempted) less calls of OnLastStrongRef

vars == <<mStrong, mWeak, mFlags, base, impl, raw, pc, cur, src, everStrong, hooks>>

(***************************************************************************)
(* Program points.                                                         *)
(***************************************************************************)
\* Points of a handle that owns one unit of mStrong.
StrongPoints == {"strong", "inc_fix", "force_fix", "first_ref", "att_fix", "att_last"}

\* Points of a handle that owns one unit of mWeak.
WeakPoints == StrongPoints \cup
    {"weak", "inc_strong", "force_strong", "att_load", "att_cas", "att_init",
     "att_hook", "att_add", "last", "delete", "dec_weak"}

Points == WeakPoints \cup {"null", "weak_cas", "weak_zero", "abort"}

\* Points whose next step takes INITIAL_STRONG_VALUE back out of mStrong.
FixPoints == {"inc_fix", "force_fix", "att_fix"}

StrongSet == {h \in Handles : pc[h] \in StrongPoints}
WeakSet   == {h \in Handles : pc[h] \in WeakPoints}

Goto(h, l) == pc' = [pc EXCEPT ![h] = l]

(***************************************************************************)
(* The contract of the callers.  An operation is started from a reference  *)
(* that stays in place until the operation has a count of its own, and     *)
(* nobody gives up a reference that could be the last one while the        *)
(* creator still uses its uncounted pointer.  The code means to allow one  *)
(* exception, a weak reference to an object of normal lifetime that had no *)
(* strong one; EarlyRelease says whether callers make use of it.           *)
(***************************************************************************)
Pinned(h) == \E g \in Handles : src[g] = h

StrongSource(s) == (s = "raw" /\ raw) \/ (s \in Handles /\ pc[s] = "strong")
WeakSource(s)   == s \in Handles /\ pc[s] = "weak"

MayDecStrong(h) == pc[h] = "strong" /\ ~Pinned(h) /\ ~raw
MayDecWeak(h)   == pc[h] = "weak" /\ ~Pinned(h)
                      /\ (raw => EarlyRelease /\ mFlags = "STRONG")

(***************************************************************************)
(* BAD_STRONG and BAD_WEAK.                                                *)
(***************************************************************************)
\* Variant: the mask lost its INITIAL_STRONG_VALUE bit.
BAD_STRONG_NoInitial(c) == ~(c \in 1..MAX_COUNT)

BAD_STRONG(c) == ~(c \in 1..MAX_COUNT
                   \/ c \in INITIAL_STRONG_VALUE..(INITIAL_STRONG_VALUE + MAX_COUNT))
BAD_WEAK(c) == ~(c \in 1..MAX_COUNT)

Init ==
    /\ mStrong = INITIAL_STRONG_VALUE
    /\ mWeak = 0
    /\ mFlags = "STRONG"
    /\ base = TRUE
    /\ impl = TRUE
    /\ raw = TRUE
    /\ pc = [h \in Handles |-> "null"]
    /\ cur = [h \in Handles |-> 0]
    /\ src = [h \in Handles |-> "none"]
    /\ everStrong = FALSE
    /\ hooks = 0

-----------------------------------------------------------------------------
(***************************************************************************)
(* Construction and destruction.                                           *)
(***************************************************************************)
\* RefBase::ExtendObjectLifetime, called by a constructor: no handle yet.
ExtendObjectLifetime ==
    /\ raw
    /\ \A h \in Handles : pc[h] = "null"
    /\ mFlags' = "WEAK"
    /\ UNCHANGED <<mStrong, mWeak, base, impl, raw, pc, cur, src, everStrong, hooks>>

\* Variant: the destructor leaves the control block to DecWeak in both modes.
Destructor_KeepsImpl ==
    /\ base' = FALSE
    /\ impl' = (impl /\ (mFlags = "WEAK" \/ mStrong # INITIAL_STRONG_VALUE))

\* RefBase::~RefBase
Destructor ==
    /\ base' = FALSE
    /\ impl' = IF mFlags = "WEAK" THEN impl /\ mWeak # 0
               ELSE impl /\ mStrong # INITIAL_STRONG_VALUE

\* The creator deletes an object nobody ever referenced.
DeleteRaw ==
    /\ raw
    /\ \A h \in Handles : pc[h] = "null"
    /\ Destructor
    /\ raw' = FALSE
    /\ UNCHANGED <<mStrong, mWeak, mFlags, pc, cur, src, everStrong, hooks>>

\* The creator stops using its pointer, having stored a reference somewhere.
DropRaw ==
    /\ raw
    /\ ~Pinned("raw")
    /\ \E h \in Handles : pc[h] \in {"weak", "strong"}
    /\ raw' = FALSE
    /\ UNCHANGED <<mStrong, mWeak, mFlags, base, impl, pc, cur, src, everStrong, hooks>>

-----------------------------------------------------------------------------
(***************************************************************************)
(* Weak references: CreateWeak, IncWeak, AttemptIncWeak, DecWeak.          *)
(***************************************************************************)
\* The fetch_add of WeakRef::IncWeak, and where the handle goes from there.
IncWeakTo(h, l) ==
    /\ mWeak' = mWeak + 1
    /\ IF mWeak < 0 THEN Goto(h, "abort") ELSE Goto(h, l)

\* RefBase::CreateWeak, or IncWeak on a WeakRef already held.
CreateWeak(h, s) ==
    /\ pc[h] = "null"
    /\ StrongSource(s) \/ WeakSource(s)
    /\ IncWeakTo(h, "weak")
    /\ UNCHANGED <<mStrong, mFlags, base, impl, raw, cur, src, everStrong, hooks>>

\* WeakRef::AttemptIncWeak up to the load of mWeak.
AttemptIncWeak(h, s) ==
    /\ pc[h] = "null"
    /\ StrongSource(s) \/ WeakSource(s)
    /\ cur' = [cur EXCEPT ![h] = mWeak]
    /\ src' = [src EXCEPT ![h] = s]
    /\ Goto(h, IF mWeak < 0 THEN "abort" ELSE "weak_cas")
    /\ UNCHANGED <<mStrong, mWeak, mFlags, base, impl, raw, everStrong, hooks>>

\* One turn of its compare-and-swap loop.  A spurious failure of
\* compare_exchange_weak reloads the same value and is a stuttering step.
AttemptIncWeakCas(h) ==
    /\ pc[h] = "weak_cas"
    /\ \/ /\ cur[h] <= 0
          /\ Goto(h, "null")
          /\ src' = [src EXCEPT ![h] = "none"]
          /\ cur' = [cur EXCEPT ![h] = 0]
          /\ UNCHANGED mWeak
       \/ /\ cur[h] > 0 /\ cur[h] = mWeak
          /\ mWeak' = mWeak + 1
          /\ Goto(h, "weak")
          /\ src' = [src EXCEPT ![h] = "none"]
          /\ cur' = [cur EXCEPT ![h] = 0]
       \/ /\ cur[h] > 0 /\ cur[h] # mWeak
          /\ cur' = [cur EXCEPT ![h] = mWeak]
          /\ UNCHANGED <<mWeak, pc, src>>
    /\ UNCHANGED <<mStrong, mFlags, base, impl, raw, everStrong, hooks>>

\* Variant: the old count is compared with two.
DecWeak_OffByOne(h) ==
    /\ pc[h] = "dec_weak" \/ MayDecWeak(h)
    /\ mWeak' = mWeak - 1
    /\ Goto(h, IF mWeak = 2 THEN "weak_zero" ELSE "null")
    /\ UNCHANGED <<mStrong, mFlags, base, impl, raw, cur, src, everStrong, hooks>>

\* The fetch_sub of WeakRef::DecWeak, reached from a weak reference, from the
\* end of DecStrong and from a failed AttemptIncStrong.
DecWeak(h) ==
    /\ pc[h] = "dec_weak" \/ MayDecWeak(h)
    /\ mWeak' = mWeak - 1
    /\ Goto(h, IF BAD_WEAK(mWeak) THEN "abort"
               ELSE IF mWeak = 1 THEN "weak_zero" ELSE "null")
    /\ UNCHANGED <<mStrong, mFlags, base, impl, raw, cur, src, everStrong, hooks>>

\* The rest of DecWeak once the count was brought to zero.
LastWeak(h) ==
    /\ pc[h] = "weak_zero"
    /\ IF mFlags = "STRONG"
       THEN /\ impl' = (impl /\ mStrong = INITIAL_STRONG_VALUE)
            /\ UNCHANGED base
       ELSE Destructor
    /\ Goto(h, "null")
    /\ UNCHANGED <<mStrong, mWeak, mFlags, raw, cur, src, everStrong, hooks>>

-----------------------------------------------------------------------------
(***************************************************************************)
(* Strong references: IncStrong and ForceIncStrong.                        *)
(***************************************************************************)
\* RefBase::IncStrong up to its IncWeak.
IncStrong(h, s) ==
    /\ pc[h] = "null"
    /\ StrongSource(s)
    /\ IncWeakTo(h, "inc_strong")
    /\ src' = [src EXCEPT ![h] = s]
    /\ UNCHANGED <<mStrong, mFlags, base, impl, raw, cur, everStrong, hooks>>

\* RefBase::ForceIncStrong up to its IncWeak.  It may also revive an object
\* with extended lifetime through a weak reference.
ForceIncStrong(h, s) ==
    /\ pc[h] = "null"
    /\ StrongSource(s) \/ (WeakSource(s) /\ mFlags = "WEAK")
    /\ IncWeakTo(h, "force_strong")
    /\ src' = [src EXCEPT ![h] = s]
    /\ UNCHANGED <<mStrong, mFlags, base, impl, raw, cur, everStrong, hooks>>

\* The fetch_add of IncStrong.
IncStrongAdd(h) ==
    /\ pc[h] = "inc_strong"
    /\ mStrong' = mStrong + 1
    /\ everStrong' = TRUE
    /\ src' = [src EXCEPT ![h] = "none"]
    /\ Goto(h, IF mStrong <= 0 THEN "abort"
               ELSE IF mStrong = INITIAL_STRONG_VALUE THEN "inc_fix" ELSE "strong")
    /\ UNCHANGED <<mWeak, mFlags, base, impl, raw, cur, hooks>>

\* The fetch_add of ForceIncStrong; a count of zero is legal here.
ForceIncStrongAdd(h) ==
    /\ pc[h] = "force_strong"
    /\ mStrong' = mStrong + 1
    /\ everStrong' = TRUE
    /\ src' = [src EXCEPT ![h] = "none"]
    /\ Goto(h, CASE mStrong < 0                    -> "abort"
                 [] mStrong = INITIAL_STRONG_VALUE -> "force_fix"
                 [] mStrong = 0                    -> "first_ref"
                 [] OTHER                          -> "strong")
    /\ UNCHANGED <<mWeak, mFlags, base, impl, raw, cur, hooks>>

\* The fetch_sub of INITIAL_STRONG_VALUE after the first reference; IncStrong
\* asserts that the old value was larger, ForceIncStrong does not.
SubInitial(h) ==
    /\ pc[h] \in {"inc_fix", "force_fix"}
    /\ mStrong' = mStrong - INITIAL_STRONG_VALUE
    /\ Goto(h, IF pc[h] = "inc_fix" /\ mStrong <= INITIAL_STRONG_VALUE
               THEN "abort" ELSE "first_ref")
    /\ UNCHANGED <<mWeak, mFlags, base, impl, raw, cur, src, everStrong, hooks>>

OnFirstRef(h) ==
    /\ pc[h] = "first_ref"
    /\ hooks' = hooks + 1
    /\ Goto(h, "strong")
    /\ UNCHANGED <<mStrong, mWeak, mFlags, base, impl, raw, cur, src, everStrong>>

-----------------------------------------------------------------------------
(***************************************************************************)
(* RefBase::DecStrong.                                                     *)
(***************************************************************************)
DecStrong(h) ==
    /\ MayDecStrong(h)
    /\ mStrong' = mStrong - 1
    /\ Goto(h, IF BAD_STRONG(mStrong) THEN "abort"
               ELSE IF mStrong = 1 THEN "last" ELSE "dec_weak")
    /\ UNCHANGED <<mWeak, mFlags, base, impl, raw, cur, src, everStrong, hooks>>

\* Variant: the lifetime flag is not looked at before "delete this".
OnLastStrongRef_AnyLifetime(h) ==
    /\ pc[h] = "last"
    /\ hooks' = hooks - 1
    /\ Goto(h, "delete")
    /\ UNCHANGED <<mStrong, mWeak, mFlags, base, impl, raw, cur, src, everStrong>>

OnLastStrongRef(h) ==
    /\ pc[h] = "last"
    /\ hooks' = hooks - 1
    /\ Goto(h, IF mFlags = "STRONG" THEN "delete" ELSE "dec_weak")
    /\ UNCHANGED <<mStrong, mWeak, mFlags, base, impl, raw, cur, src, everStrong>>

\* delete this
DeleteThis(h) ==
    /\ pc[h] = "delete"
    /\ Destructor
    /\ Goto(h, "dec_weak")
    /\ UNCHANGED <<mStrong, mWeak, mFlags, raw, cur, src, everStrong, hooks>>

-----------------------------------------------------------------------------
(***************************************************************************)
(* WeakRef::AttemptIncStrong, the promotion behind IWeakReference::Resolve *)
(***************************************************************************)
\* Its IncWeak.
AttemptIncStrong(h, s) ==
    /\ pc[h] = "null"
    /\ WeakSource(s)
    /\ IncWeakTo(h, "att_load")
    /\ UNCHANGED <<mStrong, mFlags, base, impl, raw, cur, src, everStrong, hooks>>

\* Variant: a count of zero is treated like a first reference.
AttemptRoute_RevivesDead(c) ==
    IF c > 0 /\ c # INITIAL_STRONG_VALUE THEN "att_cas"
    ELSE IF mFlags = "WEAK" THEN "att_hook" ELSE "att_init"

\* Where the conditions on curCount and mFlags lead after a load of mStrong
\* in the first loop: to its compare-and-swap, or into the harder case.
AttemptRoute(c) ==
    IF c > 0 /\ c # INITIAL_STRONG_VALUE THEN "att_cas"
    ELSE IF mFlags = "WEAK" THEN "att_hook"
    ELSE IF c > 0 THEN "att_init" ELSE "dec_weak"

AttemptLoad(h) ==
    /\ pc[h] = "att_load"
    /\ cur' = [cur EXCEPT ![h] = mStrong]
    /\ Goto(h, IF mStrong < 0 THEN "abort" ELSE AttemptRoute(mStrong))
    /\ UNCHANGED <<mStrong, mWeak, mFlags, base, impl, raw, src, everStrong, hooks>>

\* The compare_exchange_weak of the first loop.
AttemptCas(h) ==
    /\ pc[h] = "att_cas"
    /\ IF mStrong = cur[h]
       THEN /\ mStrong' = mStrong + 1
            /\ everStrong' = TRUE
            /\ Goto(h, "strong")
            /\ cur' = [cur EXCEPT ![h] = 0]
       ELSE /\ cur' = [cur EXCEPT ![h] = mStrong]
            /\ Goto(h, AttemptRoute(mStrong))
            /\ UNCHANGED <<mStrong, everStrong>>
    /\ UNCHANGED <<mWeak, mFlags, base, impl, raw, src, hooks>>

\* Variant: every promotion of the second loop takes the initial value out.
AttemptInitCas_AlwaysFix(h) ==
    /\ pc[h] = "att_init"
    /\ IF mStrong = cur[h]
       THEN /\ mStrong' = mStrong + 1
            /\ everStrong' = TRUE
            /\ Goto(h, "att_fix")
            /\ cur' = [cur EXCEPT ![h] = 0]
       ELSE /\ cur' = [cur EXCEPT ![h] = mStrong]
            /\ Goto(h, IF mStrong > 0 THEN "att_init" ELSE "dec_weak")
            /\ UNCHANGED <<mStrong, everStrong>>
    /\ UNCHANGED <<mWeak, mFlags, base, impl, raw, src, hooks>>

\* Variant: the second loop does not look at the reloaded count.
AttemptInitCas_NoRecheck(h) ==
    /\ pc[h] = "att_init"
    /\ IF mStrong = cur[h]
       THEN /\ mStrong' = mStrong + 1
            /\ everStrong' = TRUE
            /\ Goto(h, IF cur[h] = INITIAL_STRONG_VALUE THEN "att_fix" ELSE "strong")
            /\ cur' = [cur EXCEPT ![h] = 0]
       ELSE /\ cur' = [cur EXCEPT ![h] = mStrong]
            /\ UNCHANGED <<mStrong, everStrong, pc>>
    /\ UNCHANGED <<mWeak, mFlags, base, impl, raw, src, hooks>>

\* The compare_exchange_weak of the second loop, for a normal lifetime and an
\* object that had no strong reference when it was looked at.
AttemptInitCas(h) ==
    /\ pc[h] = "att_init"
    /\ IF mStrong = cur[h]
       THEN /\ mStrong' = mStrong + 1
            /\ everStrong' = TRUE
            /\ Goto(h, IF cur[h] = INITIAL_STRONG_VALUE THEN "att_fix" ELSE "strong")
            /\ cur' = [cur EXCEPT ![h] = 0]
       ELSE /\ cur' = [cur EXCEPT ![h] = mStrong]
            /\ Goto(h, IF mStrong > 0 THEN "att_init" ELSE "dec_weak")
            /\ UNCHANGED <<mStrong, everStrong>>
    /\ UNCHANGED <<mWeak, mFlags, base, impl, raw, src, hooks>>

\* OnIncStrongAttempted of an object with extended lifetime.  The default
\* agrees; a subclass may refuse.
OnIncStrongAttempted(h) ==
    /\ pc[h] = "att_hook"
    /\ \/ hooks' = hooks + 1 /\ Goto(h, "att_add")
       \/ UNCHANGED hooks /\ Goto(h, "dec_weak")
    /\ UNCHANGED <<mStrong, mWeak, mFlags, base, impl, raw, cur, src, everStrong>>

\* Variant: the agreement is not cancelled when somebody else was first.
AttemptAdd_NoCancel(h) ==
    /\ pc[h] = "att_add"
    /\ mStrong' = mStrong + 1
    /\ everStrong' = TRUE
    /\ cur' = [cur EXCEPT ![h] = 0]
    /\ Goto(h, IF mStrong = INITIAL_STRONG_VALUE THEN "att_fix" ELSE "strong")
    /\ UNCHANGED <<mWeak, mFlags, base, impl, raw, src, hooks>>

\* The fetch_add after the object agreed to be revived.
AttemptAdd(h) ==
    /\ pc[h] = "att_add"
    /\ mStrong' = mStrong + 1
    /\ everStrong' = TRUE
    /\ cur' = [cur EXCEPT ![h] = 0]
    /\ Goto(h, CASE mStrong = INITIAL_STRONG_VALUE -> "att_fix"
                 [] mStrong = 0                    -> "strong"
                 [] OTHER                          -> "att_last")
    /\ UNCHANGED <<mWeak, mFlags, base, impl, raw, src, hooks>>

\* OnLastStrongRef, to cancel an agreement that turned out not to be needed.
AttemptCancel(h) ==
    /\ pc[h] = "att_last"
    /\ hooks' = hooks - 1
    /\ Goto(h, "strong")
    /\ UNCHANGED <<mStrong, mWeak, mFlags, base, impl, raw, cur, src, everStrong>>

\* The fix-up of mStrong at the end of AttemptIncStrong.
AttemptFix(h) ==
    /\ pc[h] = "att_fix"
    /\ mStrong' = mStrong - INITIAL_STRONG_VALUE
    /\ Goto(h, "strong")
    /\ UNCHANGED <<mWeak, mFlags, base, impl, raw, cur, src, everStrong, hooks>>

-----------------------------------------------------------------------------
\* Everything a handle can do by itself once it is in use.
Step(h) ==
    \/ AttemptIncWeakCas(h) \/ DecWeak(h) \/ LastWeak(h)
    \/ IncStrongAdd(h) \/ ForceIncStrongAdd(h) \/ SubInitial(h) \/ OnFirstRef(h)
    \/ DecStrong(h) \/ OnLastStrongRef(h) \/ DeleteThis(h)
    \/ AttemptLoad(h) \/ AttemptCas(h) \/ AttemptInitCas(h)
    \/ OnIncStrongAttempted(h) \/ AttemptAdd(h) \/ AttemptCancel(h) \/ AttemptFix(h)

\* The operations that put a reference copied from s into an empty handle.
Start(h, s) ==
    \/ CreateWeak(h, s) \/ AttemptIncWeak(h, s)
    \/ IncStrong(h, s) \/ ForceIncStrong(h, s) \/ AttemptIncStrong(h, s)

Next ==
    \/ ExtendObjectLifetime \/ DeleteRaw \/ DropRaw
    \/ \E h \in Handles : Step(h)
    \/ \E h \in Handles, s \in Handles \cup {"raw"} : Start(h, s)

Spec == Init /\ [][Next]_vars

-----------------------------------------------------------------------------
(***************************************************************************)
(* Properties.                                                             *)
(***************************************************************************)
\* Every variable has its type.
TypeOK ==
    /\ mStrong \in Nat /\ mWeak \in Nat
    /\ mFlags \in {"STRONG", "WEAK"}
    /\ base \in BOOLEAN /\ impl \in BOOLEAN /\ raw \in BOOLEAN
    /\ pc \in [Handles -> Points]
    /\ cur \in [Handles -> Int]
    /\ src \in [Handles -> Handles \cup {"raw", "none"}]
    /\ everStrong \in BOOLEAN
    /\ hooks \in Int

\* None of the assert(0) of ccmrefbase.cpp is reached: no increment after the
\* last strong reference, no decrement too many, no count out of range, in
\* whatever order the operations of the handles interleave.
NoAssertion == \A h \in Handles : pc[h] # "abort"

\* An operation in progress never touches a WeakRefImpl that another thread's
\* DecWeak or destructor has freed, although the object itself may be gone.
ImplNotFreed ==
    /\ raw => impl
    /\ \A h \in Handles : pc[h] \in WeakPoints \cup {"weak_cas", "weak_zero"} => impl

\* The points at which an operation uses the object: it holds a strong
\* reference, is taking one, calls a hook of it or is about to delete it.
UsesBase(h) ==
    \/ pc[h] \in StrongPoints \cup {"inc_strong", "force_strong", "last", "delete"}
    \/ pc[h] \in {"att_hook", "att_add"}
    \/ pc[h] = "weak_zero" /\ mFlags = "WEAK"

\* The object is there for everybody who uses it; in particular a successful
\* promotion never returns an object that a concurrent DecStrong deletes, and
\* no object is deleted twice.
ObjectAlive ==
    /\ raw => base
    /\ \A h \in Handles : UsesBase(h) => base

\* The comment in DecWeak, "weakref_impl outlives the object": the control
\* block is never freed while the object exists, also when the last weak
\* reference goes before the first strong one is taken.
BlockOutlivesObject == base => impl

\* Exactly one of the handles that see INITIAL_STRONG_VALUE takes it back out
\* of mStrong, and apart from it the atomics count the references.
CountsExact ==
    /\ mWeak = Cardinality(WeakSet)
    /\ mStrong = Cardinality(StrongSet)
          + (IF ~everStrong \/ \E h \in Handles : pc[h] \in FixPoints
             THEN INITIAL_STRONG_VALUE ELSE 0)
    /\ \A g, h \in Handles : pc[g] \in FixPoints /\ pc[h] \in FixPoints => g = h

\* When all references of an object that was ever strongly referenced (or has
\* extended lifetime) are gone, so are the object and its control block.
NoLeak ==
    (~raw /\ (everStrong \/ mFlags = "WEAK") /\ \A h \in Handles : pc[h] = "null")
        => ~base /\ ~impl

\* The calls that open a strong period of an object with extended lifetime and
\* the calls of OnLastStrongRef balance, however promotions race: between
\* operations the implementor holds its self-reference exactly while there are
\* strong references.
HooksBalanced ==
    (mFlags = "WEAK" /\ \A h \in Handles : pc[h] \in {"null", "weak", "strong"})
        => hooks = IF StrongSet = {} THEN 0 ELSE 1

\* With the normal lifetime an object whose last strong reference was released
\* cannot be revived.
NotRevived ==
    [][(mFlags = "STRONG" /\ everStrong /\ StrongSet = {}) => StrongSet' = {}]_vars

(***************************************************************************)
(* The inductive invariant behind these properties, when weak references   *)
(* are not released early.                                                 *)
(***************************************************************************)
\* An operation that has no count yet, or is about to use the object, was
\* started from a reference that is still in place.
SourcesHeld ==
    \A h \in Handles :
        /\ (src[h] = "none") = (pc[h] \notin {"inc_strong", "force_strong", "weak_cas"})
        /\ src[h] = "raw" => raw
        /\ src[h] \in Handles =>
              \/ pc[src[h]] = "strong"
              \/ pc[src[h]] = "weak" /\ pc[h] = "weak_cas"
              \/ pc[src[h]] = "weak" /\ pc[h] = "force_strong" /\ mFlags = "WEAK"

\* The program points that belong to one of the two lifetimes.
ModePoints ==
    \A h \in Handles :
        /\ pc[h] \in {"delete", "att_init"} => mFlags = "STRONG"
        /\ pc[h] \in {"att_hook", "att_add"} => mFlags = "WEAK"
        /\ pc[h] \in {"att_cas", "att_init"} => cur[h] > 0
        /\ pc[h] = "att_cas" => cur[h] # INITIAL_STRONG_VALUE

\* While the creator uses its pointer nothing has been given up, and whoever
\* tries to promote leaves behind the weak reference it started from.
RawProtects ==
    raw => /\ base /\ impl
           /\ everStrong => StrongSet # {}
           /\ \A h \in Handles : pc[h] \notin {"last", "delete", "weak_zero"}
           /\ (\E h \in Handles : pc[h] \in {"att_load", "att_cas", "att_init",
                                             "att_hook", "att_add", "dec_weak"})
                 => \E g \in Handles : pc[g] = "weak"

\* What keeps the object, and what is left once it or its block is gone.
Lifetimes ==
    /\ ~everStrong => StrongSet = {} /\ \A h \in Handles : pc[h] \notin {"last", "delete"}
    /\ ~everStrong /\ ~base => \A h \in Handles : pc[h] = "null"
    /\ StrongSet # {} => base
    /\ mFlags = "WEAK" /\ WeakSet # {} => base
    /\ ~impl => ~raw /\ \A h \in Handles : pc[h] = "null"
    /\ \A h \in Handles : pc[h] = "weak_zero" =>
          /\ ~raw
          /\ mFlags = "WEAK" => base
          /\ \A g \in Handles : g # h => pc[g] = "null"

\* With the normal lifetime one handle brings the count to zero, and that
\* handle deletes the object.
OneDestroyer ==
    mFlags = "STRONG" => \A h \in Handles : pc[h] \in {"last", "delete"} =>
        /\ base /\ StrongSet = {}
        /\ \A g \in Handles : pc[g] \in {"last", "delete"} => g = h

IInv ==
    /\ TypeOK /\ NoAssertion /\ CountsExact
    /\ SourcesHeld /\ ModePoints /\ RawProtects /\ Lifetimes /\ OneDestroyer

(***************************************************************************)
(* What the two properties of a quiet object, NoLeak and HooksBalanced,    *)
(* need on the way there.                                                  *)
(***************************************************************************)
\* A released object is deleted by the handle that is at it, and its block by
\* the handle that brought mWeak to zero.
LeakOK ==
    /\ (mFlags = "STRONG" /\ everStrong /\ StrongSet = {} /\ base)
          => \E h \in Handles : pc[h] \in {"last", "delete"}
    /\ (~raw /\ (everStrong \/ mFlags = "WEAK") /\ WeakSet = {} /\ (impl \/ (mFlags = "WEAK" /\ base)))
          => \E h \in Handles : pc[h] = "weak_zero"

\* Handles whose opening call comes after their count, and handles whose opening
\* call came before it or whose closing call is still to come.
DuePoints  == {"inc_fix", "force_fix", "first_ref"}
OpenPoints == {"att_add", "att_last", "last"}
DueSet  == {h \in Handles : pc[h] \in DuePoints}
OpenSet == {h \in Handles : pc[h] \in OpenPoints}
Period  == IF StrongSet = {} THEN 0 ELSE 1

HooksOK ==
    /\ mFlags = "STRONG" /\ ~everStrong => hooks = 0
    /\ mFlags = "WEAK" => hooks = Period + Cardinality(OpenSet) - Cardinality(DueSet)

(***************************************************************************)
(* What the counting promises, without counters: see ObjectLifetime.       *)
(***************************************************************************)
object == IF ~base THEN "gone"
          ELSE IF ~everStrong THEN "fresh"
          ELSE IF mFlags = "STRONG" /\ StrongSet = {} THEN "dying" ELSE "live"

Lifetime == INSTANCE ObjectLifetime WITH mode <- mFlags, holders <- StrongSet

\* The counters implement the lifetime that ObjectLifetime describes.
ImplementsLifetime == Lifetime!Spec
=============================================================================
