------------------------------- MODULE HashMap -------------------------------
(***************************************************************************)
(* The HashMap of the runtime (util/hashmap.h), which holds the RPC        *)
(* registries, the components of the class loader and the metadata: an     *)
(* array of chains that grows when three quarters of its size have been    *)
(* inserted.  A map has one owner (its clients lock around it), so a call  *)
(* is one step.  The array may be shorter than mBucketSize after an        *)
(* allocation failed, and an index outside it makes the table corrupt:     *)
(* what happens after that is undefined.                                   *)
(***************************************************************************)
EXTENDS Integers, Sequences, FiniteSets

SeqExt == INSTANCE SequencesExt

CONSTANTS
    Keys, Values,
    KeyTypes,        \* records of  hash        HashFunc: the Integer of each key
                     \*             allocFails  calloc may fail in Rehash
    InitialSizes,    \* arguments of the constructor
    MaxBucketSize,   \* MAX_BUCKET_SIZE, INT32_MAX - 8
    UIntRange,       \* 2^32: the number of unsigned ints
    MaxCount         \* bound on the buckets ever created

ASSUME HashMapAssumption ==
    /\ KeyTypes \subseteq [hash : [Keys -> Int], allocFails : BOOLEAN]
    /\ \A t \in KeyTypes, k \in Keys : -UIntRange <= 2 * t.hash[k] /\ 2 * t.hash[k] < UIntRange
    /\ InitialSizes \subseteq Nat /\ MaxBucketSize \in Nat /\ MaxCount \in Nat
    /\ UIntRange \in Nat \ {0}

\* References to a key and to a value are counted apart, also where they are one object.
ASSUME KeysAndValuesDiffer == Keys \cap Values = {}

VARIABLES
    keyType,    \* what this map is keyed by
    mBucketSize, mThreshold, mCount,
    mBuckets,   \* the array of chains
    corrupt,    \* an index outside the array was used
    refs,       \* references the map holds to each key and value
    call        \* history: the last call

vars == <<keyType, mBucketSize, mThreshold, mCount, mBuckets, corrupt, refs, call>>

Hash == keyType.hash

-----------------------------------------------------------------------------
prime_list == <<5, 11, 23, 53, 97, 193, 389, 769, 1543, 3079, 6151>>

\* The prime of the list that is nearest to n, the upper one on a tie.
get_lower_bound(n) ==
    IF n <= 5 THEN 5
    ELSE IF n >= 6151 THEN 6151
    ELSE LET i == CHOOSE j \in 1..10 : prime_list[j] <= n /\ n < prime_list[j + 1]
             l == prime_list[i]
             r == prime_list[i + 1]
         IN IF n - l < r - n THEN l ELSE r

\* MAX_BUCKET_SIZE is larger than every prime of the list.
ASSUME SizesAssumption == \A n \in InitialSizes : get_lower_bound(n) <= MaxBucketSize

Threshold(size) == (size * 3) \div 4

\* (unsigned int)hash % mBucketSize
Index_OffByOne(hash, size) == (hash % UIntRange) % (size + 1)

Index(hash, size) == (hash % UIntRange) % size

\* hash % bucketSize in PutBucket, where both are signed: the remainder has the
\* sign of the hash.
PutBucketIndex(hash, size) == IF hash >= 0 THEN hash % size ELSE -((-hash) % size)

\* Position of a key in a chain, 0 if it is not there.
Find(chain, k) == SeqExt!SelectInSeq(chain, LAMBDA b : b.mKey = k)

Chain(k) == mBuckets[Index(Hash[k], mBucketSize)]

Get(k) ==
    IF Hash[k] = -1 \/ corrupt \/ Index(Hash[k], mBucketSize) \notin DOMAIN mBuckets
    THEN "null"
    ELSE LET i == Find(Chain(k), k) IN IF i = 0 THEN "null" ELSE Chain(k)[i].mValue

\* Where the buckets of an array are, <<index, position in the chain>>, and the
\* bucket that is there.
Slots(buckets) == UNION {{<<i, p>> : p \in DOMAIN buckets[i]} : i \in DOMAIN buckets}

At(buckets, s) == buckets[s[1]][s[2]]

Init ==
    /\ keyType \in KeyTypes
    /\ \E size \in InitialSizes :
       LET n == get_lower_bound(size)
       IN /\ mBucketSize = n /\ mThreshold = Threshold(n) /\ mCount = 0
          /\ mBuckets = [i \in 0..(n - 1) |-> <<>>]
          /\ corrupt = FALSE
          /\ refs = [x \in Keys \cup Values |-> 0]
          /\ call = <<"HashMap">>

-----------------------------------------------------------------------------
(***************************************************************************)
(* The table after Rehash, as a record.  It does nothing at the largest    *)
(* size; when calloc fails it has already changed mBucketSize.             *)
(***************************************************************************)
Table == [size |-> mBucketSize, threshold |-> mThreshold, buckets |-> mBuckets,
          corrupt |-> FALSE]

NewSize(size) == IF 2 * size + 1 > MaxBucketSize THEN MaxBucketSize ELSE 2 * size + 1

PutBucket(buckets, size, b) ==
    [buckets EXCEPT ![PutBucketIndex(b.mHash, size)] = Append(@, b)]

\* The two loops of Rehash: over the buckets of a chain, and over the n chains of
\* the old array.
MoveChain(new, size, chain) ==
    LET moved[p \in 0..Len(chain)] ==
            IF p = 0 THEN new ELSE PutBucket(moved[p - 1], size, chain[p])
    IN moved[Len(chain)]

MoveChains(size, old, n) ==
    LET moved[i \in 0..n] ==
            IF i = 0 THEN [j \in 0..(size - 1) |-> <<>>]
            ELSE MoveChain(moved[i - 1], size, old[i - 1])
    IN moved[n]

Rehash(fails) ==
    LET size == NewSize(mBucketSize)
        short == Cardinality(DOMAIN mBuckets) < mBucketSize
        outside == \E s \in Slots(mBuckets) : PutBucketIndex(At(mBuckets, s).mHash, size) < 0
    IN IF mBucketSize = MaxBucketSize THEN Table
       ELSE IF fails THEN [Table EXCEPT !.size = size]
       ELSE IF short THEN [Table EXCEPT !.size = size, !.corrupt = TRUE]
       ELSE IF outside THEN [Table EXCEPT !.size = size, !.corrupt = TRUE]
       ELSE [size |-> size, threshold |-> Threshold(size),
             buckets |-> MoveChains(size, mBuckets, mBucketSize), corrupt |-> FALSE]

\* The chain with k set to v: the value of its bucket replaced, or a new bucket
\* at the end.
PutInChain(chain, k, v) ==
    LET i == Find(chain, k)
    IN IF i # 0 THEN [chain EXCEPT ![i].mValue = v]
       ELSE Append(chain, [mHash |-> Hash[k], mKey |-> k, mValue |-> v])

\* AssignFunc and DeleteFunc: references taken and given back.
Counted(gained, lost) ==
    [x \in Keys \cup Values |-> refs[x] + (IF x \in gained THEN 1 ELSE 0)
                                        - (IF x \in lost THEN 1 ELSE 0)]

\* What Put does to the table t that Rehash left.
PutInto_KeepsOld(t, k, v) ==
    LET idx == Index(Hash[k], t.size)
        i == Find(t.buckets[idx], k)
    IN /\ mBuckets' = [t.buckets EXCEPT ![idx] = PutInChain(@, k, v)]
       /\ mCount' = IF i = 0 THEN mCount + 1 ELSE mCount
       /\ refs' = IF i = 0 THEN Counted({k, v}, {}) ELSE Counted({v}, {})

PutInto(t, k, v) ==
    LET idx == Index(Hash[k], t.size)
        i == Find(t.buckets[idx], k)
    IN /\ mBuckets' = [t.buckets EXCEPT ![idx] = PutInChain(@, k, v)]
       /\ mCount' = IF i = 0 THEN mCount + 1 ELSE mCount
       /\ refs' = IF i = 0 THEN Counted({k, v}, {})
                  ELSE Counted({v}, {t.buckets[idx][i].mValue})

Put(k, v) ==
    /\ mCount < MaxCount
    /\ \E fails \in {keyType.allocFails, FALSE} :
       LET t == IF mCount >= mThreshold THEN Rehash(fails) ELSE Table
           reached == ~t.corrupt /\ Hash[k] # -1
           inside == Index(Hash[k], t.size) \in DOMAIN t.buckets
       IN /\ mBucketSize' = t.size /\ mThreshold' = t.threshold
          /\ corrupt' = (t.corrupt \/ (reached /\ ~inside))
          /\ IF reached /\ inside THEN PutInto(t, k, v)
             ELSE mBuckets' = t.buckets /\ UNCHANGED <<mCount, refs>>
    /\ call' = <<"Put", k, v>>
    /\ UNCHANGED keyType

\* delete curr releases the key and the value; mCount stays.
Remove_HeadOnly(k) ==
    /\ LET idx == Index(Hash[k], mBucketSize)
           inside == Hash[k] = -1 \/ idx \in DOMAIN mBuckets
           i == IF Hash[k] = -1 \/ ~inside THEN 0 ELSE Find(mBuckets[idx], k)
       IN /\ corrupt' = ~inside
          /\ IF i # 1 THEN UNCHANGED <<mBuckets, refs>>
             ELSE /\ mBuckets' = [mBuckets EXCEPT ![idx] = SeqExt!RemoveAt(@, i)]
                  /\ refs' = Counted({}, {k, mBuckets[idx][i].mValue})
    /\ call' = <<"Remove", k>>
    /\ UNCHANGED <<keyType, mBucketSize, mThreshold, mCount>>

Remove(k) ==
    /\ LET idx == Index(Hash[k], mBucketSize)
           inside == Hash[k] = -1 \/ idx \in DOMAIN mBuckets
           i == IF Hash[k] = -1 \/ ~inside THEN 0 ELSE Find(mBuckets[idx], k)
       IN /\ corrupt' = ~inside
          /\ IF i = 0 THEN UNCHANGED <<mBuckets, refs>>
             ELSE /\ mBuckets' = [mBuckets EXCEPT ![idx] = SeqExt!RemoveAt(@, i)]
                  /\ refs' = Counted({}, {k, mBuckets[idx][i].mValue})
    /\ call' = <<"Remove", k>>
    /\ UNCHANGED <<keyType, mBucketSize, mThreshold, mCount>>

\* The loop over mBucketSize chains leaves the array when it is shorter.
Clear ==
    /\ corrupt' = (Cardinality(DOMAIN mBuckets) < mBucketSize)
    /\ mBuckets' = [i \in DOMAIN mBuckets |-> <<>>]
    /\ refs' = [x \in Keys \cup Values |-> 0]
    /\ call' = <<"Clear">>
    /\ UNCHANGED <<keyType, mBucketSize, mThreshold, mCount>>

Next ==
    /\ ~corrupt
    /\ \/ \E k \in Keys : Remove(k) \/ \E v \in Values : Put(k, v)
       \/ Clear

Spec == Init /\ [][Next]_vars

-----------------------------------------------------------------------------
(***************************************************************************)
(* Properties.                                                             *)
(***************************************************************************)
\* A map keyed by strings or Uuids, whose hashes are never negative, in enough memory.
Sound == ~keyType.allocFails /\ \A k \in Keys : Hash[k] >= 0

\* In a sound map no call uses an index outside the array, through any number of rehashings.
IndexInBounds == Sound => ~corrupt

\* The map holds one reference to each key and value per bucket that contains
\* it, whatever was replaced, removed or moved.
RefsExact ==
    \A x \in Keys \cup Values :
       refs[x] = Cardinality({s \in Slots(mBuckets) :
                                x \in {At(mBuckets, s).mKey, At(mBuckets, s).mValue}})

-----------------------------------------------------------------------------
(***************************************************************************)
(* The inductive invariant behind these properties.  Count(t, B) is the    *)
(* number of places of the array t at which a bucket of B is.              *)
(***************************************************************************)
Bucket == [mHash : Int, mKey : Keys, mValue : Values]
Arrays(n) == [0..(n - 1) -> Seq(Bucket)]

In(t, B) == {s \in Slots(t) : At(t, s) \in B}
Count(t, B) == Cardinality(In(t, B))
KeyIs(k) == {b \in Bucket : b.mKey = k}
Holding(x) == {b \in Bucket : x \in {b.mKey, b.mValue}}

TypeOK ==
    /\ keyType \in KeyTypes
    /\ mBucketSize \in 1..MaxBucketSize /\ mThreshold \in Int /\ mCount \in Int
    /\ \E n \in 1..mBucketSize : mBuckets \in Arrays(n)
    /\ IsFiniteSet(Slots(mBuckets))
    /\ corrupt \in BOOLEAN
    /\ refs \in [Keys \cup Values -> Int]

\* Every bucket is in the chain of its hash, and no key is in two of them.
Placed(t, size) ==
    /\ t \in Arrays(size)
    /\ \A s \in Slots(t) : /\ At(t, s).mHash = Hash[At(t, s).mKey]
                          /\ s[1] = Index(At(t, s).mHash, size)
    /\ \A k \in Keys : Count(t, KeyIs(k)) <= 1

IInv ==
    /\ TypeOK
    /\ \A x \in Keys \cup Values : refs[x] = Count(mBuckets, Holding(x))
    /\ Sound => ~corrupt /\ Placed(mBuckets, mBucketSize)

\* A sound HashMap implements the abstract map: collisions, growth, the moves of the
\* buckets it brings and the growth limit are invisible to Get.  Nothing is claimed of the
\* others, for which the abstract map stays empty.
Map == INSTANCE MapSpec WITH map <- [k \in Keys |-> IF Sound THEN Get(k) ELSE "null"],
                             call <- IF Sound THEN call ELSE <<"HashMap">>
ImplementsMap == Map!Spec
=============================================================================
