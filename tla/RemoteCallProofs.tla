-------------------------- MODULE RemoteCallProofs --------------------------
(***************************************************************************)
(* Proofs about a remote call, for any set of methods: of any number of    *)
(* parameters, of every kind, with strings and arrays of any length.       *)
(*                                                                         *)
(* The first part is about the parcel alone: a write extends what was      *)
(* written (Appended), within the capacity, and a reader that holds what   *)
(* the writer wrote (Follows) reads, at the position a value was written   *)
(* to, what Delivered says of it (RoundTrip); the strings of an array by   *)
(* induction over the loops that write and read them.  The second follows  *)
(* the call: the parcel is the Layout of the parameters written so far,    *)
(* the proxy's running counts are the numbers of the place the calling     *)
(* convention chose, and so argument i is the same token in the caller's   *)
(* registers, in the parcel, in the argument list and in the registers of  *)
(* the method.                                                             *)
(***************************************************************************)
EXTENDS RemoteCall, FiniteSetTheorems, NaturalsInduction, WellFoundedInduction, TLAPS

-----------------------------------------------------------------------------
(***************************************************************************)
(* Writing to a parcel.                                                    *)
(***************************************************************************)
\* Alignment does not lower a position, and GrowData makes room for what it is told.
LEMMA AlignUp ==
  ASSUME NEW n \in Nat
  PROVE  ALIGN(n, 4) \in Nat /\ ALIGN(n, 4) >= n /\ ALIGN(n, 8) \in Nat /\ ALIGN(n, 8) >= n
  BY DEF ALIGN

\* GrowData's new capacity, one and a half times what is needed, is enough.
LEMMA GrowEnough ==
  ASSUME NEW n \in Nat
  PROVE  (n * 3) \div 2 \in Nat /\ (n * 3) \div 2 >= n
  OBVIOUS

\* Bytes of a token, and the unset bytes between values, are data.
LEMMA BytesType ==
  ASSUME NEW v \in Tokens, NEW n \in Nat
  PROVE  /\ Bytes(v, n) \in Seq(Tokens \X Nat) /\ Len(Bytes(v, n)) = n
         /\ \A k \in 1..n : Bytes(v, n)[k] = <<v, k>>
         /\ Unset(n) \in Seq(Tokens \X Nat) /\ Len(Unset(n)) = n
<1>1. Garbage \in Tokens
  BY DEF Garbage, Token, Tokens, Tags
<1>2. /\ Bytes(v, n) \in [1..n -> Tokens \X Nat] /\ Unset(n) \in [1..n -> Tokens \X Nat]
  BY <1>1 DEF Bytes, Unset
<1>3. QED  BY <1>2 DEF Bytes, Unset

\* Concatenation.
LEMMA Cat ==
  ASSUME NEW S, NEW s \in Seq(S), NEW r \in Seq(S)
  PROVE  /\ s \o r \in Seq(S) /\ Len(s \o r) = Len(s) + Len(r)
         /\ \A k \in 1..Len(s) : (s \o r)[k] = s[k]
         /\ \A k \in 1..Len(r) : (s \o r)[Len(s) + k] = r[k]
  OBVIOUS

\* Parcel p has room for n bytes of v from pos on, up to end; and q is p with them.
Room(p, pos, v, n, end) ==
    /\ p \in Parcels /\ p.fits /\ p.mDataPos = p.mDataSize /\ p.mDataSize = Len(p.mData)
    /\ pos \in Nat /\ pos >= p.mDataPos /\ v \in Tokens /\ n \in Nat
    /\ end \in Nat /\ end >= pos + n /\ end <= p.mDataCapacity
PutAt(q, p, pos, v, n, end) ==
    /\ Appendable(q) /\ q.mDataPos = end
    /\ \A k \in 1..p.mDataPos : q.mData[k] = p.mData[k]
    /\ \A k \in 1..n : q.mData[pos + k] = <<v, k>>

\* Put appends: what was there stays, and the bytes are at their place.
LEMMA PutAppends ==
  ASSUME NEW p, NEW pos, NEW v, NEW n, NEW end, Room(p, pos, v, n, end),
         NEW q, q = Put(p, pos, Bytes(v, n), end)
  PROVE  PutAt(q, p, pos, v, n, end)
<1>0. /\ p \in Parcels /\ p.fits /\ p.mDataPos = p.mDataSize /\ p.mDataSize = Len(p.mData)
      /\ pos \in Nat /\ pos >= p.mDataPos /\ v \in Tokens /\ n \in Nat
      /\ end \in Nat /\ end >= pos + n /\ end <= p.mDataCapacity
  BY DEF Room
<1> DEFINE B == Tokens \X Nat
           d == p.mData
           u == Unset(pos - Len(d))
           b == Bytes(v, n)
           w == Unset(end - pos - Len(b))
<1>1. d \in Seq(B) /\ Len(d) \in Nat /\ p.mDataPos \in Nat /\ p.mDataCapacity \in Nat /\ pos - Len(d) \in Nat
  BY <1>0 DEF Parcels
<1>2. u \in Seq(B) /\ Len(u) = pos - Len(d)
  BY <1>0, <1>1, BytesType
<1>3. b \in Seq(B) /\ Len(b) = n /\ \A k \in 1..n : b[k] = <<v, k>>
  BY <1>0, BytesType
<1>4. w \in Seq(B) /\ Len(w) = end - pos - n
  <2>1. end - pos - Len(b) \in Nat
    BY <1>0, <1>3
  <2>2. QED  BY <1>0, <2>1, <1>3, BytesType
<1>5. /\ q.mData = ((d \o u) \o b) \o w /\ q.mDataPos = end
      /\ q.mDataSize = (IF end > p.mDataSize THEN end ELSE p.mDataSize)
      /\ q.fits = (p.fits /\ end <= p.mDataCapacity) /\ q.mDataCapacity = p.mDataCapacity
      /\ q = [mData |-> q.mData, mDataSize |-> q.mDataSize, mDataCapacity |-> q.mDataCapacity,
              mDataPos |-> q.mDataPos, fits |-> q.fits]
  BY <1>0 DEF Put, Parcels
<1> HIDE DEF d, u, b, w, B
<1> DEFINE e == d \o u
           f == e \o b
<1>6. e \in Seq(B) /\ Len(e) = pos /\ \A k \in 1..Len(d) : e[k] = d[k]
  BY <1>0, <1>1, <1>2
<1> HIDE DEF e
<1>7. /\ f \in Seq(B) /\ Len(f) = pos + n
      /\ \A k \in 1..pos : f[k] = e[k]
      /\ \A k \in 1..n : f[pos + k] = b[k]
  <2>1. /\ f \in Seq(B) /\ Len(f) = Len(e) + Len(b)
        /\ \A k \in 1..Len(e) : f[k] = e[k]
        /\ \A k \in 1..Len(b) : f[Len(e) + k] = b[k]
    <3>1. e \in Seq(B) /\ b \in Seq(B)
      BY <1>3, <1>6
    <3>2. QED  BY <3>1, Cat
  <2>2. QED  BY <1>0, <2>1, <1>3, <1>6
<1>8. /\ q.mData \in Seq(B) /\ Len(q.mData) = end
      /\ \A k \in 1..(pos + n) : q.mData[k] = f[k]
  <2>1. q.mData = f \o w
    BY <1>5 DEF e
  <2> HIDE DEF f
  <2>2. /\ f \o w \in Seq(B) /\ Len(f \o w) = Len(f) + Len(w)
        /\ \A k \in 1..Len(f) : (f \o w)[k] = f[k]
    BY <1>4, <1>7
  <2>3. /\ Len(f) + Len(w) = end
        /\ \A k \in 1..(pos + n) : k \in 1..Len(f)
    BY <1>0, <1>4, <1>7
  <2>4. QED  BY <2>1, <2>2, <2>3, Zenon
<1> HIDE DEF f
<1>9. q.mDataSize = end /\ q.fits = TRUE
  <2>1. q.mDataSize = end
    BY <1>0, <1>1, <1>5
  <2>2. q.fits = TRUE
    BY <1>0, <1>5, Zenon
  <2>3. QED  BY <2>1, <2>2
<1>10. Appendable(q)
  <2>1. q.mDataSize \in Nat /\ q.mDataCapacity \in Nat /\ q.mDataPos \in Nat /\ q.fits \in BOOLEAN
    BY <1>0, <1>1, <1>5, <1>9
  <2>2. q \in Parcels
    BY <2>1, <1>5, <1>8 DEF Parcels, B
  <2>3. QED  BY <2>2, <1>5, <1>8, <1>9 DEF Appendable
<1>11. ASSUME NEW k \in 1..p.mDataPos PROVE q.mData[k] = p.mData[k]
  <2>1. k \in 1..Len(d) /\ k \in 1..pos /\ k \in 1..(pos + n) /\ p.mData = d
    BY <1>0, <1>1 DEF d
  <2>2. QED  BY <2>1, <1>6, <1>7, <1>8
<1>12. ASSUME NEW k \in 1..n PROVE q.mData[pos + k] = <<v, k>>
  <2>1. pos + k \in 1..(pos + n)
    BY <1>0
  <2>2. QED  BY <2>1, <1>3, <1>7, <1>8
<1>13. QED  BY <1>5, <1>10, <1>11, <1>12 DEF PutAt

\* q is p with more written to it.
Appended(q, p) == /\ Appendable(q) /\ Appendable(p) /\ q.mDataPos >= p.mDataPos
                  /\ \A k \in 1..p.mDataPos : q.mData[k] = p.mData[k]

\* Appending composes.
LEMMA AppendedTransitive ==
  ASSUME NEW p, NEW q, NEW r, Appended(q, p), Appended(r, q)
  PROVE  Appended(r, p)
<1>1. p.mDataPos \in Nat /\ q.mDataPos \in Nat /\ r.mDataPos \in Nat
  BY DEF Appended, Appendable, Parcels
<1>2. QED  BY <1>1 DEF Appended

\* A parcel extends itself.
LEMMA AppendedReflexive ==
  ASSUME NEW p, Appendable(p)
  PROVE  Appended(p, p)
  BY DEF Appended, Appendable, Parcels

\* The parcel after GrowData has room, and the same contents.
LEMMA GrowDataMakesRoom ==
  ASSUME NEW p, Appendable(p), NEW n \in Nat, NEW end \in Nat, end = p.mDataPos + n,
         NEW q, q = IF end <= p.mDataCapacity THEN p ELSE GrowData(p, n)
  PROVE  /\ q \in Parcels /\ q.fits /\ q.mDataPos = p.mDataPos /\ q.mDataSize = p.mDataSize
         /\ q.mData = p.mData /\ end <= q.mDataCapacity
<1>1. CASE end <= p.mDataCapacity
  BY <1>1 DEF Appendable
<1>2. CASE ~(end <= p.mDataCapacity)
  <2>1. /\ p \in Parcels /\ p.fits /\ p.mDataSize = p.mDataPos /\ p.mDataSize \in Nat
        /\ q = [p EXCEPT !.mDataCapacity = ((p.mDataSize + n) * 3) \div 2]
    BY <1>2 DEF Appendable, Parcels, GrowData
  <2>2. ((p.mDataSize + n) * 3) \div 2 \in Nat /\ ((p.mDataSize + n) * 3) \div 2 >= p.mDataSize + n
    BY <2>1, GrowEnough
  <2>3. q.fits = p.fits /\ q.mDataPos = p.mDataPos /\ q.mDataSize = p.mDataSize /\ q.mData = p.mData
        /\ q.mDataCapacity = ((p.mDataSize + n) * 3) \div 2
    BY <2>1 DEF Parcels
  <2>4. q \in Parcels
    BY <2>1, <2>2 DEF Parcels
  <2>5. QED  BY <2>1, <2>2, <2>3, <2>4
<1>3. QED  BY <1>1, <1>2

\* Where WriteAligned and ReadAligned place a value of w bytes.
Start(p, w) == IF w = 8 THEN ALIGN(p.mDataPos, 8) ELSE p.mDataPos

\* WriteInteger, WriteLong and the like: the value is behind what was written, at its alignment.
LEMMA WriteAlignedAppends ==
  ASSUME NEW p, Appendable(p), NEW v \in Tokens, NEW w \in {4, 8}, NEW q, q = WriteAligned(p, v, w)
  PROVE  /\ Appended(q, p) /\ Start(p, w) \in Nat /\ Start(p, w) >= p.mDataPos
         /\ q.mDataPos = Start(p, w) + w
         /\ \A k \in 1..w : q.mData[Start(p, w) + k] = <<v, k>>
<1> DEFINE pos == Start(p, w)
           g == IF pos + w <= p.mDataCapacity THEN p ELSE GrowData(p, pos - p.mDataPos + w)
<1>1. p.mDataPos \in Nat /\ p.mDataPos = p.mDataSize /\ p.mDataSize = Len(p.mData)
  BY DEF Appendable, Parcels
<1>2. pos \in Nat /\ pos >= p.mDataPos
  <2>1. ALIGN(p.mDataPos, 8) \in Nat /\ ALIGN(p.mDataPos, 8) >= p.mDataPos
    BY <1>1, AlignUp
  <2>2. QED  BY <1>1, <2>1 DEF Start
<1>3. q = Put(g, pos, Bytes(v, w), pos + w)
  BY DEF WriteAligned, Start
<1> HIDE DEF pos
<1>4. w \in Nat /\ pos - p.mDataPos + w \in Nat /\ pos + w \in Nat /\ pos + w = p.mDataPos + (pos - p.mDataPos + w)
  BY <1>1, <1>2
<1>5. /\ g \in Parcels /\ g.fits /\ g.mDataPos = p.mDataPos /\ g.mDataSize = p.mDataSize
      /\ g.mData = p.mData /\ pos + w <= g.mDataCapacity
  BY <1>4, GrowDataMakesRoom
<1> HIDE DEF g
<1>6. /\ Appendable(q) /\ q.mDataPos = pos + w
      /\ \A k \in 1..g.mDataPos : q.mData[k] = g.mData[k]
      /\ \A k \in 1..w : q.mData[pos + k] = <<v, k>>
  <2>1. Room(g, pos, v, w, pos + w)
    BY <1>1, <1>2, <1>4, <1>5 DEF Room
  <2>2. PutAt(q, g, pos, v, w, pos + w)
    BY <1>3, <2>1, PutAppends
  <2>3. QED  BY <2>2 DEF PutAt
<1>7. Appended(q, p)
  BY <1>1, <1>2, <1>4, <1>5, <1>6 DEF Appended
<1>8. QED  BY <1>2, <1>6, <1>7 DEF pos

\* Write: n bytes behind what was written, and the position advances by a multiple of four.
LEMMA WriteAppends ==
  ASSUME NEW p, Appendable(p), NEW v \in Tokens, NEW n \in Nat, NEW q, q = Write(p, v, n)
  PROVE  /\ Appended(q, p) /\ q.mDataPos = p.mDataPos + ALIGN(n, 4)
         /\ \A k \in 1..n : q.mData[p.mDataPos + k] = <<v, k>>
<1> DEFINE end == p.mDataPos + ALIGN(n, 4)
           g == IF end <= p.mDataCapacity THEN p ELSE GrowData(p, ALIGN(n, 4))
<1>1. p.mDataPos \in Nat /\ p.mDataPos = p.mDataSize /\ p.mDataSize = Len(p.mData)
  BY DEF Appendable, Parcels
<1>2. ALIGN(n, 4) \in Nat /\ ALIGN(n, 4) >= n /\ end \in Nat /\ end >= p.mDataPos + n
  <2>1. ALIGN(n, 4) \in Nat /\ ALIGN(n, 4) >= n
    BY AlignUp
  <2>2. QED  BY <1>1, <2>1
<1>3. q = Put(g, p.mDataPos, Bytes(v, n), end)
  BY DEF Write
<1>4. /\ g \in Parcels /\ g.fits /\ g.mDataPos = p.mDataPos /\ g.mDataSize = p.mDataSize
      /\ g.mData = p.mData /\ end <= g.mDataCapacity
  BY <1>2, GrowDataMakesRoom
<1>9. end = p.mDataPos + ALIGN(n, 4)
  OBVIOUS
<1> HIDE DEF g, end
<1>5. Room(g, p.mDataPos, v, n, end)
  BY <1>1, <1>2, <1>4 DEF Room
<1>6. /\ Appendable(q) /\ q.mDataPos = end
      /\ \A k \in 1..g.mDataPos : q.mData[k] = g.mData[k]
      /\ \A k \in 1..n : q.mData[p.mDataPos + k] = <<v, k>>
  <2>1. PutAt(q, g, p.mDataPos, v, n, end)
    BY <1>3, <1>5, PutAppends
  <2>2. QED  BY <2>1 DEF PutAt
<1>7. Appended(q, p)
  BY <1>1, <1>2, <1>4, <1>6 DEF Appended
<1>8. QED  BY <1>6, <1>7, <1>9

\* WriteString, WriteArray and WriteValue append.
LEMMA WriteStringAppends ==
  ASSUME NEW p, Appendable(p), NEW v \in Tokens, NEW n \in Nat
  PROVE  Appended(WriteString(p, v, n), p)
<1> DEFINE l == WriteAligned(p, Token("length", n), 4)
<1>1. Token("length", n) \in Tokens
  BY DEF Token, Tokens, Tags
<1>2. Appended(l, p)
  BY <1>1, WriteAlignedAppends
<1> HIDE DEF l
<1>3. Appendable(l) /\ n + 1 \in Nat
  BY <1>2 DEF Appended
<1>4. Appended(Write(l, v, n + 1), l)
  BY <1>3, WriteAppends
<1>5. WriteString(p, v, n) = IF n > 0 THEN Write(l, v, n + 1) ELSE l
  BY DEF WriteString, l
<1>6. QED  BY <1>2, <1>4, <1>5, AppendedTransitive

\* A set of naturals that is not empty has a least element.
LEMMA LeastNat ==
  ASSUME NEW S \in SUBSET Nat, S # {}
  PROVE  \E n \in S : \A m \in S : n <= m
<1>1. IsWellFoundedOn(OpToRel(<, Nat), Nat)
  BY NatLessThanWellFounded
<1>2. PICK n \in S : \A m \in S : ~(<<m, n>> \in OpToRel(<, Nat))
  BY <1>1, WFMin
<1>3. \A m \in S : ~(m < n)
  BY <1>2 DEF OpToRel
<1>4. QED  BY <1>3

\* WriteStrings and ReadStrings are what their recursive definitions say: there is a function
\* that satisfies the equation, put together from those that satisfy it up to n.
LEMMA WriteStringsIs ==
  ASSUME NEW p, NEW v, NEW lens
  PROVE  /\ WriteStrings(p, v, lens)[0] = p
         /\ \A n \in Nat \ {0} : WriteStrings(p, v, lens)[n] =
                WriteString(WriteStrings(p, v, lens)[n - 1], Element(v, n), lens[n])
<1> DEFINE Step(x, n) == WriteString(x, Element(v, n), lens[n])
           Upto(g, n) == g[0] = p /\ \A k \in 1..n : g[k] = Step(g[k - 1], k)
           Eq(f) == f = [n \in Nat |-> IF n = 0 THEN p ELSE Step(f[n - 1], n)]
<1>1. WriteStrings(p, v, lens) = CHOOSE f : Eq(f)
  BY DEF WriteStrings
<1> HIDE DEF Step
<1>2. \A n \in Nat : \E g : Upto(g, n)
  <2> DEFINE S == {n \in Nat : ~ \E g : Upto(g, n)}
  <2>1. SUFFICES ASSUME S # {} PROVE FALSE
    OBVIOUS
  <2>2. PICK n \in S : \A m \in S : n <= m
    BY <2>1, LeastNat
  <2>3. n # 0
    <3>1. Upto([k \in {0} |-> p], 0)
      OBVIOUS
    <3>2. QED  BY <2>2, <3>1
  <2>4. n - 1 \in Nat /\ n - 1 \notin S
    BY <2>2, <2>3
  <2>5. PICK g : Upto(g, n - 1)
    BY <2>4
  <2> DEFINE h == [k \in 0..n |-> IF k = n THEN Step(g[n - 1], n) ELSE g[k]]
  <2>6. /\ h[0] = g[0] /\ h[n] = Step(g[n - 1], n) /\ h[n - 1] = g[n - 1]
        /\ \A k \in 1..(n - 1) : h[k] = g[k] /\ h[k - 1] = g[k - 1]
    BY <2>3, <2>4
  <2> HIDE DEF h
  <2>7. \A k \in 1..n : k = n \/ k \in 1..(n - 1)
    BY <2>4
  <2>8. Upto(h, n)
    BY <2>5, <2>6, <2>7
  <2>9. QED  BY <2>2, <2>8
<1>3. ASSUME NEW g, NEW h, NEW n \in Nat, Upto(g, n), Upto(h, n)
      PROVE  g[n] = h[n]
  <2> DEFINE S == {m \in 0..n : g[m] # h[m]}
  <2>1. SUFFICES ASSUME S # {} PROVE FALSE
    BY <1>3
  <2>2. S \in SUBSET Nat
    OBVIOUS
  <2>3. PICK m \in S : \A k \in S : m <= k
    BY <2>1, <2>2, LeastNat
  <2>4. m \in 1..n /\ m - 1 \in 0..n /\ m - 1 \notin S
    BY <1>3, <2>3
  <2>5. g[m] = Step(g[m - 1], m) /\ h[m] = Step(h[m - 1], m) /\ g[m - 1] = h[m - 1]
    BY <1>3, <2>4
  <2>6. QED  BY <2>3, <2>5
<1> DEFINE c(n) == CHOOSE g : Upto(g, n)
           f == [n \in Nat |-> c(n)[n]]
<1>4. \A n \in Nat : Upto(c(n), n)
  BY <1>2
<1> HIDE DEF c
<1>5. f[0] = p
  BY <1>4
<1>6. ASSUME NEW n \in Nat \ {0} PROVE f[n] = Step(f[n - 1], n)
  <2>1. n - 1 \in Nat /\ n \in 1..n /\ n \in Nat
    OBVIOUS
  <2>2. Upto(c(n), n) /\ Upto(c(n - 1), n - 1)
    BY <1>4, <2>1
  <2>3. Upto(c(n), n - 1)
    BY <2>1, <2>2
  <2>4. c(n)[n - 1] = c(n - 1)[n - 1]
    BY <1>3, <2>1, <2>2, <2>3
  <2>5. c(n)[n] = Step(c(n)[n - 1], n)
    BY <2>1, <2>2
  <2>6. f[n] = c(n)[n] /\ f[n - 1] = c(n - 1)[n - 1]
    BY <2>1
  <2>7. QED  BY <2>4, <2>5, <2>6
<1>7. Eq(f)
  <2> DEFINE z == [n \in Nat |-> IF n = 0 THEN p ELSE Step(f[n - 1], n)]
  <2>1. \A n \in Nat : f[n] = z[n]
    BY <1>5, <1>6
  <2>2. f = [n \in Nat |-> f[n]]
    OBVIOUS
  <2>3. f = z
    BY <2>1, <2>2
  <2>4. QED  BY <2>3
<1> HIDE DEF f
<1>8. Eq(WriteStrings(p, v, lens))
  <2>1. \E e : Eq(e)
    BY <1>7
  <2> HIDE DEF Eq
  <2>2. QED  BY <1>1, <2>1
<1>9. QED  BY <1>8 DEF Step

\* The parameters a method may have, as SignaturesAssumption states it.
Legal(a) == /\ a \in Params
            /\ a.kind = "Array" => /\ a.elem = "Flat" => a.width > 0
                                   /\ a.elem = "String" => Len(a.lens) = a.len

\* An element of an array is a token, and never the mark of a read that failed.
LEMMA ElementType ==
  ASSUME NEW v \in Tokens, NEW k \in Nat \ {0}
  PROVE  Element(v, k) \in Tokens /\ Element(v, k) # Zero /\ Element(v, k) # Null /\ Null # Zero
<1>1. /\ Element(v, k).k = k /\ Element(v, k) \in Tokens
  BY DEF Element, Tokens
<1>2. Zero.k = 0 /\ Null.k = 0 /\ Zero.tag = "zero" /\ Null.tag = "null"
  BY DEF Zero, Null, Token
<1>3. QED  BY <1>1, <1>2

\* The strings of an array are appended one after the other.
LEMMA WriteStringsAppend ==
  ASSUME NEW p, Appendable(p), NEW v \in Tokens, NEW lens \in Seq(Nat), NEW n \in 0..Len(lens)
  PROVE  /\ Appendable(WriteStrings(p, v, lens)[n])
         /\ \A m \in 0..n : Appended(WriteStrings(p, v, lens)[n], WriteStrings(p, v, lens)[m])
<1> DEFINE W == WriteStrings(p, v, lens)
           S == {k \in 0..Len(lens) : ~(Appendable(W[k]) /\ \A m \in 0..k : Appended(W[k], W[m]))}
<1>0. Len(lens) \in Nat /\ \A k \in 1..Len(lens) : lens[k] \in Nat
  OBVIOUS
<1>1. W[0] = p /\ \A k \in Nat \ {0} : W[k] = WriteString(W[k - 1], Element(v, k), lens[k])
  BY WriteStringsIs
<1> HIDE DEF W
<1>2. SUFFICES ASSUME S # {} PROVE FALSE
  BY DEF W
<1>3. S \in SUBSET Nat
  BY <1>0
<1>4. PICK k \in S : \A j \in S : k <= j
  BY <1>2, <1>3, LeastNat
<1>5. CASE k = 0
  <2>1. \A m \in 0..0 : m = 0
    OBVIOUS
  <2>2. QED  BY <1>1, <1>4, <1>5, <2>1, AppendedReflexive
<1>6. CASE k # 0
  <2>1. k \in 1..Len(lens) /\ k - 1 \in 0..Len(lens) /\ k - 1 \notin S /\ k \in Nat \ {0}
    BY <1>0, <1>4, <1>6
  <2>2. Appendable(W[k - 1]) /\ \A m \in 0..(k - 1) : Appended(W[k - 1], W[m])
    BY <2>1
  <2>3. W[k] = WriteString(W[k - 1], Element(v, k), lens[k]) /\ lens[k] \in Nat /\ Element(v, k) \in Tokens
    BY <1>0, <1>1, <2>1, ElementType
  <2>4. Appended(W[k], W[k - 1])
    BY <2>2, <2>3, WriteStringAppends
  <2>5. Appendable(W[k])
    BY <2>4 DEF Appended
  <2>6. ASSUME NEW m \in 0..k PROVE Appended(W[k], W[m])
    <3>1. m = k \/ m \in 0..(k - 1)
      BY <2>1
    <3>2. QED  BY <2>2, <2>4, <2>5, <3>1, AppendedReflexive, AppendedTransitive
  <2>7. QED  BY <1>4, <2>5, <2>6
<1>7. QED  BY <1>5, <1>6

\* WriteArray: the element type and the length are appended, then the elements of a flat
\* array and of one of strings, and of others nothing.
LEMMA WriteArrayAppends ==
  ASSUME NEW p, Appendable(p), NEW v \in Tokens, NEW a, Legal(a), a.kind = "Array"
  PROVE  Appended(WriteArray(p, v, a), p)
<1> DEFINE t == WriteAligned(p, Token(a.elem, a.width), 4)
           l == WriteAligned(t, Token("length", a.len), 8)
<1>0. /\ a.len \in Nat /\ a.width \in Nat /\ a.elem \in Elems /\ a.lens \in Seq(Nat)
      /\ a.elem = "String" => Len(a.lens) = a.len
  BY DEF Legal, Params
<1>1. Token("length", a.len) \in Tokens /\ Token(a.elem, a.width) \in Tokens
  BY <1>0 DEF Token, Tokens, Tags
<1>2. Appended(t, p)
  BY <1>1, WriteAlignedAppends
<1> HIDE DEF t
<1>3. Appendable(t)
  BY <1>2 DEF Appended
<1>4. Appended(l, t)
  BY <1>1, <1>3, WriteAlignedAppends
<1> HIDE DEF l
<1>5. Appendable(l) /\ Appended(l, p)
  BY <1>2, <1>4, AppendedTransitive DEF Appended
<1>6. /\ a.len > 0 /\ a.elem = "Flat" => WriteArray(p, v, a) = Write(l, v, a.len * a.width)
      /\ a.len > 0 /\ a.elem = "String" => WriteArray(p, v, a) = WriteStrings(l, v, a.lens)[a.len]
      /\ ~(a.len > 0 /\ a.elem \in {"Flat", "String"}) => WriteArray(p, v, a) = l
  BY DEF WriteArray, l, t
<1>7. CASE a.len > 0 /\ a.elem = "Flat"
  <2>1. a.len * a.width \in Nat
    BY <1>0
  <2>2. Appended(Write(l, v, a.len * a.width), l)
    BY <1>5, <2>1, WriteAppends
  <2>3. QED  BY <1>5, <1>6, <1>7, <2>2, AppendedTransitive
<1>8. CASE a.len > 0 /\ a.elem = "String"
  <2>1. a.len \in 0..Len(a.lens) /\ 0 \in 0..a.len
    BY <1>0, <1>8
  <2>2. Appended(WriteStrings(l, v, a.lens)[a.len], WriteStrings(l, v, a.lens)[0])
    BY <1>0, <1>5, <2>1, WriteStringsAppend
  <2>3. WriteStrings(l, v, a.lens)[0] = l
    BY WriteStringsIs
  <2>4. QED  BY <1>5, <1>6, <1>8, <2>2, <2>3, AppendedTransitive
<1>9. QED  BY <1>5, <1>6, <1>7, <1>8

\* Whatever the kind of a parameter, its write only appends.
LEMMA WriteValueAppends ==
  ASSUME NEW p, Appendable(p), NEW v \in Tokens, NEW a, Legal(a)
  PROVE  Appended(WriteValue(p, a, v), p)
<1>1. a.len \in Nat /\ Width(a.kind) \in {4, 8}
  BY DEF Legal, Params, Width
<1>2. CASE a.kind = "String"
  BY <1>1, <1>2, WriteStringAppends DEF WriteValue
<1>3. CASE a.kind = "Array"
  BY <1>1, <1>3, WriteArrayAppends DEF WriteValue
<1>4. CASE a.kind = "Interface"
  BY <1>4, AppendedReflexive DEF WriteValue
<1>5. CASE a.kind \notin {"String", "Array", "Interface"}
  <2>1. WriteValue(p, a, v) = WriteAligned(p, v, Width(a.kind))
    BY <1>5 DEF WriteValue
  <2>2. QED  BY <1>1, <2>1, WriteAlignedAppends
<1>6. QED  BY <1>2, <1>3, <1>4, <1>5

-----------------------------------------------------------------------------
(***************************************************************************)
(* Reading what was written.                                               *)
(***************************************************************************)
\* The parcel r at another position.
At(r, pos) == [r EXCEPT !.mDataPos = pos]

\* A reader's position does not change what the parcel holds.
LEMMA AtFollows ==
  ASSUME NEW r, NEW q, NEW pos \in Nat, Follows(r, q)
  PROVE  /\ Follows(At(r, pos), q) /\ At(r, pos).mDataPos = pos
         /\ \A n : At(At(r, pos), n) = At(r, n)
<1>1. r \in Parcels
  BY DEF Follows
<1>2. /\ At(r, pos) \in Parcels /\ At(r, pos).mDataPos = pos /\ At(r, pos).mData = r.mData
      /\ At(r, pos).mDataSize = r.mDataSize
  BY <1>1 DEF At, Parcels
<1>3. \A n : At(At(r, pos), n) = At(r, n)
  BY <1>1 DEF At, Parcels
<1>4. QED  BY <1>2, <1>3 DEF Follows

\* A reader of the whole parcel holds each earlier part of it.
LEMMA FollowsEarlier ==
  ASSUME NEW r, NEW q, NEW p, Follows(r, q), Appended(q, p)
  PROVE  Follows(r, p)
<1>1. /\ p.mDataPos \in Nat /\ q.mDataPos \in Nat /\ r.mDataSize \in Nat
  BY DEF Follows, Appended, Appendable, Parcels
<1>2. QED  BY <1>1 DEF Follows, Appended

\* The bytes of a token decode to it.
LEMMA DecodeBytes ==
  ASSUME NEW v, NEW w \in Nat, w > 0, NEW S, NEW b \in Seq(S), Len(b) = w, \A k \in 1..w : b[k] = <<v, k>>
  PROVE  Decode(b) = v
<1>1. b = [k \in 1..w |-> <<v, k>>]
  <2>1. b \in [1..w -> S]
    OBVIOUS
  <2>2. QED  BY <2>1
<1>2. b[1][1] = v
  <2>1. 1 \in 1..w
    OBVIOUS
  <2>2. b[1] = <<v, 1>>
    BY <2>1
  <2>3. QED  BY <2>2
<1>3. b = Bytes(b[1][1], Len(b))
  BY <1>1, <1>2 DEF Bytes
<1>4. QED  BY <1>2, <1>3 DEF Decode

\* The n bytes of v are in q from pos on; they are read from r.
Holds(q, pos, v, n) == /\ pos \in Nat /\ n \in Nat /\ n > 0 /\ pos + n <= q.mDataPos
                       /\ \A k \in 1..n : q.mData[pos + k] = <<v, k>>

\* A reader's bytes at a place where the writer put a token decode to that token.
LEMMA DecodeFollows ==
  ASSUME NEW q, Appendable(q), NEW r, Follows(r, q), NEW pos, NEW v, NEW n, Holds(q, pos, v, n)
  PROVE  Decode(SubSeq(r.mData, pos + 1, pos + n)) = v
<1>0. /\ pos \in Nat /\ n \in Nat /\ n > 0 /\ pos + n <= q.mDataPos
      /\ \A k \in 1..n : q.mData[pos + k] = <<v, k>>
  BY DEF Holds
<1> DEFINE b == SubSeq(r.mData, pos + 1, pos + n)
<1>1. /\ r.mData \in Seq(Tokens \X Nat) /\ q.mDataPos \in Nat /\ q.mDataPos <= Len(r.mData)
      /\ Len(r.mData) \in Nat
  BY DEF Follows, Appendable, Parcels
<1>2. b \in Seq(Tokens \X Nat) /\ Len(b) = n /\ \A k \in 1..n : b[k] = r.mData[pos + k]
  BY <1>0, <1>1, SMTT(40)
<1>3. ASSUME NEW k \in 1..n PROVE b[k] = <<v, k>>
  <2>1. pos + k \in 1..q.mDataPos
    BY <1>0, <1>1
  <2>2. r.mData[pos + k] = q.mData[pos + k]
    BY <2>1 DEF Follows
  <2>3. QED  BY <1>0, <1>2, <2>2
<1> HIDE DEF b
<1>4. Decode(b) = v
  BY <1>0, <1>2, <1>3, DecodeBytes
<1>5. QED  BY <1>4 DEF b

\* ReadInteger, ReadLong and the like: the value written there is read, and the position is the writer's.
LEMMA ReadAlignedReads ==
  ASSUME NEW p, Appendable(p), NEW v \in Tokens, NEW w \in {4, 8}, NEW q, q = WriteAligned(p, v, w),
         NEW r, Follows(r, q), r.mDataPos = p.mDataPos
  PROVE  ReadAligned(r, w) = Got(At(r, q.mDataPos), v)
<1> DEFINE pos == Start(p, w)
<1>1. /\ Appended(q, p) /\ pos \in Nat /\ pos >= p.mDataPos
      /\ q.mDataPos = pos + w
      /\ \A k \in 1..w : q.mData[pos + k] = <<v, k>>
  BY WriteAlignedAppends
<1>2. pos + w <= r.mDataSize /\ w \in Nat /\ w > 0
  BY <1>1 DEF Follows
<1>3. ReadAligned(r, w) = Got([r EXCEPT !.mDataPos = pos + w], Decode(SubSeq(r.mData, pos + 1, pos + w)))
  BY <1>2 DEF ReadAligned, Start
<1> HIDE DEF pos
<1>4. Appendable(q) /\ Holds(q, pos, v, w)
  BY <1>1, <1>2 DEF Appended, Holds
<1>5. Decode(SubSeq(r.mData, pos + 1, pos + w)) = v
  BY <1>4, DecodeFollows
<1>6. QED  BY <1>1, <1>3, <1>5 DEF At

\* Read: the same for n bytes.
LEMMA ReadReads ==
  ASSUME NEW p, Appendable(p), NEW v \in Tokens, NEW n \in Nat, n > 0, NEW q, q = Write(p, v, n),
         NEW r, Follows(r, q), r.mDataPos = p.mDataPos
  PROVE  Read(r, n) = Got(At(r, q.mDataPos), v)
<1>0. p.mDataPos \in Nat
  BY DEF Appendable, Parcels
<1>1. /\ Appended(q, p) /\ q.mDataPos = p.mDataPos + ALIGN(n, 4)
      /\ \A k \in 1..n : q.mData[p.mDataPos + k] = <<v, k>>
  BY WriteAppends
<1>2. ALIGN(n, 4) \in Nat /\ ALIGN(n, 4) >= n
  BY AlignUp
<1>3. Appendable(q) /\ Holds(q, p.mDataPos, v, n)
  BY <1>0, <1>1, <1>2 DEF Appended, Holds
<1>4. r.mDataPos + ALIGN(n, 4) <= r.mDataSize
  BY <1>0, <1>1 DEF Follows
<1>5. Read(r, n) = Got([r EXCEPT !.mDataPos = q.mDataPos], Decode(SubSeq(r.mData, p.mDataPos + 1, p.mDataPos + n)))
  BY <1>1, <1>4 DEF Read
<1>6. Decode(SubSeq(r.mData, p.mDataPos + 1, p.mDataPos + n)) = v
  BY <1>3, DecodeFollows
<1>7. QED  BY <1>5, <1>6 DEF At

\* A string that is not empty is read as it was written, an empty one as null.
LEMMA ReadStringReads ==
  ASSUME NEW p, Appendable(p), NEW v \in Tokens, NEW n \in Nat, NEW q, q = WriteString(p, v, n),
         NEW r, Follows(r, q), r.mDataPos = p.mDataPos
  PROVE  ReadString(r) = Got(At(r, q.mDataPos), IF n = 0 THEN Null ELSE v)
<1> DEFINE t == Token("length", n)
           l == WriteAligned(p, t, 4)
<1>1. t \in Tokens /\ t.tag = "length" /\ t.n = n
  BY DEF Token, Tokens, Tags
<1>2. q = IF n > 0 THEN Write(l, v, n + 1) ELSE l
  BY DEF WriteString
<1> HIDE DEF t
<1>3. Appended(l, p)
  BY <1>1, WriteAlignedAppends
<1>4. Appendable(l) /\ l.mDataPos \in Nat
  BY <1>3 DEF Appended, Appendable, Parcels
<1>9. l = WriteAligned(p, t, 4)
  OBVIOUS
<1> HIDE DEF l
<1>5. Follows(r, l)
  <2>1. CASE n > 0
    BY <1>2, <1>4, <2>1, WriteAppends, FollowsEarlier
  <2>2. CASE n = 0
    BY <1>2, <2>2
  <2>3. QED  BY <2>1, <2>2
<1>6. ReadAligned(r, 4) = Got(At(r, l.mDataPos), t)
  BY <1>1, <1>5, <1>9, ReadAlignedReads
<1>7. CASE n = 0
  <2>1. ReadString(r) = Got(At(r, l.mDataPos), Null)
    BY <1>1, <1>6, <1>7 DEF ReadString, Got
  <2>2. QED  BY <1>2, <1>7, <2>1
<1>8. CASE n > 0
  <2>1. ReadString(r) = Read(At(r, l.mDataPos), n + 1)
    BY <1>1, <1>6, <1>8 DEF ReadString, Got
  <2>2. /\ Follows(At(r, l.mDataPos), q) /\ At(r, l.mDataPos).mDataPos = l.mDataPos
        /\ \A k : At(At(r, l.mDataPos), k) = At(r, k)
    BY <1>4, AtFollows
  <2>3. n + 1 \in Nat /\ n + 1 > 0 /\ q = Write(l, v, n + 1)
    BY <1>2, <1>8
  <2>4. Read(At(r, l.mDataPos), n + 1) = Got(At(At(r, l.mDataPos), q.mDataPos), v)
    BY <1>4, <2>2, <2>3, ReadReads
  <2>5. QED  BY <1>8, <2>1, <2>2, <2>4
<1>10. QED  BY <1>7, <1>8

\* The same for the loop that reads.
LEMMA ReadStringsIs ==
  ASSUME NEW r
  PROVE  /\ ReadStrings(r)[0] = Got(r, <<>>)
         /\ \A n \in Nat \ {0} : ReadStrings(r)[n] =
                IF Fails(ReadStrings(r)[n - 1].value) THEN ReadStrings(r)[n - 1]
                ELSE Got(ReadString(ReadStrings(r)[n - 1].parcel).parcel,
                         Append(ReadStrings(r)[n - 1].value, ReadString(ReadStrings(r)[n - 1].parcel).value))
<1> DEFINE start == Got(r, <<>>)
           Step(x, n) == IF Fails(x.value) THEN x
                        ELSE Got(ReadString(x.parcel).parcel, Append(x.value, ReadString(x.parcel).value))
           Upto(g, n) == g[0] = start /\ \A k \in 1..n : g[k] = Step(g[k - 1], k)
           Eq(f) == f = [n \in Nat |-> IF n = 0 THEN start ELSE Step(f[n - 1], n)]
<1>1. ReadStrings(r) = CHOOSE f : Eq(f)
  BY DEF ReadStrings
<1> HIDE DEF Step, start
<1>2. \A n \in Nat : \E g : Upto(g, n)
  <2> DEFINE S == {n \in Nat : ~ \E g : Upto(g, n)}
  <2>1. SUFFICES ASSUME S # {} PROVE FALSE
    OBVIOUS
  <2>2. PICK n \in S : \A m \in S : n <= m
    BY <2>1, LeastNat
  <2>3. n # 0
    <3>1. Upto([k \in {0} |-> start], 0)
      OBVIOUS
    <3>2. QED  BY <2>2, <3>1
  <2>4. n - 1 \in Nat /\ n - 1 \notin S
    BY <2>2, <2>3
  <2>5. PICK g : Upto(g, n - 1)
    BY <2>4
  <2> DEFINE h == [k \in 0..n |-> IF k = n THEN Step(g[n - 1], n) ELSE g[k]]
  <2>6. /\ h[0] = g[0] /\ h[n] = Step(g[n - 1], n) /\ h[n - 1] = g[n - 1]
        /\ \A k \in 1..(n - 1) : h[k] = g[k] /\ h[k - 1] = g[k - 1]
    BY <2>3, <2>4
  <2> HIDE DEF h
  <2>7. \A k \in 1..n : k = n \/ k \in 1..(n - 1)
    BY <2>4
  <2>8. Upto(h, n)
    BY <2>5, <2>6, <2>7
  <2>9. QED  BY <2>2, <2>8
<1>3. ASSUME NEW g, NEW h, NEW n \in Nat, Upto(g, n), Upto(h, n)
      PROVE  g[n] = h[n]
  <2> DEFINE S == {m \in 0..n : g[m] # h[m]}
  <2>1. SUFFICES ASSUME S # {} PROVE FALSE
    BY <1>3
  <2>2. S \in SUBSET Nat
    OBVIOUS
  <2>3. PICK m \in S : \A k \in S : m <= k
    BY <2>1, <2>2, LeastNat
  <2>4. m \in 1..n /\ m - 1 \in 0..n /\ m - 1 \notin S
    BY <1>3, <2>3
  <2>5. g[m] = Step(g[m - 1], m) /\ h[m] = Step(h[m - 1], m) /\ g[m - 1] = h[m - 1]
    BY <1>3, <2>4
  <2>6. QED  BY <2>3, <2>5
<1> DEFINE c(n) == CHOOSE g : Upto(g, n)
           f == [n \in Nat |-> c(n)[n]]
<1>4. \A n \in Nat : Upto(c(n), n)
  BY <1>2
<1> HIDE DEF c
<1>5. f[0] = start
  BY <1>4
<1>6. ASSUME NEW n \in Nat \ {0} PROVE f[n] = Step(f[n - 1], n)
  <2>1. n - 1 \in Nat /\ n \in 1..n /\ n \in Nat
    OBVIOUS
  <2>2. Upto(c(n), n) /\ Upto(c(n - 1), n - 1)
    BY <1>4, <2>1
  <2>3. Upto(c(n), n - 1)
    BY <2>1, <2>2
  <2>4. c(n)[n - 1] = c(n - 1)[n - 1]
    BY <1>3, <2>1, <2>2, <2>3
  <2>5. c(n)[n] = Step(c(n)[n - 1], n)
    BY <2>1, <2>2
  <2>6. f[n] = c(n)[n] /\ f[n - 1] = c(n - 1)[n - 1]
    BY <2>1
  <2>7. QED  BY <2>4, <2>5, <2>6
<1>7. Eq(f)
  <2> DEFINE z == [n \in Nat |-> IF n = 0 THEN start ELSE Step(f[n - 1], n)]
  <2>1. \A n \in Nat : f[n] = z[n]
    BY <1>5, <1>6
  <2>2. f = [n \in Nat |-> f[n]]
    OBVIOUS
  <2>3. f = z
    BY <2>1, <2>2
  <2>4. QED  BY <2>3
<1> HIDE DEF f
<1>8. Eq(ReadStrings(r))
  <2>1. \E e : Eq(e)
    BY <1>7
  <2> HIDE DEF Eq
  <2>2. QED  BY <1>1, <2>1
<1>9. QED  BY <1>8 DEF Step, start

\* The first n strings of the array v.
Strings(v, lens, n) == [k \in 1..n |-> IF lens[k] = 0 THEN Null ELSE Element(v, k)]

\* None of them is the mark of a read that failed.
LEMMA StringsType ==
  ASSUME NEW v \in Tokens, NEW lens, NEW n \in Nat
  PROVE  /\ Strings(v, lens, n) \in Seq(Tokens) /\ Len(Strings(v, lens, n)) = n
         /\ ~Fails(Strings(v, lens, n)) /\ Strings(v, lens, 0) = <<>>
         /\ \A k \in 1..n : Strings(v, lens, n)[k] = IF lens[k] = 0 THEN Null ELSE Element(v, k)
<1>1. Null \in Tokens
  BY DEF Null, Token, Tokens, Tags
<1>2. \A k \in 1..n : (IF lens[k] = 0 THEN Null ELSE Element(v, k)) \in Tokens \ {Zero}
  <2>1. \A k \in 1..n : k \in Nat \ {0}
    OBVIOUS
  <2>2. \A k \in Nat \ {0} : Element(v, k) \in Tokens /\ Element(v, k) # Zero /\ Null # Zero
    BY ElementType
  <2>3. QED  BY <1>1, <2>1, <2>2
<1>3. Strings(v, lens, n) \in [1..n -> Tokens \ {Zero}]
  BY <1>2 DEF Strings
<1>4. Strings(v, lens, n) \in Seq(Tokens \ {Zero}) /\ Len(Strings(v, lens, n)) = n
  BY <1>3
<1>5. Strings(v, lens, n) # <<>> => Strings(v, lens, n)[Len(Strings(v, lens, n))] # Zero
  <2> DEFINE s == Strings(v, lens, n)
  <2>1. s \in Seq(Tokens \ {Zero})
    BY <1>4
  <2> HIDE DEF s
  <2>2. s # <<>> => s[Len(s)] \in Tokens \ {Zero}
    BY <2>1
  <2>3. QED  BY <2>2 DEF s
<1>6. Strings(v, lens, n) \in Seq(Tokens)
  BY <1>3
<1>7. Strings(v, lens, 0) = <<>>
  BY DEF Strings
<1>8. QED  BY <1>4, <1>5, <1>6, <1>7 DEF Fails, Strings

\* ReadArray's loop reads each string from where WriteArray's loop put it.
LEMMA ReadStringsRead ==
  ASSUME NEW p, Appendable(p), NEW v \in Tokens, NEW lens \in Seq(Nat),
         NEW r, Follows(r, WriteStrings(p, v, lens)[Len(lens)]), r.mDataPos = p.mDataPos,
         NEW n \in 0..Len(lens)
  PROVE  ReadStrings(r)[n] = Got(At(r, WriteStrings(p, v, lens)[n].mDataPos), Strings(v, lens, n))
<1> DEFINE W == WriteStrings(p, v, lens)
           R == ReadStrings(r)
           S == {k \in 0..Len(lens) : R[k] # Got(At(r, W[k].mDataPos), Strings(v, lens, k))}
<1>0. Len(lens) \in Nat /\ \A k \in 1..Len(lens) : lens[k] \in Nat
  OBVIOUS
<1>1. W[0] = p /\ \A k \in Nat \ {0} : W[k] = WriteString(W[k - 1], Element(v, k), lens[k])
  BY WriteStringsIs
<1>2. /\ R[0] = Got(r, <<>>)
      /\ \A k \in Nat \ {0} :
            R[k] = IF Fails(R[k - 1].value) THEN R[k - 1]
                   ELSE Got(ReadString(R[k - 1].parcel).parcel,
                            Append(R[k - 1].value, ReadString(R[k - 1].parcel).value))
  BY ReadStringsIs
<1>3. /\ \A k \in 0..Len(lens) : Appendable(W[k]) /\ Follows(r, W[k])
  <2>1. SUFFICES ASSUME NEW k \in 0..Len(lens) PROVE Appendable(W[k]) /\ Follows(r, W[k])
    OBVIOUS
  <2>2. Len(lens) \in 0..Len(lens)
    BY <1>0
  <2>3. Appendable(W[k]) /\ Appended(W[Len(lens)], W[k])
    BY <2>2, WriteStringsAppend
  <2>4. QED  BY <2>3, FollowsEarlier
<1> HIDE DEF W, R
<1>4. SUFFICES ASSUME S # {} PROVE FALSE
  BY DEF W, R
<1>5. S \in SUBSET Nat
  BY <1>0
<1>6. PICK k \in S : \A j \in S : k <= j
  BY <1>4, <1>5, LeastNat
<1>7. CASE k = 0
  <2>1. At(r, p.mDataPos) = r
    <3>1. r \in Parcels
      BY <1>0, <1>3 DEF Follows
    <3>2. QED  BY <3>1 DEF At, Parcels
  <2>2. R[0] = Got(At(r, W[0].mDataPos), Strings(v, lens, 0))
    BY <1>1, <1>2, <2>1, StringsType
  <2>3. QED  BY <1>6, <1>7, <2>2
<1>8. CASE k # 0
  <2>1. /\ k \in 1..Len(lens) /\ k \in 0..Len(lens) /\ k \in Nat \ {0}
        /\ k - 1 \in 0..Len(lens) /\ k - 1 \in Nat /\ k - 1 \notin S
    BY <1>0, <1>6, <1>8
  <2> DEFINE t == At(r, W[k - 1].mDataPos)
             b == Strings(v, lens, k - 1)
             x == IF lens[k] = 0 THEN Null ELSE Element(v, k)
  <2>2. R[k - 1] = Got(t, b)
    BY <2>1
  <2>3. /\ Appendable(W[k - 1]) /\ W[k - 1].mDataPos \in Nat
        /\ W[k] = WriteString(W[k - 1], Element(v, k), lens[k]) /\ lens[k] \in Nat /\ Element(v, k) \in Tokens
        /\ Follows(r, W[k])
    BY <1>0, <1>1, <1>3, <2>1, ElementType DEF Appendable, Parcels
  <2>4. Follows(t, W[k]) /\ t.mDataPos = W[k - 1].mDataPos /\ \A m : At(t, m) = At(r, m)
    BY <2>3, AtFollows
  <2>5. /\ b \in Seq(Tokens) /\ Len(b) = k - 1 /\ ~Fails(b)
        /\ \A m \in 1..(k - 1) : b[m] = IF lens[m] = 0 THEN Null ELSE Element(v, m)
    BY <2>1, StringsType
  <2> HIDE DEF t, b
  <2>6. ReadString(t) = Got(At(r, W[k].mDataPos), x)
    <3>1. ReadString(t) = Got(At(t, W[k].mDataPos), IF lens[k] = 0 THEN Null ELSE Element(v, k))
      BY <2>3, <2>4, ReadStringReads
    <3>2. QED  BY <2>4, <3>1
  <2>7. x \in Tokens
    BY <2>3 DEF Null, Token, Tokens, Tags
  <2>8. \A m \in 1..k : (m = k \/ m \in 1..(k - 1)) /\ k \in 1..k
    BY <2>1
  <2> HIDE DEF x
  <2>9. Append(b, x) = Strings(v, lens, k)
    <3> DEFINE h == Append(b, x)
    <3>1. h \in Seq(Tokens) /\ Len(h) = k /\ h[k] = x /\ \A m \in 1..(k - 1) : h[m] = b[m]
      BY <2>1, <2>5, <2>7
    <3> HIDE DEF h
    <3>2. \A m \in 1..k : h[m] = IF lens[m] = 0 THEN Null ELSE Element(v, m)
      BY <2>5, <2>8, <3>1 DEF x
    <3>3. h = [m \in 1..k |-> IF lens[m] = 0 THEN Null ELSE Element(v, m)]
      BY <2>1, <3>1, <3>2
    <3>4. QED  BY <3>3 DEF h, Strings
  <2>10. R[k] = Got(ReadString(t).parcel, Append(b, ReadString(t).value))
    <3>1. R[k - 1].value = b /\ R[k - 1].parcel = t
      BY <2>2 DEF Got
    <3>2. QED  BY <1>2, <2>1, <2>5, <3>1
  <2>11. ReadString(t).parcel = At(r, W[k].mDataPos) /\ ReadString(t).value = x
    BY <2>6 DEF Got
  <2>12. R[k] = Got(At(r, W[k].mDataPos), Strings(v, lens, k))
    BY <2>9, <2>10, <2>11
  <2>13. QED  BY <1>6, <2>12
<1>9. QED  BY <1>7, <1>8

\* What is read for v.  It is what the caller passed (Carried) but for interfaces, which
\* arrive null, arrays of them, which arrive as arrays of nulls, and arrays of unknown type,
\* which arrive null.
Delivered(a, v) ==
    CASE a.kind = "Interface" -> <<Null>>
      [] a.kind = "Array" /\ a.len > 0 /\ a.elem = "Interface" -> [k \in 1..a.len |-> Null]
      [] a.kind = "Array" /\ a.len > 0 /\ a.elem = "Unknown" -> <<>>
      [] OTHER -> Carried(a, v)

\* ReadArray: the type and the length, then what the type has.
LEMMA ReadArrayReads ==
  ASSUME NEW p, Appendable(p), NEW v \in Tokens, NEW a, Legal(a), a.kind = "Array",
         NEW q, q = WriteArray(p, v, a), NEW r, Follows(r, q), r.mDataPos = p.mDataPos
  PROVE  ReadArray(r) = Got(At(r, q.mDataPos), Delivered(a, v))
<1> DEFINE n == a.len
           ty == Token(a.elem, a.width)
           t == Token("length", n)
           f == WriteAligned(p, ty, 4)
           l == WriteAligned(f, t, 8)
<1>0. /\ n \in Nat /\ a.width \in Nat /\ a.elem \in Elems /\ a.lens \in Seq(Nat)
      /\ a.elem = "Flat" => a.width > 0
      /\ a.elem = "String" => Len(a.lens) = n
  BY DEF Legal, Params
<1>1. /\ t \in Tokens /\ t.tag = "length" /\ t.n = n
      /\ ty \in Tokens /\ ty.tag = a.elem /\ ty.n = a.width
  BY <1>0 DEF Token, Tokens, Tags
<1>2. /\ n > 0 /\ a.elem = "Flat" => q = Write(l, v, n * a.width)
      /\ n > 0 /\ a.elem = "String" => q = WriteStrings(l, v, a.lens)[n]
      /\ ~(n > 0 /\ a.elem \in {"Flat", "String"}) => q = l
  BY DEF WriteArray
<1> HIDE DEF t, ty
<1>3. Appended(f, p)
  BY <1>1, WriteAlignedAppends
<1>4. Appendable(f) /\ f.mDataPos \in Nat
  BY <1>3 DEF Appended, Appendable, Parcels
<1>5. f = WriteAligned(p, ty, 4) /\ l = WriteAligned(f, t, 8)
  OBVIOUS
<1> HIDE DEF f
<1>6. Appended(l, f)
  BY <1>1, <1>4, WriteAlignedAppends
<1>7. Appendable(l) /\ l.mDataPos \in Nat
  BY <1>6 DEF Appended, Appendable, Parcels
<1> HIDE DEF l
<1>8. n > 0 /\ a.elem = "Flat" => n * a.width \in Nat /\ n * a.width > 0
  BY <1>0
<1>9. n > 0 /\ a.elem = "String" => /\ n \in 0..Len(a.lens) /\ n = Len(a.lens) /\ 0 \in 0..n
                                    /\ WriteStrings(l, v, a.lens)[0] = l
  BY <1>0, WriteStringsIs
<1> HIDE DEF n
<1>10. Appended(q, l)
  <2>1. CASE n > 0 /\ a.elem = "Flat"
    BY <1>2, <1>7, <1>8, <2>1, WriteAppends
  <2>2. CASE n > 0 /\ a.elem = "String"
    BY <1>0, <1>2, <1>7, <1>9, <2>2, WriteStringsAppend
  <2>3. CASE ~(n > 0 /\ a.elem \in {"Flat", "String"})
    BY <1>2, <1>7, <2>3, AppendedReflexive
  <2>4. QED  BY <2>1, <2>2, <2>3
<1>11. Follows(r, l) /\ Follows(r, f)
  BY <1>6, <1>10, FollowsEarlier
<1>12. ReadAligned(r, 4) = Got(At(r, f.mDataPos), ty)
  BY <1>1, <1>5, <1>11, ReadAlignedReads
<1>13. /\ Follows(At(r, f.mDataPos), l) /\ At(r, f.mDataPos).mDataPos = f.mDataPos
       /\ \A k : At(At(r, f.mDataPos), k) = At(r, k)
  BY <1>4, <1>11, AtFollows
<1>14. ReadAligned(At(r, f.mDataPos), 8) = Got(At(r, l.mDataPos), t)
  <2>1. ReadAligned(At(r, f.mDataPos), 8) = Got(At(At(r, f.mDataPos), l.mDataPos), t)
    BY <1>1, <1>4, <1>5, <1>13, ReadAlignedReads
  <2>2. QED  BY <1>13, <2>1
<1> DEFINE s == At(r, l.mDataPos)
<1>15. Follows(s, q) /\ s.mDataPos = l.mDataPos /\ \A k : At(s, k) = At(r, k)
  BY <1>7, AtFollows
<1>16. /\ n > 0 /\ a.elem = "Flat" =>
             ReadArray(r) = Got(Read(s, n * a.width).parcel, <<Read(s, n * a.width).value>>)
       /\ n > 0 /\ a.elem = "String" =>
             ReadArray(r) = Got(ReadStrings(s)[n].parcel,
                                IF Fails(ReadStrings(s)[n].value) THEN <<>> ELSE ReadStrings(s)[n].value)
       /\ n > 0 /\ a.elem = "Interface" => ReadArray(r) = Got(s, [k \in 1..n |-> Null])
       /\ ~(n > 0) \/ a.elem = "Unknown" => ReadArray(r) = Got(s, <<>>)
  <2> DEFINE type == ReadAligned(r, 4)
             size == ReadAligned(type.parcel, 8)
  <2>1. type.value = ty /\ type.parcel = At(r, f.mDataPos)
    BY <1>12 DEF Got
  <2>2. size.value = t /\ size.parcel = s
    BY <1>14, <2>1 DEF Got
  <2> DEFINE m == size.value.n
             flat == Read(size.parcel, m * type.value.n)
             strings == ReadStrings(size.parcel)[m]
  <2>3. ReadArray(r) =
      CASE type.value.tag \notin Elems ->
              Got(type.parcel, IF type.value.tag = "zero" THEN <<>> ELSE <<Garbage>>)
         [] type.value.tag \in Elems /\ size.value.tag # "length" ->
              Got(size.parcel, IF size.value.tag = "zero" THEN <<>> ELSE <<Garbage>>)
         [] type.value.tag = "Flat" /\ size.value.tag = "length" /\ m > 0 ->
              Got(flat.parcel, <<flat.value>>)
         [] type.value.tag = "String" /\ size.value.tag = "length" /\ m > 0 ->
              Got(strings.parcel, IF Fails(strings.value) THEN <<>> ELSE strings.value)
         [] type.value.tag = "Interface" /\ size.value.tag = "length" /\ m > 0 ->
              Got(size.parcel, [k \in 1..m |-> Null])
         [] OTHER -> Got(size.parcel, <<>>)
    BY Zenon DEF ReadArray
  <2>4. m = n /\ type.value.n = a.width /\ type.value.tag = a.elem /\ size.value.tag = "length"
    BY <1>1, <2>1, <2>2
  <2>5. flat = Read(s, n * a.width) /\ strings = ReadStrings(s)[n]
    BY <2>2, <2>4
  <2>6. a.elem \in {"Flat", "String", "Interface", "Unknown"} /\ Elems = {"Flat", "String", "Interface", "Unknown"}
    BY <1>0 DEF Elems
  <2> HIDE DEF type, size, m, flat, strings, s
  <2>7. CASE n > 0 /\ a.elem = "Flat"
    BY <2>2, <2>3, <2>4, <2>5, <2>6, <2>7
  <2>8. CASE n > 0 /\ a.elem = "String"
    BY <2>2, <2>3, <2>4, <2>5, <2>6, <2>8
  <2>9. CASE n > 0 /\ a.elem = "Interface"
    BY <2>2, <2>3, <2>4, <2>5, <2>6, <2>9
  <2>10. CASE n > 0 /\ a.elem = "Unknown"
    BY <2>2, <2>3, <2>4, <2>5, <2>6, <2>10
  <2>11. CASE ~(n > 0)
    BY <2>2, <2>3, <2>4, <2>5, <2>6, <2>11
  <2>12. QED  BY <2>6, <2>7, <2>8, <2>9, <2>10, <2>11
<1>17. CASE n > 0 /\ a.elem = "Flat"
  <2>1. Read(s, n * a.width) = Got(At(s, q.mDataPos), v)
    BY <1>2, <1>7, <1>8, <1>15, <1>17, ReadReads
  <2>2. Read(s, n * a.width).parcel = At(r, q.mDataPos) /\ Read(s, n * a.width).value = v
    BY <1>15, <2>1 DEF Got
  <2>3. Delivered(a, v) = <<v>>
    BY <1>17 DEF Delivered, Carried, n
  <2>4. QED  BY <1>16, <1>17, <2>2, <2>3
<1>18. CASE n > 0 /\ a.elem = "String"
  <2>1. ReadStrings(s)[n] = Got(At(s, q.mDataPos), Strings(v, a.lens, n))
    <3>1. Follows(s, WriteStrings(l, v, a.lens)[Len(a.lens)]) /\ q = WriteStrings(l, v, a.lens)[n]
      BY <1>2, <1>9, <1>15, <1>18
    <3> HIDE DEF s
    <3>2. QED  BY <1>0, <1>7, <1>9, <1>15, <1>18, <3>1, ReadStringsRead
  <2>2. /\ ReadStrings(s)[n].parcel = At(r, q.mDataPos)
        /\ ReadStrings(s)[n].value = Strings(v, a.lens, n)
    BY <1>15, <2>1 DEF Got
  <2>3. ~Fails(Strings(v, a.lens, n))
    BY <1>0, StringsType
  <2>4. Delivered(a, v) = Strings(v, a.lens, n)
    BY <1>18 DEF Delivered, Carried, Strings, n
  <2>5. QED  BY <1>16, <1>18, <2>2, <2>3, <2>4
<1>19. CASE n > 0 /\ a.elem = "Interface"
  <2>1. Delivered(a, v) = [k \in 1..n |-> Null] /\ q = l
    BY <1>2, <1>19 DEF Delivered, n
  <2>2. QED  BY <1>16, <1>19, <2>1
<1>20. CASE n > 0 /\ a.elem = "Unknown"
  <2>1. Delivered(a, v) = <<>> /\ q = l
    BY <1>2, <1>20 DEF Delivered, n
  <2>2. QED  BY <1>16, <1>20, <2>1
<1>21. CASE n = 0
  <2>1. Delivered(a, v) = <<>> /\ q = l
    BY <1>2, <1>21 DEF Delivered, Carried, n
  <2>2. QED  BY <1>16, <1>21, <2>1
<1>22. n \in Nat /\ a.elem \in {"Flat", "String", "Interface", "Unknown"}
  BY <1>0 DEF Elems
<1>23. QED  BY <1>17, <1>18, <1>19, <1>20, <1>21, <1>22

\* For a parameter of every legal kind: what is read where a value was written is what
\* Delivered says of it, the value itself or null, and the reader is then where the writer
\* was: the next value is read from where it was written.
THEOREM RoundTrip ==
  ASSUME NEW p, Appendable(p), NEW v \in Tokens, NEW a, Legal(a), a.kind # "Illegal",
         NEW q, q = WriteValue(p, a, v), NEW r, Follows(r, q), r.mDataPos = p.mDataPos
  PROVE  ReadValue(r, a) = Got(At(r, q.mDataPos), Delivered(a, v))
<1>1. a.len \in Nat /\ Width(a.kind) \in {4, 8}
  BY DEF Legal, Params, Width
<1>2. CASE a.kind = "String"
  <2>1. q = WriteString(p, v, a.len) /\ ReadValue(r, a) = Single(ReadString(r))
    BY <1>2 DEF WriteValue, ReadValue
  <2>2. ReadString(r) = Got(At(r, q.mDataPos), IF a.len = 0 THEN Null ELSE v)
    BY <1>1, <2>1, ReadStringReads
  <2>3. Delivered(a, v) = <<IF a.len = 0 THEN Null ELSE v>>
    BY <1>2 DEF Delivered, Carried
  <2>4. QED  BY <2>1, <2>2, <2>3 DEF Single, Got
<1>3. CASE a.kind = "Array"
  <2>1. q = WriteArray(p, v, a) /\ ReadValue(r, a) = ReadArray(r)
    BY <1>3 DEF WriteValue, ReadValue
  <2>2. QED  BY <1>3, <2>1, ReadArrayReads
<1>4. CASE a.kind = "Interface"
  <2>1. q = p /\ ReadValue(r, a) = Got(r, <<Null>>) /\ Delivered(a, v) = <<Null>>
    BY <1>4 DEF WriteValue, ReadValue, Delivered
  <2>2. At(r, p.mDataPos) = r
    BY DEF At, Follows, Parcels
  <2>3. QED  BY <2>1, <2>2
<1>5. CASE a.kind \notin {"String", "Array", "Interface"}
  <2>1. q = WriteAligned(p, v, Width(a.kind)) /\ ReadValue(r, a) = Single(ReadAligned(r, Width(a.kind)))
    BY <1>5 DEF WriteValue, ReadValue
  <2>2. ReadAligned(r, Width(a.kind)) = Got(At(r, q.mDataPos), v)
    BY <1>1, <2>1, ReadAlignedReads
  <2>3. Delivered(a, v) = <<v>>
    BY <1>5 DEF Delivered, Carried
  <2>4. QED  BY <2>1, <2>2, <2>3 DEF Single, Got
<1>6. QED  BY <1>2, <1>3, <1>4, <1>5

-----------------------------------------------------------------------------
(***************************************************************************)
(* The call.                                                               *)
(***************************************************************************)
\* A method has finitely many parameters, each of a known kind.
LEMMA SigType ==
  ASSUME sig \in Signatures
  PROVE  /\ Len(sig) \in Nat
         /\ \A i \in 1..Len(sig) : sig[i] \in Params /\ Legal(sig[i])
<1>1. sig \in Seq(Params)
  BY SignaturesAssumption
<1>2. \A i \in 1..Len(sig) : sig[i] \in Params
  BY <1>1
<1>3. QED  BY <1>1, <1>2, SignaturesAssumption DEF Legal

\* Tokens are what the registers, the stack and the parcels carry.
LEMMA TokenType ==
  ASSUME NEW n \in Nat
  PROVE  /\ Token("argument", n) \in Tokens /\ Token("result", n) \in Tokens
         /\ Token("magic", n) \in Tokens /\ Token("interface", n) \in Tokens /\ Token("method", n) \in Tokens
         /\ Garbage \in Tokens
  BY DEF Token, Tokens, Tags, Garbage

\* Every register and stack word the caller set up holds a token.
LEMMA PlacedType ==
  ASSUME sig \in Signatures, NEW slot
  PROVE  Placed(slot) \in Tokens
<1> DEFINE at == {i \in 1..Len(sig) : AbiSlot(i) = slot}
<1>1. CASE at = {}
  BY <1>1, TokenType DEF Placed
<1>2. CASE at # {}
  <2>1. (CHOOSE i \in at : TRUE) \in at
    BY <1>2
  <2>2. (CHOOSE i \in at : TRUE) \in Nat
    BY <2>1, SigType
  <2>3. QED  BY <1>2, <2>2, TokenType DEF Placed
<1>3. QED  BY <1>1, <1>2

\* A new parcel can be appended to.
LEMMA EmptyParcel == Appendable(CDBusParcel)
  <1>1. <<>> \in Seq(Tokens \X Nat) /\ Len(<<>>) = 0
    OBVIOUS
  <1>2. QED  BY <1>1 DEF Appendable, CDBusParcel, Parcels

\* So can one with the header of a request.
LEMMA HeaderType == Appendable(Header)
<1> DEFINE a == WriteAligned(CDBusParcel, Token("magic", 0), 4)
           b == WriteAligned(a, Token("interface", 0), 4)
<1>1. Token("magic", 0) \in Tokens /\ Token("interface", 0) \in Tokens /\ Token("method", 0) \in Tokens
  BY TokenType
<1>2. Appendable(a)
  BY <1>1, EmptyParcel, WriteAlignedAppends DEF Appended
<1> HIDE DEF a
<1>3. Appendable(b)
  BY <1>1, <1>2, WriteAlignedAppends DEF Appended
<1> HIDE DEF b
<1>4. Appendable(WriteAligned(b, Token("method", 0), 4))
  BY <1>1, <1>3, WriteAlignedAppends DEF Appended
<1>5. QED  BY <1>4 DEF Header, a, b

-----------------------------------------------------------------------------
(***************************************************************************)
(* One lemma per action: the types, the stub's allocations (HeapOK) and    *)
(* what is recorded of the method's run (SeenOK) are preserved.            *)
(***************************************************************************)
LEMMA MarshalRefusesBase ==
  ASSUME TypeOK, HeapOK, SeenOK, MarshalRefuses
  PROVE  (TypeOK /\ HeapOK /\ SeenOK)'
<1>1. TypeOK'
  BY SigType DEF TypeOK, MarshalRefuses, ProxyAt, StubAt
<1>2. HeapOK'
  BY SigType DEF TypeOK, HeapOK, Allocated, Leaks, MarshalRefuses, ProxyAt, StubAt
<1>3. SeenOK'
  BY SigType DEF TypeOK, SeenOK, MarshalRefuses, ProxyAt, StubAt
<1>4. QED  BY <1>1, <1>2, <1>3

LEMMA StackReadCrashesBase ==
  ASSUME TypeOK, HeapOK, SeenOK, StackReadCrashes
  PROVE  (TypeOK /\ HeapOK /\ SeenOK)'
<1>1. /\ proxy' = [proxy EXCEPT !.pc = "crashed"]
      /\ UNCHANGED <<sig, request, reply, stub, heap, seen, outs>>
  BY DEF StackReadCrashes
<1>2. TypeOK'
  BY <1>1 DEF TypeOK
<1>3. HeapOK'
  BY <1>1 DEF HeapOK, Allocated, Leaks
<1>4. SeenOK'
  BY <1>1 DEF TypeOK, SeenOK
<1>5. QED  BY <1>2, <1>3, <1>4

LEMMA EntryCrashesBase ==
  ASSUME TypeOK, HeapOK, SeenOK, EntryCrashes
  PROVE  (TypeOK /\ HeapOK /\ SeenOK)'
<1>1. /\ proxy' = [proxy EXCEPT !.pc = "crashed"]
      /\ UNCHANGED <<sig, request, reply, stub, heap, seen, outs>>
  BY DEF EntryCrashes
<1>2. TypeOK'
  BY <1>1 DEF TypeOK
<1>3. HeapOK'
  BY <1>1 DEF HeapOK, Allocated, Leaks
<1>4. SeenOK'
  BY <1>1 DEF TypeOK, SeenOK
<1>5. QED  BY <1>2, <1>3, <1>4

LEMMA ConnectFailsBase ==
  ASSUME TypeOK, HeapOK, SeenOK, ConnectFails
  PROVE  (TypeOK /\ HeapOK /\ SeenOK)'
<1>1. TypeOK'
  BY SigType DEF TypeOK, ConnectFails, ProxyAt, StubAt
<1>2. HeapOK'
  BY SigType DEF TypeOK, HeapOK, Allocated, Leaks, ConnectFails, ProxyAt, StubAt
<1>3. SeenOK'
  BY SigType DEF TypeOK, SeenOK, ConnectFails, ProxyAt, StubAt
<1>4. QED  BY <1>1, <1>2, <1>3

LEMMA SendBase ==
  ASSUME TypeOK, HeapOK, SeenOK, Send
  PROVE  (TypeOK /\ HeapOK /\ SeenOK)'
<1>1. TypeOK'
  BY SigType DEF TypeOK, Send, ProxyAt, StubAt
<1>2. HeapOK'
  BY SigType DEF TypeOK, HeapOK, Allocated, Leaks, Send, ProxyAt, StubAt
<1>3. SeenOK'
  BY SigType DEF TypeOK, SeenOK, Send, ProxyAt, StubAt
<1>4. QED  BY <1>1, <1>2, <1>3

LEMMA TimeOutBase ==
  ASSUME TypeOK, HeapOK, SeenOK, TimeOut
  PROVE  (TypeOK /\ HeapOK /\ SeenOK)'
<1>1. TypeOK'
  BY SigType DEF TypeOK, TimeOut, ProxyAt, StubAt
<1>2. HeapOK'
  BY SigType DEF TypeOK, HeapOK, Allocated, Leaks, TimeOut, ProxyAt, StubAt
<1>3. SeenOK'
  BY SigType DEF TypeOK, SeenOK, TimeOut, ProxyAt, StubAt
<1>4. QED  BY <1>1, <1>2, <1>3

LEMMA TakeReplyBase ==
  ASSUME TypeOK, HeapOK, SeenOK, TakeReply
  PROVE  (TypeOK /\ HeapOK /\ SeenOK)'
<1>1. TypeOK'
  <2>1. PICK e, res : \/ proxy' = [proxy EXCEPT !.pc = "return", !.ec = e]
                      \/ proxy' = [proxy EXCEPT !.pc = "results", !.i = 1, !.intNum = 1, !.fpNum = 0,
                                             !.results = res]
    <3>1. CASE Head(reply).ec # "NOERROR"
      BY <3>1 DEF TakeReply
    <3>2. CASE Head(reply).ec = "NOERROR"
      BY <3>2 DEF TakeReply
    <3>3. QED  BY <3>1, <3>2
  <2>2. UNCHANGED <<sig, stub>>
    BY DEF TakeReply
  <2>3. /\ proxy' = [pc |-> proxy'.pc, i |-> proxy'.i, intNum |-> proxy'.intNum, fpNum |-> proxy'.fpNum,
                   parcel |-> proxy'.parcel, results |-> proxy'.results, ec |-> proxy'.ec]
        /\ proxy'.pc \in {"return", "results"} /\ proxy'.i \in {1, proxy.i} /\ proxy'.parcel = proxy.parcel
    BY <2>1, <2>2, SigType DEF TypeOK
  <2>4. QED  BY <2>2, <2>3, SigType DEF TypeOK
<1>2. HeapOK'
  BY SigType DEF TypeOK, HeapOK, Allocated, Leaks, TakeReply, ProxyAt, StubAt
<1>3. SeenOK'
  BY SigType DEF TypeOK, SeenOK, TakeReply, ProxyAt, StubAt
<1>4. QED  BY <1>1, <1>2, <1>3

LEMMA UnmarshalResultsBase ==
  ASSUME TypeOK, HeapOK, SeenOK, UnmarshalResults
  PROVE  (TypeOK /\ HeapOK /\ SeenOK)'
<1>1. TypeOK'
  <2>1. PICK res : \/ proxy' = [proxy EXCEPT !.i = @ + 1, !.fpNum = @ + 1]
                   \/ proxy' = [proxy EXCEPT !.i = @ + 1, !.intNum = @ + 1]
                   \/ proxy' = [proxy EXCEPT !.pc = "crashed"]
                   \/ proxy' = [proxy EXCEPT !.i = @ + 1, !.intNum = @ + 1, !.results = res]
    <3>1. CASE sig[proxy.i].io = "IN"
      BY <3>1 DEF UnmarshalResults
    <3>2. CASE sig[proxy.i].io # "IN" /\ proxy.results = <<>>
      BY <3>2 DEF UnmarshalResults
    <3>3. CASE sig[proxy.i].io # "IN" /\ proxy.results # <<>>
      BY <3>3 DEF UnmarshalResults
    <3>4. QED  BY <3>1, <3>2, <3>3
  <2>2. proxy.pc = "results" /\ proxy.i <= Len(sig) /\ UNCHANGED <<sig, stub>>
    BY DEF UnmarshalResults, ProxyAt
  <2>3. /\ proxy' = [pc |-> proxy'.pc, i |-> proxy'.i, intNum |-> proxy'.intNum, fpNum |-> proxy'.fpNum,
                   parcel |-> proxy'.parcel, results |-> proxy'.results, ec |-> proxy'.ec]
        /\ proxy'.pc \in {"results", "crashed"} /\ proxy'.i \in {proxy.i + 1, proxy.i} /\ proxy'.parcel = proxy.parcel
    BY <2>1, <2>2, SigType DEF TypeOK
  <2>4. QED  BY <2>2, <2>3, SigType DEF TypeOK
<1>2. HeapOK'
  BY SigType DEF TypeOK, HeapOK, Allocated, Leaks, UnmarshalResults, ProxyAt, StubAt
<1>3. SeenOK'
  BY SigType DEF TypeOK, SeenOK, UnmarshalResults, ProxyAt, StubAt
<1>4. QED  BY <1>1, <1>2, <1>3

LEMMA ProxyExitBase ==
  ASSUME TypeOK, HeapOK, SeenOK, ProxyExit
  PROVE  (TypeOK /\ HeapOK /\ SeenOK)'
<1>1. TypeOK'
  BY SigType DEF TypeOK, ProxyExit, ProxyAt, StubAt
<1>2. HeapOK'
  BY SigType DEF TypeOK, HeapOK, Allocated, Leaks, ProxyExit, ProxyAt, StubAt
<1>3. SeenOK'
  BY SigType DEF TypeOK, SeenOK, ProxyExit, ProxyAt, StubAt
<1>4. QED  BY <1>1, <1>2, <1>3

LEMMA HandleMessageBase ==
  ASSUME TypeOK, HeapOK, SeenOK, HandleMessage
  PROVE  (TypeOK /\ HeapOK /\ SeenOK)'
<1>1. TypeOK'
  <2>1. PICK r : \/ stub' = [stub EXCEPT !.pc = "unmarshal", !.i = 1, !.parcel = r]
                 \/ stub' = [stub EXCEPT !.pc = "reply", !.ec = "E_RUNTIME_EXCEPTION"]
    BY DEF HandleMessage
  <2>2. UNCHANGED <<sig, proxy>>
    BY DEF HandleMessage
  <2>3. /\ stub' = [pc |-> stub'.pc, i |-> stub'.i, parcel |-> stub'.parcel, args |-> stub'.args,
                  results |-> stub'.results, ec |-> stub'.ec]
        /\ \/ stub'.pc = "unmarshal" /\ stub'.i = 1
           \/ stub'.pc = "reply" /\ stub'.i = stub.i
        /\ stub'.results = stub.results
    BY <2>1, <2>2, SigType DEF TypeOK
  <2>4. QED  BY <2>2, <2>3, SigType DEF TypeOK
<1>2. HeapOK'
  BY SigType DEF TypeOK, HeapOK, Allocated, Leaks, HandleMessage, ProxyAt, StubAt
<1>3. SeenOK'
  BY SigType DEF TypeOK, SeenOK, HandleMessage, ProxyAt, StubAt
<1>4. QED  BY <1>1, <1>2, <1>3

LEMMA UnmarshalRefusesBase ==
  ASSUME TypeOK, HeapOK, SeenOK, UnmarshalRefuses
  PROVE  (TypeOK /\ HeapOK /\ SeenOK)'
<1>1. TypeOK'
  BY SigType DEF TypeOK, UnmarshalRefuses, ProxyAt, StubAt
<1>2. HeapOK'
  BY SigType DEF TypeOK, HeapOK, Allocated, Leaks, UnmarshalRefuses, ProxyAt, StubAt
<1>3. SeenOK'
  BY SigType DEF TypeOK, SeenOK, UnmarshalRefuses, ProxyAt, StubAt
<1>4. QED  BY <1>1, <1>2, <1>3

LEMMA UnmarshalArgumentsBase ==
  ASSUME TypeOK, HeapOK, SeenOK, UnmarshalArguments
  PROVE  (TypeOK /\ HeapOK /\ SeenOK)'
<1>1. TypeOK'
  <2>1. PICK r, a : stub' = [stub EXCEPT !.i = @ + 1, !.parcel = r, !.args = a]
    BY DEF UnmarshalArguments
  <2>2. stub.pc = "unmarshal" /\ stub.i <= Len(sig) /\ UNCHANGED <<sig, proxy>>
    BY DEF UnmarshalArguments, StubAt
  <2>3. /\ stub' = [pc |-> stub'.pc, i |-> stub'.i, parcel |-> stub'.parcel, args |-> stub'.args,
                  results |-> stub'.results, ec |-> stub'.ec]
        /\ stub'.pc = "unmarshal" /\ stub'.i = stub.i + 1 /\ stub'.results = stub.results
    BY <2>1, <2>2, SigType DEF TypeOK
  <2>4. QED  BY <2>2, <2>3, SigType DEF TypeOK
<1>2. HeapOK'
  <2>1. /\ stub.pc = "unmarshal" /\ stub.i \in 1..Len(sig) /\ ~StubRefuses(sig[stub.i]) /\ UNCHANGED sig
    BY SigType DEF UnmarshalArguments, StubAt, TypeOK
  <2>2. PICK r, a : stub' = [stub EXCEPT !.i = @ + 1, !.parcel = r, !.args = a]
    BY DEF UnmarshalArguments
  <2>3. stub'.pc = "unmarshal" /\ stub'.i = stub.i + 1
    BY <2>1, <2>2 DEF TypeOK
  <2> DEFINE p == sig[stub.i]
             own == {<<p.kind, stub.i, 0>>}
  <2>4. p.io \in {"IN", "OUT_CALLEE"} \/ (p.io \in {"OUT", "IN_OUT"} /\ p.kind = "Char")
    BY <2>1, SigType DEF StubRefuses, Params, TypeOK
  <2>5. PICK v : /\ p.io \notin {"IN", "IN_OUT"} => v = <<>>
                 /\ \E O \in {{}, own} : heap' = heap \union O \union Contents(p, v, stub.i)
    <3>1. CASE p.io \in {"IN", "IN_OUT"}
      BY <3>1 DEF UnmarshalArguments
    <3>2. CASE p.io \notin {"IN", "IN_OUT"}
      BY <3>2 DEF UnmarshalArguments, Got
    <3>3. QED  BY <3>1, <3>2
  <2>6. PICK O \in {{}, own} : heap' = heap \union O \union Contents(p, v, stub.i)
    BY <2>5
  <2>7. \A h \in O : h = <<p.kind, stub.i, 0>>
    OBVIOUS
  <2>8. \A h \in Contents(p, v, stub.i) : /\ p.kind = "Array" /\ v # <<>>
                                          /\ h = <<"contents", stub.i, 0>> \/ \E k : h = <<"string", stub.i, k>>
    BY DEF Contents
  <2>9. \A h \in Contents(p, v, stub.i) : p.io = "IN"
    BY <2>4, <2>5, <2>8
  <2>10. \A h \in Contents(p, v, stub.i) : h \in Allocated(stub.i) \/ Leaks(h)
    BY <2>1, <2>8, <2>9 DEF Allocated, Leaks
  <2>11. \A h \in O : h \in Allocated(stub.i)
    BY <2>7 DEF Allocated
  <2>12. \A h \in heap' : h \in heap \/ h \in O \/ h \in Contents(p, v, stub.i)
    BY <2>6, Zenon
  <2>13. \A h \in heap : Leaks(h) \/ \E i \in 1..(stub.i - 1) : h \in Allocated(i)
    BY <2>1 DEF HeapOK
  <2>14. (\A i : Allocated(i)' = Allocated(i)) /\ (\A h : Leaks(h)' <=> Leaks(h))
    BY <2>1 DEF Allocated, Leaks
  <2> HIDE DEF p, own
  <2>15. \A h \in heap' : Leaks(h) \/ \E i \in 1..stub.i : h \in Allocated(i)
    <3>1. stub.i \in 1..stub.i /\ \A i \in 1..(stub.i - 1) : i \in 1..stub.i
      BY <2>1, SigType DEF TypeOK
    <3>2. QED  BY <2>10, <2>11, <2>12, <2>13, <3>1
  <2>16. stub'.i - 1 = stub.i
    BY <2>1, <2>3
  <2>17. QED  BY <2>3, <2>14, <2>15, <2>16 DEF HeapOK
<1>3. SeenOK'
  BY SigType DEF TypeOK, SeenOK, UnmarshalArguments, ProxyAt, StubAt
<1>4. QED  BY <1>1, <1>2, <1>3

LEMMA RegisterLostBase ==
  ASSUME TypeOK, HeapOK, SeenOK, RegisterLost
  PROVE  (TypeOK /\ HeapOK /\ SeenOK)'
<1>1. TypeOK'
  BY SigType DEF TypeOK, RegisterLost, ProxyAt, StubAt
<1>2. HeapOK'
  BY SigType DEF TypeOK, HeapOK, Allocated, Leaks, RegisterLost, ProxyAt, StubAt
<1>3. SeenOK'
  BY SigType DEF TypeOK, SeenOK, RegisterLost, ProxyAt, StubAt
<1>4. QED  BY <1>1, <1>2, <1>3

LEMMA SendReplyBase ==
  ASSUME TypeOK, HeapOK, SeenOK, SendReply
  PROVE  (TypeOK /\ HeapOK /\ SeenOK)'
<1>1. TypeOK'
  BY SigType DEF TypeOK, SendReply, ProxyAt, StubAt
<1>2. HeapOK'
  BY SigType DEF TypeOK, HeapOK, Allocated, Leaks, SendReply, ProxyAt, StubAt
<1>3. SeenOK'
  BY SigType DEF TypeOK, SeenOK, SendReply, ProxyAt, StubAt
<1>4. QED  BY <1>1, <1>2, <1>3

LEMMA ReplyWithoutParcelBase ==
  ASSUME TypeOK, HeapOK, SeenOK, ReplyWithoutParcel
  PROVE  (TypeOK /\ HeapOK /\ SeenOK)'
<1>1. TypeOK'
  BY SigType DEF TypeOK, ReplyWithoutParcel, ProxyAt, StubAt
<1>2. HeapOK'
  BY SigType DEF TypeOK, HeapOK, Allocated, Leaks, ReplyWithoutParcel, ProxyAt, StubAt
<1>3. SeenOK'
  BY SigType DEF TypeOK, SeenOK, ReplyWithoutParcel, ProxyAt, StubAt
<1>4. QED  BY <1>1, <1>2, <1>3

\* MarshalArguments writes to a parcel that can be appended to.
LEMMA MarshalArgumentsBase ==
  ASSUME TypeOK, HeapOK, SeenOK, MarshalArguments
  PROVE  (TypeOK /\ HeapOK /\ SeenOK)'
<1>1. /\ proxy.pc = "marshal" /\ proxy.i \in 1..Len(sig) /\ proxy.i + 1 \in 1..(Len(sig) + 1)
      /\ sig \in Signatures /\ UNCHANGED <<sig, request, reply, stub, heap, seen, outs>>
  BY SigType DEF MarshalArguments, ProxyAt, TypeOK
<1> DEFINE p == sig[proxy.i]
<1>2. Legal(p)
  BY <1>1, SigType
<1>3. PICK v, a, b, q : /\ v \in Tokens /\ q \in {proxy.parcel, WriteValue(proxy.parcel, p, v)}
                       /\ proxy' = [proxy EXCEPT !.i = @ + 1, !.parcel = q, !.intNum = a, !.fpNum = b]
  <2>1. CASE p.io = "IN"
    <3> DEFINE v == CASE p.kind = "Float" -> Garbage
                      [] p.kind = "Double" -> GetDoubleValue(proxy.intNum, proxy.fpNum)
                      [] OTHER -> GetLongValue(proxy.intNum, proxy.fpNum)
    <3>1. v \in Tokens
      BY <1>1, PlacedType, TokenType DEF GetDoubleValue, GetLongValue
    <3>2. PICK a, b : proxy' = [proxy EXCEPT !.i = @ + 1, !.parcel = WriteValue(@, p, v), !.intNum = a, !.fpNum = b]
      BY <2>1 DEF MarshalArguments, MarshalIn
    <3> HIDE DEF v, p
    <3>3. QED  BY <3>1, <3>2
  <2>2. CASE p.io # "IN"
    <3> DEFINE v == GetLongValue(proxy.intNum, proxy.fpNum)
    <3>1. v \in Tokens
      BY <1>1, PlacedType DEF GetLongValue
    <3> HIDE DEF v
    <3>2. PICK a, q : /\ q \in {proxy.parcel, WriteValue(proxy.parcel, p, v)}
                      /\ proxy' = [proxy EXCEPT !.i = @ + 1, !.intNum = a, !.parcel = q]
      BY <2>2 DEF MarshalArguments, MarshalOut, v
    <3> HIDE DEF p
    <3>3. proxy' = [proxy EXCEPT !.i = @ + 1, !.parcel = q, !.intNum = a, !.fpNum = proxy.fpNum]
      BY <3>2 DEF TypeOK
    <3> WITNESS v, a, proxy.fpNum, q
    <3>4. QED  BY <3>1, <3>2, <3>3
  <2>3. QED  BY <2>1, <2>2
<1>4. Appendable(q)
  <2>1. Appendable(proxy.parcel)
    BY DEF TypeOK
  <2>2. Appendable(WriteValue(proxy.parcel, p, v))
    BY <1>2, <1>3, <2>1, WriteValueAppends DEF Appended
  <2>3. QED  BY <1>3, <2>1, <2>2
<1> HIDE DEF p
<1>5. /\ proxy' = [pc |-> proxy'.pc, i |-> proxy'.i, intNum |-> proxy'.intNum, fpNum |-> proxy'.fpNum,
                   parcel |-> proxy'.parcel, results |-> proxy'.results, ec |-> proxy'.ec]
      /\ proxy'.pc = "marshal" /\ proxy'.i = proxy.i + 1 /\ proxy'.parcel = q
  BY <1>1, <1>3 DEF TypeOK
<1>6. TypeOK'
  BY <1>1, <1>4, <1>5 DEF TypeOK
<1>7. HeapOK' /\ SeenOK'
  BY <1>1, <1>5 DEF HeapOK, SeenOK, Allocated, Leaks
<1>8. QED  BY <1>6, <1>7

\* The method's code and its results start from an empty parcel; the heap holds what was
\* allocated for all parameters.
LEMMA MetaInvokeBase ==
  ASSUME TypeOK, HeapOK, SeenOK, NEW e, MetaInvoke(e)
  PROVE  (TypeOK /\ HeapOK /\ SeenOK)'
<1>1. /\ stub.pc = "unmarshal" /\ stub.i = Len(sig) + 1 /\ UNCHANGED <<sig, proxy, request, reply, outs>>
      /\ stub' = [stub EXCEPT !.pc = "results", !.i = 1, !.ec = e, !.results = <<CDBusParcel>>]
      /\ Len(sig) \in Nat
  BY SigType DEF MetaInvoke, StubAt, TypeOK
<1>2. /\ stub' = [pc |-> stub'.pc, i |-> stub'.i, parcel |-> stub'.parcel, args |-> stub'.args,
                  results |-> stub'.results, ec |-> stub'.ec]
      /\ stub'.pc = "results" /\ stub'.i = 1 /\ stub'.results = <<CDBusParcel>>
  BY <1>1 DEF TypeOK
<1>3. TypeOK'
  <2>1. CDBusParcel \in Parcels /\ Appendable(CDBusParcel)
    BY EmptyParcel DEF Appendable
  <2>2. /\ <<CDBusParcel>> \in Seq(Parcels) /\ Len(<<CDBusParcel>>) = 1
        /\ \A k \in 1..Len(<<CDBusParcel>>) : Appendable(<<CDBusParcel>>[k])
    BY <2>1
  <2>3. QED  BY <1>1, <1>2, <2>2 DEF TypeOK
<1>4. HeapOK'
  <2>1. \A h \in heap' : h \in heap \/ \E i \in 1..Len(sig) : h = <<"contents", i, 0>> /\ sig[i].io = "OUT_CALLEE"
    BY DEF MetaInvoke
  <2>2. \A h \in heap' : h \in heap \/ Leaks(h)
    BY <2>1 DEF Leaks
  <2>3. \A h \in heap : Leaks(h) \/ \E i \in 1..(stub.i - 1) : h \in Allocated(i)
    BY <1>1 DEF HeapOK
  <2>4. (\A i : Allocated(i)' = Allocated(i)) /\ (\A h : Leaks(h)' <=> Leaks(h))
    BY <1>1 DEF Allocated, Leaks
  <2>5. 1..(stub.i - 1) = stub'.i..Len(sig)
    BY <1>1, <1>2
  <2>6. QED  BY <1>1, <1>2, <2>2, <2>3, <2>4, <2>5 DEF HeapOK
<1>5. SeenOK'
  <2> SUFFICES ASSUME sig # <<>> PROVE seen' # <<>>
    BY <1>1 DEF SeenOK
  <2>1. 1 \in 1..Len(sig)
    <3>1. sig \in Seq(Params)
      BY SignaturesAssumption DEF TypeOK
    <3>2. QED  BY <3>1
  <2>2. DOMAIN seen' = 1..Len(sig)
    BY DEF MetaInvoke
  <2>3. DOMAIN <<>> = {}
    OBVIOUS
  <2>4. QED  BY <2>1, <2>2, <2>3
<1>6. QED  BY <1>3, <1>4, <1>5

\* MarshalResults frees what was allocated for the parameter it is at.
LEMMA MarshalResultsBase ==
  ASSUME TypeOK, HeapOK, SeenOK, MarshalResults
  PROVE  (TypeOK /\ HeapOK /\ SeenOK)'
<1>1. /\ stub.pc = "results" /\ stub.i \in 1..Len(sig) /\ stub.i + 1 \in 0..(Len(sig) + 1) /\ stub.i + 1 > 0
      /\ sig \in Signatures /\ UNCHANGED <<sig, proxy, request, reply, seen, outs>>
      /\ Len(stub.results) = 1 /\ stub.results \in Seq(Parcels)
  BY SigType DEF MarshalResults, StubAt, TypeOK
<1> DEFINE p == sig[stub.i]
           w == WriteValue(Head(stub.results), Result(p), Token("result", stub.i))
<1>2. Appendable(w)
  <2>1. Appendable(Head(stub.results))
    BY <1>1 DEF TypeOK
  <2>2. Legal(p) /\ Token("result", stub.i) \in Tokens
    BY <1>1, SigType, TokenType
  <2>4. Legal(Result(p))
    BY <2>2 DEF Legal, Result, Params, Elems
  <2>5. QED  BY <2>1, <2>2, <2>4, WriteValueAppends DEF Appended
<1>3. /\ heap' = heap \ Freed(p, stub.i)
      /\ stub' = [stub EXCEPT !.i = @ + 1, !.results = IF p.io = "IN" THEN @ ELSE <<w>>]
  BY DEF MarshalResults
<1> HIDE DEF w
<1>4. /\ stub' = [pc |-> stub'.pc, i |-> stub'.i, parcel |-> stub'.parcel, args |-> stub'.args,
                  results |-> stub'.results, ec |-> stub'.ec]
      /\ stub'.pc = "results" /\ stub'.i = stub.i + 1 /\ stub'.results \in {stub.results, <<w>>}
  BY <1>1, <1>3 DEF TypeOK
<1>5. TypeOK'
  <2>1. /\ <<w>> \in Seq(Parcels) /\ Len(<<w>>) = 1 /\ \A k \in 1..Len(<<w>>) : Appendable(<<w>>[k])
    BY <1>2 DEF Appendable
  <2>2. QED  BY <1>1, <1>4, <2>1 DEF TypeOK
<1>6. HeapOK'
  <2>1. \A h \in heap : Leaks(h) \/ \E i \in stub.i..Len(sig) : h \in Allocated(i)
    BY <1>1 DEF HeapOK
  <2>2. Freed(p, stub.i) = Allocated(stub.i)
    BY DEF Freed, Allocated
  <2>3. (\A i : Allocated(i)' = Allocated(i)) /\ (\A h : Leaks(h)' <=> Leaks(h))
    BY <1>1 DEF Allocated, Leaks
  <2>4. \A h \in heap' : Leaks(h) \/ \E i \in (stub.i + 1)..Len(sig) : h \in Allocated(i)
    <3>1. SUFFICES ASSUME NEW h \in heap', ~Leaks(h)
                   PROVE  \E i \in (stub.i + 1)..Len(sig) : h \in Allocated(i)
      OBVIOUS
    <3>2. h \in heap /\ h \notin Allocated(stub.i)
      BY <1>3, <2>2
    <3>3. PICK i \in stub.i..Len(sig) : h \in Allocated(i)
      BY <2>1, <3>1, <3>2
    <3>4. i \in (stub.i + 1)..Len(sig)
      BY <1>1, <3>2, <3>3, SigType
    <3>5. QED  BY <3>3, <3>4
  <2>5. QED  BY <1>1, <1>4, <2>3, <2>4 DEF HeapOK
<1>7. SeenOK'
  BY <1>1, <1>4 DEF SeenOK
<1>8. QED  BY <1>5, <1>6, <1>7

-----------------------------------------------------------------------------
(***************************************************************************)
(* The layout of the request.                                              *)
(***************************************************************************)
\* Layout is what its recursive definition says: there is a function that satisfies the
\* equation, put together from those that satisfy it up to n.
LEMMA LayoutIs ==
  ASSUME NEW s
  PROVE  /\ Layout(s)[0] = Header
         /\ \A n \in Nat \ {0} : Layout(s)[n] = WriteValue(Layout(s)[n - 1], s[n], Token("argument", n))
<1> DEFINE Step(x, n) == WriteValue(x, s[n], Token("argument", n))
           Upto(g, n) == g[0] = Header /\ \A k \in 1..n : g[k] = Step(g[k - 1], k)
           Eq(f) == f = [n \in Nat |-> IF n = 0 THEN Header ELSE Step(f[n - 1], n)]
<1>1. Layout(s) = CHOOSE f : Eq(f)
  BY DEF Layout
<1> HIDE DEF Step
<1>2. \A n \in Nat : \E g : Upto(g, n)
  <2> DEFINE S == {n \in Nat : ~ \E g : Upto(g, n)}
  <2>1. SUFFICES ASSUME S # {} PROVE FALSE
    OBVIOUS
  <2>2. PICK n \in S : \A m \in S : n <= m
    BY <2>1, LeastNat
  <2>3. n # 0
    <3>1. Upto([k \in {0} |-> Header], 0)
      OBVIOUS
    <3>2. QED  BY <2>2, <3>1
  <2>4. n - 1 \in Nat /\ n - 1 \notin S
    BY <2>2, <2>3
  <2>5. PICK g : Upto(g, n - 1)
    BY <2>4
  <2> DEFINE h == [k \in 0..n |-> IF k = n THEN Step(g[n - 1], n) ELSE g[k]]
  <2>6. /\ h[0] = g[0] /\ h[n] = Step(g[n - 1], n) /\ h[n - 1] = g[n - 1]
        /\ \A k \in 1..(n - 1) : h[k] = g[k] /\ h[k - 1] = g[k - 1]
    BY <2>3, <2>4
  <2> HIDE DEF h
  <2>7. \A k \in 1..n : k = n \/ k \in 1..(n - 1)
    BY <2>4
  <2>8. Upto(h, n)
    BY <2>5, <2>6, <2>7
  <2>9. QED  BY <2>2, <2>8
<1>3. ASSUME NEW g, NEW h, NEW n \in Nat, Upto(g, n), Upto(h, n)
      PROVE  g[n] = h[n]
  <2> DEFINE S == {m \in 0..n : g[m] # h[m]}
  <2>1. SUFFICES ASSUME S # {} PROVE FALSE
    BY <1>3
  <2>2. S \in SUBSET Nat
    OBVIOUS
  <2>3. PICK m \in S : \A k \in S : m <= k
    BY <2>1, <2>2, LeastNat
  <2>4. m \in 1..n /\ m - 1 \in 0..n /\ m - 1 \notin S
    BY <1>3, <2>3
  <2>5. g[m] = Step(g[m - 1], m) /\ h[m] = Step(h[m - 1], m) /\ g[m - 1] = h[m - 1]
    BY <1>3, <2>4
  <2>6. QED  BY <2>3, <2>5
<1> DEFINE c(n) == CHOOSE g : Upto(g, n)
           f == [n \in Nat |-> c(n)[n]]
<1>4. \A n \in Nat : Upto(c(n), n)
  BY <1>2
<1> HIDE DEF c
<1>5. f[0] = Header
  BY <1>4
<1>6. ASSUME NEW n \in Nat \ {0} PROVE f[n] = Step(f[n - 1], n)
  <2>1. n - 1 \in Nat /\ n \in 1..n /\ n \in Nat
    OBVIOUS
  <2>2. Upto(c(n), n) /\ Upto(c(n - 1), n - 1)
    BY <1>4, <2>1
  <2>3. Upto(c(n), n - 1)
    BY <2>1, <2>2
  <2>4. c(n)[n - 1] = c(n - 1)[n - 1]
    BY <1>3, <2>1, <2>2, <2>3
  <2>5. c(n)[n] = Step(c(n)[n - 1], n)
    BY <2>1, <2>2
  <2>6. f[n] = c(n)[n] /\ f[n - 1] = c(n - 1)[n - 1]
    BY <2>1
  <2>7. QED  BY <2>4, <2>5, <2>6
<1>7. Eq(f)
  <2> DEFINE z == [n \in Nat |-> IF n = 0 THEN Header ELSE Step(f[n - 1], n)]
  <2>1. \A n \in Nat : f[n] = z[n]
    BY <1>5, <1>6
  <2>2. f = [n \in Nat |-> f[n]]
    OBVIOUS
  <2>3. f = z
    BY <2>1, <2>2
  <2>4. QED  BY <2>3
<1> HIDE DEF f
<1>8. Eq(Layout(s))
  <2>1. \E e : Eq(e)
    BY <1>7
  <2> HIDE DEF Eq
  <2>2. QED  BY <1>1, <2>1
<1>9. QED  BY <1>8 DEF Step

\* The parcel for n parameters can be appended to, and begins with that for fewer.
LEMMA LayoutAppends ==
  ASSUME NEW s \in Signatures, NEW n \in 0..Len(s)
  PROVE  Appendable(Layout(s)[n]) /\ \A m \in 0..n : Appended(Layout(s)[n], Layout(s)[m])
<1> DEFINE S == {k \in 0..Len(s) : ~(Appendable(Layout(s)[k]) /\ \A m \in 0..k : Appended(Layout(s)[k], Layout(s)[m]))}
<1>0. s \in Seq(Params) /\ Len(s) \in Nat
  BY SignaturesAssumption
<1>1. SUFFICES ASSUME S # {} PROVE FALSE
  OBVIOUS
<1>2. S \in SUBSET Nat
  BY <1>0
<1>3. PICK k \in S : \A j \in S : k <= j
  BY <1>1, <1>2, LeastNat
<1>4. CASE k = 0
  <2>1. Appendable(Layout(s)[0])
    BY HeaderType, LayoutIs
  <2>2. \A m \in 0..0 : m = 0
    OBVIOUS
  <2>3. QED  BY <1>3, <1>4, <2>1, <2>2, AppendedReflexive
<1>5. CASE k # 0
  <2>1. k \in 1..Len(s) /\ k - 1 \in 0..Len(s) /\ k - 1 \notin S /\ k \in Nat \ {0}
    BY <1>0, <1>3, <1>5
  <2>2. Appendable(Layout(s)[k - 1]) /\ \A m \in 0..(k - 1) : Appended(Layout(s)[k - 1], Layout(s)[m])
    BY <2>1
  <2>3. Layout(s)[k] = WriteValue(Layout(s)[k - 1], s[k], Token("argument", k))
    BY <2>1, LayoutIs
  <2>4. Legal(s[k]) /\ Token("argument", k) \in Tokens
    BY <1>0, <2>1, TokenType, SignaturesAssumption DEF Legal
  <2>5. Appended(Layout(s)[k], Layout(s)[k - 1])
    BY <2>2, <2>3, <2>4, WriteValueAppends
  <2>6. Appendable(Layout(s)[k])
    BY <2>5 DEF Appended
  <2>7. ASSUME NEW m \in 0..k PROVE Appended(Layout(s)[k], Layout(s)[m])
    <3>1. m = k \/ m \in 0..(k - 1)
      BY <2>1
    <3>2. QED  BY <2>2, <2>5, <2>6, <3>1, AppendedReflexive, AppendedTransitive
  <2>8. QED  BY <1>3, <2>6, <2>7
<1>6. QED  BY <1>4, <1>5

\* What HandleMessage puts into the parcel of the stub.
LEMMA SetDataFollows ==
  ASSUME NEW s \in Signatures, NEW n \in 0..Len(s)
  PROVE  Follows(SetData(Layout(s)[Len(s)].mData), Layout(s)[n])
<1> DEFINE d == Layout(s)[Len(s)].mData
<1>1. Len(s) \in Nat /\ Len(s) \in 0..Len(s)
  <2>1. s \in Seq(Params)
    BY SignaturesAssumption
  <2>2. QED  BY <2>1
<1>2. Appendable(Layout(s)[Len(s)]) /\ Appended(Layout(s)[Len(s)], Layout(s)[n])
  BY <1>1, LayoutAppends
<1>3. d \in Seq(Tokens \X Nat) /\ Len(d) \in Nat /\ Layout(s)[Len(s)].mDataPos = Len(d)
  BY <1>2 DEF Appendable, Parcels
<1> HIDE DEF d
<1>4. SetData(d) \in Parcels /\ SetData(d).mData = d /\ SetData(d).mDataSize = Len(d)
  BY <1>3 DEF SetData, CDBusParcel, Parcels
<1>5. Follows(SetData(d), Layout(s)[Len(s)])
  BY <1>3, <1>4 DEF Follows, d
<1>6. Follows(SetData(d), Layout(s)[n])
  BY <1>2, <1>5, FollowsEarlier
<1>7. QED  BY <1>6 DEF d

-----------------------------------------------------------------------------
(***************************************************************************)
(* Registers and stack words.                                              *)
(***************************************************************************)
Others(i) == {k \in 1..(i - 1) : ~IsFloating(sig[k])}
Floats(i) == {k \in 1..(i - 1) : IsFloating(sig[k])}

\* Both counts are of finite sets, hence naturals.
LEMMA CountsFinite ==
  ASSUME NEW i \in Int
  PROVE  /\ IsFiniteSet(Others(i)) /\ IsFiniteSet(Floats(i))
         /\ Ints(i) = 1 + Cardinality(Others(i)) /\ Fps(i) = Cardinality(Floats(i))
         /\ Ints(i) \in Nat /\ Ints(i) >= 1 /\ Fps(i) \in Nat
<1>1. IsFiniteSet(1..(i - 1))
  BY FS_Interval
<1>2. Others(i) \subseteq 1..(i - 1) /\ Floats(i) \subseteq 1..(i - 1)
  BY DEF Others, Floats
<1>3. IsFiniteSet(Others(i)) /\ IsFiniteSet(Floats(i))
  BY <1>1, <1>2, FS_Subset
<1>4. Cardinality(Others(i)) \in Nat /\ Cardinality(Floats(i)) \in Nat
  BY <1>3, FS_CardinalityType
<1>5. Ints(i) = 1 + Cardinality(Others(i)) /\ Fps(i) = Cardinality(Floats(i))
  BY DEF Ints, Fps, Others, Floats
<1>6. QED  BY <1>3, <1>4, <1>5

\* The counts at the first parameter, and from one to the next.
LEMMA CountsStart == Ints(1) = 1 /\ Fps(1) = 0
<1>1. Others(1) = {} /\ Floats(1) = {}
  BY DEF Others, Floats
<1>2. Cardinality({}) = 0
  BY FS_EmptySet
<1>3. Ints(1) = 1 + Cardinality(Others(1)) /\ Fps(1) = Cardinality(Floats(1))
  BY CountsFinite
<1>4. QED  BY <1>1, <1>2, <1>3

\* From one parameter to the next one count grows by one and the other stays.
LEMMA CountsStep ==
  ASSUME NEW i \in Nat \ {0}
  PROVE  /\ Ints(i + 1) = IF IsFloating(sig[i]) THEN Ints(i) ELSE Ints(i) + 1
         /\ Fps(i + 1) = IF IsFloating(sig[i]) THEN Fps(i) + 1 ELSE Fps(i)
<1>1. i + 1 \in Int /\ i \in Int
  OBVIOUS
<1>2. /\ IsFiniteSet(Others(i)) /\ IsFiniteSet(Floats(i))
      /\ Ints(i) = 1 + Cardinality(Others(i)) /\ Fps(i) = Cardinality(Floats(i))
      /\ Ints(i + 1) = 1 + Cardinality(Others(i + 1)) /\ Fps(i + 1) = Cardinality(Floats(i + 1))
      /\ Ints(i) \in Nat /\ Fps(i) \in Nat
  BY <1>1, CountsFinite
<1>3. CASE IsFloating(sig[i])
  <2>1. Others(i + 1) = Others(i)
    BY <1>3 DEF Others
  <2>2. Floats(i + 1) = Floats(i) \cup {i} /\ i \notin Floats(i)
    BY <1>3 DEF Floats
  <2>3. Cardinality(Floats(i + 1)) = Cardinality(Floats(i)) + 1
    BY <1>2, <2>2, FS_AddElement
  <2>4. QED  BY <1>2, <1>3, <2>1, <2>3
<1>4. CASE ~IsFloating(sig[i])
  <2>1. Floats(i + 1) = Floats(i)
    BY <1>4 DEF Floats
  <2>2. Others(i + 1) = Others(i) \cup {i} /\ i \notin Others(i)
    BY <1>4 DEF Others
  <2>3. Cardinality(Others(i + 1)) = Cardinality(Others(i)) + 1
    BY <1>2, <2>2, FS_AddElement
  <2>4. Cardinality(Others(i)) \in Nat
    BY <1>2, FS_CardinalityType
  <2>5. QED  BY <1>2, <1>4, <2>1, <2>3, <2>4
<1>5. QED  BY <1>3, <1>4

\* The counts never fall.
LEMMA CountsGrow ==
  ASSUME NEW i \in Nat \ {0}, NEW j \in Nat \ {0}, i <= j
  PROVE  Ints(i) <= Ints(j) /\ Fps(i) <= Fps(j)
<1>1. Others(i) \subseteq Others(j) /\ Floats(i) \subseteq Floats(j)
  BY DEF Others, Floats
<1>2. /\ IsFiniteSet(Others(j)) /\ IsFiniteSet(Floats(j))
      /\ Ints(i) = 1 + Cardinality(Others(i)) /\ Fps(i) = Cardinality(Floats(i))
      /\ Ints(j) = 1 + Cardinality(Others(j)) /\ Fps(j) = Cardinality(Floats(j))
  BY CountsFinite
<1>3. /\ Cardinality(Others(i)) <= Cardinality(Others(j)) /\ Cardinality(Floats(i)) <= Cardinality(Floats(j))
  BY <1>1, <1>2, FS_Subset
<1>4. /\ Cardinality(Others(i)) \in Nat /\ Cardinality(Others(j)) \in Nat
  BY <1>1, <1>2, FS_Subset, FS_CardinalityType
<1>5. QED  BY <1>2, <1>3, <1>4

\* Where a parameter travels, when the list and the calling convention agree.
StackWord(i) == (IF Ints(i) > 6 THEN Ints(i) - 6 ELSE 0) + (IF Fps(i) > 8 THEN Fps(i) - 8 ELSE 0)
Slot(i) == IF IsFloating(sig[i])
           THEN IF Fps(i) < 8 THEN <<"fp", Fps(i)>> ELSE <<"stk", StackWord(i)>>
           ELSE IF Ints(i) < 6 THEN <<"int", Ints(i)>> ELSE <<"stk", StackWord(i)>>

\* The caller and the argument list agree on it when all parameters are in parameters.
LEMMA SlotsAgree ==
  ASSUME sig \in Signatures, Supported, NEW i \in 1..Len(sig)
  PROVE  ListSlot(i) = Slot(i) /\ AbiSlot(i) = Slot(i)
<1>1. Len(sig) \in Nat
  BY SigType
<1>2. \A k \in 1..Len(sig) : sig[k].io = "IN"
  BY DEF Supported, Carries
<1>3. \A k \in 1..(i - 1) : sig[k].io = "IN"
  BY <1>1, <1>2
<1>4. {k \in 1..(i - 1) : IsFloating(sig[k]) /\ sig[k].io = "IN"} = {k \in 1..(i - 1) : IsFloating(sig[k])}
  BY <1>3
<1>5. {k \in 1..(i - 1) : ~(IsFloating(sig[k]) /\ sig[k].io = "IN")} = {k \in 1..(i - 1) : ~IsFloating(sig[k])}
  BY <1>3
<1>6. ListSlot(i) = Slot(i)
  BY DEF ListSlot, Slot, StackWord, Ints, Fps, Before
<1>7. AbiSlot(i) = Slot(i)
  BY <1>2, <1>4, <1>5 DEF AbiSlot, Slot, StackWord, Ints, Fps, Before
<1>8. QED  BY <1>6, <1>7

\* No two parameters travel in one place.
LEMMA SlotsDiffer ==
  ASSUME NEW i \in Nat \ {0}, NEW j \in Nat \ {0}, i < j
  PROVE  Slot(i) # Slot(j)
<1>1. /\ Ints(i) \in Nat /\ Fps(i) \in Nat /\ Ints(j) \in Nat /\ Fps(j) \in Nat
  BY CountsFinite
<1>2. /\ Ints(i + 1) = IF IsFloating(sig[i]) THEN Ints(i) ELSE Ints(i) + 1
      /\ Fps(i + 1) = IF IsFloating(sig[i]) THEN Fps(i) + 1 ELSE Fps(i)
  BY CountsStep
<1>3. Ints(i + 1) <= Ints(j) /\ Fps(i + 1) <= Fps(j)
  BY CountsGrow
<1> DEFINE a == Ints(i)
           b == Fps(i)
           c == Ints(j)
           d == Fps(j)
<1>4. /\ a \in Nat /\ b \in Nat /\ c \in Nat /\ d \in Nat
      /\ IsFloating(sig[i]) => a <= c /\ b + 1 <= d
      /\ ~IsFloating(sig[i]) => a + 1 <= c /\ b <= d
  BY <1>1, <1>2, <1>3
<1>5. /\ Slot(i) = IF IsFloating(sig[i])
                   THEN IF b < 8 THEN <<"fp", b>> ELSE <<"stk", StackWord(i)>>
                   ELSE IF a < 6 THEN <<"int", a>> ELSE <<"stk", StackWord(i)>>
      /\ Slot(j) = IF IsFloating(sig[j])
                   THEN IF d < 8 THEN <<"fp", d>> ELSE <<"stk", StackWord(j)>>
                   ELSE IF c < 6 THEN <<"int", c>> ELSE <<"stk", StackWord(j)>>
      /\ StackWord(i) = (IF a > 6 THEN a - 6 ELSE 0) + (IF b > 8 THEN b - 8 ELSE 0)
      /\ StackWord(j) = (IF c > 6 THEN c - 6 ELSE 0) + (IF d > 8 THEN d - 8 ELSE 0)
  BY DEF Slot, StackWord
<1> HIDE DEF a, b, c, d
<1>6. /\ IsFloating(sig[i]) /\ ~(b < 8) => StackWord(i) < StackWord(j)
      /\ ~IsFloating(sig[i]) /\ ~(a < 6) => StackWord(i) < StackWord(j)
      /\ StackWord(i) \in Nat /\ StackWord(j) \in Nat
  BY <1>4, <1>5
<1>7. /\ IsFloating(sig[i]) => b # d
      /\ ~IsFloating(sig[i]) => a # c
  BY <1>4
<1>8. StackWord(i) < StackWord(j) => StackWord(i) # StackWord(j)
  BY <1>6
<1>9. CASE IsFloating(sig[i]) /\ b < 8
  <2>1. Slot(i) = <<"fp", b>>
    BY <1>5, <1>9
  <2>2. Slot(j) \in {<<"fp", d>>, <<"int", c>>, <<"stk", StackWord(j)>>}
    BY <1>5
  <2>3. QED  BY <1>7, <1>9, <2>1, <2>2
<1>10. CASE ~IsFloating(sig[i]) /\ a < 6
  <2>1. Slot(i) = <<"int", a>>
    BY <1>5, <1>10
  <2>2. Slot(j) \in {<<"fp", d>>, <<"int", c>>, <<"stk", StackWord(j)>>}
    BY <1>5
  <2>3. QED  BY <1>7, <1>10, <2>1, <2>2
<1>11. CASE ~(IsFloating(sig[i]) /\ b < 8) /\ ~(~IsFloating(sig[i]) /\ a < 6)
  <2>1. Slot(i) = <<"stk", StackWord(i)>> /\ StackWord(i) # StackWord(j)
    BY <1>5, <1>6, <1>8, <1>11
  <2>2. Slot(j) \in {<<"fp", d>>, <<"int", c>>, <<"stk", StackWord(j)>>}
    BY <1>5
  <2>3. QED  BY <2>1, <2>2
<1>12. QED  BY <1>9, <1>10, <1>11

\* Parameters in the same place are the same parameter.
LEMMA SlotsInjective ==
  ASSUME sig \in Signatures, NEW i \in 1..Len(sig), NEW j \in 1..Len(sig), Slot(i) = Slot(j)
  PROVE  i = j
<1>1. i \in Nat \ {0} /\ j \in Nat \ {0}
  BY SigType
<1>2. ~(i < j) /\ ~(j < i)
  BY <1>1, SlotsDiffer
<1>3. QED  BY <1>1, <1>2

\* The caller has placed argument i where the proxy looks for it.
LEMMA PlacedAtSlot ==
  ASSUME sig \in Signatures, Supported, NEW i \in 1..Len(sig)
  PROVE  Placed(Slot(i)) = Token("argument", i)
<1> DEFINE at == {k \in 1..Len(sig) : AbiSlot(k) = Slot(i)}
<1>1. \A k \in 1..Len(sig) : AbiSlot(k) = Slot(k)
  BY SlotsAgree
<1>2. at = {i}
  BY <1>1, SlotsInjective
<1>3. (CHOOSE k \in {i} : TRUE) = i
  OBVIOUS
<1>4. Placed(Slot(i)) = IF at = {} THEN Garbage ELSE Token("argument", CHOOSE k \in at : TRUE)
  BY DEF Placed
<1>5. QED  BY <1>2, <1>3, <1>4

\* So the proxy reads argument i from the place it computes with its running counts.
LEMMA ValueRead ==
  ASSUME sig \in Signatures, Supported, NEW i \in 1..Len(sig)
  PROVE  /\ ~IsFloating(sig[i]) => GetLongValue(Ints(i), Fps(i)) = Token("argument", i)
         /\ IsFloating(sig[i]) => GetDoubleValue(Ints(i), Fps(i)) = Token("argument", i)
<1>1. Ints(i) \in Nat /\ Fps(i) \in Nat
  BY SigType, CountsFinite
<1> DEFINE a == Ints(i)
           b == Fps(i)
<1>2. /\ Slot(i) = IF IsFloating(sig[i])
                   THEN IF b < 8 THEN <<"fp", b>> ELSE <<"stk", StackWord(i)>>
                   ELSE IF a < 6 THEN <<"int", a>> ELSE <<"stk", StackWord(i)>>
      /\ StackWord(i) = (IF a > 6 THEN a - 6 ELSE 0) + (IF b > 8 THEN b - 8 ELSE 0)
      /\ a \in Nat /\ b \in Nat
  BY <1>1 DEF Slot, StackWord
<1> HIDE DEF a, b
<1>3. /\ a - 6 + (IF b <= 7 THEN 0 ELSE b - 8) = StackWord(i) \/ a < 6
      /\ b - 8 + (IF a <= 5 THEN 0 ELSE a - 6) = StackWord(i) \/ b < 8
  BY <1>2
<1>4. ~IsFloating(sig[i]) =>
         (IF a <= 5 THEN <<"int", a>> ELSE <<"stk", a - 6 + (IF b <= 7 THEN 0 ELSE b - 8)>>) = Slot(i)
  <2>1. CASE a <= 5
    BY <1>2, <2>1
  <2>2. CASE ~(a <= 5)
    <3>1. ~(a < 6)
      BY <1>2, <2>2
    <3>2. QED  BY <1>2, <1>3, <2>2, <3>1
  <2>3. QED  BY <2>1, <2>2
<1>5. IsFloating(sig[i]) =>
         (IF b <= 7 THEN <<"fp", b>> ELSE <<"stk", b - 8 + (IF a <= 5 THEN 0 ELSE a - 6)>>) = Slot(i)
  <2>1. CASE b <= 7
    BY <1>2, <2>1
  <2>2. CASE ~(b <= 7)
    <3>1. ~(b < 8)
      BY <1>2, <2>2
    <3>2. QED  BY <1>2, <1>3, <2>2, <3>1
  <2>3. QED  BY <2>1, <2>2
<1>6. QED  BY <1>4, <1>5, PlacedAtSlot DEF GetLongValue, GetDoubleValue, a, b

\* Before a count passes a limit there is a parameter of that kind at the limit.
LEMMA ReachedBefore ==
  ASSUME NEW i \in Nat \ {0}
  PROVE  /\ Ints(i) > 6 => \E k \in 1..(i - 1) : ~IsFloating(sig[k]) /\ Ints(k) >= 6
         /\ Fps(i) > 8 => \E k \in 1..(i - 1) : IsFloating(sig[k]) /\ Fps(k) >= 8
<1>1. ASSUME Ints(i) > 6 PROVE \E k \in 1..(i - 1) : ~IsFloating(sig[k]) /\ Ints(k) >= 6
  <2> DEFINE S == {k \in 1..i : Ints(k) > 6}
  <2>1. S \in SUBSET Nat /\ i \in S
    BY <1>1
  <2>2. PICK m \in S : \A k \in S : m <= k
    BY <2>1, LeastNat
  <2>3. m # 1
    BY <2>2, CountsStart
  <2>4. m - 1 \in 1..(i - 1) /\ m - 1 \notin S /\ m - 1 \in Nat \ {0} /\ (m - 1) + 1 = m
    BY <2>2, <2>3
  <2>5. ~(Ints(m - 1) > 6) /\ Ints(m) > 6
    BY <2>2, <2>4
  <2>6. /\ Ints(m) = IF IsFloating(sig[m - 1]) THEN Ints(m - 1) ELSE Ints(m - 1) + 1
        /\ Ints(m - 1) \in Nat
    BY <2>4, CountsStep, CountsFinite
  <2>7. ~IsFloating(sig[m - 1]) /\ Ints(m - 1) >= 6
    BY <2>5, <2>6
  <2>8. QED  BY <2>4, <2>7
<1>2. ASSUME Fps(i) > 8 PROVE \E k \in 1..(i - 1) : IsFloating(sig[k]) /\ Fps(k) >= 8
  <2> DEFINE S == {k \in 1..i : Fps(k) > 8}
  <2>1. S \in SUBSET Nat /\ i \in S
    BY <1>2
  <2>2. PICK m \in S : \A k \in S : m <= k
    BY <2>1, LeastNat
  <2>3. m # 1
    BY <2>2, CountsStart
  <2>4. m - 1 \in 1..(i - 1) /\ m - 1 \notin S /\ m - 1 \in Nat \ {0} /\ (m - 1) + 1 = m
    BY <2>2, <2>3
  <2>5. ~(Fps(m - 1) > 8) /\ Fps(m) > 8
    BY <2>2, <2>4
  <2>6. /\ Fps(m) = IF IsFloating(sig[m - 1]) THEN Fps(m - 1) + 1 ELSE Fps(m - 1)
        /\ Fps(m - 1) \in Nat
    BY <2>4, CountsStep, CountsFinite
  <2>7. IsFloating(sig[m - 1]) /\ Fps(m - 1) >= 8
    BY <2>5, <2>6
  <2>8. QED  BY <2>4, <2>7
<1>3. QED  BY <1>1, <1>2

\* A parameter that is alone on the stack is in its first word.
LEMMA AloneOnStack ==
  ASSUME sig \in Signatures, Supported, NEW i \in 1..Len(sig), Slot(i)[1] = "stk"
  PROVE  Slot(i) = <<"stk", 0>> /\ Stacked = 1
<1> DEFINE at == {k \in 1..Len(sig) : AbiSlot(k)[1] = "stk"}
           ls == {k \in 1..Len(sig) : ListSlot(k)[1] = "stk"}
<1>1. Len(sig) \in Nat /\ i \in Nat \ {0}
  BY SigType
<1>2. /\ at = {k \in 1..Len(sig) : Slot(k)[1] = "stk"} /\ ls = {k \in 1..Len(sig) : Slot(k)[1] = "stk"}
  BY SlotsAgree
<1>3. Cardinality(at) <= 1 /\ Stacked = Cardinality(ls)
  BY DEF Supported, Stacked
<1>4. IsFiniteSet(at) /\ i \in at /\ at = ls
  <2>1. IsFiniteSet(1..Len(sig))
    BY <1>1, FS_Interval
  <2>2. IsFiniteSet(at)
    BY <2>1, FS_Subset
  <2>3. QED  BY <1>2, <2>2
<1> HIDE DEF at, ls
<1>5. \A k \in at : k = i
  <2>1. SUFFICES ASSUME NEW k \in at, k # i PROVE FALSE
    OBVIOUS
  <2>2. {i, k} \subseteq at /\ Cardinality({i, k}) = 2
    <3>1. IsFiniteSet({i}) /\ Cardinality({i}) = 1
      BY FS_Singleton
    <3>2. {i, k} = {i} \cup {k} /\ k \notin {i}
      BY <2>1
    <3>3. Cardinality({i, k}) = Cardinality({i}) + 1
      BY <3>1, <3>2, FS_AddElement
    <3>4. QED  BY <1>4, <2>1, <3>1, <3>3
  <2>3. Cardinality({i, k}) <= Cardinality(at)
    BY <1>4, <2>2, FS_Subset
  <2>4. Cardinality(at) \in Nat
    BY <1>4, FS_CardinalityType
  <2>5. QED  BY <1>3, <2>2, <2>3, <2>4
<1>6. Stacked = 1
  <2>1. at = {i}
    BY <1>4, <1>5
  <2>2. QED  BY <1>3, <1>4, <2>1, FS_Singleton
<1>7. ASSUME NEW k \in 1..(i - 1) PROVE Slot(k)[1] # "stk"
  <2>1. k \in 1..Len(sig) /\ k # i
    BY <1>1
  <2>2. QED  BY <1>2, <1>5, <2>1
<1>8. \A k \in 1..(i - 1) : /\ ~(~IsFloating(sig[k]) /\ Ints(k) >= 6)
                            /\ ~(IsFloating(sig[k]) /\ Fps(k) >= 8)
  <2>1. SUFFICES ASSUME NEW k \in 1..(i - 1)
                 PROVE  ~(~IsFloating(sig[k]) /\ Ints(k) >= 6) /\ ~(IsFloating(sig[k]) /\ Fps(k) >= 8)
    OBVIOUS
  <2>2. Ints(k) \in Nat /\ Fps(k) \in Nat
    <3>1. k \in Int
      BY <1>1
    <3>2. QED  BY <3>1, CountsFinite
  <2>3. Slot(k)[1] # "stk"
    BY <1>7
  <2>4. QED  BY <2>2, <2>3 DEF Slot
<1>9. ~(Ints(i) > 6) /\ ~(Fps(i) > 8)
  BY <1>1, <1>8, ReachedBefore
<1>10. StackWord(i) = 0
  BY <1>9 DEF StackWord
<1>11. Slot(i) = <<"stk", StackWord(i)>>
  BY DEF Slot
<1>12. QED  BY <1>6, <1>10, <1>11

\* invoke hands the method the arguments of the list.
LEMMA LoadedAtSlot ==
  ASSUME sig \in Signatures, Supported, NEW i \in 1..Len(sig),
         stub.args = [k \in 1..Len(sig) |-> [slot |-> ListSlot(k), value |-> Argument(k)]]
  PROVE  Received(i) = Argument(i)
<1>1. AbiSlot(i) = Slot(i) /\ \A k \in 1..Len(sig) : ListSlot(k) = Slot(k)
  BY SlotsAgree
<1> DEFINE from == IF Slot(i)[1] = "stk" THEN <<"stk", Stacked - 1 - Slot(i)[2]>> ELSE Slot(i)
           at == {k \in 1..Len(stub.args) : stub.args[k].slot = from}
<1>2. from = Slot(i)
  <2>1. CASE Slot(i)[1] = "stk"
    <3>1. Slot(i) = <<"stk", 0>> /\ Stacked = 1
      BY <2>1, AloneOnStack
    <3>2. QED  BY <2>1, <3>1
  <2>2. CASE Slot(i)[1] # "stk"
    BY <2>2
  <2>3. QED  BY <2>1, <2>2
<1>3. Len(sig) \in Nat
  BY SigType
<1>4. Len(stub.args) = Len(sig) /\ \A k \in 1..Len(sig) : stub.args[k].slot = Slot(k) /\ stub.args[k].value = Argument(k)
  BY <1>1, <1>3
<1>5. Loaded(AbiSlot(i)) = IF at = {} THEN <<Garbage>> ELSE stub.args[CHOOSE k \in at : TRUE].value
  BY <1>1 DEF Loaded
<1> HIDE DEF from
<1>6. at = {i}
  BY <1>2, <1>4, SlotsInjective
<1>7. (CHOOSE k \in {i} : TRUE) = i
  OBVIOUS
<1>8. Loaded(AbiSlot(i)) = Argument(i)
  BY <1>4, <1>5, <1>6, <1>7
<1>9. sig[i].kind # "Float"
  BY DEF Supported, Carries
<1>10. QED  BY <1>8, <1>9 DEF Received

-----------------------------------------------------------------------------
(***************************************************************************)
(* The arguments on their way.                                             *)
(***************************************************************************)
\* What depends on the method only does not change in a step.
LEMMA SameSignature ==
  ASSUME UNCHANGED sig
  PROVE  /\ Supported' <=> Supported
         /\ \A i : Argument(i)' = Argument(i)
         /\ \A i : ListSlot(i)' = ListSlot(i) /\ Ints(i)' = Ints(i) /\ Fps(i)' = Fps(i)
  BY DEF Supported, Carries, AbiSlot, ListSlot, Before, IsFloating, Argument, Carried, Ints, Fps

\* A step of the proxy after it has marshalled, and one of the stub after it has unmarshalled.
LEMMA ProxyTravel ==
  ASSUME TravelOK, UNCHANGED <<sig, request, stub, seen>>, proxy'.pc # "marshal"
  PROVE  TravelOK'
<1>1. Layout(sig') = Layout(sig)
  OBVIOUS
<1> DEFINE A(n) == [k \in 1..n |-> [slot |-> ListSlot(k), value |-> Argument(k)]]
<1>2. A(stub.i - 1)' = A(stub.i - 1)
  BY DEF ListSlot, Argument, Carried, Before, IsFloating
<1>3. (\A i \in 1..Len(sig) : seen[i] = Argument(i))' <=> (\A i \in 1..Len(sig) : seen[i] = Argument(i))
  BY DEF Argument, Carried
<1>4. QED  BY <1>1, <1>2, <1>3 DEF TravelOK

\* The stub's side of the same.
LEMMA StubTravel ==
  ASSUME TravelOK, UNCHANGED <<sig, proxy, request, seen>>, stub'.pc # "unmarshal"
  PROVE  TravelOK'
  BY DEF TravelOK, Ints, Fps, Argument, Carried, IsFloating

\* The steps that carry no argument.
LEMMA OthersTravel ==
  ASSUME TypeOK, TravelOK,
         \/ MarshalRefuses \/ StackReadCrashes \/ EntryCrashes \/ ConnectFails \/ TimeOut
         \/ TakeReply \/ UnmarshalResults \/ ProxyExit
         \/ UnmarshalRefuses \/ RegisterLost \/ MarshalResults \/ SendReply \/ ReplyWithoutParcel
  PROVE  TravelOK'
<1>1. CASE MarshalRefuses \/ StackReadCrashes \/ EntryCrashes \/ ConnectFails \/ TimeOut \/ ProxyExit
  <2>1. UNCHANGED <<sig, request, stub, seen>> /\ proxy'.pc # "marshal"
    BY <1>1 DEF TypeOK, MarshalRefuses, StackReadCrashes, EntryCrashes, ConnectFails, TimeOut, ProxyExit
  <2>2. QED  BY <2>1, ProxyTravel
<1>2. CASE TakeReply \/ UnmarshalResults
  <2>1. UNCHANGED <<sig, request, stub, seen>> /\ proxy'.pc # "marshal"
    BY <1>2 DEF TypeOK, TakeReply, UnmarshalResults, ProxyAt
  <2>2. QED  BY <2>1, ProxyTravel
<1>3. CASE UnmarshalRefuses \/ RegisterLost \/ MarshalResults \/ SendReply \/ ReplyWithoutParcel
  <2>1. UNCHANGED <<sig, proxy, request, seen>> /\ stub'.pc # "unmarshal"
    BY <1>3 DEF TypeOK, UnmarshalRefuses, RegisterLost, MarshalResults, SendReply, ReplyWithoutParcel, StubAt
  <2>2. QED  BY <2>1, StubTravel
<1>4. QED  BY <1>1, <1>2, <1>3

\* Send hands all of the parcel to the bus.
LEMMA SendTravel ==
  ASSUME TypeOK, TravelOK, Send
  PROVE  TravelOK'
<1>1. /\ proxy.pc = "marshal" /\ proxy.i = Len(sig) + 1 /\ Len(sig) \in Nat /\ proxy'.pc = "blocked"
      /\ request' = <<SubSeq(proxy.parcel.mData, 1, proxy.parcel.mDataSize)>>
      /\ UNCHANGED <<sig, reply, stub, heap, seen, outs>>
  BY SigType DEF Send, ProxyAt, TypeOK
<1>2. proxy.parcel = Layout(sig)[Len(sig)]
  BY <1>1 DEF TravelOK
<1>3. proxy.parcel.mData \in Seq(Tokens \X Nat) /\ proxy.parcel.mDataSize = Len(proxy.parcel.mData)
  BY DEF TypeOK, Appendable, Parcels
<1>4. SubSeq(proxy.parcel.mData, 1, proxy.parcel.mDataSize) = proxy.parcel.mData
  BY <1>3
<1>5. request' = <<Layout(sig)[Len(sig)].mData>>
  BY <1>1, <1>2, <1>4
<1>6. QED  BY <1>1, <1>5 DEF TravelOK, ListSlot, Argument, Carried, Before, IsFloating

\* MarshalArguments writes the caller's argument and counts the register it was in.
LEMMA MarshalArgumentsTravel ==
  ASSUME TypeOK, Supported, TravelOK, MarshalArguments
  PROVE  TravelOK'
<1>1. /\ proxy.pc = "marshal" /\ proxy.i \in 1..Len(sig) /\ sig \in Signatures
      /\ UNCHANGED <<sig, request, reply, stub, heap, seen, outs>>
  BY SigType DEF MarshalArguments, ProxyAt, TypeOK
<1>2. PICK i \in 1..Len(sig) : i = proxy.i
  BY <1>1
<1>3. /\ sig[i].io = "IN" /\ sig[i].kind # "Float" /\ i \in Nat \ {0}
      /\ proxy.parcel = Layout(sig)[i - 1] /\ proxy.intNum = Ints(i) /\ proxy.fpNum = Fps(i)
  BY <1>1, <1>2, SigType DEF Supported, Carries, TravelOK
<1>4. MarshalIn(sig[i])
  BY <1>2, <1>3 DEF MarshalArguments
<1> DEFINE v == CASE sig[i].kind = "Float" -> Garbage
                  [] sig[i].kind = "Double" -> GetDoubleValue(proxy.intNum, proxy.fpNum)
                  [] OTHER -> GetLongValue(proxy.intNum, proxy.fpNum)
<1>5. v = Token("argument", i)
  <2>1. /\ ~IsFloating(sig[i]) => GetLongValue(Ints(i), Fps(i)) = Token("argument", i)
        /\ IsFloating(sig[i]) => GetDoubleValue(Ints(i), Fps(i)) = Token("argument", i)
    BY <1>1, ValueRead
  <2>2. CASE sig[i].kind = "Double"
    BY <1>3, <2>1, <2>2 DEF IsFloating
  <2>3. CASE sig[i].kind # "Double"
    BY <1>3, <2>1, <2>3 DEF IsFloating
  <2>4. QED  BY <2>2, <2>3
<1>6. proxy' = [proxy EXCEPT !.i = @ + 1, !.parcel = WriteValue(@, sig[i], v),
                             !.intNum = IF IsFloating(sig[i]) THEN @ ELSE @ + 1,
                             !.fpNum = IF IsFloating(sig[i]) THEN @ + 1 ELSE @]
  BY <1>4 DEF MarshalIn
<1> HIDE DEF v
<1>7. /\ proxy'.pc = "marshal" /\ proxy'.i = i + 1
      /\ proxy'.parcel = WriteValue(Layout(sig)[i - 1], sig[i], Token("argument", i))
      /\ proxy'.intNum = IF IsFloating(sig[i]) THEN Ints(i) ELSE Ints(i) + 1
      /\ proxy'.fpNum = IF IsFloating(sig[i]) THEN Fps(i) + 1 ELSE Fps(i)
  BY <1>1, <1>2, <1>3, <1>5, <1>6 DEF TypeOK
<1>8. proxy'.parcel = Layout(sig)[i]
  BY <1>3, <1>7, LayoutIs
<1>9. proxy'.intNum = Ints(i + 1) /\ proxy'.fpNum = Fps(i + 1)
  BY <1>3, <1>7, CountsStep
<1>10. Ints(i + 1)' = Ints(i + 1) /\ Fps(i + 1)' = Fps(i + 1)
  BY <1>1, SameSignature
<1>11. /\ proxy'.pc = "marshal" => /\ proxy'.parcel = Layout(sig')[proxy'.i - 1]
                                  /\ proxy'.intNum = Ints(proxy.i)' /\ proxy'.fpNum = Fps(proxy.i)'
  <2>1. proxy'.i - 1 = i
    BY <1>3, <1>7
  <2>2. Ints(proxy.i)' = Ints(i + 1)' /\ Fps(proxy.i)' = Fps(i + 1)'
    BY <1>7 DEF Ints, Fps
  <2>3. QED  BY <1>1, <1>8, <1>9, <1>10, <2>1, <2>2
<1>12. QED  BY <1>1, <1>11 DEF TravelOK, ListSlot, Argument, Carried, Before, IsFloating

\* HandleMessage reads the header, and is where the first parameter begins.
LEMMA HandleMessageTravel ==
  ASSUME TypeOK, TravelOK, HandleMessage
  PROVE  TravelOK'
<1>1. /\ stub.pc = "idle" /\ request = <<Layout(sig)[Len(sig)].mData>> /\ sig \in Signatures /\ request' = <<>>
      /\ UNCHANGED <<sig, proxy, reply, heap, seen, outs>>
  BY DEF HandleMessage, StubAt, TravelOK, TypeOK
<1> DEFINE r == SetData(Layout(sig)[Len(sig)].mData)
           m == Token("magic", 0)
           f == Token("interface", 0)
           o == Token("method", 0)
           a == WriteAligned(CDBusParcel, m, 4)
           b == WriteAligned(a, f, 4)
           c == WriteAligned(b, o, 4)
<1>2. m \in Tokens /\ f \in Tokens /\ o \in Tokens
  BY TokenType
<1>3. m.tag = "magic" /\ f.tag = "interface" /\ o.tag = "method"
  BY DEF Token
<1>4. Header = c /\ Layout(sig)[0] = c
  BY LayoutIs DEF Header
<1> HIDE DEF m, f, o
<1>5. Appended(a, CDBusParcel) /\ Appendable(CDBusParcel)
  BY <1>2, EmptyParcel, WriteAlignedAppends
<1>6. a = WriteAligned(CDBusParcel, m, 4)
  OBVIOUS
<1> HIDE DEF a
<1>7. Appendable(a) /\ a.mDataPos \in Nat
  BY <1>5 DEF Appended, Appendable, Parcels
<1>8. Appended(b, a) /\ b = WriteAligned(a, f, 4)
  BY <1>2, <1>7, WriteAlignedAppends
<1> HIDE DEF b
<1>9. Appendable(b) /\ b.mDataPos \in Nat
  BY <1>8 DEF Appended, Appendable, Parcels
<1>10. Appended(c, b) /\ c = WriteAligned(b, o, 4)
  BY <1>2, <1>9, WriteAlignedAppends
<1> HIDE DEF c
<1>11. c.mDataPos \in Nat
  BY <1>10 DEF Appended, Appendable, Parcels
<1>12. Follows(r, c)
  <2>1. 0 \in 0..Len(sig)
    BY <1>1, SigType
  <2>2. QED  BY <1>1, <1>4, <2>1, SetDataFollows
<1>13. r.mDataPos = 0 /\ CDBusParcel.mDataPos = 0
  BY DEF SetData, CDBusParcel
<1>14. Head(request) = Layout(sig)[Len(sig)].mData
  BY <1>1
<1>15. r = SetData(Head(request)) /\ r = SetData(Layout(sig)[Len(sig)].mData)
  BY <1>14
<1> HIDE DEF r
<1>16. Follows(r, b) /\ Follows(r, a)
  BY <1>8, <1>10, <1>12, FollowsEarlier
<1>17. ReadAligned(r, 4) = Got(At(r, a.mDataPos), m)
  BY <1>2, <1>5, <1>6, <1>13, <1>16, ReadAlignedReads
<1>18. ReadAligned(At(r, a.mDataPos), 4) = Got(At(r, b.mDataPos), f)
  <2>1. /\ Follows(At(r, a.mDataPos), b) /\ At(r, a.mDataPos).mDataPos = a.mDataPos
        /\ \A n : At(At(r, a.mDataPos), n) = At(r, n)
    BY <1>7, <1>16, AtFollows
  <2>2. ReadAligned(At(r, a.mDataPos), 4) = Got(At(At(r, a.mDataPos), b.mDataPos), f)
    BY <1>2, <1>7, <1>8, <2>1, ReadAlignedReads
  <2>3. QED  BY <2>1, <2>2
<1>19. ReadAligned(At(r, b.mDataPos), 4) = Got(At(r, c.mDataPos), o)
  <2>1. /\ Follows(At(r, b.mDataPos), c) /\ At(r, b.mDataPos).mDataPos = b.mDataPos
        /\ \A n : At(At(r, b.mDataPos), n) = At(r, n)
    BY <1>9, <1>12, AtFollows
  <2>2. ReadAligned(At(r, b.mDataPos), 4) = Got(At(At(r, b.mDataPos), c.mDataPos), o)
    BY <1>2, <1>9, <1>10, <2>1, ReadAlignedReads
  <2>3. QED  BY <2>1, <2>2
<1>20. stub' = [stub EXCEPT !.pc = "unmarshal", !.i = 1, !.parcel = At(r, c.mDataPos)]
  <2> DEFINE magic == ReadAligned(SetData(Head(request)), 4)
             interface == ReadAligned(magic.parcel, 4)
             method == ReadAligned(interface.parcel, 4)
  <2>1. magic = Got(At(r, a.mDataPos), m)
    BY <1>15, <1>17
  <2>2. interface = Got(At(r, b.mDataPos), f)
    BY <1>18, <2>1 DEF Got
  <2>3. method = Got(At(r, c.mDataPos), o)
    BY <1>19, <2>2 DEF Got
  <2>4. stub' = IF <<magic.value.tag, interface.value.tag, method.value.tag>> = <<"magic", "interface", "method">>
                THEN [stub EXCEPT !.pc = "unmarshal", !.i = 1, !.parcel = method.parcel]
                ELSE [stub EXCEPT !.pc = "reply", !.ec = "E_RUNTIME_EXCEPTION"]
    BY DEF HandleMessage
  <2> HIDE DEF magic, interface, method
  <2>5. magic.value = m /\ interface.value = f /\ method.value = o /\ method.parcel = At(r, c.mDataPos)
    BY <2>1, <2>2, <2>3 DEF Got
  <2>6. QED  BY <1>3, <2>4, <2>5
<1>21. stub'.pc = "unmarshal" /\ stub'.i = 1 /\ stub'.parcel = At(r, c.mDataPos) /\ stub'.args = <<>>
  BY <1>1, <1>20 DEF TypeOK
<1> DEFINE A == [k \in 1..0 |-> [slot |-> ListSlot(k)', value |-> Argument(k)']]
<1>22. A = <<>>
  OBVIOUS
<1>23. QED
  BY <1>1, <1>4, <1>15, <1>21, <1>22 DEF TravelOK, At, Ints, Fps, Argument, Carried, IsFloating

\* UnmarshalArguments reads the parameter from where it was written, and lists it.
LEMMA UnmarshalArgumentsTravel ==
  ASSUME TypeOK, Supported, TravelOK, UnmarshalArguments
  PROVE  TravelOK'
<1>1. /\ stub.pc = "unmarshal" /\ stub.i \in 1..Len(sig) /\ sig \in Signatures
      /\ UNCHANGED <<sig, proxy, request, reply, seen, outs>>
  BY SigType DEF UnmarshalArguments, StubAt, TypeOK
<1>2. PICK i \in 1..Len(sig) : i = stub.i
  BY <1>1
<1> DEFINE r == SetData(Layout(sig)[Len(sig)].mData)
           n == Layout(sig)[i - 1].mDataPos
           q == Layout(sig)[i]
           A(j) == [k \in 1..j |-> [slot |-> ListSlot(k), value |-> Argument(k)]]
<1>3. /\ sig[i].io = "IN" /\ sig[i].kind # "Interface" /\ i \in Nat \ {0}
      /\ Legal(sig[i]) /\ sig[i].kind # "Illegal" /\ Carries(sig[i])
      /\ stub.parcel = At(r, n) /\ stub.args = A(i - 1)
  BY <1>1, <1>2, SigType DEF Supported, Carries, TravelOK, At
<1>4. Len(sig) \in Nat /\ i - 1 \in 0..Len(sig) /\ i \in 0..Len(sig)
  BY <1>1, SigType
<1>5. Appendable(Layout(sig)[i - 1]) /\ q = WriteValue(Layout(sig)[i - 1], sig[i], Token("argument", i))
  BY <1>1, <1>3, <1>4, LayoutAppends, LayoutIs
<1>6. n \in Nat
  BY <1>5 DEF Appendable, Parcels
<1>7. Follows(r, q)
  BY <1>1, <1>4, SetDataFollows
<1> HIDE DEF r, q
<1>8. Follows(At(r, n), q) /\ At(r, n).mDataPos = n /\ \A k : At(At(r, n), k) = At(r, k)
  BY <1>6, <1>7, AtFollows
<1>9. ReadValue(At(r, n), sig[i]) = Got(At(r, q.mDataPos), Argument(i))
  <2> DEFINE v == Token("argument", i)
  <2>1. v \in Tokens
    BY <1>3, TokenType
  <2>2. Argument(i) = Delivered(sig[i], v)
    <3>1. sig[i].elem \in {"Flat", "String", "Interface", "Unknown"}
      BY <1>3 DEF Legal, Params, Elems
    <3>2. QED  BY <1>3, <3>1 DEF Argument, Delivered, Carries
  <2> HIDE DEF v
  <2>3. q = WriteValue(Layout(sig)[i - 1], sig[i], v)
    BY <1>5 DEF v
  <2>4. ReadValue(At(r, n), sig[i]) = Got(At(At(r, n), q.mDataPos), Delivered(sig[i], v))
    BY <1>3, <1>5, <1>8, <2>1, <2>3, RoundTrip
  <2>5. QED  BY <1>8, <2>2, <2>4
<1>10. stub' = [stub EXCEPT !.i = @ + 1, !.parcel = At(r, q.mDataPos), !.args = SetArgument(i, Argument(i))]
  <2> DEFINE got == ReadValue(stub.parcel, sig[i])
  <2>1. got = Got(At(r, q.mDataPos), Argument(i))
    BY <1>3, <1>9
  <2>2. got.parcel = At(r, q.mDataPos) /\ got.value = Argument(i)
    BY <2>1 DEF Got
  <2>3. stub' = [stub EXCEPT !.i = @ + 1, !.parcel = got.parcel, !.args = SetArgument(i, got.value)]
    BY <1>2, <1>3 DEF UnmarshalArguments
  <2>4. QED  BY <2>2, <2>3
<1>11. SetArgument(i, Argument(i)) = A(i)
  <2> DEFINE e(k) == [slot |-> ListSlot(k), value |-> Argument(k)]
             S == {e(k) : k \in 1..i}
  <2>1. A(i - 1) = [k \in 1..(i - 1) |-> e(k)] /\ A(i) = [k \in 1..i |-> e(k)]
    OBVIOUS
  <2>2. SetArgument(i, Argument(i)) = Append(A(i - 1), e(i))
    BY <1>3 DEF SetArgument
  <2> HIDE DEF A, e
  <2>3. i - 1 \in Nat /\ i \in Nat
    BY <1>3
  <2>4. A(i - 1) \in Seq(S) /\ Len(A(i - 1)) = i - 1
    <3>1. \A k \in 1..(i - 1) : e(k) \in S
      BY <2>3
    <3>2. QED  BY <2>1, <2>3, <3>1
  <2>5. Append(A(i - 1), e(i)) = [k \in 1..i |-> e(k)]
    <3>1. e(i) \in S
      BY <1>3
    <3> HIDE DEF S
    <3>2. /\ Append(A(i - 1), e(i)) \in Seq(S) /\ Len(Append(A(i - 1), e(i))) = i
          /\ \A k \in 1..(i - 1) : Append(A(i - 1), e(i))[k] = A(i - 1)[k]
          /\ Append(A(i - 1), e(i))[i] = e(i)
      BY <2>3, <2>4, <3>1
    <3>3. \A k \in 1..i : Append(A(i - 1), e(i))[k] = e(k)
      BY <2>1, <2>3, <3>2
    <3>4. QED  BY <2>3, <3>2, <3>3
  <2>6. QED  BY <2>1, <2>2, <2>5
<1>12. /\ stub'.pc = "unmarshal" /\ stub'.i = i + 1 /\ stub'.parcel = At(r, q.mDataPos) /\ stub'.args = A(i)
  BY <1>1, <1>2, <1>10, <1>11 DEF TypeOK
<1>13. A(i)' = A(i)
  BY <1>1 DEF ListSlot, Argument, Carried, Before, IsFloating
<1>14. stub'.i - 1 = i
  BY <1>3, <1>12
<1>15. /\ stub'.parcel = [SetData(Layout(sig')[Len(sig')].mData) EXCEPT !.mDataPos = Layout(sig')[stub'.i - 1].mDataPos]
  BY <1>1, <1>12, <1>14 DEF At, r, q
<1>16. stub'.args = A(stub.i - 1)'
  BY <1>12, <1>13, <1>14
<1>17. QED  BY <1>1, <1>15, <1>16 DEF TravelOK, Ints, Fps, Argument, Carried, IsFloating

\* The method gets the arguments of the list.
LEMMA MetaInvokeTravel ==
  ASSUME TypeOK, Supported, TravelOK, NEW e, MetaInvoke(e)
  PROVE  TravelOK'
<1>1. /\ stub.pc = "unmarshal" /\ stub.i = Len(sig) + 1 /\ sig \in Signatures /\ Len(sig) \in Nat
      /\ UNCHANGED <<sig, proxy, request, reply, outs>> /\ stub'.pc = "results"
      /\ seen' = [i \in 1..Len(sig) |-> Received(i)]
  BY SigType DEF MetaInvoke, StubAt, TypeOK
<1>2. stub.args = [k \in 1..Len(sig) |-> [slot |-> ListSlot(k), value |-> Argument(k)]]
  BY <1>1 DEF TravelOK
<1>3. \A i \in 1..Len(sig) : seen'[i] = Argument(i)
  BY <1>1, <1>2, LoadedAtSlot
<1>4. \A i \in 1..Len(sig) : Argument(i)' = Argument(i)
  BY <1>1 DEF Argument, Carried
<1>5. QED  BY <1>1, <1>3, <1>4 DEF TravelOK, Ints, Fps, IsFloating

-----------------------------------------------------------------------------
(***************************************************************************)
(* The theorems.                                                           *)
(***************************************************************************)
\* The invariant holds before the call.
LEMMA InitHolds == ASSUME Init PROVE IInv
<1>1. /\ sig \in Signatures /\ Len(sig) \in Nat /\ request = <<>> /\ reply = <<>> /\ heap = {} /\ seen = <<>>
      /\ proxy = [pc |-> "marshal", i |-> 1, intNum |-> 1, fpNum |-> 0, parcel |-> Header,
                  results |-> <<>>, ec |-> "NOERROR"]
      /\ stub = [pc |-> "idle", i |-> 0, parcel |-> CDBusParcel, args |-> <<>>, results |-> <<>>, ec |-> "NOERROR"]
  BY SigType DEF Init
<1>2. TypeOK
  BY <1>1, HeaderType DEF TypeOK
<1>3. HeapOK /\ SeenOK
  BY <1>1 DEF HeapOK, SeenOK
<1>4. TravelOK
  BY <1>1, LayoutIs, CountsStart DEF TravelOK
<1>5. QED  BY <1>2, <1>3, <1>4 DEF IInv

\* A stuttering step keeps the invariant.
LEMMA StutterKeeps == ASSUME IInv, UNCHANGED vars PROVE IInv'
<1>1. UNCHANGED <<sig, proxy, request, reply, stub, heap, seen, outs>>
  BY DEF vars
<1>2. TypeOK' /\ HeapOK' /\ SeenOK'
  BY <1>1 DEF IInv, TypeOK, HeapOK, SeenOK, Allocated, Leaks
<1>3. Supported' <=> Supported
  BY <1>1, SameSignature
<1>4. TravelOK => TravelOK'
  BY <1>1 DEF TravelOK, Ints, Fps, ListSlot, Argument, Carried, Before, IsFloating
<1>5. QED  BY <1>2, <1>3, <1>4 DEF IInv

\* The invariant holds in every state of a call, for any methods.
THEOREM RemoteCallInvariant == Spec => []IInv
<1>1. Init => IInv
  BY InitHolds
<1>2. IInv /\ [Next]_vars => IInv'
  <2>1. SUFFICES ASSUME IInv, [Next]_vars PROVE IInv'
    OBVIOUS
  <2>2. TypeOK /\ HeapOK /\ SeenOK /\ (Supported => TravelOK)
    BY <2>1 DEF IInv
  <2>3. CASE Next
    <3>1. (TypeOK /\ HeapOK /\ SeenOK)'
      BY <2>2, <2>3, MarshalRefusesBase, MarshalArgumentsBase, StackReadCrashesBase, EntryCrashesBase,
         ConnectFailsBase, SendBase, TimeOutBase, TakeReplyBase, UnmarshalResultsBase, ProxyExitBase,
         HandleMessageBase, UnmarshalRefusesBase, UnmarshalArgumentsBase, MetaInvokeBase, RegisterLostBase,
         MarshalResultsBase, SendReplyBase, ReplyWithoutParcelBase
      DEF Next, Client, Corruption, Service, Block
    <3>2. ASSUME Supported PROVE TravelOK'
      BY <2>2, <2>3, <3>2, OthersTravel, SendTravel, MarshalArgumentsTravel, HandleMessageTravel,
         UnmarshalArgumentsTravel, MetaInvokeTravel DEF Next, Client, Corruption, Service, Block
    <3>3. UNCHANGED sig
      BY <2>3 DEF Next, Client, Corruption, Service, Block, MarshalRefuses, MarshalArguments, StackReadCrashes,
                  EntryCrashes, ConnectFails, Send, TimeOut, TakeReply, UnmarshalResults, ProxyExit,
                  HandleMessage, UnmarshalRefuses, UnmarshalArguments, MetaInvoke, RegisterLost,
                  MarshalResults, SendReply, ReplyWithoutParcel
    <3>4. Supported' <=> Supported
      BY <3>3, SameSignature
    <3>5. QED  BY <3>1, <3>2, <3>4 DEF IInv
  <2>4. CASE UNCHANGED vars
    BY <2>1, <2>4, StutterKeeps
  <2>5. QED  BY <2>1, <2>3, <2>4
<1>3. QED  BY <1>1, <1>2, PTL DEF Spec

\* The method receives the arguments its caller passed, the strings of an array one by one,
\* for every method whose parameters the runtime carries (Supported), however many and of
\* whatever lengths, and a call that returns success has run it: ArgumentsArrive.
THEOREM ArgumentsCorrect == Spec => []ArgumentsArrive
<1>1. IInv => ArgumentsArrive
  BY DEF IInv, SeenOK, TravelOK, ArgumentsArrive, ProxyAt
<1>2. QED  BY <1>1, RemoteCallInvariant, PTL

\* No value is written past the capacity of its parcel, of whatever length: WritesInBounds.
THEOREM WritesCorrect == Spec => []WritesInBounds
<1>1. IInv => WritesInBounds
  BY DEF IInv, TypeOK, Appendable, WritesInBounds
<1>2. QED  BY <1>1, RemoteCallInvariant, PTL

\* For every method: when the stub has answered it has freed all that it allocated for the
\* arguments but the strings inside [in] arrays and the contents of [out, callee] arrays:
\* StubFrees.
THEOREM FreesCorrect == Spec => []StubFrees
<1>1. IInv => StubFrees
  BY DEF IInv, HeapOK, StubFrees, StubAt
<1>2. QED  BY <1>1, RemoteCallInvariant, PTL
=============================================================================
