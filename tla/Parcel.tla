------------------------------- MODULE Parcel -------------------------------
(***************************************************************************)
(* CDBusParcel (rpc/dbus/CDBusParcel.cpp): a growing buffer into which     *)
(* values are written, and from which they are read, at positions that are *)
(* aligned to 4 bytes, or to 8 for Long and Double.  A value is a token    *)
(* and byte k of it is <<token, k>>, so that a read at another place, or   *)
(* of another width, than the write does not yield the token.  Memory is   *)
(* assumed to suffice (realloc and malloc do not return null).             *)
(***************************************************************************)
EXTENDS Integers, Sequences

ALIGN(v, n) == ((v + n - 1) \div n) * n

\* Element k of the array v is a token of its own.
Token(tag, n) == [tag |-> tag, n |-> n, k |-> 0]
Element(v, k) == [v EXCEPT !.k = k]
Garbage == Token("garbage", 0)
Zero == Token("zero", 0)                      \* a read past the end, which fails
Null == Token("null", 0)                      \* the null string or interface

Bytes(v, w) == [k \in 1..w |-> <<v, k>>]

\* The token that was written as these bytes.
Decode(b) == IF b = Bytes(b[1][1], Len(b)) THEN b[1][1] ELSE Garbage

\* fits: every write so far ended within the capacity.
CDBusParcel == [mData |-> <<>>, mDataSize |-> 0, mDataCapacity |-> 0, mDataPos |-> 0,
                fits |-> TRUE]

\* The bytes b at position pos, and FinishWrite up to position end: the data is only ever
\* appended to.
Unset(n) == [k \in 1..n |-> <<Garbage, 0>>]

Put(p, pos, b, end) ==
    [p EXCEPT
       !.mData = @ \o Unset(pos - Len(@)) \o b \o Unset(end - pos - Len(b)),
       !.mDataPos = end,
       !.mDataSize = IF end > @ THEN end ELSE @,
       !.fits = @ /\ end <= p.mDataCapacity]

\* GrowData and ContinueWrite.
GrowData_Half(p, len) == [p EXCEPT !.mDataCapacity = (p.mDataSize * 3) \div 2 + 4]

GrowData(p, len) == [p EXCEPT !.mDataCapacity = ((p.mDataSize + len) * 3) \div 2]

\* WriteAligned<T>: after growing, the capacity is not looked at again.
WriteAligned(p, v, w) ==
    LET pos == IF w = 8 THEN ALIGN(p.mDataPos, 8) ELSE p.mDataPos
        q == IF pos + w <= p.mDataCapacity THEN p ELSE GrowData(p, pos - p.mDataPos + w)
    IN Put(q, pos, Bytes(v, w), pos + w)

\* Write and WriteInplace of len bytes.
Write(p, v, len) ==
    LET end == p.mDataPos + ALIGN(len, 4)
        q == IF end <= p.mDataCapacity THEN p ELSE GrowData(p, ALIGN(len, 4))
    IN Put(q, p.mDataPos, Bytes(v, len), end)

\* A read yields a value and the parcel after it.
Got(p, v) == [parcel |-> p, value |-> v]

ReadAligned_NoAlign(p, w) ==
    IF p.mDataPos + w <= p.mDataSize
    THEN Got([p EXCEPT !.mDataPos = p.mDataPos + w],
             Decode(SubSeq(p.mData, p.mDataPos + 1, p.mDataPos + w)))
    ELSE Got(p, Zero)

ReadAligned(p, w) ==
    LET pos == IF w = 8 THEN ALIGN(p.mDataPos, 8) ELSE p.mDataPos
    IN IF pos + w <= p.mDataSize
       THEN Got([p EXCEPT !.mDataPos = pos + w], Decode(SubSeq(p.mData, pos + 1, pos + w)))
       ELSE Got([p EXCEPT !.mDataPos = pos], Zero)

\* Read and ReadInplace.
Read(p, len) ==
    LET end == p.mDataPos + ALIGN(len, 4)
    IN IF end <= p.mDataSize
       THEN Got([p EXCEPT !.mDataPos = end],
                Decode(SubSeq(p.mData, p.mDataPos + 1, p.mDataPos + len)))
       ELSE Got(p, Zero)

\* SetData: the bytes that came over the bus.
SetData(b) == [CDBusParcel EXCEPT !.mData = b, !.mDataSize = Len(b), !.mDataCapacity = Len(b)]

-----------------------------------------------------------------------------
(***************************************************************************)
(* Strings: their length, then their contents; an empty one has no         *)
(* contents and is read as null.                                           *)
(***************************************************************************)
WriteString(p, v, n) ==
    LET q == WriteAligned(p, Token("length", n), 4)
    IN IF n > 0 THEN Write(q, v, n + 1) ELSE q

ReadString(p) ==
    LET size == ReadAligned(p, 4)
    IN CASE size.value.tag = "length" /\ size.value.n > 0 -> Read(size.parcel, size.value.n + 1)
         [] size.value.tag = "length" /\ size.value.n = 0 -> Got(size.parcel, Null)
         [] size.value.tag = "zero" -> Got(size.parcel, Zero)
         [] OTHER -> Got(size.parcel, Garbage)

(***************************************************************************)
(* Arrays a: len elements, of the type elem that is in Triple::mType:      *)
(*   "Flat"       of width bytes each: Byte, Short, Integer, Long, Float,  *)
(*                Double, Char, Boolean;                                   *)
(*   "String"     of lengths lens;                                         *)
(*   "Interface"  Array<IInterface*>;                                      *)
(*   "Unknown"    every array that was copied or moved, because the copy   *)
(*                and move constructors of Array and operator= of Triple   *)
(*                do not set mType, and the element types Type2Kind does   *)
(*                not know: arrays, enumerations, other interfaces.        *)
(* CcmTypeKind::Array, ECode and Enum are in no array's mType.             *)
(***************************************************************************)
Elems == {"Flat", "String", "Interface", "Unknown"}

\* The loop over the strings of array v.
WriteStrings(p, v, lens) ==
    LET parcel[n \in Nat] == IF n = 0 THEN p
                             ELSE WriteString(parcel[n - 1], Element(v, n), lens[n])
    IN parcel

\* WriteInterface writes nothing, and nothing is written of an array of unknown type.
WriteArray(p, v, a) ==
    LET q == WriteAligned(WriteAligned(p, Token(a.elem, a.width), 4), Token("length", a.len), 8)
    IN CASE a.len > 0 /\ a.elem = "Flat" -> Write(q, v, a.len * a.width)
         [] a.len > 0 /\ a.elem = "String" -> WriteStrings(q, v, a.lens)[a.len]
         [] OTHER -> q

\* The loop that reads strings: it ends at the first that fails.
Fails(v) == v # <<>> /\ v[Len(v)] = Zero

ReadStrings(p) ==
    LET got[n \in Nat] == IF n = 0 THEN Got(p, <<>>)
                          ELSE LET before == got[n - 1]
                                   string == ReadString(before.parcel)
                               IN IF Fails(before.value) THEN before
                                  ELSE Got(string.parcel, Append(before.value, string.value))
    IN got

\* The value is the sequence of what is in the array: the contents of a flat one as a whole,
\* else its elements.  It is empty for the null array: for an empty one, one of unknown type,
\* and one of which a string failed.
ReadArray(p) ==
    LET type == ReadAligned(p, 4)
        size == ReadAligned(type.parcel, 8)
        n == size.value.n
        flat == Read(size.parcel, n * type.value.n)
        strings == ReadStrings(size.parcel)[n]
    IN CASE type.value.tag \notin Elems ->
              Got(type.parcel, IF type.value.tag = "zero" THEN <<>> ELSE <<Garbage>>)
         [] type.value.tag \in Elems /\ size.value.tag # "length" ->
              Got(size.parcel, IF size.value.tag = "zero" THEN <<>> ELSE <<Garbage>>)
         [] type.value.tag = "Flat" /\ size.value.tag = "length" /\ n > 0 ->
              Got(flat.parcel, <<flat.value>>)
         [] type.value.tag = "String" /\ size.value.tag = "length" /\ n > 0 ->
              Got(strings.parcel, IF Fails(strings.value) THEN <<>> ELSE strings.value)
         [] type.value.tag = "Interface" /\ size.value.tag = "length" /\ n > 0 ->
              Got(size.parcel, [k \in 1..n |-> Null])
         [] OTHER -> Got(size.parcel, <<>>)

-----------------------------------------------------------------------------
(***************************************************************************)
(* The states of a parcel: what it consists of, and what holds of one that *)
(* is only written to.                                                     *)
(***************************************************************************)
Tags == {"garbage", "zero", "null", "length", "magic", "interface", "method", "argument",
         "address", "result"} \union Elems
Tokens == [tag : Tags, n : Nat, k : Nat]
Parcels == [mData : Seq(Tokens \X Nat), mDataSize : Nat, mDataCapacity : Nat, mDataPos : Nat,
            fits : BOOLEAN]

Appendable(p) == p \in Parcels /\ p.fits /\ p.mDataPos = p.mDataSize /\ p.mDataSize = Len(p.mData)

\* The data of r begins with all that was written to q.
Follows(r, q) == /\ r \in Parcels /\ r.mDataSize = Len(r.mData) /\ q.mDataPos <= r.mDataSize
                 /\ \A k \in 1..q.mDataPos : r.mData[k] = q.mData[k]
=============================================================================
