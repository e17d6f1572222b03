---------------------------- MODULE MCRemoteCall ----------------------------
EXTENDS RemoteCall

P(kind, io) == [kind |-> kind, io |-> io, len |-> 0, elem |-> "Flat", width |-> 0, lens |-> <<>>]
Str(io, len) == [P("String", io) EXCEPT !.len = len]
Arr(io, len, width) == [P("Array", io) EXCEPT !.len = len, !.width = width]
ArrOf(elem, len) == [P("Array", "IN") EXCEPT !.len = len, !.elem = elem]
Strs(lens) == [ArrOf("String", Len(lens)) EXCEPT !.lens = lens]

Ins == {P(k, "IN") : k \in {"Char", "Integer", "Long", "Float", "Double", "Interface"}}
         \union {Str("IN", n) : n \in {0, 3, 6}}
         \union {Arr("IN", n, w) : n \in {0, 3}, w \in {1, 8}}
         \union {Strs(<<3, 0, 6>>), ArrOf("Interface", 2), ArrOf("Unknown", 2)}

\* [out] and [in, out] parameters, of which the stub takes only Char, and refused ones.
Outs == {P(k, io) : k \in {"Char", "Integer", "Double"}, io \in {"OUT", "IN_OUT"}}
          \union {Str("OUT", 3), Arr("OUT_CALLEE", 3, 4), P("Illegal", "IN"),
                  P("Integer", "OUT_CALLEE")}

Times(n, p) == [k \in 1..n |-> p]

\* So many parameters that some are passed on the stack.
Long == {Times(n, P("Long", "IN")) : n \in 5..7}
          \union {Times(n, P("Double", "IN")) : n \in 8..10}
          \union {Times(5, P("Integer", "IN")) \o Times(n, P("Double", "IN")) \o <<Str("IN", 3)>> :
                    n \in 7..9}
          \union {Times(6, P("Char", "IN")) \o Times(9, P("Double", "IN"))}
          \union {Times(5, P("Long", "IN")) \o <<P("Char", io)>> : io \in {"OUT", "IN_OUT"}}

\* Methods with inputs only, and methods with any parameters.
InSignatures == UNION {[1..n -> Ins] : n \in 0..3} \union Long
AllSignatures == InSignatures \union UNION {[1..n -> Ins \union Outs] : n \in 1..2}
=============================================================================
