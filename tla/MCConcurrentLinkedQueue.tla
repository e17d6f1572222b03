----------------------- MODULE MCConcurrentLinkedQueue -----------------------
EXTENDS ConcurrentLinkedQueue

CONSTANTS t1, t2

C(kind, items) == [kind |-> kind, items |-> items]

SomeCalls == {C("Offer", <<"a">>), C("AddAll", <<"a", "b">>), C("Poll", <<>>), C("Peek", <<>>),
              C("IsEmpty", <<>>), C("Contains", <<"b">>), C("Remove", <<"a">>)}
SomeContents == {<<>>, <<"b", "a">>}

\* One thread makes three calls while another is anywhere in one.
FewOps == [t \in Threads |-> IF t = t1 THEN 3 ELSE 1]
=============================================================================
