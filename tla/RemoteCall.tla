----------------------------- MODULE RemoteCall -----------------------------
(***************************************************************************)
(* One remote call, from the caller of a proxy to the object behind the    *)
(* stub and back: InterfaceProxy::ProxyEntry, MarshalArguments and         *)
(* UnmarshalResults (rpc/CProxy.cpp), CDBusChannel::Invoke and             *)
(* HandleMessage (rpc/dbus/CDBusChannel.cpp), CStub::Invoke and            *)
(* InterfaceStub::Invoke (rpc/CStub.cpp), CArgumentList and invoke         *)
(* (reflection/), over the parcels of module Parcel.  The method's         *)
(* parameters are chosen initially.  Client and service are processes of   *)
(* their own, and marshal one parameter per step.                          *)
(***************************************************************************)
EXTENDS Parcel, FiniteSets

CONSTANT Signatures     \* the methods: sequences of parameters

Params == [kind : {"Char", "Integer", "Long", "Float", "Double", "String", "Array", "Interface",
                   "Illegal"},
           io : {"IN", "IN_OUT", "OUT", "OUT_CALLEE"},
           len : Nat, elem : Elems, width : Nat, lens : Seq(Nat)]
ASSUME SignaturesAssumption ==
    /\ Signatures \subseteq Seq(Params)
    /\ \A s \in Signatures : \A i \in 1..Len(s) :
          s[i].kind = "Array" => /\ s[i].elem = "Flat" => s[i].width > 0
                                 /\ s[i].elem = "String" => Len(s[i].lens) = s[i].len

VARIABLES
    sig,        \* the method that is called
    proxy,      \* the client's activation of ProxyEntry and Invoke
    request,    \* the argument data on the bus, as a sequence of at most one message
    reply,      \* likewise the code and the result data
    stub,       \* the service's activation of HandleMessage and Invoke
    heap,       \* what the stub has allocated and not freed
    seen,       \* the arguments the object's method received, <<>> before; each is a
                \* sequence of tokens, of one token unless it is an array
    outs        \* the out parameters the proxy has stored for its caller

vars == <<sig, proxy, request, reply, stub, heap, seen, outs>>

\* Kinds: "Integer" stands for Byte, Short, Integer, Boolean, ECode and Enum, which are all
\* written as an Integer; "Illegal" for CoclassID, ComponentID, InterfaceID, HANDLE, Triple
\* and arrays of them.
Width(kind) == IF kind \in {"Long", "Double"} THEN 8 ELSE 4
IsFloating(p) == p.kind \in {"Float", "Double"}

\* The number of k < i with P(sig[k]).
Before(i, P(_)) == Cardinality({k \in 1..(i - 1) : P(sig[k])})

\* What arrives for v: the null string or array for an empty one, and the strings of an array
\* one by one.
Carried(p, v) ==
    CASE p.kind = "String" /\ p.len = 0 -> <<Null>>
      [] p.kind = "Array" /\ p.len = 0 -> <<>>
      [] p.kind = "Array" /\ p.len > 0 /\ p.elem = "String" ->
           [k \in 1..p.len |-> IF p.lens[k] = 0 THEN Null ELSE Element(v, k)]
      [] OTHER -> <<v>>
Argument(i) == Carried(sig[i], Token("argument", i))

\* The address of what the stub allocates for parameter i.
Address(i) == <<Token("address", i)>>

-----------------------------------------------------------------------------
(***************************************************************************)
(* The calling convention of the compiler, by which the caller and the     *)
(* method find a parameter: external.  An out parameter is a pointer; this *)
(* is the first of the integers.                                           *)
(***************************************************************************)
AbiSlot(i) ==
    LET floating(p) == IsFloating(p) /\ p.io = "IN"
        other(p) == ~floating(p)
        ints == 1 + Before(i, other)
        fps == Before(i, floating)
        stacked == (IF ints > 6 THEN ints - 6 ELSE 0) + (IF fps > 8 THEN fps - 8 ELSE 0)
    IN IF floating(sig[i])
       THEN IF fps < 8 THEN <<"fp", fps>> ELSE <<"stk", stacked>>
       ELSE IF ints < 6 THEN <<"int", ints>> ELSE <<"stk", stacked>>

\* What the caller has placed into a register or a stack word.
Placed(slot) ==
    LET at == {i \in 1..Len(sig) : AbiSlot(i) = slot}
    IN IF at = {} THEN Garbage ELSE Token("argument", CHOOSE i \in at : TRUE)

\* GetLongValue and GetDoubleValue: the offsets into the caller's stack.
GetLongValue(intIndex, fpIndex) ==
    Placed(IF intIndex <= 5 THEN <<"int", intIndex>>
           ELSE <<"stk", intIndex - 6 + (IF fpIndex <= 7 THEN 0 ELSE fpIndex - 8)>>)

GetDoubleValue(intIndex, fpIndex) ==
    Placed(IF fpIndex <= 7 THEN <<"fp", fpIndex>>
           ELSE <<"stk", fpIndex - 8 + (IF intIndex <= 5 THEN 0 ELSE intIndex - 6)>>)

\* The pointer through which a result is stored: it is looked up as GetLongValue looks up a
\* value.
GetValueAddress(intIndex, fpIndex) == GetLongValue(intIndex, fpIndex)

-----------------------------------------------------------------------------
(***************************************************************************)
(* Writing and reading the value of a parameter.  WriteInterface and       *)
(* ReadInterface do nothing.                                               *)
(***************************************************************************)
WriteValue(parcel, p, v) ==
    CASE p.kind = "String" -> WriteString(parcel, v, p.len)
      [] p.kind = "Array" -> WriteArray(parcel, v, p)
      [] p.kind = "Interface" -> parcel
      [] OTHER -> WriteAligned(parcel, v, Width(p.kind))

Single(got) == Got(got.parcel, <<got.value>>)

ReadValue(parcel, p) ==
    CASE p.kind = "String" -> Single(ReadString(parcel))
      [] p.kind = "Array" -> ReadArray(parcel)
      [] p.kind = "Interface" -> Got(parcel, <<Null>>)
      [] OTHER -> Single(ReadAligned(parcel, Width(p.kind)))

\* ProxyEntry: the parcel begins with the magic number and the two indices.
Header == WriteAligned(WriteAligned(WriteAligned(CDBusParcel,
              Token("magic", 0), 4), Token("interface", 0), 4), Token("method", 0), 4)

Init == /\ sig \in Signatures
        /\ proxy = [pc |-> "marshal", i |-> 1, intNum |-> 1, fpNum |-> 0, parcel |-> Header,
                    results |-> <<>>, ec |-> "NOERROR"]
        /\ request = <<>> /\ reply = <<>>
        /\ stub = [pc |-> "idle", i |-> 0, parcel |-> CDBusParcel, args |-> <<>>,
                   results |-> <<>>, ec |-> "NOERROR"]
        /\ heap = {} /\ seen = <<>>
        /\ outs = [i \in 1..Len(sig) |-> <<Garbage>>]

-----------------------------------------------------------------------------
(***************************************************************************)
(* The proxy.                                                              *)
(***************************************************************************)
ProxyAt(pc) == proxy.pc = pc

\* MarshalArguments refuses a parameter: nothing is sent.
Refused(p) == p.kind = "Illegal" \/ (p.io = "OUT_CALLEE" /\ p.kind # "Array")

MarshalRefuses ==
    /\ ProxyAt("marshal") /\ proxy.i <= Len(sig) /\ Refused(sig[proxy.i])
    /\ proxy' = [proxy EXCEPT !.pc = "return", !.ec = "E_ILLEGAL_ARGUMENT_EXCEPTION"]
    /\ UNCHANGED <<sig, request, reply, stub, heap, seen, outs>>

\* MarshalArguments of an input value.  A Float is read as the Double of its register and
\* then converted, which does not yield it.
MarshalIn(p) ==
    LET v == CASE p.kind = "Float" -> Garbage
               [] p.kind = "Double" -> GetDoubleValue(proxy.intNum, proxy.fpNum)
               [] OTHER -> GetLongValue(proxy.intNum, proxy.fpNum)
    IN proxy' = [proxy EXCEPT !.i = @ + 1, !.parcel = WriteValue(@, p, v),
                              !.intNum = IF IsFloating(p) THEN @ ELSE @ + 1,
                              !.fpNum = IF IsFloating(p) THEN @ + 1 ELSE @]

\* MarshalArguments of a pointer, of which [in, out] writes the value it points to.
MarshalOut(p) ==
    proxy' = [proxy EXCEPT !.i = @ + 1, !.intNum = @ + 1,
                 !.parcel = IF p.io = "IN_OUT"
                            THEN WriteValue(@, p, GetLongValue(proxy.intNum, proxy.fpNum))
                            ELSE @]

MarshalArguments ==
    /\ ProxyAt("marshal") /\ proxy.i <= Len(sig)
    /\ LET p == sig[proxy.i]
       IN ~Refused(p) /\ IF p.io = "IN" THEN MarshalIn(p) ELSE MarshalOut(p)
    /\ UNCHANGED <<sig, request, reply, stub, heap, seen, outs>>

\* Reading a word from the caller's stack (GET_STACK) overwrites rbx, which belongs to the
\* functions that called: the client may crash.
FromStack(p) == IF IsFloating(p) /\ p.io = "IN" THEN proxy.fpNum > 7 ELSE proxy.intNum > 5

StackReadCrashes ==
    /\ proxy.i <= Len(sig) /\ FromStack(sig[proxy.i])
    /\ \/ /\ ProxyAt("marshal") /\ ~Refused(sig[proxy.i])
          /\ sig[proxy.i].io \in {"IN", "IN_OUT"}
       \/ ProxyAt("results") /\ sig[proxy.i].io # "IN"
    /\ proxy' = [proxy EXCEPT !.pc = "crashed"]
    /\ UNCHANGED <<sig, request, reply, stub, heap, seen, outs>>

\* __entry puts the method's index into rbx and does not restore it: the caller may crash
\* once it goes on.
EntryCrashes ==
    /\ ProxyAt("return")
    /\ proxy' = [proxy EXCEPT !.pc = "crashed"]
    /\ UNCHANGED <<sig, request, reply, stub, heap, seen, outs>>

\* Invoke cannot connect to the bus.
ConnectFails ==
    /\ ProxyAt("marshal") /\ proxy.i = Len(sig) + 1
    /\ proxy' = [proxy EXCEPT !.pc = "return", !.ec = "E_RUNTIME_EXCEPTION"]
    /\ UNCHANGED <<sig, request, reply, stub, heap, seen, outs>>

\* dbus_connection_send_with_reply_and_block.
Send == /\ ProxyAt("marshal") /\ proxy.i = Len(sig) + 1
        /\ request' = <<SubSeq(proxy.parcel.mData, 1, proxy.parcel.mDataSize)>>
        /\ proxy' = [proxy EXCEPT !.pc = "blocked"]
        /\ UNCHANGED <<sig, reply, stub, heap, seen, outs>>

\* No answer within the default time-out, or the bus reports that nobody will give one.
TimeOut_Never == FALSE /\ UNCHANGED vars

TimeOut ==
    /\ ProxyAt("blocked")
    /\ proxy' = [proxy EXCEPT !.pc = "return", !.ec = "E_REMOTE_EXCEPTION"]
    /\ UNCHANGED <<sig, request, reply, stub, heap, seen, outs>>

HasOutArguments == \E i \in 1..Len(sig) : sig[i].io \in {"OUT", "IN_OUT"}

\* Invoke takes the reply.  CDBusChannel::UnmarshalArguments is empty: the parcel for the
\* results stays as it was created, and there is none when the method has no out arguments.
TakeReply ==
    /\ ProxyAt("blocked") /\ reply # <<>>
    /\ LET r == Head(reply)
       IN proxy' = IF r.ec # "NOERROR" THEN [proxy EXCEPT !.pc = "return", !.ec = r.ec]
                   ELSE [proxy EXCEPT !.pc = "results", !.i = 1, !.intNum = 1, !.fpNum = 0,
                           !.results = IF HasOutArguments /\ r.data # <<>>
                                       THEN <<CDBusParcel>> ELSE <<>>]
    /\ reply' = <<>>
    /\ UNCHANGED <<sig, request, stub, heap, seen, outs>>

\* UnmarshalResults; without a parcel a result is read through a null pointer.
UnmarshalResults ==
    /\ ProxyAt("results") /\ proxy.i <= Len(sig)
    /\ IF sig[proxy.i].io = "IN"
       THEN /\ proxy' = IF IsFloating(sig[proxy.i]) THEN [proxy EXCEPT !.i = @ + 1, !.fpNum = @ + 1]
                        ELSE [proxy EXCEPT !.i = @ + 1, !.intNum = @ + 1]
            /\ outs' = outs
       ELSE IF proxy.results = <<>>
       THEN proxy' = [proxy EXCEPT !.pc = "crashed"] /\ outs' = outs
       ELSE LET got == ReadValue(Head(proxy.results), sig[proxy.i])
            IN /\ proxy' = [proxy EXCEPT !.i = @ + 1, !.intNum = @ + 1, !.results = <<got.parcel>>]
               /\ outs' = [outs EXCEPT ![GetValueAddress(proxy.intNum, proxy.fpNum).n] = got.value]
    /\ UNCHANGED <<sig, request, reply, stub, heap, seen>>

ProxyExit ==
    /\ ProxyAt("results") /\ proxy.i = Len(sig) + 1
    /\ proxy' = [proxy EXCEPT !.pc = "return"]
    /\ UNCHANGED <<sig, request, reply, stub, heap, seen, outs>>

-----------------------------------------------------------------------------
(***************************************************************************)
(* The stub.                                                               *)
(***************************************************************************)
StubAt(pc) == stub.pc = pc

\* HandleMessage: SetData, and the reads of CStub::Invoke and InterfaceStub::Invoke.
HandleMessage ==
    /\ StubAt("idle") /\ request # <<>>
    /\ LET magic == ReadAligned(SetData(Head(request)), 4)
           interface == ReadAligned(magic.parcel, 4)
           method == ReadAligned(interface.parcel, 4)
       IN stub' = IF <<magic.value.tag, interface.value.tag, method.value.tag>>
                        = <<"magic", "interface", "method">>
                  THEN [stub EXCEPT !.pc = "unmarshal", !.i = 1, !.parcel = method.parcel]
                  ELSE [stub EXCEPT !.pc = "reply", !.ec = "E_RUNTIME_EXCEPTION"]
    /\ request' = <<>>
    /\ UNCHANGED <<sig, proxy, reply, heap, seen, outs>>

\* CArgumentList::CalculateDataSize places every parameter by its kind alone.
ListSlot(i) ==
    LET other(p) == ~IsFloating(p)
        ints == 1 + Before(i, other)
        fps == Before(i, IsFloating)
        stacked == (IF ints > 6 THEN ints - 6 ELSE 0) + (IF fps > 8 THEN fps - 8 ELSE 0)
    IN IF IsFloating(sig[i])
       THEN IF fps < 8 THEN <<"fp", fps>> ELSE <<"stk", stacked>>
       ELSE IF ints < 6 THEN <<"int", ints>> ELSE <<"stk", stacked>>

\* SetInputArgumentOf..., SetOutputArgumentOf...
SetArgument(i, v) == Append(stub.args, [slot |-> ListSlot(i), value |-> v])

\* UnmarshalArguments: in the switch over [out] and [in, out] every case but Char falls
\* through to the default, which loses what it allocated.
StubRefuses(p) == \/ p.kind = "Illegal"
                  \/ p.io \in {"OUT", "IN_OUT"} /\ p.kind # "Char"
                  \/ p.io = "OUT_CALLEE" /\ p.kind # "Array"

UnmarshalRefuses ==
    /\ StubAt("unmarshal") /\ stub.i <= Len(sig) /\ StubRefuses(sig[stub.i])
    /\ stub' = [stub EXCEPT !.pc = "reply", !.ec = "E_ILLEGAL_ARGUMENT_EXCEPTION"]
    /\ heap' = IF sig[stub.i].io \in {"OUT", "IN_OUT"} /\ sig[stub.i].kind # "Illegal"
               THEN heap \union {<<sig[stub.i].kind, stub.i, 0>>} ELSE heap
    /\ UNCHANGED <<sig, proxy, request, reply, seen, outs>>

\* What ReadArray allocates for an array that is not null: a buffer, and every string in it
\* that is not.
Contents(p, v, i) ==
    IF p.kind = "Array" /\ v # <<>>
    THEN {<<"contents", i, 0>>} \union {<<"string", i, k>> : k \in {j \in 1..Len(v) :
                                                p.elem = "String" /\ v[j] # Null}}
    ELSE {}

UnmarshalArguments ==
    /\ StubAt("unmarshal") /\ stub.i <= Len(sig) /\ ~StubRefuses(sig[stub.i])
    /\ LET p == sig[stub.i]
           i == stub.i
           got == IF p.io \in {"IN", "IN_OUT"} THEN ReadValue(stub.parcel, p)
                  ELSE Got(stub.parcel, <<>>)
           byAddress == p.io # "IN" \/ p.kind \in {"String", "Array"}
       IN /\ stub' = [stub EXCEPT !.i = @ + 1, !.parcel = got.parcel,
                         !.args = SetArgument(i, IF p.io = "IN" THEN got.value
                                                 ELSE Address(i))]
          /\ heap' = heap \union (IF byAddress THEN {<<p.kind, i, 0>>} ELSE {})
                          \union Contents(p, got.value, i)
    /\ UNCHANGED <<sig, proxy, request, reply, seen, outs>>

Stacked == Cardinality({i \in 1..Len(sig) : ListSlot(i)[1] = "stk"})

\* invoke loads the registers and pushes the stack words in the order of the list, so that
\* the method finds the last one first.
Loaded(slot) ==
    LET from == IF slot[1] = "stk" THEN <<"stk", Stacked - 1 - slot[2]>> ELSE slot
        at == {k \in 1..Len(stub.args) : stub.args[k].slot = from}
    IN IF at = {} THEN <<Garbage>> ELSE stub.args[CHOOSE k \in at : TRUE].value

\* The Double that SetInputArgumentOfFloat stores is not the Float the method reads.
Received(i) == IF sig[i].kind = "Float" THEN <<Garbage>> ELSE Loaded(AbiSlot(i))

\* CMetaMethod::Invoke: the method runs, succeeds or fails, and gives an [out, callee]
\* array its contents.
MetaInvoke(ec) ==
    /\ StubAt("unmarshal") /\ stub.i = Len(sig) + 1
    /\ seen' = [i \in 1..Len(sig) |-> Received(i)]
    /\ heap' = heap \union {<<"contents", i, 0>> : i \in {k \in 1..Len(sig) :
                                                            sig[k].io = "OUT_CALLEE"}}
    /\ stub' = [stub EXCEPT !.pc = "results", !.i = 1, !.ec = ec, !.results = <<CDBusParcel>>]
    /\ UNCHANGED <<sig, proxy, request, reply, outs>>

\* After a call with stack words invoke pops one of them into rbx, a register its callers
\* may still use.
RegisterLost ==
    /\ StubAt("results") /\ stub.i = 1 /\ Stacked > 0
    /\ stub' = [stub EXCEPT !.pc = "crashed"]
    /\ UNCHANGED <<sig, proxy, request, reply, heap, seen, outs>>

\* MarshalResults writes the results and frees what UnmarshalArguments allocated.
\* Triple::FreeData gives back the buffer of an array and not the strings in it, and is not
\* called for an array that is a result.
Freed(p, i) == {<<p.kind, i, 0>>} \union (IF p.io = "IN" THEN {<<"contents", i, 0>>} ELSE {})

\* The method assigns its array to the Triple of an [out, callee] parameter, which does not
\* set the type.
Result(p) == [p EXCEPT !.elem = "Unknown"]

MarshalResults_OnSuccess ==
    /\ StubAt("results") /\ stub.i <= Len(sig)
    /\ LET p == sig[stub.i]
           i == stub.i
       IN /\ stub' = [stub EXCEPT !.i = @ + 1,
                         !.results = IF p.io = "IN" THEN @
                                     ELSE <<WriteValue(Head(@), Result(p), Token("result", i))>>]
          /\ heap' = IF stub.ec = "NOERROR" THEN heap \ Freed(p, i) ELSE heap
    /\ UNCHANGED <<sig, proxy, request, reply, seen, outs>>

MarshalResults ==
    /\ StubAt("results") /\ stub.i <= Len(sig)
    /\ LET p == sig[stub.i]
           i == stub.i
       IN /\ stub' = [stub EXCEPT !.i = @ + 1,
                         !.results = IF p.io = "IN" THEN @
                                     ELSE <<WriteValue(Head(@), Result(p), Token("result", i))>>]
          /\ heap' = heap \ Freed(p, i)
    /\ UNCHANGED <<sig, proxy, request, reply, seen, outs>>

\* InterfaceStub::Invoke returns the method's code, and HandleMessage sends it with the
\* result data, or fails to send.
SendReply ==
    /\ StubAt("results") /\ stub.i = Len(sig) + 1
    /\ LET p == Head(stub.results)
           r == [ec |-> stub.ec, data |-> SubSeq(p.mData, 1, p.mDataSize)]
       IN reply' \in {<<r>>, <<>>}
    /\ stub' = [stub EXCEPT !.pc = "done"]
    /\ UNCHANGED <<sig, proxy, request, heap, seen, outs>>

\* A call that failed before MarshalResults left no parcel: HandleMessage asks the null
\* pointer for its data.
ReplyWithoutParcel ==
    /\ StubAt("reply")
    /\ stub' = [stub EXCEPT !.pc = "crashed"]
    /\ UNCHANGED <<sig, proxy, request, reply, heap, seen, outs>>

-----------------------------------------------------------------------------
Block == TakeReply \/ TimeOut

Client == \/ MarshalRefuses \/ MarshalArguments \/ ConnectFails \/ Send \/ Block
          \/ UnmarshalResults \/ ProxyExit

Service == \/ HandleMessage \/ UnmarshalRefuses \/ UnmarshalArguments
           \/ \E ec \in {"NOERROR", "E_METHOD"} : MetaInvoke(ec)
           \/ RegisterLost \/ MarshalResults \/ SendReply \/ ReplyWithoutParcel

\* The undefined behaviour of the client, which need not happen.
Corruption == StackReadCrashes \/ EntryCrashes

Next == Client \/ Corruption \/ Service

\* The client's thread runs, and the bus ends every wait; nothing is assumed of the service.
\* The second conjunct is WF_vars(Client) for a client that is not blocked, with its enabling
\* condition in place of ENABLED, which TLC evaluates too slowly for arrays of strings.
Running == ProxyAt("marshal") \/ ProxyAt("results")
Fairness == /\ WF_vars(Block)
            /\ []<>~Running \/ []<><<Client>>_vars

Spec == Init /\ [][Next]_vars /\ Fairness

-----------------------------------------------------------------------------
(***************************************************************************)
(* Properties.                                                             *)
(***************************************************************************)
\* What the runtime carries: input parameters of these kinds, at most one of them on the
\* stack; of arrays the flat ones and those of strings that were neither copied nor moved.
Carries(p) == /\ p.io = "IN" /\ p.kind \notin {"Float", "Interface", "Illegal"}
              /\ p.kind = "Array" /\ p.len > 0 => p.elem \in {"Flat", "String"}
Supported ==
    /\ \A i \in 1..Len(sig) : Carries(sig[i])
    /\ Cardinality({i \in 1..Len(sig) : AbiSlot(i)[1] = "stk"}) <= 1

\* The method receives the arguments the caller passed, the strings of an array one by one,
\* whatever registers, stack words and parcel positions they travelled through, and a call
\* that returns success has run it.
ArgumentsArrive ==
    Supported =>
        /\ seen # <<>> => \A i \in 1..Len(sig) : seen[i] = Argument(i)
        /\ ProxyAt("return") /\ proxy.ec = "NOERROR" /\ sig # <<>> => seen # <<>>

\* No write goes past the capacity of its parcel, though WriteAligned and WriteInplace do
\* not look at it again after GrowData.
WritesInBounds == /\ proxy.parcel.fits
                  /\ \A k \in 1..Len(stub.results) : stub.results[k].fits

\* When the stub has answered, and whether or not the method failed, it has freed what it
\* allocated for the arguments; all that is left are the strings inside [in] arrays and the
\* contents of [out, callee] arrays, which nobody frees.
Leaks(h) == \E i \in 1..Len(sig) :
               \/ h[1] = "string" /\ h[2] = i /\ sig[i].kind = "Array" /\ sig[i].io = "IN"
               \/ h = <<"contents", i, 0>> /\ sig[i].io = "OUT_CALLEE"
StubFrees == StubAt("done") => \A h \in heap : Leaks(h)

\* The service outlives the call: Invoke hands a failed call back to the client as its
\* code, "Remote call failed with ec = 0x%x." (CDBusChannel.cpp).
ServiceSurvives == ~StubAt("crashed")

\* ProxyEntry returns to its caller, though the service may be slow, gone or crash, the
\* reply get lost, or the time-out race with it; except for [out, callee] parameters and
\* parameters on the stack, for which the client may crash.
CallReturns == (\A i \in 1..Len(sig) : sig[i].io # "OUT_CALLEE" /\ AbiSlot(i)[1] # "stk")
                  => <>ProxyAt("return")

-----------------------------------------------------------------------------
(***************************************************************************)
(* The inductive invariant: what the properties rest on.                   *)
(***************************************************************************)
TypeOK ==
    /\ sig \in Signatures
    /\ proxy = [pc |-> proxy.pc, i |-> proxy.i, intNum |-> proxy.intNum, fpNum |-> proxy.fpNum,
                parcel |-> proxy.parcel, results |-> proxy.results, ec |-> proxy.ec]
    /\ proxy.pc \in {"marshal", "blocked", "results", "return", "crashed"}
    /\ proxy.i \in 1..(Len(sig) + 1) /\ Appendable(proxy.parcel)
    /\ stub = [pc |-> stub.pc, i |-> stub.i, parcel |-> stub.parcel, args |-> stub.args,
               results |-> stub.results, ec |-> stub.ec]
    /\ stub.pc \in {"idle", "unmarshal", "results", "reply", "done", "crashed"}
    /\ stub.i \in 0..(Len(sig) + 1) /\ (stub.pc \in {"unmarshal", "results"} => stub.i > 0)
    /\ stub.pc = "idle" => stub.args = <<>>
    /\ stub.results \in Seq(Parcels)
    /\ \A k \in 1..Len(stub.results) : Appendable(stub.results[k])
    /\ stub.pc = "results" => Len(stub.results) = 1

\* What the stub has allocated for parameter i and MarshalResults frees.
Allocated(i) == {<<sig[i].kind, i, 0>>}
                \union (IF sig[i].io = "IN" THEN {<<"contents", i, 0>>} ELSE {})

\* The stub allocates for the parameters it has unmarshalled, and frees in their order.
HeapOK ==
    /\ stub.pc = "idle" => heap = {}
    /\ stub.pc = "unmarshal" =>
          \A h \in heap : Leaks(h) \/ \E i \in 1..(stub.i - 1) : h \in Allocated(i)
    /\ stub.pc = "results" =>
          \A h \in heap : Leaks(h) \/ \E i \in stub.i..Len(sig) : h \in Allocated(i)
    /\ stub.pc = "done" => \A h \in heap : Leaks(h)

\* Whatever carries the success of a call comes after the method ran.
SeenOK ==
    /\ sig # <<>>
    /\ \/ stub.pc \in {"results", "done"} \/ reply # <<>> \/ proxy.pc = "results"
       \/ proxy.pc = "return" /\ proxy.ec = "NOERROR"
    => seen # <<>>

\* The parcel after ProxyEntry wrote the header and the first n parameters of s.
Layout(s) ==
    LET parcel[n \in Nat] == IF n = 0 THEN Header
                             ELSE WriteValue(parcel[n - 1], s[n], Token("argument", n))
    IN parcel

\* The integer and floating-point registers that the parameters before i take.
Ints(i) == 1 + Cardinality({k \in 1..(i - 1) : ~IsFloating(sig[k])})
Fps(i) == Cardinality({k \in 1..(i - 1) : IsFloating(sig[k])})

\* The stub reads from where the proxy wrote, and lists the arguments in their order.
TravelOK ==
    /\ proxy.pc = "marshal" => /\ proxy.parcel = Layout(sig)[proxy.i - 1]
                               /\ proxy.intNum = Ints(proxy.i) /\ proxy.fpNum = Fps(proxy.i)
    /\ request # <<>> => request = <<Layout(sig)[Len(sig)].mData>>
    /\ stub.pc = "unmarshal" =>
          /\ stub.parcel = [SetData(Layout(sig)[Len(sig)].mData)
                               EXCEPT !.mDataPos = Layout(sig)[stub.i - 1].mDataPos]
          /\ stub.args = [k \in 1..(stub.i - 1) |-> [slot |-> ListSlot(k), value |-> Argument(k)]]
    /\ seen # <<>> => \A i \in 1..Len(sig) : seen[i] = Argument(i)

IInv == TypeOK /\ HeapOK /\ SeenOK /\ (Supported => TravelOK)
=============================================================================
