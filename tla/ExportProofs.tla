---------------------------- MODULE ExportProofs ----------------------------
(***************************************************************************)
(* Proofs about the export of objects, for any threads, objects, stubs and *)
(* worlds: the reference counts of stubs are exact in every race, no stub  *)
(* that is held or registered is deleted but for a peer's Release, a pack  *)
(* names a channel that listens, and an object has more than one stub, or  *)
(* one that dies, only after a race on that object or such a Release.      *)
(***************************************************************************)
EXTENDS Export, FiniteSetTheorems, TLAPS

\* The AutoPtr of thread t takes stub s: Holders changes by one element.
LEMMA TakeCounts ==
  ASSUME TypeOK, CountsOK, NEW t \in Threads, NEW s \in Stubs, held[t] = "none",
         held' = [held EXCEPT ![t] = s]
  PROVE  /\ IsFiniteSet(Holders(s)') /\ Cardinality(Holders(s)') = Cardinality(Holders(s)) + 1
         /\ \A r \in Stubs \ {s} : Holders(r)' = Holders(r)
<1>1. s # "none" /\ IsFiniteSet(Holders(s))
  BY ExportAssumption DEF CountsOK
<1>2. Holders(s)' = Holders(s) \cup {t} /\ t \notin Holders(s)
  BY <1>1 DEF TypeOK, Holders
<1>3. \A r \in Stubs \ {s} : Holders(r)' = Holders(r)
  BY ExportAssumption DEF TypeOK, Holders
<1>4. QED  BY <1>1, <1>2, <1>3, FS_AddElement

\* The AutoPtr of thread t gives up stub s.
LEMMA DropCounts ==
  ASSUME TypeOK, CountsOK, NEW t \in Threads, NEW s \in Stubs, held[t] = s,
         held' = [held EXCEPT ![t] = "none"]
  PROVE  /\ IsFiniteSet(Holders(s)') /\ Cardinality(Holders(s)') = Cardinality(Holders(s)) - 1
         /\ \A r \in Stubs \ {s} : Holders(r)' = Holders(r)
<1>1. s # "none" /\ IsFiniteSet(Holders(s))
  BY ExportAssumption DEF CountsOK
<1>2. Holders(s)' = Holders(s) \ {t} /\ t \in Holders(s)
  BY <1>1 DEF TypeOK, Holders
<1>3. \A r \in Stubs \ {s} : Holders(r)' = Holders(r)
  BY ExportAssumption DEF TypeOK, Holders
<1>4. QED  BY <1>1, <1>2, <1>3, FS_RemoveElement

\* An entry no longer names stub s.
LEMMA RemoveCounts ==
  ASSUME TypeOK, CountsOK, NEW o \in Objects, NEW s \in Stubs, registry[o] = s,
         NEW v \in Stubs \cup {"none"}, v # s, registry' = [registry EXCEPT ![o] = v]
  PROVE  IsFiniteSet(Entries(s)') /\ Cardinality(Entries(s)') = Cardinality(Entries(s)) - 1
<1>1. IsFiniteSet(Entries(s))
  BY DEF CountsOK
<1>2. Entries(s)' = Entries(s) \ {o} /\ o \in Entries(s)
  BY DEF TypeOK, Entries
<1>3. QED  BY <1>1, <1>2, FS_RemoveElement

\* An entry comes to name stub s.
LEMMA PutCounts ==
  ASSUME TypeOK, CountsOK, NEW o \in Objects, NEW s \in Stubs, registry[o] # s,
         registry' = [registry EXCEPT ![o] = s]
  PROVE  IsFiniteSet(Entries(s)') /\ Cardinality(Entries(s)') = Cardinality(Entries(s)) + 1
<1>1. IsFiniteSet(Entries(s))
  BY DEF CountsOK
<1>2. Entries(s)' = Entries(s) \cup {o} /\ o \notin Entries(s)
  BY DEF TypeOK, Entries
<1>3. QED  BY <1>1, <1>2, FS_AddElement

\* The entries of the other stubs stay.
LEMMA SameEntries ==
  ASSUME TypeOK, NEW o \in Objects, NEW v \in Stubs \cup {"none"},
         registry' = [registry EXCEPT ![o] = v], NEW r \in Stubs, r # v, r # registry[o]
  PROVE  Entries(r)' = Entries(r)
  BY DEF TypeOK, Entries

\* The counts are integers, and not zero while a thread or an entry refers to the stub.
LEMMA CountsInt ==
  ASSUME CountsOK, NEW s \in Stubs
  PROVE  /\ Cardinality(Holders(s)) \in Nat /\ Cardinality(Entries(s)) \in Nat
         /\ \A t \in Threads : held[t] = s => Cardinality(Holders(s)) > 0
         /\ \A o \in Objects : registry[o] = s => Cardinality(Entries(s)) > 0
<1>1. IsFiniteSet(Holders(s)) /\ IsFiniteSet(Entries(s))
  BY DEF CountsOK
<1>2. Cardinality(Holders(s)) \in Nat /\ Cardinality(Entries(s)) \in Nat
  BY <1>1, FS_CardinalityType
<1>3. /\ Cardinality(Holders(s)) = 0 => Holders(s) = {}
      /\ Cardinality(Entries(s)) = 0 => Entries(s) = {}
  BY <1>1, FS_EmptySet
<1>4. /\ \A t \in Threads : held[t] = s => t \in Holders(s)
      /\ \A o \in Objects : registry[o] = s => o \in Entries(s)
  BY DEF Holders, Entries
<1>5. QED  BY <1>2, <1>3, <1>4

\* The last reference: whoever has it is the only thread or entry that refers to the stub.
LEMMA LastReference ==
  ASSUME CountsOK, NEW s \in Stubs, released[s] = 0, strong[s] = 1
  PROVE  /\ \A t \in Threads : held[t] = s => Holders(s) = {t} /\ Entries(s) = {}
         /\ \A o \in Objects : registry[o] = s => Holders(s) = {} /\ Entries(s) = {o}
<1>1. /\ IsFiniteSet(Holders(s)) /\ IsFiniteSet(Entries(s))
      /\ 1 = Cardinality(Holders(s)) + Cardinality(Entries(s)) - 0
  BY DEF CountsOK
<1>2. /\ Cardinality(Holders(s)) \in Nat /\ Cardinality(Entries(s)) \in Nat
      /\ \A t \in Threads : held[t] = s => Cardinality(Holders(s)) > 0
      /\ \A o \in Objects : registry[o] = s => Cardinality(Entries(s)) > 0
  BY CountsInt
<1>3. /\ Cardinality(Holders(s)) = 0 => Holders(s) = {}
      /\ Cardinality(Entries(s)) = 0 => Entries(s) = {}
  BY <1>1, FS_EmptySet
<1>4. /\ Cardinality(Holders(s)) = 1 => \E x : Holders(s) = {x}
      /\ Cardinality(Entries(s)) = 1 => \E x : Entries(s) = {x}
  BY <1>1, FS_Singleton
<1>5. \A t \in Threads : held[t] = s => Holders(s) = {t} /\ Entries(s) = {}
  <2> SUFFICES ASSUME NEW t \in Threads, held[t] = s PROVE Holders(s) = {t} /\ Entries(s) = {}
    OBVIOUS
  <2>1. Cardinality(Holders(s)) = 1 /\ Cardinality(Entries(s)) = 0
    BY <1>1, <1>2
  <2>2. t \in Holders(s)
    BY DEF Holders
  <2>3. QED  BY <1>3, <1>4, <2>1, <2>2
<1>6. \A o \in Objects : registry[o] = s => Holders(s) = {} /\ Entries(s) = {o}
  <2> SUFFICES ASSUME NEW o \in Objects, registry[o] = s PROVE Holders(s) = {} /\ Entries(s) = {o}
    OBVIOUS
  <2>1. Cardinality(Holders(s)) = 0 /\ Cardinality(Entries(s)) = 1
    BY <1>1, <1>2
  <2>2. o \in Entries(s)
    BY DEF Entries
  <2>3. QED  BY <1>3, <1>4, <2>1, <2>2
<1>7. QED  BY <1>5, <1>6

\* A stub that is held or registered has a reference unless a peer released it.
LEMMA Referenced ==
  ASSUME TypeOK, CountsOK, NEW s \in Stubs,
         (\E t \in Threads : held[t] = s) \/ (\E o \in Objects : registry[o] = s)
  PROVE  strong[s] <= 0 => released[s] > 0
<1>1. released[s] \in Nat /\ strong[s] = Cardinality(Holders(s)) + Cardinality(Entries(s)) - released[s]
  BY DEF TypeOK, CountsOK
<1>2. QED  BY <1>1, CountsInt

\* The thread that holds stub s gives up its reference: if that was the last one, nobody
\* else refers to the stub or is about to delete it.
LEMMA DropKeeps ==
  ASSUME TypeOK, FreshOK, CountsOK, GoneOK, AbortExplained, NEW t \in Threads, NEW s \in Stubs,
         held[t] = s, held' = [held EXCEPT ![t] = "none"], DecStrong(t, s, "idle"),
         UNCHANGED <<registry, target, deleted, released, world>>
  PROVE  GoneOK' /\ AbortExplained'
<1>1. /\ t \in Actors /\ t \in Holders(s) /\ s # "none" /\ target[s] \in Objects
      /\ released[s] = 0 /\ target[s] \notin world.broken => ~Gone(s)
  BY ExportAssumption DEF Actors, Holders, FreshOK, GoneOK
<1>2. \A r \in Stubs : Entries(r)' = Entries(r) /\ Holders(r)' \subseteq Holders(r)
  BY ExportAssumption DEF TypeOK, Entries, Holders
<1>3. AbortExplained'
  <2>1. aborted' = (strong[s] <= 0) /\ (strong[s] <= 0 => released[s] > 0)
    BY Referenced DEF DecStrong
  <2>2. QED  BY <2>1 DEF AbortExplained
<1>4. CASE strong[s] # 1
  <2>1. dying' = dying
    BY <1>4 DEF DecStrong
  <2>2. QED  BY <1>2, <1>3, <2>1 DEF GoneOK, Gone
<1>5. CASE strong[s] = 1
  <2>1. \A a \in Actors : dying'[a] = IF a = t THEN s ELSE dying[a]
    BY <1>1, <1>5 DEF DecStrong, TypeOK
  <2>2. released[s] = 0 => Holders(s) = {t} /\ Entries(s) = {}
    BY <1>1, <1>5, LastReference
  <2>3. t \notin Holders(s)'
    BY <1>1 DEF TypeOK, Holders
  <2>4. SUFFICES ASSUME NEW r \in Stubs
                 PROVE  /\ Gone(r)' => target'[r] \in Objects
                        /\ released'[r] = 0 /\ target'[r] \notin world'.broken =>
                           /\ Gone(r)' => Holders(r)' = {} /\ Entries(r)' = {}
                           /\ \A a \in Actors : dying'[a] = r =>
                                 r \notin deleted' /\ \A b \in Actors : dying'[b] = r => b = a
    BY <1>3 DEF GoneOK
  <2>5. CASE r = s
    BY <1>1, <1>2, <2>1, <2>2, <2>3, <2>5 DEF Gone
  <2>6. CASE r # s
    <3>1. Gone(r)' => Gone(r)
      BY <2>1, <2>6 DEF Gone
    <3>2. QED  BY <1>2, <2>1, <2>6, <3>1 DEF GoneOK
  <2>7. QED  BY <2>5, <2>6
<1>6. QED  BY <1>4, <1>5

\* A call begins: it holds no stub yet, and if o is quiet no other call marshals it.
LEMMA MarshalInterfaceKeeps ==
  ASSUME IInv, NEW t \in Threads, NEW o \in Objects, MarshalInterface(t, o)
  PROVE  IInv'
<1>1. /\ TypeOK /\ PlaceOK /\ FreshOK /\ ChannelOK /\ CountsOK /\ HomeOK /\ GoneOK /\ AbortExplained
      /\ \A y \in Objects : Quiet(y) => QuietOK(y)
  BY DEF IInv
<1>2. TypeOK'
  BY <1>1, ExportAssumption
     DEF TypeOK, PlaceOK, FreshOK, Actors, Holding, Creating, Ending, MarshalInterface, Goto, peerVars,
         stubVars, channelVars
<1>3. PlaceOK'
  BY <1>1, ExportAssumption
     DEF TypeOK, PlaceOK, Actors, Holding, Creating, Ending, MarshalInterface, Goto, peerVars,
         stubVars, channelVars
<1>4. FreshOK'
  BY <1>1, ExportAssumption
     DEF TypeOK, PlaceOK, FreshOK, Actors, Holding, Creating, Ending, MarshalInterface, Goto, peerVars,
         stubVars, channelVars
<1>5. ChannelOK'
  BY <1>1, ExportAssumption
     DEF TypeOK, PlaceOK, ChannelOK, Actors, Holding, Creating, Ending, MarshalInterface, Goto,
         peerVars, stubVars, channelVars
<1>6. CountsOK'
  BY <1>1 DEF CountsOK, Holders, Entries, MarshalInterface, Goto, peerVars, stubVars, channelVars
<1>7. HomeOK'
  BY <1>1, ExportAssumption
     DEF HomeOK, TypeOK, PlaceOK, FreshOK, Actors, Holding, Creating, Ending, MarshalInterface, Goto,
         peerVars, stubVars, channelVars
<1>8. GoneOK'
  BY <1>1, ExportAssumption
     DEF GoneOK, Gone, Holders, Entries, TypeOK, PlaceOK, FreshOK, Actors, Holding, Creating, Ending,
         MarshalInterface, Goto, peerVars, stubVars, channelVars
<1>9. AbortExplained'
  BY <1>1, ExportAssumption
     DEF AbortExplained, TypeOK, PlaceOK, FreshOK, Actors, Holding, Creating, Ending, MarshalInterface,
         Goto, peerVars, stubVars, channelVars
<1>10. \A y \in Objects : (Quiet(y) => QuietOK(y))'
  <2> SUFFICES ASSUME NEW x \in Objects, Quiet(x)' PROVE QuietOK(x)'
    OBVIOUS
  <2>1. Quiet(x)
    BY <1>1, ExportAssumption
       DEF Quiet, TypeOK, PlaceOK, FreshOK, Actors, Holding, Creating, Ending, MarshalInterface, Goto,
           peerVars, stubVars, channelVars
  <2>2. QuietOK(x)
    BY <1>1, <2>1
  <2>3. QED  BY <1>1, <2>1, <2>2, ExportAssumption
                DEF HomeOK, Quiet, QuietOK, TypeOK, PlaceOK, FreshOK, Actors, Holding, Creating,
                    Ending, MarshalInterface, Goto, peerVars, stubVars, channelVars
<1>11. QED  BY <1>2, <1>3, <1>4, <1>5, <1>6, <1>7, <1>8, <1>9, <1>10 DEF IInv

\* A stub found in the registry gets one reference, the finder's.
LEMMA FindExportObjectKeeps ==
  ASSUME IInv, NEW t \in Threads, FindExportObject(t)
  PROVE  IInv'
<1>1. /\ TypeOK /\ PlaceOK /\ FreshOK /\ ChannelOK /\ CountsOK /\ HomeOK /\ GoneOK /\ AbortExplained
      /\ \A y \in Objects : Quiet(y) => QuietOK(y)
  BY DEF IInv
<1>2. TypeOK'
  <2>1. arg[t] \in Objects /\ pc[t] = "find"
    BY <1>1 DEF PlaceOK, FindExportObject
  <2>2. CASE registry[arg[t]] # "none"
    <3>1. PICK s \in Stubs : s = registry[arg[t]]
      BY <1>1, <2>1, <2>2 DEF TypeOK
    <3>2. /\ held' = [held EXCEPT ![t] = s] /\ strong' = [strong EXCEPT ![s] = @ + 1]
          /\ aborted' \in BOOLEAN /\ pc' = [pc EXCEPT ![t] = "pack"]
          /\ UNCHANGED <<peerVars, registry, lock, target, deleted, channelVars, arg, dying, packs, marshals>>
      BY <2>2, <3>1 DEF FindExportObject, Goto
    <3>3. QED  BY <1>1, <2>1, <3>1, <3>2, ExportAssumption
                  DEF TypeOK, PlaceOK, FreshOK, Actors, Holding, Creating, Ending, peerVars, channelVars
  <2>3. CASE registry[arg[t]] = "none"
    <3>1. /\ pc' = [pc EXCEPT ![t] = "create"] /\ UNCHANGED <<held, strong, aborted>>
          /\ UNCHANGED <<peerVars, registry, lock, target, deleted, channelVars, arg, dying, packs, marshals>>
      BY <2>3 DEF FindExportObject, Goto
    <3>2. QED  BY <1>1, <2>1, <3>1, ExportAssumption
                  DEF TypeOK, PlaceOK, FreshOK, Actors, Holding, Creating, Ending, peerVars, channelVars
  <2>4. QED  BY <2>2, <2>3
<1>3. PlaceOK'
  <2>1. arg[t] \in Objects /\ pc[t] = "find"
    BY <1>1 DEF PlaceOK, FindExportObject
  <2>2. CASE registry[arg[t]] # "none"
    <3>1. PICK s \in Stubs : s = registry[arg[t]]
      BY <1>1, <2>1, <2>2 DEF TypeOK
    <3>2. /\ held' = [held EXCEPT ![t] = s] /\ strong' = [strong EXCEPT ![s] = @ + 1]
          /\ aborted' \in BOOLEAN /\ pc' = [pc EXCEPT ![t] = "pack"]
          /\ UNCHANGED <<peerVars, registry, lock, target, deleted, channelVars, arg, dying, packs, marshals>>
      BY <2>2, <3>1 DEF FindExportObject, Goto
    <3>3. QED  BY <1>1, <2>1, <3>1, <3>2, ExportAssumption
                  DEF TypeOK, PlaceOK, FreshOK, Actors, Holding, Creating, Ending, peerVars, channelVars
  <2>3. CASE registry[arg[t]] = "none"
    <3>1. /\ pc' = [pc EXCEPT ![t] = "create"] /\ UNCHANGED <<held, strong, aborted>>
          /\ UNCHANGED <<peerVars, registry, lock, target, deleted, channelVars, arg, dying, packs, marshals>>
      BY <2>3 DEF FindExportObject, Goto
    <3>2. QED  BY <1>1, <2>1, <3>1, ExportAssumption
                  DEF TypeOK, PlaceOK, FreshOK, Actors, Holding, Creating, Ending, peerVars, channelVars
  <2>4. QED  BY <2>2, <2>3
<1>4. FreshOK'
  BY <1>1, ExportAssumption
     DEF TypeOK, PlaceOK, FreshOK, Actors, Holding, Creating, Ending, FindExportObject, Goto, peerVars,
         channelVars
<1>5. ChannelOK'
  BY <1>1, ExportAssumption
     DEF TypeOK, PlaceOK, ChannelOK, Actors, Holding, Creating, Ending, FindExportObject, Goto,
         peerVars, channelVars
<1>6. CountsOK'
  <2>1. CASE registry[arg[t]] # "none"
    <3>1. PICK s \in Stubs :
          /\ s = registry[arg[t]] /\ held[t] = "none" /\ held' = [held EXCEPT ![t] = s]
          /\ strong' = [strong EXCEPT ![s] = @ + 1] /\ UNCHANGED <<registry, released>>
      BY <1>1, <2>1
         DEF TypeOK, PlaceOK, Holding, Creating, Ending, FindExportObject, Goto, peerVars, channelVars
    <3>2. /\ IsFiniteSet(Holders(s)') /\ Cardinality(Holders(s)') = Cardinality(Holders(s)) + 1
          /\ \A r \in Stubs \ {s} : Holders(r)' = Holders(r)
      BY <1>1, <3>1, TakeCounts
    <3>3. \A r \in Stubs : Entries(r)' = Entries(r)
      BY <3>1 DEF Entries
    <3>4. strong'[s] = strong[s] + 1 /\ \A r \in Stubs \ {s} : strong'[r] = strong[r]
      BY <1>1, <3>1 DEF TypeOK
    <3>5. \A r \in Stubs : Cardinality(Holders(r)) \in Nat /\ Cardinality(Entries(r)) \in Nat
      BY <1>1, CountsInt
    <3>6. QED  BY <1>1, <3>1, <3>2, <3>3, <3>4, <3>5 DEF CountsOK, TypeOK
  <2>2. CASE registry[arg[t]] = "none"
    BY <1>1, <2>2 DEF CountsOK, Holders, Entries, FindExportObject, Goto, peerVars, channelVars
  <2>3. QED  BY <2>1, <2>2
<1>7. HomeOK'
  BY <1>1, ExportAssumption
     DEF HomeOK, TypeOK, PlaceOK, FreshOK, Actors, Holding, Creating, Ending, FindExportObject, Goto,
         peerVars, channelVars
<1>8. GoneOK'
  <2>1. /\ arg[t] \in Objects /\ pc[t] = "find" /\ held[t] = "none"
        /\ UNCHANGED <<world, registry, target, deleted, dying, released>>
    BY <1>1 DEF PlaceOK, FindExportObject, peerVars
  <2>2. CASE registry[arg[t]] # "none"
    <3>1. PICK n \in Stubs : n = registry[arg[t]] /\ held' = [held EXCEPT ![t] = n]
      BY <1>1, <2>1, <2>2 DEF TypeOK, FindExportObject
    <3>2. n # "none" /\ arg[t] \in Entries(n)
      BY <2>1, <3>1, ExportAssumption DEF Entries
    <3>3. \A s \in Stubs : Entries(s)' = Entries(s) /\ (s # n => Holders(s)' = Holders(s))
      BY <1>1, <2>1, <3>1, ExportAssumption DEF TypeOK, Entries, Holders
    <3>4. QED  BY <1>1, <2>1, <3>2, <3>3 DEF GoneOK, Gone
  <2>3. CASE registry[arg[t]] = "none"
    <3>1. held' = held
      BY <2>3 DEF FindExportObject
    <3>2. QED  BY <1>1, <2>1, <3>1 DEF GoneOK, Gone, Holders, Entries
  <2>4. QED  BY <2>2, <2>3
<1>9. AbortExplained'
  <2>1. arg[t] \in Objects /\ UNCHANGED <<world, target, released>>
    BY <1>1 DEF PlaceOK, FindExportObject, peerVars
  <2>2. CASE registry[arg[t]] # "none"
    <3>1. PICK s \in Stubs : s = registry[arg[t]]
      BY <1>1, <2>1, <2>2 DEF TypeOK
    <3>2. aborted' => strong[s] = 0
      BY <2>2, <3>1, Zenon DEF FindExportObject
    <3>3. strong[s] <= 0 => released[s] > 0
      BY <1>1, <2>1, <3>1, Referenced
    <3>4. QED  BY <1>1, <2>1, <3>2, <3>3 DEF AbortExplained
  <2>3. CASE registry[arg[t]] = "none"
    BY <1>1, <2>1, <2>3 DEF AbortExplained, FindExportObject
  <2>4. QED  BY <2>2, <2>3
<1>10. \A y \in Objects : (Quiet(y) => QuietOK(y))'
  <2> SUFFICES ASSUME NEW x \in Objects, Quiet(x)' PROVE QuietOK(x)'
    OBVIOUS
  <2>1. Quiet(x)
    BY <1>1, ExportAssumption
       DEF Quiet, TypeOK, PlaceOK, FreshOK, Actors, Holding, Creating, Ending, FindExportObject, Goto,
           peerVars, channelVars
  <2>2. QuietOK(x)
    BY <1>1, <2>1
  <2>3. QED  BY <1>1, <2>1, <2>2, ExportAssumption
                DEF HomeOK, Quiet, QuietOK, TypeOK, PlaceOK, FreshOK, Actors, Holding, Creating,
                    Ending, FindExportObject, Goto, peerVars, channelVars
<1>11. QED  BY <1>2, <1>3, <1>4, <1>5, <1>6, <1>7, <1>8, <1>9, <1>10 DEF IInv

\* A proxy is packed without a stub.
LEMMA MarshalProxyKeeps ==
  ASSUME IInv, NEW t \in Threads, MarshalProxy(t)
  PROVE  IInv'
<1>1. /\ TypeOK /\ PlaceOK /\ FreshOK /\ ChannelOK /\ CountsOK /\ HomeOK /\ GoneOK /\ AbortExplained
      /\ \A y \in Objects : Quiet(y) => QuietOK(y)
  BY DEF IInv
<1>2. TypeOK'
  BY <1>1, ExportAssumption
     DEF TypeOK, PlaceOK, FreshOK, Actors, Holding, Creating, Ending, MarshalProxy, Goto, peerVars,
         stubVars, channelVars
<1>3. PlaceOK'
  BY <1>1, ExportAssumption
     DEF TypeOK, PlaceOK, Actors, Holding, Creating, Ending, MarshalProxy, Goto, peerVars, stubVars,
         channelVars
<1>4. FreshOK'
  BY <1>1, ExportAssumption
     DEF TypeOK, PlaceOK, FreshOK, Actors, Holding, Creating, Ending, MarshalProxy, Goto, peerVars,
         stubVars, channelVars
<1>5. ChannelOK'
  BY <1>1, ExportAssumption
     DEF TypeOK, PlaceOK, ChannelOK, Actors, Holding, Creating, Ending, MarshalProxy, Goto, peerVars,
         stubVars, channelVars
<1>6. CountsOK'
  BY <1>1 DEF CountsOK, Holders, Entries, MarshalProxy, Goto, peerVars, stubVars, channelVars
<1>7. HomeOK'
  BY <1>1, ExportAssumption
     DEF HomeOK, TypeOK, PlaceOK, FreshOK, Actors, Holding, Creating, Ending, MarshalProxy, Goto,
         peerVars, stubVars, channelVars
<1>8. GoneOK'
  BY <1>1, ExportAssumption
     DEF GoneOK, Gone, Holders, Entries, TypeOK, PlaceOK, FreshOK, Actors, Holding, Creating, Ending,
         MarshalProxy, Goto, peerVars, stubVars, channelVars
<1>9. AbortExplained'
  BY <1>1, ExportAssumption
     DEF AbortExplained, TypeOK, PlaceOK, FreshOK, Actors, Holding, Creating, Ending, MarshalProxy,
         Goto, peerVars, stubVars, channelVars
<1>10. \A y \in Objects : (Quiet(y) => QuietOK(y))'
  <2> SUFFICES ASSUME NEW x \in Objects, Quiet(x)' PROVE QuietOK(x)'
    OBVIOUS
  <2>1. Quiet(x)
    BY <1>1, ExportAssumption
       DEF Quiet, TypeOK, PlaceOK, FreshOK, Actors, Holding, Creating, Ending, MarshalProxy, Goto,
           peerVars, stubVars, channelVars
  <2>2. QuietOK(x)
    BY <1>1, <2>1
  <2>3. QED  BY <1>1, <2>1, <2>2, ExportAssumption
                DEF HomeOK, Quiet, QuietOK, TypeOK, PlaceOK, FreshOK, Actors, Holding, Creating,
                    Ending, MarshalProxy, Goto, peerVars, stubVars, channelVars
<1>11. QED  BY <1>2, <1>3, <1>4, <1>5, <1>6, <1>7, <1>8, <1>9, <1>10 DEF IInv

\* No stub is made for an object that is not an IObject or has no coclass.
LEMMA CreateFailsKeeps ==
  ASSUME IInv, NEW t \in Threads, CreateFails(t)
  PROVE  IInv'
<1>1. /\ TypeOK /\ PlaceOK /\ FreshOK /\ ChannelOK /\ CountsOK /\ HomeOK /\ GoneOK /\ AbortExplained
      /\ \A y \in Objects : Quiet(y) => QuietOK(y)
  BY DEF IInv
<1>2. TypeOK'
  BY <1>1, ExportAssumption
     DEF TypeOK, PlaceOK, FreshOK, Actors, Holding, Creating, Ending, CreateFails, Goto, peerVars,
         stubVars, channelVars
<1>3. PlaceOK'
  BY <1>1, ExportAssumption
     DEF TypeOK, PlaceOK, Actors, Holding, Creating, Ending, CreateFails, Goto, peerVars, stubVars,
         channelVars
<1>4. FreshOK'
  BY <1>1, ExportAssumption
     DEF TypeOK, PlaceOK, FreshOK, Actors, Holding, Creating, Ending, CreateFails, Goto, peerVars,
         stubVars, channelVars
<1>5. ChannelOK'
  BY <1>1, ExportAssumption
     DEF TypeOK, PlaceOK, ChannelOK, Actors, Holding, Creating, Ending, CreateFails, Goto, peerVars,
         stubVars, channelVars
<1>6. CountsOK'
  BY <1>1 DEF CountsOK, Holders, Entries, CreateFails, Goto, peerVars, stubVars, channelVars
<1>7. HomeOK'
  BY <1>1, ExportAssumption
     DEF HomeOK, TypeOK, PlaceOK, FreshOK, Actors, Holding, Creating, Ending, CreateFails, Goto,
         peerVars, stubVars, channelVars
<1>8. GoneOK'
  BY <1>1, ExportAssumption
     DEF GoneOK, Gone, Holders, Entries, TypeOK, PlaceOK, FreshOK, Actors, Holding, Creating, Ending,
         CreateFails, Goto, peerVars, stubVars, channelVars
<1>9. AbortExplained'
  BY <1>1, ExportAssumption
     DEF AbortExplained, TypeOK, PlaceOK, FreshOK, Actors, Holding, Creating, Ending, CreateFails,
         Goto, peerVars, stubVars, channelVars
<1>10. \A y \in Objects : (Quiet(y) => QuietOK(y))'
  <2> SUFFICES ASSUME NEW x \in Objects, Quiet(x)' PROVE QuietOK(x)'
    OBVIOUS
  <2>1. Quiet(x)
    BY <1>1, ExportAssumption
       DEF Quiet, TypeOK, PlaceOK, FreshOK, Actors, Holding, Creating, Ending, CreateFails, Goto,
           peerVars, stubVars, channelVars
  <2>2. QuietOK(x)
    BY <1>1, <2>1
  <2>3. QED  BY <1>1, <2>1, <2>2, ExportAssumption
                DEF HomeOK, Quiet, QuietOK, TypeOK, PlaceOK, FreshOK, Actors, Holding, Creating,
                    Ending, CreateFails, Goto, peerVars, stubVars, channelVars
<1>11. QED  BY <1>2, <1>3, <1>4, <1>5, <1>6, <1>7, <1>8, <1>9, <1>10 DEF IInv

\* A new stub has one reference, its creator's; nothing referred to it before.
LEMMA CreateObjectKeeps ==
  ASSUME IInv, NEW t \in Threads, CreateObject(t)
  PROVE  IInv'
<1>1. /\ TypeOK /\ PlaceOK /\ FreshOK /\ ChannelOK /\ CountsOK /\ HomeOK /\ GoneOK /\ AbortExplained
      /\ \A y \in Objects : Quiet(y) => QuietOK(y)
  BY DEF IInv
<1>2. TypeOK'
  BY <1>1, ExportAssumption
     DEF TypeOK, PlaceOK, FreshOK, Actors, Holding, Creating, Ending, CreateObject, Goto, peerVars,
         channelVars
<1>3. PlaceOK'
  BY <1>1, ExportAssumption
     DEF TypeOK, PlaceOK, Actors, Holding, Creating, Ending, CreateObject, Goto, peerVars, channelVars
<1>4. FreshOK'
  BY <1>1, ExportAssumption
     DEF TypeOK, PlaceOK, FreshOK, Actors, Holding, Creating, Ending, CreateObject, Goto, peerVars,
         channelVars
<1>5. ChannelOK'
  BY <1>1, ExportAssumption
     DEF TypeOK, PlaceOK, ChannelOK, Actors, Holding, Creating, Ending, CreateObject, Goto, peerVars,
         channelVars
<1>6. CountsOK'
  <2>1. PICK s \in Stubs : /\ target[s] = "none" /\ strong' = [strong EXCEPT ![s] = 1]
                           /\ held' = [held EXCEPT ![t] = s]
    BY DEF CreateObject
  <2>2. held[t] = "none" /\ UNCHANGED <<registry, released>>
    BY <1>1 DEF PlaceOK, CreateObject, peerVars
  <2>3. /\ IsFiniteSet(Holders(s)') /\ Cardinality(Holders(s)') = Cardinality(Holders(s)) + 1
        /\ \A r \in Stubs \ {s} : Holders(r)' = Holders(r)
    BY <1>1, <2>1, <2>2, TakeCounts
  <2>4. \A r \in Stubs : Entries(r)' = Entries(r)
    BY <2>2 DEF Entries
  <2>5. Holders(s) = {} /\ Entries(s) = {} /\ released[s] = 0
    BY <1>1, <2>1, ExportAssumption DEF TypeOK, FreshOK, Holders, Entries
  <2>6. Cardinality(Holders(s)) = 0 /\ Cardinality(Entries(s)) = 0
    BY <2>5, FS_EmptySet
  <2>7. strong'[s] = 1 /\ \A r \in Stubs : r # s => strong'[r] = strong[r]
    BY <1>1, <2>1 DEF TypeOK
  <2>8. IsFiniteSet(Entries(s)') /\ strong'[s] = Cardinality(Holders(s)') + Cardinality(Entries(s)') - released'[s]
    BY <1>1, <2>2, <2>3, <2>4, <2>5, <2>6, <2>7 DEF CountsOK
  <2>9. \A r \in Stubs : r # s => /\ IsFiniteSet(Holders(r)') /\ IsFiniteSet(Entries(r)')
                                  /\ strong'[r] = Cardinality(Holders(r)') + Cardinality(Entries(r)') - released'[r]
    BY <1>1, <2>2, <2>3, <2>4, <2>7 DEF CountsOK
  <2>10. QED  BY <2>3, <2>8, <2>9 DEF CountsOK
<1>7. HomeOK'
  BY <1>1, ExportAssumption
     DEF HomeOK, TypeOK, PlaceOK, FreshOK, Actors, Holding, Creating, Ending, CreateObject, Goto,
         peerVars, channelVars
<1>8. GoneOK'
  BY <1>1, ExportAssumption
     DEF GoneOK, Gone, Holders, Entries, TypeOK, PlaceOK, FreshOK, Actors, Holding, Creating, Ending,
         CreateObject, Goto, peerVars, channelVars
<1>9. AbortExplained'
  BY <1>1, ExportAssumption
     DEF AbortExplained, TypeOK, PlaceOK, FreshOK, Actors, Holding, Creating, Ending, CreateObject,
         Goto, peerVars, channelVars
<1>10. \A y \in Objects : (Quiet(y) => QuietOK(y))'
  <2> SUFFICES ASSUME NEW x \in Objects, Quiet(x)' PROVE QuietOK(x)'
    OBVIOUS
  <2>1. Quiet(x)
    BY <1>1, ExportAssumption
       DEF Quiet, TypeOK, PlaceOK, FreshOK, Actors, Holding, Creating, Ending, CreateObject, Goto,
           peerVars, channelVars
  <2>2. QuietOK(x)
    BY <1>1, <2>1
  <2>3. PICK s \in Stubs :
        /\ target[s] = "none" /\ target' = [target EXCEPT ![s] = arg[t]]
        /\ held' = [held EXCEPT ![t] = s] /\ arg[t] \in Objects /\ pc[t] = "create"
        /\ IF arg[t] \in world.broken
           THEN deleted' = deleted \cup {s} /\ pc' = [pc EXCEPT ![t] = "abandon"]
           ELSE deleted' = deleted /\ pc' = [pc EXCEPT ![t] = "listen"]
        /\ UNCHANGED <<arg, dying, packs, registry, world>>
    BY <1>1 DEF PlaceOK, CreateObject, Goto, peerVars
  <2>4. arg[t] \in world.broken => arg[t] # x
    BY <2>1 DEF Quiet
  <2>5. \A r \in Stubs : target'[r] = x => r \notin deleted' /\ \A a \in Actors : dying'[a] # r
    <3> SUFFICES ASSUME NEW r \in Stubs, target'[r] = x
                 PROVE  r \notin deleted' /\ \A a \in Actors : dying'[a] # r
      OBVIOUS
    <3>1. CASE r = s
      <4>1. arg[t] = x /\ deleted' = deleted
        BY <1>1, <2>3, <2>4, <3>1 DEF TypeOK
      <4>2. ~Gone(s)
        BY <1>1, <2>3, ExportAssumption DEF GoneOK
      <4>3. QED  BY <2>3, <3>1, <4>1, <4>2 DEF Gone
    <3>2. CASE r # s
      BY <1>1, <2>2, <2>3, <3>2 DEF TypeOK, QuietOK
    <3>3. QED  BY <3>1, <3>2
  <2>6. \A u, v \in Threads :
           pc'[u] # "idle" /\ pc'[v] # "idle" /\ arg'[u] = x /\ arg'[v] = x => u = v
    BY <1>1, <2>2, <2>3 DEF TypeOK, QuietOK, Actors
  <2>7. \A u \in Threads : arg'[u] = x =>
           /\ pc'[u] \in {"create"} \cup Creating => registry'[x] = "none"
           /\ pc'[u] \in {"pack", "release"} => registry'[x] = held'[u]
    BY <1>1, <2>2, <2>3 DEF TypeOK, QuietOK, Actors, Creating
  <2>8. \A p \in packs' : p[1] = x =>
           \/ registry'[x] = p[2]
           \/ \E u \in Threads : pc'[u] = "register" /\ arg'[u] = x /\ held'[u] = p[2]
    BY <1>1, <2>2, <2>3 DEF TypeOK, QuietOK, Actors, Creating
  <2>9. QED  BY <2>5, <2>6, <2>7, <2>8 DEF QuietOK
<1>11. QED  BY <1>2, <1>3, <1>4, <1>5, <1>6, <1>7, <1>8, <1>9, <1>10 DEF IInv

\* The service thread starts; no channel has been reported as listening yet.
LEMMA RunTaskKeeps ==
  ASSUME IInv, NEW t \in Threads, RunTask(t)
  PROVE  IInv'
<1>1. /\ TypeOK /\ PlaceOK /\ FreshOK /\ ChannelOK /\ CountsOK /\ HomeOK /\ GoneOK /\ AbortExplained
      /\ \A y \in Objects : Quiet(y) => QuietOK(y)
  BY DEF IInv
<1>2. TypeOK'
  BY <1>1, ExportAssumption
     DEF TypeOK, PlaceOK, FreshOK, Actors, Holding, Creating, Ending, RunTask, Goto, peerVars, stubVars
<1>3. PlaceOK'
  BY <1>1, ExportAssumption
     DEF TypeOK, PlaceOK, Actors, Holding, Creating, Ending, RunTask, Goto, peerVars, stubVars
<1>4. FreshOK'
  BY <1>1, ExportAssumption
     DEF TypeOK, PlaceOK, FreshOK, Actors, Holding, Creating, Ending, RunTask, Goto, peerVars, stubVars
<1>5. ChannelOK'
  BY <1>1, ExportAssumption
     DEF TypeOK, PlaceOK, ChannelOK, Actors, Holding, Creating, Ending, RunTask, Goto, peerVars,
         stubVars
<1>6. CountsOK'
  BY <1>1 DEF CountsOK, Holders, Entries, RunTask, Goto, peerVars, stubVars
<1>7. HomeOK'
  BY <1>1, ExportAssumption
     DEF HomeOK, TypeOK, PlaceOK, FreshOK, Actors, Holding, Creating, Ending, RunTask, Goto, peerVars,
         stubVars
<1>8. GoneOK'
  BY <1>1, ExportAssumption
     DEF GoneOK, Gone, Holders, Entries, TypeOK, PlaceOK, FreshOK, Actors, Holding, Creating, Ending,
         RunTask, Goto, peerVars, stubVars
<1>9. AbortExplained'
  BY <1>1, ExportAssumption
     DEF AbortExplained, TypeOK, PlaceOK, FreshOK, Actors, Holding, Creating, Ending, RunTask, Goto,
         peerVars, stubVars
<1>10. \A y \in Objects : (Quiet(y) => QuietOK(y))'
  <2> SUFFICES ASSUME NEW x \in Objects, Quiet(x)' PROVE QuietOK(x)'
    OBVIOUS
  <2>1. Quiet(x)
    BY <1>1, ExportAssumption
       DEF Quiet, TypeOK, PlaceOK, FreshOK, Actors, Holding, Creating, Ending, RunTask, Goto, peerVars,
           stubVars
  <2>2. QuietOK(x)
    BY <1>1, <2>1
  <2>3. QED  BY <1>1, <2>1, <2>2, ExportAssumption
                DEF HomeOK, Quiet, QuietOK, TypeOK, PlaceOK, FreshOK, Actors, Holding, Creating,
                    Ending, RunTask, Goto, peerVars, stubVars
<1>11. QED  BY <1>2, <1>3, <1>4, <1>5, <1>6, <1>7, <1>8, <1>9, <1>10 DEF IInv

\* The wait ends only when the channel listens.
LEMMA StartListeningKeeps ==
  ASSUME IInv, NEW t \in Threads, StartListening(t)
  PROVE  IInv'
<1>1. /\ TypeOK /\ PlaceOK /\ FreshOK /\ ChannelOK /\ CountsOK /\ HomeOK /\ GoneOK /\ AbortExplained
      /\ \A y \in Objects : Quiet(y) => QuietOK(y)
  BY DEF IInv
<1>2. TypeOK'
  BY <1>1, ExportAssumption
     DEF TypeOK, PlaceOK, FreshOK, Actors, Holding, Creating, Ending, StartListening, Goto, peerVars,
         stubVars, channelVars
<1>3. PlaceOK'
  BY <1>1, ExportAssumption
     DEF TypeOK, PlaceOK, Actors, Holding, Creating, Ending, StartListening, Goto, peerVars, stubVars,
         channelVars
<1>4. FreshOK'
  BY <1>1, ExportAssumption
     DEF TypeOK, PlaceOK, FreshOK, Actors, Holding, Creating, Ending, StartListening, Goto, peerVars,
         stubVars, channelVars
<1>5. ChannelOK'
  BY <1>1, ExportAssumption
     DEF TypeOK, PlaceOK, ChannelOK, Actors, Holding, Creating, Ending, StartListening, Goto, peerVars,
         stubVars, channelVars
<1>6. CountsOK'
  BY <1>1 DEF CountsOK, Holders, Entries, StartListening, Goto, peerVars, stubVars, channelVars
<1>7. HomeOK'
  BY <1>1, ExportAssumption
     DEF HomeOK, TypeOK, PlaceOK, FreshOK, Actors, Holding, Creating, Ending, StartListening, Goto,
         peerVars, stubVars, channelVars
<1>8. GoneOK'
  BY <1>1, ExportAssumption
     DEF GoneOK, Gone, Holders, Entries, TypeOK, PlaceOK, FreshOK, Actors, Holding, Creating, Ending,
         StartListening, Goto, peerVars, stubVars, channelVars
<1>9. AbortExplained'
  BY <1>1, ExportAssumption
     DEF AbortExplained, TypeOK, PlaceOK, FreshOK, Actors, Holding, Creating, Ending, StartListening,
         Goto, peerVars, stubVars, channelVars
<1>10. \A y \in Objects : (Quiet(y) => QuietOK(y))'
  <2> SUFFICES ASSUME NEW x \in Objects, Quiet(x)' PROVE QuietOK(x)'
    OBVIOUS
  <2>1. Quiet(x)
    BY <1>1, ExportAssumption
       DEF Quiet, TypeOK, PlaceOK, FreshOK, Actors, Holding, Creating, Ending, StartListening, Goto,
           peerVars, stubVars, channelVars
  <2>2. QuietOK(x)
    BY <1>1, <2>1
  <2>3. QED  BY <1>1, <2>1, <2>2, ExportAssumption
                DEF HomeOK, Quiet, QuietOK, TypeOK, PlaceOK, FreshOK, Actors, Holding, Creating,
                    Ending, StartListening, Goto, peerVars, stubVars, channelVars
<1>11. QED  BY <1>2, <1>3, <1>4, <1>5, <1>6, <1>7, <1>8, <1>9, <1>10 DEF IInv

\* What is packed listens; for a quiet object it is registered or about to be.
LEMMA SetPackKeeps ==
  ASSUME IInv, NEW t \in Threads, SetPack(t)
  PROVE  IInv'
<1>1. /\ TypeOK /\ PlaceOK /\ FreshOK /\ ChannelOK /\ CountsOK /\ HomeOK /\ GoneOK /\ AbortExplained
      /\ \A y \in Objects : Quiet(y) => QuietOK(y)
  BY DEF IInv
<1>2. TypeOK'
  BY <1>1, ExportAssumption
     DEF TypeOK, PlaceOK, FreshOK, Actors, Holding, Creating, Ending, SetPack, Goto, peerVars,
         stubVars, channelVars
<1>3. PlaceOK'
  BY <1>1, ExportAssumption
     DEF TypeOK, PlaceOK, Actors, Holding, Creating, Ending, SetPack, Goto, peerVars, stubVars,
         channelVars
<1>4. FreshOK'
  BY <1>1, ExportAssumption
     DEF TypeOK, PlaceOK, FreshOK, Actors, Holding, Creating, Ending, SetPack, Goto, peerVars,
         stubVars, channelVars
<1>5. ChannelOK'
  BY <1>1, ExportAssumption
     DEF TypeOK, PlaceOK, ChannelOK, Actors, Holding, Creating, Ending, SetPack, Goto, peerVars,
         stubVars, channelVars
<1>6. CountsOK'
  BY <1>1 DEF CountsOK, Holders, Entries, SetPack, Goto, peerVars, stubVars, channelVars
<1>7. HomeOK'
  BY <1>1, ExportAssumption
     DEF HomeOK, TypeOK, PlaceOK, FreshOK, Actors, Holding, Creating, Ending, SetPack, Goto, peerVars,
         stubVars, channelVars
<1>8. GoneOK'
  BY <1>1, ExportAssumption
     DEF GoneOK, Gone, Holders, Entries, TypeOK, PlaceOK, FreshOK, Actors, Holding, Creating, Ending,
         SetPack, Goto, peerVars, stubVars, channelVars
<1>9. AbortExplained'
  BY <1>1, ExportAssumption
     DEF AbortExplained, TypeOK, PlaceOK, FreshOK, Actors, Holding, Creating, Ending, SetPack, Goto,
         peerVars, stubVars, channelVars
<1>10. \A y \in Objects : (Quiet(y) => QuietOK(y))'
  <2> SUFFICES ASSUME NEW x \in Objects, Quiet(x)' PROVE QuietOK(x)'
    OBVIOUS
  <2>1. Quiet(x)
    BY <1>1, ExportAssumption
       DEF Quiet, TypeOK, PlaceOK, FreshOK, Actors, Holding, Creating, Ending, SetPack, Goto, peerVars,
           stubVars, channelVars
  <2>2. QuietOK(x)
    BY <1>1, <2>1
  <2>3. QED  BY <1>1, <2>1, <2>2, ExportAssumption
                DEF HomeOK, Quiet, QuietOK, TypeOK, PlaceOK, FreshOK, Actors, Holding, Creating,
                    Ending, SetPack, Goto, peerVars, stubVars, channelVars
<1>11. QED  BY <1>2, <1>3, <1>4, <1>5, <1>6, <1>7, <1>8, <1>9, <1>10 DEF IInv

\* Put moves the entry's reference from the stub it replaces to the new one.
LEMMA RegisterExportObjectKeeps ==
  ASSUME IInv, NEW t \in Threads, RegisterExportObject(t)
  PROVE  IInv'
<1>1. /\ TypeOK /\ PlaceOK /\ FreshOK /\ ChannelOK /\ CountsOK /\ HomeOK /\ GoneOK /\ AbortExplained
      /\ \A y \in Objects : Quiet(y) => QuietOK(y)
  BY DEF IInv
<1>2. TypeOK'
  <2>1. arg[t] \in Objects /\ held[t] \in Stubs
    BY <1>1 DEF PlaceOK, Holding, Creating, RegisterExportObject
  <2>2. \A s \in Stubs : strong[s] + (IF s = held[t] THEN 1 ELSE 0) - (IF s = registry[arg[t]] THEN 1 ELSE 0) \in Int
    BY <1>1 DEF TypeOK
  <2>3. /\ strong' \in [Stubs -> Int] /\ registry' = [registry EXCEPT ![arg[t]] = held[t]]
        /\ UNCHANGED <<peerVars, target, deleted, channelVars, arg, held, packs, aborted, marshals>>
    BY <2>2 DEF RegisterExportObject
  <2>4. CASE registry[arg[t]] # "none" /\ strong[registry[arg[t]]] = 1
    <3>1. PICK s \in Stubs : s = registry[arg[t]]
      BY <1>1, <2>1, <2>4 DEF TypeOK
    <3>2. lock' = t /\ dying' = [dying EXCEPT ![t] = s] /\ pc' = [pc EXCEPT ![t] = "blocked"]
      BY <2>4, <3>1 DEF RegisterExportObject, Goto
    <3>3. QED  BY <1>1, <2>1, <2>3, <3>1, <3>2, ExportAssumption
                  DEF TypeOK, PlaceOK, FreshOK, Actors, Holding, Creating, Ending, peerVars, channelVars
  <2>5. CASE ~(registry[arg[t]] # "none" /\ strong[registry[arg[t]]] = 1)
    <3>1. pc' = [pc EXCEPT ![t] = "release"] /\ UNCHANGED <<lock, dying>> /\ pc[t] = "register"
      BY <2>5 DEF RegisterExportObject, Goto
    <3>2. QED  BY <1>1, <2>1, <2>3, <3>1, ExportAssumption
                  DEF TypeOK, PlaceOK, FreshOK, Actors, Holding, Creating, Ending, peerVars, channelVars
  <2>6. QED  BY <2>4, <2>5
<1>3. PlaceOK'
  <2>1. arg[t] \in Objects /\ held[t] \in Stubs
    BY <1>1 DEF PlaceOK, Holding, Creating, RegisterExportObject
  <2>2. \A s \in Stubs : strong[s] + (IF s = held[t] THEN 1 ELSE 0) - (IF s = registry[arg[t]] THEN 1 ELSE 0) \in Int
    BY <1>1 DEF TypeOK
  <2>3. /\ strong' \in [Stubs -> Int] /\ registry' = [registry EXCEPT ![arg[t]] = held[t]]
        /\ UNCHANGED <<peerVars, target, deleted, channelVars, arg, held, packs, aborted, marshals>>
    BY <2>2 DEF RegisterExportObject
  <2>4. CASE registry[arg[t]] # "none" /\ strong[registry[arg[t]]] = 1
    <3>1. PICK s \in Stubs : s = registry[arg[t]]
      BY <1>1, <2>1, <2>4 DEF TypeOK
    <3>2. lock' = t /\ dying' = [dying EXCEPT ![t] = s] /\ pc' = [pc EXCEPT ![t] = "blocked"]
      BY <2>4, <3>1 DEF RegisterExportObject, Goto
    <3>3. QED  BY <1>1, <2>1, <2>3, <3>1, <3>2, ExportAssumption
                  DEF TypeOK, PlaceOK, FreshOK, Actors, Holding, Creating, Ending, peerVars, channelVars
  <2>5. CASE ~(registry[arg[t]] # "none" /\ strong[registry[arg[t]]] = 1)
    <3>1. pc' = [pc EXCEPT ![t] = "release"] /\ UNCHANGED <<lock, dying>> /\ pc[t] = "register"
      BY <2>5 DEF RegisterExportObject, Goto
    <3>2. QED  BY <1>1, <2>1, <2>3, <3>1, ExportAssumption
                  DEF TypeOK, PlaceOK, FreshOK, Actors, Holding, Creating, Ending, peerVars, channelVars
  <2>6. QED  BY <2>4, <2>5
<1>4. FreshOK'
  BY <1>1, ExportAssumption
     DEF TypeOK, PlaceOK, FreshOK, Actors, Holding, Creating, Ending, RegisterExportObject, Goto,
         peerVars, channelVars
<1>5. ChannelOK'
  BY <1>1, ExportAssumption
     DEF TypeOK, PlaceOK, ChannelOK, Actors, Holding, Creating, Ending, RegisterExportObject, Goto,
         peerVars, channelVars
<1>6. CountsOK'
  <2>1. PICK o \in Objects, n \in Stubs, old \in Stubs \cup {"none"} :
        o = arg[t] /\ n = held[t] /\ old = registry[o] /\ n # "none"
    BY <1>1, ExportAssumption DEF TypeOK, PlaceOK, Holding, Creating, RegisterExportObject
  <2>2. /\ strong' = [s \in Stubs |-> strong[s] + (IF s = n THEN 1 ELSE 0) - (IF s = old THEN 1 ELSE 0)]
        /\ registry' = [registry EXCEPT ![o] = n] /\ UNCHANGED <<held, released>>
    BY <2>1 DEF RegisterExportObject, peerVars
  <2>3. \A s \in Stubs : Holders(s)' = Holders(s)
    BY <2>1, <2>2 DEF Holders
  <2>4. \A s \in Stubs : s # n /\ s # old => Entries(s)' = Entries(s)
    BY <1>1, <2>1, <2>2, SameEntries
  <2>5. CASE old = n
    <3>1. \A x \in Objects : registry'[x] = registry[x]
      BY <1>1, <2>1, <2>2, <2>5 DEF TypeOK
    <3>2. \A s \in Stubs : strong'[s] = strong[s]
      BY <1>1, <2>1, <2>2, <2>5 DEF TypeOK
    <3>3. \A s \in Stubs : Entries(s)' = Entries(s)
      BY <3>1 DEF Entries
    <3>4. QED  BY <1>1, <2>1, <2>2, <2>3, <3>2, <3>3 DEF CountsOK
  <2>6. CASE old # n
    <3>1. IsFiniteSet(Entries(n)') /\ Cardinality(Entries(n)') = Cardinality(Entries(n)) + 1
      BY <1>1, <2>1, <2>2, <2>6, PutCounts
    <3>2. old \in Stubs => IsFiniteSet(Entries(old)') /\ Cardinality(Entries(old)') = Cardinality(Entries(old)) - 1
      BY <1>1, <2>1, <2>2, <2>6, RemoveCounts
    <3>3. /\ strong'[n] = strong[n] + 1
          /\ old \in Stubs => strong'[old] = strong[old] - 1
          /\ \A s \in Stubs : s # n /\ s # old => strong'[s] = strong[s]
      BY <1>1, <2>1, <2>2, <2>6 DEF TypeOK
    <3>4. SUFFICES ASSUME NEW s \in Stubs
                   PROVE  /\ IsFiniteSet(Holders(s)') /\ IsFiniteSet(Entries(s)')
                          /\ strong'[s] = Cardinality(Holders(s)') + Cardinality(Entries(s)') - released'[s]
      BY DEF CountsOK
    <3>5. /\ Cardinality(Holders(s)) \in Nat /\ Cardinality(Entries(s)) \in Nat
          /\ released[s] \in Nat /\ released'[s] = released[s]
          /\ IsFiniteSet(Holders(s)) /\ IsFiniteSet(Entries(s))
          /\ strong[s] = Cardinality(Holders(s)) + Cardinality(Entries(s)) - released[s]
      BY <1>1, <2>1, <2>2, CountsInt DEF CountsOK, TypeOK
    <3>6. CASE s = n
      BY <2>3, <3>1, <3>3, <3>5, <3>6
    <3>7. CASE s = old
      BY <2>3, <3>2, <3>3, <3>5, <3>7
    <3>8. CASE s # n /\ s # old
      BY <2>3, <2>4, <3>3, <3>5, <3>8
    <3>9. QED  BY <3>6, <3>7, <3>8
  <2>7. QED  BY <2>5, <2>6
<1>7. HomeOK'
  BY <1>1, ExportAssumption
     DEF HomeOK, TypeOK, PlaceOK, FreshOK, Actors, Holding, Creating, Ending, RegisterExportObject,
         Goto, peerVars, channelVars
<1>8. GoneOK'
  <2>1. PICK o \in Objects, n \in Stubs, old \in Stubs \cup {"none"} :
        o = arg[t] /\ n = held[t] /\ old = registry[o] /\ n # "none"
    BY <1>1, ExportAssumption DEF TypeOK, PlaceOK, Holding, Creating, RegisterExportObject
  <2>2. /\ registry' = [registry EXCEPT ![o] = n]
        /\ UNCHANGED <<held, released, world, target, deleted>>
    BY <2>1 DEF RegisterExportObject, peerVars
  <2>3. \A s \in Stubs : /\ Holders(s)' = Holders(s)
                         /\ s # n => Entries(s)' \subseteq Entries(s) \ {o}
    BY <1>1, <2>1, <2>2 DEF TypeOK, Holders, Entries
  <2>4. t \in Holders(n)
    BY <2>1 DEF Holders
  <2>5. CASE dying' = dying
    BY <1>1, <2>2, <2>3, <2>4, <2>5 DEF GoneOK, Gone
  <2>6. CASE old \in Stubs /\ strong[old] = 1 /\ dying' = [dying EXCEPT ![t] = old]
    <3>1. o \in Entries(old)
      BY <2>1, <2>6 DEF Entries
    <3>2. released[old] = 0 => Holders(old) = {} /\ Entries(old) = {o} /\ old # n
      BY <1>1, <2>1, <2>4, <2>6, LastReference
    <3>3. target[old] \in Objects
      BY <1>1, <2>1, <2>6, ExportAssumption DEF FreshOK
    <3>4. \A a \in Actors : dying'[a] = IF a = t THEN old ELSE dying[a]
      BY <1>1, <2>6 DEF TypeOK, Actors
    <3>5. t \in Actors
      BY DEF Actors
    <3>6. SUFFICES ASSUME NEW s \in Stubs
                   PROVE  /\ Gone(s)' => target'[s] \in Objects
                          /\ released'[s] = 0 /\ target'[s] \notin world'.broken =>
                             /\ Gone(s)' => Holders(s)' = {} /\ Entries(s)' = {}
                             /\ \A a \in Actors : dying'[a] = s =>
                                   s \notin deleted' /\ \A b \in Actors : dying'[b] = s => b = a
      BY DEF GoneOK
    <3>7. CASE s = old
      <4>1. released[s] = 0 /\ target[s] \notin world.broken => ~Gone(s)
        BY <1>1, <3>1, <3>7 DEF GoneOK
      <4>2. QED  BY <2>2, <2>3, <3>2, <3>3, <3>4, <3>5, <3>7, <4>1 DEF Gone
    <3>8. CASE s # old
      <4>1. Gone(s)' => Gone(s)
        BY <2>2, <3>4, <3>8 DEF Gone
      <4>2. QED  BY <1>1, <2>2, <2>3, <2>4, <3>4, <3>8, <4>1 DEF GoneOK
    <3>9. QED  BY <3>7, <3>8
  <2>7. QED
    BY <2>1, <2>5, <2>6 DEF RegisterExportObject
<1>9. AbortExplained'
  BY <1>1, ExportAssumption
     DEF AbortExplained, TypeOK, PlaceOK, FreshOK, Actors, Holding, Creating, Ending,
         RegisterExportObject, Goto, peerVars, channelVars
<1>10. \A y \in Objects : (Quiet(y) => QuietOK(y))'
  <2> SUFFICES ASSUME NEW x \in Objects, Quiet(x)' PROVE QuietOK(x)'
    OBVIOUS
  <2>1. Quiet(x)
    BY <1>1, ExportAssumption
       DEF Quiet, TypeOK, PlaceOK, FreshOK, Actors, Holding, Creating, Ending, RegisterExportObject,
           Goto, peerVars, channelVars
  <2>2. QuietOK(x)
    BY <1>1, <2>1
  <2>3. QED  BY <1>1, <2>1, <2>2, ExportAssumption
                DEF HomeOK, Quiet, QuietOK, TypeOK, PlaceOK, FreshOK, Actors, Holding, Creating,
                    Ending, RegisterExportObject, Goto, peerVars, channelVars
<1>11. QED  BY <1>2, <1>3, <1>4, <1>5, <1>6, <1>7, <1>8, <1>9, <1>10 DEF IInv

\* The AutoPtr gives up its reference; for a quiet object the registry's remains.
LEMMA ReleaseStubKeeps ==
  ASSUME IInv, NEW t \in Threads, ReleaseStub(t)
  PROVE  IInv'
<1>1. /\ TypeOK /\ PlaceOK /\ FreshOK /\ ChannelOK /\ CountsOK /\ HomeOK /\ GoneOK /\ AbortExplained
      /\ \A y \in Objects : Quiet(y) => QuietOK(y)
  BY DEF IInv
<1>2. TypeOK'
  BY <1>1, ExportAssumption
     DEF TypeOK, PlaceOK, FreshOK, Actors, Holding, Creating, Ending, ReleaseStub, DecStrong, Goto,
         channelVars
<1>3. PlaceOK'
  BY <1>1, ExportAssumption
     DEF TypeOK, PlaceOK, Actors, Holding, Creating, Ending, ReleaseStub, DecStrong, Goto, channelVars
<1>4. FreshOK'
  BY <1>1, ExportAssumption
     DEF TypeOK, PlaceOK, FreshOK, Actors, Holding, Creating, Ending, ReleaseStub, DecStrong, Goto,
         channelVars
<1>5. ChannelOK'
  BY <1>1, ExportAssumption
     DEF TypeOK, PlaceOK, ChannelOK, Actors, Holding, Creating, Ending, ReleaseStub, DecStrong, Goto,
         channelVars
<1>6. CountsOK'
  <2>1. PICK s \in Stubs :
        /\ s = held[t] /\ held' = [held EXCEPT ![t] = "none"]
        /\ strong' = [strong EXCEPT ![s] = @ - 1] /\ UNCHANGED <<registry, released>>
    BY <1>1 DEF PlaceOK, Holding, ReleaseStub, DecStrong, channelVars
  <2>2. /\ IsFiniteSet(Holders(s)') /\ Cardinality(Holders(s)') = Cardinality(Holders(s)) - 1
        /\ \A r \in Stubs \ {s} : Holders(r)' = Holders(r)
    BY <1>1, <2>1, DropCounts
  <2>3. \A r \in Stubs : Entries(r)' = Entries(r)
    BY <2>1 DEF Entries
  <2>4. QED  BY <1>1, <2>1, <2>2, <2>3, CountsInt DEF CountsOK, TypeOK
<1>7. HomeOK'
  BY <1>1, ExportAssumption
     DEF HomeOK, TypeOK, PlaceOK, FreshOK, Actors, Holding, Creating, Ending, ReleaseStub, DecStrong,
         Goto, channelVars
<1>8. GoneOK' /\ AbortExplained'
  <2>1. /\ held[t] \in Stubs /\ held' = [held EXCEPT ![t] = "none"] /\ DecStrong(t, held[t], "idle")
        /\ UNCHANGED <<registry, target, deleted, released, world>>
    BY <1>1 DEF PlaceOK, Holding, ReleaseStub
  <2>2. QED  BY <1>1, <2>1, DropKeeps
<1>10. \A y \in Objects : (Quiet(y) => QuietOK(y))'
  <2> SUFFICES ASSUME NEW x \in Objects, Quiet(x)' PROVE QuietOK(x)'
    OBVIOUS
  <2>1. Quiet(x)
    BY <1>1, ExportAssumption
       DEF Quiet, TypeOK, PlaceOK, FreshOK, Actors, Holding, Creating, Ending, ReleaseStub, DecStrong,
           Goto, channelVars
  <2>2. QuietOK(x)
    BY <1>1, <2>1
  <2>3. /\ pc[t] = "release" /\ held[t] \in Stubs /\ arg[t] \in Objects /\ target[held[t]] = arg[t]
        /\ UNCHANGED <<registry, target, deleted, arg, packs>> /\ held' = [held EXCEPT ![t] = "none"]
    BY <1>1 DEF PlaceOK, HomeOK, Holding, ReleaseStub
  <2>4. CASE arg[t] = x
    <3>1. registry[x] = held[t] /\ released[held[t]] = 0
      BY <2>1, <2>2, <2>3, <2>4 DEF Quiet, QuietOK
    <3>2. strong[held[t]] # 1
      BY <1>1, <2>3, <3>1, CountsInt DEF CountsOK
    <3>3. pc' = [pc EXCEPT ![t] = "idle"] /\ dying' = dying
      BY <3>2 DEF ReleaseStub, DecStrong, Goto
    <3>4. QED  BY <1>1, <2>2, <2>3, <3>3, SMTT(40) DEF TypeOK, QuietOK, Actors, Creating
  <2>5. CASE arg[t] # x
    <3>1. /\ pc' = [pc EXCEPT ![t] = "idle"] \/ pc' = [pc EXCEPT ![t] = "unregister"]
          /\ dying' = dying \/ dying' = [dying EXCEPT ![t] = held[t]]
      BY DEF ReleaseStub, DecStrong, Goto
    <3>2. QED  BY <1>1, <2>2, <2>3, <2>5, <3>1 DEF TypeOK, QuietOK, Actors, Creating
  <2>6. QED  BY <2>4, <2>5
<1>11. QED  BY <1>2, <1>3, <1>4, <1>5, <1>6, <1>7, <1>8, <1>10 DEF IInv

\* The stub of an object that lacks an interface gives up its only reference.
LEMMA AbandonStubKeeps ==
  ASSUME IInv, NEW t \in Threads, AbandonStub(t)
  PROVE  IInv'
<1>1. /\ TypeOK /\ PlaceOK /\ FreshOK /\ ChannelOK /\ CountsOK /\ HomeOK /\ GoneOK /\ AbortExplained
      /\ \A y \in Objects : Quiet(y) => QuietOK(y)
  BY DEF IInv
<1>2. /\ pc[t] = "abandon" /\ held[t] \in Stubs /\ arg[t] \in Objects \cap world.broken
      /\ target[held[t]] = arg[t] /\ held[t] # "none"
      /\ UNCHANGED <<world, known, released, contended, registry, lock, target, deleted, worker,
                     mWorkers, mStarted, mName, arg, packs, marshals>>
  BY <1>1, ExportAssumption DEF PlaceOK, HomeOK, Holding, AbandonStub, peerVars, channelVars
<1>3. CASE aborted' = TRUE /\ UNCHANGED <<pc, strong, dying, held>>
  <2>1. /\ TypeOK' /\ PlaceOK' /\ FreshOK' /\ ChannelOK'
    BY <1>1, <1>2, <1>3 DEF TypeOK, PlaceOK, FreshOK, ChannelOK, Actors
  <2>2. CountsOK' /\ HomeOK' /\ GoneOK'
    BY <1>1, <1>2, <1>3 DEF CountsOK, HomeOK, GoneOK, Gone, Holders, Entries
  <2>3. AbortExplained'
    BY <1>2 DEF AbortExplained
  <2>4. \A y \in Objects : (Quiet(y) => QuietOK(y))'
    BY <1>1, <1>2, <1>3 DEF Quiet, QuietOK
  <2>5. QED  BY <2>1, <2>2, <2>3, <2>4 DEF IInv
<1>4. CASE DecStrong(t, held[t], "idle") /\ held' = [held EXCEPT ![t] = "none"]
  <2>1. /\ \/ pc' = [pc EXCEPT ![t] = "idle"] /\ dying' = dying
           \/ pc' = [pc EXCEPT ![t] = "unregister"] /\ dying' = [dying EXCEPT ![t] = held[t]]
        /\ strong' = [strong EXCEPT ![held[t]] = @ - 1] /\ aborted' \in BOOLEAN
    BY <1>4 DEF DecStrong, Goto
  <2>2. TypeOK' /\ PlaceOK'
    BY <1>1, <1>2, <1>4, <2>1, ExportAssumption DEF TypeOK, PlaceOK, Actors, Holding, Creating, Ending
  <2>3. FreshOK' /\ ChannelOK' /\ HomeOK'
    BY <1>1, <1>2, <1>4, <2>1, ExportAssumption
       DEF TypeOK, PlaceOK, FreshOK, ChannelOK, HomeOK, Actors, Holding, Creating, Ending
  <2>4. CountsOK'
    <3>1. PICK s \in Stubs : s = held[t] /\ strong' = [strong EXCEPT ![s] = @ - 1]
      BY <1>2, <2>1
    <3>2. /\ IsFiniteSet(Holders(s)') /\ Cardinality(Holders(s)') = Cardinality(Holders(s)) - 1
          /\ \A r \in Stubs \ {s} : Holders(r)' = Holders(r)
      BY <1>1, <1>4, <3>1, DropCounts
    <3>3. \A r \in Stubs : Entries(r)' = Entries(r)
      BY <1>2 DEF Entries
    <3>4. QED  BY <1>1, <1>2, <3>1, <3>2, <3>3, CountsInt DEF CountsOK, TypeOK
  <2>5. GoneOK' /\ AbortExplained'
    BY <1>1, <1>2, <1>4, DropKeeps
  <2>6. \A y \in Objects : (Quiet(y) => QuietOK(y))'
    <3> SUFFICES ASSUME NEW x \in Objects, Quiet(x)' PROVE QuietOK(x)'
      OBVIOUS
    <3>1. QuietOK(x) /\ arg[t] # x
      BY <1>1, <1>2 DEF Quiet
    <3>2. QED  BY <1>1, <1>2, <1>4, <2>1, <3>1 DEF TypeOK, QuietOK, Actors, Creating
  <2>7. QED  BY <2>2, <2>3, <2>4, <2>5, <2>6 DEF IInv
<1>5. QED  BY <1>3, <1>4 DEF AbandonStub

\* The entry of the dying stub's target is dropped with its reference, whichever stub it holds.
LEMMA OnLastStrongRefKeeps ==
  ASSUME IInv, NEW a \in Actors, OnLastStrongRef(a)
  PROVE  IInv'
<1>1. /\ TypeOK /\ PlaceOK /\ FreshOK /\ ChannelOK /\ CountsOK /\ HomeOK /\ GoneOK /\ AbortExplained
      /\ \A y \in Objects : Quiet(y) => QuietOK(y)
  BY DEF IInv
<1>2. TypeOK'
  <2>1. PICK o \in Objects, r \in Stubs \cup {"none"} : o = target[dying[a]] /\ r = registry[o]
    BY <1>1 DEF TypeOK, FreshOK, Ending, OnLastStrongRef
  <2>2. pc[a] = "unregister" /\ UNCHANGED <<peerVars, target, deleted, channelVars, arg, held, dying, packs, marshals>>
    BY DEF OnLastStrongRef
  <2>3. CASE r = "none"
    <3>1. pc' = [pc EXCEPT ![a] = "delete"] /\ UNCHANGED <<registry, lock, strong, aborted>>
      BY <2>1, <2>3 DEF OnLastStrongRef, Goto
    <3>2. QED  BY <1>1, <2>2, <3>1, ExportAssumption
                  DEF TypeOK, PlaceOK, FreshOK, Actors, Holding, Creating, Ending, peerVars, channelVars
  <2>4. CASE r # "none"
    <3>1. /\ registry' = [registry EXCEPT ![o] = "none"] /\ strong' = [strong EXCEPT ![r] = @ - 1]
          /\ aborted' \in BOOLEAN /\ lock' \in {a, lock}
          /\ pc' = [pc EXCEPT ![a] = "blocked"] \/ pc' = [pc EXCEPT ![a] = "delete"]
      BY <2>1, <2>4 DEF OnLastStrongRef, Goto
    <3>2. QED  BY <1>1, <2>1, <2>2, <2>4, <3>1, ExportAssumption
                  DEF TypeOK, PlaceOK, FreshOK, Actors, Holding, Creating, Ending, peerVars, channelVars
  <2>5. QED  BY <2>3, <2>4
<1>3. PlaceOK'
  <2>1. PICK o \in Objects, r \in Stubs \cup {"none"} : o = target[dying[a]] /\ r = registry[o]
    BY <1>1 DEF TypeOK, FreshOK, Ending, OnLastStrongRef
  <2>2. pc[a] = "unregister" /\ UNCHANGED <<peerVars, target, deleted, channelVars, arg, held, dying, packs, marshals>>
    BY DEF OnLastStrongRef
  <2>3. CASE r = "none"
    <3>1. pc' = [pc EXCEPT ![a] = "delete"] /\ UNCHANGED <<registry, lock, strong, aborted>>
      BY <2>1, <2>3 DEF OnLastStrongRef, Goto
    <3>2. QED  BY <1>1, <2>2, <3>1, ExportAssumption
                  DEF TypeOK, PlaceOK, FreshOK, Actors, Holding, Creating, Ending, peerVars, channelVars
  <2>4. CASE r # "none"
    <3>1. /\ registry' = [registry EXCEPT ![o] = "none"] /\ strong' = [strong EXCEPT ![r] = @ - 1]
          /\ aborted' \in BOOLEAN /\ lock' \in {a, lock}
          /\ pc' = [pc EXCEPT ![a] = "blocked"] \/ pc' = [pc EXCEPT ![a] = "delete"]
      BY <2>1, <2>4 DEF OnLastStrongRef, Goto
    <3>2. QED  BY <1>1, <2>1, <2>2, <2>4, <3>1, ExportAssumption
                  DEF TypeOK, PlaceOK, FreshOK, Actors, Holding, Creating, Ending, peerVars, channelVars
  <2>5. QED  BY <2>3, <2>4
<1>4. FreshOK'
  BY <1>1, ExportAssumption
     DEF TypeOK, PlaceOK, FreshOK, Actors, Holding, Creating, Ending, OnLastStrongRef, Goto, peerVars,
         channelVars
<1>5. ChannelOK'
  BY <1>1, ExportAssumption
     DEF TypeOK, PlaceOK, ChannelOK, Actors, Holding, Creating, Ending, OnLastStrongRef, Goto,
         peerVars, channelVars
<1>6. CountsOK'
  <2>1. PICK o \in Objects, r \in Stubs \cup {"none"} :
        o = target[dying[a]] /\ r = registry[o] /\ UNCHANGED <<held, released>>
    BY <1>1 DEF TypeOK, FreshOK, Ending, OnLastStrongRef, Goto, peerVars, channelVars
  <2>2. \A s \in Stubs : Holders(s)' = Holders(s)
    BY <2>1 DEF Holders
  <2>3. CASE r = "none"
    <3>1. UNCHANGED <<strong, registry>>
      BY <2>1, <2>3 DEF OnLastStrongRef
    <3>2. \A s \in Stubs : Entries(s)' = Entries(s)
      BY <3>1 DEF Entries
    <3>3. QED  BY <1>1, <2>1, <2>2, <3>1, <3>2 DEF CountsOK
  <2>4. CASE r # "none"
    <3>1. registry' = [registry EXCEPT ![o] = "none"] /\ strong' = [strong EXCEPT ![r] = @ - 1] /\ r \in Stubs
      BY <2>1, <2>4 DEF OnLastStrongRef
    <3>2. IsFiniteSet(Entries(r)') /\ Cardinality(Entries(r)') = Cardinality(Entries(r)) - 1
      BY <1>1, <2>1, <2>4, <3>1, RemoveCounts
    <3>3. \A s \in Stubs : s # r => Entries(s)' = Entries(s)
      BY <1>1, <2>1, <3>1, ExportAssumption DEF Entries, TypeOK
    <3>4. QED  BY <1>1, <2>1, <2>2, <3>1, <3>2, <3>3, CountsInt, SMTT(40) DEF CountsOK, TypeOK
  <2>5. QED  BY <2>3, <2>4
<1>7. HomeOK'
  BY <1>1, ExportAssumption
     DEF HomeOK, TypeOK, PlaceOK, FreshOK, Actors, Holding, Creating, Ending, OnLastStrongRef, Goto,
         peerVars, channelVars
<1>8. GoneOK'
  BY <1>1, ExportAssumption
     DEF GoneOK, Gone, Holders, Entries, TypeOK, PlaceOK, FreshOK, Actors, Holding, Creating, Ending,
         OnLastStrongRef, Goto, peerVars, channelVars
<1>9. AbortExplained'
  <2>1. PICK o \in Objects, r \in Stubs \cup {"none"} :
        o = target[dying[a]] /\ r = registry[o] /\ UNCHANGED <<world, target, released>>
    BY <1>1 DEF TypeOK, FreshOK, Ending, OnLastStrongRef, peerVars
  <2>2. CASE r = "none"
    BY <1>1, <2>1, <2>2 DEF AbortExplained, OnLastStrongRef
  <2>3. CASE r # "none"
    <3>1. r \in Stubs /\ aborted' = (strong[r] <= 0)
      BY <2>1, <2>3 DEF OnLastStrongRef
    <3>2. strong[r] <= 0 => released[r] > 0
      BY <1>1, <2>1, <3>1, Referenced
    <3>3. QED  BY <2>1, <3>1, <3>2 DEF AbortExplained
  <2>4. QED  BY <2>2, <2>3
<1>10. \A y \in Objects : (Quiet(y) => QuietOK(y))'
  <2> SUFFICES ASSUME NEW x \in Objects, Quiet(x)' PROVE QuietOK(x)'
    OBVIOUS
  <2>1. Quiet(x)
    BY <1>1, ExportAssumption
       DEF Quiet, TypeOK, PlaceOK, FreshOK, Actors, Holding, Creating, Ending, OnLastStrongRef, Goto,
           peerVars, channelVars
  <2>2. QuietOK(x)
    BY <1>1, <2>1
  <2>3. QED  BY <1>1, <2>1, <2>2, ExportAssumption
                DEF HomeOK, Quiet, QuietOK, TypeOK, PlaceOK, FreshOK, Actors, Holding, Creating,
                    Ending, OnLastStrongRef, Goto, peerVars, channelVars
<1>11. QED  BY <1>2, <1>3, <1>4, <1>5, <1>6, <1>7, <1>8, <1>9, <1>10 DEF IInv

\* What is deleted was dying before.
LEMMA DeleteStubKeeps ==
  ASSUME IInv, NEW a \in Actors, DeleteStub(a)
  PROVE  IInv'
<1>1. /\ TypeOK /\ PlaceOK /\ FreshOK /\ ChannelOK /\ CountsOK /\ HomeOK /\ GoneOK /\ AbortExplained
      /\ \A y \in Objects : Quiet(y) => QuietOK(y)
  BY DEF IInv
<1>2. TypeOK'
  BY <1>1, ExportAssumption
     DEF TypeOK, PlaceOK, FreshOK, Actors, Holding, Creating, Ending, DeleteStub, Goto, peerVars,
         channelVars
<1>3. PlaceOK'
  BY <1>1, ExportAssumption
     DEF TypeOK, PlaceOK, Actors, Holding, Creating, Ending, DeleteStub, Goto, peerVars, channelVars
<1>4. FreshOK'
  BY <1>1, ExportAssumption
     DEF TypeOK, PlaceOK, FreshOK, Actors, Holding, Creating, Ending, DeleteStub, Goto, peerVars,
         channelVars
<1>5. ChannelOK'
  BY <1>1, ExportAssumption
     DEF TypeOK, PlaceOK, ChannelOK, Actors, Holding, Creating, Ending, DeleteStub, Goto, peerVars,
         channelVars
<1>6. CountsOK'
  BY <1>1 DEF CountsOK, Holders, Entries, DeleteStub, Goto, peerVars, channelVars
<1>7. HomeOK'
  BY <1>1, ExportAssumption
     DEF HomeOK, TypeOK, PlaceOK, FreshOK, Actors, Holding, Creating, Ending, DeleteStub, Goto,
         peerVars, channelVars
<1>8. GoneOK'
  BY <1>1, ExportAssumption
     DEF GoneOK, Gone, Holders, Entries, TypeOK, PlaceOK, FreshOK, Actors, Holding, Creating, Ending,
         DeleteStub, Goto, peerVars, channelVars
<1>9. AbortExplained'
  <2>1. pc[a] \in Ending /\ dying[a] \in Stubs /\ UNCHANGED <<world, target, released>>
    BY <1>1 DEF FreshOK, Ending, DeleteStub, peerVars
  <2>2. dying[a] \in deleted => released[dying[a]] # 0 \/ target[dying[a]] \in world.broken
    BY <1>1, <2>1 DEF GoneOK
  <2>3. aborted' => dying[a] \in deleted
    BY DEF DeleteStub
  <2>4. released[dying[a]] \in Nat
    BY <1>1, <2>1 DEF TypeOK
  <2>5. QED  BY <2>1, <2>2, <2>3, <2>4 DEF AbortExplained
<1>10. \A y \in Objects : (Quiet(y) => QuietOK(y))'
  <2> SUFFICES ASSUME NEW x \in Objects, Quiet(x)' PROVE QuietOK(x)'
    OBVIOUS
  <2>1. Quiet(x)
    BY <1>1, ExportAssumption
       DEF Quiet, TypeOK, PlaceOK, FreshOK, Actors, Holding, Creating, Ending, DeleteStub, Goto,
           peerVars, channelVars
  <2>2. QuietOK(x)
    BY <1>1, <2>1
  <2>3. QED  BY <1>1, <2>1, <2>2, ExportAssumption
                DEF HomeOK, Quiet, QuietOK, TypeOK, PlaceOK, FreshOK, Actors, Holding, Creating,
                    Ending, DeleteStub, Goto, peerVars, channelVars
<1>11. QED  BY <1>2, <1>3, <1>4, <1>5, <1>6, <1>7, <1>8, <1>9, <1>10 DEF IInv

\* The channel is named before it listens.
LEMMA ConnectKeeps ==
  ASSUME IInv, NEW s \in Stubs, Connect(s)
  PROVE  IInv'
<1>1. /\ TypeOK /\ PlaceOK /\ FreshOK /\ ChannelOK /\ CountsOK /\ HomeOK /\ GoneOK /\ AbortExplained
      /\ \A y \in Objects : Quiet(y) => QuietOK(y)
  BY DEF IInv
<1>2. TypeOK'
  BY <1>1, ExportAssumption
     DEF TypeOK, PlaceOK, FreshOK, Actors, Holding, Creating, Ending, Connect, peerVars, stubVars,
         threadVars
<1>3. PlaceOK'
  BY <1>1, ExportAssumption
     DEF TypeOK, PlaceOK, Actors, Holding, Creating, Ending, Connect, peerVars, stubVars, threadVars
<1>4. FreshOK'
  BY <1>1, ExportAssumption
     DEF TypeOK, PlaceOK, FreshOK, Actors, Holding, Creating, Ending, Connect, peerVars, stubVars,
         threadVars
<1>5. ChannelOK'
  BY <1>1, ExportAssumption
     DEF TypeOK, PlaceOK, ChannelOK, Actors, Holding, Creating, Ending, Connect, peerVars, stubVars,
         threadVars
<1>6. CountsOK'
  BY <1>1 DEF CountsOK, Holders, Entries, Connect, peerVars, stubVars, threadVars
<1>7. HomeOK'
  BY <1>1, ExportAssumption
     DEF HomeOK, TypeOK, PlaceOK, FreshOK, Actors, Holding, Creating, Ending, Connect, peerVars,
         stubVars, threadVars
<1>8. GoneOK'
  BY <1>1, ExportAssumption
     DEF GoneOK, Gone, Holders, Entries, TypeOK, PlaceOK, FreshOK, Actors, Holding, Creating, Ending,
         Connect, peerVars, stubVars, threadVars
<1>9. AbortExplained'
  BY <1>1, ExportAssumption
     DEF AbortExplained, TypeOK, PlaceOK, FreshOK, Actors, Holding, Creating, Ending, Connect,
         peerVars, stubVars, threadVars
<1>10. \A y \in Objects : (Quiet(y) => QuietOK(y))'
  <2> SUFFICES ASSUME NEW x \in Objects, Quiet(x)' PROVE QuietOK(x)'
    OBVIOUS
  <2>1. Quiet(x)
    BY <1>1, ExportAssumption
       DEF Quiet, TypeOK, PlaceOK, FreshOK, Actors, Holding, Creating, Ending, Connect, peerVars,
           stubVars, threadVars
  <2>2. QuietOK(x)
    BY <1>1, <2>1
  <2>3. QED  BY <1>1, <2>1, <2>2, ExportAssumption
                DEF HomeOK, Quiet, QuietOK, TypeOK, PlaceOK, FreshOK, Actors, Holding, Creating,
                    Ending, Connect, peerVars, stubVars, threadVars
<1>11. QED  BY <1>2, <1>3, <1>4, <1>5, <1>6, <1>7, <1>8, <1>9, <1>10 DEF IInv

\* A thread that fails to connect leaves the channel as it was.
LEMMA ConnectFailsKeeps ==
  ASSUME IInv, NEW s \in Stubs, ConnectFails(s)
  PROVE  IInv'
<1>1. /\ TypeOK /\ PlaceOK /\ FreshOK /\ ChannelOK /\ CountsOK /\ HomeOK /\ GoneOK /\ AbortExplained
      /\ \A y \in Objects : Quiet(y) => QuietOK(y)
  BY DEF IInv
<1>2. TypeOK'
  BY <1>1, ExportAssumption
     DEF TypeOK, PlaceOK, FreshOK, Actors, Holding, Creating, Ending, ConnectFails, peerVars, stubVars,
         threadVars
<1>3. PlaceOK'
  BY <1>1, ExportAssumption
     DEF TypeOK, PlaceOK, Actors, Holding, Creating, Ending, ConnectFails, peerVars, stubVars,
         threadVars
<1>4. FreshOK'
  BY <1>1, ExportAssumption
     DEF TypeOK, PlaceOK, FreshOK, Actors, Holding, Creating, Ending, ConnectFails, peerVars, stubVars,
         threadVars
<1>5. ChannelOK'
  BY <1>1, ExportAssumption
     DEF TypeOK, PlaceOK, ChannelOK, Actors, Holding, Creating, Ending, ConnectFails, peerVars,
         stubVars, threadVars
<1>6. CountsOK'
  BY <1>1 DEF CountsOK, Holders, Entries, ConnectFails, peerVars, stubVars, threadVars
<1>7. HomeOK'
  BY <1>1, ExportAssumption
     DEF HomeOK, TypeOK, PlaceOK, FreshOK, Actors, Holding, Creating, Ending, ConnectFails, peerVars,
         stubVars, threadVars
<1>8. GoneOK'
  BY <1>1, ExportAssumption
     DEF GoneOK, Gone, Holders, Entries, TypeOK, PlaceOK, FreshOK, Actors, Holding, Creating, Ending,
         ConnectFails, peerVars, stubVars, threadVars
<1>9. AbortExplained'
  BY <1>1, ExportAssumption
     DEF AbortExplained, TypeOK, PlaceOK, FreshOK, Actors, Holding, Creating, Ending, ConnectFails,
         peerVars, stubVars, threadVars
<1>10. \A y \in Objects : (Quiet(y) => QuietOK(y))'
  <2> SUFFICES ASSUME NEW x \in Objects, Quiet(x)' PROVE QuietOK(x)'
    OBVIOUS
  <2>1. Quiet(x)
    BY <1>1, ExportAssumption
       DEF Quiet, TypeOK, PlaceOK, FreshOK, Actors, Holding, Creating, Ending, ConnectFails, peerVars,
           stubVars, threadVars
  <2>2. QuietOK(x)
    BY <1>1, <2>1
  <2>3. QED  BY <1>1, <2>1, <2>2, ExportAssumption
                DEF HomeOK, Quiet, QuietOK, TypeOK, PlaceOK, FreshOK, Actors, Holding, Creating,
                    Ending, ConnectFails, peerVars, stubVars, threadVars
<1>11. QED  BY <1>2, <1>3, <1>4, <1>5, <1>6, <1>7, <1>8, <1>9, <1>10 DEF IInv

\* What is reported as started has its name.
LEMMA ReportStartKeeps ==
  ASSUME IInv, NEW s \in Stubs, ReportStart(s)
  PROVE  IInv'
<1>1. /\ TypeOK /\ PlaceOK /\ FreshOK /\ ChannelOK /\ CountsOK /\ HomeOK /\ GoneOK /\ AbortExplained
      /\ \A y \in Objects : Quiet(y) => QuietOK(y)
  BY DEF IInv
<1>2. TypeOK'
  BY <1>1, ExportAssumption
     DEF TypeOK, PlaceOK, FreshOK, Actors, Holding, Creating, Ending, ReportStart, peerVars, stubVars,
         threadVars
<1>3. PlaceOK'
  BY <1>1, ExportAssumption
     DEF TypeOK, PlaceOK, Actors, Holding, Creating, Ending, ReportStart, peerVars, stubVars, threadVars
<1>4. FreshOK'
  BY <1>1, ExportAssumption
     DEF TypeOK, PlaceOK, FreshOK, Actors, Holding, Creating, Ending, ReportStart, peerVars, stubVars,
         threadVars
<1>5. ChannelOK'
  BY <1>1, ExportAssumption
     DEF TypeOK, PlaceOK, ChannelOK, Actors, Holding, Creating, Ending, ReportStart, peerVars,
         stubVars, threadVars
<1>6. CountsOK'
  BY <1>1 DEF CountsOK, Holders, Entries, ReportStart, peerVars, stubVars, threadVars
<1>7. HomeOK'
  BY <1>1, ExportAssumption
     DEF HomeOK, TypeOK, PlaceOK, FreshOK, Actors, Holding, Creating, Ending, ReportStart, peerVars,
         stubVars, threadVars
<1>8. GoneOK'
  BY <1>1, ExportAssumption
     DEF GoneOK, Gone, Holders, Entries, TypeOK, PlaceOK, FreshOK, Actors, Holding, Creating, Ending,
         ReportStart, peerVars, stubVars, threadVars
<1>9. AbortExplained'
  BY <1>1, ExportAssumption
     DEF AbortExplained, TypeOK, PlaceOK, FreshOK, Actors, Holding, Creating, Ending, ReportStart,
         peerVars, stubVars, threadVars
<1>10. \A y \in Objects : (Quiet(y) => QuietOK(y))'
  <2> SUFFICES ASSUME NEW x \in Objects, Quiet(x)' PROVE QuietOK(x)'
    OBVIOUS
  <2>1. Quiet(x)
    BY <1>1, ExportAssumption
       DEF Quiet, TypeOK, PlaceOK, FreshOK, Actors, Holding, Creating, Ending, ReportStart, peerVars,
           stubVars, threadVars
  <2>2. QuietOK(x)
    BY <1>1, <2>1
  <2>3. QED  BY <1>1, <2>1, <2>2, ExportAssumption
                DEF HomeOK, Quiet, QuietOK, TypeOK, PlaceOK, FreshOK, Actors, Holding, Creating,
                    Ending, ReportStart, peerVars, stubVars, threadVars
<1>11. QED  BY <1>2, <1>3, <1>4, <1>5, <1>6, <1>7, <1>8, <1>9, <1>10 DEF IInv

\* A dispatch loop that ends leaves mStarted and the name.
LEMMA DispatchEndsKeeps ==
  ASSUME IInv, NEW s \in Stubs, DispatchEnds(s)
  PROVE  IInv'
<1>1. /\ TypeOK /\ PlaceOK /\ FreshOK /\ ChannelOK /\ CountsOK /\ HomeOK /\ GoneOK /\ AbortExplained
      /\ \A y \in Objects : Quiet(y) => QuietOK(y)
  BY DEF IInv
<1>2. TypeOK'
  BY <1>1, ExportAssumption
     DEF TypeOK, PlaceOK, FreshOK, Actors, Holding, Creating, Ending, DispatchEnds, peerVars, stubVars,
         threadVars
<1>3. PlaceOK'
  BY <1>1, ExportAssumption
     DEF TypeOK, PlaceOK, Actors, Holding, Creating, Ending, DispatchEnds, peerVars, stubVars,
         threadVars
<1>4. FreshOK'
  BY <1>1, ExportAssumption
     DEF TypeOK, PlaceOK, FreshOK, Actors, Holding, Creating, Ending, DispatchEnds, peerVars, stubVars,
         threadVars
<1>5. ChannelOK'
  BY <1>1, ExportAssumption
     DEF TypeOK, PlaceOK, ChannelOK, Actors, Holding, Creating, Ending, DispatchEnds, peerVars,
         stubVars, threadVars
<1>6. CountsOK'
  BY <1>1 DEF CountsOK, Holders, Entries, DispatchEnds, peerVars, stubVars, threadVars
<1>7. HomeOK'
  BY <1>1, ExportAssumption
     DEF HomeOK, TypeOK, PlaceOK, FreshOK, Actors, Holding, Creating, Ending, DispatchEnds, peerVars,
         stubVars, threadVars
<1>8. GoneOK'
  BY <1>1, ExportAssumption
     DEF GoneOK, Gone, Holders, Entries, TypeOK, PlaceOK, FreshOK, Actors, Holding, Creating, Ending,
         DispatchEnds, peerVars, stubVars, threadVars
<1>9. AbortExplained'
  BY <1>1, ExportAssumption
     DEF AbortExplained, TypeOK, PlaceOK, FreshOK, Actors, Holding, Creating, Ending, DispatchEnds,
         peerVars, stubVars, threadVars
<1>10. \A y \in Objects : (Quiet(y) => QuietOK(y))'
  <2> SUFFICES ASSUME NEW x \in Objects, Quiet(x)' PROVE QuietOK(x)'
    OBVIOUS
  <2>1. Quiet(x)
    BY <1>1, ExportAssumption
       DEF Quiet, TypeOK, PlaceOK, FreshOK, Actors, Holding, Creating, Ending, DispatchEnds, peerVars,
           stubVars, threadVars
  <2>2. QuietOK(x)
    BY <1>1, <2>1
  <2>3. QED  BY <1>1, <2>1, <2>2, ExportAssumption
                DEF HomeOK, Quiet, QuietOK, TypeOK, PlaceOK, FreshOK, Actors, Holding, Creating,
                    Ending, DispatchEnds, peerVars, stubVars, threadVars
<1>11. QED  BY <1>2, <1>3, <1>4, <1>5, <1>6, <1>7, <1>8, <1>9, <1>10 DEF IInv

\* A peer's Release takes a reference that released accounts for.
LEMMA HandleReleaseKeeps ==
  ASSUME IInv, NEW s \in Stubs, HandleRelease(s)
  PROVE  IInv'
<1>1. /\ TypeOK /\ PlaceOK /\ FreshOK /\ ChannelOK /\ CountsOK /\ HomeOK /\ GoneOK /\ AbortExplained
      /\ \A y \in Objects : Quiet(y) => QuietOK(y)
  BY DEF IInv
<1>2. TypeOK'
  BY <1>1, ExportAssumption
     DEF TypeOK, PlaceOK, FreshOK, Actors, Holding, Creating, Ending, HandleRelease, DecStrong, Goto,
         channelVars
<1>3. PlaceOK'
  BY <1>1, ExportAssumption
     DEF TypeOK, PlaceOK, Actors, Holding, Creating, Ending, HandleRelease, DecStrong, Goto, channelVars
<1>4. FreshOK'
  BY <1>1, ExportAssumption
     DEF TypeOK, PlaceOK, FreshOK, Actors, Holding, Creating, Ending, HandleRelease, DecStrong, Goto,
         channelVars
<1>5. ChannelOK'
  BY <1>1, ExportAssumption
     DEF TypeOK, PlaceOK, ChannelOK, Actors, Holding, Creating, Ending, HandleRelease, DecStrong, Goto,
         channelVars
<1>6. CountsOK'
  <2>1. /\ strong' = [strong EXCEPT ![s] = @ - 1] /\ released' = [released EXCEPT ![s] = @ + 1]
        /\ UNCHANGED <<held, registry>>
    BY DEF HandleRelease, DecStrong
  <2>2. \A r \in Stubs : Holders(r)' = Holders(r) /\ Entries(r)' = Entries(r)
    BY <2>1 DEF Holders, Entries
  <2>3. QED  BY <1>1, <2>1, <2>2, CountsInt DEF CountsOK, TypeOK
<1>7. HomeOK'
  BY <1>1, ExportAssumption
     DEF HomeOK, TypeOK, PlaceOK, FreshOK, Actors, Holding, Creating, Ending, HandleRelease, DecStrong,
         Goto, channelVars
<1>8. GoneOK'
  BY <1>1, ExportAssumption
     DEF GoneOK, Gone, Holders, Entries, TypeOK, PlaceOK, FreshOK, Actors, Holding, Creating, Ending,
         HandleRelease, DecStrong, Goto, channelVars
<1>9. AbortExplained'
  BY <1>1, ExportAssumption
     DEF AbortExplained, TypeOK, PlaceOK, FreshOK, Actors, Holding, Creating, Ending, HandleRelease,
         DecStrong, Goto, channelVars
<1>10. \A y \in Objects : (Quiet(y) => QuietOK(y))'
  <2> SUFFICES ASSUME NEW x \in Objects, Quiet(x)' PROVE QuietOK(x)'
    OBVIOUS
  <2>1. Quiet(x)
    BY <1>1, ExportAssumption
       DEF Quiet, TypeOK, PlaceOK, FreshOK, Actors, Holding, Creating, Ending, HandleRelease,
           DecStrong, Goto, channelVars
  <2>2. QuietOK(x)
    BY <1>1, <2>1
  <2>3. QED  BY <1>1, <2>1, <2>2, ExportAssumption
                DEF HomeOK, Quiet, QuietOK, TypeOK, PlaceOK, FreshOK, Actors, Holding, Creating,
                    Ending, HandleRelease, DecStrong, Goto, channelVars
<1>11. QED  BY <1>2, <1>3, <1>4, <1>5, <1>6, <1>7, <1>8, <1>9, <1>10 DEF IInv

\* Initially nothing is exported.
LEMMA InitHolds == ASSUME Init PROVE IInv
<1>1. TypeOK
  <2>1. /\ world \in Worlds /\ registry \in [Objects -> Stubs \cup {"none"}]
        /\ strong \in [Stubs -> Int] /\ released \in [Stubs -> Nat] /\ marshals \in Nat
        /\ target \in [Stubs -> Objects \cup {"none"}] /\ arg \in [Threads -> Objects \cup {"none"}]
        /\ held \in [Threads -> Stubs \cup {"none"}] /\ dying \in [Actors -> Stubs \cup {"none"}]
    BY DEF Init
  <2>2. /\ lock \in Actors \cup {"none"} /\ deleted \subseteq Stubs /\ mWorkers \subseteq Stubs
        /\ known \subseteq Stubs /\ contended \subseteq Objects /\ packs \subseteq Objects \X Stubs
        /\ worker \in [Stubs -> {"none", "starting", "connected", "serving", "ended"}]
        /\ pc \in [Actors -> {"idle", "find", "create", "blocked"} \cup Holding \cup Ending]
    BY DEF Init
  <2>3. mStarted \in [Stubs -> BOOLEAN] /\ mName \in [Stubs -> BOOLEAN] /\ aborted \in BOOLEAN
    BY DEF Init
  <2>4. QED  BY <2>1, <2>2, <2>3 DEF TypeOK
<1>2. PlaceOK /\ FreshOK /\ ChannelOK
  BY ExportAssumption DEF Init, PlaceOK, FreshOK, ChannelOK, Actors, Holding, Creating, Ending
<1>3. CountsOK
  <2>1. \A s \in Stubs : Holders(s) = {} /\ Entries(s) = {} /\ strong[s] = 0 /\ released[s] = 0
    BY ExportAssumption DEF Init, Holders, Entries
  <2>2. IsFiniteSet({}) /\ Cardinality({}) = 0
    BY FS_EmptySet
  <2>3. QED  BY <2>1, <2>2 DEF CountsOK
<1>4. HomeOK /\ AbortExplained
  BY ExportAssumption DEF Init, HomeOK, AbortExplained, Actors, Holding, Creating
<1>5. GoneOK
  <2>1. \A s \in Stubs : ~Gone(s)
    BY ExportAssumption DEF Init, Gone
  <2>2. QED  BY <2>1 DEF GoneOK, Gone
<1>6. \A o \in Objects : QuietOK(o)
  BY ExportAssumption DEF Init, QuietOK, Actors, Creating
<1>7. QED  BY <1>1, <1>2, <1>3, <1>4, <1>5, <1>6 DEF IInv

\* A step that changes nothing keeps the invariant.
LEMMA StutterKeeps == ASSUME IInv, UNCHANGED vars PROVE IInv'
  BY DEF IInv, TypeOK, PlaceOK, FreshOK, ChannelOK, CountsOK, Holders, Entries, HomeOK, GoneOK,
         Gone, AbortExplained, Quiet, QuietOK, Actors, Holding, Creating, Ending, vars

\* The invariant holds in every state, whichever threads race and whatever the
\* peers and the system do.
THEOREM ExportInvariant == Spec => []IInv
<1>1. Init => IInv
  BY InitHolds
<1>2. IInv /\ [Next]_vars => IInv'
  <2>1. SUFFICES ASSUME IInv, [Next]_vars PROVE IInv'
    OBVIOUS
  <2>2. ASSUME NEW t \in Threads, ThreadStep(t) PROVE IInv'
    BY <2>1, <2>2, FindExportObjectKeeps, MarshalProxyKeeps, CreateFailsKeeps, CreateObjectKeeps,
       RunTaskKeeps, StartListeningKeeps, SetPackKeeps, RegisterExportObjectKeeps, ReleaseStubKeeps,
       AbandonStubKeeps DEF ThreadStep
  <2>3. ASSUME NEW t \in Threads, NEW o \in Objects, MarshalInterface(t, o) PROVE IInv'
    BY <2>1, <2>3, MarshalInterfaceKeeps
  <2>4. ASSUME NEW a \in Actors, ActorStep(a) PROVE IInv'
    BY <2>1, <2>4, OnLastStrongRefKeeps, DeleteStubKeeps DEF ActorStep
  <2>5. ASSUME NEW s \in Stubs, ServiceStep(s) \/ ConnectFails(s) \/ DispatchEnds(s) \/ HandleRelease(s)
        PROVE  IInv'
    BY <2>1, <2>5, ConnectKeeps, ReportStartKeeps, ConnectFailsKeeps, DispatchEndsKeeps, HandleReleaseKeeps
       DEF ServiceStep
  <2>6. CASE Next
    BY <2>2, <2>3, <2>4, <2>5, <2>6 DEF Next
  <2>7. CASE UNCHANGED vars
    BY <2>1, <2>7, StutterKeeps
  <2>8. QED  BY <2>1, <2>6, <2>7
<1>3. QED  BY <1>1, <1>2, PTL DEF Spec

\* A stub's strong count is the number of AutoPtrs and registry entries that hold
\* it less what peers released: StubCountsExact, through every race of
\* FindExportObject, RegisterExportObject, OnLastStrongRef and HandleMessage.
THEOREM StubCountsCorrect == Spec => []StubCountsExact
<1>1. IInv => StubCountsExact
  BY DEF IInv, CountsOK, Holders, Entries, StubCountsExact
<1>2. QED  BY <1>1, ExportInvariant, PTL

\* Whatever races, failures and replacements there are, a stub that a thread holds or the
\* registry names is neither deleted nor about to be, unless a peer released it or its object
\* lacks an interface: HeldStubAlive.
THEOREM HeldCorrect == Spec => []HeldStubAlive
<1>1. IInv => HeldStubAlive
  BY DEF IInv, GoneOK, Gone, Holders, Entries, HeldStubAlive
<1>2. QED  BY <1>1, ExportInvariant, PTL

\* No race of marshalling threads violates an assertion of RefBase or corrupts memory: the
\* process aborts only after a peer's Release or an object that lacks an interface.
THEOREM AbortCorrect == Spec => []AbortExplained
<1>1. IInv => AbortExplained
  BY DEF IInv
<1>2. QED  BY <1>1, ExportInvariant, PTL

\* MarshalInterface packs only stubs of the object, and channels that StartListening has seen
\* started, so every pack resolves: PacksResolve, also where threads race or starts fail.
THEOREM PacksCorrect == Spec => []PacksResolve
<1>1. IInv => PacksResolve
  BY DEF IInv, TypeOK, ChannelOK, HomeOK, PacksResolve
<1>2. QED  BY <1>1, ExportInvariant, PTL

\* No service thread dispatches to a stub that is deleted or dying, but for a race on the
\* stub's own object or a peer's Release of it: ServedStubAlive, whatever races, failures and
\* releases there are around other objects.
THEOREM ServedCorrect == Spec => []ServedStubAlive
<1>1. IInv => ServedStubAlive
  <2> SUFFICES ASSUME IInv, NEW s \in Stubs, Quiet(target[s])
               PROVE  s \notin deleted /\ \A a \in Actors : dying[a] # s
    BY DEF ServedStubAlive
  <2>1. CASE target[s] \in Objects
    BY <2>1 DEF IInv, QuietOK
  <2>2. CASE target[s] \notin Objects
    BY <2>2 DEF IInv, GoneOK, Gone
  <2>3. QED  BY <2>1, <2>2
<1>2. QED  BY <1>1, ExportInvariant, PTL

\* Two packs of an object name two stubs only after a race on that object or a peer's Release
\* of one of its stubs: SameStub, whatever happens around other objects.
THEOREM OneStub == Spec => []SameStub
<1>1. IInv => SameStub
  <2> SUFFICES ASSUME IInv, NEW p \in packs, NEW q \in packs, p[1] = q[1], Quiet(p[1]) PROVE p = q
    BY DEF SameStub
  <2>1. PlaceOK /\ p \in Objects \X Stubs /\ q \in Objects \X Stubs
    BY DEF IInv, TypeOK
  <2>2. QuietOK(p[1])
    BY <2>1 DEF IInv
  <2>3. p[2] # "none" /\ q[2] # "none"
    BY <2>1, ExportAssumption
  <2>4. p[2] = q[2]
    BY <2>1, <2>2, <2>3 DEF QuietOK, Creating
  <2>5. QED  BY <2>1, <2>4
<1>2. QED  BY <1>1, ExportInvariant, PTL
=============================================================================
