---------------------------- MODULE PipelineProofs ----------------------------
(***************************************************************************)
(* Proofs about the pipeline model: the type invariant (in particular that *)
(* a resource's content version stays within 0..2*NP, i.e. a processor    *)
(* touches a resource at most once when it processes it and once when it  *)
(* flushes it), that no stage is called after its Finalize, that the     *)
(* sinks holding a resource are a prefix of the sink list, that a nil    *)
(* Finalize means every resource kept is stored with its final content,  *)
(* and that nothing changes a resource once doneMutating is set.          *)
(***************************************************************************)
EXTENDS Pipeline, TLAPS

\* The most version-changing touches a resource can have had before it
\* reaches stage `at`: two per processor it has passed.
Bound(at1) == 2 * (at1 - 1)

VerAtMost(w, n) == w.jsonVer <= n /\ w.protoVer <= n

\* Each resource is in at most one processor's buffer, never while it is in
\* flight, and only once it has been submitted.
Buffers ==
    /\ \A i, j \in ProcStages : i # j => buffer[i] \cap buffer[j] = {}
    /\ \A i \in ProcStages : buffer[i] \subseteq submitted
    /\ \A i \in ProcStages : cur \notin buffer[i]

\* A resource not yet submitted still has the wrapper Process would build.
Fresh == \A r \in Resources \ submitted : wr[r] = NewWrapper

\* The versions of the resource in flight and of the buffered ones.
Versioned ==
    /\ cur # NoResource => cur \in submitted /\ VerAtMost(wr[cur], Bound(at))
    /\ \A i \in ProcStages : \A r \in buffer[i] : VerAtMost(wr[r], 2 * i - 1)

\* The strengthening of TypeOK.
TypeInv == TypeOK /\ Buffers /\ Fresh /\ Versioned

-----------------------------------------------------------------------------
(* Proto() keeps a wrapper's versions: the proto takes the json's. *)
LEMMA ProtoBound ==
    ASSUME NEW w \in WrapperT, NEW n \in Nat, VerAtMost(w, n)
    PROVE  Proto(w) \in WrapperT /\ VerAtMost(Proto(w), n)
<1>1. Proto(w) \in WrapperT
  BY DEF Proto, WrapperT
<1>2. Proto(w).jsonVer = w.jsonVer
      /\ Proto(w).protoVer = IF w.proto THEN w.protoVer ELSE w.jsonVer
  BY DEF Proto, WrapperT
<1>3. QED
  BY <1>1, <1>2 DEF VerAtMost

(* A mutation of the proto makes one new version. *)
LEMMA MutateBound ==
    ASSUME NEW w \in WrapperT, NEW n \in Nat, n + 1 \in Versions,
           VerAtMost(w, n)
    PROVE  Mutate(w) \in WrapperT /\ VerAtMost(Mutate(w), n + 1)
<1>1. w.protoVer + 1 \in Versions
  BY NPAssumption DEF VerAtMost, WrapperT, Versions
<1>2. Mutate(w) \in WrapperT
  BY <1>1, Zenon DEF Mutate, WrapperT
<1>3. Mutate(w).jsonVer = w.jsonVer /\ Mutate(w).protoVer = w.protoVer + 1
  BY Zenon DEF Mutate, WrapperT
<1>4. QED
  BY <1>2, <1>3 DEF VerAtMost, WrapperT, Versions

(* A processor's touch (nothing, Proto(), or Proto() and a mutation)       *)
(* raises a wrapper's versions by at most one.                            *)
LEMMA TouchBound ==
    ASSUME NEW w \in WrapperT, NEW n \in Nat, NEW t \in Touches,
           n + 1 \in Versions, VerAtMost(w, n)
    PROVE  Touch(w, t) \in WrapperT /\ VerAtMost(Touch(w, t), n + 1)
<1>1. CASE t = "none"
  <2>1. Touch(w, t) = w
    BY <1>1 DEF Touch
  <2>2. QED
    BY <2>1 DEF VerAtMost, WrapperT, Versions
<1>2. CASE t = "read"
  <2>1. Touch(w, t) = Proto(w)
    BY <1>2 DEF Touch
  <2>2. QED
    BY <2>1, ProtoBound DEF VerAtMost, WrapperT, Versions
<1>3. CASE t = "mutate"
  <2>1. Touch(w, t) = Mutate(Proto(w))
    BY <1>3 DEF Touch
  <2>2. Proto(w) \in WrapperT /\ VerAtMost(Proto(w), n)
    BY ProtoBound
  <2>3. QED
    BY <2>1, <2>2, MutateBound
<1>4. QED
  BY <1>1, <1>2, <1>3 DEF Touches

(* JSON() keeps a wrapper's versions: it caches the proto's version. *)
LEMMA JSONBound ==
    ASSUME NEW w \in WrapperT, NEW n \in Nat, VerAtMost(w, n)
    PROVE  JSON(w) \in WrapperT /\ VerAtMost(JSON(w), n)
BY DEF JSON, WrapperT, VerAtMost

(* Setting doneMutating keeps a wrapper's type and versions. *)
LEMMA DoneBound ==
    ASSUME NEW w \in WrapperT, NEW n \in Nat, VerAtMost(w, n)
    PROVE  [w EXCEPT !.done = TRUE] \in WrapperT
           /\ VerAtMost([w EXCEPT !.done = TRUE], n)
<1>1. [w EXCEPT !.done = TRUE] \in WrapperT
  BY Zenon DEF WrapperT
<1>2. /\ [w EXCEPT !.done = TRUE].jsonVer = w.jsonVer
      /\ [w EXCEPT !.done = TRUE].protoVer = w.protoVer
  BY Zenon DEF WrapperT
<1>3. QED
  BY <1>1, <1>2 DEF VerAtMost

(* A sink's Write, with what it read of the wrapper named: the wrapper it *)
(* leaves, and the entry it adds to what sink sk stored or buffered.      *)
SinkWrite(t) ==
    LET w == SinkRead(wr[cur], t)
        e == <<cur, Written(w, t)>>
    IN  /\ wr' = [wr EXCEPT ![cur] = w]
        /\ \/ stored' = [stored EXCEPT ![sk] = @ \cup {e}] /\ sinkBuf' = sinkBuf
           \/ sinkBuf' = [sinkBuf EXCEPT ![sk] = @ \cup {e}] /\ stored' = stored

(* Either way a sink writes, it writes after one of its reads. *)
LEMMA SinkPick ==
    ASSUME SinkStore \/ SinkBuffer
    PROVE  \E t \in SinkReads : SinkWrite(t)
<1>1. CASE SinkStore
  BY <1>1, Zenon DEF SinkStore, SinkWrite
<1>2. CASE SinkBuffer
  BY <1>2, Zenon DEF SinkBuffer, SinkWrite
<1>3. QED
  BY <1>1, <1>2

(* A sink's read of the wrapper (JSON(), Proto() or both) keeps its       *)
(* versions, and what the sink writes is one of them.                     *)
LEMMA SinkReadBound ==
    ASSUME NEW w \in WrapperT, NEW n \in Nat, NEW t \in SinkReads,
           VerAtMost(w, n)
    PROVE  /\ SinkRead(w, t) \in WrapperT /\ VerAtMost(SinkRead(w, t), n)
           /\ Written(SinkRead(w, t), t) \in Versions
<1>1. CASE t = "json"
  <2>1. SinkRead(w, t) = JSON(w)
    BY <1>1 DEF SinkRead
  <2>2. QED
    BY <1>1, <2>1, JSONBound DEF Written, WrapperT
<1>2. CASE t = "proto"
  <2>1. SinkRead(w, t) = Proto(w)
    BY <1>2 DEF SinkRead
  <2>2. QED
    BY <1>2, <2>1, ProtoBound DEF Written, WrapperT
<1>3. CASE t = "both"
  <2>1. SinkRead(w, t) = JSON(Proto(w))
    BY <1>3 DEF SinkRead
  <2>2. Proto(w) \in WrapperT /\ VerAtMost(Proto(w), n)
    BY ProtoBound
  <2>3. QED
    BY <1>3, <2>1, <2>2, JSONBound DEF Written, WrapperT
<1>4. QED
  BY <1>1, <1>2, <1>3 DEF SinkReads

LEMMA TypeInit == Init => TypeInv
<1> SUFFICES ASSUME Init PROVE TypeInv
  OBVIOUS
<1>1. NewWrapper \in WrapperT
  BY NPAssumption DEF NewWrapper, WrapperT, Versions
<1>2. TypeOK
  BY <1>1, NPAssumption, NSAssumption DEF Init, TypeOK, WriteStage,
     ProcStages, SinkStages
<1>3. Buffers /\ Fresh /\ Versioned
  BY DEF Init, Buffers, Fresh, Versioned
<1>4. QED
  BY <1>2, <1>3 DEF TypeInv

(* Return(err) ends the call chain: nothing is in flight afterwards and   *)
(* the phase, failed and result stay well typed.                          *)
LEMMA ReturnType ==
    ASSUME TypeOK, cur \in Resources, NEW err \in BOOLEAN, Return(err)
    PROVE  /\ cur' = NoResource
           /\ failed' \subseteq Resources
           /\ phase' \in {"idle", "process", "finalize", "done"}
           /\ result' \in {"none", "ok", "error"}
BY DEF Return, TypeOK

\* Facts every case below uses.
LEMMA ConstFacts ==
    /\ NP \in Nat /\ NS \in Nat
    /\ NoResource \notin Resources
    /\ \A k \in 1..NP+NS : FinalizeOrder[k] = k
BY NPAssumption, NSAssumption, NoResourceAssumption DEF FinalizeOrder

(* Once a call chain has returned, the buffers, the fresh wrappers and    *)
(* the buffered versions are as they were, whatever happened to the      *)
(* wrapper of the resource that was in flight.                            *)
LEMMA AfterReturn ==
    ASSUME TypeOK, Buffers, Fresh, Versioned, cur \in submitted,
           cur' = NoResource, buffer' = buffer, submitted' = submitted,
           \A q \in Resources \ {cur} : wr'[q] = wr[q]
    PROVE  Buffers' /\ Fresh' /\ Versioned'
<1>1. Buffers'
  BY NoResourceAssumption DEF Buffers, TypeOK
<1>2. Fresh'
  BY DEF Fresh, TypeOK
<1>3. Versioned'
  BY DEF Versioned, Buffers, TypeOK
<1>4. QED
  BY <1>1, <1>2, <1>3

LEMMA TypeStep == TypeInv /\ [Next]_vars => TypeInv'
<1> SUFFICES ASSUME TypeInv, [Next]_vars PROVE TypeInv'
  OBVIOUS
<1> USE ConstFacts DEF TypeInv
<1>0. TypeOK /\ Buffers /\ Fresh /\ Versioned
  OBVIOUS
<1>1. ASSUME NEW r \in Resources, Process(r) PROVE TypeInv'
  <2>1. wr[r] = NewWrapper /\ \A i \in ProcStages : r \notin buffer[i]
    BY <1>0, <1>1 DEF Process, Fresh, Buffers
  <2>2. TypeOK'
    BY <1>0, <1>1 DEF Process, TypeOK, WriteStage, ProcStages
  <2>3. Buffers' /\ Fresh'
    BY <1>0, <1>1, <2>1 DEF Process, Buffers, Fresh
  <2>4. Versioned'
    BY <1>0, <1>1, <2>1 DEF Process, Versioned, VerAtMost, Bound, NewWrapper
  <2>5. QED
    BY <2>2, <2>3, <2>4
<1>2. CASE ProcessorForward
  <2>1. PICK t \in Touches : wr' = [wr EXCEPT ![cur] = Touch(@, t)]
    BY <1>2 DEF ProcessorForward
  <2>2. cur \in submitted /\ at \in ProcStages
        /\ VerAtMost(wr[cur], Bound(at)) /\ cur \in Resources
    BY <1>0, <1>2 DEF ProcessorForward, Versioned, TypeOK
  <2>3. Touch(wr[cur], t) \in WrapperT
        /\ VerAtMost(Touch(wr[cur], t), Bound(at) + 1)
    <3>1. Bound(at) \in Nat /\ Bound(at) + 1 \in Versions
      BY <2>2 DEF Bound, ProcStages, Versions
    <3>2. QED
      BY <1>0, <2>2, <3>1, TouchBound DEF TypeOK
  <2>4. TypeOK'
    BY <1>0, <1>2, <2>1, <2>2, <2>3 DEF ProcessorForward, TypeOK,
       ProcStages, WriteStage
  <2>5. Buffers' /\ Fresh'
    BY <1>0, <1>2, <2>1, <2>2 DEF ProcessorForward, Buffers, Fresh
  <2>6. Versioned'
    <3>1. VerAtMost(wr'[cur'], Bound(at'))
      <4>1. wr'[cur] = Touch(wr[cur], t) /\ cur' = cur /\ at' = at + 1
        BY <1>0, <1>2, <2>1, <2>2 DEF ProcessorForward, TypeOK
      <4>2. Bound(at) + 1 <= Bound(at + 1)
        BY <2>2 DEF Bound, ProcStages
      <4>3. Bound(at) + 1 \in Nat /\ Bound(at + 1) \in Nat
        BY <2>2 DEF Bound, ProcStages
      <4>4. QED
        BY <2>3, <4>1, <4>2, <4>3 DEF VerAtMost, WrapperT, Versions
    <3>2. \A i \in ProcStages : \A q \in buffer'[i] :
            VerAtMost(wr'[q], 2 * i - 1)
      BY <1>0, <1>2, <2>1, <2>2 DEF ProcessorForward, Versioned, Buffers,
         TypeOK
    <3>3. QED
      BY <1>2, <2>2, <3>1, <3>2 DEF ProcessorForward, Versioned
  <2>7. QED
    BY <2>4, <2>5, <2>6
<1>3. CASE ProcessorBuffer
  <2>1. PICK t \in Touches : wr' = [wr EXCEPT ![cur] = Touch(@, t)]
    BY <1>3 DEF ProcessorBuffer
  <2>2. cur \in submitted /\ at \in ProcStages
        /\ VerAtMost(wr[cur], Bound(at)) /\ cur \in Resources
    BY <1>0, <1>3 DEF ProcessorBuffer, Versioned, TypeOK
  <2>3. Touch(wr[cur], t) \in WrapperT
        /\ VerAtMost(Touch(wr[cur], t), Bound(at) + 1)
    <3>1. Bound(at) \in Nat /\ Bound(at) + 1 \in Versions
      BY <2>2 DEF Bound, ProcStages, Versions
    <3>2. QED
      BY <1>0, <2>2, <3>1, TouchBound DEF TypeOK
  <2>4. wr'[cur] = Touch(wr[cur], t)
        /\ \A q \in Resources \ {cur} : wr'[q] = wr[q]
    BY <1>0, <2>1, <2>2 DEF TypeOK
  <2>5. Bound(at) + 1 = 2 * at - 1
    BY <2>2 DEF Bound, ProcStages
  <2>6. cur' = NoResource /\ failed' \subseteq Resources
        /\ phase' \in {"idle", "process", "finalize", "done"}
        /\ result' \in {"none", "ok", "error"}
    BY <1>0, <1>3, <2>2, ReturnType DEF ProcessorBuffer
  <2>7. buffer' = [buffer EXCEPT ![at] = @ \cup {cur}]
    BY <1>3 DEF ProcessorBuffer
  <2>8. TypeOK'
    BY <1>0, <1>3, <2>1, <2>2, <2>3, <2>6, <2>7 DEF ProcessorBuffer, TypeOK
  <2>9. Buffers' /\ Fresh'
    BY <1>0, <1>3, <2>2, <2>4, <2>6, <2>7 DEF ProcessorBuffer, Buffers,
       Fresh, TypeOK
  <2>10. Versioned'
    <3>1. ASSUME NEW i \in ProcStages, NEW q \in buffer'[i]
          PROVE  VerAtMost(wr'[q], 2 * i - 1)
      <4>1. CASE q = cur
        <5>1. i = at
          BY <1>0, <2>7, <4>1, <3>1 DEF Buffers, TypeOK
        <5>2. QED
          BY <2>3, <2>4, <2>5, <4>1, <5>1 DEF VerAtMost
      <4>2. CASE q # cur
        BY <1>0, <2>2, <2>4, <2>7, <3>1, <4>2 DEF Versioned, Buffers,
           TypeOK
      <4>3. QED
        BY <4>1, <4>2
    <3>2. QED
      BY <2>6, <3>1 DEF Versioned
  <2>11. QED
    BY <2>8, <2>9, <2>10
<1>4. CASE ProcessorDrop \/ ProcessorFail
  <2>1. cur \in Resources
    BY <1>0, <1>4 DEF ProcessorDrop, ProcessorFail, TypeOK
  <2>2. cur' = NoResource /\ failed' \subseteq Resources
        /\ phase' \in {"idle", "process", "finalize", "done"}
        /\ result' \in {"none", "ok", "error"}
    BY <1>0, <1>4, <2>1, ReturnType DEF ProcessorDrop, ProcessorFail
  <2>3. TypeOK'
    BY <1>0, <1>4, <2>1, <2>2 DEF ProcessorDrop, ProcessorFail, TypeOK
  <2>4. Buffers' /\ Fresh' /\ Versioned'
    BY <1>0, <1>4, <2>2 DEF ProcessorDrop, ProcessorFail, Buffers, Fresh,
       Versioned, TypeOK
  <2>5. QED
    BY <2>3, <2>4
<1>5. CASE WriteToSinks
  <2>1. cur \in Resources /\ cur \in submitted /\ at = WriteStage
        /\ VerAtMost(wr[cur], Bound(at))
    BY <1>0, <1>5 DEF WriteToSinks, Versioned, TypeOK
  <2>2. Bound(at) \in Nat
    BY <2>1 DEF Bound, WriteStage
  <2>3. [wr[cur] EXCEPT !.done = TRUE] \in WrapperT
        /\ VerAtMost([wr[cur] EXCEPT !.done = TRUE], Bound(at))
    BY SMTT(30), <1>0, <2>1, <2>2, DoneBound DEF TypeOK
  <2>4. wr' = [wr EXCEPT ![cur] = [wr[cur] EXCEPT !.done = TRUE]]
        /\ UNCHANGED <<at, origin, fin, finalized, buffer, sinkBuf, stored,
                       submitted, dropped>>
    BY <1>5 DEF WriteToSinks
  <2>5. wr'[cur] = [wr[cur] EXCEPT !.done = TRUE]
        /\ \A q \in Resources \ {cur} : wr'[q] = wr[q]
    BY <1>0, <2>1, <2>4, Zenon DEF TypeOK
  <2>9. wr' \in [Resources -> WrapperT]
    BY <1>0, <2>1, <2>3, <2>4, Zenon DEF TypeOK
  <2>6. CASE NS = 0
    <3>1. cur' = NoResource /\ failed' \subseteq Resources
          /\ phase' \in {"idle", "process", "finalize", "done"}
          /\ result' \in {"none", "ok", "error"} /\ sk' = sk
      <4>1. Return(FALSE) /\ sk' = sk
        BY <1>5, <2>6, Zenon DEF WriteToSinks
      <4>2. QED
        BY <1>0, <2>1, <4>1, ReturnType, Zenon
    <3>2. TypeOK'
      <4>1. phase' \in {"idle", "process", "finalize", "done"}
            /\ cur' \in Resources \cup {NoResource}
        BY <3>1
      <4>2. at' \in 1..WriteStage /\ sk' \in 0..NS /\ origin' \in 0..NP
        BY <1>0, <2>4, <3>1 DEF TypeOK
      <4>3. fin' \in 1..NP+NS+1 /\ finalized' \subseteq ProcStages \cup SinkStages
        BY <1>0, <2>4 DEF TypeOK
      <4>4. buffer' \in [ProcStages -> SUBSET Resources]
            /\ sinkBuf' \in [1..NS -> SUBSET Entries]
            /\ stored' \in [1..NS -> SUBSET Entries]
        BY <1>0, <2>4 DEF TypeOK
      <4>5. wr' \in [Resources -> WrapperT]
        BY <2>9
      <4>7. submitted' \subseteq Resources /\ dropped' \subseteq Resources
        BY <1>0, <2>4 DEF TypeOK
      <4>8. failed' \subseteq Resources /\ result' \in {"none", "ok", "error"}
        BY <3>1
      <4>6. QED
        BY <4>1, <4>2, <4>3, <4>4, <4>5, <4>7, <4>8 DEF TypeOK
    <3>3. QED
      BY <1>0, <2>1, <2>4, <2>5, <3>1, <3>2, AfterReturn
  <2>7. CASE NS # 0
    <3>1. sk' = 1 /\ UNCHANGED <<phase, cur, failed, result>>
      BY <1>5, <2>7 DEF WriteToSinks
    <3>2. TypeOK'
      BY <1>0, <2>4, <2>9, <2>7, <3>1 DEF TypeOK
    <3>3. Buffers' /\ Fresh'
      BY <1>0, <2>1, <2>4, <2>5, <3>1 DEF Buffers, Fresh
    <3>4. Versioned'
      BY <1>0, <2>1, <2>3, <2>4, <2>5, <3>1 DEF Versioned, Buffers
    <3>5. QED
      BY <3>2, <3>3, <3>4
  <2>8. QED
    BY <2>6, <2>7
<1>6. CASE SinkStore \/ SinkBuffer
  <2>1. cur \in Resources /\ cur \in submitted /\ at = WriteStage
        /\ sk \in 1..NS /\ VerAtMost(wr[cur], Bound(at))
    BY <1>0, <1>6 DEF SinkStore, SinkBuffer, Versioned, TypeOK
  <2>0. PICK t \in SinkReads : SinkWrite(t)
    BY <1>6, SinkPick
  <2> DEFINE w == SinkRead(wr[cur], t)
             e == <<cur, Written(w, t)>>
  <2>2. w \in WrapperT /\ VerAtMost(w, Bound(at)) /\ Written(w, t) \in Versions
    BY <1>0, <2>1, SinkReadBound DEF TypeOK, Bound, WriteStage
  <2>3. UNCHANGED <<at, origin, fin, finalized, buffer, submitted, dropped>>
    BY <1>6 DEF SinkStore, SinkBuffer
  <2>10. wr' = [wr EXCEPT ![cur] = w] /\ NextSink
    BY <1>6, <2>0 DEF SinkStore, SinkBuffer, SinkWrite
  <2>4. /\ wr' \in [Resources -> WrapperT]
        /\ wr'[cur] = w
        /\ \A q \in Resources \ {cur} : wr'[q] = wr[q]
    BY <1>0, <2>1, <2>2, <2>10 DEF TypeOK
  <2>12. wr' \in [Resources -> WrapperT]
    BY <2>4, Zenon
  <2>5. e \in Entries
    BY <2>1, <2>2 DEF Entries
  <2> HIDE DEF w, e
  <2>6. /\ stored' \in [1..NS -> SUBSET Entries]
        /\ sinkBuf' \in [1..NS -> SUBSET Entries]
    <3>0. \/ stored' = [stored EXCEPT ![sk] = @ \cup {e}] /\ sinkBuf' = sinkBuf
          \/ sinkBuf' = [sinkBuf EXCEPT ![sk] = @ \cup {e}] /\ stored' = stored
      BY <2>0, Zenon DEF SinkWrite, w, e
    <3>1. CASE stored' = [stored EXCEPT ![sk] = @ \cup {e}] /\ sinkBuf' = sinkBuf
      <4>2. stored[sk] \cup {e} \in SUBSET Entries
        BY <1>0, <2>1, <2>5, Zenon DEF TypeOK
      <4>3. QED
        BY <1>0, <2>1, <3>1, <4>2 DEF TypeOK
    <3>2. CASE sinkBuf' = [sinkBuf EXCEPT ![sk] = @ \cup {e}] /\ stored' = stored
      <4>2. sinkBuf[sk] \cup {e} \in SUBSET Entries
        BY <1>0, <2>1, <2>5, Zenon DEF TypeOK
      <4>3. QED
        BY <1>0, <2>1, <3>2, <4>2 DEF TypeOK
    <3>3. QED
      BY <3>0, <3>1, <3>2
  <2>11. /\ at' \in 1..WriteStage /\ origin' \in 0..NP
         /\ fin' \in 1..NP+NS+1 /\ finalized' \subseteq ProcStages \cup SinkStages
         /\ buffer' \in [ProcStages -> SUBSET Resources]
         /\ submitted' \subseteq Resources /\ dropped' \subseteq Resources
    BY <1>0, <2>3 DEF TypeOK
  <2>7. CASE sk = NS
    <3>1. cur' = NoResource /\ failed' \subseteq Resources
          /\ phase' \in {"idle", "process", "finalize", "done"}
          /\ result' \in {"none", "ok", "error"} /\ sk' = 0
      <4>1. Return(FALSE) /\ sk' = 0
        BY <2>7, <2>10, Zenon DEF NextSink
      <4>2. QED
        BY <1>0, <2>1, <4>1, ReturnType, Zenon
    <3>2. TypeOK'
      <4>1. NoResource \in Resources \cup {NoResource} /\ 0 \in 0..NS
        OBVIOUS
      <4>2. QED
        BY <2>6, <2>11, <2>12, <3>1, <4>1 DEF TypeOK
    <3>3. QED
      BY <1>0, <2>1, <2>3, <2>4, <3>1, <3>2, AfterReturn
  <2>8. CASE sk # NS
    <3>1. sk' = sk + 1 /\ UNCHANGED <<phase, cur, failed, result>>
      BY <2>8, <2>10, Zenon DEF NextSink
    <3>2. TypeOK'
      <4>1. sk' \in 0..NS
        BY <2>1, <2>8, <3>1
      <4>2. phase' \in {"idle", "process", "finalize", "done"}
            /\ cur' \in Resources \cup {NoResource}
            /\ failed' \subseteq Resources /\ result' \in {"none", "ok", "error"}
        BY <1>0, <3>1 DEF TypeOK
      <4>3. QED
        BY <2>6, <2>11, <2>12, <4>1, <4>2 DEF TypeOK
    <3>3. Buffers' /\ Fresh'
      BY <1>0, <2>1, <2>3, <2>4, <3>1 DEF Buffers, Fresh
    <3>4. Versioned'
      <4>1. VerAtMost(wr'[cur'], Bound(at'))
        BY <2>2, <2>3, <2>4, <3>1, Zenon
      <4>2. \A i \in ProcStages : \A q \in buffer'[i] :
              VerAtMost(wr'[q], 2 * i - 1)
        BY <1>0, <2>1, <2>3, <2>4, <3>1 DEF Versioned, Buffers, TypeOK
      <4>3. QED
        BY <2>1, <2>3, <3>1, <4>1, <4>2 DEF Versioned
    <3>5. QED
      BY <3>2, <3>3, <3>4
  <2>9. QED
    BY <2>7, <2>8
<1>7. CASE SinkFail
  <2>1. cur \in Resources /\ cur \in submitted
    BY <1>0, <1>7 DEF SinkFail, TypeOK, Versioned
  <2>2. cur' = NoResource /\ failed' \subseteq Resources
        /\ phase' \in {"idle", "process", "finalize", "done"}
        /\ result' \in {"none", "ok", "error"}
    <3>1. Return(TRUE)
      BY <1>7, Zenon DEF SinkFail
    <3>2. QED
      BY <1>0, <2>1, <3>1, ReturnType, Zenon
  <2>3. sk' = 0 /\ UNCHANGED <<at, origin, fin, finalized, buffer, sinkBuf,
                               stored, wr, submitted, dropped>>
    BY <1>7 DEF SinkFail
  <2>4. TypeOK'
    BY <1>0, <2>2, <2>3 DEF TypeOK
  <2>5. QED
    BY <1>0, <2>1, <2>2, <2>3, <2>4, AfterReturn
<1>8. CASE Finalize
  <2>1. TypeOK'
    BY SMTT(30), <1>0, <1>8 DEF Finalize, TypeOK
  <2>2. Buffers' /\ Fresh' /\ Versioned'
    BY <1>0, <1>8 DEF Finalize, Buffers, Fresh, Versioned
  <2>3. QED
    BY <2>1, <2>2
<1>9. CASE ProcessorFlush
  <2>1. fin \in ProcStages /\ FinStage = fin /\ cur = NoResource
    BY <1>0, <1>9 DEF ProcessorFlush, FinalizeCalling, FinStage, TypeOK,
       ProcStages
  <2>2. PICK r \in buffer[fin], t \in Touches :
          /\ buffer' = [buffer EXCEPT ![fin] = @ \ {r}]
          /\ wr' = [wr EXCEPT ![r] = Touch(@, t)]
          /\ cur' = r
    <3>1. \E q \in buffer[FinStage], u \in Touches :
            /\ buffer' = [buffer EXCEPT ![FinStage] = @ \ {q}]
            /\ wr' = [wr EXCEPT ![q] = Touch(@, u)]
            /\ cur' = q
      BY <1>9, Zenon DEF ProcessorFlush
    <3>2. QED
      BY <2>1, <3>1, Zenon
  <2>3. /\ at' = fin + 1 /\ sk' = 0 /\ origin' = fin
        /\ UNCHANGED <<phase, fin, finalized, sinkBuf, stored, submitted,
                       dropped, failed, result>>
    <3>1. at' = FinStage + 1 /\ sk' = 0 /\ origin' = FinStage
          /\ UNCHANGED <<phase, fin, finalized, sinkBuf, stored, submitted,
                         dropped, failed, result>>
      BY <1>9, Zenon DEF ProcessorFlush
    <3>2. QED
      BY <2>1, <3>1
  <2>4. r \in Resources /\ r \in submitted /\ VerAtMost(wr[r], 2 * fin - 1)
    BY <1>0, <2>1, <2>2 DEF Buffers, Versioned, TypeOK
  <2>5. Touch(wr[r], t) \in WrapperT
        /\ VerAtMost(Touch(wr[r], t), 2 * fin - 1 + 1)
    <3>1. 2 * fin - 1 \in Nat /\ 2 * fin - 1 + 1 \in Versions
      BY <2>1 DEF ProcStages, Versions
    <3>2. QED
      BY <1>0, <2>4, <3>1, TouchBound DEF TypeOK
  <2>6. /\ wr' \in [Resources -> WrapperT]
        /\ wr'[r] = Touch(wr[r], t)
        /\ \A q \in Resources \ {r} : wr'[q] = wr[q]
    BY <1>0, <2>2, <2>4, <2>5 DEF TypeOK
  <2>7. TypeOK'
    <3>1. /\ buffer' \in [ProcStages -> SUBSET Resources]
          /\ at' \in 1..WriteStage /\ sk' \in 0..NS /\ origin' \in 0..NP
          /\ cur' \in Resources \cup {NoResource}
      BY <1>0, <2>1, <2>2, <2>3, <2>4 DEF TypeOK, ProcStages, WriteStage
    <3>2. QED
      BY <1>0, <2>3, <2>6, <3>1 DEF TypeOK
  <2>8. Buffers'
    BY <1>0, <2>1, <2>2, <2>3 DEF Buffers, TypeOK
  <2>9. Fresh'
    BY <1>0, <2>3, <2>4, <2>6 DEF Fresh
  <2>10. Versioned'
    <3>1. Bound(at') = 2 * fin - 1 + 1
      BY <2>1, <2>3 DEF Bound, ProcStages
    <3>2. VerAtMost(wr'[cur'], Bound(at'))
      BY <2>2, <2>5, <2>6, <3>1
    <3>3. \A i \in ProcStages : \A q \in buffer'[i] :
            VerAtMost(wr'[q], 2 * i - 1)
      BY <1>0, <2>1, <2>2, <2>6 DEF Versioned, Buffers, TypeOK
    <3>4. QED
      BY <2>2, <2>3, <2>4, <3>2, <3>3 DEF Versioned
  <2>11. QED
    BY <2>7, <2>8, <2>9, <2>10
<1>10. CASE ProcessorFinalized
  <2>1. fin \in ProcStages /\ FinStage = fin
    BY <1>0, <1>10 DEF ProcessorFinalized, FinalizeCalling, FinStage, TypeOK,
       ProcStages
  <2>2. TypeOK'
    BY <1>0, <1>10, <2>1 DEF ProcessorFinalized, FinalizeCalling, TypeOK,
       ProcStages
  <2>3. Buffers' /\ Fresh' /\ Versioned'
    BY <1>0, <1>10 DEF ProcessorFinalized, Buffers, Fresh, Versioned
  <2>4. QED
    BY <2>2, <2>3
<1>11. CASE SinkFinalized
  <2>1. fin \in SinkStages /\ FinStage = fin
    BY <1>0, <1>11 DEF SinkFinalized, FinalizeCalling, FinStage, TypeOK,
       SinkStages, ProcStages
  <2>2. fin - NP \in 1..NS
    BY <2>1 DEF SinkStages
  <2>3. /\ stored' = [stored EXCEPT ![fin - NP] = @ \cup sinkBuf[fin - NP]]
        /\ sinkBuf' = [sinkBuf EXCEPT ![fin - NP] = {}]
        /\ finalized' = finalized \cup {fin} /\ fin' = fin + 1
        /\ UNCHANGED <<phase, cur, at, sk, origin, buffer, wr, submitted,
                       dropped, failed, result>>
    BY <1>11, <2>1 DEF SinkFinalized
  <2>4. TypeOK'
    BY SMTT(30), <1>0, <1>11, <2>1, <2>2, <2>3 DEF FinalizeCalling, SinkFinalized,
       TypeOK, SinkStages
  <2>5. Buffers' /\ Fresh' /\ Versioned'
    BY <1>0, <2>3 DEF Buffers, Fresh, Versioned
  <2>6. QED
    BY <2>4, <2>5
<1>12. CASE FinalizeFail
  <2>1. fin \in ProcStages \cup SinkStages /\ FinStage = fin
    BY <1>0, <1>12 DEF FinalizeFail, FinalizeCalling, FinStage, TypeOK,
       ProcStages, SinkStages
  <2>2. TypeOK'
    BY <1>0, <1>12, <2>1 DEF FinalizeFail, TypeOK
  <2>3. Buffers' /\ Fresh' /\ Versioned'
    BY <1>0, <1>12 DEF FinalizeFail, Buffers, Fresh, Versioned
  <2>4. QED
    BY <2>2, <2>3
<1>13. CASE FinalizeReturn
  <2>1. TypeOK'
    BY SMTT(30), <1>0, <1>13 DEF FinalizeReturn, TypeOK
  <2>2. Buffers' /\ Fresh' /\ Versioned'
    BY <1>0, <1>13 DEF FinalizeReturn, Buffers, Fresh, Versioned
  <2>3. QED
    BY <2>1, <2>2
<1>14. CASE Finished \/ UNCHANGED vars
  <2>1. UNCHANGED vars
    BY <1>14 DEF Finished
  <2>2. QED
    BY <1>0, <2>1 DEF vars, TypeOK, Buffers, Fresh, Versioned
<1>100. QED
  BY <1>1, <1>2, <1>3, <1>4, <1>5, <1>6, <1>7, <1>8, <1>9, <1>10, <1>11,
     <1>12, <1>13, <1>14 DEF Next

-----------------------------------------------------------------------------
(* Finalize's progress and the call chain it can start.  Before Finalize   *)
(* nothing is finalized; the stages finalized are among the first fin; a   *)
(* resource in flight was either passed to Process, or flushed by the      *)
(* processor whose Finalize is running, and then it is past that stage.    *)
FinInv ==
    /\ phase \in {"idle", "process"} => fin = 1 /\ finalized = {}
    /\ finalized \subseteq 1..fin
    /\ cur # NoResource =>
         \/ phase = "process" /\ origin = 0
         \/ /\ phase = "finalize" /\ origin = fin
            /\ fin \in ProcStages /\ fin < at

\* The invariant NoCallAfterFinalize rests on.
CallInv == TypeInv /\ FinInv

(* Every state the pipeline reaches is well typed: in particular the      *)
(* wrapper's versions stay within 0..2*NP, since each processor mutates a *)
(* resource at most once on Process and once on its Finalize flush.       *)
THEOREM PipelineTypeCorrect == Spec => []TypeOK
<1>1. Init => TypeInv
  BY TypeInit
<1>2. TypeInv /\ [Next]_vars => TypeInv'
  BY TypeStep
<1>3. TypeInv => TypeOK
  BY DEF TypeInv
<1>4. QED
  BY <1>1, <1>2, <1>3, PTL DEF Spec

(* How Return(err) leaves the phase: back to idle after Process, on to   *)
(* the next Finalize call or done after a flush.                          *)
LEMMA ReturnPhase ==
    ASSUME NEW err \in BOOLEAN, Return(err)
    PROVE  /\ cur' = NoResource
           /\ origin = 0 => phase' = "idle"
           /\ origin # 0 => phase' \in {"finalize", "done"}
BY Zenon DEF Return

(* A call chain that returns keeps FinInv, whoever started it. *)
LEMMA FinAfterReturn ==
    ASSUME FinInv, cur # NoResource, cur' = NoResource,
           origin = 0 => phase' = "idle",
           origin # 0 => phase' \in {"finalize", "done"},
           fin' = fin, finalized' = finalized
    PROVE  FinInv'
<1>1. CASE phase = "process" /\ origin = 0
  BY <1>1 DEF FinInv
<1>2. CASE phase = "finalize" /\ origin = fin /\ fin \in ProcStages
  BY <1>2, NPAssumption DEF FinInv, ProcStages
<1>3. QED
  BY <1>1, <1>2 DEF FinInv

LEMMA FinStep == CallInv /\ [Next]_vars => FinInv'
<1> SUFFICES ASSUME TypeInv, FinInv, [Next]_vars PROVE FinInv'
  BY DEF CallInv
<1> USE ConstFacts
<1>0. TypeOK
  BY DEF TypeInv
<1>1. ASSUME NEW r \in Resources, Process(r) PROVE FinInv'
  BY <1>1 DEF Process, FinInv
<1>2. CASE ProcessorForward
  BY <1>0, <1>2 DEF ProcessorForward, FinInv, TypeOK
<1>3. CASE ProcessorBuffer \/ ProcessorDrop \/ ProcessorFail
  <2>1. PICK err \in BOOLEAN : Return(err)
    BY <1>3, Zenon DEF ProcessorBuffer, ProcessorDrop, ProcessorFail
  <2>2. cur # NoResource /\ fin' = fin /\ finalized' = finalized
    BY <1>3, Zenon DEF ProcessorBuffer, ProcessorDrop, ProcessorFail
  <2>3. QED
    BY <2>1, <2>2, ReturnPhase, FinAfterReturn
<1>4. CASE WriteToSinks
  <2>1. cur # NoResource /\ fin' = fin /\ finalized' = finalized
        /\ origin' = origin /\ at' = at
    BY <1>4 DEF WriteToSinks
  <2>2. CASE NS = 0
    <3>1. Return(FALSE)
      BY <1>4, <2>2, Zenon DEF WriteToSinks
    <3>2. QED
      BY <2>1, <3>1, ReturnPhase, FinAfterReturn, Zenon
  <2>3. CASE NS # 0
    <3>1. UNCHANGED <<phase, cur>>
      BY <1>4, <2>3 DEF WriteToSinks
    <3>2. QED
      BY <2>1, <3>1 DEF FinInv
  <2>4. QED
    BY <2>2, <2>3
<1>5. CASE SinkStore \/ SinkBuffer \/ SinkFail
  <2>1. cur # NoResource /\ fin' = fin /\ finalized' = finalized
        /\ origin' = origin /\ at' = at
    BY <1>5, Zenon DEF SinkStore, SinkBuffer, SinkFail
  <2>2. \/ \E err \in BOOLEAN : Return(err)
        \/ UNCHANGED <<phase, cur>>
    BY <1>5, Zenon DEF SinkStore, SinkBuffer, SinkFail, NextSink
  <2>3. QED
    BY <2>1, <2>2, ReturnPhase, FinAfterReturn DEF FinInv
<1>6. CASE Finalize
  BY <1>6 DEF Finalize, FinInv
<1>7. CASE ProcessorFlush
  <2>1. fin \in ProcStages /\ FinStage = fin /\ phase = "finalize"
    BY <1>0, <1>7 DEF ProcessorFlush, FinalizeCalling, FinStage, TypeOK,
       ProcStages
  <2>2. /\ cur' \in buffer[fin] /\ at' = fin + 1 /\ origin' = fin
        /\ UNCHANGED <<phase, fin, finalized>>
    BY <1>7, <2>1, Zenon DEF ProcessorFlush
  <2>3. QED
    BY <2>1, <2>2 DEF FinInv, ProcStages
<1>8. CASE ProcessorFinalized \/ SinkFinalized \/ FinalizeFail
  <2>1. fin \in 1..NP+NS /\ FinStage = fin /\ phase = "finalize"
        /\ cur = NoResource
    BY SMTT(30), <1>0, <1>8 DEF ProcessorFinalized, SinkFinalized, FinalizeFail,
       FinalizeCalling, FinStage, TypeOK
  <2>2. /\ finalized' = finalized \cup {fin}
        /\ fin' \in {fin, fin + 1}
        /\ phase' \in {"finalize", "done"} /\ cur' = NoResource
    BY <1>8, <2>1 DEF ProcessorFinalized, SinkFinalized, FinalizeFail
  <2>3. QED
    BY <2>1, <2>2 DEF FinInv
<1>9. CASE FinalizeReturn
  BY <1>9 DEF FinalizeReturn, FinInv
<1>10. CASE Finished \/ UNCHANGED vars
  <2>1. UNCHANGED vars
    BY <1>10 DEF Finished
  <2>2. QED
    BY <2>1 DEF vars, FinInv
<1>11. QED
  BY <1>1, <1>2, <1>3, <1>4, <1>5, <1>6, <1>7, <1>8, <1>9, <1>10 DEF Next

(* No processor's Process and no sink's Write is called after that stage's *)
(* Finalize returned (Pipeline.Finalize, client.go 732-746, against the   *)
(* flush path of a processor's Finalize), for any numbers of processors,  *)
(* sinks and resources.                                                    *)
THEOREM NoCallAfterFinalizeHolds == Spec => []NoCallAfterFinalize
<1>1. Init => CallInv
  BY TypeInit DEF Init, CallInv, FinInv
<1>2. CallInv /\ [Next]_vars => CallInv'
  BY TypeStep, FinStep DEF CallInv
<1>3. CallInv => NoCallAfterFinalize
  BY NPAssumption DEF CallInv, FinInv, NoCallAfterFinalize, TypeInv, TypeOK,
     ProcStages, WriteStage
<1>4. QED
  BY <1>1, <1>2, <1>3, PTL DEF Spec

-----------------------------------------------------------------------------
(* writeToSinks's progress: a resource in flight at a processor has not   *)
(* started on the sinks, and one at sink sk has been accepted by every    *)
(* sink before sk.                                                        *)
WriteProgress ==
    cur # NoResource =>
        /\ at \in ProcStages => sk = 0
        /\ at = WriteStage => \A j \in 1..sk-1 : cur \in Accepted(j)

\* The invariant SinkOrderPrefix rests on.
PrefixInv == TypeInv /\ WriteProgress /\ SinkOrderPrefix

(* Nothing a sink has accepted changes when stored and sinkBuf do not. *)
LEMMA AcceptedSame ==
    ASSUME stored' = stored, sinkBuf' = sinkBuf
    PROVE  \A j \in 1..NS : Accepted(j)' = Accepted(j)
BY DEF Accepted

(* A step that leaves what the sinks accepted alone, and that ends the    *)
(* call chain, starts one before the sinks, or leaves it where it is,     *)
(* keeps writeToSinks's progress and the prefix.                          *)
LEMMA PrefixKept ==
    ASSUME TypeOK, WriteProgress, SinkOrderPrefix,
           \A j \in 1..NS : Accepted(j)' = Accepted(j),
           \/ cur' = NoResource
           \/ sk' = 0
           \/ cur' = cur /\ at' = at /\ sk' = sk
    PROVE  WriteProgress' /\ SinkOrderPrefix'
<1>1. SinkOrderPrefix'
  BY DEF SinkOrderPrefix
<1>2. WriteProgress'
  <2>1. CASE cur' = NoResource
    BY <2>1 DEF WriteProgress
  <2>2. CASE sk' = 0
    <3>1. 1..sk'-1 = {}
      BY <2>2
    <3>2. QED
      BY <2>2, <3>1 DEF WriteProgress
  <2>3. CASE cur' = cur /\ at' = at /\ sk' = sk
    <3>1. cur # NoResource /\ at \in ProcStages => sk = 0
      BY DEF WriteProgress
    <3>2. ASSUME NEW j \in 1..sk-1, cur # NoResource, at = WriteStage
          PROVE  cur \in Accepted(j)'
      <4>1. \A jj \in 1..sk-1 : cur \in Accepted(jj)
        BY <3>2 DEF WriteProgress
      <4>4. sk \in 0..NS
        BY DEF TypeOK
      <4>2. j \in 1..NS
        BY <4>4, ConstFacts
      <4>3. QED
        BY <4>1, <4>2
    <3>3. QED
      BY <2>3, <3>1, <3>2 DEF WriteProgress
  <2>4. QED
    BY <2>1, <2>2, <2>3
<1>3. QED
  BY <1>1, <1>2

(* Sink sk accepting the resource in flight: every sink before sk already *)
(* holds it, so the sinks holding it are still a prefix, and once the     *)
(* loop moves on to sink sk+1 every sink before that one holds it.        *)
LEMMA SinkAccept ==
    ASSUME TypeOK, WriteProgress, SinkOrderPrefix,
           cur # NoResource, at = WriteStage, sk \in 1..NS,
           \A j \in 1..NS : Accepted(j)' =
               IF j = sk THEN Accepted(j) \cup {cur} ELSE Accepted(j),
           \/ cur' = NoResource
           \/ cur' = cur /\ at' = at /\ sk' = sk + 1
    PROVE  WriteProgress' /\ SinkOrderPrefix'
<1>1. \A j \in 1..sk-1 : cur \in Accepted(j)
  BY DEF WriteProgress
<1>2. SinkOrderPrefix'
  <2> SUFFICES ASSUME NEW r \in Resources, NEW j \in 1..NS, NEW k \in 1..NS,
                      j < k, r \in Accepted(k)'
               PROVE  r \in Accepted(j)'
    BY DEF SinkOrderPrefix
  <2>1. CASE k = sk /\ r = cur
    <3>1. j \in 1..sk-1 /\ j # sk
      BY <2>1 DEF TypeOK
    <3>2. cur \in Accepted(j)
      BY <3>1, <1>1
    <3>3. Accepted(j)' = Accepted(j)
      BY <3>1
    <3>4. QED
      BY <2>1, <3>2, <3>3
  <2>2. CASE ~(k = sk /\ r = cur)
    <3>1. r \in Accepted(k)
      BY <2>2
    <3>2. r \in Accepted(j)
      BY <3>1 DEF SinkOrderPrefix
    <3>3. QED
      BY <3>2
  <2>3. QED
    BY <2>1, <2>2
<1>3. WriteProgress'
  <2>1. CASE cur' = NoResource
    BY <2>1 DEF WriteProgress
  <2>2. CASE cur' = cur /\ at' = at /\ sk' = sk + 1
    <3>1. at' \notin ProcStages
      BY <2>2, ConstFacts DEF WriteStage, ProcStages
    <3>2. \A j \in 1..sk : cur \in Accepted(j)'
      BY <1>1, ConstFacts DEF TypeOK
    <3>3. QED
      BY <2>2, <3>1, <3>2 DEF WriteProgress
  <2>3. QED
    BY <2>1, <2>2
<1>4. QED
  BY <1>2, <1>3


(* A sink's Write adds the resource in flight to what sink sk accepted    *)
(* and to nothing else.                                                   *)
LEMMA AcceptWrite ==
    ASSUME TypeOK, SinkStore \/ SinkBuffer
    PROVE  \A j \in 1..NS : Accepted(j)' =
               IF j = sk THEN Accepted(j) \cup {cur} ELSE Accepted(j)
<1>1. sk \in 1..NS
  BY DEF SinkStore, SinkBuffer, TypeOK
<1>0. PICK t \in SinkReads : SinkWrite(t)
  BY SinkPick
<1> DEFINE e == <<cur, Written(SinkRead(wr[cur], t), t)>>
<1>2. \/ stored' = [stored EXCEPT ![sk] = @ \cup {e}] /\ sinkBuf' = sinkBuf
      \/ sinkBuf' = [sinkBuf EXCEPT ![sk] = @ \cup {e}] /\ stored' = stored
  BY <1>0, Zenon DEF SinkWrite
<1>3. stored \in [1..NS -> SUBSET Entries]
      /\ sinkBuf \in [1..NS -> SUBSET Entries] /\ e[1] = cur
  BY DEF TypeOK
<1> HIDE DEF e
<1>4. \A j \in 1..NS : stored'[j] \cup sinkBuf'[j] =
          IF j = sk THEN stored[j] \cup sinkBuf[j] \cup {e}
          ELSE stored[j] \cup sinkBuf[j]
  <2>1. CASE stored' = [stored EXCEPT ![sk] = @ \cup {e}] /\ sinkBuf' = sinkBuf
    BY <2>1, <1>1, <1>3
  <2>2. CASE sinkBuf' = [sinkBuf EXCEPT ![sk] = @ \cup {e}] /\ stored' = stored
    BY <2>2, <1>1, <1>3
  <2>3. QED
    BY <1>2, <2>1, <2>2
<1>5. QED
  BY <1>3, <1>4 DEF Accepted

(* A sink's Finalize moves its batch to what it stored: what every sink   *)
(* accepted stays the same.                                               *)
LEMMA AcceptFinalized ==
    ASSUME TypeOK, SinkFinalized
    PROVE  \A j \in 1..NS : Accepted(j)' = Accepted(j)
<1>1. fin \in 1..NP+NS /\ FinStage = fin /\ fin - NP \in 1..NS
  BY ConstFacts DEF SinkFinalized, FinalizeCalling, FinStage, SinkStages,
     TypeOK
<1> DEFINE j0 == FinStage - NP
<1>2. /\ stored' = [stored EXCEPT ![j0] = @ \cup sinkBuf[j0]]
      /\ sinkBuf' = [sinkBuf EXCEPT ![j0] = {}]
  BY DEF SinkFinalized
<1>3. \A j \in 1..NS : stored'[j] \cup sinkBuf'[j] = stored[j] \cup sinkBuf[j]
  BY <1>1, <1>2 DEF TypeOK
<1>4. QED
  BY <1>3 DEF Accepted

(* Every step keeps writeToSinks's progress and the prefix.  Only a sink's *)
(* Write adds to what the sinks accepted; a sink's Finalize moves what it *)
(* batched to what it stored.                                             *)
LEMMA PrefixStep == PrefixInv /\ [Next]_vars => (WriteProgress /\ SinkOrderPrefix)'
<1> SUFFICES ASSUME TypeInv, WriteProgress, SinkOrderPrefix, [Next]_vars
             PROVE  WriteProgress' /\ SinkOrderPrefix'
  BY DEF PrefixInv
<1>0. TypeOK
  BY DEF TypeInv
<1>1. CASE \E r \in Resources : Process(r)
  <2>1. sk' = 0 /\ stored' = stored /\ sinkBuf' = sinkBuf
    BY <1>1 DEF Process
  <2>2. QED
    BY <1>0, <2>1, AcceptedSame, PrefixKept
<1>2. CASE ProcessorForward
  <2>1. /\ cur # NoResource /\ at \in ProcStages
        /\ cur' = cur /\ sk' = sk /\ stored' = stored /\ sinkBuf' = sinkBuf
    BY <1>2 DEF ProcessorForward
  <2>2. sk' = 0
    BY <2>1 DEF WriteProgress
  <2>3. QED
    BY <1>0, <2>1, <2>2, AcceptedSame, PrefixKept
<1>3. CASE ProcessorBuffer \/ ProcessorDrop \/ ProcessorFail \/ SinkFail
  <2>1. cur' = NoResource /\ stored' = stored /\ sinkBuf' = sinkBuf
    BY <1>3, Zenon DEF ProcessorBuffer, ProcessorDrop, ProcessorFail,
       SinkFail, Return
  <2>2. QED
    BY <1>0, <2>1, AcceptedSame, PrefixKept
<1>4. CASE WriteToSinks
  <2>1. stored' = stored /\ sinkBuf' = sinkBuf /\ at' = at /\ at = WriteStage
    BY <1>4 DEF WriteToSinks
  <2>2. CASE NS = 0
    <3>1. cur' = NoResource
      BY <1>4, <2>2, Zenon DEF WriteToSinks, Return
    <3>2. QED
      BY <1>0, <2>1, <3>1, AcceptedSame, PrefixKept
  <2>3. CASE NS # 0
    <3>1. sk' = 1
      BY <1>4, <2>3, Zenon DEF WriteToSinks
    <3>2. at' \notin ProcStages /\ 1..sk'-1 = {}
      BY <2>1, <3>1, ConstFacts DEF WriteStage, ProcStages
    <3>3. WriteProgress'
      BY <2>1, <3>2 DEF WriteProgress
    <3>4. SinkOrderPrefix'
      BY <2>1, AcceptedSame DEF SinkOrderPrefix
    <3>5. QED
      BY <3>3, <3>4
  <2>4. QED
    BY <2>2, <2>3
<1>5. CASE SinkStore \/ SinkBuffer
  <2>1. cur # NoResource /\ at = WriteStage /\ sk \in 1..NS /\ at' = at
    BY <1>0, <1>5 DEF SinkStore, SinkBuffer, TypeOK
  <2>3. \A j \in 1..NS : Accepted(j)' =
            IF j = sk THEN Accepted(j) \cup {cur} ELSE Accepted(j)
    BY <1>0, <1>5, AcceptWrite
  <2>4. NextSink
    BY <1>5 DEF SinkStore, SinkBuffer
  <2>5. \/ cur' = NoResource
        \/ cur' = cur /\ at' = at /\ sk' = sk + 1
    BY <2>1, <2>4, Zenon DEF NextSink, Return
  <2>7. QED
    BY <1>0, <2>1, <2>3, <2>5, SinkAccept
<1>6. CASE ProcessorFlush
  <2>1. sk' = 0 /\ stored' = stored /\ sinkBuf' = sinkBuf
    BY <1>6 DEF ProcessorFlush
  <2>2. QED
    BY <1>0, <2>1, AcceptedSame, PrefixKept
<1>7. CASE Finalize \/ ProcessorFinalized \/ FinalizeFail \/ FinalizeReturn
           \/ Finished \/ UNCHANGED vars
  <2>1. cur' = cur /\ at' = at /\ sk' = sk /\ stored' = stored
        /\ sinkBuf' = sinkBuf
    BY <1>7 DEF Finalize, ProcessorFinalized, FinalizeFail, FinalizeReturn,
       Finished, vars
  <2>2. QED
    BY <1>0, <2>1, AcceptedSame, PrefixKept
<1>8. CASE SinkFinalized
  <2>1. cur' = cur /\ at' = at /\ sk' = sk
    BY <1>8 DEF SinkFinalized
  <2>2. \A j \in 1..NS : Accepted(j)' = Accepted(j)
    BY <1>0, <1>8, AcceptFinalized
  <2>3. QED
    BY <1>0, <2>1, <2>2, PrefixKept
<1>9. QED
  BY <1>1, <1>2, <1>3, <1>4, <1>5, <1>6, <1>7, <1>8 DEF Next


(* writeToSinks calls the sinks in list order and returns at the first    *)
(* failing Write, and a sink's Finalize only moves what it batched        *)
(* (client.go 643-656, 700-711): for every number of processors, sinks and *)
(* resources, the sinks that accepted a resource are a prefix of the sink  *)
(* list.                                                                   *)
THEOREM SinkOrderPrefixHolds == Spec => []SinkOrderPrefix
<1>1. Init => PrefixInv
  <2> SUFFICES ASSUME Init PROVE PrefixInv
    OBVIOUS
  <2>1. TypeInv
    BY TypeInit
  <2>2. WriteProgress /\ SinkOrderPrefix
    BY DEF Init, WriteProgress, SinkOrderPrefix, Accepted
  <2>3. QED
    BY <2>1, <2>2 DEF PrefixInv
<1>2. PrefixInv /\ [Next]_vars => PrefixInv'
  BY PrefixStep, TypeStep DEF PrefixInv
<1>3. PrefixInv => SinkOrderPrefix
  BY DEF PrefixInv
<1>4. QED
  BY <1>1, <1>2, <1>3, PTL DEF Spec


-----------------------------------------------------------------------------
(* Why NoResourceLost holds.  A wrapper always holds one representation,  *)
(* and when it holds both they agree; a resource is only touched by a      *)
(* processor before doneMutating is set.                                  *)
RepOK(w) ==
    /\ w.json \/ w.proto
    /\ w.json /\ w.proto => w.jsonVer = w.protoVer

RepInv == \A r \in Resources : RepOK(wr[r])

Undone ==
    /\ cur # NoResource /\ at \in ProcStages => ~wr[cur].done
    /\ \A i \in ProcStages : \A r \in buffer[i] : ~wr[r].done

\* Sink j holds (stored or batched) resource r with its current content.
Delivered(r, j) == <<r, Content(wr[r])>> \in stored[j] \cup sinkBuf[j]

\* Resource r is still in the pipeline: in flight or in a processor's buffer.
Pending(r) == r = cur \/ \E i \in ProcStages : r \in buffer[i]

(* Every resource that was neither dropped nor failed is still in the     *)
(* pipeline or held by every sink; the one at sink sk is held by the     *)
(* sinks before sk.                                                       *)
NoneLost ==
    \A r \in submitted \ (dropped \cup failed) :
        Pending(r) \/ \A j \in 1..NS : Delivered(r, j)

SinkProgress ==
    cur # NoResource /\ at = WriteStage =>
        \A j \in 1..sk-1 : Delivered(cur, j)

(* The stages Finalize has passed hold nothing, and Finalize returned nil *)
(* only after passing every stage.                                        *)
FinDone ==
    /\ \A i \in ProcStages : i < fin => buffer[i] = {}
    /\ \A j \in 1..NS : NP + j < fin => sinkBuf[j] = {}
    /\ result = "ok" => phase = "done" /\ fin = NP + NS + 1 /\ cur = NoResource

\* The invariant NoResourceLost rests on.
LostInv == PrefixInv /\ FinInv /\ RepInv /\ Undone /\ NoneLost /\ SinkProgress
           /\ FinDone


(* A processor's touch before doneMutating leaves the wrapper consistent  *)
(* and still mutable: Proto() drops the json it could make stale.         *)
LEMMA TouchRep ==
    ASSUME NEW w \in WrapperT, NEW t \in Touches, RepOK(w), ~w.done
    PROVE  RepOK(Touch(w, t)) /\ ~Touch(w, t).done
<1>1. RepOK(Proto(w)) /\ ~Proto(w).done /\ ~Proto(w).json /\ Proto(w).proto
  BY Zenon DEF Proto, RepOK, WrapperT
<1>2. RepOK(Mutate(Proto(w))) /\ ~Mutate(Proto(w)).done
  <2>1. Proto(w) \in WrapperT
    <3>1. 2 * NP \in Nat /\ VerAtMost(w, 2 * NP)
      BY NPAssumption DEF VerAtMost, WrapperT, Versions
    <3>2. QED
      BY <3>1, ProtoBound
  <2>2. /\ Mutate(Proto(w)).json = Proto(w).json
        /\ Mutate(Proto(w)).proto = Proto(w).proto
        /\ Mutate(Proto(w)).done = Proto(w).done
    BY <2>1, Zenon DEF Mutate, WrapperT
  <2>3. QED
    BY <1>1, <2>2 DEF RepOK
<1>3. QED
  BY <1>1, <1>2 DEF Touch, Touches

(* JSON() keeps a consistent wrapper consistent, keeps its content and    *)
(* returns bytes of that content.                                         *)
LEMMA JSONRep ==
    ASSUME NEW w \in WrapperT, RepOK(w)
    PROVE  /\ RepOK(JSON(w))
           /\ Content(JSON(w)) = Content(w)
           /\ JSON(w).jsonVer = Content(w)
           /\ JSON(w).done = w.done
<1>1. CASE w.json
  BY <1>1 DEF JSON, RepOK, Content
<1>2. CASE ~w.json
  <2>1. JSON(w) = [w EXCEPT !.json = TRUE, !.jsonVer = w.protoVer]
    BY <1>2 DEF JSON
  <2>2. w.proto
    BY <1>2 DEF RepOK
  <2>3. /\ JSON(w).json /\ JSON(w).proto /\ JSON(w).jsonVer = w.protoVer
        /\ JSON(w).protoVer = w.protoVer /\ JSON(w).done = w.done
    BY <2>1, <2>2, Zenon DEF WrapperT
  <2>4. QED
    BY <2>2, <2>3 DEF RepOK, Content
<1>3. QED
  BY <1>1, <1>2

(* Proto() keeps a consistent wrapper consistent and keeps its content,   *)
(* which the proto then holds.                                            *)
LEMMA ProtoRep ==
    ASSUME NEW w \in WrapperT, RepOK(w)
    PROVE  /\ RepOK(Proto(w))
           /\ Content(Proto(w)) = Content(w)
           /\ Proto(w).protoVer = Content(w)
           /\ Proto(w).done = w.done
<1>1. /\ Proto(w).proto /\ Proto(w).json = (w.done /\ w.json)
      /\ Proto(w).jsonVer = w.jsonVer /\ Proto(w).done = w.done
      /\ Proto(w).protoVer = IF w.proto THEN w.protoVer ELSE w.jsonVer
  BY Zenon DEF Proto, WrapperT
<1>2. CASE w.proto
  <2>1. Proto(w).protoVer = w.protoVer
    BY <1>1, <1>2
  <2>2. QED
    BY <1>1, <1>2, <2>1 DEF RepOK, Content
<1>3. CASE ~w.proto
  <2>1. Proto(w).protoVer = w.jsonVer /\ w.json
    BY <1>1, <1>3 DEF RepOK
  <2>2. QED
    BY <1>1, <1>3, <2>1 DEF RepOK, Content
<1>4. QED
  BY <1>2, <1>3

(* A sink's read keeps a consistent wrapper consistent, keeps its content *)
(* and its flag, and what the sink writes is that content.                *)
LEMMA SinkReadRep ==
    ASSUME NEW w \in WrapperT, NEW t \in SinkReads, RepOK(w)
    PROVE  /\ RepOK(SinkRead(w, t))
           /\ Content(SinkRead(w, t)) = Content(w)
           /\ Written(SinkRead(w, t), t) = Content(w)
           /\ SinkRead(w, t).done = w.done
<1>1. CASE t = "json"
  <2>1. SinkRead(w, t) = JSON(w)
    BY <1>1 DEF SinkRead
  <2>2. QED
    BY <1>1, <2>1, JSONRep DEF Written
<1>2. CASE t = "proto"
  <2>1. SinkRead(w, t) = Proto(w)
    BY <1>2 DEF SinkRead
  <2>2. QED
    BY <1>2, <2>1, ProtoRep DEF Written
<1>3. CASE t = "both"
  <2>1. SinkRead(w, t) = JSON(Proto(w))
    BY <1>3 DEF SinkRead
  <2>2. Proto(w) \in WrapperT
    <3>1. 2 * NP \in Nat /\ VerAtMost(w, 2 * NP)
      BY NPAssumption DEF VerAtMost, WrapperT, Versions
    <3>2. QED
      BY <3>1, ProtoBound
  <2>3. RepOK(Proto(w)) /\ Content(Proto(w)) = Content(w)
        /\ Proto(w).done = w.done
    BY ProtoRep
  <2>4. QED
    BY <1>3, <2>1, <2>2, <2>3, JSONRep DEF Written
<1>4. QED
  BY <1>1, <1>2, <1>3 DEF SinkReads

(* Setting doneMutating changes neither the representations nor the      *)
(* content.                                                               *)
LEMMA DoneRep ==
    ASSUME NEW w \in WrapperT, RepOK(w)
    PROVE  /\ RepOK([w EXCEPT !.done = TRUE])
           /\ Content([w EXCEPT !.done = TRUE]) = Content(w)
<1>1. /\ [w EXCEPT !.done = TRUE].json = w.json
      /\ [w EXCEPT !.done = TRUE].proto = w.proto
      /\ [w EXCEPT !.done = TRUE].jsonVer = w.jsonVer
      /\ [w EXCEPT !.done = TRUE].protoVer = w.protoVer
  BY Zenon DEF WrapperT
<1>2. QED
  BY <1>1 DEF RepOK, Content


(* Only the resource in flight, or the one a flush takes from a buffer,   *)
(* has its wrapper changed.                                                *)
LEMMA WrapperUpdate ==
    ASSUME NEW c \in Resources, NEW v,
           wr \in [Resources -> WrapperT], wr' = [wr EXCEPT ![c] = v]
    PROVE  wr'[c] = v /\ \A q \in Resources \ {c} : wr'[q] = wr[q]
BY Zenon

\* The facts of LostInv the steps below use.
LEMMA LostFacts ==
    ASSUME LostInv
    PROVE  /\ TypeOK /\ Buffers /\ Fresh /\ FinInv /\ WriteProgress
           /\ RepInv /\ Undone /\ NoneLost /\ SinkProgress /\ FinDone
BY DEF LostInv, PrefixInv, TypeInv

(* The wrappers stay consistent and no processor sees a wrapper after     *)
(* writeToSinks set doneMutating.                                         *)
LEMMA RepStep == LostInv /\ [Next]_vars => RepInv' /\ Undone'
<1> SUFFICES ASSUME LostInv, [Next]_vars PROVE RepInv' /\ Undone'
  OBVIOUS
<1>0. /\ TypeOK /\ Buffers /\ Fresh /\ RepInv /\ Undone
  BY LostFacts
<1>1. CASE \E r \in Resources : Process(r)
  <2>1. PICK r \in Resources : Process(r)
    BY <1>1
  <2>2. r \notin submitted /\ wr' = wr /\ buffer' = buffer /\ cur' = r
    BY <2>1 DEF Process
  <2>3. ~wr[r].done
    BY <1>0, <2>2 DEF Fresh, NewWrapper
  <2>4. QED
    BY <1>0, <2>2, <2>3 DEF RepInv, Undone
<1>2. CASE ProcessorForward \/ ProcessorBuffer
  <2>0. cur # NoResource /\ at \in ProcStages
    BY <1>2, Zenon DEF ProcessorForward, ProcessorBuffer
  <2>1. cur \in Resources /\ at \in ProcStages
    BY <1>0, <2>0 DEF TypeOK
  <2>2. ~wr[cur].done /\ RepOK(wr[cur]) /\ wr[cur] \in WrapperT
    <3>1. ~wr[cur].done
      BY <1>0, <2>0 DEF Undone
    <3>2. RepOK(wr[cur]) /\ wr[cur] \in WrapperT
      BY <1>0, <2>1 DEF RepInv, TypeOK
    <3>3. QED
      BY <3>1, <3>2
  <2>3. PICK t \in Touches : wr' = [wr EXCEPT ![cur] = Touch(wr[cur], t)]
    BY <1>2, Zenon DEF ProcessorForward, ProcessorBuffer
  <2>4. RepOK(wr'[cur]) /\ ~wr'[cur].done
        /\ \A q \in Resources \ {cur} : wr'[q] = wr[q]
    BY <1>0, <2>1, <2>2, <2>3, TouchRep, WrapperUpdate DEF TypeOK
  <2>5. RepInv'
    BY <1>0, <2>4 DEF RepInv
  <2>6. CASE ProcessorForward
    <3>1. cur' = cur /\ buffer' = buffer
      BY <2>6 DEF ProcessorForward
    <3>2. \A i \in ProcStages : cur \notin buffer[i]
      BY <1>0 DEF Buffers
    <3>3. \A i \in ProcStages : \A r \in buffer'[i] : ~wr'[r].done
      <4>1. SUFFICES ASSUME NEW i \in ProcStages, NEW r \in buffer[i]
                     PROVE  ~wr'[r].done
        BY <3>1
      <4>2. r \in Resources \ {cur}
        BY SMTT(30), <1>0, <3>2 DEF TypeOK
      <4>3. QED
        BY <1>0, <2>4, <4>2 DEF Undone
    <3>4. cur' # NoResource /\ at' \in ProcStages => ~wr'[cur'].done
      BY <2>4, <3>1
    <3>5. QED
      BY <2>5, <3>3, <3>4 DEF Undone
  <2>7. CASE ProcessorBuffer
    <3>1. cur' = NoResource
      BY <2>7, Zenon DEF ProcessorBuffer, Return
    <3>2. buffer' = [buffer EXCEPT ![at] = @ \cup {cur}]
      BY <2>7 DEF ProcessorBuffer
    <3>3. \A i \in ProcStages : \A r \in buffer'[i] : r = cur \/ r \in buffer[i]
      BY <1>0, <3>2 DEF TypeOK
    <3>4. \A i \in ProcStages : cur \notin buffer[i]
      BY <1>0 DEF Buffers
    <3>5. \A i \in ProcStages : \A r \in buffer'[i] : ~wr'[r].done
      BY SMTT(30), <1>0, <2>4, <3>3, <3>4 DEF Undone, TypeOK
    <3>6. QED
      BY <2>5, <3>1, <3>5 DEF Undone
  <2>8. QED
    BY <1>2, <2>6, <2>7
<1>3. CASE ProcessorDrop \/ ProcessorFail \/ SinkFail
  <2>1. cur' = NoResource /\ wr' = wr /\ buffer' = buffer
    BY <1>3, Zenon DEF ProcessorDrop, ProcessorFail, SinkFail, Return
  <2>2. QED
    BY <1>0, <2>1 DEF RepInv, Undone
<1>4. CASE WriteToSinks \/ SinkStore \/ SinkBuffer
  <2>0. cur # NoResource /\ at = WriteStage /\ buffer' = buffer /\ at' = at
    BY <1>4, Zenon DEF WriteToSinks, SinkStore, SinkBuffer
  <2>1. cur \in Resources /\ at = WriteStage /\ at \notin ProcStages
        /\ buffer' = buffer /\ at' = at
    BY <1>0, <2>0, ConstFacts DEF TypeOK, WriteStage, ProcStages
  <2>2. RepOK(wr[cur]) /\ wr[cur] \in WrapperT
    BY <1>0, <2>1 DEF RepInv, TypeOK
  <2>3. RepOK(wr'[cur]) /\ \A q \in Resources \ {cur} : wr'[q] = wr[q]
    <3>1. CASE WriteToSinks
      <4>1. wr' = [wr EXCEPT ![cur] = [wr[cur] EXCEPT !.done = TRUE]]
        BY <3>1 DEF WriteToSinks
      <4>2. QED
        BY <1>0, <2>1, <2>2, <4>1, DoneRep, WrapperUpdate DEF TypeOK
    <3>2. CASE SinkStore \/ SinkBuffer
      <4>0. PICK t \in SinkReads : SinkWrite(t)
        BY <3>2, SinkPick
      <4>1. wr' = [wr EXCEPT ![cur] = SinkRead(wr[cur], t)]
        BY <4>0 DEF SinkWrite
      <4>2. QED
        BY <1>0, <2>1, <2>2, <4>1, SinkReadRep, WrapperUpdate DEF TypeOK
    <3>3. QED
      BY <1>4, <3>1, <3>2
  <2>4. \A i \in ProcStages : cur \notin buffer[i]
    BY <1>0 DEF Buffers
  <2>5. cur' \in {cur, NoResource}
    BY <1>4, Zenon DEF WriteToSinks, SinkStore, SinkBuffer, NextSink, Return
  <2>6. RepInv'
    BY <1>0, <2>3 DEF RepInv
  <2>7. \A i \in ProcStages : \A r \in buffer'[i] : ~wr'[r].done
    <3>1. SUFFICES ASSUME NEW i \in ProcStages, NEW r \in buffer[i]
                   PROVE  ~wr'[r].done
      BY <2>1
    <3>2. r \in Resources \ {cur}
      BY <1>0, <2>4 DEF TypeOK
    <3>3. QED
      BY <1>0, <2>3, <3>2 DEF Undone
  <2>8. QED
    BY <2>1, <2>6, <2>7 DEF Undone
<1>5. CASE ProcessorFlush
  <2>1. cur = NoResource /\ FinStage \in ProcStages
    BY <1>5 DEF ProcessorFlush, FinalizeCalling
  <2>2. PICK r \in buffer[FinStage], t \in Touches :
          /\ buffer' = [buffer EXCEPT ![FinStage] = @ \ {r}]
          /\ wr' = [wr EXCEPT ![r] = Touch(wr[r], t)]
          /\ cur' = r
    BY <1>5, Zenon DEF ProcessorFlush
  <2>3. r \in Resources /\ ~wr[r].done /\ RepOK(wr[r]) /\ wr[r] \in WrapperT
    BY <1>0, <2>1 DEF Undone, RepInv, TypeOK
  <2>4. RepOK(wr'[r]) /\ ~wr'[r].done
        /\ \A q \in Resources \ {r} : wr'[q] = wr[q]
    BY <1>0, <2>2, <2>3, TouchRep, WrapperUpdate DEF TypeOK
  <2>5. \A i \in ProcStages : buffer'[i] \subseteq buffer[i] \ {r}
    BY <1>0, <2>1, <2>2 DEF TypeOK, Buffers
  <2>6. QED
    BY SMTT(30), <1>0, <2>2, <2>4, <2>5 DEF RepInv, Undone, TypeOK
<1>6. CASE Finalize \/ ProcessorFinalized \/ SinkFinalized \/ FinalizeFail
           \/ FinalizeReturn \/ Finished \/ UNCHANGED vars
  <2>1. cur' = cur /\ at' = at /\ wr' = wr /\ buffer' = buffer
    BY <1>6 DEF Finalize, ProcessorFinalized, SinkFinalized, FinalizeFail,
       FinalizeReturn, Finished, vars
  <2>2. QED
    BY SMTT(30), <1>0, <2>1 DEF RepInv, Undone
<1>7. QED
  BY <1>1, <1>2, <1>3, <1>4, <1>5, <1>6 DEF Next

(* What Return(err) does to the resources that failed. *)
LEMMA ReturnFailed ==
    ASSUME NEW err \in BOOLEAN, Return(err)
    PROVE  /\ cur' = NoResource
           /\ err => failed' = failed \cup {cur}
           /\ ~err => failed' = failed
BY Zenon DEF Return

(* A resource a sink holds stays held when the sinks only gain entries    *)
(* and its content does not change.                                       *)
LEMMA DeliveredKept ==
    ASSUME NEW r, NEW j,
           Content(wr'[r]) = Content(wr[r]),
           stored[j] \cup sinkBuf[j] \subseteq stored'[j] \cup sinkBuf'[j],
           Delivered(r, j)
    PROVE  Delivered(r, j)'
BY DEF Delivered

(* The steps that move no resource: what the sinks hold together, stored *)
(* or batched, is unchanged (a sink's Finalize moves its batch to stored). *)
LEMMA DeliverQuiet ==
    ASSUME LostInv,
           Finalize \/ ProcessorFinalized \/ SinkFinalized \/ FinalizeFail
           \/ FinalizeReturn \/ Finished \/ UNCHANGED vars
    PROVE  NoneLost' /\ SinkProgress'
<1>0. TypeOK /\ NoneLost /\ SinkProgress
  BY SMTT(30), LostFacts
<1>1. UNCHANGED <<cur, at, sk, buffer, wr, submitted, dropped, failed>>
  BY DEF Finalize, ProcessorFinalized, SinkFinalized, FinalizeFail,
     FinalizeReturn, Finished, vars
<1>2. \A j \in 1..NS : stored'[j] \cup sinkBuf'[j] = stored[j] \cup sinkBuf[j]
  <2>1. CASE SinkFinalized
    <3>1. fin \in 1..NP+NS /\ FinStage = fin /\ fin \in SinkStages
      BY <1>0, <2>1, ConstFacts DEF SinkFinalized, FinalizeCalling, FinStage,
         TypeOK
    <3>2. /\ fin - NP \in 1..NS
          /\ stored' = [stored EXCEPT ![fin - NP] = @ \cup sinkBuf[fin - NP]]
          /\ sinkBuf' = [sinkBuf EXCEPT ![fin - NP] = {}]
      BY <2>1, <3>1, ConstFacts DEF SinkFinalized, SinkStages
    <3>3. QED
      BY <1>0, <3>2 DEF TypeOK
  <2>2. CASE ~SinkFinalized
    <3>1. stored' = stored /\ sinkBuf' = sinkBuf
      BY SMTT(30), <2>2 DEF Finalize, ProcessorFinalized, FinalizeFail,
         FinalizeReturn, Finished, vars
    <3>2. QED
      BY SMTT(30), <3>1
  <2>3. QED
    BY <2>1, <2>2
<1>3. \A r \in Resources, j \in 1..NS : Delivered(r, j)' = Delivered(r, j)
  BY SMTT(30), <1>1, <1>2 DEF Delivered
<1>4. \A r \in Resources : Pending(r)' = Pending(r)
  BY <1>1 DEF Pending
<1>5. NoneLost'
  BY <1>0, <1>1, <1>3, <1>4 DEF NoneLost, TypeOK
<1>6. SinkProgress'
  <2>1. (cur # NoResource => cur \in Resources) /\ 1..sk-1 \subseteq 1..NS
    BY <1>0, ConstFacts DEF TypeOK
  <2>2. SUFFICES ASSUME cur # NoResource, at = WriteStage,
                        NEW j \in 1..sk-1
                 PROVE  Delivered(cur, j)'
    BY <1>1 DEF SinkProgress
  <2>3. Delivered(cur, j)
    BY <1>0, <2>2 DEF SinkProgress
  <2>4. QED
    BY <1>1, <1>3, <2>1, <2>2, <2>3
<1>7. QED
  BY <1>5, <1>6

(* Pipeline.Process: the new resource is in flight, every other one stays *)
(* where it was (no call chain runs while the pipeline is idle).          *)
LEMMA DeliverProcess ==
    ASSUME LostInv, NEW r0 \in Resources, Process(r0)
    PROVE  NoneLost' /\ SinkProgress'
<1>0. TypeOK /\ FinInv /\ NoneLost
  BY LostFacts
<1>1. cur = NoResource
  BY <1>0 DEF Process, FinInv
<1>2. /\ cur' = r0 /\ at' = 1 /\ sk' = 0
      /\ submitted' = submitted \cup {r0}
      /\ UNCHANGED <<buffer, sinkBuf, stored, wr, dropped, failed>>
  BY DEF Process
<1>3. SinkProgress'
  BY <1>2 DEF SinkProgress
<1>4. NoneLost'
  <2> SUFFICES ASSUME NEW r \in submitted' \ (dropped' \cup failed')
               PROVE  Pending(r)' \/ \A j \in 1..NS : Delivered(r, j)'
    BY DEF NoneLost
  <2>1. CASE r = r0
    BY <1>2, <2>1 DEF Pending
  <2>2. CASE r # r0
    <3>1. r \in submitted \ (dropped \cup failed) /\ r \in Resources
      BY <1>0, <1>2, <2>2 DEF TypeOK
    <3>2. Pending(r) \/ \A j \in 1..NS : Delivered(r, j)
      BY <1>0, <3>1 DEF NoneLost
    <3>3. Pending(r) => \E i \in ProcStages : r \in buffer[i]
      BY <1>1, <3>1, ConstFacts DEF Pending
    <3>4. QED
      BY <1>2, <3>2, <3>3 DEF Pending, Delivered
  <2>3. QED
    BY <2>1, <2>2
<1>5. QED
  BY <1>3, <1>4

(* A processor forwards the resource in flight: it stays in flight, and   *)
(* no other resource's wrapper changes.                                   *)
LEMMA DeliverForward ==
    ASSUME LostInv, ProcessorForward
    PROVE  NoneLost' /\ SinkProgress'
<1>0. TypeOK /\ WriteProgress /\ NoneLost
  BY LostFacts
<1>1. cur # NoResource /\ at \in ProcStages
  BY Zenon DEF ProcessorForward
<1>2. cur \in Resources
  BY <1>0, <1>1 DEF TypeOK
<1>3. PICK t \in Touches : wr' = [wr EXCEPT ![cur] = Touch(wr[cur], t)]
  BY Zenon DEF ProcessorForward
<1>4. \A q \in Resources \ {cur} : wr'[q] = wr[q]
  BY <1>0, <1>2, <1>3, WrapperUpdate DEF TypeOK
<1>5. /\ cur' = cur /\ at' = at + 1
      /\ UNCHANGED <<sk, buffer, sinkBuf, stored, submitted, dropped, failed>>
  BY DEF ProcessorForward
<1>6. sk = 0
  BY <1>0, <1>1 DEF WriteProgress
<1>7. SinkProgress'
  BY <1>5, <1>6 DEF SinkProgress
<1>8. NoneLost'
  <2> SUFFICES ASSUME NEW r \in submitted \ (dropped \cup failed)
               PROVE  Pending(r)' \/ \A j \in 1..NS : Delivered(r, j)'
    BY <1>5 DEF NoneLost
  <2>1. CASE r = cur
    BY <1>5, <2>1 DEF Pending
  <2>2. CASE r # cur
    <3>1. r \in Resources \ {cur}
      BY <1>0, <2>2 DEF TypeOK
    <3>2. Pending(r) \/ \A j \in 1..NS : Delivered(r, j)
      BY <1>0 DEF NoneLost
    <3>3. QED
      BY <1>4, <1>5, <3>1, <3>2 DEF Pending, Delivered
  <2>3. QED
    BY <2>1, <2>2
<1>9. QED
  BY <1>7, <1>8

(* A processor buffers the resource in flight: it is now in that         *)
(* processor's buffer, waiting for its Finalize.                          *)
LEMMA DeliverBuffer ==
    ASSUME LostInv, ProcessorBuffer
    PROVE  NoneLost' /\ SinkProgress'
<1>0. TypeOK /\ NoneLost
  BY LostFacts
<1>1. cur # NoResource /\ at \in ProcStages
  BY Zenon DEF ProcessorBuffer
<1>2. cur \in Resources
  BY <1>0, <1>1 DEF TypeOK
<1>3. PICK t \in Touches : wr' = [wr EXCEPT ![cur] = Touch(wr[cur], t)]
  BY Zenon DEF ProcessorBuffer
<1>4. \A q \in Resources \ {cur} : wr'[q] = wr[q]
  BY <1>0, <1>2, <1>3, WrapperUpdate DEF TypeOK
<1>5. cur' = NoResource /\ failed' = failed
  BY ReturnFailed DEF ProcessorBuffer
<1>6. /\ buffer' = [buffer EXCEPT ![at] = @ \cup {cur}]
      /\ UNCHANGED <<sinkBuf, stored, submitted, dropped>>
  BY DEF ProcessorBuffer
<1>7. cur \in buffer'[at] /\ \A i \in ProcStages : buffer[i] \subseteq buffer'[i]
  BY <1>0, <1>1, <1>6 DEF TypeOK
<1>8. SinkProgress'
  BY <1>5 DEF SinkProgress
<1>9. NoneLost'
  <2> SUFFICES ASSUME NEW r \in submitted \ (dropped \cup failed)
               PROVE  Pending(r)' \/ \A j \in 1..NS : Delivered(r, j)'
    BY <1>5, <1>6 DEF NoneLost
  <2>1. CASE r = cur
    BY <1>1, <1>7, <2>1 DEF Pending
  <2>2. CASE r # cur
    <3>1. r \in Resources \ {cur}
      BY <1>0, <2>2 DEF TypeOK
    <3>2. Pending(r) \/ \A j \in 1..NS : Delivered(r, j)
      BY <1>0 DEF NoneLost
    <3>3. QED
      BY <1>4, <1>6, <1>7, <3>1, <3>2 DEF Pending, Delivered
  <2>3. QED
    BY <2>1, <2>2
<1>10. QED
  BY <1>8, <1>9

(* A processor drops the resource, or it or a sink fails: the resource    *)
(* leaves the pipeline as dropped or failed, and nothing else moves.      *)
LEMMA DeliverGone ==
    ASSUME LostInv, ProcessorDrop \/ ProcessorFail \/ SinkFail
    PROVE  NoneLost' /\ SinkProgress'
<1>0. TypeOK /\ NoneLost
  BY LostFacts
<1>1. /\ cur # NoResource /\ cur' = NoResource
      /\ dropped \subseteq dropped' /\ failed \subseteq failed'
      /\ cur \in dropped' \cup failed'
  <2>1. CASE ProcessorDrop
    <3>1. Return(FALSE) /\ dropped' = dropped \cup {cur} /\ cur # NoResource
      BY <2>1, Zenon DEF ProcessorDrop
    <3>2. cur' = NoResource /\ failed' = failed
      BY <3>1, Zenon DEF Return
    <3>3. QED
      BY <3>1, <3>2
  <2>2. CASE ProcessorFail \/ SinkFail
    <3>1. Return(TRUE) /\ dropped' = dropped /\ cur # NoResource
      BY <2>2, Zenon DEF ProcessorFail, SinkFail
    <3>2. cur' = NoResource /\ failed' = failed \cup {cur}
      BY <3>1, Zenon DEF Return
    <3>3. QED
      BY <3>1, <3>2
  <2>3. QED
    BY <2>1, <2>2
<1>2. UNCHANGED <<buffer, wr, stored, sinkBuf, submitted>>
  BY Zenon DEF ProcessorDrop, ProcessorFail, SinkFail
<1>3. SinkProgress'
  BY <1>1 DEF SinkProgress
<1>4. NoneLost'
  <2> SUFFICES ASSUME NEW r \in submitted' \ (dropped' \cup failed')
               PROVE  Pending(r)' \/ \A j \in 1..NS : Delivered(r, j)'
    BY DEF NoneLost
  <2>1. r \in submitted \ (dropped \cup failed) /\ r # cur
    BY <1>1, <1>2
  <2>2. Pending(r) \/ \A j \in 1..NS : Delivered(r, j)
    BY <1>0, <2>1 DEF NoneLost
  <2>3. QED
    BY <1>2, <2>1, <2>2 DEF Pending, Delivered
<1>5. QED
  BY <1>3, <1>4

(* writeToSinks sets doneMutating, which changes no content; with no sink *)
(* it returns at once, and the resource is trivially held by every sink.  *)
LEMMA DeliverWrite ==
    ASSUME LostInv, WriteToSinks
    PROVE  NoneLost' /\ SinkProgress'
<1>0. TypeOK /\ RepInv /\ NoneLost
  BY LostFacts
<1>1. cur # NoResource /\ sk = 0
  BY DEF WriteToSinks
<1>2. cur \in Resources /\ RepOK(wr[cur]) /\ wr[cur] \in WrapperT
  BY <1>0, <1>1 DEF TypeOK, RepInv
<1>3. wr' = [wr EXCEPT ![cur] = [wr[cur] EXCEPT !.done = TRUE]]
  BY DEF WriteToSinks
<1>4. \A q \in Resources : Content(wr'[q]) = Content(wr[q])
  <2>1. Content(wr'[cur]) = Content(wr[cur])
    BY <1>0, <1>2, <1>3, DoneRep, WrapperUpdate DEF TypeOK
  <2>2. \A q \in Resources \ {cur} : wr'[q] = wr[q]
    BY <1>0, <1>2, <1>3, Zenon DEF TypeOK
  <2>3. QED
    BY <2>1, <2>2
<1>5. UNCHANGED <<buffer, sinkBuf, stored, submitted, dropped>>
  BY DEF WriteToSinks
<1>6. /\ failed' = failed
      /\ \/ cur' = NoResource /\ NS = 0
         \/ cur' = cur /\ sk' = 1 /\ at' = at
  <2>1. CASE NS = 0
    <3>1. Return(FALSE)
      BY <2>1, Zenon DEF WriteToSinks
    <3>2. cur' = NoResource /\ failed' = failed
      BY <3>1, ReturnFailed
    <3>3. QED
      BY <2>1, <3>2
  <2>2. CASE NS # 0
    BY <2>2 DEF WriteToSinks
  <2>3. QED
    BY <2>1, <2>2
<1>7. SinkProgress'
  BY <1>6 DEF SinkProgress
<1>8. NoneLost'
  <2> SUFFICES ASSUME NEW r \in submitted \ (dropped \cup failed)
               PROVE  Pending(r)' \/ \A j \in 1..NS : Delivered(r, j)'
    BY <1>5, <1>6 DEF NoneLost
  <2>1. r \in Resources
    BY <1>0 DEF TypeOK
  <2>2. CASE r = cur
    BY <1>6, <2>2 DEF Pending
  <2>3. CASE r # cur
    <3>1. Pending(r) \/ \A j \in 1..NS : Delivered(r, j)
      BY <1>0 DEF NoneLost
    <3>2. QED
      BY <1>4, <1>5, <1>6, <2>1, <2>3, <3>1 DEF Pending, Delivered
  <2>4. QED
    BY <2>2, <2>3
<1>9. QED
  BY <1>7, <1>8

(* Sink sk writes what it reads, which is the current content: the       *)
(* resource is now held by sinks 1..sk, and by every sink once writeToSinks *)
(* returns after the last one.                                            *)
LEMMA DeliverSink ==
    ASSUME LostInv, SinkStore \/ SinkBuffer
    PROVE  NoneLost' /\ SinkProgress'
<1>0. TypeOK /\ RepInv /\ NoneLost /\ SinkProgress
  BY LostFacts
<1>1. cur # NoResource /\ at = WriteStage /\ sk >= 1
  BY Zenon DEF SinkStore, SinkBuffer
<1>2. cur \in Resources /\ sk \in 1..NS /\ RepOK(wr[cur])
      /\ wr[cur] \in WrapperT
  BY <1>0, <1>1 DEF TypeOK, RepInv
<1>20. PICK t \in SinkReads : SinkWrite(t)
  BY SinkPick
<1> DEFINE w == SinkRead(wr[cur], t)
           e == <<cur, Written(w, t)>>
<1>3. Written(w, t) = Content(wr[cur]) /\ Content(w) = Content(wr[cur])
  BY <1>2, SinkReadRep
<1>4. /\ wr' = [wr EXCEPT ![cur] = w] /\ NextSink
      /\ UNCHANGED <<at, buffer, submitted, dropped>>
  BY <1>20, Zenon DEF SinkStore, SinkBuffer, SinkWrite
<1>12. UNCHANGED <<at, buffer, submitted, dropped>>
  BY <1>4
<1>5. \A q \in Resources : Content(wr'[q]) = Content(wr[q])
  <2>1. wr'[cur] = w /\ \A q \in Resources \ {cur} : wr'[q] = wr[q]
    BY <1>0, <1>2, <1>4, Zenon DEF TypeOK
  <2>2. QED
    BY <1>3, <2>1
<1>6. /\ \A j \in 1..NS : stored[j] \cup sinkBuf[j]
                           \subseteq stored'[j] \cup sinkBuf'[j]
      /\ e \in stored'[sk] \cup sinkBuf'[sk]
  <2> HIDE DEF w, e
  <2>0. \/ stored' = [stored EXCEPT ![sk] = @ \cup {e}] /\ sinkBuf' = sinkBuf
        \/ sinkBuf' = [sinkBuf EXCEPT ![sk] = @ \cup {e}] /\ stored' = stored
    BY <1>20, Zenon DEF SinkWrite, w, e
  <2>1. CASE stored' = [stored EXCEPT ![sk] = @ \cup {e}] /\ sinkBuf' = sinkBuf
    BY <1>0, <1>2, <2>1 DEF TypeOK
  <2>2. CASE sinkBuf' = [sinkBuf EXCEPT ![sk] = @ \cup {e}] /\ stored' = stored
    BY <1>0, <1>2, <2>2 DEF TypeOK
  <2>3. QED
    BY <2>0, <2>1, <2>2
<1>7. \A j \in 1..sk : <<cur, Content(wr'[cur])>> \in stored'[j] \cup sinkBuf'[j]
  <2> SUFFICES ASSUME NEW j \in 1..sk
               PROVE  <<cur, Content(wr'[cur])>> \in stored'[j] \cup sinkBuf'[j]
    OBVIOUS
  <2>1. CASE j < sk
    <3>1. Delivered(cur, j)
      BY <1>0, <1>1, <1>2, <2>1 DEF SinkProgress
    <3>2. j \in 1..NS
      BY <1>2, ConstFacts
    <3>3. Content(wr'[cur]) = Content(wr[cur])
      BY <1>2, <1>5
    <3>4. QED
      BY <1>6, <3>1, <3>2, <3>3 DEF Delivered
  <2>2. CASE j = sk
    BY <1>3, <1>5, <1>6, <1>2, <2>2 DEF Delivered
  <2>3. QED
    BY <1>2, <2>1, <2>2
<1>8. /\ failed' = failed
      /\ \/ cur' = NoResource /\ sk = NS
         \/ cur' = cur /\ at' = at /\ sk' = sk + 1
  <2>1. CASE sk = NS
    <3>1. Return(FALSE)
      BY <1>4, <2>1, Zenon DEF NextSink
    <3>2. cur' = NoResource /\ failed' = failed
      BY <3>1, Zenon DEF Return
    <3>3. QED
      BY <2>1, <3>2
  <2>2. CASE sk # NS
    BY <1>4, <2>2, Zenon DEF NextSink
  <2>3. QED
    BY <2>1, <2>2
<1>9. SinkProgress'
  <2>1. CASE cur' = cur /\ at' = at /\ sk' = sk + 1
    <3>1. \A j \in 1..sk : Delivered(cur, j)'
      BY <1>7, <2>1 DEF Delivered
    <3>2. QED
      BY <1>2, <2>1, <3>1 DEF SinkProgress
  <2>2. CASE cur' = NoResource
    BY <2>2 DEF SinkProgress
  <2>3. QED
    BY <1>8, <2>1, <2>2
<1>10. NoneLost'
  <2> SUFFICES ASSUME NEW r \in submitted \ (dropped \cup failed)
               PROVE  Pending(r)' \/ \A j \in 1..NS : Delivered(r, j)'
    BY <1>4, <1>8 DEF NoneLost
  <2>1. r \in Resources
    BY <1>0 DEF TypeOK
  <2>2. CASE r = cur /\ cur' = cur
    BY <2>2 DEF Pending
  <2>3. CASE r = cur /\ cur' = NoResource
    <3>1. sk = NS
      BY <1>1, <1>8, <2>3, ConstFacts
    <3>2. \A j \in 1..NS : Delivered(r, j)'
      BY <1>7, <2>3, <3>1 DEF Delivered
    <3>3. QED
      BY <3>2
  <2>4. CASE r # cur
    <3>1. Pending(r) \/ \A j \in 1..NS : Delivered(r, j)
      BY SMTT(30), <1>0 DEF NoneLost
    <3>2. \A j \in 1..NS : Delivered(r, j) => Delivered(r, j)'
      BY <1>5, <1>6, <2>1, DeliveredKept
    <3>3. Pending(r) => Pending(r)'
      BY <1>12, <1>8, <2>4 DEF Pending
    <3>4. QED
      BY <3>1, <3>2, <3>3
  <2>5. QED
    BY <1>8, <2>2, <2>3, <2>4
<1>11. QED
  BY <1>9, <1>10

(* A processor's Finalize takes a resource out of its buffer and forwards *)
(* it: it is in flight again, and nothing else moves.                     *)
LEMMA DeliverFlush ==
    ASSUME LostInv, ProcessorFlush
    PROVE  NoneLost' /\ SinkProgress'
<1>0. TypeOK /\ NoneLost
  BY LostFacts
<1>1. cur = NoResource /\ FinStage \in ProcStages
  BY DEF ProcessorFlush, FinalizeCalling
<1>2. PICK r0 \in buffer[FinStage], t \in Touches :
        /\ buffer' = [buffer EXCEPT ![FinStage] = @ \ {r0}]
        /\ wr' = [wr EXCEPT ![r0] = Touch(wr[r0], t)]
        /\ cur' = r0
  BY Zenon DEF ProcessorFlush
<1>3. r0 \in Resources /\ \A q \in Resources \ {r0} : wr'[q] = wr[q]
  BY <1>0, <1>1, <1>2, Zenon DEF TypeOK
<1>4. \A i \in ProcStages : buffer[i] \ {r0} \subseteq buffer'[i]
  BY <1>0, <1>1, <1>2 DEF TypeOK
<1>5. /\ sk' = 0
      /\ UNCHANGED <<sinkBuf, stored, submitted, dropped, failed>>
  BY Zenon DEF ProcessorFlush
<1>6. SinkProgress'
  BY <1>5 DEF SinkProgress
<1>7. NoneLost'
  <2> SUFFICES ASSUME NEW r \in submitted \ (dropped \cup failed)
               PROVE  Pending(r)' \/ \A j \in 1..NS : Delivered(r, j)'
    BY <1>5 DEF NoneLost
  <2>1. CASE r = r0
    BY <1>2, <2>1 DEF Pending
  <2>2. CASE r # r0
    <3>1. r \in Resources \ {r0}
      BY <1>0, <2>2 DEF TypeOK
    <3>2. Pending(r) \/ \A j \in 1..NS : Delivered(r, j)
      BY <1>0 DEF NoneLost
    <3>3. Pending(r) => \E i \in ProcStages : r \in buffer'[i]
      BY <1>1, <1>4, <3>1, ConstFacts DEF Pending
    <3>4. QED
      BY <1>3, <1>5, <3>1, <3>2, <3>3 DEF Pending, Delivered
  <2>3. QED
    BY <2>1, <2>2
<1>8. QED
  BY <1>6, <1>7

LEMMA DeliverStep == LostInv /\ [Next]_vars => NoneLost' /\ SinkProgress'
<1> SUFFICES ASSUME LostInv, [Next]_vars PROVE NoneLost' /\ SinkProgress'
  OBVIOUS
<1>1. CASE \E r \in Resources : Process(r)
  BY <1>1, DeliverProcess
<1>2. CASE ProcessorForward
  BY <1>2, DeliverForward
<1>3. CASE ProcessorBuffer
  BY <1>3, DeliverBuffer
<1>4. CASE ProcessorDrop \/ ProcessorFail \/ SinkFail
  BY <1>4, DeliverGone
<1>5. CASE WriteToSinks
  BY <1>5, DeliverWrite
<1>6. CASE SinkStore \/ SinkBuffer
  BY <1>6, DeliverSink
<1>7. CASE ProcessorFlush
  BY <1>7, DeliverFlush
<1>8. CASE Finalize \/ ProcessorFinalized \/ SinkFinalized \/ FinalizeFail
           \/ FinalizeReturn \/ Finished \/ UNCHANGED vars
  BY <1>8, DeliverQuiet
<1>9. QED
  BY <1>1, <1>2, <1>3, <1>4, <1>5, <1>6, <1>7, <1>8 DEF Next

(* Finalize's progress is untouched by a step that leaves the buffers,    *)
(* the sinks' batches and fin alone and cannot make Finalize return nil.  *)
LEMMA FinDoneSame ==
    ASSUME FinDone, buffer' = buffer, sinkBuf' = sinkBuf, fin' = fin,
           result' \in {result, "error"}, result # "ok"
    PROVE  FinDone'
BY DEF FinDone

(* Return(err) can turn the result only into an error. *)
LEMMA ReturnResult ==
    ASSUME NEW err \in BOOLEAN, Return(err)
    PROVE  result' \in {result, "error"}
BY Zenon DEF Return

(* Where a call chain can add to a buffer: Pipeline.Process runs before   *)
(* Finalize (fin = 1), and a flush by processor fin only reaches stages   *)
(* after fin.                                                             *)
LEMMA ChainAhead ==
    ASSUME TypeOK, FinInv, cur # NoResource
    PROVE  /\ at >= fin
           /\ \A j \in 1..NS : NP + j >= fin
BY ConstFacts DEF FinInv, TypeOK, ProcStages, WriteStage

LEMMA FinDoneStep == LostInv /\ [Next]_vars => FinDone'
<1> SUFFICES ASSUME LostInv, [Next]_vars PROVE FinDone'
  OBVIOUS
<1>0. TypeOK /\ FinInv /\ FinDone
  BY LostFacts
<1>1. cur # NoResource \/ phase # "done" => result # "ok"
  BY <1>0 DEF FinDone
<1>2. CASE \E r \in Resources : Process(r)
  BY <1>0, <1>1, <1>2, FinDoneSame DEF Process
<1>3. CASE ProcessorForward
  BY <1>0, <1>1, <1>3, FinDoneSame DEF ProcessorForward
<1>4. CASE ProcessorBuffer
  <2>1. cur # NoResource /\ at \in ProcStages /\ Return(FALSE)
    BY <1>4, Zenon DEF ProcessorBuffer
  <2>2. result' \in {result, "error"} /\ result # "ok"
    <3>1. result' \in {result, "error"}
      BY <2>1, Zenon DEF Return
    <3>2. QED
      BY <1>1, <2>1, <3>1
  <2>3. /\ buffer' = [buffer EXCEPT ![at] = @ \cup {cur}]
        /\ UNCHANGED <<fin, sinkBuf>>
    BY <1>4 DEF ProcessorBuffer
  <2>4. at >= fin
    BY <1>0, <2>1, ChainAhead
  <2>5. \A i \in ProcStages : i < fin => buffer'[i] = buffer[i]
    BY <1>0, <2>1, <2>3, <2>4 DEF TypeOK
  <2>6. QED
    BY <1>0, <2>2, <2>3, <2>5 DEF FinDone
<1>5. CASE ProcessorDrop \/ ProcessorFail \/ SinkFail \/ WriteToSinks
           \/ SinkStore
  <2>1. cur # NoResource
    BY <1>5, Zenon DEF ProcessorDrop, ProcessorFail, SinkFail, WriteToSinks,
       SinkStore
  <2>2. UNCHANGED <<buffer, sinkBuf, fin>>
    BY <1>5, Zenon DEF ProcessorDrop, ProcessorFail, SinkFail, WriteToSinks,
       SinkStore
  <2>3. result' \in {result, "error"}
    <3>1. \/ \E err \in BOOLEAN : Return(err)
          \/ result' = result
      BY <1>5, Zenon DEF ProcessorDrop, ProcessorFail, SinkFail,
         WriteToSinks, SinkStore, NextSink
    <3>2. QED
      BY <3>1, ReturnResult
  <2>4. QED
    BY <1>0, <1>1, <2>1, <2>2, <2>3, FinDoneSame
<1>6. CASE SinkBuffer
  <2>1. cur # NoResource /\ sk \in 1..NS
    BY <1>0, <1>6 DEF SinkBuffer, TypeOK
  <2>2. result' \in {result, "error"} /\ result # "ok"
    <3>1. \/ Return(FALSE)
          \/ result' = result
      BY <1>6, Zenon DEF SinkBuffer, NextSink
    <3>2. result' \in {result, "error"}
      BY <3>1, Zenon DEF Return
    <3>3. QED
      BY <1>1, <2>1, <3>2
  <2>3. /\ \E e : sinkBuf' = [sinkBuf EXCEPT ![sk] = @ \cup {e}]
        /\ UNCHANGED <<fin, buffer>>
    BY <1>6, Zenon DEF SinkBuffer
  <2>4. NP + sk >= fin
    BY <1>0, <2>1, ChainAhead
  <2>5. \A j \in 1..NS : NP + j < fin => sinkBuf'[j] = sinkBuf[j]
    BY <1>0, <2>1, <2>3, <2>4, ConstFacts DEF TypeOK
  <2>6. QED
    BY <1>0, <2>2, <2>3, <2>5 DEF FinDone
<1>7. CASE Finalize \/ FinalizeFail
  <2>1. phase \in {"idle", "finalize"} /\ result' \in {result, "error"}
        /\ UNCHANGED <<buffer, sinkBuf, fin>>
    BY SMTT(30), <1>7 DEF Finalize, FinalizeFail, FinalizeCalling
  <2>2. QED
    BY <1>0, <1>1, <2>1, FinDoneSame
<1>8. CASE ProcessorFlush
  <2>1. phase = "finalize" /\ FinStage \in ProcStages
    BY <1>8 DEF ProcessorFlush, FinalizeCalling
  <2>2. PICK r0 \in buffer[FinStage] :
          buffer' = [buffer EXCEPT ![FinStage] = @ \ {r0}]
    BY <1>8, Zenon DEF ProcessorFlush
  <2>3. UNCHANGED <<sinkBuf, fin, result>>
    BY <1>8 DEF ProcessorFlush
  <2>4. \A i \in ProcStages : buffer'[i] \subseteq buffer[i]
    BY SMTT(30), <1>0, <2>1, <2>2 DEF TypeOK
  <2>5. QED
    BY <1>0, <1>1, <2>1, <2>3, <2>4 DEF FinDone
<1>9. CASE ProcessorFinalized
  <2>1. fin \in ProcStages /\ FinStage = fin /\ phase = "finalize"
    BY <1>0, <1>9, ConstFacts DEF ProcessorFinalized, FinalizeCalling,
       FinStage, TypeOK, ProcStages
  <2>2. buffer[fin] = {} /\ fin' = fin + 1
        /\ UNCHANGED <<buffer, sinkBuf, result, phase>>
    BY <1>9, <2>1 DEF ProcessorFinalized
  <2>3. QED
    BY <1>0, <1>1, <2>1, <2>2, ConstFacts DEF FinDone, ProcStages
<1>10. CASE SinkFinalized
  <2>1. fin \in SinkStages /\ FinStage = fin /\ phase = "finalize"
    BY <1>0, <1>10, ConstFacts DEF SinkFinalized, FinalizeCalling,
       FinStage, TypeOK, SinkStages, ProcStages
  <2>2. /\ sinkBuf' = [sinkBuf EXCEPT ![fin - NP] = {}]
        /\ fin' = fin + 1
        /\ UNCHANGED <<buffer, result, phase>>
    BY <1>10, <2>1 DEF SinkFinalized
  <2>3. \A i \in ProcStages : i < fin
    BY <2>1, ConstFacts DEF ProcStages, SinkStages
  <2>4. \A j \in 1..NS : NP + j < fin + 1 => sinkBuf'[j] = {}
    BY SMTT(30), <1>0, <2>1, <2>2, ConstFacts DEF FinDone, TypeOK, SinkStages
  <2>5. QED
    BY SMTT(30), <1>0, <1>1, <2>1, <2>2, <2>3, <2>4 DEF FinDone
<1>11. CASE FinalizeReturn
  BY <1>0, <1>11 DEF FinalizeReturn, FinDone
<1>12. CASE Finished \/ UNCHANGED vars
  <2>1. UNCHANGED vars
    BY <1>12 DEF Finished
  <2>2. QED
    BY <1>0, <2>1 DEF vars, FinDone
<1>13. QED
  BY <1>2, <1>3, <1>4, <1>5, <1>6, <1>7, <1>8, <1>9, <1>10, <1>11, <1>12
  DEF Next

LEMMA LostInit == Init => LostInv
<1> SUFFICES ASSUME Init PROVE LostInv
  OBVIOUS
<1>1. TypeInv
  BY TypeInit
<1>2. WriteProgress /\ SinkOrderPrefix /\ FinInv
  BY DEF Init, WriteProgress, SinkOrderPrefix, Accepted, FinInv
<1>3. RepInv /\ Undone
  BY DEF Init, RepInv, RepOK, Undone, NewWrapper
<1>4. NoneLost /\ SinkProgress /\ FinDone
  BY DEF Init, NoneLost, SinkProgress, FinDone
<1>5. QED
  BY <1>1, <1>2, <1>3, <1>4 DEF LostInv, PrefixInv

LEMMA LostStep == LostInv /\ [Next]_vars => LostInv'
<1> SUFFICES ASSUME LostInv, [Next]_vars PROVE LostInv'
  OBVIOUS
<1>1. TypeInv' /\ (WriteProgress /\ SinkOrderPrefix)'
  BY TypeStep, PrefixStep DEF LostInv, PrefixInv
<1>2. FinInv'
  BY FinStep DEF LostInv, PrefixInv, CallInv
<1>3. QED
  BY <1>1, <1>2, RepStep, DeliverStep, FinDoneStep DEF LostInv, PrefixInv

(* Once Finalize has passed every stage, no buffer and no sink's batch    *)
(* holds anything, so a resource held by every sink is stored by it.      *)
LEMMA LostDone == LostInv => NoResourceLost
<1> SUFFICES ASSUME LostInv, result = "ok",
                    NEW r \in submitted \ (dropped \cup failed),
                    NEW j \in 1..NS
             PROVE  <<r, Content(wr[r])>> \in stored[j]
  BY DEF NoResourceLost
<1>0. TypeOK /\ NoneLost /\ FinDone
  BY LostFacts
<1>1. fin = NP + NS + 1 /\ cur = NoResource
  BY <1>0 DEF FinDone
<1>2. r \in Resources
  BY <1>0 DEF TypeOK
<1>3. ~Pending(r)
  <2>1. \A i \in ProcStages : buffer[i] = {}
    BY <1>0, <1>1, ConstFacts DEF FinDone, ProcStages
  <2>2. QED
    BY SMTT(30), <1>1, <1>2, <2>1, ConstFacts DEF Pending
<1>4. Delivered(r, j)
  BY <1>0, <1>3 DEF NoneLost
<1>5. sinkBuf[j] = {}
  BY <1>0, <1>1, ConstFacts DEF FinDone
<1>6. QED
  BY <1>4, <1>5 DEF Delivered

(* When Pipeline.Finalize returns nil, every resource passed to           *)
(* Pipeline.Process that no processor dropped and whose processing did    *)
(* not fail is stored by every sink with its final content: the JSON a    *)
(* sink reads after doneMutating (client.go 700-711) matches the last     *)
(* mutation, a processor's flush (client.go 732-746) forwards what it     *)
(* buffered, and a sink's Finalize stores what it batched.  Proved for    *)
(* any numbers of processors, sinks and resources.                        *)
THEOREM NoResourceLostHolds == Spec => []NoResourceLost
<1>1. Init => LostInv
  BY LostInit
<1>2. LostInv /\ [Next]_vars => LostInv'
  BY LostStep
<1>3. LostInv => NoResourceLost
  BY LostDone
<1>4. QED
  BY <1>1, <1>2, <1>3, PTL DEF Spec

-----------------------------------------------------------------------------
(* Why DoneFrozen holds: only the wrapper of the resource in flight, or of *)
(* the one a flush takes from a buffer, changes in a step; a processor    *)
(* touches it only before doneMutating (Undone), and after it             *)
(* writeToSinks only sets the flag and the sinks only call JSON(), which  *)
(* keeps a consistent wrapper's content (RepInv) and its cached bytes.    *)
Frozen(v, w) ==
    w.done => /\ v.done
              /\ Content(v) = Content(w)
              /\ w.json => v.json /\ v.jsonVer = w.jsonVer

FrozenStep == \A r \in Resources : Frozen(wr'[r], wr[r])

(* A wrapper left alone, or one not yet done, is frozen trivially. *)
LEMMA FrozenTrivial ==
    ASSUME NEW v, NEW w, v = w \/ ~w.done
    PROVE  Frozen(v, w)
BY DEF Frozen

(* Changing one wrapper keeps the others: the step is frozen when that    *)
(* one change is.                                                         *)
LEMMA FrozenUpdate ==
    ASSUME NEW c \in Resources, NEW v,
           wr \in [Resources -> WrapperT], wr' = [wr EXCEPT ![c] = v],
           Frozen(v, wr[c])
    PROVE  FrozenStep
<1> SUFFICES ASSUME NEW r \in Resources PROVE Frozen(wr'[r], wr[r])
  BY DEF FrozenStep
<1>1. wr'[c] = v /\ \A q \in Resources \ {c} : wr'[q] = wr[q]
  BY WrapperUpdate
<1>2. CASE r = c
  BY <1>1, <1>2
<1>3. CASE r # c
  BY <1>1, <1>3, FrozenTrivial
<1>. QED  BY <1>2, <1>3

(* JSON() on a consistent wrapper keeps its flag, its content and the     *)
(* bytes it already cached.                                               *)
LEMMA JSONFrozen ==
    ASSUME NEW w \in WrapperT, RepOK(w)
    PROVE  Frozen(JSON(w), w)
<1>1. JSON(w).done = w.done /\ Content(JSON(w)) = Content(w)
  BY JSONRep
<1>2. w.json => JSON(w) = w
  BY DEF JSON
<1>. QED  BY <1>1, <1>2 DEF Frozen

(* Proto() after doneMutating keeps the cached bytes (client.go 577). *)
LEMMA ProtoFrozen ==
    ASSUME NEW w \in WrapperT, RepOK(w)
    PROVE  Frozen(Proto(w), w)
<1>1. Proto(w).done = w.done /\ Content(Proto(w)) = Content(w)
  BY ProtoRep
<1>2. Proto(w).json = (w.done /\ w.json) /\ Proto(w).jsonVer = w.jsonVer
  BY Zenon DEF Proto, WrapperT
<1>. QED  BY <1>1, <1>2 DEF Frozen

(* Whatever a sink reads of a consistent wrapper, the content, the flag   *)
(* and the cached bytes stay.                                             *)
LEMMA SinkReadFrozen ==
    ASSUME NEW w \in WrapperT, NEW t \in SinkReads, RepOK(w)
    PROVE  Frozen(SinkRead(w, t), w)
<1>1. CASE t = "json"
  BY <1>1, JSONFrozen DEF SinkRead
<1>2. CASE t = "proto"
  BY <1>2, ProtoFrozen DEF SinkRead
<1>3. CASE t = "both"
  <2>1. SinkRead(w, t) = JSON(Proto(w))
    BY <1>3 DEF SinkRead
  <2>2. Proto(w) \in WrapperT
    <3>1. 2 * NP \in Nat /\ VerAtMost(w, 2 * NP)
      BY NPAssumption DEF VerAtMost, WrapperT, Versions
    <3>2. QED
      BY <3>1, ProtoBound
  <2>3. RepOK(Proto(w))
    BY ProtoRep
  <2>4. Frozen(JSON(Proto(w)), Proto(w)) /\ Frozen(Proto(w), w)
    BY <2>2, <2>3, JSONFrozen, ProtoFrozen
  <2>5. QED
    BY <2>1, <2>4 DEF Frozen
<1>4. QED
  BY <1>1, <1>2, <1>3 DEF SinkReads

(* Setting doneMutating keeps the content and the cached bytes. *)
LEMMA DoneFrozenStep ==
    ASSUME NEW w \in WrapperT, RepOK(w)
    PROVE  Frozen([w EXCEPT !.done = TRUE], w)
<1>1. /\ [w EXCEPT !.done = TRUE].done
      /\ [w EXCEPT !.done = TRUE].json = w.json
      /\ [w EXCEPT !.done = TRUE].jsonVer = w.jsonVer
  BY Zenon DEF WrapperT
<1>2. Content([w EXCEPT !.done = TRUE]) = Content(w)
  BY DoneRep
<1>. QED  BY <1>1, <1>2 DEF Frozen

LEMMA FrozenHolds == LostInv /\ [Next]_vars => FrozenStep
<1> SUFFICES ASSUME LostInv, [Next]_vars PROVE FrozenStep
  OBVIOUS
<1>0. TypeOK /\ RepInv /\ Undone
  BY LostFacts
<1>1. CASE wr' = wr
  <2> SUFFICES ASSUME NEW r \in Resources PROVE Frozen(wr'[r], wr[r])
    BY DEF FrozenStep
  <2>. QED  BY <1>1, FrozenTrivial
<1>2. CASE ProcessorForward \/ ProcessorBuffer
  <2>1. cur # NoResource /\ at \in ProcStages
    BY <1>2, Zenon DEF ProcessorForward, ProcessorBuffer
  <2>2. cur \in Resources /\ ~wr[cur].done
    BY <1>0, <2>1 DEF TypeOK, Undone
  <2>3. PICK t \in Touches : wr' = [wr EXCEPT ![cur] = Touch(wr[cur], t)]
    BY <1>2, Zenon DEF ProcessorForward, ProcessorBuffer
  <2>4. Frozen(Touch(wr[cur], t), wr[cur])
    BY <2>2, FrozenTrivial
  <2>5. wr \in [Resources -> WrapperT]
    BY <1>0 DEF TypeOK
  <2>. QED  BY <2>2, <2>3, <2>4, <2>5, FrozenUpdate, Zenon
<1>3. CASE ProcessorFlush
  <2>1. FinStage \in ProcStages
    BY <1>3 DEF ProcessorFlush
  <2>2. PICK r \in buffer[FinStage], t \in Touches :
          wr' = [wr EXCEPT ![r] = Touch(wr[r], t)]
    BY <1>3, Zenon DEF ProcessorFlush
  <2>3. r \in Resources /\ ~wr[r].done
    BY <1>0, <2>1 DEF TypeOK, Undone
  <2>4. Frozen(Touch(wr[r], t), wr[r])
    BY <2>3, FrozenTrivial
  <2>5. wr \in [Resources -> WrapperT]
    BY <1>0 DEF TypeOK
  <2>. QED  BY <2>2, <2>3, <2>4, <2>5, FrozenUpdate, Zenon
<1>4. CASE WriteToSinks \/ SinkStore \/ SinkBuffer
  <2>1. cur # NoResource
    BY <1>4, Zenon DEF WriteToSinks, SinkStore, SinkBuffer
  <2>2. cur \in Resources /\ RepOK(wr[cur]) /\ wr[cur] \in WrapperT
    BY <1>0, <2>1 DEF TypeOK, RepInv
  <2>5. wr \in [Resources -> WrapperT]
    BY <1>0 DEF TypeOK
  <2>3. CASE WriteToSinks
    <3>1. wr' = [wr EXCEPT ![cur] = [wr[cur] EXCEPT !.done = TRUE]]
      BY <2>3 DEF WriteToSinks
    <3>2. Frozen([wr[cur] EXCEPT !.done = TRUE], wr[cur])
      BY <2>2, DoneFrozenStep
    <3>. QED  BY <2>2, <2>5, <3>1, <3>2, FrozenUpdate, Zenon
  <2>4. CASE SinkStore \/ SinkBuffer
    <3>0. PICK t \in SinkReads : SinkWrite(t)
      BY <2>4, SinkPick
    <3>1. wr' = [wr EXCEPT ![cur] = SinkRead(wr[cur], t)]
      BY <3>0 DEF SinkWrite
    <3>2. Frozen(SinkRead(wr[cur], t), wr[cur])
      BY <2>2, SinkReadFrozen
    <3>. QED  BY <2>2, <2>5, <3>1, <3>2, FrozenUpdate, Zenon
  <2>. QED  BY <1>4, <2>3, <2>4
<1>5. CASE \/ \E r \in Resources : Process(r)
           \/ ProcessorDrop \/ ProcessorFail \/ SinkFail
           \/ Finalize \/ ProcessorFinalized \/ SinkFinalized \/ FinalizeFail
           \/ FinalizeReturn \/ Finished \/ UNCHANGED vars
  <2>1. wr' = wr
    BY <1>5, Zenon DEF Process, ProcessorDrop, ProcessorFail, SinkFail,
       Finalize, ProcessorFinalized, SinkFinalized, FinalizeFail,
       FinalizeReturn, Finished, vars
  <2>. QED  BY <1>1, <2>1, Zenon
<1>. QED  BY <1>2, <1>3, <1>4, <1>5 DEF Next

(* Once writeToSinks has set doneMutating on a resource, no later step    *)
(* changes its flag, its content or the JSON bytes it cached: every sink  *)
(* reads the bytes of the final mutation (client.go 555-580, 701-704).    *)
(* Proved for any numbers of processors, sinks and resources.             *)
THEOREM DoneFrozenHolds == Spec => DoneFrozen
<1>1. Init => LostInv
  BY LostInit
<1>2. LostInv /\ [Next]_vars => LostInv'
  BY LostStep
<1>3. LostInv /\ [Next]_vars => [FrozenStep]_vars
  BY FrozenHolds
<1>. QED
  BY <1>1, <1>2, <1>3, PTL DEF Spec, DoneFrozen, FrozenStep, Frozen

=============================================================================
