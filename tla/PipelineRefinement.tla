------------------------- MODULE PipelineRefinement -------------------------
(***************************************************************************)
(* Proof that the pipeline model implements PipelineContract under the    *)
(* mapping of Pipeline's Contract instance: every step of Pipeline is a   *)
(* step of the contract or leaves what the caller sees unchanged.         *)
(***************************************************************************)
EXTENDS PipelineProofs, TLAPS

\* The resources still owed to the sinks.
KeptRes == submitted \ (dropped \cup failed)

(* Only submitted resources are filtered out or fail, and one in flight  *)
(* or in a processor's buffer has done neither.                          *)
InFlightKept ==
    /\ dropped \cup failed \subseteq submitted
    /\ cur # NoResource => cur \in KeptRes
    /\ \A i \in ProcStages : buffer[i] \subseteq KeptRes

(* No sink has seen a resource before it reaches writeToSinks: not one   *)
(* at a processor, nor one a processor buffered, nor one not submitted.   *)
Unheld ==
    /\ cur # NoResource /\ at \in ProcStages =>
         \A j \in 1..NS : cur \notin Accepted(j)
    /\ \A i \in ProcStages : \A r \in buffer[i] :
         \A j \in 1..NS : r \notin Accepted(j)
    /\ \A r \in Resources \ submitted : \A j \in 1..NS : r \notin Accepted(j)

\* Finalize's result is set only when the run is over.
ResultOpen == phase # "done" => result = "none"

\* The invariant the refinement rests on.
RefInv == LostInv /\ InFlightKept /\ Unheld /\ ResultOpen
-----------------------------------------------------------------------------
(* A call chain that returns nil: nothing fails, the result stays, and    *)
(* the phase goes back to idle after Process or on with Finalize after a  *)
(* flush, so whether Finalize was called does not change.                  *)
LEMMA ReturnQuiet ==
    ASSUME FinInv, cur # NoResource, Return(FALSE)
    PROVE  /\ cur' = NoResource /\ failed' = failed /\ result' = result
           /\ phase \in {"process", "finalize"} /\ phase' # "done"
           /\ Closed' = Closed
<1>1. cur' = NoResource /\ failed' = failed /\ result' = result
  BY Zenon DEF Return
<1>2. CASE origin = 0
  <2>0. phase = "process"
    BY <1>2, ConstFacts DEF FinInv, ProcStages
  <2>1. phase = "process" /\ phase' = "idle"
    BY <1>2, <2>0, Zenon DEF Return
  <2>. QED  BY <1>1, <2>1 DEF Closed
<1>3. CASE origin # 0
  <2>1. phase = "finalize" /\ phase' = "finalize"
    BY <1>3, Zenon DEF FinInv, Return
  <2>. QED  BY <1>1, <2>1 DEF Closed
<1>. QED  BY <1>2, <1>3

(* A call chain that returns an error: the resource in flight fails;      *)
(* after Process the result stays, after a flush Finalize returns the    *)
(* error and the run is over.                                             *)
LEMMA ReturnError ==
    ASSUME FinInv, cur # NoResource, Return(TRUE)
    PROVE  /\ cur' = NoResource /\ failed' = failed \cup {cur}
           /\ phase \in {"process", "finalize"}
           /\ Closed' = Closed
           /\ \/ result' = result /\ phase' = "idle"
              \/ Closed /\ result' = "error" /\ phase' = "done"
<1>1. cur' = NoResource /\ failed' = failed \cup {cur}
  BY Zenon DEF Return
<1>2. CASE origin = 0
  <2>0. phase = "process"
    BY <1>2, ConstFacts DEF FinInv, ProcStages
  <2>1. phase = "process" /\ phase' = "idle" /\ result' = result
    BY <1>2, <2>0, Zenon DEF Return
  <2>. QED  BY <1>1, <2>1 DEF Closed
<1>3. CASE origin # 0
  <2>1. phase = "finalize" /\ phase' = "done" /\ result' = "error"
    BY <1>3, Zenon DEF FinInv, Return
  <2>. QED  BY <1>1, <2>1 DEF Closed
<1>. QED  BY <1>2, <1>3

LEMMA RefInit == Init => RefInv
<1> SUFFICES ASSUME Init PROVE RefInv
  OBVIOUS
<1>1. LostInv
  BY LostInit
<1>2. InFlightKept /\ Unheld /\ ResultOpen
  BY DEF Init, InFlightKept, Unheld, ResultOpen, Accepted
<1>. QED  BY <1>1, <1>2 DEF RefInv

\* The facts of RefInv the steps below use.
LEMMA RefFacts ==
    ASSUME RefInv
    PROVE  /\ TypeOK /\ Buffers /\ FinInv /\ WriteProgress /\ NoneLost /\ FinDone
           /\ InFlightKept /\ Unheld /\ ResultOpen
BY LostFacts DEF RefInv
(* A step that leaves the result and does not leave phase "done" keeps     *)
(* ResultOpen; so does one that ends the run.                              *)
LEMMA ResultKept ==
    ASSUME ResultOpen,
           \/ result' = result /\ (phase' # "done" => phase # "done")
           \/ phase' = "done"
    PROVE  ResultOpen'
BY DEF ResultOpen

(* A step that changes neither the call chain's resource, the buffers,    *)
(* the sets of resources nor what the sinks accepted keeps the in-flight  *)
(* facts, when a resource still at a processor was at one before.         *)
LEMMA InFlightSame ==
    ASSUME InFlightKept, Unheld, cur' = cur, buffer' = buffer,
           submitted' = submitted, dropped' = dropped, failed' = failed,
           \A j \in 1..NS : Accepted(j)' = Accepted(j),
           cur # NoResource /\ at' \in ProcStages => at \in ProcStages
    PROVE  InFlightKept' /\ Unheld'
BY DEF InFlightKept, Unheld, KeptRes

(* A call chain that returns, with the resource in flight kept in the     *)
(* buffer of the processor it is at, filtered out, failed or passed on,  *)
(* keeps the in-flight facts; the sinks accept nothing meanwhile.        *)
LEMMA ReturnKeeps ==
    ASSUME InFlightKept, Unheld, Buffers, TypeOK, cur # NoResource,
           cur' = NoResource, submitted' = submitted,
           dropped' \cup failed' \subseteq submitted,
           \A i \in ProcStages : \A r \in buffer'[i] :
               \/ r \in buffer[i] /\ r \in KeptRes'
               \/ r = cur /\ at \in ProcStages /\ cur \in KeptRes',
           \A j \in 1..NS : Accepted(j)' = Accepted(j)
    PROVE  InFlightKept' /\ Unheld'
<1>1. cur \in submitted
  BY DEF InFlightKept, KeptRes
<1>2. InFlightKept'
  BY <1>1 DEF InFlightKept
<1>3. Unheld'
  BY <1>1 DEF Unheld
<1>. QED  BY <1>2, <1>3
LEMMA RefStep == RefInv /\ [Next]_vars => (InFlightKept /\ Unheld /\ ResultOpen)'
<1> SUFFICES ASSUME RefInv, [Next]_vars
             PROVE  (InFlightKept /\ Unheld /\ ResultOpen)'
  OBVIOUS
<1>0. /\ TypeOK /\ Buffers /\ FinInv /\ WriteProgress
      /\ InFlightKept /\ Unheld /\ ResultOpen
  BY RefFacts
<1>1. CASE \E r \in Resources : Process(r)
  <2>1. PICK r \in Resources : Process(r)
    BY <1>1
  <2>2. /\ phase = "idle" /\ r \notin submitted /\ submitted' = submitted \cup {r}
        /\ cur' = r /\ phase' = "process"
        /\ UNCHANGED <<buffer, sinkBuf, stored, dropped, failed, result>>
    BY <2>1 DEF Process
  <2>3. \A j \in 1..NS : Accepted(j)' = Accepted(j)
    BY <2>2, AcceptedSame
  <2>4. InFlightKept'
    BY <1>0, <2>2 DEF InFlightKept, KeptRes
  <2>5. Unheld'
    BY <1>0, <2>2, <2>3 DEF Unheld
  <2>6. ResultOpen'
    BY <1>0, <2>2 DEF ResultOpen
  <2>. QED  BY <2>4, <2>5, <2>6
<1>2. CASE ProcessorForward
  <2>1. /\ cur # NoResource /\ at \in ProcStages
        /\ UNCHANGED <<phase, cur, buffer, sinkBuf, stored, submitted, dropped,
                       failed, result>>
    BY <1>2 DEF ProcessorForward
  <2>2. InFlightKept' /\ Unheld'
    BY <1>0, <2>1, AcceptedSame, InFlightSame
  <2>. QED  BY <1>0, <2>1, <2>2, ResultKept
<1>3. CASE ProcessorBuffer
  <2>1. /\ cur # NoResource /\ at \in ProcStages
        /\ buffer' = [buffer EXCEPT ![at] = @ \cup {cur}]
        /\ Return(FALSE)
        /\ UNCHANGED <<submitted, dropped, stored, sinkBuf>>
    BY <1>3, Zenon DEF ProcessorBuffer
  <2>2. cur' = NoResource /\ failed' = failed /\ result' = result
        /\ phase' # "done" /\ phase \in {"process", "finalize"}
    BY <1>0, <2>1, ReturnQuiet
  <2>3. cur \in KeptRes /\ cur \in Resources /\ KeptRes' = KeptRes
    BY <1>0, <2>1, <2>2 DEF InFlightKept, TypeOK, KeptRes
  <2>4. \A i \in ProcStages : \A r \in buffer'[i] :
            \/ r \in buffer[i] /\ r \in KeptRes'
            \/ r = cur /\ at \in ProcStages /\ cur \in KeptRes'
    BY <1>0, <2>1, <2>3 DEF TypeOK, InFlightKept
  <2>5. dropped' \cup failed' \subseteq submitted
    BY <1>0, <2>1, <2>2 DEF InFlightKept
  <2>6. \A j \in 1..NS : Accepted(j)' = Accepted(j)
    BY <2>1, AcceptedSame
  <2>7. InFlightKept' /\ Unheld'
    BY <1>0, <2>1, <2>2, <2>4, <2>5, <2>6, ReturnKeeps
  <2>8. ResultOpen'
    BY <1>0, <2>2 DEF ResultOpen
  <2>. QED  BY <2>7, <2>8
<1>4. CASE ProcessorDrop \/ ProcessorFail \/ SinkFail
  <2>1. /\ cur # NoResource
        /\ UNCHANGED <<buffer, submitted, stored, sinkBuf>>
        /\ dropped' \in {dropped, dropped \cup {cur}}
        /\ Return(FALSE) \/ Return(TRUE)
    BY <1>4, Zenon DEF ProcessorDrop, ProcessorFail, SinkFail
  <2>2. /\ cur' = NoResource /\ failed' \in {failed, failed \cup {cur}}
        /\ phase \in {"process", "finalize"}
        /\ \/ result' = result /\ phase' # "done"
           \/ phase' = "done"
    <3>1. CASE Return(FALSE)
      BY <1>0, <2>1, <3>1, ReturnQuiet
    <3>2. CASE Return(TRUE)
      BY <1>0, <2>1, <3>2, ReturnError
    <3>. QED  BY <2>1, <3>1, <3>2
  <2>3. cur \in KeptRes /\ cur \in Resources
    BY <1>0, <2>1 DEF InFlightKept, TypeOK
  <2>4. \A i \in ProcStages : buffer[i] \subseteq KeptRes'
    <3>1. \A i \in ProcStages : cur \notin buffer[i]
      BY <1>0 DEF Buffers
    <3>. QED  BY <1>0, <2>1, <2>2, <3>1 DEF InFlightKept, KeptRes
  <2>5. \A i \in ProcStages : \A r \in buffer'[i] :
            \/ r \in buffer[i] /\ r \in KeptRes'
            \/ r = cur /\ at \in ProcStages /\ cur \in KeptRes'
    BY <2>1, <2>4
  <2>6. dropped' \cup failed' \subseteq submitted
    BY <1>0, <2>1, <2>2, <2>3 DEF InFlightKept, KeptRes
  <2>7. \A j \in 1..NS : Accepted(j)' = Accepted(j)
    BY <2>1, AcceptedSame
  <2>8. InFlightKept' /\ Unheld'
    BY <1>0, <2>1, <2>2, <2>5, <2>6, <2>7, ReturnKeeps
  <2>9. ResultOpen'
    BY <1>0, <2>2 DEF ResultOpen
  <2>. QED  BY <2>8, <2>9
<1>5. CASE WriteToSinks \/ SinkStore \/ SinkBuffer
  <2>1. /\ cur # NoResource /\ at = WriteStage /\ at' = at
        /\ UNCHANGED <<buffer, submitted, dropped>>
    BY <1>5, Zenon DEF WriteToSinks, SinkStore, SinkBuffer
  <2>2. at \notin ProcStages /\ cur \in submitted
    BY <1>0, <2>1, ConstFacts DEF WriteStage, ProcStages, InFlightKept, KeptRes
  <2>3. \/ Return(FALSE)
        \/ cur' = cur /\ UNCHANGED <<phase, failed, result>>
    <3>1. CASE WriteToSinks
      BY <3>1, Zenon DEF WriteToSinks
    <3>2. CASE SinkStore \/ SinkBuffer
      <4>1. NextSink
        BY <3>2, Zenon DEF SinkStore, SinkBuffer
      <4>. QED  BY <4>1, Zenon DEF NextSink
    <3>. QED  BY <1>5, <3>1, <3>2
  <2>4. /\ cur' \in {cur, NoResource}
        /\ failed' = failed /\ result' = result
        /\ (phase' # "done" => phase # "done")
    <3>1. CASE Return(FALSE)
      BY <1>0, <2>1, <3>1, ReturnQuiet
    <3>2. CASE cur' = cur /\ UNCHANGED <<phase, failed, result>>
      BY <3>2
    <3>. QED  BY <2>3, <3>1, <3>2
  <2>5. \A j \in 1..NS : Accepted(j)' \subseteq Accepted(j) \cup {cur}
    <3>1. CASE WriteToSinks
      BY <3>1, AcceptedSame DEF WriteToSinks
    <3>2. CASE SinkStore \/ SinkBuffer
      BY <1>0, <3>2, AcceptWrite
    <3>. QED  BY <1>5, <3>1, <3>2
  <2>6. \A i \in ProcStages : cur \notin buffer[i]
    BY <1>0 DEF Buffers
  <2>7. InFlightKept'
    BY <1>0, <2>1, <2>3, <2>4 DEF InFlightKept, KeptRes
  <2>8. Unheld'
    BY <1>0, <2>1, <2>2, <2>3, <2>5, <2>6 DEF Unheld
  <2>. QED  BY <1>0, <2>4, <2>7, <2>8, ResultKept
<1>6. CASE ProcessorFlush
  <2>1. PICK r \in buffer[FinStage], t \in Touches :
          /\ buffer' = [buffer EXCEPT ![FinStage] = @ \ {r}]
          /\ cur' = r
    BY <1>6, Zenon DEF ProcessorFlush
  <2>2. /\ FinStage \in ProcStages /\ at' = FinStage + 1
        /\ UNCHANGED <<phase, sinkBuf, stored, submitted, dropped, failed, result>>
    BY <1>6 DEF ProcessorFlush
  <2>3. \A j \in 1..NS : Accepted(j)' = Accepted(j)
    BY <2>2, AcceptedSame
  <2>4. \A i \in ProcStages : buffer'[i] \subseteq buffer[i]
    BY <1>0, <2>1, <2>2 DEF TypeOK
  <2>5. InFlightKept'
    BY <1>0, <2>1, <2>2, <2>4 DEF InFlightKept, KeptRes
  <2>6. Unheld'
    BY <1>0, <2>1, <2>2, <2>3, <2>4 DEF Unheld
  <2>. QED  BY <1>0, <2>2, <2>5, <2>6, ResultKept
<1>7. CASE Finalize \/ ProcessorFinalized \/ SinkFinalized \/ Finished
           \/ UNCHANGED vars
  <2>1. /\ UNCHANGED <<cur, at, buffer, submitted, dropped, failed, result>>
        /\ phase' # "done" => phase # "done"
    BY <1>7 DEF Finalize, ProcessorFinalized, SinkFinalized, Finished, vars
  <2>2. \A j \in 1..NS : Accepted(j)' = Accepted(j)
    <3>1. CASE SinkFinalized
      BY <1>0, <3>1, AcceptFinalized
    <3>2. CASE ~SinkFinalized
      <4>1. stored' = stored /\ sinkBuf' = sinkBuf
        BY <1>7, <3>2 DEF Finalize, ProcessorFinalized, Finished, vars
      <4>. QED  BY <4>1, AcceptedSame
    <3>. QED  BY <3>1, <3>2
  <2>3. InFlightKept' /\ Unheld'
    BY <1>0, <2>1, <2>2, InFlightSame
  <2>. QED  BY <1>0, <2>1, <2>3, ResultKept
<1>8. CASE FinalizeFail \/ FinalizeReturn
  <2>1. /\ phase' = "done"
        /\ UNCHANGED <<cur, at, buffer, stored, sinkBuf, submitted, dropped, failed>>
    BY <1>8 DEF FinalizeFail, FinalizeReturn
  <2>2. InFlightKept' /\ Unheld'
    BY <1>0, <2>1, AcceptedSame, InFlightSame
  <2>. QED  BY <1>0, <2>1, <2>2, ResultKept
<1>. QED  BY <1>1, <1>2, <1>3, <1>4, <1>5, <1>6, <1>7, <1>8 DEF Next
-----------------------------------------------------------------------------
(* The contract's view does not move when Finalize's progress, the sets of *)
(* resources, the result and what the sinks accepted stay.                 *)
LEMMA ContractStutter ==
    ASSUME Closed' = Closed, \A j \in 1..NS : Accepted(j)' = Accepted(j),
           UNCHANGED <<submitted, dropped, failed, result>>
    PROVE  UNCHANGED Contract!cvars
<1>1. Held' = Held
  BY DEF Held
<1>. QED  BY <1>1 DEF Contract!cvars, Closed, Held

(* A processor that filters out, or a processor or sink that fails on, the *)
(* resource in flight is the contract's Drop or Fail of that resource.     *)
LEMMA ContractDropFail ==
    ASSUME RefInv, ProcessorDrop \/ ProcessorFail \/ SinkFail
    PROVE  Contract!Drop(cur) \/ Contract!Fail(cur)
<1>0. /\ TypeOK /\ FinInv /\ InFlightKept /\ Unheld /\ ResultOpen
  BY RefFacts
<1>1. /\ cur # NoResource /\ cur \in Resources /\ cur \in KeptRes
      /\ UNCHANGED <<stored, sinkBuf, submitted>>
  BY <1>0, Zenon DEF ProcessorDrop, ProcessorFail, SinkFail, TypeOK, InFlightKept
<1>2. Held' = Held
  BY <1>1, AcceptedSame DEF Held
<1>3. CASE ProcessorDrop
  <2>1. /\ at \in ProcStages /\ dropped' = dropped \cup {cur} /\ Return(FALSE)
    BY <1>3, Zenon DEF ProcessorDrop
  <2>2. cur' = NoResource /\ failed' = failed /\ result' = result /\ Closed' = Closed
    BY <1>0, <1>1, <2>1, ReturnQuiet
  <2>3. Held[cur] = {}
    BY <1>0, <1>1, <2>1 DEF Unheld, Held
  <2>. QED  BY <1>1, <1>2, <2>1, <2>2, <2>3 DEF Contract!Drop, Contract!Kept,
               KeptRes, Closed, Held
<1>4. CASE ProcessorFail \/ SinkFail
  <2>1. dropped' = dropped /\ Return(TRUE)
    BY <1>4, Zenon DEF ProcessorFail, SinkFail
  <2>2. /\ failed' = failed \cup {cur} /\ phase \in {"process", "finalize"}
        /\ Closed' = Closed
        /\ \/ result' = result
           \/ Closed /\ result' = "error"
    BY <1>0, <1>1, <2>1, ReturnError
  <2>3. result = "none"
    BY <1>0, <2>2 DEF ResultOpen
  <2>. QED  BY <1>1, <1>2, <2>1, <2>2, <2>3 DEF Contract!Fail, Contract!Kept,
               KeptRes, Closed, Held
<1>. QED  BY <1>3, <1>4

(* Sink sk accepting the resource in flight is the contract's Hold of it   *)
(* by sink sk: the sinks before sk hold it already.                       *)
LEMMA ContractHold ==
    ASSUME RefInv, SinkStore \/ SinkBuffer
    PROVE  /\ cur \in Resources /\ sk \in 1..NS
           /\ Contract!Hold(cur, sk)
<1>0. /\ TypeOK /\ FinInv /\ WriteProgress /\ InFlightKept /\ ResultOpen
  BY RefFacts
<1>1. /\ cur # NoResource /\ at = WriteStage /\ sk >= 1 /\ NextSink
      /\ UNCHANGED <<submitted, dropped>>
  BY Zenon DEF SinkStore, SinkBuffer
<1>2. cur \in Resources /\ cur \in KeptRes /\ sk \in 1..NS
  BY <1>0, <1>1 DEF TypeOK, InFlightKept
<1>3. failed' = failed /\ result' = result /\ Closed' = Closed
  <2>1. CASE sk = NS
    <3>1. Return(FALSE)
      BY <1>1, <2>1, Zenon DEF NextSink
    <3>. QED  BY <1>0, <1>1, <3>1, ReturnQuiet
  <2>2. CASE sk # NS
    BY <1>1, <2>2, Zenon DEF NextSink, Closed
  <2>. QED  BY <2>1, <2>2
<1>4. result = "none"
  BY <1>0, <1>1 DEF FinInv, ResultOpen
<1>5. 1..sk-1 \subseteq Held[cur]
  <2>1. \A j \in 1..sk-1 : cur \in Accepted(j)
    BY <1>0, <1>1 DEF WriteProgress
  <2>2. Held[cur] = {j \in 1..NS : cur \in Accepted(j)}
    BY <1>2 DEF Held
  <2>3. 1..sk-1 \subseteq 1..NS
    BY <1>2, NSAssumption
  <2>. QED  BY <2>1, <2>2, <2>3, Zenon
<1>6. \A j \in 1..NS : Accepted(j)' =
          IF j = sk THEN Accepted(j) \cup {cur} ELSE Accepted(j)
  BY <1>0, AcceptWrite
<1>7. Held' = [Held EXCEPT ![cur] = @ \cup {sk}]
  <2>1. \A r \in Resources :
          {j \in 1..NS : r \in Accepted(j)'} =
            IF r = cur THEN Held[r] \cup {sk} ELSE Held[r]
    BY <1>2, <1>6 DEF Held
  <2>2. Held \in [Resources -> SUBSET (1..NS)]
    BY DEF Held
  <2>3. Held' = [r \in Resources |-> IF r = cur THEN Held[r] \cup {sk} ELSE Held[r]]
    <3> HIDE DEF Held
    <3>1. Held' = [r \in Resources |-> {j \in 1..NS : r \in Accepted(j)'}]
      BY DEF Held
    <3>. QED  BY <2>1, <3>1
  <2>4. [Held EXCEPT ![cur] = @ \cup {sk}] =
          [r \in Resources |-> IF r = cur THEN Held[r] \cup {sk} ELSE Held[r]]
    BY <1>2, <2>2, Zenon
  <2>. QED  BY <2>3, <2>4
<1>. QED  BY <1>1, <1>2, <1>3, <1>4, <1>5, <1>7 DEF Contract!Hold,
             Contract!Kept, KeptRes, Closed, Held

(* Finalize returns nil only when every resource neither filtered out nor *)
(* failed is held by every sink: the contract's End("ok").  Every stage   *)
(* has been finalized, so nothing is left in flight or in a buffer, and   *)
(* NoneLost leaves only delivery to every sink.                           *)
LEMMA ContractEndOk ==
    ASSUME RefInv, FinalizeReturn
    PROVE  Contract!End("ok")
<1>0. /\ TypeOK /\ NoneLost /\ FinDone /\ ResultOpen
  BY RefFacts
<1>1. /\ phase = "finalize" /\ cur = NoResource /\ fin = NP + NS + 1
      /\ result' = "ok" /\ phase' = "done"
      /\ UNCHANGED <<stored, sinkBuf, submitted, dropped, failed>>
  BY DEF FinalizeReturn
<1>2. \A i \in ProcStages : buffer[i] = {}
  BY <1>0, <1>1, ConstFacts DEF FinDone, ProcStages
<1>3. \A r \in KeptRes : \A j \in 1..NS : Delivered(r, j)
  <2>1. \A r \in KeptRes : ~Pending(r)
    BY <1>0, <1>1, <1>2, ConstFacts DEF Pending, KeptRes, TypeOK
  <2>. QED  BY <1>0, <2>1 DEF NoneLost, KeptRes
<1>4. \A r \in KeptRes : Held[r] = 1..NS
  <2>1. \A r \in KeptRes : \A j \in 1..NS : r \in Accepted(j)
    <3> SUFFICES ASSUME NEW r \in KeptRes, NEW j \in 1..NS
                 PROVE  r \in Accepted(j)
      OBVIOUS
    <3> DEFINE e == <<r, Content(wr[r])>>
    <3>1. e \in stored[j] \cup sinkBuf[j] /\ e[1] = r
      BY <1>3 DEF Delivered
    <3>. QED  BY <3>1, Zenon DEF Accepted
  <2>2. \A r \in KeptRes : r \in Resources
    BY <1>0 DEF KeptRes, TypeOK
  <2>. QED  BY <2>1, <2>2 DEF Held
<1>5. Held' = Held /\ result = "none"
  <2>1. \A j \in 1..NS : Accepted(j)' = Accepted(j)
    BY <1>1, AcceptedSame
  <2>2. Held' = Held
    BY <2>1 DEF Held
  <2>. QED  BY <1>0, <1>1, <2>2 DEF ResultOpen
<1>. QED  BY <1>1, <1>4, <1>5 DEF Contract!End, Contract!Kept, KeptRes,
             Closed, Held

(* Every step of the pipeline is a step of the contract, or leaves what    *)
(* the caller sees unchanged: the steps inside a call chain, a flush and  *)
(* the calls of the stages' Finalize move nothing the contract names.     *)
LEMMA ContractStep == RefInv /\ [Next]_vars => [Contract!Next]_Contract!cvars
<1> SUFFICES ASSUME RefInv, [Next]_vars
             PROVE  [Contract!Next]_Contract!cvars
  OBVIOUS
<1>0. /\ TypeOK /\ FinInv /\ ResultOpen
  BY RefFacts
<1>1. CASE \E r \in Resources : Process(r)
  <2>1. PICK r \in Resources : Process(r)
    BY <1>1
  <2>2. Contract!Submit(r)
    <3>1. Held' = Held
      BY <2>1, AcceptedSame DEF Process, Held
    <3>. QED  BY <2>1, <3>1 DEF Process, Contract!Submit, Closed, Held
  <2>. QED  BY <2>2 DEF Contract!Next
<1>2. CASE ProcessorForward \/ ProcessorFlush \/ ProcessorFinalized
           \/ Finished \/ UNCHANGED vars
  <2>1. UNCHANGED <<phase, stored, sinkBuf, submitted, dropped, failed, result>>
    BY <1>2 DEF ProcessorForward, ProcessorFlush, ProcessorFinalized,
       Finished, vars
  <2>. QED  BY <2>1, AcceptedSame, ContractStutter DEF Closed
<1>3. CASE SinkFinalized
  <2>1. UNCHANGED <<phase, submitted, dropped, failed, result>>
    BY <1>3 DEF SinkFinalized
  <2>. QED  BY <1>0, <1>3, <2>1, AcceptFinalized, ContractStutter DEF Closed
<1>4. CASE ProcessorBuffer \/ WriteToSinks
  <2>1. /\ cur # NoResource
        /\ UNCHANGED <<stored, sinkBuf, submitted, dropped>>
        /\ Return(FALSE) \/ UNCHANGED <<phase, failed, result>>
    BY <1>4, Zenon DEF ProcessorBuffer, WriteToSinks
  <2>2. Closed' = Closed /\ UNCHANGED <<failed, result>>
    <3>1. CASE Return(FALSE)
      BY <1>0, <2>1, <3>1, ReturnQuiet
    <3>2. CASE UNCHANGED <<phase, failed, result>>
      BY <3>2 DEF Closed
    <3>. QED  BY <2>1, <3>1, <3>2
  <2>. QED  BY <2>1, <2>2, AcceptedSame, ContractStutter
<1>5. CASE ProcessorDrop \/ ProcessorFail \/ SinkFail
  <2>1. cur \in Resources
    BY <1>0, <1>5, Zenon DEF ProcessorDrop, ProcessorFail, SinkFail, TypeOK
  <2>2. Contract!Drop(cur) \/ Contract!Fail(cur)
    BY <1>5, ContractDropFail, Zenon
  <2>3. \E r \in Resources : Contract!Submit(r) \/ Contract!Drop(r) \/ Contract!Fail(r)
    <3>1. CASE Contract!Drop(cur)
      BY <2>1, <3>1 DEF Contract!Drop
    <3>2. CASE Contract!Fail(cur)
      BY <2>1, <3>2 DEF Contract!Fail
    <3>. QED  BY <2>2, <3>1, <3>2
  <2>. QED  BY <2>3 DEF Contract!Next
<1>6. CASE SinkStore \/ SinkBuffer
  <2>1. cur \in Resources /\ sk \in 1..NS /\ Contract!Hold(cur, sk)
    BY <1>6, ContractHold
  <2>2. \E r \in Resources, j \in 1..NS : Contract!Hold(r, j)
    BY <2>1 DEF Contract!Hold
  <2>. QED  BY <2>2 DEF Contract!Next
<1>7. CASE Finalize
  <2>1. Contract!Close
    BY <1>7, AcceptedSame DEF Finalize, Contract!Close, Closed, Held
  <2>. QED  BY <2>1 DEF Contract!Next
<1>8. CASE FinalizeFail
  <2>1. Contract!End("error")
    BY <1>0, <1>8, AcceptedSame DEF FinalizeFail, FinalizeCalling,
       Contract!End, ResultOpen, Closed, Held
  <2>. QED  BY <2>1 DEF Contract!Next
<1>9. CASE FinalizeReturn
  BY <1>9, ContractEndOk DEF Contract!Next
<1>. QED  BY <1>1, <1>2, <1>3, <1>4, <1>5, <1>6, <1>7, <1>8, <1>9 DEF Next

(* The pipeline implements its contract: under the mapping of Pipeline's *)
(* Contract instance (Finalize called once phase is finalize or done, a  *)
(* sink holds a resource when it stored or batched it), every behaviour  *)
(* of Pipeline.Process, the processors, writeToSinks and                 *)
(* Pipeline.Finalize is one the caller of PipelineContract may see.      *)
THEOREM ContractRefinement == Spec => ContractRefined
<1>1. Init => Contract!Init
  <2> SUFFICES ASSUME Init PROVE Contract!Init
    OBVIOUS
  <2>1. ~Closed
    BY DEF Init, Closed
  <2>2. \A j \in 1..NS : Accepted(j) = {}
    BY DEF Init, Accepted
  <2>3. Held = [r \in Resources |-> {}]
    BY <2>2 DEF Held
  <2>. QED  BY <2>1, <2>3 DEF Init, Contract!Init
<1>2. RefInv /\ [Next]_vars => RefInv'
  BY LostStep, RefStep DEF RefInv
<1>. QED  BY <1>1, <1>2, RefInit, ContractStep, PTL DEF Spec, ContractRefined,
             Contract!Spec
=============================================================================
