------------------------------ MODULE Pipeline ------------------------------
(***************************************************************************)
(* The resource-processing pipeline of package processing                  *)
(* (src/bulkfhir/client.go, lines 521-746): Pipeline.Process threading one *)
(* resourceWrapper through the processors and then writeToSinks, and the   *)
(* two-phase Pipeline.Finalize, with the wrapper's two lazily synchronised *)
(* representations (json bytes and proto).                                 *)
(*                                                                         *)
(* Processors and sinks are user code behind the Processor and Sink        *)
(* interfaces; they are modelled by the contract those interfaces state:  *)
(* a processor may read or mutate the proto, then forward the resource to *)
(* its output, buffer it to forward it from Finalize, drop it, or fail; a *)
(* sink reads the JSON, the proto or both, and stores what it read now,  *)
(* buffers it until Finalize, or fails.  A forwarding processor returns  *)
(* its output's error.                                                    *)
(*                                                                         *)
(* The content of a resource is abstracted to a version number: a         *)
(* mutation of the proto makes a new version, and each representation     *)
(* records the version it holds.                                           *)
(***************************************************************************)
EXTENDS Naturals, Sequences, FiniteSets

CONSTANTS
    NP,         \* number of processors passed to NewPipeline
    NS,         \* number of sinks passed to NewPipeline
    Resources   \* the resources the caller submits, one Process call each

ASSUME NPAssumption == NP \in Nat
ASSUME NSAssumption == NS \in Nat
ASSUME ResourcesAssumption == IsFiniteSet(Resources)

\* Stage ids: processors 1..NP, sinks NP+1..NP+NS.  A resource in flight is
\* at a processor (1..NP) or in writeToSinks (NP+1).
ProcStages == 1..NP
SinkStages == NP+1..NP+NS
WriteStage == NP + 1

\* A processor mutates a resource at most once when it processes it and at
\* most once when it flushes it.
Versions == 0..2*NP

NoResource == "none"
ASSUME NoResourceAssumption == NoResource \notin Resources

\* resourceWrapper: whether json / proto is set, the version each holds,
\* and doneMutating.
WrapperT == [json: BOOLEAN, jsonVer: Versions,
             proto: BOOLEAN, protoVer: Versions, done: BOOLEAN]

\* The wrapper Pipeline.Process builds around the input bytes.
NewWrapper == [json |-> TRUE, jsonVer |-> 0,
               proto |-> FALSE, protoVer |-> 0, done |-> FALSE]

\* Mutant: Proto() that leaves the json cached before doneMutating.
ProtoNoClear(w) ==
    [w EXCEPT !.proto = TRUE,
              !.protoVer = IF w.proto THEN w.protoVer ELSE w.jsonVer]

\* Mutant: Proto() that clears the json even after doneMutating.
ProtoIgnoresDone(w) ==
    [w EXCEPT !.proto = TRUE,
              !.protoVer = IF w.proto THEN w.protoVer ELSE w.jsonVer,
              !.json = FALSE]

\* resourceWrapper.Proto when it succeeds: unmarshal the json if there is
\* no proto yet, then clear the json unless doneMutating.
Proto(w) ==
    [w EXCEPT !.proto = TRUE,
              !.protoVer = IF w.proto THEN w.protoVer ELSE w.jsonVer,
              !.json = w.done /\ w.json]

\* A processor mutating the proto it obtained from Proto().
Mutate(w) == [w EXCEPT !.protoVer = @ + 1]

\* resourceWrapper.JSON when it succeeds: marshal the proto if there is no
\* json, and cache the bytes.
JSON(w) ==
    IF w.json THEN w ELSE [w EXCEPT !.json = TRUE, !.jsonVer = w.protoVer]

\* What a sink's Write reads of the wrapper: the JSON, the proto (a sink
\* that writes protos), or both, the proto first, which doneMutating is
\* there to allow (client.go 554-558).
SinkReads == {"json", "proto", "both"}
SinkRead(w, t) ==
    CASE t = "json" -> JSON(w)
      [] t = "proto" -> Proto(w)
      [] t = "both" -> JSON(Proto(w))

\* The version of what the sink writes: the proto, or the JSON bytes.
Written(w, t) == IF t = "proto" THEN w.protoVer ELSE w.jsonVer

\* The content of a resource: the proto once there is one, else the json.
Content(w) == IF w.proto THEN w.protoVer ELSE w.jsonVer

\* Mutant: the processors finalized from the last to the first.
FinalizeOrderReversed ==
    [k \in 1..NP+NS |-> IF k <= NP THEN NP + 1 - k ELSE k]

\* Pipeline.Finalize: every processor's Finalize in list order, then every
\* sink's; FinalizeOrder[k] is the stage finalized k-th.
FinalizeOrder == [k \in 1..NP+NS |-> k]

-----------------------------------------------------------------------------
VARIABLES
    phase,      \* "idle", "process" (inside Process), "finalize", "done"
    cur,        \* the resource travelling down the call chain
    at,         \* the stage it is at
    sk,         \* writeToSinks: 0 before doneMutating is set, then the sink
    origin,     \* 0 for Pipeline.Process, i for a flush by processor i
    fin,        \* Finalize: index into FinalizeOrder of the next call
    finalized,  \* stages whose Finalize has been called
    buffer,     \* buffer[i]: resources processor i holds for its Finalize
    sinkBuf,    \* sinkBuf[j]: <<resource, version>> written, not yet flushed
    stored,     \* stored[j]: <<resource, version>> sink j has stored
    wr,         \* wr[r]: the resourceWrapper of r
    submitted,  \* resources passed to Process
    dropped,    \* resources a processor filtered out
    failed,     \* resources whose processing returned an error
    result      \* what Finalize returned: "none", "ok" or "error"

vars == <<phase, cur, at, sk, origin, fin, finalized, buffer, sinkBuf, stored,
          wr, submitted, dropped, failed, result>>

Entries == Resources \X Versions

TypeOK ==
    /\ phase \in {"idle", "process", "finalize", "done"}
    /\ cur \in Resources \cup {NoResource}
    /\ at \in 1..WriteStage
    /\ sk \in 0..NS
    /\ origin \in 0..NP
    /\ fin \in 1..NP+NS+1
    /\ finalized \subseteq ProcStages \cup SinkStages
    /\ buffer \in [ProcStages -> SUBSET Resources]
    /\ sinkBuf \in [1..NS -> SUBSET Entries]
    /\ stored \in [1..NS -> SUBSET Entries]
    /\ wr \in [Resources -> WrapperT]
    /\ submitted \subseteq Resources
    /\ dropped \subseteq Resources
    /\ failed \subseteq Resources
    /\ result \in {"none", "ok", "error"}

Init ==
    /\ phase = "idle"
    /\ cur = NoResource
    /\ at = 1
    /\ sk = 0
    /\ origin = 0
    /\ fin = 1
    /\ finalized = {}
    /\ buffer = [i \in ProcStages |-> {}]
    /\ sinkBuf = [j \in 1..NS |-> {}]
    /\ stored = [j \in 1..NS |-> {}]
    /\ wr = [r \in Resources |-> NewWrapper]
    /\ submitted = {}
    /\ dropped = {}
    /\ failed = {}
    /\ result = "none"

-----------------------------------------------------------------------------
(* The call chain of `cur` returns to where it started, with an error or  *)
(* not: to the caller of Pipeline.Process, or to the Finalize of the      *)
(* processor that flushed it, whose error ends Pipeline.Finalize.         *)
Return(err) ==
    /\ cur' = NoResource
    /\ failed' = IF err THEN failed \cup {cur} ELSE failed
    /\ IF origin = 0
         THEN phase' = "idle" /\ result' = result
         ELSE /\ phase' = IF err THEN "done" ELSE "finalize"
              /\ result' = IF err THEN "error" ELSE result

\* What a processor does with the wrapper before it acts: nothing, Proto(),
\* or Proto() and a mutation of the returned proto.
Touches == {"none", "read", "mutate"}
Touch(w, t) ==
    CASE t = "none" -> w
      [] t = "read" -> Proto(w)
      [] t = "mutate" -> Mutate(Proto(w))

(* Pipeline.Process: wrap the bytes in a fresh resourceWrapper and call   *)
(* pipelineFunc, the first processor's Process (or writeToSinks).         *)
Process(r) ==
    /\ phase = "idle"
    /\ r \notin submitted
    /\ phase' = "process"
    /\ submitted' = submitted \cup {r}
    /\ cur' = r /\ at' = 1 /\ sk' = 0 /\ origin' = 0
    /\ UNCHANGED <<fin, finalized, buffer, sinkBuf, stored, wr, dropped,
                   failed, result>>

(* Processor `at` passes the resource to the output SetOutput gave it: the *)
(* next processor's Process, or writeToSinks after the last one.          *)
ProcessorForward ==
    /\ cur # NoResource /\ at \in ProcStages
    /\ \E t \in Touches : wr' = [wr EXCEPT ![cur] = Touch(@, t)]
    /\ at' = at + 1
    /\ UNCHANGED <<phase, cur, sk, origin, fin, finalized, buffer, sinkBuf,
                   stored, submitted, dropped, failed, result>>

(* Processor `at` keeps the resource to forward it from its Finalize.     *)
ProcessorBuffer ==
    /\ cur # NoResource /\ at \in ProcStages
    /\ \E t \in Touches : wr' = [wr EXCEPT ![cur] = Touch(@, t)]
    /\ buffer' = [buffer EXCEPT ![at] = @ \cup {cur}]
    /\ Return(FALSE)
    /\ UNCHANGED <<at, sk, origin, fin, finalized, sinkBuf, stored,
                   submitted, dropped>>

(* Processor `at` filters the resource out. *)
ProcessorDrop ==
    /\ cur # NoResource /\ at \in ProcStages
    /\ dropped' = dropped \cup {cur}
    /\ Return(FALSE)
    /\ UNCHANGED <<at, sk, origin, fin, finalized, buffer, sinkBuf, stored,
                   wr, submitted>>

(* Processor `at` returns an error, its own or Proto()'s unmarshal error. *)
ProcessorFail ==
    /\ cur # NoResource /\ at \in ProcStages
    /\ Return(TRUE)
    /\ UNCHANGED <<at, sk, origin, fin, finalized, buffer, sinkBuf, stored,
                   wr, submitted, dropped>>

(* writeToSinks: set doneMutating, then write to the sinks in order. *)
WriteToSinks ==
    /\ cur # NoResource /\ at = WriteStage /\ sk = 0
    /\ wr' = [wr EXCEPT ![cur].done = TRUE]
    /\ IF NS = 0
         THEN Return(FALSE) /\ UNCHANGED sk
         ELSE sk' = 1 /\ UNCHANGED <<phase, cur, failed, result>>
    /\ UNCHANGED <<at, origin, fin, finalized, buffer, sinkBuf, stored,
                   submitted, dropped>>

\* writeToSinks moves on after sink sk accepted the resource.
NextSink ==
    IF sk = NS
      THEN Return(FALSE) /\ sk' = 0
      ELSE sk' = sk + 1 /\ UNCHANGED <<phase, cur, failed, result>>

(* Sink sk's Write reads the resource (SinkRead) and stores it now. *)
SinkStore ==
    /\ cur # NoResource /\ at = WriteStage /\ sk >= 1
    /\ \E t \in SinkReads : LET w == SinkRead(wr[cur], t) IN
         /\ wr' = [wr EXCEPT ![cur] = w]
         /\ stored' = [stored EXCEPT ![sk] = @ \cup {<<cur, Written(w, t)>>}]
    /\ NextSink
    /\ UNCHANGED <<at, origin, fin, finalized, buffer, sinkBuf, submitted,
                   dropped>>

(* Sink sk's Write reads the resource (SinkRead) and batches what it     *)
(* read until its Finalize.                                              *)
SinkBuffer ==
    /\ cur # NoResource /\ at = WriteStage /\ sk >= 1
    /\ \E t \in SinkReads : LET w == SinkRead(wr[cur], t) IN
         /\ wr' = [wr EXCEPT ![cur] = w]
         /\ sinkBuf' = [sinkBuf EXCEPT ![sk] = @ \cup {<<cur, Written(w, t)>>}]
    /\ NextSink
    /\ UNCHANGED <<at, origin, fin, finalized, buffer, stored, submitted,
                   dropped>>

(* Mutant: writeToSinks that goes on to the next sink after an error. *)
SinkFailContinue ==
    /\ cur # NoResource /\ at = WriteStage /\ sk >= 1
    /\ IF sk = NS
         THEN Return(TRUE) /\ sk' = 0
         ELSE sk' = sk + 1 /\ UNCHANGED <<phase, cur, failed, result>>
    /\ UNCHANGED <<at, origin, fin, finalized, buffer, sinkBuf, stored, wr,
                   submitted, dropped>>

(* Sink sk's Write fails (its own error or JSON()'s marshal error):       *)
(* writeToSinks returns it at once and the later sinks are not called.    *)
SinkFail ==
    /\ cur # NoResource /\ at = WriteStage /\ sk >= 1
    /\ Return(TRUE)
    /\ sk' = 0
    /\ UNCHANGED <<at, origin, fin, finalized, buffer, sinkBuf, stored, wr,
                   submitted, dropped>>

-----------------------------------------------------------------------------
(* Pipeline.Finalize, called once by the caller when no Process is running. *)
Finalize ==
    /\ phase = "idle"
    /\ phase' = "finalize"
    /\ UNCHANGED <<cur, at, sk, origin, fin, finalized, buffer, sinkBuf,
                   stored, wr, submitted, dropped, failed, result>>

\* The stage whose Finalize runs now.
FinStage == FinalizeOrder[fin]

FinalizeCalling ==
    /\ phase = "finalize" /\ cur = NoResource /\ fin <= NP + NS

(* Mutant: a flush that forwards a resource but keeps it in the buffer. *)
ProcessorFlushKeep ==
    /\ FinalizeCalling
    /\ FinStage \in ProcStages
    /\ \E r \in buffer[FinStage], t \in Touches :
         /\ wr' = [wr EXCEPT ![r] = Touch(@, t)]
         /\ cur' = r
    /\ at' = FinStage + 1 /\ sk' = 0 /\ origin' = FinStage
    /\ UNCHANGED <<phase, fin, finalized, buffer, sinkBuf, stored, submitted,
                   dropped, failed, result>>

(* A processor's Finalize forwards one buffered resource to its output,   *)
(* possibly touching it first.                                            *)
ProcessorFlush ==
    /\ FinalizeCalling
    /\ FinStage \in ProcStages
    /\ \E r \in buffer[FinStage], t \in Touches :
         /\ buffer' = [buffer EXCEPT ![FinStage] = @ \ {r}]
         /\ wr' = [wr EXCEPT ![r] = Touch(@, t)]
         /\ cur' = r
    /\ at' = FinStage + 1 /\ sk' = 0 /\ origin' = FinStage
    /\ UNCHANGED <<phase, fin, finalized, sinkBuf, stored, submitted,
                   dropped, failed, result>>

(* A processor's Finalize returns nil once its buffer is empty. *)
ProcessorFinalized ==
    /\ FinalizeCalling
    /\ FinStage \in ProcStages
    /\ buffer[FinStage] = {}
    /\ finalized' = finalized \cup {FinStage}
    /\ fin' = fin + 1
    /\ UNCHANGED <<phase, cur, at, sk, origin, buffer, sinkBuf, stored, wr,
                   submitted, dropped, failed, result>>

(* A sink's Finalize writes out what it batched. *)
SinkFinalized ==
    /\ FinalizeCalling
    /\ FinStage \in SinkStages
    /\ LET j == FinStage - NP IN
         /\ stored' = [stored EXCEPT ![j] = @ \cup sinkBuf[j]]
         /\ sinkBuf' = [sinkBuf EXCEPT ![j] = {}]
    /\ finalized' = finalized \cup {FinStage}
    /\ fin' = fin + 1
    /\ UNCHANGED <<phase, cur, at, sk, origin, buffer, wr, submitted,
                   dropped, failed, result>>

(* A processor's or a sink's Finalize returns an error: Pipeline.Finalize *)
(* returns it and skips the remaining calls.                              *)
FinalizeFail ==
    /\ FinalizeCalling
    /\ finalized' = finalized \cup {FinStage}
    /\ result' = "error"
    /\ phase' = "done"
    /\ UNCHANGED <<cur, at, sk, origin, fin, buffer, sinkBuf, stored, wr,
                   submitted, dropped, failed>>

(* Every Finalize returned nil: Pipeline.Finalize returns nil. *)
FinalizeReturn ==
    /\ phase = "finalize" /\ cur = NoResource /\ fin = NP + NS + 1
    /\ result' = "ok"
    /\ phase' = "done"
    /\ UNCHANGED <<cur, at, sk, origin, fin, finalized, buffer, sinkBuf,
                   stored, wr, submitted, dropped, failed>>

(* The run is over. *)
Finished ==
    /\ phase = "done"
    /\ UNCHANGED vars

Next ==
    \/ \E r \in Resources : Process(r)
    \/ ProcessorForward \/ ProcessorBuffer \/ ProcessorDrop \/ ProcessorFail
    \/ WriteToSinks \/ SinkStore \/ SinkBuffer \/ SinkFail
    \/ Finalize \/ ProcessorFlush \/ ProcessorFinalized \/ SinkFinalized
    \/ FinalizeFail \/ FinalizeReturn
    \/ Finished

Spec == Init /\ [][Next]_vars

-----------------------------------------------------------------------------
\* What the pipeline promises its caller.

\* The resources sink j has accepted (stored or batched).
Accepted(j) == {e[1] : e \in stored[j] \cup sinkBuf[j]}

(* writeToSinks calls the sinks in list order and stops at the first     *)
(* error: the sinks that accepted a resource are always a prefix of the   *)
(* sink list, so no sink holds a resource an earlier sink refused.        *)
SinkOrderPrefix ==
    \A r \in Resources, j, k \in 1..NS :
        j < k /\ r \in Accepted(k) => r \in Accepted(j)

(* No processor's Process and no sink's Write is called after that stage's *)
(* Finalize returned: resources a processor flushes from its Finalize      *)
(* still meet live stages downstream.                                      *)
NoCallAfterFinalize ==
    cur # NoResource =>
        /\ at \in ProcStages => at \notin finalized
        /\ at = WriteStage /\ sk >= 1 => NP + sk \notin finalized

(* When Finalize returns nil, every resource that was processed without   *)
(* error and not filtered out is stored by every sink, and what is stored *)
(* is the resource's final content, not JSON cached before a mutation.    *)
NoResourceLost ==
    result = "ok" =>
        \A r \in submitted \ (dropped \cup failed), j \in 1..NS :
            <<r, Content(wr[r])>> \in stored[j]

(* Once writeToSinks has set doneMutating on a resource, nothing changes  *)
(* it again (client.go 555-558, 577-580, 701-704): the flag stays set,   *)
(* its content stays the same, and once JSON() has cached the bytes they  *)
(* stay cached, even when a sink calls Proto(), so every later sink's    *)
(* JSON() returns the bytes the first one saw instead of a re-marshal.   *)
DoneFrozen ==
    [][\A r \in Resources :
          wr[r].done =>
            /\ wr'[r].done
            /\ Content(wr'[r]) = Content(wr[r])
            /\ wr[r].json => wr'[r].json /\ wr'[r].jsonVer = wr[r].jsonVer]_vars

(* Pipeline implements PipelineContract: what the caller sees of Process   *)
(* and Finalize.  Finalize has been called once the phase is "finalize";   *)
(* the sinks holding r are those that accepted it.  A step of the model is *)
(* a step of the contract or leaves all of that unchanged: no sink sees a  *)
(* resource that was filtered out, that failed or that skipped an earlier *)
(* sink, no resource is processed after Finalize, nothing reaches a sink  *)
(* after Finalize returned, and Finalize returns nil only when every kept  *)
(* resource is held by every sink (client.go 700-746).                     *)
Closed == phase \in {"finalize", "done"}
Held == [r \in Resources |-> {j \in 1..NS : r \in Accepted(j)}]

Contract == INSTANCE PipelineContract WITH closed <- Closed, held <- Held

ContractRefined == Contract!Spec
=============================================================================
