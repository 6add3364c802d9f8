---------------------------- MODULE MonitorProofs ----------------------------
(***************************************************************************)
(* Proofs about the job-status monitor (module Monitor) for every value of *)
(* the constants: the type invariant, and that at most one terminal result *)
(* is ever sent on the channel, with nothing after it.                    *)
(***************************************************************************)
EXTENDS Monitor, SequenceTheorems, TLAPS

\* The result about to be sent is a real MonitorResult.
SendReady == mpc = "send" => pending \in Events

\* The typing invariant: TypeOK is not inductive by itself, since Send
\* appends `pending`, which TypeOK allows to be NoEvent.
TypeInv == TypeOK /\ SendReady

ResultT == [st: JobStatusT, err: JobStatusErrors \cup {NoError}]

-----------------------------------------------------------------------------
(* Client.JobStatus returns a JobStatus and one of its error kinds, for    *)
(* every response the server may give.                                     *)
LEMMA JobStatusResultType ==
    ASSUME NEW p,
           NEW resp \in PendingResponses(p) \cup CompleteResponses
                         \cup OtherResponses
    PROVE  JobStatusResult(resp) \in ResultT
<1> USE PercentsAssumption
    DEF ResultT, JobStatusT, Pending, ZeroStatus, CompleteStatus,
        JobStatusErrors, NoError
<1>1. CASE resp \in PendingResponses(p)
  BY <1>1 DEF PendingResponses, JobStatusResult
<1>2. CASE resp \in CompleteResponses
  BY <1>2 DEF CompleteResponses, JobStatusResult
<1>3. CASE resp \in OtherResponses
  BY <1>3 DEF OtherResponses, JobStatusResult
<1>4. QED
  BY <1>1, <1>2, <1>3

(* What the monitor does with a result of that type keeps its variables   *)
(* typed, and a result it is to send is a MonitorResult.                   *)
LEMMA HandleResultType ==
    ASSUME NEW r \in ResultT, HandleResult(r),
           pending \in Events \cup {NoEvent},
           after \in {"loop", "sleep", "close"}
    PROVE  /\ js' \in JobStatusT
           /\ pending' \in Events \cup {NoEvent}
           /\ after' \in {"loop", "sleep", "close"}
           /\ mpc' \in MonitorPCs
           /\ mpc' = "send" => pending' \in Events
<1>0. js' = r.st /\ r.st \in JobStatusT
  BY DEF HandleResult, ResultT
<1>1. CASE r.err = "Unauthorized"
  <2>1. mpc' = "auth" /\ pending' = pending /\ after' = after
    BY <1>1 DEF HandleResult
  <2>2. QED
    BY <1>0, <2>1 DEF MonitorPCs
<1>2. CASE r.err = NoError
  BY <1>2 DEF HandleResult, ResultT, MonitorPCs, Events, StatusEvent, NoError
<1>3. CASE r.err \notin {"Unauthorized", NoError}
  <2>1. r.err \in Errors
    BY <1>3 DEF ResultT, Errors, JobStatusErrors, NoError
  <2>2. ErrorEvent(r.err) \in Events
    BY <2>1 DEF ErrorEvent, Events
  <2>3. QED
    BY <1>3, <2>2 DEF HandleResult, ResultT, MonitorPCs, NoError
<1>4. QED
  BY <1>1, <1>2, <1>3

-----------------------------------------------------------------------------
LEMMA TypeInit == Init => TypeInv
<1> SUFFICES ASSUME Init PROVE TypeInv
  OBVIOUS
<1>1. <<>> \in Seq(Events) /\ Len(<<>>) = 0
  BY EmptySeq
<1>2. ZeroStatus \in JobStatusT
  BY PercentsAssumption DEF ZeroStatus, Pending, JobStatusT
<1>3. chan \in Seq(Events) /\ Len(chan) <= BufCap
  BY <1>1, BufCapAssumption DEF Init
<1>4. js \in JobStatusT /\ srvPct \in Percents /\ seenPct \in Percents
  BY <1>2, PercentsAssumption DEF Init
<1>5. wake \in 0..Timeout /\ now \in 0..Timeout /\ terminals \in Nat
  BY TimeoutAssumption DEF Init
<1>6. QED
  BY <1>3, <1>4, <1>5 DEF Init, TypeInv, TypeOK, SendReady, Tokens, MonitorPCs

LEMMA TypeStep == TypeInv /\ [Next]_vars => TypeInv'
<1> SUFFICES ASSUME TypeInv, [Next]_vars PROVE TypeInv'
  OBVIOUS
<1> USE DEF TypeInv, TypeOK, SendReady, monitorVars, serverVars, callerVars,
           historyVars
<1>1. CASE LoopEnter
  BY <1>1 DEF LoopEnter, MonitorPCs
<1>2. CASE LoopExit
  BY <1>2 DEF LoopExit, MonitorPCs, ErrorEvent, Events, Errors
<1>3. CASE CallRejected
  <2>1. [st |-> ZeroStatus, err |-> "Unauthorized"] \in ResultT
    BY PercentsAssumption
       DEF ResultT, JobStatusT, ZeroStatus, Pending, JobStatusErrors
  <2>2. QED
    BY <1>3, <2>1, HandleResultType DEF CallRejected
<1>4. CASE CallServer
  <2>1. PICK resp \in (IF srvDone THEN CompleteResponses
                                  ELSE PendingResponses(srvPct))
                      \cup OtherResponses :
          /\ HandleResult(JobStatusResult(resp))
          /\ srvPct' = IF resp.code = "202" /\ resp.parses
                         THEN resp.pct ELSE srvPct
    BY <1>4 DEF CallServer
  <2>2. JobStatusResult(resp) \in ResultT
    BY JobStatusResultType
  <2>3. srvPct' \in Percents
    BY <2>1 DEF PendingResponses, CompleteResponses, OtherResponses
  <2>4. QED
    BY <1>4, <2>1, <2>2, <2>3, HandleResultType DEF CallServer
<1>5. CASE AuthFail
  BY <1>5 DEF AuthFail, MonitorPCs, ErrorEvent, Events, Errors
<1>6. CASE AuthStore
  BY <1>6 DEF AuthStore, MonitorPCs
<1>7. CASE Send
  <2>0. pending \in Events /\ chan' = Append(chan, pending)
        /\ Len(chan) < BufCap
    BY <1>7 DEF Send
  <2>1. chan' \in Seq(Events) /\ Len(chan') <= BufCap
    <3>1. Append(chan, pending) \in Seq(Events)
          /\ Len(Append(chan, pending)) = Len(chan) + 1
      BY <2>0, AppendProperties
    <3>2. QED
      BY <2>0, <3>1, BufCapAssumption
  <2>2. wake' \in 0..Timeout
    BY <1>7, CheckPeriodAssumption, TimeoutAssumption DEF Send, Min2
  <2>3. terminals' \in Nat /\ lastSent' \in Events \cup {NoEvent}
    BY <1>7 DEF Send
  <2>4. QED
    BY <1>7, <2>1, <2>2, <2>3 DEF Send, MonitorPCs
<1>8. CASE Wake
  BY <1>8 DEF Wake, MonitorPCs
<1>9. CASE Close
  BY <1>9 DEF Close, MonitorPCs
<1>10. CASE Tick
  BY <1>10, TimeoutAssumption DEF Tick
<1>11. CASE ServerFinish \/ ServerHang
  BY <1>11 DEF ServerFinish, ServerHang
<1>12. CASE Receive
  <2>1. chan # <<>> /\ chan' = Tail(chan)
    BY <1>12 DEF Receive
  <2>2. Head(chan) \in Events /\ Tail(chan) \in Seq(Events)
        /\ Len(Tail(chan)) = Len(chan) - 1
    BY <2>1, HeadTailProperties
  <2>3. chan' \in Seq(Events) /\ Len(chan') <= BufCap
    BY <2>1, <2>2, BufCapAssumption
  <2>4. Head(chan).kind = "status" => Head(chan).status.pct \in Percents
    BY <2>2 DEF Events, JobStatusT
  <2>5. seenPct' \in Percents
    BY <1>12, <2>4 DEF Receive
  <2>6. QED
    BY <1>12, <2>3, <2>5 DEF Receive
<1>13. CASE ObserveClose
  BY <1>13 DEF ObserveClose
<1>14. CASE Finished
  BY <1>14 DEF Finished, vars, monitorVars, serverVars, callerVars,
                historyVars
<1>15. CASE UNCHANGED vars
  BY <1>15 DEF vars, monitorVars, serverVars, callerVars, historyVars
<1>16. QED
  BY <1>1, <1>2, <1>3, <1>4, <1>5, <1>6, <1>7, <1>8, <1>9, <1>10, <1>11,
     <1>12, <1>13, <1>14, <1>15 DEF Next, MonitorStep

(* Every reachable state of the monitor is well typed. *)
THEOREM TypeCorrect == Spec => []TypeOK
<1>1. Spec => []TypeInv
  BY TypeInit, TypeStep, PTL DEF Spec
<1>2. QED
  BY <1>1, PTL DEF TypeInv

-----------------------------------------------------------------------------
\* The part of TerminalInv beyond TypeOK.
TerminalFacts ==
    /\ terminals \in {0, 1}
    /\ terminals = 1 =>
         /\ IsTerminal(lastSent)
         /\ mpc \in {"loop", "close", "closed"}
         /\ mpc = "loop" => js.complete
    /\ mpc = "send" /\ IsTerminal(pending) =>
         /\ terminals = 0
         /\ pending.kind = "status" => after = "loop" /\ js.complete
         /\ pending.kind = "error" => after = "close"

(* The results Client.JobStatus hands to the monitor are never terminal in *)
(* the error case: ErrorTimeout comes only from the monitor itself.       *)
LEMMA ResultEventNotTimeout ==
    ASSUME NEW r \in ResultT, r.err \notin {"Unauthorized", NoError}
    PROVE  ~IsTerminal(ErrorEvent(r.err))
BY DEF ResultT, JobStatusErrors, NoError, IsTerminal, ErrorEvent

LEMMA TerminalFactsInit == Init => TerminalFacts
BY DEF Init, TerminalFacts, NoEvent, IsTerminal

LEMMA TerminalFactsStep ==
    TypeInv /\ TerminalFacts /\ [Next]_vars => TerminalFacts'
<1> SUFFICES ASSUME TypeInv, TerminalFacts, [Next]_vars
             PROVE  TerminalFacts'
  OBVIOUS
<1> USE DEF TerminalFacts, monitorVars, serverVars, callerVars, historyVars
\* Away from "loop", "close" and "closed" nothing terminal has been sent.
<1>0. mpc \in {"call", "auth", "send", "sleep"} => terminals = 0
  OBVIOUS
<1>1. CASE LoopEnter
  BY <1>1 DEF LoopEnter
<1>2. CASE LoopExit
  <2>1. CASE js.complete
    BY <1>2, <2>1 DEF LoopExit
  <2>2. CASE ~js.complete
    <3>1. terminals = 0
      BY <1>2, <2>2 DEF LoopExit
    <3>2. pending' = ErrorEvent("Timeout") /\ after' = "close" /\ mpc' = "send"
      BY <1>2, <2>2 DEF LoopExit
    <3>3. QED
      BY <1>2, <3>1, <3>2 DEF LoopExit, ErrorEvent, IsTerminal
  <2>3. QED
    BY <2>1, <2>2
<1>3. CASE CallRejected
  BY <1>3, <1>0 DEF CallRejected, HandleResult
<1>4. CASE CallServer
  <2>1. terminals = 0 /\ terminals' = 0
    BY <1>4, <1>0 DEF CallServer
  <2>2. PICK resp \in (IF srvDone THEN CompleteResponses
                                  ELSE PendingResponses(srvPct))
                      \cup OtherResponses :
          HandleResult(JobStatusResult(resp))
    BY <1>4 DEF CallServer
  <2> DEFINE r == JobStatusResult(resp)
  <2>3. r \in ResultT
    BY JobStatusResultType
  <2>4. CASE r.err = "Unauthorized"
    BY <2>1, <2>2, <2>4 DEF HandleResult
  <2>5. CASE r.err = NoError
    <3>1. pending' = StatusEvent(r.st) /\ js' = r.st /\ mpc' = "send"
          /\ after' = IF r.st.complete THEN "loop" ELSE "sleep"
      BY <2>2, <2>5 DEF HandleResult, NoError
    <3>2. QED
      BY <2>1, <3>1 DEF StatusEvent, IsTerminal
  <2>6. CASE r.err \notin {"Unauthorized", NoError}
    <3>1. pending' = ErrorEvent(r.err) /\ mpc' = "send"
      BY <2>2, <2>6 DEF HandleResult
    <3>2. ~IsTerminal(pending')
      BY <2>3, <2>6, <3>1, ResultEventNotTimeout
    <3>3. QED
      BY <2>1, <3>1, <3>2
  <2>7. QED
    BY <2>4, <2>5, <2>6
<1>5. CASE AuthFail
  BY <1>5, <1>0 DEF AuthFail, ErrorEvent, IsTerminal
<1>6. CASE AuthStore
  BY <1>6, <1>0 DEF AuthStore
<1>7. CASE Send
  <2>1. terminals = 0
    BY <1>7, <1>0 DEF Send
  <2>2. after \in {"loop", "sleep", "close"} /\ mpc' = after
    BY <1>7 DEF Send, TypeInv, TypeOK
  <2>3. CASE IsTerminal(pending) /\ pending.kind = "status"
    <3>1. after = "loop" /\ js.complete
      BY <1>7, <2>3 DEF Send
    <3>2. QED
      BY <1>7, <2>1, <2>2, <2>3, <3>1 DEF Send
  <2>6. CASE IsTerminal(pending) /\ pending.kind = "error"
    <3>1. after = "close"
      BY <1>7, <2>6 DEF Send
    <3>2. QED
      BY <1>7, <2>1, <2>2, <2>6, <3>1 DEF Send
  <2>4. CASE ~IsTerminal(pending)
    BY <1>7, <2>1, <2>2, <2>4 DEF Send
  <2>5. QED
    BY <2>3, <2>4, <2>6 DEF IsTerminal
<1>8. CASE Wake
  BY <1>8, <1>0 DEF Wake
<1>9. CASE Close
  BY <1>9 DEF Close
<1>10. CASE Tick \/ ServerFinish \/ ServerHang \/ Receive \/ ObserveClose
       \/ Finished \/ UNCHANGED vars
  BY <1>10 DEF Tick, ServerFinish, ServerHang, Receive, ObserveClose,
     Finished, vars
<1>11. QED
  BY <1>1, <1>2, <1>3, <1>4, <1>5, <1>6, <1>7, <1>8, <1>9, <1>10
  DEF Next, MonitorStep

(* TerminalInv holds in every reachable state of the monitor. *)
THEOREM TerminalInvariant == Spec => []TerminalInv
<1>1. Init => TypeInv /\ TerminalFacts
  BY TypeInit, TerminalFactsInit
<1>2. TypeInv /\ TerminalFacts /\ [Next]_vars
        => (TypeInv /\ TerminalFacts)'
  BY TypeStep, TerminalFactsStep
<1>3. TypeInv /\ TerminalFacts => TerminalInv
  BY DEF TypeInv, TerminalFacts, TerminalInv
<1>4. QED
  BY <1>1, <1>2, <1>3, PTL DEF Spec

(* MonitorJobStatus sends at most one terminal result (the completed     *)
(* JobStatus or ErrorTimeout) and nothing after it, for every channel    *)
(* capacity, timeout, check period and set of progress values.           *)
THEOREM OneTerminal == Spec => []AtMostOneTerminal
<1>1. TerminalInv => AtMostOneTerminal
  BY DEF TerminalInv, AtMostOneTerminal
<1>2. QED
  BY <1>1, TerminalInvariant, PTL

-----------------------------------------------------------------------------
(* The channel is closed exactly when the goroutine has run close(out). *)
ClosedFact == closed = (mpc = "closed")

LEMMA ClosedFactStep == TypeInv /\ ClosedFact /\ [Next]_vars => ClosedFact'
<1> SUFFICES ASSUME TypeInv, ClosedFact, [Next]_vars
             PROVE  ClosedFact'
  OBVIOUS
<1> USE DEF ClosedFact, monitorVars, serverVars, callerVars, historyVars
<1>1. CASE MonitorStep
  BY <1>1 DEF MonitorStep, LoopEnter, LoopExit, CallRejected, CallServer,
             HandleResult, AuthFail, AuthStore, Send, Wake, Close,
             TypeInv, TypeOK
<1>2. CASE Tick \/ ServerFinish \/ ServerHang \/ Receive \/ ObserveClose
       \/ Finished \/ UNCHANGED vars
  BY <1>2 DEF Tick, ServerFinish, ServerHang, Receive, ObserveClose,
     Finished, vars
<1>3. QED
  BY <1>1, <1>2 DEF Next

\* The invariant the refinement rests on.
RefInv == TypeInv /\ TerminalFacts /\ ClosedFact

LEMMA RefInvariant == Spec => []RefInv
<1>1. Init => RefInv
  BY TypeInit, TerminalFactsInit DEF Init, RefInv, ClosedFact
<1>2. RefInv /\ [Next]_vars => RefInv'
  BY TypeStep, TerminalFactsStep, ClosedFactStep DEF RefInv
<1>3. QED
  BY <1>1, <1>2, PTL DEF Spec

(* Every step of the monitor is a step of the stream MonitorJobStatus      *)
(* promises, or leaves the channel as it is.                              *)
LEMMA StreamStep == RefInv /\ [Next]_vars => [Stream!Next]_Stream!svars
<1> SUFFICES ASSUME RefInv, [Next]_vars
             PROVE  [Stream!Next]_Stream!svars
  OBVIOUS
<1> USE DEF RefInv, monitorVars, serverVars, callerVars, historyVars
<1>0. TypeOK /\ TerminalFacts /\ ClosedFact
  BY DEF TypeInv
<1>1. CASE Send
  <2>1. terminals = 0 /\ closed = FALSE
    BY <1>0, <1>1 DEF Send, TerminalFacts, ClosedFact
  <2>2. pending \in Events
    BY <1>1 DEF Send, TypeInv, SendReady
  <2>3. terminals' > 0 <=> pending \in {ev \in Events : IsTerminal(ev)}
    BY <1>1, <2>1, <2>2 DEF Send
  <2>4. Stream!Emit
    BY <1>0, <1>1, <2>1, <2>2, <2>3 DEF Send, Stream!Emit, TypeOK
  <2>5. QED
    BY <2>4 DEF Stream!Next
<1>2. CASE Receive
  <2>1. Stream!Consume
    BY <1>2 DEF Receive, Stream!Consume
  <2>2. QED
    BY <2>1 DEF Stream!Next
<1>3. CASE Close
  <2>1. Stream!Close
    BY <1>0, <1>3 DEF Close, Stream!Close, ClosedFact
  <2>2. QED
    BY <2>1 DEF Stream!Next
<1>4. CASE LoopEnter \/ LoopExit \/ CallRejected \/ CallServer \/ AuthFail
           \/ AuthStore \/ Wake
  BY <1>4 DEF LoopEnter, LoopExit, CallRejected, CallServer, HandleResult,
              AuthFail, AuthStore, Wake, Stream!svars
<1>5. CASE Tick \/ ServerFinish \/ ServerHang \/ ObserveClose \/ Finished
       \/ UNCHANGED vars
  BY <1>5 DEF Tick, ServerFinish, ServerHang, ObserveClose, Finished, vars,
     Stream!svars
<1>6. QED
  BY <1>1, <1>2, <1>3, <1>4, <1>5 DEF Next, MonitorStep

(* MonitorJobStatus implements the safety part of the stream it promises: *)
(* no send into a closed or full channel or after the final result, and   *)
(* one close, for every channel capacity, timeout and check period.       *)
THEOREM StreamRefinement == Spec => StreamRefined
<1>1. Init => Stream!Init
  BY DEF Init, Stream!Init
<1>2. QED
  BY <1>1, RefInvariant, StreamStep, PTL DEF Spec, StreamRefined, Stream!Spec

=============================================================================
