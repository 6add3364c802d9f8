------------------------------- MODULE Monitor -------------------------------
(***************************************************************************)
(* The job-status monitor of package bulkfhir (src/bulkfhir/client.go):    *)
(* the goroutine started by Client.MonitorJobStatus, the Client.JobStatus  *)
(* and Client.Authenticate calls it makes, the bearer token they share,    *)
(* the buffered result channel and the caller that drains it.              *)
(*                                                                         *)
(* The data is abstracted to what the properties tell apart: the token is  *)
(* empty or not, an HTTP response is a record naming its status code and   *)
(* the few header/body facts the code branches on, an error is its kind.   *)
(* Wall-clock time is a counter `now` that the environment advances; the   *)
(* deadline is the constant Timeout (MonitorJobStatus computes it from     *)
(* time.Now() at the start, which is time 0 here).                         *)
(***************************************************************************)
EXTENDS Naturals, Sequences

CONSTANTS
    BufCap,       \* capacity of the MonitorResult channel (100 in the code)
    Timeout,      \* the monitor's timeout, in clock ticks
    CheckPeriod,  \* the monitor's check period, in clock ticks
    Percents      \* the progress values the server may report

ASSUME BufCapAssumption == BufCap \in Nat \ {0}
ASSUME TimeoutAssumption == Timeout \in Nat
ASSUME CheckPeriodAssumption == CheckPeriod \in Nat
ASSUME PercentsAssumption == Percents \subseteq Nat /\ 0 \in Percents

-----------------------------------------------------------------------------
(* Values                                                                  *)
-----------------------------------------------------------------------------

\* Client.token is a string; the code only ever asks whether it is empty.
NoToken == "empty"
Token == "token"
Tokens == {NoToken, Token}

\* The responses the export server may give to a job-status GET.
\*  "transport": httpClient.Do itself fails (connection refused, reset ...).
\*  202 with nprog X-Progress headers; `parses` is FALSE when the regexp
\*      does not match the first one or strconv.Atoi rejects its digits
\*      (out of range), else it carries the value `pct`.
\*  200 with a body that decodes ("ok"), does not decode ("malformed"), or
\*      decodes but names an unknown resource type or an unparsable
\*      transactionTime ("invalid").
\*  401, and any other code (500 stands for all of them).
PendingResponses(minPct) ==
    [code: {"202"}, nprog: {0, 1, 2}, parses: BOOLEAN,
     pct: {p \in Percents : p >= minPct}]
CompleteResponses == [code: {"200"}, body: {"ok", "malformed", "invalid"}]
OtherResponses == {[code |-> "transport"], [code |-> "401"], [code |-> "500"]}

\* The error kinds of the package, as the monitor sees them.
JobStatusErrors == {"Unauthorized", "XProgressCount", "ParseProgress",
                    "Decode", "ResultBody", "UnexpectedStatus"}
Errors == (JobStatusErrors \ {"Unauthorized"}) \cup {"AuthFailure", "Timeout"}
NoError == "nil"

\* JobStatus values: PercentComplete is only set on a pending answer.
JobStatusT == [complete: BOOLEAN, pct: Percents]
Pending(p) == [complete |-> FALSE, pct |-> p]
ZeroStatus == Pending(0)
CompleteStatus == [complete |-> TRUE, pct |-> 0]

\* The MonitorResult values sent on the channel.
StatusEvent(st) == [kind |-> "status", status |-> st]
ErrorEvent(e) == [kind |-> "error", err |-> e]
Events == [kind: {"status"}, status: JobStatusT] \cup [kind: {"error"}, err: Errors]
NoEvent == [kind |-> "none"]

\* The events after which the channel is meant to be closed: the final
\* completed JobStatus, or ErrorTimeout (doc comment of MonitorJobStatus).
IsTerminal(ev) ==
    \/ ev.kind = "status" /\ ev.status.complete
    \/ ev.kind = "error" /\ ev.err = "Timeout"

\* The (status, error) pair Client.JobStatus returns for a server response
\* (the code after httpClient.Do; the empty-token check is CallRejected).
JobStatusResult(resp) ==
    CASE resp.code = "transport" -> [st |-> ZeroStatus, err |-> NoError]
      [] resp.code = "202" /\ resp.nprog # 1 ->
             [st |-> ZeroStatus, err |-> "XProgressCount"]
      [] resp.code = "202" /\ ~resp.parses ->
             [st |-> ZeroStatus, err |-> "ParseProgress"]
      [] resp.code = "202" -> [st |-> Pending(resp.pct), err |-> NoError]
      [] resp.code = "200" /\ resp.body = "malformed" ->
             [st |-> CompleteStatus, err |-> "Decode"]
      [] resp.code = "200" /\ resp.body = "invalid" ->
             [st |-> ZeroStatus, err |-> "ResultBody"]
      [] resp.code = "200" -> [st |-> CompleteStatus, err |-> NoError]
      [] resp.code = "401" -> [st |-> ZeroStatus, err |-> "Unauthorized"]
      [] OTHER -> [st |-> ZeroStatus, err |-> "UnexpectedStatus"]

Min2(a, b) == IF a < b THEN a ELSE b

-----------------------------------------------------------------------------
VARIABLES
    token,      \* Client.token
    mpc,        \* where the monitor goroutine is
    js,         \* its local jobStatus
    pending,    \* the MonitorResult it is about to send
    after,      \* where it goes once that result is sent
    wake,       \* the tick at which its time.Sleep returns
    chan,       \* the buffered channel `out`
    closed,     \* close(out) has run
    now,        \* the wall clock
    srvDone,    \* the export job has finished on the server
    srvPct,     \* the progress the server last reported
    srvHung,    \* the status request in flight will never be answered
    seenPct,    \* the caller: highest progress it has received
    cdone,      \* the caller: it has seen the channel closed
    terminals,  \* history: number of terminal events sent
    lastSent,   \* history: the last event sent
    reauthed    \* history: Authenticate succeeded and no status call since

monitorVars == <<mpc, js, pending, after, wake>>
serverVars == <<srvDone, srvPct, srvHung>>
callerVars == <<seenPct, cdone>>
historyVars == <<terminals, lastSent, reauthed>>
vars == <<token, monitorVars, chan, closed, now, serverVars, callerVars,
          historyVars>>

MonitorPCs == {"loop", "call", "auth", "send", "sleep", "close", "closed"}

TypeOK ==
    /\ token \in Tokens
    /\ mpc \in MonitorPCs
    /\ js \in JobStatusT
    /\ pending \in Events \cup {NoEvent}
    /\ after \in {"loop", "sleep", "close"}
    /\ wake \in 0..Timeout
    /\ chan \in Seq(Events)
    /\ Len(chan) <= BufCap
    /\ closed \in BOOLEAN
    /\ now \in 0..Timeout
    /\ srvDone \in BOOLEAN
    /\ srvPct \in Percents
    /\ srvHung \in BOOLEAN
    /\ seenPct \in Percents
    /\ cdone \in BOOLEAN
    /\ terminals \in Nat
    /\ lastSent \in Events \cup {NoEvent}
    /\ reauthed \in BOOLEAN

-----------------------------------------------------------------------------
(* The caller may or may not have authenticated before it starts the       *)
(* monitor; the goroutine starts with a zero JobStatus.                    *)
Init ==
    /\ token \in Tokens
    /\ mpc = "loop"
    /\ js = ZeroStatus
    /\ pending = NoEvent
    /\ after = "loop"
    /\ wake = 0
    /\ chan = <<>>
    /\ closed = FALSE
    /\ now = 0
    /\ srvDone = FALSE
    /\ srvPct = 0
    /\ srvHung = FALSE
    /\ seenPct = 0
    /\ cdone = FALSE
    /\ terminals = 0
    /\ lastSent = NoEvent
    /\ reauthed = FALSE

(* Mutant: the loop condition without the deadline. *)
LoopEnterNoDeadline ==
    /\ mpc = "loop"
    /\ ~js.complete
    /\ mpc' = "call"
    /\ UNCHANGED <<token, js, pending, after, wake, chan, closed, now,
                   serverVars, callerVars, historyVars>>

(* The loop condition !jobStatus.IsComplete && time.Now().Before(deadline). *)
LoopEnter ==
    /\ mpc = "loop"
    /\ ~js.complete /\ now < Timeout
    /\ mpc' = "call"
    /\ UNCHANGED <<token, js, pending, after, wake, chan, closed, now,
                   serverVars, callerVars, historyVars>>

(* Mutant: ErrorTimeout sent without the `if !jobStatus.IsComplete` check. *)
LoopExitAlwaysTimeout ==
    /\ mpc = "loop"
    /\ js.complete \/ now >= Timeout
    /\ pending' = ErrorEvent("Timeout")
    /\ after' = "close"
    /\ mpc' = "send"
    /\ UNCHANGED <<token, js, wake, chan, closed, now, serverVars,
                   callerVars, historyVars>>

(* Mutant: the channel closed before ErrorTimeout is sent. *)
LoopExitCloseFirst ==
    /\ mpc = "loop"
    /\ js.complete \/ now >= Timeout
    /\ closed' = TRUE
    /\ IF js.complete
         THEN mpc' = "closed" /\ UNCHANGED <<pending, after>>
         ELSE /\ pending' = ErrorEvent("Timeout")
              /\ after' = "close"
              /\ mpc' = "send"
    /\ UNCHANGED <<token, js, wake, chan, now, serverVars, callerVars,
                   historyVars>>

(* Leaving the loop: send ErrorTimeout unless the job completed, then close. *)
LoopExit ==
    /\ mpc = "loop"
    /\ js.complete \/ now >= Timeout
    /\ IF js.complete
         THEN mpc' = "close" /\ UNCHANGED <<pending, after>>
         ELSE /\ pending' = ErrorEvent("Timeout")
              /\ after' = "close"
              /\ mpc' = "send"
    /\ UNCHANGED <<token, js, wake, chan, closed, now, serverVars,
                   callerVars, historyVars>>

(* What the monitor does with the result of c.JobStatus: on Unauthorized   *)
(* re-authenticate; otherwise send the error or the status, and sleep      *)
(* afterwards unless the returned status is complete.                      *)
HandleResult(r) ==
    /\ js' = r.st
    /\ IF r.err = "Unauthorized"
         THEN mpc' = "auth" /\ UNCHANGED <<pending, after>>
         ELSE /\ pending' = IF r.err = NoError THEN StatusEvent(r.st)
                                               ELSE ErrorEvent(r.err)
              /\ after' = IF r.st.complete THEN "loop" ELSE "sleep"
              /\ mpc' = "send"

(* c.JobStatus with an empty token: ErrorUnauthorized, no request sent.    *)
CallRejected ==
    /\ mpc = "call"
    /\ token = NoToken
    /\ HandleResult([st |-> ZeroStatus, err |-> "Unauthorized"])
    /\ reauthed' = FALSE
    /\ UNCHANGED <<token, wake, chan, closed, now, serverVars, callerVars,
                   terminals, lastSent>>

(* c.JobStatus sends the GET and the server answers: pending while the     *)
(* job runs, with progress that never goes down; complete once it is done; *)
(* or a transport failure, a 401 or another code at any time.              *)
CallServer ==
    /\ mpc = "call"
    /\ token # NoToken
    /\ ~srvHung
    /\ \E resp \in (IF srvDone THEN CompleteResponses
                               ELSE PendingResponses(srvPct))
                   \cup OtherResponses :
        /\ HandleResult(JobStatusResult(resp))
        /\ srvPct' = IF resp.code = "202" /\ resp.parses
                       THEN resp.pct ELSE srvPct
    /\ reauthed' = FALSE
    /\ UNCHANGED <<token, wake, chan, closed, now, srvDone, srvHung,
                   callerVars, terminals, lastSent>>

(* c.Authenticate from the monitor.  It fails before assigning the token   *)
(* when the POST or the JSON decoding fails, and the monitor sends that    *)
(* error; otherwise it stores access_token whatever the HTTP status, and   *)
(* that value may be empty.  Either way the loop continues without sleep.  *)
AuthFail ==
    /\ mpc = "auth"
    /\ pending' = ErrorEvent("AuthFailure")
    /\ after' = "loop"
    /\ mpc' = "send"
    /\ UNCHANGED <<token, js, wake, chan, closed, now, serverVars,
                   callerVars, historyVars>>

AuthStore ==
    /\ mpc = "auth"
    /\ token' \in Tokens
    /\ mpc' = "loop"
    /\ reauthed' = TRUE
    /\ UNCHANGED <<js, pending, after, wake, chan, closed, now, serverVars,
                   callerVars, terminals, lastSent>>

(* Mutant: a send that does not wait for room in the channel. *)
SendUnbounded ==
    /\ mpc = "send"
    /\ chan' = Append(chan, pending)
    /\ terminals' = IF IsTerminal(pending) THEN terminals + 1 ELSE terminals
    /\ lastSent' = pending
    /\ mpc' = after
    /\ wake' = IF after = "sleep" THEN Min2(now + CheckPeriod, Timeout)
                                  ELSE wake
    /\ UNCHANGED <<token, js, pending, after, closed, now, serverVars,
                   callerVars, reauthed>>

(* out <- result: blocks while the channel holds BufCap results.  Going    *)
(* to sleep starts time.Sleep(checkPeriod) (a wake-up past the deadline   *)
(* is the same as one at it: the next loop check fails either way).       *)
Send ==
    /\ mpc = "send"
    /\ Len(chan) < BufCap
    /\ chan' = Append(chan, pending)
    /\ terminals' = IF IsTerminal(pending) THEN terminals + 1 ELSE terminals
    /\ lastSent' = pending
    /\ mpc' = after
    /\ wake' = IF after = "sleep" THEN Min2(now + CheckPeriod, Timeout)
                                  ELSE wake
    /\ UNCHANGED <<token, js, pending, after, closed, now, serverVars,
                   callerVars, reauthed>>

(* time.Sleep returns. *)
Wake ==
    /\ mpc = "sleep"
    /\ now >= wake
    /\ mpc' = "loop"
    /\ UNCHANGED <<token, js, pending, after, wake, chan, closed, now,
                   serverVars, callerVars, historyVars>>

(* close(out). *)
Close ==
    /\ mpc = "close"
    /\ closed' = TRUE
    /\ mpc' = "closed"
    /\ UNCHANGED <<token, js, pending, after, wake, chan, now, serverVars,
                   callerVars, historyVars>>

-----------------------------------------------------------------------------
(* The environment: the clock, the export job, the caller.                 *)

Tick ==
    /\ now < Timeout
    /\ now' = now + 1
    /\ UNCHANGED <<token, monitorVars, chan, closed, serverVars, callerVars,
                   historyVars>>

ServerFinish ==
    /\ ~srvDone
    /\ srvDone' = TRUE
    /\ UNCHANGED <<token, monitorVars, chan, closed, now, srvPct, srvHung,
                   callerVars, historyVars>>

(* The server accepts the status request and never answers it.  The       *)
(* http.Client that NewClient builds has no Timeout and the request has   *)
(* no context, so httpClient.Do waits for it forever.                     *)
ServerHang ==
    /\ mpc = "call" /\ token # NoToken
    /\ ~srvHung
    /\ srvHung' = TRUE
    /\ UNCHANGED <<token, monitorVars, chan, closed, now, srvDone, srvPct,
                   callerVars, historyVars>>

(* The caller ranges over the channel, noting the progress it reads. *)
Receive ==
    /\ chan # <<>>
    /\ chan' = Tail(chan)
    /\ LET ev == Head(chan) IN
         seenPct' = IF ev.kind = "status" /\ ~ev.status.complete
                      /\ ev.status.pct > seenPct
                      THEN ev.status.pct ELSE seenPct
    /\ UNCHANGED <<token, monitorVars, closed, now, serverVars, cdone,
                   historyVars>>

ObserveClose ==
    /\ chan = <<>>
    /\ closed
    /\ ~cdone
    /\ cdone' = TRUE
    /\ UNCHANGED <<token, monitorVars, chan, closed, now, serverVars,
                   seenPct, historyVars>>

(* Nothing is left to happen once the clock has reached the deadline and  *)
(* the caller has seen the channel closed, or the goroutine waits for an *)
(* answer that never comes and the caller has drained the channel.        *)
Finished ==
    /\ now = Timeout
    /\ \/ cdone
       \/ srvHung /\ mpc = "call" /\ chan = <<>>
    /\ UNCHANGED vars

MonitorStep ==
    \/ LoopEnter \/ LoopExit \/ CallRejected \/ CallServer
    \/ AuthFail \/ AuthStore \/ Send \/ Wake \/ Close

Next ==
    \/ MonitorStep
    \/ Tick \/ ServerFinish \/ ServerHang \/ Receive \/ ObserveClose
    \/ Finished

(* The goroutine is scheduled fairly, the clock always advances, and the   *)
(* caller keeps ranging over the channel until it is closed.  The server   *)
(* is not fair: it may never finish the job, and it may hang.              *)
Spec == Init /\ [][Next]_vars
FairSpec ==
    /\ Spec
    /\ WF_vars(MonitorStep) /\ WF_vars(Tick)
    /\ WF_vars(Receive) /\ WF_vars(ObserveClose)

-----------------------------------------------------------------------------
(* The channel as its caller sees it: the results in its buffer, whether  *)
(* a final result has gone into it, and whether it is closed.             *)
Stream == INSTANCE MonitorStream WITH
    Capacity <- BufCap,
    Results <- Events,
    Final <- {ev \in Events : IsTerminal(ev)},
    stream <- chan,
    ended <- terminals > 0,
    closed <- closed

-----------------------------------------------------------------------------
\* What the monitor must guarantee.

(* MonitorJobStatus implements the stream its doc comment promises: every *)
(* send goes into an open channel that has room and has not yet carried   *)
(* the final result (a send on a closed channel would panic), and         *)
(* close(out) happens once.                                                *)
StreamRefined == Stream!Spec


(* At most one terminal result (the completed status or ErrorTimeout) is   *)
(* sent on the channel, and nothing is sent after it: MonitorJobStatus     *)
(* must not send ErrorTimeout after a completed status, nor poll again.    *)
AtMostOneTerminal ==
    /\ terminals <= 1
    /\ terminals = 1 => IsTerminal(lastSent)

(* The inductive form of AtMostOneTerminal: once a terminal result is    *)
(* sent the goroutine is on its way out of the loop (the completed status *)
(* leaves js complete, so the loop condition fails and the ErrorTimeout   *)
(* branch is skipped), and a terminal result about to be sent is the      *)
(* first one and leads there.                                             *)
TerminalInv ==
    /\ TypeOK
    /\ terminals \in {0, 1}
    /\ terminals = 1 =>
         /\ IsTerminal(lastSent)
         /\ mpc \in {"loop", "close", "closed"}
         /\ mpc = "loop" => js.complete
    /\ mpc = "send" /\ IsTerminal(pending) =>
         /\ terminals = 0
         /\ pending.kind = "status" => after = "loop" /\ js.complete
         /\ pending.kind = "error" => after = "close"

(* When the channel is closed, its last result is the completed JobStatus *)
(* or ErrorTimeout, as the doc comment of MonitorJobStatus promises.       *)
ClosedAfterTerminal ==
    closed => terminals = 1 /\ IsTerminal(lastSent)

(* The progress the caller reads from pending statuses never goes down,   *)
(* given a server whose reported progress never goes down.                *)
ProgressNeverRegresses ==
    [][Receive /\ Head(chan).kind = "status" /\ ~Head(chan).status.complete
         => Head(chan).status.pct >= seenPct]_vars

(* A re-authentication the monitor takes as successful lets its next     *)
(* status request reach the server: it is never answered locally with     *)
(* ErrorUnauthorized for want of a token, which would make the monitor    *)
(* re-authenticate again at once, silently, until the deadline.           *)
ReauthReachesServer ==
    [][CallRejected => ~reauthed]_vars

(* The monitor always ends when every status request is answered: the    *)
(* caller that keeps reading eventually sees the channel closed, whatever *)
(* the server and the auth server answer and however long the job runs.  *)
MonitorTerminates == []~srvHung => <>cdone

(* Once the timeout is reached the channel is closed, as the doc comment  *)
(* of MonitorJobStatus says (client.go 369-374), even if the server stops *)
(* answering.                                                             *)
TimeoutCloses == (now >= Timeout) ~> closed

=============================================================================
