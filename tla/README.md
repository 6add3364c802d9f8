# TLA+ verification of bulk_fhir_tools

This directory holds TLA+ models of the Go library in `src/`, the TLC
configurations that check them, and TLAPS proofs about them. The TLC
configurations check small instances. The TLAPS proofs cover every value of
the constants.

## The system

`src/bulkfhir/client.go` is several Go files concatenated.

- **Package `bulkfhir`** (lines 1–507) is an HTTP client for the FHIR Bulk Data
  API.
  - `Authenticate` posts client credentials and stores the returned
    `access_token` in `Client.token`.
  - `StartBulkDataExport` starts an export and returns the job-status URL.
  - `JobStatus` polls that URL once. It maps each response to a
    `(JobStatus, error)` pair:
    - 202 is pending, with the progress taken from `X-Progress`;
    - 200 is complete, with result URLs;
    - 401 is `ErrorUnauthorized`.
  - `MonitorJobStatus` starts a goroutine.
    - Until the job completes or the deadline passes, the goroutine calls
      `JobStatus` and sends each result on a channel buffered to 100.
    - It sleeps `checkPeriod` between polls.
    - On `ErrorUnauthorized` it re-authenticates and continues.
    - At the end it sends `ErrorTimeout` if the job is not complete, and closes
      the channel.
  - `GetData` downloads one NDJSON result.
- **Package `processing`** (lines 507–746) is a resource pipeline.
  - `NewPipeline` folds the processors from right to left over `writeToSinks`.
  - `Process` wraps the JSON bytes in a `resourceWrapper` and calls the head of
    the chain.
  - A processor may mutate the proto, forward the resource, batch it, drop it
    or fail.
  - `writeToSinks` sets `doneMutating` and calls every sink's `Write` in order.
    It stops at the first error.
  - `Finalize` finalizes all processors, then all sinks, in list order. It
    returns the first error.
  - The `resourceWrapper` keeps JSON and proto representations in sync lazily.
    `Proto()` clears the cached JSON unless `doneMutating` is set. `JSON()`
    re-marshals the proto when the JSON has been cleared.
- **`src/unnamed/part_000`** holds the repository README and `iohelpers`'
  `MultiWriteCloser`.
  - `Add` appends a writer.
  - `Write` writes to each writer in list order. It returns at the first
    error, or with `io.ErrShortWrite` at the first writer that took fewer
    bytes than `len(p)`.
  - `Close` closes every writer and joins their errors into one.
- **`src/internal/testhelpers`** is a test HTTP fixture.

The two packages interact through the caller. The command-line tool polls with
`MonitorJobStatus`, downloads with `GetData`, and feeds every resource to
`Pipeline.Process`, then calls `Finalize`.

## Modules

| Module | Models | Source |
|---|---|---|
| `Monitor` | the `MonitorJobStatus` goroutine, `JobStatus`, `Authenticate` as it is called from the goroutine, the channel, the clock, the server, and the caller ranging over the channel | client.go 36–60, 126–137, 192–222, 284–408 |
| `MCMonitor` | the instance for TLC | |
| `MonitorStream` | what `MonitorJobStatus` promises its caller: a bounded stream, at most one final result and nothing after it, one close | doc comment, client.go 369–376 |
| `MonitorProofs` | the TLAPS proofs about `Monitor`, including its refinement of `MonitorStream` | |
| `Pipeline` | `NewPipeline`'s call chain, `Process`, `writeToSinks`, `Finalize`, and `resourceWrapper.Proto`/`JSON` | client.go 535–746 |
| `PipelineContract` | what `Process` and `Finalize` promise the caller: resources submitted before `Finalize`, each filtered out, failed or held by the sinks in list order, and a nil `Finalize` only when every kept resource is held by every sink | doc comments, client.go 613–618, 700–746 |
| `MCPipeline` | the instance for TLC | |
| `PipelineProofs` | the TLAPS proofs about `Pipeline` | |
| `PipelineRefinement` | the TLAPS proof that `Pipeline` implements `PipelineContract` | |
| `MultiWriteCloser` | `MultiWriteCloser.Add`, `Write` and `Close` | part_000 191–232 |
| `MCMultiWriteCloser` | the instance for TLC | |
| `MultiWriteCloserProofs` | the TLAPS proofs about `MultiWriteCloser` | |
| `ResourceTypes` | `ResourceType`'s `ToAPI`, `String` and `ResourceTypeFromAPI`, each from its own switch | client.go 70–124 |
| `ResourceTypeCalls` | calls of those three on bounded inputs, for TLC and for the proof | |
| `ResourceTypesProofs` | the TLAPS proof of `RoundTrip` | |
| `Conversions` | `resourceTypesToQueryValue` and the `_type` guard of `StartBulkDataExport`, `buildAuthBody`, and the grouping of a completed job's output into `ResultURLs` | client.go 70–124, 244–250, 330–344, 467–506 |
| `MCConversions` | calls of the conversions on every bounded input, with reference definitions | |

### Monitor

**State:**

- `token` is `Client.token`. It is empty or valid.
- `mpc` is the goroutine's program counter. Its values are:
  - `loop`: the loop condition;
  - `call`: the `JobStatus` call;
  - `auth`: the `Authenticate` call;
  - `send`: a blocked `out <-`;
  - `sleep`, `close`, `closed`.
- `js` and `pending` are the goroutine's locals. `pending` is the result about
  to be sent. `after` says where the goroutine goes once `pending` is sent.
- `wake` is when `time.Sleep` returns.
- `chan` and `closed` are the channel.
- `now` is the clock. The deadline is `Timeout` ticks away.
- `srvDone` and `srvPct` are the export job on the server. `srvHung` says
  that the status request in flight will never be answered.
- `seenPct` and `cdone` are the caller.
- `terminals`, `lastSent` and `reauthed` are history variables.

**Actions:**

| Action | Code |
|---|---|
| `LoopEnter` | line 383, loop condition true |
| `LoopExit` | lines 383 and 402–404, loop condition false; ErrorTimeout if not complete |
| `CallRejected` | `JobStatus` with an empty token (297–299) |
| `CallServer` | `JobStatus` with a server response (301–358) |
| `AuthFail` | `Authenticate` failing (387–390) |
| `AuthStore` | `Authenticate` storing any token (219) |
| `Send` | `out <- ...` (389, 393, 395, 403) |
| `Wake` | end of `time.Sleep` (399) |
| `Close` | `close(out)` (405) |
| `ServerHang` | the server never answers the status request; `httpClient.Do` (307) has no timeout (148) |

**How responses are modelled.** `JobStatusResult` maps each class of server
response to the pair the code returns:

- a transport error gives a zero status and a nil error (line 309);
- a 200 whose body fails to decode gives a complete status with an error
  (line 336);
- an invalid body gives a zero status with an error.

`HandleResult` is the body of the loop after the call (384–400).

**Refinement.** `MonitorStream` states the promise as seen by the caller:
- `stream` is the channel's buffer;
- `ended` says a final result has been sent;
- `closed` says the channel is closed.

Its actions are `Emit`, `Consume` and `Close`. `Monitor` instantiates it with
`stream <- chan`, `ended <- terminals > 0` and `closed <- closed`. `Send` maps
to `Emit`, the caller's `Receive` to `Consume`, and `Close` to `Close`. Every
other step is a stutter.

The doc comment also promises that the final result comes before the close.
The code breaks that promise (finding 1), so `MonitorStream` lets the channel
close at any time. Its `FairSpec` (the caller keeps reading; the channel is
eventually closed) is also broken, by a hung request (finding 4). The
refinement is therefore checked and proved for `Stream!Spec`. Termination is
checked separately, on the condition that every request is answered.

### Pipeline

**State:**

- `cur`, `at` and `sk` give the position of the resource now travelling down
  the call chain: processor `at`, or sink `sk` inside `writeToSinks`.
- `origin` is who started the chain: `Process`, or a processor's `Finalize`.
- `wr[r]` is resource `r`'s wrapper: the JSON and proto, each with the content
  version it holds, and `doneMutating`.
- `buffer` holds the resources each processor has batched.
- `sinkBuf` and `stored` hold what each sink has batched and stored.
- `fin` and `finalized` are `Finalize`'s progress.
- `result` is `Finalize`'s return value.

**Actions.** Processors and sinks are user code. They are modelled by what the
`Processor` and `Sink` interfaces allow:

- `ProcessorForward`, `ProcessorBuffer`, `ProcessorDrop` and `ProcessorFail`,
  each after an optional `Proto()` read or mutation;
- `SinkStore`, `SinkBuffer` and `SinkFail`. A sink's `Write` first reads the
  resource through `JSON()`, `Proto()`, or `Proto()` then `JSON()`
  (`SinkRead`). `doneMutating` exists so that a sink may use both
  (client.go 554–558). A storing sink writes the proto's or the JSON's
  version (`Written`);
- `ProcessorFlush`, which forwards a batched resource from a processor's
  `Finalize`.

**Content.** A resource's content is abstracted to a version number. Every
mutation of the proto makes a new version.

### MultiWriteCloser

The wrapped writers are user code. In each `Write` call, writer `i` reports
`got[i]` bytes taken and whether it returned an error. In each `Close` call,
each writer's `Close` fails or not. The type is not safe for concurrent use,
so each method is one step.

**State:**

- `n` is the number of writers added.
- `recv[i]` is the number of bytes writer `i` has taken.
- `since[i]` is the number of bytes reported written before writer `i` was
  added.
- `written` is the number of bytes reported written by the `Write` calls that
  returned nil.
- `failed` says that some `Write` returned an error.
- `closes`, `closedN` and `closeRes` record the `Close` calls.

`Passes(got, errs, len, i)` says that the loop goes past writer `i`: its
`Write` returned nil and the whole of `p`. `LoopStops(..., stop)` says that the
loop returns at writer `stop`, the first writer that does not pass, or that
`stop = 0` and every writer passed. It is stated declaratively rather than as a
minimum, so that the provers can use it. `Reached` is the set
of writers the loop calls.

### Conversions

`ResourceTypes` translates the three switches separately: `ToAPI` from the
type to its name, `ResourceTypeFromAPI` from a table of its own cases back to
the type. `RoundTrip` is therefore not true by construction: a name typed
differently in one switch breaks it. `ResourceTypeCalls` calls them on every
int in -1..4 and on four names and an unknown one.

The other functions have no state. Each loop is a `FoldLeft` over a step operator
that mirrors one iteration, early return included: a result is a record
`[ok, val]`, and once `ok` is FALSE the remaining steps leave it as it is. A
string the code builds is the sequence of tokens it writes (names, scopes,
`","` and `" "`). `url.Values` is a function from key to value.

`MCConversions` has one variable `call` and one `result`. Each action calls one
function on an input drawn from a bounded set. The invariants compare the
result with a reference that says what it should be without following the
loop: `Joined` for a separated list, `SelectSeq` for the URLs of one type.

## Runs

| Run | Config | Expect | What it shows |
|---|---|---|---|
| monitor_pass | `MCMonitor.cfg` | pass | `AtMostOneTerminal`: at most one completed status or ErrorTimeout is sent. `StreamRefined`: `Monitor` implements `MonitorStream`. `MonitorTerminates`: if every status request is answered, the caller sees the channel closed. |
| monitor_closed_after_terminal | `MCMonitor_ClosedAfterTerminal.cfg` | violation | The channel can close with no terminal result. See finding 1. |
| monitor_progress_regresses | `MCMonitor_ProgressNeverRegresses.cfg` | violation | Reported progress can drop back to 0%. See finding 2. |
| monitor_reauth_spin | `MCMonitor_ReauthReachesServer.cfg` | violation | A re-authentication can lead to a status call rejected without a request. See finding 3. |
| monitor_timeout_hang | `MCMonitor_TimeoutCloses.cfg` | violation | A status request that is never answered keeps the channel open past the deadline. See finding 4. |
| pipeline_pass | `MCPipeline.cfg` | pass | See below. |
| multiwritecloser_pass | `MCMultiWriteCloser.cfg` | pass | See below. |
| conversions_pass | `MCConversions.cfg` | pass | See below. |
| conversions_last_scope_space | `MCConversions_LastScopeTrailingSpace.cfg` | violation | The comment at client.go:500 says the last scope is written with a trailing space. The code does not do that. See finding 5. |

The pipeline_pass run checks five properties:

- `SinkOrderPrefix`: the sinks that accepted a resource form a prefix of the
  sink list.
- `NoCallAfterFinalize`: no stage is called after its own `Finalize`.
- `NoResourceLost`: when `Finalize` returns nil, every resource that was neither
  dropped nor failed is stored by every sink, with its final content.
- `DoneFrozen` (an action property): once `writeToSinks` has set
  `doneMutating` on a resource, no step changes that flag, the resource's
  content or the JSON bytes it cached. Sinks may call `Proto()`, so this
  depends on `Proto()` keeping the JSON once `doneMutating` is set
  (client.go:577). Otherwise a sink that read the proto would make every
  later sink's `JSON()` re-marshal.
- `ContractRefined`: `Pipeline` implements `PipelineContract` under the
  mapping `closed <- Closed` (the phase is `finalize` or `done`) and
  `held <- Held` (sink `j` holds `r` when it stored or batched it).

The multiwritecloser_pass run checks two properties:

- `EarlierWritersAhead`: a writer earlier in the list never holds fewer bytes
  than a later one.
- `SuccessReachesAll` (an action property): a `Write` that returns nil has
  given all of `p` to every writer in the list. This holds even after an
  earlier `Write` failed, and even when a writer reported a short count
  with a nil error.

The conversions_pass run checks four properties (`RoundTrip` is stated in
`ResourceTypeCalls`):

- `RoundTrip`: `ToAPI` and `ResourceTypeFromAPI` are inverse on the four known
  types. Every other value or name is an error, and `String` gives
  `INVALID(r)` for it.
- `QueryValueCorrect`: the `_type` value is the names joined by commas, in the
  caller's order. A type without a name anywhere in the list fails the call.
  No types means no `_type` parameter, and no panic on `types[0]`.
- `AuthBodyCorrect`: the scope value is the scopes separated by single spaces,
  with no trailing space. No scopes means no body.
- `GroupCorrect`: `ResultURLs` holds, for each type, the URLs of that type in
  the server's order. One entry of an unknown type fails the whole status.

The inputs are ResourceType values -1 to 4, four names and one unknown name,
and sequences of up to 3 types, scopes or output entries. Deadlock is checked:
a call can always be made again.

The multiwritecloser run allows up to 3 writers, writes of 1 or 2 bytes, and 4 calls. Deadlock
is not checked: the bound on calls ends every run, as a caller stops after
`Close`.

Each property of a passing run has a mutant, listed in `PROJECT.json`. A mutant
is a plausible bug in the modelled code, and TLC finds it:

- a send that ignores the buffer limit;
- ErrorTimeout sent even after completion;
- a loop without the deadline;
- a flush that keeps the resource in its buffer;
- a sink failure that continues to the next sink;
- finalizing sinks before processors;
- `Proto()` that does not clear the JSON;
- `Proto()` that clears the JSON even after `doneMutating`;
- a close before ErrorTimeout is sent (`StreamRefined`);
- a `Write` that does not check the count;
- a `Write` that goes on to every writer after an error;
- a name table with two names swapped;
- a `_type` loop that does not check the later types;
- every scope written with a trailing space;
- output entries of an unknown type skipped instead of failing.

### Findings

1. **Missing terminal result (client.go:336).** A 200 response whose body does
   not decode returns `IsComplete=true` with the error. The goroutine sends the
   error and leaves the loop because the status is complete. It then skips
   ErrorTimeout and closes the channel. The caller never receives the final
   status or ErrorTimeout that the doc comment (369–374) promises.
2. **Swallowed transport error (client.go:309).** A transport error is returned
   as `JobStatus{}, nil`. The caller receives a pending status at 0% after
   having seen a higher percentage.
3. **Empty token stored (client.go:219).** `Authenticate` stores `access_token`
   without checking the HTTP status or that the token is non-empty. With an
   empty token, `JobStatus` fails at once with `ErrorUnauthorized`. The goroutine
   then re-authenticates again, with no sleep and no result, until the deadline.
4. **No request timeout (client.go:148).** `NewClient` builds an `http.Client`
   with no `Timeout`, and `JobStatus` sends its request without a context. A
   server that accepts the request and never answers blocks the goroutine in
   `httpClient.Do` forever. The doc comment says that ErrorTimeout is sent and
   the channel closed when the timeout is reached; the channel is never closed.
5. **Comment contradicts code (client.go:500).** In `buildAuthBody`, the
   comment at the last write says the last scope is written "with trailing
   space". The comment above the loop (495–496) and the code both say no
   trailing space. The code is right: `AuthBodyCorrect` holds. The
   `LastScopeTrailingSpace` run records that the line-500 comment is wrong.

## Bounds

**Monitor:**

- The channel holds 2 results. The code's 100 matters only once the channel is
  full, and 2 already lets a send block.
- The deadline is 3 ticks away and the check period is 1 tick. This allows
  several polls, a sleep, a re-authentication and a timeout in one run.
- Progress is drawn from {0, 50}, which is enough to see progress regress.

**Pipeline:**

- There are 2 processors, 2 sinks and 2 resources. This allows:
  - the first processor to batch a resource and flush it from `Finalize`
    through a second processor that batches it again;
  - the second sink to fail after the first has stored the resource.
- The resources are symmetric.

## Fairness

`FairSpec` assumes weak fairness of:

- the goroutine's steps, which the Go scheduler runs;
- the clock;
- the caller's receive and its observation of the close. The caller ranges over
  the channel until it is closed.

A caller that stops ranging before the close leaves the goroutine blocked in a
send once the buffer is full (client.go:393). That case is outside
`FairSpec`, and no property covers it.

The server is not fair: the job may never finish, and it may hang.
`MonitorTerminates` is therefore stated for the behaviours in which no request
hangs. The monitor_timeout_hang run uses `FairSpec` as well. The other
violation runs check safety only, under `Spec`.

## Proofs (TLAPS)

The proofs are in `MonitorProofs`, `PipelineProofs`, `PipelineRefinement`,
`MultiWriteCloserProofs` and `ResourceTypesProofs`. Each is checked by `tlapm <Module>.tla`.

### MonitorProofs


- **`TypeCorrect`:** `Spec => []TypeOK`.
  - `TypeOK` alone is not inductive: `Send` needs `pending` to be an event.
  - The proof therefore uses `TypeInv == TypeOK /\ SendReady`.
  - `JobStatusResultType` and `HandleResultType` are lemmas on the results of
    `JobStatus`.
  - `TypeStep` has one case per action. `Send` uses `AppendProperties` and
    `Receive` uses `HeadTailProperties` from `SequenceTheorems`.
- **`TerminalInvariant`** (a lemma): `Spec => []TerminalInv`. This is the
  inductive form behind `OneTerminal`.
  - The non-type part of `TerminalInv` (`TerminalFacts`) says:
    - once a terminal result has been sent, the goroutine is at `loop` with a
      complete status, or at `close` or `closed`;
    - a terminal result waiting to be sent is the first one, and it leads
      there.
  - Lemma `ResultEventNotTimeout` states that `JobStatus` never yields
    ErrorTimeout.
- **`OneTerminal`:** `Spec => []AtMostOneTerminal`, derived from
  `TerminalInvariant`.
- **`StreamRefinement`:** `Spec => StreamRefined`, which is
  `Spec => Stream!Spec`.
  - The initial state maps to `Stream!Init`.
  - Lemma `StreamStep` shows that every step maps to an `Emit`, `Consume` or
    `Close` step or to a stutter.
  - It needs `RefInv`, which is `TypeInv`, `TerminalFacts`, and
    `ClosedFact` (`closed` exactly when the goroutine is at `closed`). With
    these, a `Send` happens only on an open channel with room and before the
    final result, and `Close` happens only once.

The assumptions are `BufCap \in Nat \ {0}`, `Timeout` and `CheckPeriod` in
`Nat`, and `Percents \subseteq Nat` containing 0.

### PipelineProofs

- **`PipelineTypeCorrect`:** `Spec => []TypeOK`.
  - The hard part is that every version stays in `0..2*NP`.
  - The inductive strengthening `TypeInv` adds:
    - `Buffers`: the buffers are disjoint, hold only submitted resources, and
      never the resource in flight;
    - `Fresh`: unsubmitted resources still have `NewWrapper`;
    - `Versioned`: the resource in flight at stage `at` has versions at most
      `2*(at-1)`, and one buffered at processor `i` at most `2*i-1`.
  - Lemmas `ProtoBound`, `MutateBound`, `TouchBound`, `JSONBound` and
    `DoneBound` bound the wrapper operations. `AfterReturn` covers every step
    that ends a call chain.
- **`NoCallAfterFinalizeHolds`:** `Spec => []NoCallAfterFinalize`.
  - It uses `FinInv`:
    - before `Finalize`, nothing is finalized;
    - the finalized stages are among the first `fin`;
    - a resource in flight either came from `Process`, or was flushed by the
      processor whose `Finalize` is running and is past that stage.
  - Lemmas `ReturnPhase` and `FinAfterReturn` cover the end of a call chain.
- **`SinkOrderPrefixHolds`:** `Spec => []SinkOrderPrefix`.
  - The inductive invariant is `PrefixInv == TypeInv /\ WriteProgress /\
    SinkOrderPrefix`.
  - `WriteProgress` says two things about a resource in flight. At a
    processor, it has not reached any sink yet (`sk = 0`). At `writeToSinks`,
    every sink before `sk` has accepted it.
  - Without `WriteProgress`, a `SinkStore` or `SinkBuffer` step at sink `sk`
    could add a resource that an earlier sink never took.
  - Lemmas `PrefixKept` and `SinkAccept` cover the steps that leave the
    sinks alone and the steps at which sink `sk` accepts.
- **`NoResourceLostHolds`:** `Spec => []NoResourceLost`.
  - The inductive invariant is `LostInv`. It is `PrefixInv`, `FinInv`, and
    the following:
    - `RepInv`: every wrapper holds at least one representation, and when it
      holds both they agree.
    - `Undone`: no resource at a processor or in a buffer has
      `doneMutating` set.
    - `NoneLost`: every resource that was submitted and neither dropped nor
      failed is still in the pipeline (`Pending`), or every sink holds it,
      stored or batched, with its current content (`Delivered`).
    - `SinkProgress`: the resource at sink `sk` is `Delivered` to the sinks
      before `sk`.
    - `FinDone`: the buffers and sink batches that `Finalize` has passed are
      empty, and `Finalize` returned nil only after passing every stage.
  - `RepInv` and `Undone` are why a sink writes the final content,
    whichever representation it reads.
    - Before `doneMutating`, a processor's `Proto()` drops the cached JSON
      (lemma `TouchRep`).
    - A sink's read keeps the content, and what it writes is that content
      (lemmas `ProtoRep`, `JSONRep` and `SinkReadRep`).
    - Setting `doneMutating` keeps the content (lemma `DoneRep`).
  - `FinDone` holds because a call chain only adds to a buffer or a batch at
    or after stage `fin` (lemma `ChainAhead`, from `FinInv`).
  - The step is split by what moves: `RepStep`, `DeliverStep` (one lemma per
    kind of action) and `FinDoneStep`. `LostDone` derives `NoResourceLost`:
    once `fin = NP+NS+1`, no resource is pending and no batch is left, so
    `Delivered` means stored.

- **`DoneFrozenHolds`:** `Spec => DoneFrozen`, an action property.
  - Lemma `FrozenHolds` shows `LostInv /\ [Next]_vars => FrozenStep`: only
    the wrapper of the resource in flight, or of the one a flush takes from
    a buffer, changes. `Undone` says a processor touches it only before
    `doneMutating`. After that, `writeToSinks` only sets the flag, and a
    sink reads through `JSON()` and `Proto()`.
  - On a consistent wrapper (`RepInv`), with the flag set, `Proto()` keeps
    the cached JSON. The proof cites the code's
    `if !rw.doneMutating` branch here (lemma `ProtoFrozen`).
  - `JSON()` returns the cached bytes (lemma `JSONFrozen`), and so does any
    combination of the two (lemma `SinkReadFrozen`), together with
    `DoneFrozenStep`.

The assumptions are `NP`, `NS \in Nat`, a finite `Resources`, and
`NoResource \notin Resources`.

### PipelineRefinement

**`ContractRefinement`:** `Spec => ContractRefined`, which is
`Spec => Contract!Spec`.

- The initial state maps to `Contract!Init`: no sink has accepted anything.
- Lemma `ContractStep` maps each step:
  - `Process(r)` is `Submit(r)`;
  - `ProcessorDrop` is `Drop(cur)`;
  - `ProcessorFail` and `SinkFail` are `Fail(cur)`;
  - `SinkStore` and `SinkBuffer` at sink `sk` are `Hold(cur, sk)` (lemma
    `ContractHold`);
  - `Finalize` is `Close`;
  - `FinalizeFail` is `End("error")`;
  - `FinalizeReturn` is `End("ok")` (lemma `ContractEndOk`);
  - every other step is a stutter of the contract (lemma `ContractStutter`).
- The invariant is `RefInv == LostInv /\ InFlightKept /\ Unheld /\
  ResultOpen`. Each conjunct is needed:
  - `InFlightKept`: only submitted resources are dropped or fail, and the
    resource in flight or in a buffer has done neither. `Drop`, `Hold` and
    `Fail` require a kept resource.
  - `Unheld`: no sink has accepted a resource at a processor, in a buffer,
    or not yet submitted. `Drop` requires that no sink holds the resource.
  - `ResultOpen`: the result is set only at `done`. `Hold` and `Fail`
    require that `Finalize` has not returned.
  - `WriteProgress` (in `LostInv`) gives the sinks before `sk`, which
    `Hold` requires.
  - `NoneLost` and `FinDone` give `End("ok")`: after every stage is
    finalized nothing is pending, so every kept resource is delivered to,
    and so held by, every sink.
- Lemmas `ReturnQuiet` and `ReturnError` say what the end of a call chain
  does to what the caller sees. Lemma `RefStep` shows that the new conjuncts
  are preserved. `LostStep` from `PipelineProofs` covers `LostInv`.

### MultiWriteCloserProofs

The inductive invariant is `IInv`. It is `TypeOK`, `WriteConsistent`, `EarlierWritersAhead`, `CloseReachesAll`, and
`Unused`: a slot no writer has been added to has received nothing. `Unused` is
needed because `Add`'s new writer must start from zero bytes.

- **`WriteConsistentHolds`** (a lemma of the invariant): while no `Write`
  has failed, writer `i` holds exactly `written - since[i]` bytes.
- **`EarlierWritersAheadHolds`:** `Spec => []EarlierWritersAhead`. Whatever
  the wrapped writers return, an earlier writer never holds fewer bytes than a
  later one.
- **`CloseReachesAllHolds`** (a lemma of the invariant): `Close` reaches
  every writer present.
- **`SuccessReachesAllHolds`:** `Spec => SuccessReachesAll`, an action
  property. Lemma `WriteSuccess` shows that a `Write` with a nil result
  stopped at no writer, so every writer's count was `len(p)`.

`WriteIInv` picks the loop's outcome `(len, got, errs, stop)` and splits on
where `stop` lies relative to the two writers compared. The assumptions are
`MaxWriters` and `MaxCalls` in `Nat`, and `MaxLen` in `Nat \ {0}`.

### ResourceTypesProofs

**`RoundTripHolds`:** `TypeSpec => []RoundTrip`, for any ints and strings the
callers pass. Lemmas `KnownRoundTrip`, `UnknownToAPI` and `FromAPIInverse`
state what the three switches return. The invariant is inductive as it stands:
it is about the last call only. The assumption is `InputsAssumption`: the
inputs are ints and strings.

### What stays with TLC

The following stay with TLC:

- **Liveness** (`MonitorTerminates`). TLAPS does not handle liveness under
  fairness or ENABLED.
- **`Conversions`** (`QueryValueCorrect`, `AuthBodyCorrect`,
  `GroupCorrect`). Each loop is a `FoldLeft`. What a fold computes for every
  input is induction over data. The library's induction theorems take an
  operator parameter, which the installed provers cannot instantiate. The
  modules also reach `RECURSIVE` definitions through `SequencesExt`, which a
  proof module must not. The properties are checked on every input up to
  length 3.

## Not modelled yet

- **`StartBulkDataExport` and `GetData`.** These are single requests whose only
  state is the token. They are planned as a `ClientCalls` module.
- **`url.Values.Encode` and `fhir.ParseFHIRInstant`.** These are library
  code. The model keeps the key-value map, not its escaped encoding.
- **The test fixture** and the README text. These are not library behaviour.
- **A `Client` shared between goroutines.** It is listed as a hazard without a
  property.

## Plan

1. `ClientCalls`: the export, download and auth calls, with a server that can
   hang or fail.
