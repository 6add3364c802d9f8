-------------------------- MODULE MultiWriteCloser --------------------------
(***************************************************************************)
(* iohelpers.MultiWriteCloser (src/unnamed/part_000, lines 191-232): a     *)
(* list of io.WriteClosers that Add appends to, Write writes to in list    *)
(* order stopping at the first error or short write, and Close closes all, *)
(* joining their errors.                                                   *)
(*                                                                         *)
(* The wrapped writers are user code: each Write call of a writer reports  *)
(* some count n of bytes taken from p and an error or nil, and each Close  *)
(* returns an error or nil.  Bytes are counted, not named: only how many   *)
(* bytes each writer has been given matters to the properties.  The type  *)
(* is not safe for concurrent use and is called from one goroutine, so    *)
(* each method is one step.                                                *)
(***************************************************************************)
EXTENDS Naturals

CONSTANTS
    MaxWriters,   \* bound on Add calls
    MaxLen,       \* bound on len(p)
    MaxCalls      \* bound on Write and Close calls

ASSUME BoundsAssumption ==
    MaxWriters \in Nat /\ MaxLen \in Nat \ {0} /\ MaxCalls \in Nat

Slots == 1..MaxWriters

VARIABLES
    n,          \* len(m.writerClosers)
    recv,       \* recv[i]: bytes writer i has taken from Write calls
    since,      \* since[i]: bytes reported written before writer i was added
    written,    \* sum of len(p) over the Write calls that returned nil
    failed,     \* some Write call has returned an error
    closes,     \* closes[i]: Close calls writer i has received
    closedN,    \* n when Close last ran
    closeRes,   \* what the last Close returned: "none", "nil" or "error"
    calls       \* Write and Close calls so far

vars == <<n, recv, since, written, failed, closes, closedN, closeRes, calls>>

\* The zero value MultiWriteCloser{}.
Init ==
    /\ n = 0
    /\ recv = [i \in Slots |-> 0]
    /\ since = [i \in Slots |-> 0]
    /\ written = 0
    /\ failed = FALSE
    /\ closes = [i \in Slots |-> 0]
    /\ closedN = 0
    /\ closeRes = "none"
    /\ calls = 0

(* Add appends a writer; nothing stops it after Close. *)
Add ==
    /\ n < MaxWriters
    /\ n' = n + 1
    /\ since' = [since EXCEPT ![n + 1] = written]
    /\ UNCHANGED <<recv, written, failed, closes, closedN, closeRes, calls>>

\* Mutant: a loop that checks only the error, not the count written.
PassesNoShortCheck(got, errs, len, i) == i \notin errs

\* The loop goes past writer i when its Write (which took got[i] bytes;
\* i \in errs: with an error) returned nil and the whole of p.
Passes(got, errs, len, i) == i \notin errs /\ got[i] = len

\* Write's loop returns at writer stop: the first writer that does not
\* pass; stop = 0 when every writer passed.
LoopStops(got, errs, len, stop) ==
    IF stop = 0 THEN \A i \in DOMAIN got : Passes(got, errs, len, i)
    ELSE /\ ~Passes(got, errs, len, stop)
         /\ \A i \in 1..stop-1 : Passes(got, errs, len, i)

\* Mutant: a loop that writes to every writer and only then reports the
\* first error.
ReachedAll(m, stop) == 1..m

\* The writers Write calls before it returns, of the first m.
Reached(m, stop) == IF stop = 0 THEN 1..m ELSE 1..stop

(* Write(p): each writer in list order takes p, until one returns an      *)
(* error (returned as is) or a count other than len(p) (ErrShortWrite);   *)
(* len(p), nil when all took it.                                          *)
Write ==
    /\ calls < MaxCalls
    /\ \E len \in 1..MaxLen :
       \E got \in [1..n -> 0..len], errs \in SUBSET (1..n), stop \in 0..n :
         /\ LoopStops(got, errs, len, stop)
         /\ recv' = [i \in Slots |->
                       IF i \in Reached(n, stop) THEN recv[i] + got[i]
                       ELSE recv[i]]
         /\ written' = IF stop = 0 THEN written + len ELSE written
         /\ failed' = (failed \/ stop # 0)
    /\ calls' = calls + 1
    /\ UNCHANGED <<n, since, closes, closedN, closeRes>>

\* Mutant: Close that returns at the first writer whose Close fails.
CloseStopAtFirst ==
    /\ calls < MaxCalls
    /\ \E errs \in SUBSET (1..n) :
         LET last == IF errs = {} THEN n
                     ELSE CHOOSE i \in errs : \A j \in errs : i <= j IN
         /\ closes' = [i \in Slots |->
                         IF i <= last THEN closes[i] + 1 ELSE closes[i]]
         /\ closeRes' = IF errs = {} THEN "nil" ELSE "error"
    /\ closedN' = n
    /\ calls' = calls + 1
    /\ UNCHANGED <<n, recv, since, written, failed>>

(* Close: every writer's Close is called whatever the earlier ones        *)
(* returned; the error messages are joined into one error, nil if none.   *)
Close ==
    /\ calls < MaxCalls
    /\ \E errs \in SUBSET (1..n) :
         /\ closes' = [i \in Slots |->
                         IF i <= n THEN closes[i] + 1 ELSE closes[i]]
         /\ closeRes' = IF errs = {} THEN "nil" ELSE "error"
    /\ closedN' = n
    /\ calls' = calls + 1
    /\ UNCHANGED <<n, recv, since, written, failed>>

Next == Add \/ Write \/ Close

Spec == Init /\ [][Next]_vars

-----------------------------------------------------------------------------
\* What the writer list guarantees.

(* As long as no Write has returned an error, every writer has taken      *)
(* exactly the bytes the caller was told were written since its Add: a    *)
(* short write reported with a nil error by a wrapped writer must not    *)
(* pass as success (part_000:209-211).                                    *)
WriteConsistent ==
    ~failed => \A i \in 1..n : recv[i] = written - since[i]

(* Whatever the writers return, a writer earlier in the list never holds  *)
(* fewer bytes than a later one: Write stops at the first failing writer *)
(* and never skips it to go on (part_000:204-212).                        *)
EarlierWritersAhead ==
    \A i, j \in 1..n : i < j => recv[i] >= recv[j]

(* Close reaches every writer present when it runs, even after some of   *)
(* their Close calls failed (part_000:221-225).                          *)
CloseReachesAll ==
    closeRes # "none" => \A i \in 1..closedN : closes[i] >= 1

(* A Write that returns nil, i.e. reports all of p written, has given all *)
(* of p to every writer in the list, even after an earlier Write failed:  *)
(* a writer's error or short count must fail the call (part_000:203-214). *)
SuccessReachesAll ==
    [][written' # written =>
         \A i \in 1..n : recv'[i] = recv[i] + (written' - written)]_vars
=============================================================================
