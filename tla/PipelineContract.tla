--------------------------- MODULE PipelineContract ---------------------------
(***************************************************************************)
(* What processing.Pipeline promises its caller (spec.md 4.5, doc          *)
(* comments of Process and Finalize, client.go 712-746), without the       *)
(* processors, the wrapper or the sinks' batching: the caller passes       *)
(* resources to Process, then calls Finalize once.  A resource passed is   *)
(* filtered out before any sink sees it, or handed to the sinks in list    *)
(* order, and may fail at any point; Finalize returns one result, and nil  *)
(* only when every resource neither filtered out nor failed is held by     *)
(* every sink.                                                              *)
(***************************************************************************)
EXTENDS Naturals

CONSTANTS
    NS,         \* number of sinks
    Resources   \* the resources the caller passes to Process

VARIABLES
    closed,     \* Finalize has been called
    submitted,  \* resources passed to Process
    dropped,    \* resources filtered out
    failed,     \* resources whose processing returned an error
    held,       \* held[r]: the sinks that hold r (stored or batched)
    result      \* what Finalize returned: "none", "ok" or "error"

cvars == <<closed, submitted, dropped, failed, held, result>>

\* The resources still owed to the sinks.
Kept == submitted \ (dropped \cup failed)

Init ==
    /\ closed = FALSE
    /\ submitted = {}
    /\ dropped = {}
    /\ failed = {}
    /\ held = [r \in Resources |-> {}]
    /\ result = "none"

(* Process(r): only before Finalize, once per resource. *)
Submit(r) ==
    /\ ~closed /\ r \notin submitted
    /\ submitted' = submitted \cup {r}
    /\ UNCHANGED <<closed, dropped, failed, held, result>>

(* A processor filters r out; no sink has seen it. *)
Drop(r) ==
    /\ r \in Kept /\ held[r] = {}
    /\ dropped' = dropped \cup {r}
    /\ UNCHANGED <<closed, submitted, failed, held, result>>

(* Sink j accepts r, once every earlier sink has. *)
Hold(r, j) ==
    /\ r \in Kept /\ result = "none"
    /\ 1..j-1 \subseteq held[r]
    /\ held' = [held EXCEPT ![r] = @ \cup {j}]
    /\ UNCHANGED <<closed, submitted, dropped, failed, result>>

(* Processing r returns an error, wherever it is; if Finalize was flushing *)
(* it, Finalize returns that error.                                        *)
Fail(r) ==
    /\ r \in Kept /\ result = "none"
    /\ failed' = failed \cup {r}
    /\ \/ result' = result
       \/ closed /\ result' = "error"
    /\ UNCHANGED <<closed, submitted, dropped, held>>

(* The caller calls Finalize. *)
Close ==
    /\ ~closed
    /\ closed' = TRUE
    /\ UNCHANGED <<submitted, dropped, failed, held, result>>

(* Finalize returns, nil only when every kept resource is held by every   *)
(* sink.                                                                   *)
End(res) ==
    /\ closed /\ result = "none"
    /\ res = "ok" => \A r \in Kept : held[r] = 1..NS
    /\ result' = res
    /\ UNCHANGED <<closed, submitted, dropped, failed, held>>

Next ==
    \/ \E r \in Resources : Submit(r) \/ Drop(r) \/ Fail(r)
    \/ \E r \in Resources, j \in 1..NS : Hold(r, j)
    \/ Close
    \/ \E res \in {"ok", "error"} : End(res)

Spec == Init /\ [][Next]_cvars
=============================================================================
