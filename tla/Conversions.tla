----------------------------- MODULE Conversions -----------------------------
(***************************************************************************)
(* The pure conversions of package bulkfhir (src/bulkfhir/client.go)     *)
(* built on ResourceType (module ResourceTypes): the _type query value of *)
(* StartBulkDataExport, the form body of Authenticate, and the grouping of *)
(* a completed job's output by resource type.                             *)
(*                                                                         *)
(* A string the code builds is a sequence of tokens: the names, scopes or  *)
(* separators it writes, in order.  An error is a result with ok = FALSE. *)
(***************************************************************************)
EXTENDS Integers, Sequences, SequencesExt, ResourceTypes

\* Mutant: a loop that checks only the first type's name.
QueryStepNoCheck(acc, t) ==
    IF ~acc.ok THEN acc
    ELSE Ok(acc.val \o <<",", ToAPI(t).val>>)

\* One iteration of resourceTypesToQueryValue's loop over types[1:]: stop
\* at the first type without a name, else write "," and the name.
QueryStep(acc, t) ==
    IF ~acc.ok THEN acc
    ELSE IF ~ToAPI(t).ok THEN Err(<<>>)
    ELSE Ok(acc.val \o <<",", ToAPI(t).val>>)

(* resourceTypesToQueryValue: types[0]'s name, then "," and the name of   *)
(* each later type; "" and an error at the first type without a name.     *)
(* types[0] on an empty slice panics; StartBulkDataExport calls it only   *)
(* when len(types) > 0.                                                   *)
QueryValue(types) ==
    IF types = <<>> THEN [ok |-> FALSE, val |-> "panic"]
    ELSE IF ~ToAPI(Head(types)).ok THEN Err(<<>>)
    ELSE FoldLeft(QueryStep, Ok(<<ToAPI(Head(types)).val>>), Tail(types))

\* StartBulkDataExport's _type parameter: added only for a non-empty types
\* slice, and its error returned as the call's error.
TypeParam(types) ==
    IF types = <<>> THEN [ok |-> TRUE, val |-> "absent"] ELSE QueryValue(types)

-----------------------------------------------------------------------------
\* Mutant: every scope written with a trailing space.
ScopeJoinTrailing(scopes) ==
    FoldLeft(LAMBDA acc, sc : acc \o <<sc, " ">>, <<>>, scopes)

\* The scope value buildAuthBody writes: every scope but the last followed
\* by a space, then the last one.
ScopeJoin(scopes) ==
    FoldLeft(LAMBDA acc, sc : acc \o <<sc, " ">>, <<>>,
             SubSeq(scopes, 1, Len(scopes) - 1))
    \o <<scopes[Len(scopes)]>>

(* buildAuthBody: no body without scopes; else the url.Values with scope *)
(* and grant_type, as a function from key to value (Encode writes them   *)
(* sorted by key, escaping each value).                                   *)
AuthBody(scopes) ==
    IF scopes = <<>> THEN "nil"
    ELSE [k \in {"grant_type", "scope"} |->
            IF k = "scope" THEN ScopeJoin(scopes) ELSE "client_credentials"]

-----------------------------------------------------------------------------
\* Mutant: entries with an unknown type skipped instead of failing.
GroupStepSkip(acc, item) ==
    IF ~acc.ok \/ ~FromAPI(item.type).ok THEN acc
    ELSE LET r == FromAPI(item.type).val IN
         Ok([acc.val EXCEPT ![r] = Append(@, item.url)])

\* One iteration over jr.Output: map the type name; an unknown one makes
\* JobStatus return JobStatus{} and the error; else append the URL to that
\* type's list.
GroupStep(acc, item) ==
    IF ~acc.ok THEN acc
    ELSE IF ~FromAPI(item.type).ok THEN Err([r \in KnownTypes |-> <<>>])
    ELSE LET r == FromAPI(item.type).val IN
         Ok([acc.val EXCEPT ![r] = Append(@, item.url)])

(* The ResultURLs of a completed JobStatus, built from the decoded output *)
(* list (a missing key of the Go map is the empty list here).             *)
GroupOutput(output) ==
    FoldLeft(GroupStep, Ok([r \in KnownTypes |-> <<>>]), output)
=============================================================================
