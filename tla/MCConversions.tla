---------------------------- MODULE MCConversions ----------------------------
(***************************************************************************)
(* Calls of the conversions of Conversions on every input of a bounded    *)
(* set, each result compared with a reference definition that says what  *)
(* the result should be without following the code's loops.               *)
(***************************************************************************)
EXTENDS Conversions, ResourceTypeCalls

\* Bounded inputs: ResourceType values around the known ones, type names
\* with one the client does not know, two scopes and two URLs.
MCTypeValues == -1..4
MCNames == {"Patient", "Coverage", "ExplanationOfBenefit", "OperationOutcome",
          "Claim"}
Scopes == {"system/*.read", "x"}
URLs == {"u1", "u2"}
MaxInput == 3

SeqsUpTo(S, k) == UNION {[1..m -> S] : m \in 0..k}
Items == [type : {"Patient", "Coverage", "Claim"}, url : URLs]

cvars == tvars

Init == TypeInit

CallTypeParam ==
    \E types \in SeqsUpTo(MCTypeValues, MaxInput) :
        /\ call' = [fn |-> "type", in |-> types]
        /\ result' = TypeParam(types)

CallAuthBody ==
    \E scopes \in SeqsUpTo(Scopes, MaxInput) :
        /\ call' = [fn |-> "auth", in |-> scopes]
        /\ result' = Ok(AuthBody(scopes))

CallJobStatus ==
    \E output \in SeqsUpTo(Items, MaxInput) :
        /\ call' = [fn |-> "group", in |-> output]
        /\ result' = GroupOutput(output)

Next == CallToAPI \/ CallFromAPI \/ CallTypeParam \/ CallAuthBody \/ CallJobStatus

Spec == Init /\ [][Next]_cvars

-----------------------------------------------------------------------------
\* The tokens of a list of names joined by a separator.
Joined(names, sep) ==
    [k \in 1..(2 * Len(names) - 1) |->
        IF k % 2 = 1 THEN names[(k + 1) \div 2] ELSE sep]

(* The _type value of StartBulkDataExport is the names of the requested   *)
(* types joined by commas, in the caller's order; a type without a name   *)
(* fails the call, wherever it is in the list; no types means no _type    *)
(* parameter and no panic on types[0] (client.go 244-249, 467-484).       *)
QueryValueCorrect ==
    call.fn = "type" =>
        IF call.in = <<>> THEN result = [ok |-> TRUE, val |-> "absent"]
        ELSE IF \A i \in DOMAIN call.in : call.in[i] \in KnownTypes
          THEN result = Ok(Joined([i \in DOMAIN call.in |-> APIName[call.in[i]]], ","))
          ELSE ~result.ok

(* Authenticate's body carries the scopes separated by single spaces,    *)
(* with no trailing space, and the client_credentials grant; no scopes,  *)
(* no body (client.go 489-506).                                          *)
AuthBodyCorrect ==
    call.fn = "auth" =>
        IF call.in = <<>> THEN result.val = "nil"
        ELSE /\ result.val["scope"] = Joined(call.in, " ")
             /\ result.val["grant_type"] = "client_credentials"

(* The end-of-line comment of buildAuthBody's last write (client.go:500) *)
(* says the last scope is written "with trailing space": by that comment *)
(* the scope value of a body ends with a space.  The comment above the  *)
(* loop (495-496) and the code say the opposite; this is checked to      *)
(* record the disagreement.                                              *)
LastScopeTrailingSpace ==
    call.fn = "auth" /\ call.in # <<>> =>
        LET v == result.val["scope"] IN v[Len(v)] = " "

(* A completed job's ResultURLs list, for each type, the URLs of the      *)
(* output entries of that type in the server's order; one entry of a type *)
(* the client does not know fails the whole status (client.go 336-344).   *)
GroupCorrect ==
    call.fn = "group" =>
        IF \A i \in DOMAIN call.in : FromAPI(call.in[i].type).ok
          THEN result = Ok([r \in KnownTypes |->
                  LET sel == SelectSeq(call.in, LAMBDA it : it.type = APIName[r])
                  IN  [k \in 1..Len(sel) |-> sel[k].url]])
          ELSE ~result.ok
=============================================================================
