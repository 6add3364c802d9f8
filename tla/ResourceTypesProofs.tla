-------------------------- MODULE ResourceTypesProofs --------------------------
(***************************************************************************)
(* Proofs that the two switches of client.go 88-124, ToAPI and            *)
(* ResourceTypeFromAPI, are inverse on the known types and reject every   *)
(* other int and string, for all inputs (the run checks -1..4 and five    *)
(* names).                                                                *)
(***************************************************************************)
EXTENDS ResourceTypeCalls, TLAPS

\* The four names are distinct strings.
LEMMA NamesDistinct ==
    /\ "Patient" # "Coverage" /\ "Patient" # "ExplanationOfBenefit"
    /\ "Patient" # "OperationOutcome" /\ "Coverage" # "ExplanationOfBenefit"
    /\ "Coverage" # "OperationOutcome" /\ "ExplanationOfBenefit" # "OperationOutcome"
OBVIOUS

\* ToAPI of a known type r returns its name without error, and
\* ResourceTypeFromAPI maps that name back to r.
LEMMA KnownRoundTrip ==
    ASSUME NEW r \in KnownTypes
    PROVE  /\ ToAPI(r) = Ok(APIName[r])
           /\ FromAPI(APIName[r]) = Ok(r)
           /\ String(r) = APIName[r]
<1>1. ToAPI(r) = Ok(APIName[r])
  BY DEF ToAPI
<1>2. FromAPI(APIName[r]) = Ok(r)
  BY NamesDistinct DEF KnownTypes, APIName, FromAPI, APIType,
                       Patient, Coverage, ExplanationOfBenefit, OperationOutcome
<1>3. String(r) = APIName[r]
  BY <1>1 DEF String, Ok
<1>. QED  BY <1>1, <1>2, <1>3

\* ToAPI of any other int is an error, and String writes INVALID(r).
LEMMA UnknownToAPI ==
    ASSUME NEW r, r \notin KnownTypes
    PROVE  /\ ~ToAPI(r).ok
           /\ String(r) = <<"INVALID", r>>
BY DEF ToAPI, String, Err

\* ResourceTypeFromAPI accepts s only when ToAPI maps the type back to s;
\* otherwise it returns -1 and no known type has the name s.
LEMMA FromAPIInverse ==
    ASSUME NEW s
    PROVE  IF FromAPI(s).ok THEN ToAPI(FromAPI(s).val) = Ok(s)
           ELSE FromAPI(s).val = -1 /\ ~(\E r \in KnownTypes : ToAPI(r).val = s)
<1>1. CASE s \in DOMAIN APIType
  <2>1. FromAPI(s) = Ok(APIType[s])
    BY <1>1 DEF FromAPI
  <2>2. APIType[s] \in KnownTypes /\ APIName[APIType[s]] = s
    BY <1>1, NamesDistinct DEF APIType, KnownTypes, APIName,
                               Patient, Coverage, ExplanationOfBenefit, OperationOutcome
  <2>3. FromAPI(s).ok /\ FromAPI(s).val = APIType[s]
    BY <2>1 DEF Ok
  <2>4. ToAPI(APIType[s]) = Ok(s)
    BY <2>2 DEF ToAPI
  <2>. QED  BY <2>3, <2>4
<1>2. CASE s \notin DOMAIN APIType
  <2>1. FromAPI(s) = Err(-1)
    BY <1>2 DEF FromAPI
  <2>2. \A r \in KnownTypes : ToAPI(r).val # s
    BY <1>2, NamesDistinct DEF APIType, KnownTypes, APIName, ToAPI, Ok,
                               Patient, Coverage, ExplanationOfBenefit, OperationOutcome
  <2>. QED  BY <2>1, <2>2 DEF Err
<1>. QED  BY <1>1, <1>2

-----------------------------------------------------------------------------
\* Whatever the callers pass, every recorded call of ToAPI or
\* ResourceTypeFromAPI satisfies RoundTrip: the switches of client.go
\* 88-124 are inverse on the known types and reject everything else.
THEOREM RoundTripHolds == TypeSpec => []RoundTrip
<1>1. TypeInit => RoundTrip
  BY DEF TypeInit, RoundTrip
<1>2. RoundTrip /\ [TypeNext]_tvars => RoundTrip'
  <2> SUFFICES ASSUME RoundTrip, [TypeNext]_tvars PROVE RoundTrip'
    OBVIOUS
  <2>1. CASE CallToAPI
    <3>1. PICK r \in TypeValues : call' = [fn |-> "toapi", in |-> r] /\ result' = ToAPI(r)
      BY <2>1 DEF CallToAPI
    <3>2. CASE r \in KnownTypes
      BY <3>1, <3>2, KnownRoundTrip DEF RoundTrip, Ok
    <3>3. CASE r \notin KnownTypes
      BY <3>1, <3>3, UnknownToAPI DEF RoundTrip
    <3>. QED  BY <3>2, <3>3
  <2>2. CASE CallFromAPI
    <3>1. PICK s \in Names : call' = [fn |-> "fromapi", in |-> s] /\ result' = FromAPI(s)
      BY <2>2 DEF CallFromAPI
    <3>. QED  BY <3>1, FromAPIInverse DEF RoundTrip
  <2>3. CASE UNCHANGED tvars
    BY <2>3 DEF RoundTrip, tvars
  <2>. QED  BY <2>1, <2>2, <2>3 DEF TypeNext
<1>. QED  BY <1>1, <1>2, PTL DEF TypeSpec
=============================================================================
