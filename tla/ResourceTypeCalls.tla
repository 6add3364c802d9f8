--------------------------- MODULE ResourceTypeCalls ---------------------------
(***************************************************************************)
(* Callers of the ResourceType conversions: each step calls ToAPI on an   *)
(* int or ResourceTypeFromAPI on a string and records the call and its    *)
(* result.  TypeValues and Names are the inputs callers may pass; any     *)
(* ints and any strings.                                                  *)
(***************************************************************************)
EXTENDS ResourceTypes

CONSTANTS TypeValues, Names

\* ResourceType is an int and ResourceTypeFromAPI takes a string.
ASSUME InputsAssumption == TypeValues \subseteq Int /\ Names \subseteq STRING

VARIABLES call, result

tvars == <<call, result>>

TypeInit ==
    /\ call = [fn |-> "none"]
    /\ result = Ok(<<>>)

\* A call of ResourceType.ToAPI (and of String on the same value).
CallToAPI ==
    \E r \in TypeValues :
        /\ call' = [fn |-> "toapi", in |-> r]
        /\ result' = ToAPI(r)

\* A call of ResourceTypeFromAPI.
CallFromAPI ==
    \E s \in Names :
        /\ call' = [fn |-> "fromapi", in |-> s]
        /\ result' = FromAPI(s)

TypeNext == CallToAPI \/ CallFromAPI

TypeSpec == TypeInit /\ [][TypeNext]_tvars

-----------------------------------------------------------------------------
(* ToAPI and ResourceTypeFromAPI are inverse on the known types (spec     *)
(* section 8): the two switches of client.go 88-124 agree, so a type's    *)
(* name maps back to the type and String gives that name; a name maps    *)
(* back to itself; every other value or name is an error, with String    *)
(* INVALID(r) and ResourceType(-1).                                       *)
RoundTrip ==
    /\ call.fn = "toapi" =>
         IF call.in \in KnownTypes
           THEN result.ok /\ FromAPI(result.val) = Ok(call.in)
                /\ String(call.in) = result.val
           ELSE ~result.ok /\ String(call.in) = <<"INVALID", call.in>>
    /\ call.fn = "fromapi" =>
         IF result.ok THEN ToAPI(result.val) = Ok(call.in)
         ELSE result.val = -1 /\ ~(\E r \in KnownTypes : ToAPI(r).val = call.in)
=============================================================================
