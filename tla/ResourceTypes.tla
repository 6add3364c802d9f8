---------------------------- MODULE ResourceTypes ----------------------------
(***************************************************************************)
(* bulkfhir.ResourceType (src/bulkfhir/client.go 70-124): the known      *)
(* types, their BCDA API names, and the conversions ToAPI, String and     *)
(* ResourceTypeFromAPI between the two.  A result is a record with ok    *)
(* (no error) and val.                                                    *)
(***************************************************************************)
EXTENDS Integers

\* ResourceType is an int: the iota constants Patient .. OperationOutcome.
Patient == 0
Coverage == 1
ExplanationOfBenefit == 2
OperationOutcome == 3
KnownTypes == {Patient, Coverage, ExplanationOfBenefit, OperationOutcome}

\* The BCDA API name of each known type.
APIName == [r \in KnownTypes |->
              CASE r = Patient -> "Patient"
                [] r = Coverage -> "Coverage"
                [] r = ExplanationOfBenefit -> "ExplanationOfBenefit"
                [] r = OperationOutcome -> "OperationOutcome"]

Ok(v) == [ok |-> TRUE, val |-> v]
Err(v) == [ok |-> FALSE, val |-> v]

\* Mutant: a name table with two entries swapped.
ToAPISwapped(r) ==
    IF r \in KnownTypes
      THEN Ok(IF r = Coverage THEN "ExplanationOfBenefit"
              ELSE IF r = ExplanationOfBenefit THEN "Coverage" ELSE APIName[r])
      ELSE Err("")

\* ResourceType.ToAPI: the name of a known type, else "" and an error.
ToAPI(r) == IF r \in KnownTypes THEN Ok(APIName[r]) ELSE Err("")

\* ResourceType.String: the name, or INVALID(r) for an unknown value.
String(r) == IF ToAPI(r).ok THEN ToAPI(r).val ELSE <<"INVALID", r>>

\* The switch of ResourceTypeFromAPI: the type of each name it knows.
APIType == [s \in {"Patient", "Coverage", "ExplanationOfBenefit", "OperationOutcome"} |->
              CASE s = "Patient" -> Patient
                [] s = "Coverage" -> Coverage
                [] s = "ExplanationOfBenefit" -> ExplanationOfBenefit
                [] s = "OperationOutcome" -> OperationOutcome]

\* ResourceTypeFromAPI: the type of a name the switch knows, else
\* ResourceType(-1) and an error.
FromAPI(s) == IF s \in DOMAIN APIType THEN Ok(APIType[s]) ELSE Err(-1)
=============================================================================
