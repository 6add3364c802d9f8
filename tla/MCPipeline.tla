------------------------------ MODULE MCPipeline ------------------------------
(* Two processors, two sinks and two resources: enough for a processor to *)
(* batch one resource while the other passes, for the first processor's   *)
(* flush to reach a second one that batches too, and for a sink to fail   *)
(* between two that succeed.                                              *)
EXTENDS Pipeline, TLC

CONSTANTS r1, r2

MCNP == 2
MCNS == 2
MCResources == {r1, r2}

\* The resources are interchangeable: nothing in the pipeline looks at them.
Symmetry == Permutations(MCResources)
=============================================================================
