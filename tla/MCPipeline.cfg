CONSTANTS
    r1 = r1
    r2 = r2
    NP <- MCNP
    NS <- MCNS
    Resources <- MCResources
SYMMETRY Symmetry
SPECIFICATION Spec
INVARIANT TypeOK
INVARIANT SinkOrderPrefix
INVARIANT NoCallAfterFinalize
INVARIANT NoResourceLost
PROPERTY DoneFrozen
PROPERTY ContractRefined
