\* Calls of the webhook and of another, partial failures, owners that change, and a pod that is submitted again.
SPECIFICATION MutatorSpec
CONSTANTS
    c1 = c1
    c2 = c2
    c3 = c3
    None = None
    Slots = {c1, c2, c3}
    Requests <- MCRequests
    VolumeNames <- MCVolumes
    Owners <- MCOwners
    Domain <- MCDomain
    DNSDomain <- NoDomain
    MaxCNLength = 5
    MaxSteps = 5
SYMMETRY MCSymmetry
INVARIANTS
    MutatorTypeOK
    PodStaysValid
    InjectedOnce
    VolumesAgree
    CommonNameFits
PROPERTIES
    KeepsNames
CHECK_DEADLOCK FALSE
