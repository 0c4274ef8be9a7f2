\* A pod's owners, one of which changes during the walk.
SPECIFICATION RootOwnerSpec
CONSTANTS
    rs = rs
    job = job
    deploy = deploy
    rollout = rollout
    pod = pod
    Failed = Failed
    None = None
    Known = {rs, job, deploy}
    Custom = {rollout}
    Pod = pod
    MayOwn <- Ownership
    MaxChanges = 1
    MaxDepth = 5
INVARIANTS
    RootOwnerTypeOK
    AnswerWasRoot
    DeepOnlyInCycles
PROPERTIES
    WalkEnds
CHECK_DEADLOCK FALSE
