CONSTANTS
    PackageOrder <- MCPackageOrder
    Invocations <- MCInvocations
    OneStream <- MCOneStream
    Editable <- MCEditable
    MaxRuns = 2
    MaxEdits = 2
SPECIFICATION Spec
INVARIANTS
    EvidenceTypeOK
    VerifiedRanCurrentSource
    EvidenceIsOneRun
PROPERTIES
    SandboxRunReturns
CHECK_DEADLOCK FALSE
