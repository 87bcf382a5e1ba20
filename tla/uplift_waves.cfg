SPECIFICATION Spec
CONSTANTS
    Waves = {w1, w2}
    Devices = {1, 2}
    Drafters = {u1}
    Approvers = {u1, u2}
    Requests = {r1, r2}
    Reloaders = {r1}
    Scopes <- OneScope
    WaveMax = 2
    None = None
SYMMETRY WaveSymmetry
INVARIANTS
    TypeOK
    PendingHasSubmittedWave
    ApprovedHasApprovedWave
    SelfApprovalStopped
    LockCycleNeedsReload
PROPERTY
    ImplementsWaveLifecycle
