SPECIFICATION Spec
CONSTANTS
    Exceptions = {e1, e2}
    Devices = {d1}
    Blockers = {b1, b2}
    Findings <- AllOrNothing
    Filers = {u1}
    Approvers = {u1, u2}
    Requests = {r1, r2}
    MaxTime = 2
    MaxLife = 1
    None = None
SYMMETRY Symmetry
INVARIANTS
    TypeOK
    ExceptionApprovedHasException
    LockCycleNeedsSweep
PROPERTIES
    ImplementsExceptionLifecycle
    EvaluationExpiresOverdue
