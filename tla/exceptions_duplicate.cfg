SPECIFICATION Spec
CONSTANTS
    Exceptions = {e1, e2}
    Devices = {d1}
    Blockers = {b1}
    Findings <- AllOrNothing
    Filers = {u1}
    Approvers = {u2}
    Requests = {r1, r2}
    MaxTime = 1
    MaxLife = 1
    None = None
INVARIANT
    OneActivePerBlocker
