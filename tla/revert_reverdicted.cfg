SPECIFICATION Spec
CONSTANTS
    Waves = {w1}
    Devices = {1, 2}
    Drafters = {u1, u2}
    Approvers = {u2}
    Requests = {r1, r2}
    Reloaders = {}
    Scopes <- OneScope
    WaveMax = 2
    None = None
PROPERTY
    RevertsOnlyParked
