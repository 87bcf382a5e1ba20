SPECIFICATION FairSpec
CONSTANTS
    Waves = {w1}
    Devices = {1, 2}
    Drafters = {u1}
    Approvers = {u2}
    Requests = {r1, r2}
    Reloaders = {r1}
    Scopes <- OneScope
    WaveMax = 2
    None = None
PROPERTY
    RequestEnds
