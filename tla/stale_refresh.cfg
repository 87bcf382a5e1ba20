SPECIFICATION MCSpec
CONSTANTS
    v1 = v1
    v2 = v2
    p1 = p1
    Versions = {v1, v2}
    Rules = {p1}
    Catalogues <- ThreeCatalogues
    Requests = {r1}
    MaxChanges = 2
    Reported = {v1, v2}
    Lags = {0, 2}
    MaxDay = 2
    Pauses = {2}
    DiscoveryStaleDays = 1
    ReadinessStaleDays = 1
    None = None
PROPERTY
    RefreshClearsStale
