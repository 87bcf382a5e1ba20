SPECIFICATION MCSpec
CONSTANTS
    Versions = {1, 2, 3}
    RuleBook <- FiveRules
    TargetBook <- ThreeTargets
    EdgeBook <- FourEdges
    Learnable <- FactsToLearn
    Reported = {1, 2, None}
    ReadinessUpgradeWeightCap = 3
    MaxChanges = 2
    None = None
PROPERTIES PassAgreesWithPipeline ReadyKept
