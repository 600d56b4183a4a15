CONSTANTS
    square = square
    inn = inn
    bakery = bakery
    Square <- square
    Targets <- MCTargets
    Routes <- MCRoutes
    Cost = 2
    EndTick = 11
    MaxDecisions = 6
    MaxCalls = 6
    MaxFailures = 2
    Answers <- MCAnswers
SYMMETRY MCSymmetry
SPECIFICATION Spec
INVARIANTS
    AuditFollowsTrial
    MetricsMeasure
CHECK_DEADLOCK FALSE
