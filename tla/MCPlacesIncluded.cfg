CONSTANTS
    square = square
    inn = inn
    bakery = bakery
    Square <- square
    Targets <- MCTargets
    Routes <- MCRoutes
    Cost = 2
    EndTick = 11
    MaxDecisions = 6
    MaxCalls = 6
    MaxFailures = 2
    Answers <- ShallowAnswers
SPECIFICATION Spec
INVARIANTS
    ValidTrialsIncluded
CHECK_DEADLOCK FALSE
