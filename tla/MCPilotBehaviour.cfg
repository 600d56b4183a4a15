SPECIFICATION Spec
CONSTANTS
    EndTick = 3
    MaxDecisions = 3
    MaxCalls = 3
    MaxFailures = 2
    Outcomes <- MCOutcomes
INVARIANT
    BehaviourCounts
CHECK_DEADLOCK FALSE
