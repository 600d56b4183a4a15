\* Two inputs competing with two consecutive actions, timed and untimed.
CONSTANTS
  StartTime = 1
  MaxTime = 3
  MaxScheduled = 2
  MaxResults = 2
  MaxDuration = 2
  MaxDrafts = 1
  MaxDraws = 0
  Priorities = {0, 1}
  Requests = {r1}
  EventTypes <- MCOneType
  Wants <- MCOneWants
  Width = 5
  Gamma = 19
  Multipliers <- MCMultipliers
  Shifts <- MCShifts
  Modules = {1, 2, 3}
  Unregistered = {4}
SPECIFICATION LaunchSpec
INVARIANTS
  InputsKept
  RecordsAccounted
  RunDrawsUniform
PROPERTIES
  BootIsOrdered
  ImplementsTimeline
  ImplementsEngine
\* A closed kernel refuses every call.
CHECK_DEADLOCK FALSE
