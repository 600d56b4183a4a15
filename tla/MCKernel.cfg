\* Calls with two inputs and an action, two subscribers, failures everywhere.
CONSTANTS
  StartTime = 0
  MaxTime = 2
  MaxScheduled = 2
  MaxResults = 1
  MaxDuration = 1
  MaxDrafts = 1
  MaxDraws = 1
  Priorities = {0, 1}
  Requests = {r1}
  EventTypes <- MCTypes
  Wants <- MCWants
SPECIFICATION FairSpec
INVARIANTS
  DispatchUndisturbed
  PublishedOnce
PROPERTIES
  RngTransactional
  ReturnedIsComplete
  CallsReturn
\* A closed kernel refuses every call.
CHECK_DEADLOCK FALSE
