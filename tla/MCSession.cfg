\* An identity used by two requests of one run and one of another, two actors,
\* failures of knowledge and of the engine.
CONSTANTS
  StartTime = 0
  MaxTime = 1
  MaxObservations = 2
  MaxAttempts = 3
  Actors = {"ada", "bob"}
  OwnRun = "run"
  NoRequest = NoRequest
  Requests <- MCRequests
SPECIFICATION FairSpec
INVARIANTS
  ExecutedOnce
  NothingForgotten
  EvidenceFirst
PROPERTIES
  LastReceiptShown
  PortsReturn
\* A closed kernel refuses every call.
CHECK_DEADLOCK FALSE
