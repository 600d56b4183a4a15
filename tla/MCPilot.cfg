\* Trials in which all the bounds of the policy differ.
CONSTANTS
  EndTick = 4
  MaxDecisions = 5
  MaxCalls = 4
  MaxFailures = 3
  Outcomes <- MCOutcomes
SPECIFICATION Spec
INVARIANTS
  WriteAhead
  AuditAgrees
  EvidenceIsWhole
  EndIsTold
  DenominatorKeepsAnswered
PROPERTIES
  NothingAfterLoss
\* A trial ends.
CHECK_DEADLOCK FALSE
