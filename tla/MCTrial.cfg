\* Four decisions, three stalled turns in a row, a memory of two experiences.
CONSTANTS
  EndTick = 4
  MaxDecisions = 4
  MaxCalls = 4
  MaxFailures = 3
  Window = 2
  Npcs <- MCNpcs
  Actions <- MCActions
SPECIFICATION Spec
INVARIANTS
  MemoryIsFaithful
  RecordIsSound
  StopExplained
\* A trial ends.
CHECK_DEADLOCK FALSE
