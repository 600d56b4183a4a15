\* Two NPCs and a player who meddles while the bridge collapses.
CONSTANTS
  Actors = {"hugh", "thomas", "stranger"}
  Players = {"stranger"}
  Places = {"square", "road", "bridge"}
  Home <- MCHome
  Routes <- MCRoutes
  Fragile <- MCFragile
  Lookouts = {"road", "bridge"}
  Topics <- MCTopics
  Condition <- MCCondition
  Initial <- MCInitial
  Activations <- MCActivations
  CollapseAt = 3
  MaxTime = 24
  MaxPlayed = 2
SPECIFICATION Spec
INVARIANTS
  RebuildsAlike
  AnsweredOnce
PROPERTIES
  InquiryEnds
  ImplementsHearsay
\* The script ends.
CHECK_DEADLOCK FALSE
