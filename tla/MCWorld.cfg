\* Crossings under way while the bridge falls, purchases while the offer changes,
\* meals and rests while hunger rises.
CONSTANTS
  Actors = {"hugh", "edwin", "stranger"}
  Locations = {"road", "bridge", "bakery"}
  Items = {"bread"}
  Home <- MCHome
  Roads <- MCRoads
  Fragile = {"out", "back"}
  Lookouts = {"road", "bridge"}
  Larder <- MCLarder
  Purses <- MCPurses
  Listings <- MCListings
  Condition <- MCCondition
  Recovery <- MCRecovery
  Plan <- MCPlan
  Priorities = {0, 10, 20}
  Requests <- MCRequests
  MaxTime = 9
SPECIFICATION Spec
INVARIANTS
  BridgeClosed
  TravelExplained
  LivingExplained
PROPERTIES
  QuoteHonoured
  ImplementsTimeline
\* Time ends at the horizon.
CHECK_DEADLOCK FALSE
