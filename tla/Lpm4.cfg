CONSTANTS
  MAX_DEPTH_TBL24 = 2
  TBL8_BITS = 1
  NUM_GROUPS = 2
  GINDEX = 2
  max_rules = 3
  Routes <- Disjoint
SPECIFICATION Spec
CHECK_DEADLOCK FALSE
INVARIANTS LookupIsLongestMatch RulesAreRoutes GroupsOwned
