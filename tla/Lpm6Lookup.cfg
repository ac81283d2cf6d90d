CONSTANTS
  TBL24_BITS = 1
  TBL8_BITS = 1
  LEVELS = 2
  number_tbl8s = 3
  max_rules = 3
  NextHops = {1, 2}
  BATCH_SIZE = 2
  PssWrap = "nb_pkts"
  EndWrap = "nb_pkts"
  NbPkts = {1, 2}
  LookupRules = 2
SPECIFICATION LookupSpec
CHECK_DEADLOCK FALSE
INVARIANTS LookupIsLongestMatch RebuildNeverFails GroupsFormTree GroupsNeeded BatchIsLongestMatch LookupStaysInTables
PROPERTIES FailedAddChangesNothing
