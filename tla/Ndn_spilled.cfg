CONSTANTS
  com = com
  foo = foo
  bar = bar
  BATCH_SIZE = 2
  PssWrap = "BATCH_SIZE"
  EndWrap = "BATCH_SIZE"
  Urls <- Chain
  Names <- Chain
  Ports = {0, 1}
  NDN_NUM_BKT = 2
  NDN_NUM_SLOTS = 2
  MaxUrls = 2
SPECIFICATION Spec
CHECK_DEADLOCK FALSE
INVARIANTS LookupIsLongestPrefix
