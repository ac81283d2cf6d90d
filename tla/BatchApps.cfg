CONSTANTS
  Apps = {"cuckoo", "ht-cuckoo", "mica", "rtable", "aho-corasick", "simple", "locals", "pointer-chasing", "synthetic-divergence", "random-walk"}
  BATCH_SIZE = 2
  PssWrap = "BATCH_SIZE"
  EndWrap = "BATCH_SIZE"
  NUM_KEYS = 4
  NUM_PKTS = 2
  MaxKey = 3
  NUM_BKT = 2
  SLOTS = 2
  HT_INDEX_N = 1
  SLOTS_PER_BKT = 2
  HT_LOG_CAP = 4
  Tags = {0, 1}
  DIGITS = 3
  Digit = {0, 1}
  CACHED = 1
  fallback_port_id = 0
  PortIds = {0, 1, 2}
  RouteDepths = {1, 2}
  MaxRoutes = 2
  ALPHA_SIZE = 2
  Dfas = {0, 1}
  AHO_MAX_STATES = 8
  OUT_ARR = 3
  PatternLens = {2, 3}
  PacketLens = {1, 3}
  MaxPatterns = 2
  LOG_CAP = 2
  DEPTH = 3
  COMPUTE = 3
  NBH = 2
SPECIFICATION Spec
CHECK_DEADLOCK FALSE
INVARIANTS VersionsAgree FailuresExplained TablesWellFormed RouteIsLongest
