CONSTANTS
  Threads = {t1, t2}
  NoThread = NoThread
  BATCH_SIZE = 2
  NUM_NODES = 4
  NUM_LOCKS = 2
  MaxBatches = 1
SPECIFICATION Spec
CHECK_DEADLOCK FALSE
INVARIANTS NoLostUpdate OneLockAtATime
PROPERTIES BatchCompletes
