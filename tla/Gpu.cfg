CONSTANTS
  Programs = {"streams", "memcpyTime-async", "memcpyTime-synch", "unifiedMemory", "cvg-compute", "randMem", "cvg-randMem", "vectorAdd", "seqMem", "mapped-time", "mapped-compute", "mapped-randMem", "mtMappedMemory"}
  MaxPkts = 4
  ITERS = 3
  Resident = 3
  DEPTH = 2
  COMPUTE = 2
  LOG_CAP = 2
SPECIFICATION Spec
CHECK_DEADLOCK FALSE
INVARIANTS ResultsVerified HostOwnsArrays KernelInStep
PROPERTIES Terminates
