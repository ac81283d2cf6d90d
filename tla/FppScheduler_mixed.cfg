\* FPP_PSS wraps at BATCH_SIZE, fpp_end at nb_pkts: what the transformer emits.
CONSTANTS
  BATCH_SIZE = 4
  MaxSegs = 2
  NbPkts = {1, 2, 3, 4}
  PssWrap = "BATCH_SIZE"
  EndWrap = "nb_pkts"
SPECIFICATION Spec
PROPERTIES Terminates
