\* Both wraps at the number of packets passed: rte_lpm6_lookup_goto, l2fwd.
CONSTANTS
  BATCH_SIZE = 4
  MaxSegs = 3
  NbPkts = {1, 2, 3, 4}
  PssWrap = "nb_pkts"
  EndWrap = "nb_pkts"
SPECIFICATION Spec
INVARIANTS LabelsMatchWork NoWorkPastBatch RoundRobin
PROPERTIES ReturnsWhenDone Terminates ImplementsForeach
