CONSTANTS
  NumPorts = 2
  MAX_SRV_BURST = 2
  MaxTries = 2
  StatLimit = 3
  Mbufs = {m1, m2, m3}
  MaxArrivals = 4
  nb_ports = 1
  QueueIds = {1, 2}
  Lcores = {2, 4}
  MAX_CLT_BURST = 2
  NB_MBUF = 7
  NB_MBUF_CACHE = 1
  NUM_RX_DESC = 1
  NUM_TX_DESC = 2
SPECIFICATION MainSpec
INVARIANTS MainMbufsConserved FlowsInOrder BuffersHaveRoom AllocSucceeds
PROPERTIES NothingStarves PoolRefills
