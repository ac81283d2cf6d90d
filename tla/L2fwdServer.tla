---------------------------- MODULE L2fwdServer ----------------------------
(***************************************************************************)
(* The DPDK forwarding server (l2fwd/server.c) on one lcore: run_server    *)
(* polls its ports in turn, and each packet received is buffered for the   *)
(* port its request names until MAX_SRV_BURST packets wait for that port;  *)
(* what the NIC then does not take is freed.  Lcores share nothing: each   *)
(* has its own queues, buffers and mbuf pool.                              *)
(*                                                                         *)
(* The NIC and the mbuf pool are DPDK's: packets arrive into free mbufs,   *)
(* rx_burst hands out the oldest, tx_burst takes a prefix of what it is    *)
(* given, and a transmitted mbuf goes back to the pool.                    *)
(***************************************************************************)
EXTENDS Integers, SequencesExt

CONSTANTS
  NumPorts,       \* active ports, 4 in the code
  MAX_SRV_BURST,  \* 16 in the code
  MaxTries,       \* 5 in the code
  StatLimit,      \* transmitted packets between two reports, 10000000
  Mbufs,          \* the mbufs of the pool
  MaxArrivals     \* bound: packets that arrive

ASSUME ServerAssumption ==
  /\ NumPorts \in Nat \ {0} /\ MAX_SRV_BURST \in Nat \ {0}
  /\ MaxTries \in Nat \ {0} /\ StatLimit \in Nat \ {0} /\ MaxArrivals \in Nat
  /\ Cardinality(Mbufs) > NumPorts * (MAX_SRV_BURST - 1)      \* 8192 > 4 * 15

Port == 0 .. NumPorts-1

\* A packet: its mbuf, its input port, the port its request names and its
\* place in the order of arrivals.
Packet == [mbuf : Mbufs, src : Port, dst : Port, no : 1..MaxArrivals]

VARIABLES
  pool,             \* the free mbufs
  rxq, txq,         \* NIC: packets received and to be sent, per port
  arrivals,         \* packets arrived so far
  spc,              \* "rx" or "process"
  port_index, tries,
  rx_pkts_burst,    \* the packets of this burst; its length is nb_rx_new
  batch_index,      \* packets of the burst already processed
  mbufs,            \* lp_info[].mbufs, their length is nb_buf
  nb_tx, nb_rx,     \* lp_info[].nb_tx and nb_rx
  nb_tx_all_ports   \* lp_info[0].nb_tx_all_ports

nicVars  == <<pool, rxq, txq, arrivals>>
statVars == <<nb_tx, nb_rx, nb_tx_all_ports>>
loopVars == <<spc, port_index, tries, rx_pkts_burst, batch_index>>
vars == <<nicVars, statVars, loopVars, mbufs>>

TypeOK ==
  /\ pool \in SUBSET Mbufs
  /\ rxq \in [Port -> Seq(Packet)] /\ txq \in [Port -> Seq(Packet)]
  /\ arrivals \in 0..MaxArrivals
  /\ spc \in {"rx", "process"}
  /\ port_index \in Port
  /\ tries \in 0..MaxTries
  /\ rx_pkts_burst \in Seq(Packet) /\ Len(rx_pkts_burst) <= MAX_SRV_BURST
  /\ batch_index \in 0..Len(rx_pkts_burst)
  /\ mbufs \in [Port -> Seq(Packet)]
  /\ nb_tx \in [Port -> Nat] /\ nb_rx \in [Port -> Nat]
  /\ nb_tx_all_ports \in Nat

Init ==
  /\ pool = Mbufs
  /\ rxq = [p \in Port |-> <<>>] /\ txq = [p \in Port |-> <<>>]
  /\ arrivals = 0
  /\ spc = "rx" /\ port_index = 0 /\ tries = 0
  /\ rx_pkts_burst = <<>> /\ batch_index = 0
  /\ mbufs = [p \in Port |-> <<>>]
  /\ nb_tx = [p \in Port |-> 0] /\ nb_rx = [p \in Port |-> 0]
  /\ nb_tx_all_ports = 0

-----------------------------------------------------------------------------
\* The NIC: a packet arrives on port s, with a request for port d.
Arrive(s, d) ==
  /\ arrivals < MaxArrivals
  /\ pool # {}
  /\ LET m == CHOOSE x \in pool : TRUE
         pkt == [mbuf |-> m, src |-> s, dst |-> d, no |-> arrivals + 1]
     IN  /\ pool' = pool \ {m}
         /\ rxq' = [rxq EXCEPT ![s] = Append(@, pkt)]
  /\ arrivals' = arrivals + 1
  /\ UNCHANGED <<txq, statVars, loopVars, mbufs>>

\* The NIC: the oldest packet given to port p is on the wire.
Transmitted(p) ==
  /\ txq[p] # <<>>
  /\ pool' = pool \union {Head(txq[p]).mbuf}
  /\ txq' = [txq EXCEPT ![p] = Tail(@)]
  /\ UNCHANGED <<rxq, arrivals, statVars, loopVars, mbufs>>

-----------------------------------------------------------------------------
nb_rx_new == Len(rx_pkts_burst)
Polling == spc = "rx" /\ nb_rx_new < MAX_SRV_BURST /\ tries < MaxTries
NextPort == (port_index + 1) % NumPorts

\* rte_eth_rx_burst in the polling loop: k of the packets that are there
RxBurst(k) ==
  /\ Polling
  /\ k <= Len(rxq[port_index]) /\ k <= MAX_SRV_BURST - nb_rx_new
  /\ k = 0 => rxq[port_index] = <<>>
  /\ rx_pkts_burst' = rx_pkts_burst \o SubSeq(rxq[port_index], 1, k)
  /\ rxq' = [rxq EXCEPT ![port_index] = SubSeq(@, k + 1, Len(@))]
  /\ tries' = tries + 1
  /\ UNCHANGED <<pool, txq, arrivals, statVars, spc, port_index, batch_index, mbufs>>

\* Mutant: the server stays on a port without packets.
NoPacketsStays ==
  /\ spc = "rx" /\ ~Polling
  /\ nb_rx_new = 0
  /\ tries' = 0
  /\ UNCHANGED <<nicVars, statVars, spc, port_index, rx_pkts_burst, batch_index, mbufs>>

\* The loop ends without a packet: on to the next port.
NoPackets ==
  /\ spc = "rx" /\ ~Polling
  /\ nb_rx_new = 0
  /\ port_index' = NextPort
  /\ tries' = 0
  /\ UNCHANGED <<nicVars, statVars, spc, rx_pkts_burst, batch_index, mbufs>>

\* The loop ends with packets: they are counted and process_batch_nogoto called.
StartBatch ==
  /\ spc = "rx" /\ ~Polling
  /\ nb_rx_new > 0
  /\ nb_rx' = [nb_rx EXCEPT ![port_index] = @ + nb_rx_new]
  /\ spc' = "process"
  /\ batch_index' = 0
  /\ UNCHANGED <<nicVars, nb_tx, nb_tx_all_ports, port_index, tries, rx_pkts_burst, mbufs>>

\* Mutant: unsent packets are not freed.
SendLeaks(pkt, k) ==
  LET p   == pkt.dst
      buf == Append(mbufs[p], pkt)
  IN  IF Len(buf) = MAX_SRV_BURST
        THEN /\ txq' = [txq EXCEPT ![p] = @ \o SubSeq(buf, 1, k)]
             /\ UNCHANGED pool
             /\ nb_tx' = [nb_tx EXCEPT ![p] = @ + k]
             /\ nb_tx_all_ports' = nb_tx_all_ports + k
             /\ mbufs' = [mbufs EXCEPT ![p] = <<>>]
        ELSE /\ k = 0
             /\ mbufs' = [mbufs EXCEPT ![p] = buf]
             /\ UNCHANGED <<txq, pool, nb_tx, nb_tx_all_ports>>

\* Mutant: the buffer is filled from its end.
SendReversed(pkt, k) ==
  LET p   == pkt.dst
      buf == <<pkt>> \o mbufs[p]
  IN  IF Len(buf) = MAX_SRV_BURST
        THEN /\ txq' = [txq EXCEPT ![p] = @ \o SubSeq(buf, 1, k)]
             /\ pool' = pool \union {buf[i].mbuf : i \in k+1 .. MAX_SRV_BURST}
             /\ nb_tx' = [nb_tx EXCEPT ![p] = @ + k]
             /\ nb_tx_all_ports' = nb_tx_all_ports + k
             /\ mbufs' = [mbufs EXCEPT ![p] = <<>>]
        ELSE /\ k = 0
             /\ mbufs' = [mbufs EXCEPT ![p] = buf]
             /\ UNCHANGED <<txq, pool, nb_tx, nb_tx_all_ports>>

\* Mutant: one packet too many is buffered.
SendLate(pkt, k) ==
  LET p   == pkt.dst
      buf == Append(mbufs[p], pkt)
  IN  IF Len(buf) = MAX_SRV_BURST + 1
        THEN /\ txq' = [txq EXCEPT ![p] = @ \o SubSeq(buf, 1, k)]
             /\ pool' = pool \union {buf[i].mbuf : i \in k+1 .. MAX_SRV_BURST}
             /\ nb_tx' = [nb_tx EXCEPT ![p] = @ + k]
             /\ nb_tx_all_ports' = nb_tx_all_ports + k
             /\ mbufs' = [mbufs EXCEPT ![p] = <<>>]
        ELSE /\ k = 0
             /\ mbufs' = [mbufs EXCEPT ![p] = buf]
             /\ UNCHANGED <<txq, pool, nb_tx, nb_tx_all_ports>>

\* send_packet: k packets of a full buffer are taken by rte_eth_tx_burst.
send_packet(pkt, k) ==
  LET p   == pkt.dst
      buf == Append(mbufs[p], pkt)
  IN  IF Len(buf) = MAX_SRV_BURST
        THEN /\ txq' = [txq EXCEPT ![p] = @ \o SubSeq(buf, 1, k)]
             /\ pool' = pool \union {buf[i].mbuf : i \in k+1 .. MAX_SRV_BURST}
             /\ nb_tx' = [nb_tx EXCEPT ![p] = @ + k]
             /\ nb_tx_all_ports' = nb_tx_all_ports + k
             /\ mbufs' = [mbufs EXCEPT ![p] = <<>>]
        ELSE /\ k = 0
             /\ mbufs' = [mbufs EXCEPT ![p] = buf]
             /\ UNCHANGED <<txq, pool, nb_tx, nb_tx_all_ports>>

\* One iteration of the foreach loop of process_batch_nogoto.
ProcessPacket(k) ==
  /\ spc = "process"
  /\ batch_index < nb_rx_new
  /\ send_packet(rx_pkts_burst[batch_index + 1], k)
  /\ batch_index' = batch_index + 1
  /\ UNCHANGED <<rxq, arrivals, nb_rx, spc, port_index, tries, rx_pkts_burst>>

\* The rest of the loop of run_server: the report, and on to the next port.
EndBatch ==
  /\ spc = "process"
  /\ batch_index = nb_rx_new
  /\ IF nb_tx_all_ports >= StatLimit
       THEN /\ nb_tx_all_ports' = 0
            /\ nb_tx' = [p \in Port |-> 0]
            /\ nb_rx' = [p \in Port |-> 0]
       ELSE UNCHANGED statVars
  /\ port_index' = NextPort
  /\ spc' = "rx"
  /\ tries' = 0
  /\ rx_pkts_burst' = <<>>
  /\ batch_index' = 0
  /\ UNCHANGED <<nicVars, mbufs>>

run_server ==
  \/ \E k \in 0..MAX_SRV_BURST : RxBurst(k)
  \/ NoPackets
  \/ StartBatch
  \/ \E k \in 0..MAX_SRV_BURST : ProcessPacket(k)
  \/ EndBatch

Nic == \/ \E s, d \in Port : Arrive(s, d)
       \/ \E p \in Port : Transmitted(p)

Next == run_server \/ Nic

\* The lcore polls for ever and does nothing else; the NIC sends what is in
\* its transmit rings.
Spec ==
  /\ Init /\ [][Next]_vars
  /\ WF_vars(run_server)
  /\ \A p \in Port : WF_vars(Transmitted(p))

-----------------------------------------------------------------------------
\* Where packets are, from those that leave next to those that came last:
\* per port the transmit queue, the buffer, what is left of the burst, and
\* the receive queue.
Unprocessed == SubSeq(rx_pkts_burst, batch_index + 1, nb_rx_new)
Stage == 1..4
Pipeline ==
  <<txq, mbufs, [p \in Port |-> IF p = port_index THEN Unprocessed ELSE <<>>], rxq>>

InUse(L) ==
  {m \in Mbufs : \E a \in Stage, p \in Port : \E i \in DOMAIN L[a][p] : L[a][p][i].mbuf = m}

OwnedOnce(L) ==
  \A a, b \in Stage, p, q \in Port :
    \A i \in DOMAIN L[a][p], j \in DOMAIN L[b][q] :
      L[a][p][i].mbuf = L[b][q][j].mbuf => a = b /\ p = q /\ i = j

InOrder(L) ==
  \A a, b \in Stage, p, q \in Port :
    \A i \in DOMAIN L[a][p], j \in DOMAIN L[b][q] :
      LET x == L[a][p][i]
          y == L[b][q][j]
      IN  /\ x.src = y.src /\ x.dst = y.dst
          /\ a < b \/ (a = b /\ p = q /\ i < j)
          => x.no < y.no

(* No mbuf is leaked or owned twice: each is free or in exactly one place  *)
(* (rx_burst, the buffers of send_packet, the frees after a short tx_burst *)
(* and the NIC hand each one on exactly once).                             *)
MbufsConserved ==
  /\ TypeOK
  /\ pool = Mbufs \ InUse(Pipeline)
  /\ OwnedOnce(Pipeline)

(* Packets from one port to another are never reordered, across bursts,    *)
(* buffers and short transmissions.                                        *)
FlowsInOrder == InOrder(Pipeline)

(* A buffer is flushed before it is full, so that the next packet of       *)
(* another batch still fits; what it holds goes to its port.               *)
BuffersHaveRoom ==
  \A p \in Port :
    /\ Len(mbufs[p]) < MAX_SRV_BURST
    /\ \A pkt \in ToSet(mbufs[p]) \union ToSet(txq[p]) : pkt.dst = p

(* No port is starved: when packets wait in the receive queue of a port,   *)
(* the server comes round to processing a burst from it.                   *)
PortsServed ==
  \A p \in Port : rxq[p] # <<>> ~> spc = "process" /\ port_index = p

(* Packets that wait in half-filled buffers never hold all the mbufs: the  *)
(* NIC can always receive again.                                           *)
PoolRefills == pool = {} ~> pool # {}
=============================================================================
