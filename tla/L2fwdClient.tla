---------------------------- MODULE L2fwdClient ----------------------------
(***************************************************************************)
(* The traffic generator of the forwarding benchmark (l2fwd/client.c) on   *)
(* all lcores of one machine.  An lcore allocates a burst of mbufs from    *)
(* its own pool, sends it, and drains the responses in its receive queue.  *)
(* main gave every receive queue the pool of the lcore it expects to poll  *)
(* it (client_port_queue_to_lcore), but run_client computes its queue in   *)
(* another way, so an lcore may receive into mbufs of another one's pool.  *)
(*                                                                         *)
(* Mbufs of one pool are interchangeable and are counted.  DPDK's part:    *)
(* every descriptor of a receive queue holds an mbuf, and rx_burst puts a  *)
(* new one in place of each it hands out; every lcore may keep mbufs it    *)
(* has freed, or will need, in a cache of its own; a transmit queue takes  *)
(* what there is room for.  The contents of packets, the pause between     *)
(* sending and receiving, and the statistics are left out.                 *)
(***************************************************************************)
EXTENDS Integers, FiniteSetsExt

CONSTANTS
  nb_ports,         \* ports of the machine
  QueueIds,         \* bound: the queues of a port that are considered, 0..2 in the code
  Lcores,           \* enabled lcores
  MAX_CLT_BURST,    \* MAX_CLT_TX_BURST and MAX_CLT_RX_BURST, 16 in the code
  NB_MBUF,          \* mbufs of a pool, 8192
  NB_MBUF_CACHE,    \* mbufs an lcore may keep of a pool, 512
  NUM_RX_DESC, NUM_TX_DESC      \* 512 each

lcore_to_port ==
  [c \in 0..11 |-> <<0, 2, 0, 2, 0, 2, 1, 3, 1, 3, 1, 3>>[c + 1]]

client_port_queue_to_lcore(port_id, queue) ==
  <<<<0, 2, 4>>, <<6, 8, 10>>, <<1, 3, 5>>, <<7, 9, 11>>>>[port_id + 1][queue + 1]

\* main sets up three queues on each port.
Queue == (0 .. nb_ports-1) \X QueueIds
PoolOf(q) == client_port_queue_to_lcore(q[1], q[2])

queue_id(c) == c % 3
QueueOf(c) == <<lcore_to_port[c], queue_id(c)>>

\* What main and run_client exit without, and room for what may be on the way.
ASSUME ClientAssumption ==
  /\ nb_ports \in 1..4 /\ QueueIds \subseteq 0..2 /\ Lcores \subseteq 0..11
  /\ {NB_MBUF, NB_MBUF_CACHE, NUM_TX_DESC} \subseteq Nat
  /\ {MAX_CLT_BURST, NUM_RX_DESC} \subseteq Nat \ {0}
  /\ \A q \in Queue : PoolOf(q) \in Lcores
  /\ \A c \in Lcores : QueueOf(c) \in Queue
  /\ NB_MBUF >= NUM_RX_DESC + NUM_TX_DESC + MAX_CLT_BURST + NB_MBUF_CACHE
                + Min({MAX_CLT_BURST, NUM_RX_DESC})

\* The two tables and the remainder agree in one thing: every queue is polled
\* ("All queues on a port should be accessed"), by one lcore, and so every
\* pool serves the queue of one lcore.
QueuesPolled ==
  /\ \A q \in Queue : \E c \in Lcores : \A d \in Lcores : QueueOf(d) = q <=> d = c
  /\ \A p \in Lcores : \E c \in Lcores : \A d \in Lcores : PoolOf(QueueOf(d)) = p <=> d = c

VARIABLES
  at,       \* per lcore: "alloc", "send", "drain", "verify", or "exit" of the program
  burst,    \* per lcore: mbufs in tx_pkts_burst or rx_pkts_burst
  free,     \* per pool: mbufs in no cache
  cache,    \* cache[c][p]: mbufs of pool p in the cache of lcore c
  sent,     \* per lcore: its mbufs in its transmit queue
  recv      \* per receive queue: descriptors with a packet

clientVars == <<at, burst, free, cache, sent, recv>>

PoolsOf(c) == {c, PoolOf(QueueOf(c))}

ClientInit ==
  /\ at = [c \in Lcores |-> "alloc"]
  /\ burst = [c \in Lcores |-> 0]
  /\ free = [p \in Lcores |-> NB_MBUF - NUM_RX_DESC * Cardinality({q \in Queue : PoolOf(q) = p})]
  /\ cache = [c \in Lcores |-> [p \in Lcores |-> 0]]
  /\ sent = [c \in Lcores |-> 0]
  /\ recv = [q \in Queue |-> 0]

-----------------------------------------------------------------------------
\* The pool: c takes n mbufs of p, or gives -n back.  Any part of what it
\* can get at may end up in its cache; a cache of a pool no other lcore uses
\* makes no difference.
Available(c, p) == free[p] + cache[c][p]

Take(c, p, n) ==
  LET rest == Available(c, p) - n
      most == IF \E d \in Lcores \ {c} : p \in PoolsOf(d) THEN NB_MBUF_CACHE ELSE 0
  IN  /\ rest >= 0
      /\ \E k \in 0..most :
           /\ k <= rest
           /\ cache' = [cache EXCEPT ![c][p] = k]
           /\ free' = [free EXCEPT ![p] = rest - k]

\* The NIC: a packet arrives in a queue that has room.
Receive(q) ==
  /\ recv[q] < NUM_RX_DESC
  /\ recv' = [recv EXCEPT ![q] = @ + 1]
  /\ UNCHANGED <<at, burst, free, cache, sent>>

\* The NIC: an mbuf of c has been sent and is free again.
Sent(c) ==
  /\ sent[c] > 0
  /\ sent' = [sent EXCEPT ![c] = @ - 1]
  /\ Take(c, c, -1)
  /\ UNCHANGED <<at, burst, recv>>

-----------------------------------------------------------------------------
\* rte_pktmbuf_alloc, MAX_CLT_TX_BURST times; without an mbuf the program ends.
Alloc(c) ==
  /\ at[c] = "alloc"
  /\ IF Available(c, c) = 0
       THEN at' = [at EXCEPT ![c] = "exit"] /\ UNCHANGED <<burst, free, cache>>
       ELSE /\ Take(c, c, 1)
            /\ burst' = [burst EXCEPT ![c] = @ + 1]
            /\ at' = [at EXCEPT ![c] = IF burst[c] + 1 = MAX_CLT_BURST THEN "send" ELSE @]
  /\ UNCHANGED <<sent, recv>>

\* No other lcore sends through the queue of c (QueuesPolled).
Room(c) == NUM_TX_DESC - sent[c]

\* Mutant: the mbufs that were not sent are not freed.
SendLosing(c, k) ==
  /\ at[c] = "send"
  /\ k <= Room(c)
  /\ sent' = [sent EXCEPT ![c] = @ + k]
  /\ burst' = [burst EXCEPT ![c] = 0]
  /\ at' = [at EXCEPT ![c] = "drain"]
  /\ UNCHANGED <<free, cache, recv>>

\* rte_eth_tx_burst takes k of the burst; the others are freed.
Send(c, k) ==
  /\ at[c] = "send"
  /\ k <= Room(c)
  /\ sent' = [sent EXCEPT ![c] = @ + k]
  /\ Take(c, c, k - MAX_CLT_BURST)
  /\ burst' = [burst EXCEPT ![c] = 0]
  /\ at' = [at EXCEPT ![c] = "drain"]
  /\ UNCHANGED recv

\* Mutant: a burst of no packets may come too early.
DrainMissing(c, k) ==
  LET q == QueueOf(c)
  IN  /\ at[c] = "drain"
      /\ k <= recv[q]
      /\ Take(c, PoolOf(q), k)
      /\ recv' = [recv EXCEPT ![q] = @ - k]
      /\ burst' = [burst EXCEPT ![c] = k]
      /\ at' = [at EXCEPT ![c] = IF k = 0 THEN "alloc" ELSE "verify"]
      /\ UNCHANGED sent

\* rte_eth_rx_burst hands out k packets, none only if there are none or no
\* mbufs to take their place; the loop ends with none.
Drain(c, k) ==
  LET q == QueueOf(c)
  IN  /\ at[c] = "drain"
      /\ k <= recv[q]
      /\ k = 0 => recv[q] = 0 \/ Available(c, PoolOf(q)) = 0
      /\ Take(c, PoolOf(q), k)
      /\ recv' = [recv EXCEPT ![q] = @ - k]
      /\ burst' = [burst EXCEPT ![c] = k]
      /\ at' = [at EXCEPT ![c] = IF k = 0 THEN "alloc" ELSE "verify"]
      /\ UNCHANGED sent

\* Mutant: one response too few is freed.
VerifyOneShort(c) ==
  /\ at[c] = "verify"
  /\ Take(c, PoolOf(QueueOf(c)), 1 - burst[c])
  /\ burst' = [burst EXCEPT ![c] = 0]
  /\ at' = [at EXCEPT ![c] = "drain"]
  /\ UNCHANGED <<sent, recv>>

\* The responses are looked at and freed.
Verify(c) ==
  /\ at[c] = "verify"
  /\ Take(c, PoolOf(QueueOf(c)), -burst[c])
  /\ burst' = [burst EXCEPT ![c] = 0]
  /\ at' = [at EXCEPT ![c] = "drain"]
  /\ UNCHANGED <<sent, recv>>

run_client(c) ==
  /\ \A d \in Lcores : at[d] # "exit"
  /\ \/ Alloc(c)
     \/ \E k \in 0..MAX_CLT_BURST : Send(c, k)
     \/ \E k \in 0..MAX_CLT_BURST : Drain(c, k)
     \/ Verify(c)

ClientNic ==
  \/ \E q \in Queue : Receive(q)
  \/ \E c \in Lcores : Sent(c)

ClientNext == (\E c \in Lcores : run_client(c)) \/ ClientNic

-----------------------------------------------------------------------------
\* The lcore that polls the queue of pool p
Poller(p) == CHOOSE c \in Lcores : PoolOf(QueueOf(c)) = p

\* The mbufs of pool p that lcore c has in its hands and in its cache
InHand(c, p) ==
  IF p = IF at[c] = "verify" THEN PoolOf(QueueOf(c)) ELSE c THEN burst[c] ELSE 0
Held(c, p) == InHand(c, p) + cache[c][p]

(* No mbuf of a pool is lost or counted twice: it is free, in a transmit   *)
(* queue, in a receive descriptor, or with one of the two lcores that may  *)
(* hold it, its owner and the one that polls the owner's receive queue.    *)
PoolsConserved ==
  \A p \in Lcores :
    /\ free[p] + sent[p] + NUM_RX_DESC * Cardinality({q \in Queue : PoolOf(q) = p})
         + Held(p, p) + (IF Poller(p) = p THEN 0 ELSE Held(Poller(p), p)) = NB_MBUF
    /\ \A c \in Lcores \ {p, Poller(p)} : Held(c, p) = 0

(* rte_pktmbuf_alloc never fails ("tx_alloc failed" ends the program):     *)
(* what lies in queues, in the bursts of the lcore and of the one that     *)
(* polls its receive queue, and in that lcore's cache never is all of the  *)
(* pool.  The assumption on NB_MBUF is as weak as it can be.               *)
AllocSucceeds == \A c \in Lcores : at[c] # "exit"

(* A response in a receive queue is taken: its lcore comes back from       *)
(* sending, which never blocks, to the loop that drains the queue.         *)
QueuesServed ==
  \A q \in Queue : recv[q] > 0 ~> \E c \in Lcores : QueueOf(c) = q /\ at[c] = "verify"
=============================================================================
