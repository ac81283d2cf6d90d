---------------------------- MODULE ForeachBatch ----------------------------
(***************************************************************************)
(* What a batch function promises its caller, whichever way it is compiled *)
(* (the foreach loop of nogoto.c, or the switching code G-Opt makes of it  *)
(* in goto.c): every packet below nb_pkts runs its own code once, from its *)
(* first to its last segment and in that order; no other packet is         *)
(* touched; the function returns when, and only when, all are finished.    *)
(*                                                                         *)
(* A segment is the code between two memory accesses the programmer marked *)
(* FPP_EXPENSIVE.  How segments of different packets interleave is left    *)
(* open: that is the freedom the transformation takes.                     *)
(***************************************************************************)
EXTENDS Naturals

CONSTANTS
  BATCH_SIZE,   \* slots of a batch, at least one
  MaxSegs,      \* bound: segments a packet may have, at least one
  NbPkts        \* the batch lengths callers pass, from 1..BATCH_SIZE

Slot == 0 .. BATCH_SIZE-1

VARIABLES
  running,      \* is a call in progress?
  nb_pkts,      \* the length of its batch
  segs,         \* how many segments the data gives each slot's packet
  work          \* how many of them have run

vars == <<running, nb_pkts, segs, work>>

TypeOK ==
  /\ running \in BOOLEAN
  /\ nb_pkts \in NbPkts
  /\ segs \in [Slot -> 1..MaxSegs]
  /\ work \in [Slot -> 0..MaxSegs]

Init ==
  /\ running = FALSE
  /\ nb_pkts \in NbPkts
  /\ segs \in [Slot -> 1..MaxSegs]
  /\ work = [i \in Slot |-> 0]

Call(n, s) ==
  /\ ~running
  /\ running' = TRUE
  /\ nb_pkts' = n
  /\ segs' = s
  /\ work' = [i \in Slot |-> 0]

Segment(i) ==
  /\ running
  /\ i < nb_pkts
  /\ work[i] < segs[i]
  /\ work' = [work EXCEPT ![i] = @ + 1]
  /\ UNCHANGED <<running, nb_pkts, segs>>

Finished == \A i \in Slot : i < nb_pkts => work[i] = segs[i]

Return ==
  /\ running
  /\ Finished
  /\ running' = FALSE
  /\ UNCHANGED <<nb_pkts, segs, work>>

Step == Return \/ \E i \in Slot : Segment(i)

Next ==
  \/ \E n \in NbPkts, s \in [Slot -> 1..MaxSegs] : Call(n, s)
  \/ Step

SafeSpec == Init /\ [][Next]_vars

Spec == SafeSpec /\ WF_vars(Step)
=============================================================================
