---------------------------- MODULE FppScheduler ----------------------------
(***************************************************************************)
(* A transformed batch function with arbitrary packet code: packet i       *)
(* executes segs[i] - 1 times FPP_PSS before it reaches fpp_end, and       *)
(* fpp_label_k stands for the point after the k-th one it executes (a      *)
(* label inside a loop is one point per iteration).  work[i] counts the    *)
(* segments of packet i that have run since the function was entered.      *)
(***************************************************************************)
EXTENDS Fpp

CONSTANTS
  MaxSegs,      \* bound: segments a packet may have
  NbPkts        \* the batch lengths callers pass

ASSUME SchedulerAssumption ==
  /\ MaxSegs \in Nat \ {0}
  /\ NbPkts \subseteq 1..BATCH_SIZE

VARIABLES segs, work

vars == <<fppVars, segs, work>>

TypeOK ==
  /\ pc \in {"caller", "goto", "fpp_end"}
  /\ nb_pkts \in NbPkts
  /\ I \in Slot
  /\ batch_rips \in [Slot -> {fpp_end} \union 0..MaxSegs]
  /\ iMask \in SUBSET Slot
  /\ segs \in [Slot -> 1..MaxSegs]
  /\ work \in [Slot -> 0..MaxSegs]

Init ==
  /\ pc = "caller"
  /\ nb_pkts \in NbPkts
  /\ I = 0
  /\ batch_rips = [i \in Slot |-> fpp_start]
  /\ iMask = {}
  /\ segs \in [Slot -> 1..MaxSegs]
  /\ work = [i \in Slot |-> 0]

Enter(n, s) ==
  /\ FppEnter(n)
  /\ segs' = s
  /\ work' = [i \in Slot |-> 0]

\* The current packet runs the segment that starts at its resume address,
\* and meets another FPP_PSS or runs to its end.
RunSegment ==
  /\ pc = "goto"
  /\ batch_rips[I] # fpp_end
  /\ work' = [work EXCEPT ![I] = @ + 1]
  /\ UNCHANGED segs
  /\ IF batch_rips[I] + 1 < segs[I]
       THEN FPP_PSS(batch_rips[I] + 1)
       ELSE FallThrough

End == FppEnd /\ UNCHANGED <<segs, work>>

Skip == Revisit /\ UNCHANGED <<segs, work>>

Step == RunSegment \/ End \/ Skip

Next ==
  \/ \E n \in NbPkts, s \in [Slot -> 1..MaxSegs] : Enter(n, s)
  \/ Step

\* The function is ordinary sequential code: once entered it keeps running.
Spec == Init /\ [][Next]_vars /\ WF_vars(Step)

-----------------------------------------------------------------------------
Batch == {i \in Slot : i < nb_pkts}

\* The packets of the batch that have neither finished nor are finishing.
Pending == {i \in Batch : i \notin iMask /\ (pc = "fpp_end" => i # I)}

(* The resume address of every slot agrees with what its packet has done:  *)
(* iMask holds exactly the slots parked at fpp_end, a slot in it has run   *)
(* all its segments, and every other packet is parked right after the last *)
(* segment it ran (batch_rips and iMask as kept by FPP_PSS and fpp_end).   *)
LabelsMatchWork ==
  \A i \in Slot :
    /\ i \in iMask <=> batch_rips[i] = fpp_end
    /\ i \in iMask => work[i] = segs[i]
    /\ i \notin iMask =>
         IF pc = "fpp_end" /\ i = I THEN work[i] = segs[i]
         ELSE work[i] = batch_rips[i] /\ work[i] < segs[i]

(* No code runs for a slot past the end of the batch (the foreach loop the *)
(* switching code was made from stops at nb_pkts).                         *)
NoWorkPastBatch == \A i \in Slot : i >= nb_pkts => work[i] = 0 /\ i \notin iMask

(* Why the prefetch pays: between the FPP_PSS that prefetches for a packet *)
(* and its resumption every other unfinished packet runs one segment.  In  *)
(* states, the packets before I are one segment ahead of those from I on,  *)
(* and packets on the same side are level.                                 *)
RoundRobin ==
  pc # "caller" =>
    \A i, j \in Pending :
      /\ (i < I <=> j < I) => work[i] = work[j]
      /\ i < I /\ ~(j < I) => work[i] = work[j] + 1

(* The function returns only when every packet of the batch has finished,  *)
(* and returns as soon as that is so (the test of iMask at fpp_end).       *)
ReturnsWhenDone ==
  [][pc = "fpp_end" =>
       (pc' = "caller" <=> \A i \in Batch : work[i] = segs[i])]_vars

(* Every call returns.                                                     *)
Terminates == pc # "caller" ~> pc = "caller"

(* The scheduler implements the batch function's contract: the switching   *)
(* code does for each packet what the foreach loop does, exactly once.     *)
Abstract == INSTANCE ForeachBatch WITH running <- pc # "caller"
ImplementsForeach == Abstract!Spec

-----------------------------------------------------------------------------
\* FPP_PSS and fpp_end wrap alike, and a function whose code wraps at
\* BATCH_SIZE is only called with full batches.
WrapsAgree ==
  /\ PssWrap = EndWrap
  /\ PssWrap = "BATCH_SIZE" => NbPkts = {BATCH_SIZE}

\* The current slot of a running call is one of its packets.
CurrentInBatch == pc # "caller" => I < nb_pkts

\* The inductive invariant of the proofs.
IInv ==
  /\ TypeOK
  /\ CurrentInBatch
  /\ LabelsMatchWork
  /\ NoWorkPastBatch
  /\ RoundRobin
=============================================================================
