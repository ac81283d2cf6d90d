------------------------ MODULE FppScheduler_proofs ------------------------
(***************************************************************************)
(* Proofs about FppScheduler for every BATCH_SIZE, every bound on the      *)
(* segments of a packet and every set of batch lengths, when FPP_PSS and   *)
(* fpp_end wrap alike (WrapsAgree).                                        *)
(***************************************************************************)
EXTENDS FppScheduler, TLAPS

(* Masking with BATCH_SIZE_ is the conditional wrap of the other version.  *)
LEMMA ModWrap ==
  ASSUME NEW b \in Nat \ {0}, NEW x \in 0 .. b-1
  PROVE  (x + 1) % b = IF x + 1 < b THEN x + 1 ELSE 0
<1>1. CASE x + 1 < b
  BY <1>1, SMT
<1>2. CASE ~(x + 1 < b)
  <2>1. x + 1 = b
    BY <1>2, SMT
  <2>2. b % b = 0
    BY SMT
  <2> QED
    BY <1>2, <2>1, <2>2
<1> QED
  BY <1>1, <1>2

(* Both versions of the switch go to the next packet of the batch, and     *)
(* from the last one to the first.                                         *)
LEMMA NextSlotWraps ==
  ASSUME TypeOK, WrapsAgree, I < nb_pkts, NEW w, w = PssWrap
  PROVE  /\ NextSlot(w) = IF I + 1 < nb_pkts THEN I + 1 ELSE 0
         /\ FullMask(w) = 0 .. nb_pkts - 1
<1> USE FppAssumption, SchedulerAssumption
<1>1. CASE PssWrap = "nb_pkts"
  BY <1>1 DEF NextSlot, NextBelow, FullMask
<1>2. CASE PssWrap = "BATCH_SIZE"
  <2>1. nb_pkts = BATCH_SIZE
    BY <1>2 DEF TypeOK, WrapsAgree
  <2>2. (I + 1) % BATCH_SIZE = IF I + 1 < BATCH_SIZE THEN I + 1 ELSE 0
    BY ModWrap DEF TypeOK, Slot
  <2> QED
    BY <1>2, <2>1, <2>2 DEF NextSlot, NextMasked, FullMask
<1> QED
  BY <1>1, <1>2 DEF Wraps

LEMMA InitIInv == Init => IInv
  BY FppAssumption, SchedulerAssumption
  DEF Init, IInv, TypeOK, CurrentInBatch, LabelsMatchWork, NoWorkPastBatch,
      RoundRobin, Slot, fpp_start, fpp_end

LEMMA EnterIInv ==
  ASSUME IInv, NEW n \in NbPkts, NEW s \in [Slot -> 1..MaxSegs], Enter(n, s)
  PROVE  IInv'
<1> USE FppAssumption, SchedulerAssumption
<1>1. TypeOK'
  BY DEF IInv, Enter, FppEnter, TypeOK, Slot, fpp_start, fpp_end
<1>2. CurrentInBatch'
  BY DEF Enter, FppEnter, CurrentInBatch
<1>3. LabelsMatchWork'
  BY DEF Enter, FppEnter, LabelsMatchWork, Slot, fpp_start, fpp_end
<1>4. NoWorkPastBatch'
  BY DEF Enter, FppEnter, NoWorkPastBatch, Slot
<1>5. RoundRobin'
  BY DEF Enter, FppEnter, RoundRobin, Pending, Batch, Slot
<1> QED
  BY <1>1, <1>2, <1>3, <1>4, <1>5 DEF IInv

LEMMA RunSegmentIInv ==
  ASSUME IInv, WrapsAgree, RunSegment
  PROVE  IInv'
<1> USE FppAssumption, SchedulerAssumption
<1>1. /\ I \in Slot /\ I < nb_pkts /\ I \notin iMask /\ pc = "goto"
      /\ work[I] = batch_rips[I] /\ work[I] < segs[I]
      /\ work[I] \in 0..MaxSegs /\ segs[I] \in 1..MaxSegs
      /\ nb_pkts \in 1..BATCH_SIZE
  BY DEF IInv, TypeOK, CurrentInBatch, LabelsMatchWork, RunSegment
<1>2. /\ work' = [work EXCEPT ![I] = @ + 1]
      /\ UNCHANGED <<segs, nb_pkts, iMask>>
  BY DEF RunSegment, FPP_PSS, FallThrough
<1>3. CASE batch_rips[I] + 1 < segs[I]
  <2>1. /\ batch_rips' = [batch_rips EXCEPT ![I] = batch_rips[I] + 1]
        /\ I' = IF I + 1 < nb_pkts THEN I + 1 ELSE 0
        /\ pc' = "goto"
    BY <1>1, <1>3, NextSlotWraps DEF RunSegment, FPP_PSS, IInv
  <2>2. TypeOK'
    BY <1>1, <1>2, <1>3, <2>1 DEF IInv, TypeOK, Slot, fpp_end
  <2>3. CurrentInBatch'
    BY <1>1, <1>2, <2>1 DEF CurrentInBatch, Slot
  <2>4. LabelsMatchWork'
    BY <1>1, <1>2, <1>3, <2>1 DEF IInv, TypeOK, LabelsMatchWork, Slot, fpp_end
  <2>5. NoWorkPastBatch'
    BY <1>1, <1>2 DEF IInv, TypeOK, NoWorkPastBatch, Slot
  <2>6. RoundRobin'
    <3> SUFFICES ASSUME NEW i \in Pending', NEW j \in Pending'
                 PROVE  /\ (i < I' <=> j < I') => work'[i] = work'[j]
                        /\ i < I' /\ ~(j < I') => work'[i] = work'[j] + 1
      BY DEF RoundRobin
    <3>1. i \in Pending /\ j \in Pending /\ I \in Pending
      BY <1>1, <1>2, <2>1 DEF Pending, Batch
    <3>2. i \in Slot /\ j \in Slot /\ i < nb_pkts /\ j < nb_pkts
      BY <3>1 DEF Pending, Batch
    <3>3. work[i] \in Nat /\ work[j] \in Nat /\ work[I] \in Nat
      BY <1>1, <3>2 DEF IInv, TypeOK
    <3>4. work'[i] = work[I] + (IF i <= I THEN 1 ELSE 0)
      BY <1>1, <1>2, <3>1, <3>2, <3>3, SMTT(30) DEF IInv, TypeOK, RoundRobin, Slot
    <3>5. work'[j] = work[I] + (IF j <= I THEN 1 ELSE 0)
      BY <1>1, <1>2, <3>1, <3>2, <3>3, SMTT(30) DEF IInv, TypeOK, RoundRobin, Slot
    <3> QED
      BY <1>1, <2>1, <3>2, <3>3, <3>4, <3>5 DEF Slot
  <2> QED
    BY <2>2, <2>3, <2>4, <2>5, <2>6 DEF IInv
<1>4. CASE ~(batch_rips[I] + 1 < segs[I])
  <2>1. pc' = "fpp_end" /\ I' = I /\ batch_rips' = batch_rips
    BY <1>4 DEF RunSegment, FallThrough
  <2>2. TypeOK'
    BY <1>1, <1>2, <1>4, <2>1, SMTT(30) DEF IInv, TypeOK, Slot, fpp_end
  <2>3. CurrentInBatch'
    BY <1>1, <1>2, <2>1 DEF CurrentInBatch
  <2>4. LabelsMatchWork'
    <3>1. work'[I] = segs[I]
      BY <1>1, <1>2, <1>4 DEF IInv, TypeOK
    <3>2. \A i \in Slot : i # I => work'[i] = work[i]
      BY <1>2 DEF IInv, TypeOK
    <3> QED
      BY <1>1, <1>2, <2>1, <3>1, <3>2 DEF IInv, LabelsMatchWork
  <2>5. NoWorkPastBatch'
    BY <1>1, <1>2 DEF IInv, TypeOK, NoWorkPastBatch, Slot
  <2>6. RoundRobin'
    BY <1>1, <1>2, <2>1 DEF IInv, TypeOK, RoundRobin, Pending, Batch
  <2> QED
    BY <2>2, <2>3, <2>4, <2>5, <2>6 DEF IInv
<1> QED
  BY <1>3, <1>4

LEMMA EndIInv ==
  ASSUME IInv, WrapsAgree, End
  PROVE  IInv'
<1> USE FppAssumption, SchedulerAssumption
<1>1. /\ I \in Slot /\ I < nb_pkts /\ pc = "fpp_end"
      /\ work[I] = segs[I] /\ nb_pkts \in 1..BATCH_SIZE
  BY DEF IInv, TypeOK, CurrentInBatch, LabelsMatchWork, End, FppEnd
<1>2. /\ batch_rips' = [batch_rips EXCEPT ![I] = fpp_end]
      /\ iMask' = iMask \union {I}
      /\ UNCHANGED <<segs, work, nb_pkts>>
  BY DEF End, FppEnd
<1>3. \/ pc' = "caller" /\ I' = I
      \/ pc' = "goto" /\ I' = IF I + 1 < nb_pkts THEN I + 1 ELSE 0
  BY <1>1, NextSlotWraps DEF End, FppEnd, IInv, WrapsAgree
<1>4. TypeOK'
  BY <1>1, <1>2, <1>3, SMTT(30) DEF IInv, TypeOK, Slot
<1>5. CurrentInBatch'
  BY <1>1, <1>2, <1>3 DEF CurrentInBatch, Slot
<1>6. LabelsMatchWork'
  BY <1>1, <1>2, <1>3 DEF IInv, TypeOK, LabelsMatchWork
<1>7. NoWorkPastBatch'
  BY <1>1, <1>2 DEF IInv, TypeOK, NoWorkPastBatch, Slot
<1>8. RoundRobin'
  <2> SUFFICES ASSUME pc' # "caller", NEW i \in Pending', NEW j \in Pending'
               PROVE  /\ (i < I' <=> j < I') => work'[i] = work'[j]
                      /\ i < I' /\ ~(j < I') => work'[i] = work'[j] + 1
    BY DEF RoundRobin
  <2>1. i \in Pending /\ j \in Pending /\ i # I /\ j # I
    BY <1>1, <1>2, <1>3 DEF Pending, Batch
  <2>2. i \in Slot /\ j \in Slot /\ i < nb_pkts /\ j < nb_pkts
    BY <2>1 DEF Pending, Batch
  <2>3. work[i] \in Nat /\ work[j] \in Nat
    BY <2>2 DEF IInv, TypeOK
  <2>4. /\ (i < I <=> j < I) => work[i] = work[j]
        /\ i < I /\ ~(j < I) => work[i] = work[j] + 1
    BY <1>1, <2>1 DEF IInv, RoundRobin
  <2> QED
    BY <1>1, <1>2, <1>3, <2>1, <2>2, <2>3, <2>4 DEF Slot
<1> QED
  BY <1>4, <1>5, <1>6, <1>7, <1>8 DEF IInv

LEMMA SkipIInv ==
  ASSUME IInv, Skip
  PROVE  IInv'
<1>1. /\ pc = "goto" /\ pc' = "fpp_end" /\ batch_rips[I] = fpp_end
      /\ UNCHANGED <<nb_pkts, I, batch_rips, iMask, segs, work>>
  BY DEF Skip, Revisit, FallThrough
<1>2. I \in Slot /\ I \in iMask
  BY <1>1 DEF IInv, TypeOK, LabelsMatchWork
<1>3. TypeOK' /\ CurrentInBatch' /\ LabelsMatchWork' /\ NoWorkPastBatch'
  BY <1>1, <1>2
  DEF IInv, TypeOK, CurrentInBatch, LabelsMatchWork, NoWorkPastBatch
<1>4. RoundRobin'
  BY <1>1, <1>2 DEF IInv, RoundRobin, Pending, Batch
<1> QED
  BY <1>3, <1>4 DEF IInv

LEMMA NextIInv == WrapsAgree /\ IInv /\ [Next]_vars => IInv'
<1> SUFFICES ASSUME WrapsAgree, IInv, [Next]_vars
             PROVE  IInv'
  OBVIOUS
<1>1. ASSUME NEW n \in NbPkts, NEW s \in [Slot -> 1..MaxSegs], Enter(n, s)
      PROVE  IInv'
  BY <1>1, EnterIInv
<1>2. CASE RunSegment
  BY <1>2, RunSegmentIInv
<1>3. CASE End
  BY <1>3, EndIInv
<1>4. CASE Skip
  BY <1>4, SkipIInv
<1>5. CASE UNCHANGED vars
  BY <1>5
  DEF vars, fppVars, IInv, TypeOK, CurrentInBatch, LabelsMatchWork,
      NoWorkPastBatch, RoundRobin, Pending, Batch
<1> QED
  BY <1>1, <1>2, <1>3, <1>4, <1>5 DEF Next, Step

(* For every batch size the scheduler keeps its resume addresses, its mask *)
(* and its round-robin order consistent with the packets' progress.        *)
THEOREM Invariance ==
  ASSUME WrapsAgree
  PROVE  Spec => []IInv
<1>1. Init => IInv
  BY InitIInv
<1>2. IInv /\ [Next]_vars => IInv'
  BY NextIInv
<1> QED
  BY <1>1, <1>2, PTL DEF Spec

(* The variables keep their types: I stays a slot, a resume address a      *)
(* label of the function.                                                  *)
THEOREM TypeCorrect ==
  ASSUME WrapsAgree
  PROVE  Spec => []TypeOK
<1>1. IInv => TypeOK
  BY DEF IInv
<1> QED
  BY <1>1, Invariance, PTL

(* A packet is parked right behind the last segment it ran, and iMask      *)
(* holds exactly the packets that ran all of theirs.                       *)
THEOREM LabelsCorrect ==
  ASSUME WrapsAgree
  PROVE  Spec => []LabelsMatchWork
<1>1. IInv => LabelsMatchWork
  BY DEF IInv
<1> QED
  BY <1>1, Invariance, PTL

(* No code runs for slots past the batch.                                  *)
THEOREM StaysInBatch ==
  ASSUME WrapsAgree
  PROVE  Spec => []NoWorkPastBatch
<1>1. IInv => NoWorkPastBatch
  BY DEF IInv
<1> QED
  BY <1>1, Invariance, PTL

(* Between a prefetch and its use every other unfinished packet runs one   *)
(* segment, whatever the packets' code does.                               *)
THEOREM PrefetchDistance ==
  ASSUME WrapsAgree
  PROVE  Spec => []RoundRobin
<1>1. IInv => RoundRobin
  BY DEF IInv
<1> QED
  BY <1>1, Invariance, PTL

LEMMA EndReturns ==
  ASSUME IInv, WrapsAgree, End
  PROVE  pc' = "caller" <=> \A i \in Batch : work[i] = segs[i]
<1>1. I \in Slot /\ I < nb_pkts /\ pc = "fpp_end" /\ work[I] = segs[I]
  BY DEF IInv, TypeOK, CurrentInBatch, LabelsMatchWork, End, FppEnd
<1>2. pc' = "caller" <=> iMask \union {I} = 0 .. nb_pkts - 1
  BY <1>1, NextSlotWraps DEF End, FppEnd, IInv, WrapsAgree
<1>3. Batch = 0 .. nb_pkts - 1
  BY FppAssumption, SchedulerAssumption DEF IInv, TypeOK, Batch, Slot
<1>4. iMask \subseteq Batch
  BY FppAssumption, SchedulerAssumption
  DEF IInv, TypeOK, NoWorkPastBatch, Batch, Slot
<1>5. I \in Batch
  BY <1>1 DEF Batch
<1>6. ASSUME NEW i \in Batch
      PROVE  work[i] = segs[i] <=> i \in iMask \union {I}
  <2>1. i \in Slot /\ work[i] \in Nat /\ segs[i] \in Nat
    BY DEF Batch, IInv, TypeOK
  <2> QED
    BY <1>1, <2>1 DEF IInv, LabelsMatchWork
<1> QED
  BY <1>2, <1>3, <1>4, <1>5, <1>6

(* The function returns exactly when all packets of the batch are done.    *)
THEOREM ReturnCorrect ==
  ASSUME WrapsAgree
  PROVE  Spec => ReturnsWhenDone
<1>1. IInv /\ [Next]_vars =>
        [pc = "fpp_end" =>
           (pc' = "caller" <=> \A i \in Batch : work[i] = segs[i])]_vars
  <2> SUFFICES ASSUME IInv, Next, pc = "fpp_end"
               PROVE  pc' = "caller" <=> \A i \in Batch : work[i] = segs[i]
    OBVIOUS
  <2>1. End
    BY DEF Next, Step, Enter, FppEnter, RunSegment, Skip, Revisit
  <2> QED
    BY <2>1, EndReturns
<1> QED
  BY <1>1, Invariance, PTL DEF Spec, ReturnsWhenDone

LEMMA StepRefines ==
  ASSUME IInv, WrapsAgree, [Next]_vars
  PROVE  [Abstract!Next]_(Abstract!vars)
<1> USE FppAssumption, SchedulerAssumption
<1>1. ASSUME NEW n \in NbPkts, NEW s \in [Slot -> 1..MaxSegs], Enter(n, s)
      PROVE  Abstract!Next
  <2>1. Abstract!Call(n, s)
    BY <1>1 DEF Enter, FppEnter, Abstract!Call, Slot, Abstract!Slot
  <2> QED
    BY <2>1 DEF Abstract!Next, Slot, Abstract!Slot
<1>2. CASE RunSegment
  <2>1. /\ I \in Slot /\ I < nb_pkts /\ pc = "goto"
        /\ work[I] < segs[I]
    BY <1>2 DEF IInv, TypeOK, CurrentInBatch, LabelsMatchWork, RunSegment
  <2>2. /\ work' = [work EXCEPT ![I] = @ + 1]
        /\ UNCHANGED <<segs, nb_pkts>>
        /\ pc' # "caller"
    BY <1>2 DEF RunSegment, FPP_PSS, FallThrough
  <2>3. Abstract!Segment(I)
    BY <2>1, <2>2 DEF Abstract!Segment
  <2> QED
    BY <2>1, <2>3 DEF Abstract!Next, Abstract!Step, Slot, Abstract!Slot
<1>3. CASE End
  <2>1. pc # "caller" /\ UNCHANGED <<segs, work, nb_pkts>>
    BY <1>3 DEF End, FppEnd
  <2>2. CASE pc' = "caller"
    <3>1. \A i \in Batch : work[i] = segs[i]
      BY <1>3, <2>2, EndReturns
    <3>2. Abstract!Return
      BY <2>1, <2>2, <3>1
      DEF Abstract!Return, Abstract!Finished, Batch, Slot, Abstract!Slot
    <3> QED
      BY <3>2 DEF Abstract!Next, Abstract!Step
  <2>3. CASE pc' # "caller"
    BY <2>1, <2>3 DEF Abstract!vars
  <2> QED
    BY <2>2, <2>3
<1>4. CASE Skip
  BY <1>4 DEF Skip, Revisit, FallThrough, Abstract!vars
<1>5. CASE UNCHANGED vars
  BY <1>5 DEF vars, fppVars, Abstract!vars
<1> QED
  BY <1>1, <1>2, <1>3, <1>4, <1>5 DEF Next, Step

(* The switching code does what the foreach loop does: every step of the   *)
(* scheduler is a step of the abstract batch function or leaves it alone   *)
(* (its fairness, hence termination, is left to the model checker).        *)
THEOREM Refinement ==
  ASSUME WrapsAgree
  PROVE  Spec => Abstract!SafeSpec
<1>1. Init => Abstract!Init
  BY DEF Init, Abstract!Init, Slot, Abstract!Slot
<1>2. IInv /\ [Next]_vars => [Abstract!Next]_(Abstract!vars)
  BY StepRefines
<1> QED
  BY <1>1, <1>2, Invariance, PTL DEF Spec, Abstract!SafeSpec
=============================================================================
