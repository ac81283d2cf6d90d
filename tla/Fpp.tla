-------------------------------- MODULE Fpp --------------------------------
(***************************************************************************)
(* The run-time half of G-Opt: the batch scheduler its output carries in   *)
(* every transformed function.  The function keeps one slot per packet, a  *)
(* current slot I, the code address batch_rips[i] at which slot i is to be *)
(* resumed, and a bit mask iMask of the finished slots.  The macro FPP_PSS *)
(* (prefetch, save, switch) parks the current packet at a label and jumps  *)
(* to the next one; the code at fpp_end marks the packet as finished and   *)
(* either returns or jumps on.                                             *)
(*                                                                         *)
(* This module gives those pieces as action fragments over the scheduler's *)
(* own variables; a transformed function conjoins them with its own code   *)
(* (FppScheduler for an arbitrary one, BatchApps, Ndn and Lpm6Lookup for   *)
(* programs of the repository).                                            *)
(*                                                                         *)
(* The repository has two versions of each piece.  One wraps at            *)
(* BATCH_SIZE by masking, the other at the number of packets passed:       *)
(*   PssWrap  FPP_PSS(addr, label)              "BATCH_SIZE"               *)
(*            FPP_PSS(addr, label, batch_size)  "nb_pkts"                  *)
(*   EndWrap  the code at fpp_end of the older applications "BATCH_SIZE"   *)
(*            antlr/endCode, rte_lpm6_lookup_goto           "nb_pkts"      *)
(***************************************************************************)
EXTENDS Integers

CONSTANTS BATCH_SIZE, PssWrap, EndWrap

Wraps == {"BATCH_SIZE", "nb_pkts"}

ASSUME FppAssumption ==
  /\ BATCH_SIZE \in Nat \ {0}
  /\ PssWrap \in Wraps
  /\ EndWrap \in Wraps

Slot == 0 .. BATCH_SIZE-1

\* Code addresses: fpp_label_k is k.
fpp_start == 0
fpp_end   == -1

VARIABLES
  pc,           \* "caller", "goto" (at goto *batch_rips[I]) or "fpp_end"
  nb_pkts,      \* packets in the batch
  I,            \* batch index
  batch_rips,   \* goto targets
  iMask         \* the bits set in iMask: the slots that are done

fppVars == <<pc, nb_pkts, I, batch_rips, iMask>>

-----------------------------------------------------------------------------
\* I = (I + 1) & BATCH_SIZE_; BATCH_SIZE is a power of two and BATCH_SIZE_
\* the mask below it.
NextMasked == (I + 1) % BATCH_SIZE

\* Mutant: <= instead of <.
NextUpTo(n) == IF I + 1 <= n /\ I + 1 < BATCH_SIZE THEN I + 1 ELSE 0

\* I = (I + 1) < batch_size ? I + 1 : 0
NextBelow(n) == IF I + 1 < n THEN I + 1 ELSE 0

NextSlot(wrap) == IF wrap = "nb_pkts" THEN NextBelow(nb_pkts) ELSE NextMasked

\* Mutant: the last packet is forgotten.
FullMaskOneShort(wrap) ==
  0 .. (IF wrap = "nb_pkts" THEN nb_pkts ELSE BATCH_SIZE) - 2

\* The mask with the lowest n bits set: (1 << n) - 1.
FullMask(wrap) == 0 .. (IF wrap = "nb_pkts" THEN nb_pkts ELSE BATCH_SIZE) - 1

-----------------------------------------------------------------------------
\* Mutant: the loop over batch_rips stops one slot early.
EnterOneShort(n) ==
  /\ pc = "caller"
  /\ pc' = "goto"
  /\ nb_pkts' = n
  /\ I' = 0
  /\ batch_rips' = [i \in Slot |-> IF i = BATCH_SIZE-1 THEN batch_rips[i] ELSE fpp_start]
  /\ iMask' = {}

\* The code at the top of the function, up to fpp_start.
FppEnter(n) ==
  /\ pc = "caller"
  /\ pc' = "goto"
  /\ nb_pkts' = n
  /\ I' = 0
  /\ batch_rips' = [i \in Slot |-> fpp_start]
  /\ iMask' = {}

\* Mutant: the label is saved after the switch.
SwitchBeforeSave(label) ==
  /\ I' = NextSlot(PssWrap)
  /\ batch_rips' = [batch_rips EXCEPT ![I'] = label]
  /\ pc' = "goto"
  /\ UNCHANGED <<nb_pkts, iMask>>

\* FPP_PSS(addr, label): the prefetch has no effect on the state.
FPP_PSS(label) ==
  /\ batch_rips' = [batch_rips EXCEPT ![I] = label]
  /\ I' = NextSlot(PssWrap)
  /\ pc' = "goto"
  /\ UNCHANGED <<nb_pkts, iMask>>

\* The packet's own code runs to its last line and falls into fpp_end.
FallThrough ==
  /\ pc' = "fpp_end"
  /\ UNCHANGED <<nb_pkts, I, batch_rips, iMask>>

\* A finished packet was switched to: its resume address is fpp_end itself.
Revisit ==
  /\ pc = "goto"
  /\ batch_rips[I] = fpp_end
  /\ FallThrough

\* Mutant: the batch is scanned from its start again.
EndRestarts ==
  /\ pc = "fpp_end"
  /\ batch_rips' = [batch_rips EXCEPT ![I] = fpp_end]
  /\ iMask' = iMask \union {I}
  /\ IF iMask' = FullMask(EndWrap)
       THEN pc' = "caller" /\ UNCHANGED I
       ELSE pc' = "goto" /\ I' = 0
  /\ UNCHANGED nb_pkts

\* Mutant: the mask is assigned, not or-ed.
EndOverwritesMask ==
  /\ pc = "fpp_end"
  /\ batch_rips' = [batch_rips EXCEPT ![I] = fpp_end]
  /\ iMask' = {I}
  /\ IF iMask' = FullMask(EndWrap)
       THEN pc' = "caller" /\ UNCHANGED I
       ELSE pc' = "goto" /\ I' = NextSlot(EndWrap)
  /\ UNCHANGED nb_pkts

\* The code at fpp_end.
FppEnd ==
  /\ pc = "fpp_end"
  /\ batch_rips' = [batch_rips EXCEPT ![I] = fpp_end]
  /\ iMask' = iMask \union {I}
  /\ IF iMask' = FullMask(EndWrap)
       THEN pc' = "caller" /\ UNCHANGED I
       ELSE pc' = "goto" /\ I' = NextSlot(EndWrap)
  /\ UNCHANGED nb_pkts

\* Control is about to resume the current packet at the given label.
At(label) == pc = "goto" /\ batch_rips[I] = label
=============================================================================
