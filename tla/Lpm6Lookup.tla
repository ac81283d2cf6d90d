----------------------------- MODULE Lpm6Lookup -----------------------------
(***************************************************************************)
(* The IPv6 application: the tables of Lpm6 are filled, and then addresses *)
(* are looked up in batches.  Its main (antlr/actual/ipv6/goto.c) only     *)
(* adds prefixes; here they are deleted too, as the library's interface    *)
(* allows.  The transformed lookup rte_lpm6_lookup_goto is modelled step   *)
(* by step on the scheduler of Fpp, with the number of packets as the      *)
(* wrap; the hand-optimised one as a function of the batch.                *)
(* rte_lpm6_lookup_bulk_func and _nogoto apply rte_lpm6_lookup of Lpm6 to  *)
(* each address in turn.                                                   *)
(***************************************************************************)
EXTENDS Fpp, Lpm6

CONSTANTS
  NbPkts,       \* the batch lengths callers pass
  LookupRules   \* bound: batches are looked up in tables with at most this many rules

ASSUME Lpm6LookupAssumption ==
  /\ NbPkts \subseteq 1..BATCH_SIZE
  /\ PssWrap = "nb_pkts" /\ EndWrap = "nb_pkts"

Unset == -2             \* an entry of next_hops the call has not written

VARIABLES
  looking,      \* main has gone from adding prefixes to looking up
  ips,          \* the addresses of the batch
  next_hops,    \* the results
  first_byte,   \* per slot: lookup steps done, i.e. first_byte - 4
  entry         \* per slot: tbl, the entry to inspect: <<table, index>>

lookupVars == <<looking, ips, next_hops, first_byte, entry>>
allVars == <<vars, fppVars, lookupVars>>

Pointer == UNION {{g} \X Index(g) : g \in Table}

LookupTypeOK ==
  /\ pc \in {"caller", "goto", "fpp_end"} /\ nb_pkts \in 1..BATCH_SIZE /\ I \in Slot
  /\ batch_rips \in [Slot -> {fpp_start, 1, fpp_end}] /\ iMask \subseteq Slot
  /\ looking \in BOOLEAN
  /\ ips \in [Slot -> Addr]
  /\ next_hops \in [Slot -> {Unset, -1} \union NextHops]
  /\ first_byte \in [Slot -> 0 .. LEVELS + 1]
  /\ entry \in [Slot -> Pointer]

\* The locals are uninitialized; none is read before it is set.
LookupInit ==
  /\ Init
  /\ pc = "caller" /\ nb_pkts = BATCH_SIZE /\ I = 0 /\ iMask = {}
  /\ batch_rips = [i \in Slot |-> fpp_start]
  /\ looking = FALSE
  /\ ips = [i \in Slot |-> 0]
  /\ next_hops = [i \in Slot |-> Unset]
  /\ first_byte = [i \in Slot |-> 0]
  /\ entry = [i \in Slot |-> <<TBL24, 0>>]

-----------------------------------------------------------------------------
\* The tables are changed before the first lookup.
Update == pc = "caller" /\ ~looking /\ Next /\ UNCHANGED <<fppVars, lookupVars>>

\* The first lines of rte_lpm6_lookup_goto, called once all prefixes are in:
\* main exits when an add fails.  One call is enough, it sets all it uses.
Call(n, as) ==
  /\ ~looking /\ status = "0"
  /\ Len(rules_tbl) <= LookupRules
  /\ looking' = TRUE
  /\ ips' = [i \in Slot |-> IF i < n THEN as[i] ELSE 0]
  /\ next_hops' = [i \in Slot |-> Unset]
  /\ first_byte' = [i \in Slot |-> 0]
  /\ entry' = [i \in Slot |-> <<TBL24, 0>>]
  /\ FppEnter(n)
  /\ UNCHANGED vars

\* Mutant: first_byte starts one byte too far.
FirstEntryLate ==
  /\ At(fpp_start)
  /\ first_byte' = [first_byte EXCEPT ![I] = 1]
  /\ entry' = [entry EXCEPT ![I] = <<TBL24, tbl_index(ips[I], 0)>>]
  /\ FPP_PSS(1)
  /\ UNCHANGED <<vars, looking, ips, next_hops>>

\* from fpp_start to the FPP_PSS
FirstEntry ==
  /\ At(fpp_start)
  /\ first_byte' = [first_byte EXCEPT ![I] = 0]
  /\ entry' = [entry EXCEPT ![I] = <<TBL24, tbl_index(ips[I], 0)>>]
  /\ FPP_PSS(1)
  /\ UNCHANGED <<vars, looking, ips, next_hops>>

\* Mutant: the byte before the right one is used as the index.
InspectSameByte ==
  LET e == tbl[entry[I][1]][entry[I][2]]
      deeper == e.valid /\ e.ext_entry
  IN  /\ At(1)
      /\ first_byte' = [first_byte EXCEPT ![I] = @ + 1]
      /\ IF deeper
           THEN /\ entry' = [entry EXCEPT ![I] = <<e.next_hop, tbl_index(ips[I], first_byte[I])>>]
                /\ FPP_PSS(1)
                /\ UNCHANGED next_hops
           ELSE /\ next_hops' = [next_hops EXCEPT ![I] = IF e.valid THEN e.next_hop ELSE -1]
                /\ FallThrough
                /\ UNCHANGED entry
      /\ UNCHANGED <<vars, looking, ips>>

\* from fpp_label_1, lookup_step, back to the FPP_PSS or to the end
InspectEntry ==
  LET e == tbl[entry[I][1]][entry[I][2]]
      deeper == e.valid /\ e.ext_entry
  IN  /\ At(1)
      /\ first_byte' = [first_byte EXCEPT ![I] = @ + 1]
      /\ IF deeper
           THEN /\ entry' = [entry EXCEPT ![I] = <<e.next_hop, tbl_index(ips[I], first_byte[I] + 1)>>]
                /\ FPP_PSS(1)
                /\ UNCHANGED next_hops
           ELSE /\ next_hops' = [next_hops EXCEPT ![I] = IF e.valid THEN e.next_hop ELSE -1]
                /\ FallThrough
                /\ UNCHANGED entry
      /\ UNCHANGED <<vars, looking, ips>>

Finish == FppEnd /\ UNCHANGED <<vars, lookupVars>>

Skip == Revisit /\ UNCHANGED <<vars, lookupVars>>

Lookup == FirstEntry \/ InspectEntry \/ Finish \/ Skip

LookupNext ==
  \/ Update
  \/ \E n \in NbPkts : \E as \in [0..n-1 -> Addr] : Call(n, as)
  \/ Lookup

LookupSpec == LookupInit /\ [][LookupNext]_allVars

-----------------------------------------------------------------------------
\* rte_lpm6_lookup_handopt: rounds over the whole batch until one makes no
\* progress.  A slot has its entry with the steps it has done, or its result.
inspect(t, ip, st) ==
  LET e == t[st.entry[1]][st.entry[2]]
  IN  IF st.done THEN st
      ELSE IF e.valid /\ e.ext_entry
        THEN [st EXCEPT !.entry = <<e.next_hop, tbl_index(ip, st.steps + 1)>>, !.steps = @ + 1]
      ELSE [st EXCEPT !.done = TRUE, !.res = IF e.valid THEN e.next_hop ELSE -1]

\* The slots after each round.  No address has more than LEVELS + 1 steps.
rounds(t) ==
  LET st[n \in 0 .. LEVELS+1] ==
        [i \in Slot |->
           IF n = 0 THEN [entry |-> <<TBL24, tbl_index(ips[i], 0)>>, steps |-> 0,
                          done |-> FALSE, res |-> Unset]
           ELSE inspect(t, ips[i], st[n-1][i])]
  IN  st

rte_lpm6_lookup_handopt(t) == [i \in Slot |-> rounds(t)[LEVELS + 1][i].res]

-----------------------------------------------------------------------------
Returned == pc = "caller" /\ looking

(* When the transformed lookup returns, each of the n results is that of   *)
(* the most specific prefix added, -1 if there is none, and no other entry *)
(* of next_hops has been written; for a full batch the hand-optimised      *)
(* lookup writes the same results.                                         *)
BatchIsLongestMatch ==
  Returned =>
    /\ \A i \in Slot :
         next_hops[i] = IF i < nb_pkts THEN LongestMatch(rules_tbl, ips[i]) ELSE Unset
    /\ nb_pkts = BATCH_SIZE => rte_lpm6_lookup_handopt(tbl) = next_hops

(* A lookup never runs off the end of its address or into a group that was *)
(* not handed out: lookup_step follows first_byte without a bound of its   *)
(* own and relies on the tables for it.                                    *)
LookupStaysInTables ==
  /\ LookupTypeOK
  /\ \A i \in Slot : pc # "caller" /\ batch_rips[i] = 1 =>
       /\ entry[i][1] < next_tbl8
       /\ first_byte[i] = LEVELS =>
            ~tbl[entry[i][1]][entry[i][2]].ext_entry
=============================================================================
