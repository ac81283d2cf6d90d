-------------------------------- MODULE Aho ---------------------------------
(***************************************************************************)
(* The pattern matcher of antlr/actual/aho-corasick.  Every pattern        *)
(* belongs to one of several automata; aho_add_pattern enters it into the  *)
(* trie of its automaton, aho_build_ff adds the failure function and       *)
(* aho_preprocess_dfa replaces it by direct transitions.  The packets are  *)
(* then matched in two versions, noopt.c and handopt.c; neither switches   *)
(* between packets, but the second one sorts them first.                   *)
(*                                                                         *)
(* An automaton is the array of its states 0, 1, ..., num_used_states;     *)
(* out_arr is the copy of output that matching uses.                       *)
(***************************************************************************)
EXTENDS Segments

CONSTANTS
  BATCH_SIZE,
  ALPHA_SIZE,       \* bytes are 0 .. ALPHA_SIZE-1
  Dfas,             \* dfa ids
  AHO_MAX_STATES,   \* states of an automaton
  OUT_ARR           \* patterns of a state, 16 in the code

AHO_FAIL == -1      \* 65535, no state
Byte     == 0 .. ALPHA_SIZE-1

State  == [G |-> [c \in Byte |-> AHO_FAIL], F |-> AHO_FAIL, output |-> <<>>]
aho_init == [d \in Dfas |-> <<State>>]

\* The entry of an array that starts at 0
At0(s, i) == s[i + 1]
num_used_states(dfa) == Len(dfa) - 1

\* The state at the end of the path of w, as far as it goes: <<state, bytes>>
Path(dfa, w) ==
  FoldLeft(LAMBDA p, c : IF p[2] = c[1] - 1 /\ At0(dfa, p[1]).G[c[2]] # AHO_FAIL
                           THEN <<At0(dfa, p[1]).G[c[2]], c[1]>> ELSE p,
           <<0, 0>>, [k \in DOMAIN w |-> <<k, w[k]>>])

\* New states for the bytes from j + 1 on; the last state outputs the pattern.
aho_add_pattern(dfa, w, index) ==
  LET p     == Path(dfa, w)
      n     == num_used_states(dfa)
      fresh == Len(w) - p[2]
      link(st, k) == \* the k-th new state is n + k
        Append([st EXCEPT ![IF k = 1 THEN p[1] + 1 ELSE n + k].G[w[p[2] + k]] = n + k], State)
      grown == FoldLeft(link, dfa, [k \in 1..fresh |-> k])
  IN  [grown EXCEPT ![IF fresh = 0 THEN p[1] + 1 ELSE n + fresh + 1].output = Append(@, index)]

\* The asserts on the number of states and on the length of the pattern
Addable(dfa, w) ==
  w # <<>> /\ num_used_states(dfa) + Len(w) - Path(dfa, w)[2] <= AHO_MAX_STATES - 2

-----------------------------------------------------------------------------
\* The transition with byte c from s or the first of its failure states that
\* has one
RECURSIVE best_state(_, _, _)
best_state(dfa, s, c) ==
  LET st == At0(dfa, s)
  IN  IF st.G[c] # AHO_FAIL THEN st.G[c] ELSE best_state(dfa, st.F, c)

\* Mutant: the failure states of the failure state are not tried.
Child_once(dfa, cur, c) ==
  LET child == At0(dfa, cur).G[c]
      g     == At0(dfa, At0(dfa, cur).F).G[c]
      fail  == IF g = AHO_FAIL THEN 0 ELSE g
  IN  [dfa EXCEPT ![child + 1].F = fail, ![child + 1].output = @ \o At0(dfa, fail).output]

\* Mutant: the patterns of the failure state are not added.
Child_silent(dfa, cur, c) ==
  [dfa EXCEPT ![At0(dfa, cur).G[c] + 1].F = best_state(dfa, At0(dfa, cur).F, c)]

\* The child of cur for byte c gets its failure state and the patterns of it.
Child(dfa, cur, c) ==
  LET child == At0(dfa, cur).G[c]
      fail  == best_state(dfa, At0(dfa, cur).F, c)
  IN  [dfa EXCEPT ![child + 1].F = fail, ![child + 1].output = @ \o At0(dfa, fail).output]

\* The states behind cur that exist, in the order of their bytes
Valid(dfa, cur, none) == SelectSeq(UpTo(ALPHA_SIZE), LAMBDA c : At0(dfa, cur).G[c] # none)
Behind(dfa, cur, none) ==
  LET cs == Valid(dfa, cur, none) IN [k \in DOMAIN cs |-> At0(dfa, cur).G[cs[k]]]

RECURSIVE traverse(_, _)
traverse(dfa, queue) ==
  IF queue = <<>> THEN dfa
  ELSE LET cur == Head(queue)
       IN  traverse(FoldLeft(LAMBDA t, c : Child(t, cur, c), dfa, Valid(dfa, cur, AHO_FAIL)),
                    Tail(queue) \o Behind(dfa, cur, AHO_FAIL))

aho_build_ff(dfa) ==
  LET looped == [dfa EXCEPT ![1].G = [c \in Byte |-> IF @[c] = AHO_FAIL THEN 0 ELSE @[c]]]
      first  == Behind(looped, 0, 0)
      rooted == [s \in DOMAIN dfa |->
                   IF s - 1 \in ToSet(first) THEN [looped[s] EXCEPT !.F = 0] ELSE looped[s]]
  IN  traverse(rooted, first)

aho_preprocess_dfa(dfa) ==
  FoldLeft(LAMBDA t, i : [t EXCEPT ![i + 1].G = [c \in Byte |-> best_state(t, i, c)]],
           dfa, UpTo(Len(dfa)))

\* aho_preprocess_dfa asserts that the patterns of a state fit into out_arr.
Buildable(dfa) == \A s \in ToSet(aho_build_ff(dfa)) : Len(s.output) < OUT_ARR

Built(dfas) == [d \in Dfas |-> aho_preprocess_dfa(aho_build_ff(dfas[d]))]

-----------------------------------------------------------------------------
\* One byte of a packet: the patterns of the state, then the transition.
Step(dfa, m, c) == [state |-> At0(dfa, m.state).G[c],
                    ptrn_id |-> m.ptrn_id \o At0(dfa, m.state).output]

NoMatch == [state |-> 0, ptrn_id |-> <<>>]

\* process_batch of noopt.c, process_batch_diff of handopt.c: one packet
\* after the other
process_batch(dfas, b) ==
  [k \in DOMAIN b |-> FoldLeft(LAMBDA m, c : Step(dfas[b[k].dfa_id], m, c),
                               NoMatch, b[k].content).ptrn_id]

\* A byte of every packet that has one, then the next byte
process_batch_same_dfa(dfa, b) ==
  LET round(ms, j) == [k \in DOMAIN b |-> IF j > Len(b[k].content) THEN ms[k]
                                          ELSE Step(dfa, ms[k], b[k].content[j])]
      max_len == Max({Len(p.content) : p \in ToSet(b)})
      end     == FoldLeft(round, [k \in DOMAIN b |-> NoMatch], [j \in 1..max_len |-> j])
  IN  [k \in DOMAIN b |-> end[k].ptrn_id]

process_batch_same_dfa_and_len(dfa, b, len) ==
  LET round(ms, j) == [k \in DOMAIN b |-> Step(dfa, ms[k], b[k].content[j])]
      end == FoldLeft(round, [k \in DOMAIN b |-> NoMatch], [j \in 1..len |-> j])
  IN  [k \in DOMAIN b |-> end[k].ptrn_id]

\* What ids_func counts for a batch with these matches.
Zero == [sum |-> 0, success |-> 0, proc |-> 0, bytes |-> 0]
Counted(b, ms) ==
  LET one(k) == [sum     |-> FoldLeft(LAMBDA x, y : x + y, 0, ms[k]),
                 success |-> IF ms[k] = <<>> THEN 0 ELSE 1,
                 proc    |-> 1,
                 bytes   |-> Len(b[k].content)]
  IN  SumOver(Zero, one, [k \in DOMAIN b |-> k])

\* qsort with this order; packets that are equal in it may come in any order.
compare(p, q) == \/ p.dfa_id < q.dfa_id
                 \/ p.dfa_id = q.dfa_id /\ Len(p.content) < Len(q.content)
Sorted(ps) == {b \in {[k \in DOMAIN ps |-> ps[f[k]]] : f \in Permutations(DOMAIN ps)} :
                 \A i, j \in DOMAIN b : i < j => ~compare(b[j], b[i])}

\* Mutant: packets of one automaton are taken to have one length.
Dispatch_by_dfa(dfas, b) ==
  IF \A p \in ToSet(b) : p.dfa_id = b[1].dfa_id
    THEN process_batch_same_dfa_and_len(dfas[b[1].dfa_id], b, Len(b[1].content))
  ELSE process_batch(dfas, b)

\* The function for a batch, by what its packets have in common
Dispatch(dfas, b) ==
  LET same_dfa         == \A p \in ToSet(b) : p.dfa_id = b[1].dfa_id
      same_dfa_and_len == same_dfa /\ \A p \in ToSet(b) : Len(p.content) = Len(b[1].content)
  IN  IF same_dfa_and_len
        THEN process_batch_same_dfa_and_len(dfas[b[1].dfa_id], b, Len(b[1].content))
      ELSE IF same_dfa THEN process_batch_same_dfa(dfas[b[1].dfa_id], b)
      ELSE process_batch(dfas, b)

\* The counts handopt.c may come to for a big batch of the packets ps.
handopt(dfas, ps) ==
  {SumOver(Zero, LAMBDA b : Counted(b, Dispatch(dfas, b)),
           [j \in 1 .. Len(ps) \div BATCH_SIZE |->
              SubSeq(big, (j - 1) * BATCH_SIZE + 1, j * BATCH_SIZE)]) : big \in Sorted(ps)}

-----------------------------------------------------------------------------
Reached(dfa, w) == FoldLeft(LAMBDA s, c : At0(dfa, s).G[c], 0, w)

\* After any bytes w the automaton is in a state that outputs exactly the
\* patterns that w ends with, each once.
Recognises(dfa, patterns, w) ==
  LET ids == At0(dfa, Reached(dfa, w)).output
  IN  /\ ToSet(ids) = {i \in DOMAIN patterns : IsSuffix(patterns[i], w)}
      /\ Len(ids) = Cardinality(ToSet(ids))

\* How often pattern w ends in the packet before its last byte
Occurrences(w, content) ==
  Cardinality({e \in 1 .. Len(content)-1 : IsSuffix(w, SubSeq(content, 1, e))})
=============================================================================
