------------------------------ MODULE Segments ------------------------------
(***************************************************************************)
(* How the batch programs of antlr/actual are written down: a packet's     *)
(* code is cut into segments at its FPP_EXPENSIVE lines, and a segment is  *)
(* a function of the read-only memory of the program, of the packet and of *)
(* the packet's locals.  Its value says what the segment leaves behind:    *)
(*   to    the label at which the packet goes on, -1 if it is finished     *)
(*   loc   its locals from then on                                         *)
(*   add   what it adds to the global counters, by name                    *)
(*   out   <<x>> if it stores x in the result array, else Nothing          *)
(***************************************************************************)
EXTENDS Integers, SequencesExt

Nothing == <<>>

\* The segment ends in FPP_PSS(addr, label), having added to counters.
Switch(label, loc, add) == [to |-> label, loc |-> loc, add |-> add, out |-> Nothing]

\* The segment runs to the end of the packet's code.
Done(add)       == [to |-> -1, loc |-> Nothing, add |-> add, out |-> Nothing]
Store(add, out) == [to |-> -1, loc |-> Nothing, add |-> add, out |-> <<out>>]

\* Counters with some of them increased.
Plus(t, u) == [f \in DOMAIN t |-> IF f \in DOMAIN u THEN t[f] + u[f] ELSE t[f]]

\* A program's loop over a sequence of packets, each adding what Add(p) says.
SumOver(zero, Add(_), ps) == FoldLeft(LAMBDA t, p : Plus(t, Add(p)), zero, ps)

\* The numbers 0, 1, ..., n-1, the way a for loop goes through them.
UpTo(n) == [k \in 1..n |-> k - 1]
=============================================================================
