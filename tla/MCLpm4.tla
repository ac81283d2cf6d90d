------------------------------- MODULE MCLpm4 -------------------------------
(***************************************************************************)
(* Routes for the runs of Lpm4, with MAX_DEPTH_TBL24 = 2, TBL8_BITS = 1.   *)
(***************************************************************************)
EXTENDS Lpm4

Route(ip, d, h) == [ip |-> ip, depth |-> d, next_hop |-> h]

\* No two nested prefixes that both fit tbl24; longer ones under them, in
\* two groups; a short and a long one are also updated.
Disjoint == {Route(0, 1, 0), Route(0, 1, 1), Route(4, 2, 0), Route(0, 3, 0), Route(0, 3, 1),
             Route(4, 3, 1)}

\* A prefix that fits tbl24, one around it, and a long one elsewhere.
Shadow == {Route(0, 1, 1), Route(0, 2, 0), Route(4, 3, 0)}
=============================================================================
