------------------------------- MODULE MCNdn --------------------------------
(***************************************************************************)
(* URLs and names for the runs of Ndn: a chain of three components and a   *)
(* branch.                                                                 *)
(***************************************************************************)
EXTENDS Ndn

CONSTANTS com, foo, bar   \* components

Fib    == {<<com>>, <<com, foo>>, <<com, foo, bar>>, <<com, bar>>}
Traces == {<<com>>, <<com, foo, bar>>}
Chain  == {<<com, foo>>, <<com, foo, bar>>}
=============================================================================
