------------------------------ MODULE MCPages ------------------------------
(***************************************************************************)
(* Pages with two feeds over two days: a feed that went down on day 0 is   *)
(* indexable on that day and no longer on the next, a nameless one never.  *)
(***************************************************************************)
EXTENDS Pages, TLC

Second == {2}
Symmetry == Permutations(Feeds)
=============================================================================
