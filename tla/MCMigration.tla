---------------------------- MODULE MCMigration ----------------------------
(***************************************************************************)
(* Two sources over two URLs: they may share one, move, or have none.      *)
(***************************************************************************)
EXTENDS Migration, TLC

CONSTANTS s1, s2, u1, u2

MCSources == {s1, s2}
MCUrls == {u1, u2}
Symmetry == Permutations(MCSources) \cup Permutations(MCUrls)
=============================================================================
