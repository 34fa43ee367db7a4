--------------------------- MODULE MCInstanceLoad ---------------------------
(* Two files: p1 exists, is removed and comes back; p2 appears later. *)
EXTENDS InstanceLoad, TLC

CONSTANTS p1, p2, t1, t2

MCPath == {p1, p2}
MCTask == {t1, t2}
TaskSymmetry == Permutations(MCTask)
MCMissing == {<<p1, 1>>, <<p2, 0>>}
MCOnePath == {p1}
MCOneMissing == {<<p1, 1>>}
MCOneChange == p1 :> 1
MCMaxVersion == p1 :> 2 @@ p2 :> 1
=============================================================================
