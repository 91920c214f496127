------------------------------- MODULE MCMultiBox -------------------------------
(* MultiBoxTracker for TLC: three boxes in a row of which the middle one       *)
(* overlaps its neighbours, one of them more than the other.                   *)
EXTENDS MultiBoxTracker, TLC

MCPositions == {1, 2, 3}
MCOverlap == [p \in MCPositions \X MCPositions |->
                CASE p[1] = p[2]                      -> 100
                  [] p \in {<<1, 2>>, <<2, 1>>}       -> 50
                  [] p \in {<<2, 3>>, <<3, 2>>}       -> 30
                  [] OTHER                            -> 20]
MCSymmetry == Permutations(Ids)
================================================================================
