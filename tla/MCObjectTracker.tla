---------------------------- MODULE MCObjectTracker ----------------------------
\* The instance of ObjectTracker that TLC checks.
EXTENDS ObjectTracker, TLC

MCBoxes == {4}
MCMotions == {0, 1}
MCSymmetry == Permutations(Ids)
================================================================================
