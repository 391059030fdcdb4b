---------------------------- MODULE MCPrintQueue ----------------------------
(* PrintQueue on small instances: values for the set constants of the .cfg   *)
(* files, and the symmetry of the safety runs (liveness runs use none).      *)
EXTENDS PrintQueue, TLC

CONSTANTS ann, bob, t1, t2

OneUser    == {ann}
TwoUsers   == {ann, bob}
OneThread  == {t1}
TwoThreads == {t1, t2}
NoQuiet    == {}
FirstQuiet == {0}
MidQuiet   == {1}
LateQuiet  == {2}

Symmetry      == Permutations(Thread)
BothSymmetric == Permutations(Thread) \cup Permutations(User)
=============================================================================
