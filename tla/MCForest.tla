------------------------------ MODULE MCForest ------------------------------
(* Forest for TLC: two animals, of one species or of both.                 *)
EXTENDS Forest

CONSTANTS l1, l2, j1

MCLions == {l1, l2}
MCJackals == {j1}
MCHerds == {{}, {l1, l2}, {l1, j1}}
=============================================================================
