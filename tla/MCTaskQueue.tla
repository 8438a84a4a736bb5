---------------------------- MODULE MCTaskQueue ----------------------------
(* Small instances of TaskQueue for TLC.                                   *)
EXTENDS TaskQueue, TLC

ItemSymmetry == Permutations(Items) \cup Permutations(Tokens)
=============================================================================
