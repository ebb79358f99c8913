------------------------------ MODULE MCTrees ------------------------------
(* Trees for TLC, with the recursive functions it is compared with: the values *)
(* are in MCTrees.cfg.                                                         *)
EXTENDS TreeWalks
=============================================================================
