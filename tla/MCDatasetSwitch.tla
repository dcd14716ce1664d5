---------------------------- MODULE MCDatasetSwitch ----------------------------
(* Constants of the runs of DatasetSwitch. *)
EXTENDS DatasetSwitch, TLC

CONSTANTS g1, g2, g3

MCSymmetry == Permutations(Generations)
================================================================================
