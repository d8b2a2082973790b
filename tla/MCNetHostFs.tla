---------------------------- MODULE MCNetHostFs ----------------------------
(* Small instances of NetHostFs for TLC.                                      *)
EXTENDS NetHostFs, TLC

MCSymmetry == Permutations(Files)

==============================================================================
