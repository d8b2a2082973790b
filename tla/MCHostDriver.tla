---------------------------- MODULE MCHostDriver ----------------------------
(* Small instances of HostDriver for TLC.                                     *)
EXTENDS HostDriver, TLC

MCSymmetry == Permutations(Thread) \cup Permutations(Descriptor)

==============================================================================
