---------------------------- MODULE MCAsyncChan ----------------------------
(* Small instances of AsyncChan for TLC.                                      *)
EXTENDS AsyncChan, TLC

MCByte == {0, 1}
MCPackets == {<<1>>, <<0, 1, 1>>}
MCSymmetry == Permutations(Threads) \cup Permutations(Endpoints)

==============================================================================
