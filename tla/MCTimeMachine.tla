---------------------------- MODULE MCTimeMachine ----------------------------
(* Small instances of TimeMachine for TLC.                                    *)
EXTENDS TimeMachine

MCOriginal == <<"o1", "o2">>

==============================================================================
