------------------------------ MODULE MCMusic ------------------------------
(* Small instances of Music, a playlist with songs of three kinds, and of     *)
(* TimeMachine for TLC.                                                       *)
EXTENDS Music, TimeMachine

MCKind == <<"mp3", "aa3", "bad">>
MCKindOf == [s \in Songs |-> MCKind[(s % 3) + 1]]

MCOriginal == <<"o1", "o2">>

(* The two models share no variable: a behaviour moves one of them, the music *)
(* with a stick that has no config.txt.                                       *)
MCNext ==
    \/ Next /\ TmInit /\ user = NoFile /\ choice = (CHOOSE f \in Firmwares : TRUE) /\ UNCHANGED tmVars
    \/ TmNext /\ Init /\ UNCHANGED vars
MCInit == Init /\ TmInit
MCSpec == MCInit /\ [][MCNext]_<<vars, tmVars>> /\ Fairness

==============================================================================
