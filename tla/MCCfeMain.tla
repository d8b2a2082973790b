----------------------------- MODULE MCCfeMain -----------------------------
(* Small instances of CfeMain, with its browser, and of Conf for TLC.  Of two *)
(* directories on the second level one has a path that is too long for        *)
(* now_path; the folders are of the size of the buffer less one, of its size, *)
(* of the longest line, and one that is cut so that the rest of its line      *)
(* looks like a line of its own.                                              *)
EXTENDS CfeMain, Conf, TLC

MCTree ==
    (<<>> :> <<"albums", "p", "d">>) @@ (<<"albums">> :> <<"x">>) @@ (<<"albums", "x">> :> <<"p">>)
    @@ (<<"d">> :> <<"x">>) @@ (<<"d", "x">> :> <<>>)
MCNameLength == ("albums" :> 6) @@ ("x" :> 9) @@ ("p" :> 2) @@ ("d" :> 2)

MCFolders ==
    {<<".", "#">>, <<".", "=", " ">>, <<".", ";", "=", "w", " ">>,
     <<".", "w", "w", "w", "w", "w", " ", "c", " ", "w">>}

(* The two models share no variable: a behaviour moves one of them.           *)
MCNext ==
    \/ Next /\ ConfInit /\ UNCHANGED confVars
    \/ ConfNext /\ Init /\ UNCHANGED vars
MCInit == Init /\ ConfInit
MCSpec == MCInit /\ [][MCNext]_<<vars, confVars>> /\ Fairness

==============================================================================
