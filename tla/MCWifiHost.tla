----------------------------- MODULE MCWifiHost -----------------------------
(* Small instances of WifiHost for TLC.                                       *)
EXTENDS WifiHost

(* Bound: nothing is said of what follows a meeting.                          *)
NotMet == ~met

MCSymmetry == Permutations(Clients)

==============================================================================
