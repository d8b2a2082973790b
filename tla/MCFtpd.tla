------------------------------- MODULE MCFtpd -------------------------------
(* Small instances of Ftpd for TLC.                                           *)
EXTENDS Ftpd

MCWalks == {<<"/", "d", "..", "d">>, <<"..">>, <<"..", "..", "d">>, <<".", "d", "..">>}

==============================================================================
