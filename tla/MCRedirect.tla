----------------------------- MODULE MCRedirect -----------------------------
(* A small instance of the redirection for TLC.                                *)
EXTENDS RedirectMode

==============================================================================
