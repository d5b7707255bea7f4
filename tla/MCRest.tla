------------------------------- MODULE MCRest -------------------------------
(* The instance of Rest for TLC.                                             *)
EXTENDS Rest
=============================================================================
