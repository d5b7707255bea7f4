---------------------------- MODULE MCLifecycle ----------------------------
(* The instance of Lifecycle for TLC.                                        *)
EXTENDS Lifecycle
=============================================================================
