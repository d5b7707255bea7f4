---------------------------- MODULE MCNeighbours ----------------------------
(* The instance of Neighbours for TLC: three servers, of which any may be    *)
(* alive; this one is the second in the order and may itself be listed.      *)
EXTENDS Neighbours
=============================================================================
