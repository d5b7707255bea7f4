----------------------------- MODULE MCCluster -----------------------------
(* The instance of Cluster for TLC: every node goes by its Hostname().       *)
EXTENDS Cluster

MCHost(name) == name
MCSelf(n) == n
MCQuarrels == {<<"a", "c", "b">>}

\* Whoever is suspected wrongly, by a timeout or in a quarrel, is recorded as alive again
\* by the one who had it pinged: OnForwardRequest has the suspect told, and OnReport has
\* it ping the one who suspects it, each of which may meet busy loops.  Nothing tells the
\* three nodes apart but the quarrel of a and b, so the pairs of a and b stand for all.
Refutes == Rehabilitates("a", "b") /\ Rehabilitates("b", "a")
=============================================================================
