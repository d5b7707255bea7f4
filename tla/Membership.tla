----------------------------- MODULE Membership -----------------------------
(* What SwimServer promises an application, whatever threads and critical    *)
(* sections it is made of: each server it has heard of is alive or suspected *)
(* and moves between the two; a suspected server may be evicted, an alive    *)
(* one never disappears; and the status callback reports every change, one   *)
(* by one, before the same server changes again.                             *)
CONSTANTS
  Servers,
  Members,    \* the servers that may be members: those with a port
  Self        \* never suspected

VARIABLES
  status,     \* what the server takes each server to be
  announced   \* what its callbacks last said

vars == <<status, announced>>

Statuses == {"unknown", "alive", "suspect"}

Init ==
  /\ status = [s \in Servers |-> "unknown"]
  /\ announced = [s \in Servers |-> "unknown"]

Become(s, new) ==
  /\ announced[s] = status[s]
  /\ status[s] # new
  /\ status' = [status EXCEPT ![s] = new]
  /\ UNCHANGED announced

\* A ping, a report or another server says s is alive.
Revive(s) == Become(s, "alive")

\* s did not answer, or is reported not to have answered.
Suspect(s) == s # Self /\ Become(s, "suspect")

\* The grace period of s is over.
Evict(s) == status[s] = "suspect" /\ Become(s, "unknown")

Announce(s) ==
  /\ announced[s] # status[s]
  /\ announced' = [announced EXCEPT ![s] = status[s]]
  /\ UNCHANGED status

Next == \E s \in Members : Revive(s) \/ Suspect(s) \/ Evict(s) \/ Announce(s)

Spec == Init /\ [][Next]_vars
=============================================================================
