------------------------ MODULE SwimServerRefinement ------------------------
(* SwimServer implements Membership as long as its calls do not overlap.     *)
EXTENDS SwimServer

\* Some thread is inside a call about s, at one of these labels.
Within(labels, s) == \E t \in Threads : pc[t] \in labels /\ call[t].srv = s

\* A server changes status when the first of the two tables is changed: from
\* there to the insertion into the other one it is in neither.
StatusOf(s) ==
  CASE Within({"stamp_alive", "insert_alive"}, s) -> "alive"
    [] ~Within({"stamp_alive", "insert_alive"}, s)
         /\ Within({"insert_suspect"}, s) -> "suspect"
    [] OTHER -> IF alive[s] # Absent THEN "alive"
                ELSE IF suspected[s] # Absent THEN "suspect" ELSE "unknown"

AnnouncedOf(s) ==
  IF told[s].status = "removed" THEN "unknown" ELSE told[s].status

Abstract ==
  INSTANCE Membership WITH
    Members <- Servers \ PortZero,
    status <- [s \in Servers |-> StatusOf(s)],
    announced <- [s \in Servers |-> AnnouncedOf(s)]

\* The tables and callbacks of a server whose calls do not overlap behave as
\* Membership says: no alive server is dropped, no server suspects itself, and
\* every change is announced before the next one.
ImplementsMembership == Abstract!Spec
=============================================================================
