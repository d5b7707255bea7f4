--------------------------- MODULE ReportSelection ---------------------------
(* What a report should hold of a table, said without sorting or looping, to *)
(* compare AddRecordsToBudget with.                                          *)
EXTENDS ReportBudget

VARIABLES records, now

TotalCost(chosen) == MapThenSumSet(LAMBDA r : cost(AgeSeconds(r, now)), chosen)

\* Nothing left out was stamped after something that is in.
PrefersNewest(chosen) ==
  \A r \in chosen, q \in records \ chosen : r.lt >= q.lt

\* Some record may come next, in Lamport order, and does not fit.
Full(chosen) ==
  \E r \in records \ chosen :
    /\ \A q \in records \ chosen : r.lt >= q.lt
    /\ TotalCost(chosen \cup {r}) > kTimeDecayBudget

\* The selections AddRecordsToBudget can make are exactly the sets that fit the
\* budget, prefer the newest Lamport times and leave a record out only when the
\* next one does not fit.
SelectsNewestAffordable ==
  AddRecordsToBudget(records, now) =
    { chosen \in SUBSET records :
        /\ TotalCost(chosen) <= kTimeDecayBudget
        /\ PrefersNewest(chosen)
        /\ chosen = records \/ Full(chosen) }

\* No record that AddRecordsToBudget leaves out is more recent, by its timestamp, than
\* one it puts in: the order SwimServer.hpp:94-96 describes, where records are "sorted
\* according to their timestamp and added from the most recent backwards".
SelectsMostRecent ==
  \A chosen \in AddRecordsToBudget(records, now) :
    \A r \in chosen, q \in records \ chosen : r.ts >= q.ts
=============================================================================
