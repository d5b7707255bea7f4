---------------------------- MODULE ReportBudget ----------------------------
(* What SwimServer::PrepareReport puts in a report: the records of a table,  *)
(* newest Lamport time first, until their accumulated cost exceeds a budget. *)
(* The cost of a record grows with the square of its age.                    *)
(*                                                                           *)
(* The code computes 0.01 * t * t against 300.0 in doubles; here both sides  *)
(* are multiplied by 100.  The two agree except, possibly, on a sum of       *)
(* exactly 30000, where the code's sum of doubles may round either way.      *)
EXTENDS Integers, FiniteSets, FiniteSetsExt, Functions

CONSTANT TickMsec     \* milliseconds of utils::CurrentTime() in a clock tick

ASSUME TickAssumption == TickMsec \in Nat \ {0}

\* A table entry as it travels in a report: the server it is about, the time
\* and the Lamport time stamped on it, and the server's incarnation.
ReportRecord(servers) == [ts: Nat, lt: Nat, inc: Nat, server: servers]

kTimeDecayBudget == 30000

cost(t) == t * t

\* The unsigned difference of two times is read back as a signed duration, so a
\* record stamped in the future counts by its distance from now.
AgeSeconds(r, now) ==
  LET dt == IF now >= r.ts THEN now - r.ts ELSE r.ts - now
  IN  (dt * TickMsec) \div 1000

\* std::sort is not stable: the orders it may leave the records in are all
\* those that do not increase in Lamport time.
NewestFirst(records) ==
  LET positions == 1 .. Cardinality(records)
  IN  { order \in Bijection(positions, records) :
          \A i, j \in positions : i < j => order[i].lt >= order[j].lt }

\* The running cost after the first n records.
RunningCost(order, now) ==
  LET running[n \in 0 .. Cardinality(DOMAIN order)] ==
        IF n = 0 THEN 0
                 ELSE running[n - 1] + cost(AgeSeconds(order[n], now))
  IN  running

\* The number of records the loop adds before it breaks.
Affordable(order, now) ==
  LET running == RunningCost(order, now)
  IN  Max({ n \in DOMAIN running : running[n] <= kTimeDecayBudget })

MutantTakesOneMore(records, now) ==
  { { order[i] : i \in { j \in DOMAIN order : j <= Affordable(order, now) + 1 } } :
      order \in NewestFirst(records) }

\* The sets of records AddRecordsToBudget may add to a report.
AddRecordsToBudget(records, now) ==
  { { order[i] : i \in { j \in DOMAIN order : j <= Affordable(order, now) } } :
      order \in NewestFirst(records) }
=============================================================================
