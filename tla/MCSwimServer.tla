---------------------------- MODULE MCSwimServer ----------------------------
(* Instances of SwimServer for TLC.                                          *)
EXTENDS SwimServerRefinement

CONSTANTS self, a, b, client

News(s, ts, lt, inc) == [ts |-> ts, lt |-> lt, inc |-> inc, server |-> s]

Message(type, sender, lt, al, su) ==
  [lt |-> lt, type |-> type, sender |-> sender, alive |-> al,
   suspected |-> su, destination |-> a]

\* Pings from a server and from a client that runs none, a request to contact
\* a, and reports about a and about this server, older and newer ones.
MCContent(m) ==
  CASE m = "ping"        -> Message("update", a, 0, {}, {})
    [] m = "client_ping" -> Message("update", client, 0, {}, {})
    [] m = "forward"     -> Message("request", b, 0, {}, {})
    [] m = "a_alive"     ->
         Message("report", b, 0, {News(a, 0, 0, 1), News(self, 0, 0, 0)}, {})
    [] m = "a_suspected" ->
         Message("report", b, 1, {}, {News(a, 0, 1, 1), News(self, 0, 0, 0)})
    [] m = "a_both"      ->
         Message("report", b, 1, {News(a, 0, 1, 0)}, {News(a, 0, 0, 0)})

-----------------------------------------------------------------------------
(* What a report would hold of each table, were it prepared now.             *)

OfAlive == INSTANCE ReportSelection WITH records <- Records(alive)

OfSuspected == INSTANCE ReportSelection WITH records <- Records(suspected)

\* Whatever pings, reports and failures filled the tables, and however their records
\* have aged: AddRecordsToBudget's unstable sort and its loop, which adds before it has
\* looked at the rest, can select from either table exactly the sets that fit the
\* budget, prefer the newest Lamport times and leave a record out only when the next
\* one does not fit.
ReportsNewestAffordable ==
  OfAlive!SelectsNewestAffordable /\ OfSuspected!SelectsNewestAffordable

\* SwimServer.hpp:94-96 describes another order: records are "sorted according to
\* their timestamp and added from the most recent backwards", so that a report leaves
\* out no server of alive_ or suspected_ that was heard of more recently than one it
\* holds.  The code sorts by Lamport time, and AddAlive gives a record that OnReport
\* has just been told of this server's Lamport time and the teller's old timestamp.
ReportsMostRecent ==
  OfAlive!SelectsMostRecent /\ OfSuspected!SelectsMostRecent
=============================================================================
