------------------------------ MODULE Cluster ------------------------------
(* Several detectors that gossip: the request/reply exchange of SwimClient   *)
(* with the loop of another SwimServer, the reports, the requests to ping a  *)
(* suspect on one's behalf, and the suspect's answer to the one who suspects *)
(* it.  Requests are lost, delayed and overtaken; nodes crash and restart.   *)
(*                                                                           *)
(* A call of AddAlive or ReportSuspected is one step here: SwimServer takes  *)
(* it apart.  Lamport times are left out: a record that contradicts a table  *)
(* may or may not be stale.                                                  *)
EXTENDS Naturals, FiniteSets

CONSTANTS
  Nodes,
  Names,          \* what servers are called in messages and tables
  Host(_),        \* the node that listens there
  Self(_),        \* what self() returns: by Hostname(), not by host_name_
  Forwarders,     \* the detached threads a node may have at a time
  NumForwards,    \* num_forwards_
  Quarrels,       \* who may suspect each other at first, and whom they ask
  MaxRounds,      \* bound: the rounds the background threads begin
  MaxFaults,      \* bound: crashes, losses and answers that come too late
  None

\* A node is called by its host_name_, and that is how its clients sign.
ASSUME NamesAssumption ==
  /\ Nodes \subseteq Names /\ None \notin Names
  /\ \A n \in Nodes : Host(n) = n /\ Self(n) \in Names /\ Host(Self(n)) = n
  /\ "gossip" \notin Forwarders /\ "loop" \notin Forwarders
  /\ Quarrels \subseteq {q \in Nodes \X Nodes \X Nodes : q[1] # q[3] /\ q[2] \notin {q[1], q[3]}}
  /\ NumForwards \in Nat /\ MaxRounds \in Nat /\ MaxFaults \in Nat

VARIABLES
  up,             \* the running nodes
  table,          \* what each node takes each server to be
  inbox,          \* the requests on their way to a node or waiting for its loop
  call,           \* the SwimClient of each thread of each node
  serving,        \* the report during whose handling a loop pings back
  rounds,         \* rounds that may still begin
  faults          \* faults that may still happen

vars == <<up, table, inbox, call, serving, rounds, faults>>

\* The two suspicions differ in the timestamp: CurrentTime() counts milliseconds,
\* the record of a forwarded request seconds.
Suspicions == {"suspect", "suspect_s"}
Status == {"unknown", "alive"} \cup Suspicions

Threads == {"gossip", "loop"} \cup Forwarders

Report == [sender: Names, alive: SUBSET Names, suspect: SUBSET Names, suspect_s: SUBSET Names]

NoReport(n) == [sender |-> n, alive |-> {}, suspect |-> {}, suspect_s |-> {}]

\* A request: who waits for the answer, if anybody still does, and the envelope.
Request ==
  [from: Nodes, thread: Threads, awaited: BOOLEAN,
   type: {"update", "report", "request"},
   about: Names \cup {None}, report: Report]

ASSUME NoneAssumption == None \notin Request

\* A client's call: what for, to whom, the answer, and what its thread does next:
\* the neighbours to send the report to, or to ask to ping `about'.
Call ==
  [goal: {"idle", "prepared", "report", "suspected", "probe", "add", "ask", "forward",
          "ping_back"},
   to: Names \cup {None}, answer: {"none", "OK", "failed"}, handled: BOOLEAN,
   about: Names \cup {None}, left: SUBSET Names, ask: SUBSET Names, report: Report]

NoCall(n) == [goal |-> "idle", to |-> None, answer |-> "none", handled |-> FALSE,
              about |-> None, left |-> {}, ask |-> {}, report |-> NoReport(n)]

NotServing == [request |-> None, later |-> {}]

Quiet ==
  /\ up = Nodes
  /\ table = [n \in Nodes |->
                [m \in Names |-> IF m \in Nodes \ {n} THEN "alive" ELSE "unknown"]]
  /\ inbox = [n \in Nodes |-> {}]
  /\ call = [n \in Nodes |-> [t \in Threads |-> NoCall(n)]]
  /\ serving = [n \in Nodes |-> NotServing]
  /\ faults = MaxFaults

\* n suspects m, has asked for it to be pinged and no longer waits for the answer.
Asks(n, m) ==
  [from |-> n, thread |-> "gossip", awaited |-> FALSE, type |-> "request",
   about |-> m, report |-> NoReport(n)]

\* A state the cluster comes to by two timeouts: two nodes suspect each other.
Quarrel(n, k, m) ==
  /\ up = Nodes
  /\ table = [i \in Nodes |->
                [j \in Names |-> IF <<i, j>> \in {<<n, m>>, <<m, n>>} THEN "suspect"
                                 ELSE IF j \in Nodes \ {i} THEN "alive" ELSE "unknown"]]
  /\ inbox = [i \in Nodes |-> IF i = k THEN {Asks(n, m), Asks(m, n)} ELSE {}]
  /\ call = [i \in Nodes |-> [t \in Threads |-> NoCall(i)]]
  /\ serving = [i \in Nodes |-> NotServing]
  /\ faults = 0

\* The nodes know each other.
Init ==
  \/ Quiet /\ rounds = MaxRounds
  \/ (\E q \in Quarrels : Quarrel(q[1], q[2], q[3])) /\ rounds = 0

-----------------------------------------------------------------------------
(* The tables.                                                               *)

AddAlive(tbl, m) == [tbl EXCEPT ![m] = "alive"]

\* A suspicion is not replaced, and "myself is always alive".
ReportSuspected(n, tbl, m, kind) ==
  [tbl EXCEPT ![m] = IF m = Self(n) THEN "alive" ELSE IF @ \in Suspicions THEN @ ELSE kind]

Listed(n, status) == {m \in Names : table[n][m] = status}

\* The whole table: the cut to the budget is left to ReportBudget.
PrepareReport(n) ==
  [sender |-> Self(n), alive |-> Listed(n, "alive"),
   suspect |-> Listed(n, "suspect"), suspect_s |-> Listed(n, "suspect_s")]

SetTable(n, tbl) == table' = [table EXCEPT ![n] = tbl]

-----------------------------------------------------------------------------
(* SwimClient: postMessage connects a new socket, sends and waits.           *)

Waits(n, t) == call[n][t].goal \notin {"idle", "prepared"} /\ call[n][t].answer = "none"
Idle(n, t) == n \in up /\ call[n][t].goal = "idle"

SetCall(n, t, c) == call' = [call EXCEPT ![n][t] = c]

\* What is sent to a node that is down goes nowhere.
Put(boxes, to, r) ==
  IF Host(to) \in up THEN [boxes EXCEPT ![Host(to)] = @ \cup {r}] ELSE boxes

Type(goal) ==
  CASE goal \in {"report", "forward"} -> "report"
    [] goal = "ask" -> "request"
    [] OTHER -> "update"                     \* Ping()

Message(n, t, c) ==
  [from |-> n, thread |-> t, awaited |-> TRUE, type |-> Type(c.goal),
   about |-> IF c.goal = "ask" THEN c.about ELSE None,
   report |-> IF Type(c.goal) = "report" THEN c.report ELSE NoReport(n)]

\* c describes the call; its answer is now awaited.
postMessage(n, t, c) ==
  /\ SetCall(n, t, [c EXCEPT !.answer = "none", !.handled = FALSE])
  /\ inbox' = Put(inbox, c.to, Message(n, t, c))

Ends(n, t) == SetCall(n, t, NoCall(n)) /\ UNCHANGED inbox

\* Is r the request whose answer thread t of n waits for?
Awaits(r, n, t) == r # None /\ r.from = n /\ r.thread = t /\ r.awaited

MutantStillAwaited(r) == r

\* The socket is closed with the call, so that a late answer finds nobody.
Unawaited(r) == [r EXCEPT !.awaited = FALSE]

\* The inboxes and the requests in service after threads ts of n have closed
\* their sockets.
Inboxes(n, ts) ==
  [m \in Nodes |-> {IF \E t \in ts : Awaits(r, n, t) THEN Unawaited(r) ELSE r : r \in inbox[m]}]

InService(n, ts) ==
  [m \in Nodes |-> IF \E t \in ts : Awaits(serving[m].request, n, t)
                   THEN [serving[m] EXCEPT !.request = Unawaited(@)] ELSE serving[m]]

MutantOnlyIfDown(n, t) == Waits(n, t) /\ Host(call[n][t].to) \notin up

\* No answer will come in time: the other node is down or has lost the request,
\* or its loop is itself waiting for an answer.
Overdue(n, t) ==
  LET m == Host(call[n][t].to) IN
  /\ Waits(n, t)
  /\ m \notin up \/ serving[m].request # None \/ ~\E r \in inbox[m] : Awaits(r, n, t)

CallFails(n, t) ==
  /\ SetCall(n, t, [call[n][t] EXCEPT !.answer = "failed"])
  /\ serving' = InService(n, {t})
  /\ UNCHANGED <<up, table, rounds>>

TimesOut(n, t) ==
  /\ n \in up /\ Overdue(n, t)
  /\ CallFails(n, t)
  /\ inbox' = Inboxes(n, {t})
  /\ UNCHANGED faults

\* The answer is lost or takes too long, or the request is: one that has not been
\* sent yet is dropped, or goes out with what has become of the caller's buffer
\* and is not understood.
TimesOutEarly(n, t) ==
  /\ n \in up /\ faults > 0 /\ ~Overdue(n, t)
  /\ Waits(n, t) \/ call[n][t].answer = "OK"
  /\ CallFails(n, t)
  /\ \/ inbox' = Inboxes(n, {t})
     \/ inbox' = [m \in Nodes |-> {r \in inbox[m] : ~Awaits(r, n, t)}]
  /\ faults' = faults - 1

-----------------------------------------------------------------------------
(* The background threads of GossipFailureDetector, and AddNeighbor.         *)

NewCall(n, goal, to) == [NoCall(n) EXCEPT !.goal = goal, !.to = to]

\* SendReport prepares one report ...
SendReport(n) ==
  /\ Listed(n, "alive") # {}
  /\ SetCall(n, "gossip", [NewCall(n, "prepared", None) EXCEPT !.report = PrepareReport(n)])
  /\ UNCHANGED inbox

\* Any suspect; without one, empty_set ends the round.
GetRandomSuspect(n) == {m \in Names : table[n][m] \in Suspicions}

PingRandomSuspected(n) ==
  \E m \in GetRandomSuspect(n) : postMessage(n, "gossip", NewCall(n, "probe", m))

\* The caller may name any server, also this one.
AddNeighbor(n) ==
  \E m \in Nodes : postMessage(n, "gossip", NewCall(n, "add", m))

Round(n) ==
  /\ Idle(n, "gossip") /\ rounds > 0
  /\ SendReport(n) \/ PingRandomSuspected(n) \/ AddNeighbor(n)
  /\ rounds' = rounds - 1
  /\ UNCHANGED <<up, table, serving, faults>>

MutantMarksRemoved(n) ==
  /\ n \in up /\ rounds > 0
  /\ \E m \in Names : table[n][m] \in Suspicions /\ SetTable(n, [table[n] EXCEPT ![m] = "removed"])
  /\ rounds' = rounds - 1
  /\ UNCHANGED <<up, inbox, call, serving, faults>>

\* The grace period of a suspect is over.
GarbageCollectSuspected(n) ==
  /\ n \in up /\ rounds > 0
  /\ \E m \in Names : table[n][m] \in Suspicions /\ SetTable(n, [table[n] EXCEPT ![m] = "unknown"])
  /\ rounds' = rounds - 1
  /\ UNCHANGED <<up, inbox, call, serving, faults>>

\* GetUniqueNeighbors leaves this node out.
GetUniqueNeighbors(n) == SUBSET (Listed(n, "alive") \ {Self(n)})

\* The next call of a round: a request to ping c.about, or the report.
NextCall(n, c) ==
  IF c.ask # {}
  THEN \E m \in c.ask :
         postMessage(n, "gossip", [c EXCEPT !.goal = "ask", !.to = m, !.ask = @ \ {m}])
  ELSE IF c.left # {}
  THEN \E m \in c.left :
         postMessage(n, "gossip", [c EXCEPT !.goal = "report", !.to = m, !.left = @ \ {m},
                                            !.about = None])
  ELSE Ends(n, "gossip")

\* ... and then chooses the neighbours it goes to: FULL by GetUniqueNeighbors, SINGLE
\* by GetRandomNeighbor, which may return this node.
ChooseNeighbours(n) ==
  LET c == call[n]["gossip"] IN
  /\ n \in up /\ c.goal = "prepared"
  /\ \E others \in GetUniqueNeighbors(n) \cup {{m} : m \in Listed(n, "alive")} :
       NextCall(n, [c EXCEPT !.left = others])
  /\ UNCHANGED <<up, table, serving, rounds, faults>>

Returned(n, t, goals) == n \in up /\ call[n][t].goal \in goals /\ call[n][t].answer # "none"

\* A neighbour that did not take the report is suspected, and then ...
Contacted(n) ==
  LET c == call[n]["gossip"] IN
  /\ Returned(n, "gossip", {"report", "probe", "add"})
  /\ IF c.answer = "OK"
     THEN SetTable(n, AddAlive(table[n], c.to)) /\ NextCall(n, c)
     ELSE LET tbl == ReportSuspected(n, table[n], c.to, "suspect") IN
          CASE c.goal = "report" ->
                 /\ SetTable(n, tbl)
                 /\ SetCall(n, "gossip", [c EXCEPT !.goal = "suspected", !.about = c.to])
                 /\ UNCHANGED inbox
            [] c.goal = "add" -> SetTable(n, tbl) /\ Ends(n, "gossip")
            [] c.goal = "probe" -> UNCHANGED table /\ Ends(n, "gossip")
  /\ UNCHANGED <<up, serving, rounds, faults>>

\* ... num_forwards_ others are chosen to ping it, by the table as it is by now.
ChooseForwards(n) ==
  /\ Returned(n, "gossip", {"suspected"})
  /\ \E ask \in GetUniqueNeighbors(n) :
       /\ Cardinality(ask) <= NumForwards
       /\ NextCall(n, [call[n]["gossip"] EXCEPT !.ask = ask])
  /\ UNCHANGED <<up, table, serving, rounds, faults>>

\* The outcome of RequestPing is ignored.
Asked(n) ==
  /\ Returned(n, "gossip", {"ask"})
  /\ NextCall(n, call[n]["gossip"])
  /\ UNCHANGED <<up, table, serving, rounds, faults>>

-----------------------------------------------------------------------------
(* The loop of SwimServer.                                                   *)

MutantNoReply(calls, r, n) == calls

\* r is answered.
Reply(calls, r, n) ==
  LET c == calls[r.from][r.thread] IN
  IF r.awaited
  THEN [calls EXCEPT ![r.from][r.thread] =
          [c EXCEPT !.answer = "OK", !.handled = Host(c.to) = n /\ Type(c.goal) = r.type]]
  ELSE calls

Take(n, r) == r \in inbox[n] /\ n \in up /\ serving[n].request = None

OnUpdate(n, r) ==
  /\ Take(n, r) /\ r.type = "update"
  /\ SetTable(n, AddAlive(table[n], r.from))
  /\ inbox' = [inbox EXCEPT ![n] = @ \ {r}]
  /\ call' = Reply(call, r, n)
  /\ UNCHANGED <<up, serving, rounds, faults>>

MutantReportsBack(r) == r.from

\* The client of the detached thread calls the suspect.
ForwardTo(r) == r.about

\* A detached thread sends the destination a report of the sender's suspicion.
OnForwardRequest(n, r) ==
  LET f == CHOOSE f \in Forwarders : call[n][f].goal = "idle"
      c == [NewCall(n, "forward", ForwardTo(r)) EXCEPT
              !.report = [NoReport(r.from) EXCEPT !.suspect_s = {r.about}]]
  IN
  /\ Take(n, r) /\ r.type = "request"
  /\ \E g \in Forwarders : call[n][g].goal = "idle"
  /\ SetTable(n, AddAlive(table[n], r.from))
  /\ call' = Reply([call EXCEPT ![n][f] = c], r, n)
  /\ inbox' = Put([inbox EXCEPT ![n] = @ \ {r}], c.to, Message(n, f, c))
  /\ UNCHANGED <<up, serving, rounds, faults>>

Forwarded(n, f) ==
  /\ Returned(n, f, {"forward"})
  /\ SetTable(n, IF call[n][f].answer = "OK" THEN table[n]
                 ELSE ReportSuspected(n, table[n], call[n][f].to, "suspect"))
  /\ Ends(n, f)
  /\ UNCHANGED <<up, serving, rounds, faults>>

MutantSelfIsNews(n) == None

\* The name by which a node recognises itself in a report.
Myself(n) == Self(n)

\* The table after the records of a report about the servers `of': the alive ones
\* first.
Hear(n, tbl, report, of) ==
  LET kind(m) == IF m \in report.suspect THEN "suspect" ELSE "suspect_s"
      told == [m \in Names |-> IF m \in report.alive \cap of THEN "alive" ELSE tbl[m]]
  IN [m \in Names |-> IF m \in (report.suspect \cup report.suspect_s) \cap of
                      THEN ReportSuspected(n, told, m, kind(m))[m] ELSE told[m]]

\* A record is stale only if the other table has the server.
Stale(tbl, report, stale) ==
  \A m \in stale : \/ m \in report.alive /\ tbl[m] \in Suspicions
                   \/ m \in report.suspect \cup report.suspect_s /\ tbl[m] = "alive"

\* The records about the servers `of' are heard, but for those that are stale.
Hears(n, tbl, report, of) ==
  \E stale \in SUBSET of :
    Stale(tbl, report, stale) /\ SetTable(n, Hear(n, tbl, report, of \ stale))

MutantPingsForwarder(r) == r.from

\* Who is told that this node is alive: the one who suspects it.
PingBackTo(r) == r.report.sender

\* If the report says this node is suspected, the loop stops at that record, with
\* some of the others still to be heard, and pings the report's sender.
OnReport(n, r) ==
  LET tbl == AddAlive(table[n], r.from)
      suspects == r.report.suspect \cup r.report.suspect_s
      news == (r.report.alive \cup suspects) \ {Myself(n)}
  IN
  /\ Take(n, r) /\ r.type = "report"
  /\ \/ /\ Myself(n) \notin suspects
        /\ Hears(n, tbl, r.report, news)
        /\ call' = Reply(call, r, n)
        /\ inbox' = [inbox EXCEPT ![n] = @ \ {r}]
        /\ UNCHANGED serving
     \/ /\ Myself(n) \in suspects
        /\ \E later \in SUBSET (suspects \cap news) :
             /\ Hears(n, tbl, r.report, news \ later)
             /\ serving' = [serving EXCEPT ![n] = [request |-> r, later |-> later]]
        /\ LET c == NewCall(n, "ping_back", PingBackTo(r)) IN
           /\ SetCall(n, "loop", c)
           /\ inbox' = Put([inbox EXCEPT ![n] = @ \ {r}], c.to, Message(n, "loop", c))
  /\ UNCHANGED <<up, rounds, faults>>

\* Whatever came of the ping, the loop goes on, with the tables as they are by now.
PingedBack(n) ==
  LET r == serving[n].request IN
  /\ Returned(n, "loop", {"ping_back"})
  /\ Hears(n, table[n], r.report, serving[n].later)
  /\ call' = Reply([call EXCEPT ![n]["loop"] = NoCall(n)], r, n)
  /\ serving' = [serving EXCEPT ![n] = NotServing]
  /\ UNCHANGED <<up, inbox, rounds, faults>>

-----------------------------------------------------------------------------
(* Crashes.  Nothing is kept: a node that restarts knows nobody.             *)

Crash(n) ==
  /\ n \in up /\ faults > 0
  /\ up' = up \ {n}
  /\ table' = [table EXCEPT ![n] = [m \in Names |-> "unknown"]]
  /\ inbox' = [Inboxes(n, Threads) EXCEPT ![n] = {}]
  /\ call' = [call EXCEPT ![n] = [t \in Threads |-> NoCall(n)]]
  /\ serving' = [InService(n, Threads) EXCEPT ![n] = NotServing]
  /\ faults' = faults - 1
  /\ UNCHANGED rounds

Restart(n) ==
  /\ n \notin up
  /\ up' = up \cup {n}
  /\ UNCHANGED <<table, inbox, call, serving, rounds, faults>>

-----------------------------------------------------------------------------
LoopStep(n) ==
  PingedBack(n) \/ \E r \in inbox[n] : OnUpdate(n, r) \/ OnReport(n, r) \/ OnForwardRequest(n, r)

ClientStep(n) ==
  \/ ChooseNeighbours(n) \/ Contacted(n) \/ ChooseForwards(n) \/ Asked(n)
  \/ \E f \in Forwarders : Forwarded(n, f)
  \/ \E t \in Threads : TimesOut(n, t)

Next ==
  \E n \in Nodes : \/ Round(n) \/ GarbageCollectSuspected(n) \/ Crash(n) \/ Restart(n)
                   \/ LoopStep(n) \/ ClientStep(n)
                   \/ \E t \in Threads : TimesOutEarly(n, t)

\* The loops and the clients go on; nothing is assumed of when rounds begin.
Spec == Init /\ [][Next]_vars /\ WF_vars(\E n \in Nodes : LoopStep(n) \/ ClientStep(n))

-----------------------------------------------------------------------------
(* Properties.                                                               *)

\* The tables, the requests and the clients.
TypeOK ==
  /\ up \subseteq Nodes /\ table \in [Nodes -> [Names -> Status]]
  /\ inbox \in [Nodes -> SUBSET Request]
  /\ call \in [Nodes -> [Threads -> Call]]
  /\ serving \in [Nodes -> [request: Request \cup {None}, later: SUBSET Names]]
  /\ rounds \in 0..MaxRounds /\ faults \in 0..MaxFaults

\* The nodes whose host_name_ is their Hostname().
WellNamed == {n \in Nodes : Self(n) = n}

\* Its loop takes a request that n itself has sent, or one of its calls to itself ends.
HeardItself(n) ==
  \/ \E r \in inbox[n] \ inbox'[n] : r.from = n
  \/ \E t \in Threads : /\ call[n][t].to = n /\ call[n][t].answer # "none"
                        /\ call'[n][t] # call[n][t]

\* What a well-named node's tables say of itself changes only when it calls itself
\* (AddNeighbor, a SINGLE report, a request to ping itself on another's behalf), and
\* then to alive, or when it crashes: however its name travels in the reports, the
\* forwarded requests and the answers of the others, with whatever suspicions, it
\* neither lists nor suspects nor evicts itself on their account.
OnlyItselfListsItself ==
  [][\A n \in WellNamed :
       table'[n][n] # table[n][n] =>
         n \notin up' \/ (table'[n][n] = "alive" /\ HeardItself(n))]_vars

\* A table's timestamps are compared with one another and with CurrentTime(), which
\* counts milliseconds; that of a forwarded record counts seconds, the unit swim.proto
\* gives the field, and would make the suspect ripe for eviction at once.  No table
\* mixes the two, for the only node a forwarded record reaches is the one it is about,
\* which does not take it.
UnitsNeverMix == \A n \in Nodes, m \in WellNamed : table[n][m] # "suspect_s"

\* While nothing has crashed, got lost or come late, nobody is suspected: waiting
\* for one another's answers the nodes do not bring about a timeout.
NoFaultNoSuspicion ==
  faults = MaxFaults => \A n \in Nodes, m \in Names : table[n][m] \notin Suspicions

\* A client that is told "OK" was told so by the node it called, which has handled
\* the very request: the answer to an earlier call of its thread is not taken for
\* the answer to this one.
AckMeansHandled ==
  \A n \in Nodes, t \in Threads : call[n][t].answer = "OK" => call[n][t].handled

\* Every call returns, also those of two loops that ping each other back.
CallsEnd == <>[](\A n \in Nodes, t \in Threads : ~Waits(n, t))

\* A running node m that is suspected wrongly is rehabilitated: once a third node has
\* n's request to ping it, and nothing fails any more, n records it as alive.
Rehabilitates(n, m) ==
  ( /\ faults = 0
    /\ \E k \in Nodes : \E r \in inbox[k] :
         {n, k, m} \subseteq up /\ r.type = "request" /\ r.from = n /\ r.about = m )
    ~> (table[n][m] = "alive")
=============================================================================
