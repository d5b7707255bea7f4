--------------------------- MODULE ClusterProofs ---------------------------
(* Proofs about Cluster: who is named in the tables and the messages, for    *)
(* any number of nodes, under any names, with any losses and crashes.        *)
EXTENDS Cluster, TLAPS

-----------------------------------------------------------------------------
(* The inductive invariant.                                                  *)

\* The table of node n, which does not suspect itself if it goes by its Hostname().
TableOK(n, tbl) ==
  /\ tbl \in [Names -> Status]
  /\ \A m \in Names : tbl[m] # "unknown" => m \in Nodes
  /\ \A m \in WellNamed : tbl[m] # "suspect_s"
  /\ n \in WellNamed => tbl[n] \notin Suspicions

\* The servers a report lists.
Lists(report) == report.alive \cup report.suspect \cup report.suspect_s

\* A report that node n sends on its own behalf.
OwnReport(n, report) ==
  /\ report \in Report /\ Lists(report) \subseteq Nodes
  /\ Host(report.sender) = n
  /\ report.suspect_s \cap WellNamed = {}

\* A report that has been sent to node n: a suspicion in seconds is about n.
ReportOK(n, report) ==
  /\ report \in Report /\ Lists(report) \subseteq Nodes
  /\ report.suspect_s \cap WellNamed \subseteq {n}

\* A request that has been sent to node n.
RequestOK(n, r) ==
  /\ r \in Request
  /\ ReportOK(n, r.report)
  /\ r.type = "request" => r.about \in Nodes

\* A call of node n.
CallOK(n, c) ==
  /\ c \in Call
  /\ c.goal \in {"report", "probe", "add", "forward"} => c.to \in Nodes
  /\ \A m \in c.left \cup c.ask : m \in Nodes
  /\ c.ask # {} \/ c.goal = "suspected" => c.about \in Nodes
  /\ c.goal # "forward" => OwnReport(n, c.report)

\* The report that node n is handling, and the records it has not come to.
ServingOK(n, s) ==
  /\ s \in [request: Request \cup {None}, later: SUBSET Names]
  /\ s.request # None => RequestOK(n, s.request)
  /\ s.later \subseteq Nodes \ {Myself(n)}

TablesOK == table \in [Nodes -> [Names -> Status]] /\ \A n \in Nodes : TableOK(n, table[n])

InboxesOK == inbox \in [Nodes -> SUBSET Request] /\ \A n \in Nodes : \A r \in inbox[n] : RequestOK(n, r)

CallsOK == call \in [Nodes -> [Threads -> Call]] /\ \A n \in Nodes, t \in Threads : CallOK(n, call[n][t])

\* A loop that pings back is handling a report.
ServingsOK ==
  /\ serving \in [Nodes -> [request: Request \cup {None}, later: SUBSET Names]]
  /\ \A n \in Nodes : /\ ServingOK(n, serving[n])
                      /\ call[n]["loop"].goal = "ping_back" => RequestOK(n, serving[n].request)

NamesInv ==
  /\ up \subseteq Nodes /\ rounds \in 0..MaxRounds /\ faults \in 0..MaxFaults
  /\ TablesOK /\ InboxesOK /\ CallsOK /\ ServingsOK

-----------------------------------------------------------------------------
(* Names.                                                                    *)

\* A node listens where it is called, and where it takes itself to be.
LEMMA NodeNames ==
  ASSUME NEW n \in Nodes
  PROVE  n \in Names /\ Host(n) = n /\ Self(n) \in Names /\ Host(Self(n)) = n /\ n # None
BY NamesAssumption

\* A node that goes by its Hostname() recognises itself by its name.
LEMMA WellNamedNodes ==
  ASSUME NEW n \in WellNamed
  PROVE  n \in Nodes /\ Self(n) = n /\ Myself(n) = n
BY DEF WellNamed, Myself

\* The name by which a node recognises itself is no other node's.
LEMMA SelfIsMine ==
  ASSUME NEW n \in Nodes, NEW m \in Nodes, m = Self(n)
  PROVE  m = n /\ n \in WellNamed
BY NodeNames DEF WellNamed
-----------------------------------------------------------------------------
(* Tables.                                                                   *)

\* AddAlive lists a node.
LEMMA AddAliveOK ==
  ASSUME NEW n \in Nodes, NEW tbl, TableOK(n, tbl), NEW m \in Nodes
  PROVE  TableOK(n, AddAlive(tbl, m))
<1>1. m \in Names
  BY NodeNames
<1>2. tbl \in [Names -> Status] /\ "alive" \in Status
  BY DEF TableOK, Status
<1>3. AddAlive(tbl, m) \in [Names -> Status]
  BY <1>1, <1>2 DEF AddAlive
<1>4. \A k \in Names : AddAlive(tbl, m)[k] = IF k = m THEN "alive" ELSE tbl[k]
  BY <1>1, <1>2 DEF AddAlive
<1>5. WellNamed \subseteq Names
  BY NodeNames DEF WellNamed
<1> QED
  BY <1>3, <1>4, <1>5 DEF TableOK, Suspicions

\* ReportSuspected with a timestamp in seconds is harmless only for a server that does
\* not go by its Hostname().
LEMMA ReportSuspectedOK ==
  ASSUME NEW n \in Nodes, NEW tbl, TableOK(n, tbl), NEW m \in Nodes,
         NEW kind \in Suspicions, kind = "suspect_s" => m \notin WellNamed
  PROVE  TableOK(n, ReportSuspected(n, tbl, m, kind))
<1> DEFINE new == IF m = Self(n) THEN "alive" ELSE IF tbl[m] \in Suspicions THEN tbl[m] ELSE kind
<1>1. m \in Names
  BY NodeNames
<1>2. tbl \in [Names -> Status]
  BY DEF TableOK
<1>3. new \in Status /\ (m \in WellNamed => new # "suspect_s")
  BY DEF Status, Suspicions, TableOK
<1>8. n \in WellNamed /\ m = n => new \notin Suspicions
  BY WellNamedNodes DEF Suspicions
<1>4. ReportSuspected(n, tbl, m, kind) = [tbl EXCEPT ![m] = new]
  BY <1>1, <1>2 DEF ReportSuspected
<1> HIDE DEF new
<1>5. ReportSuspected(n, tbl, m, kind) \in [Names -> Status]
  BY <1>1, <1>2, <1>3, <1>4
<1>6. \A k \in Names : ReportSuspected(n, tbl, m, kind)[k] = IF k = m THEN new ELSE tbl[k]
  BY <1>1, <1>2, <1>4
<1>7. WellNamed \subseteq Names
  BY NodeNames DEF WellNamed
<1> QED
  BY <1>3, <1>5, <1>6, <1>7, <1>8 DEF TableOK

\* What a report says of others, and so what is heard of it, leaves the table right.
LEMMA HearOK ==
  ASSUME NEW n \in Nodes, NEW tbl, TableOK(n, tbl), NEW report, ReportOK(n, report),
         NEW of \in SUBSET (Nodes \ {Myself(n)})
  PROVE  TableOK(n, Hear(n, tbl, report, of))
<1> DEFINE kind(m) == IF m \in report.suspect THEN "suspect" ELSE "suspect_s"
           told == [m \in Names |-> IF m \in report.alive \cap of THEN "alive" ELSE tbl[m]]
           suspects == (report.suspect \cup report.suspect_s) \cap of
           new == [m \in Names |-> IF m \in suspects THEN ReportSuspected(n, told, m, kind(m))[m]
                                   ELSE told[m]]
<1>1. new = Hear(n, tbl, report, of)
  BY DEF Hear
<1>2. (\A m \in of : m \in Nodes) /\ (n \in WellNamed => n \notin of)
  BY WellNamedNodes
<1>3. TableOK(n, told)
  <2>1. told \in [Names -> Status]
    BY DEF TableOK, Status
  <2>2. \A m \in Names : told[m] = IF m \in report.alive \cap of THEN "alive" ELSE tbl[m]
    OBVIOUS
  <2>3. WellNamed \subseteq Names
    BY NodeNames DEF WellNamed
  <2> HIDE DEF told
  <2> QED
    BY <1>2, <2>1, <2>2, <2>3 DEF TableOK
<1>4. \A m \in suspects : TableOK(n, ReportSuspected(n, told, m, kind(m)))
  <2> SUFFICES ASSUME NEW m \in suspects
               PROVE  TableOK(n, ReportSuspected(n, told, m, kind(m)))
    OBVIOUS
  <2>1. m \in Nodes /\ (n \in WellNamed => m # n)
    BY <1>2
  <2>2. kind(m) \in Suspicions
    BY DEF Suspicions
  <2>3. kind(m) = "suspect_s" => m \notin WellNamed
    <3> SUFFICES ASSUME kind(m) = "suspect_s", m \in WellNamed PROVE FALSE
      OBVIOUS
    <3>1. m \in report.suspect_s
      OBVIOUS
    <3>2. m = n
      BY <3>1 DEF ReportOK
    <3> QED
      BY <2>1, <3>2
  <2> HIDE DEF told, kind
  <2> QED
    BY <1>3, <2>1, <2>2, <2>3, ReportSuspectedOK
<1>5. \A m \in Names : new[m] = IF m \in suspects THEN ReportSuspected(n, told, m, kind(m))[m]
                                ELSE told[m]
  OBVIOUS
<1>6. suspects \subseteq Names /\ (n \in WellNamed => n \notin suspects)
  BY <1>2, NodeNames
<1> HIDE DEF told, kind, suspects
<1>7. new \in [Names -> Status]
  BY <1>3, <1>4 DEF TableOK
<1>8. WellNamed \subseteq Names
  BY NodeNames DEF WellNamed
<1> HIDE DEF new
<1>9. TableOK(n, new)
  BY <1>3, <1>4, <1>5, <1>6, <1>7, <1>8 DEF TableOK
<1> QED
  BY <1>1, <1>9

\* What a node hears says nothing of itself.
LEMMA HearSelf ==
  ASSUME NEW n \in Nodes, NEW tbl \in [Names -> Status], NEW report, NEW of, n \notin of
  PROVE  Hear(n, tbl, report, of)[n] = tbl[n]
BY NodeNames DEF Hear

\* Replacing one table.
LEMMA SetTableOK ==
  ASSUME TablesOK, NEW n \in Nodes, NEW tbl, TableOK(n, tbl), SetTable(n, tbl)
  PROVE  TablesOK'
<1>1. tbl \in [Names -> Status]
  BY DEF TableOK
<1>2. table' \in [Nodes -> [Names -> Status]]
  BY <1>1 DEF SetTable, TablesOK
<1>3. \A m \in Nodes : table'[m] = IF m = n THEN tbl ELSE table[m]
  BY DEF SetTable, TablesOK
<1>4. \A m \in Nodes : TableOK(m, table'[m])
  BY <1>3 DEF TablesOK
<1> QED
  BY <1>2, <1>4 DEF TablesOK

\* A report is heard.
LEMMA HearsOK ==
  ASSUME TablesOK, NEW n \in Nodes, NEW tbl, TableOK(n, tbl), NEW report, ReportOK(n, report),
         NEW of \in SUBSET (Nodes \ {Myself(n)}), Hears(n, tbl, report, of)
  PROVE  TablesOK'
<1>1. PICK stale \in SUBSET of : SetTable(n, Hear(n, tbl, report, of \ stale))
  BY Zenon DEF Hears
<1>2. of \ stale \in SUBSET (Nodes \ {Myself(n)})
  OBVIOUS
<1>3. TableOK(n, Hear(n, tbl, report, of \ stale))
  BY <1>2, HearOK, Zenon
<1> QED
  BY <1>1, <1>3, SetTableOK, Zenon

\* A report of one's own table is one's own.
LEMMA PrepareReportOK ==
  ASSUME NEW n \in Nodes, TablesOK
  PROVE  OwnReport(n, PrepareReport(n))
<1> DEFINE report == PrepareReport(n)
<1>1. TableOK(n, table[n])
  BY DEF TablesOK
<1>2. \A status \in Status \ {"unknown"} :
        Listed(n, status) \subseteq Nodes /\ Listed(n, status) \subseteq Names
  BY <1>1, NodeNames DEF Listed, TableOK
<1>3. Listed(n, "suspect_s") \cap WellNamed = {}
  BY <1>1 DEF Listed, TableOK
<1>4. /\ report.sender = Self(n) /\ report.alive = Listed(n, "alive")
      /\ report.suspect = Listed(n, "suspect") /\ report.suspect_s = Listed(n, "suspect_s")
  BY DEF PrepareReport
<1>5. {"alive", "suspect", "suspect_s"} \subseteq Status \ {"unknown"}
  BY DEF Status, Suspicions
<1>6. report \in Report
  BY <1>2, <1>5, NodeNames DEF PrepareReport, Report
<1> HIDE DEF report
<1>7. OwnReport(n, report)
  BY <1>2, <1>3, <1>4, <1>5, <1>6, NodeNames DEF OwnReport, Lists
<1> QED
  BY <1>7 DEF report

-----------------------------------------------------------------------------
(* Calls and messages.                                                       *)

\* An empty report.
LEMMA NoReportOK ==
  ASSUME NEW n \in Nodes
  PROVE  /\ NoReport(n) \in Report /\ NoReport(n).sender = n
         /\ Lists(NoReport(n)) = {} /\ NoReport(n).suspect_s = {}
         /\ OwnReport(n, NoReport(n))
<1>1. NoReport(n) \in Report
  BY NodeNames DEF NoReport, Report
<1>2. /\ NoReport(n).sender = n /\ NoReport(n).alive = {}
      /\ NoReport(n).suspect = {} /\ NoReport(n).suspect_s = {}
  BY DEF NoReport
<1> HIDE DEF NoReport
<1> QED
  BY <1>1, <1>2, NodeNames DEF Lists, OwnReport

\* The goals a call may have.
Goals == {"idle", "prepared", "report", "suspected", "probe", "add", "ask", "forward", "ping_back"}

\* A call for another goal or to another server, and its fields.
LEMMA NewCallOK ==
  ASSUME NEW n \in Nodes, NEW goal \in Goals, NEW to \in Names \cup {None}
  PROVE  LET c == NewCall(n, goal, to) IN
         /\ c \in Call /\ c.goal = goal /\ c.to = to /\ c.about = None
         /\ c.left = {} /\ c.ask = {} /\ c.report = NoReport(n)
<1>1. NoReport(n) \in Report
  BY NoReportOK
<1> QED
  BY <1>1, Zenon DEF NewCall, NoCall, Call, Goals

\* An idle thread's call.
LEMMA NoCallOK ==
  ASSUME NEW n \in Nodes
  PROVE  CallOK(n, NoCall(n)) /\ NoCall(n).goal = "idle"
<1> DEFINE c == NoCall(n)
<1>1. OwnReport(n, NoReport(n)) /\ NoReport(n) \in Report
  BY NoReportOK
<1>2. c \in Call /\ c.goal = "idle" /\ c.left = {} /\ c.ask = {} /\ c.report = NoReport(n)
  BY <1>1 DEF NoCall, Call
<1> HIDE DEF c
<1>3. CallOK(n, c) /\ c.goal = "idle"
  BY <1>1, <1>2 DEF CallOK
<1> QED
  BY <1>3 DEF c

\* Replacing one call.
LEMMA SetCallOK ==
  ASSUME CallsOK, NEW n \in Nodes, NEW t \in Threads, NEW c, CallOK(n, c), SetCall(n, t, c)
  PROVE  /\ CallsOK'
         /\ \A m \in Nodes, u \in Threads :
              call'[m][u] = IF m = n /\ u = t THEN c ELSE call[m][u]
<1>1. c \in Call /\ call \in [Nodes -> [Threads -> Call]]
  BY DEF CallOK, CallsOK
<1>2. call' \in [Nodes -> [Threads -> Call]]
  BY <1>1 DEF SetCall
<1>3. \A m \in Nodes, u \in Threads :
        call'[m][u] = IF m = n /\ u = t THEN c ELSE call[m][u]
  BY <1>1 DEF SetCall
<1>4. \A m \in Nodes, u \in Threads : CallOK(m, call'[m][u])
  BY <1>3 DEF CallsOK
<1> QED
  BY <1>2, <1>3, <1>4 DEF CallsOK

\* What a call needs for the message it sends to be in order.
Sendable(n, c) ==
  /\ c \in Call /\ c.to \in Names
  /\ Type(c.goal) = "report" => ReportOK(Host(c.to), c.report)
  /\ c.goal = "ask" => c.about \in Nodes

\* The message of such a call is in order where it arrives.
LEMMA MessageOK ==
  ASSUME NEW n \in Nodes, NEW t \in Threads, NEW c, Sendable(n, c), Host(c.to) \in Nodes
  PROVE  RequestOK(Host(c.to), Message(n, t, c))
<1> DEFINE r == Message(n, t, c)
           about == IF c.goal = "ask" THEN c.about ELSE None
           report == IF Type(c.goal) = "report" THEN c.report ELSE NoReport(n)
<1>1. /\ r.from = n /\ r.thread = t /\ r.awaited = TRUE /\ r.type = Type(c.goal)
      /\ r.about = about /\ r.report = report
  BY DEF Message
<1>2. Type(c.goal) \in {"update", "report", "request"} /\ (Type(c.goal) = "request" => c.goal = "ask")
  BY DEF Type
<1>3. about \in Names \cup {None}
  BY NodeNames DEF Sendable
<1>4. ReportOK(Host(c.to), report)
  <2>1. CASE Type(c.goal) = "report"
    BY <2>1 DEF Sendable
  <2>2. CASE Type(c.goal) # "report"
    BY <2>2, NoReportOK, NodeNames DEF ReportOK
  <2> QED BY <2>1, <2>2
<1>5. report \in Report
  BY <1>4 DEF ReportOK
<1>6. r \in Request
  BY <1>2, <1>3, <1>5 DEF Message, Request
<1>7. r.type = "request" => r.about \in Nodes
  <2> HIDE DEF r
  <2> QED
    BY <1>1, <1>2 DEF Sendable
<1> HIDE DEF r, report
<1>8. RequestOK(Host(c.to), r)
  BY <1>1, <1>4, <1>6, <1>7 DEF RequestOK
<1> QED
  BY <1>8 DEF r

\* Sending such a message.
LEMMA PutOK ==
  ASSUME NEW n \in Nodes, NEW t \in Threads, NEW c, Sendable(n, c), up \subseteq Nodes,
         NEW boxes \in [Nodes -> SUBSET Request],
         \A m \in Nodes : \A r \in boxes[m] : RequestOK(m, r)
  PROVE  LET new == Put(boxes, c.to, Message(n, t, c)) IN
         new \in [Nodes -> SUBSET Request] /\ \A m \in Nodes : \A r \in new[m] : RequestOK(m, r)
<1> DEFINE msg == Message(n, t, c)
           new == Put(boxes, c.to, msg)
<1>1. CASE Host(c.to) \in up
  <2>1. RequestOK(Host(c.to), msg) /\ Host(c.to) \in Nodes
    BY <1>1, MessageOK
  <2> HIDE DEF msg
  <2>2. new = [boxes EXCEPT ![Host(c.to)] = @ \cup {msg}]
    BY <1>1 DEF Put
  <2>3. msg \in Request
    BY <2>1 DEF RequestOK
  <2>4. new \in [Nodes -> SUBSET Request]
    BY <2>1, <2>2, <2>3
  <2>5. \A m \in Nodes : new[m] = IF m = Host(c.to) THEN boxes[m] \cup {msg} ELSE boxes[m]
    BY <2>1, <2>2
  <2> HIDE DEF new
  <2>6. new \in [Nodes -> SUBSET Request] /\ \A m \in Nodes : \A r \in new[m] : RequestOK(m, r)
    BY <2>1, <2>4, <2>5
  <2> QED
    BY <2>6 DEF new, msg
<1>2. CASE Host(c.to) \notin up
  BY <1>2 DEF Put
<1> QED
  BY <1>1, <1>2

\* What the steps of a thread other than the loop do to the calls.
LoopsKept == \A m \in Nodes : call'[m]["loop"] = call[m]["loop"]

\* postMessage.
LEMMA PostOK ==
  ASSUME NamesInv, NEW n \in Nodes, NEW t \in Threads, NEW c, CallOK(n, c), Sendable(n, c),
         postMessage(n, t, c)
  PROVE  CallsOK' /\ InboxesOK' /\ (t # "loop" => LoopsKept)
<1> DEFINE d == [c EXCEPT !.answer = "none", !.handled = FALSE]
<1>1. c \in Call
  BY DEF CallOK
<1>2. /\ d \in Call /\ d.goal = c.goal /\ d.to = c.to /\ d.about = c.about
      /\ d.left = c.left /\ d.ask = c.ask /\ d.report = c.report
  BY <1>1, Zenon DEF Call
<1>3. SetCall(n, t, d)
  BY DEF postMessage
<1> HIDE DEF d
<1>4. CallOK(n, d)
  BY <1>2 DEF CallOK
<1>5. CallsOK' /\ (t # "loop" => LoopsKept)
  <2>1. /\ CallsOK'
        /\ \A m \in Nodes, u \in Threads :
             call'[m][u] = IF m = n /\ u = t THEN d ELSE call[m][u]
    <3>1. CallsOK
      BY DEF NamesInv
    <3> QED
      BY <1>3, <1>4, <3>1, SetCallOK
  <2>2. "loop" \in Threads
    BY DEF Threads
  <2> QED
    BY <2>1, <2>2, Zenon DEF LoopsKept
<1>6. InboxesOK'
  <2>1. inbox' = Put(inbox, c.to, Message(n, t, c))
    BY DEF postMessage
  <2> QED
    BY <2>1, PutOK DEF NamesInv, InboxesOK
<1> QED
  BY <1>5, <1>6

\* The end of a thread's work.
LEMMA EndsOK ==
  ASSUME NamesInv, NEW n \in Nodes, NEW t \in Threads, Ends(n, t)
  PROVE  CallsOK' /\ InboxesOK' /\ (t # "loop" => LoopsKept)
<1>1. CallsOK' /\ (t # "loop" => LoopsKept)
  <2>1. CallOK(n, NoCall(n)) /\ SetCall(n, t, NoCall(n)) /\ CallsOK
    BY NoCallOK DEF Ends, NamesInv
  <2> HIDE DEF NoCall
  <2> QED
    BY <2>1, SetCallOK DEF LoopsKept, Threads
<1>2. InboxesOK'
  BY DEF Ends, NamesInv, InboxesOK
<1> QED
  BY <1>1, <1>2

\* The next call of a round is in order: the report is one's own.
LEMMA NextCallOK ==
  ASSUME NamesInv, NEW n \in Nodes, NEW c, CallOK(n, c), c.goal # "forward", NextCall(n, c)
  PROVE  CallsOK' /\ InboxesOK' /\ LoopsKept
<1>1. c \in Call /\ "gossip" \in Threads /\ "gossip" # "loop"
  BY DEF CallOK, Threads
<1>2. ASSUME c.ask # {}, NEW m \in c.ask,
             postMessage(n, "gossip", [c EXCEPT !.goal = "ask", !.to = m, !.ask = @ \ {m}])
      PROVE  CallsOK' /\ InboxesOK' /\ LoopsKept
  <2> DEFINE d == [c EXCEPT !.goal = "ask", !.to = m, !.ask = @ \ {m}]
  <2>1. m \in Nodes /\ m \in Names /\ Host(m) = m
    BY <1>2, NodeNames DEF CallOK
  <2>2. /\ d \in Call /\ d.goal = "ask" /\ d.to = m /\ d.about = c.about
        /\ d.left = c.left /\ d.ask = c.ask \ {m} /\ d.report = c.report
    BY <1>1, <2>1, Zenon DEF Call
  <2>3. postMessage(n, "gossip", d)
    BY <1>2
  <2> HIDE DEF d
  <2>4. CallOK(n, d)
    BY <2>2 DEF CallOK
  <2>5. Sendable(n, d)
    BY <1>2, <2>1, <2>2 DEF CallOK, Sendable, Type
  <2> QED
    BY <1>1, <2>3, <2>4, <2>5, PostOK
<1>3. ASSUME c.ask = {}, NEW m \in c.left,
             postMessage(n, "gossip", [c EXCEPT !.goal = "report", !.to = m, !.left = @ \ {m},
                                                !.about = None])
      PROVE  CallsOK' /\ InboxesOK' /\ LoopsKept
  <2> DEFINE d == [c EXCEPT !.goal = "report", !.to = m, !.left = @ \ {m}, !.about = None]
  <2>1. m \in Nodes /\ m \in Names /\ Host(m) = m
    BY <1>3, NodeNames DEF CallOK
  <2>2. /\ d \in Call /\ d.goal = "report" /\ d.to = m
        /\ d.left = c.left \ {m} /\ d.ask = {} /\ d.report = c.report
    BY <1>1, <1>3, <2>1, Zenon DEF Call
  <2>3. postMessage(n, "gossip", d)
    BY <1>3
  <2> HIDE DEF d
  <2>4. OwnReport(n, c.report)
    BY DEF CallOK
  <2>5. CallOK(n, d)
    BY <2>1, <2>2, <2>4 DEF CallOK
  <2>6. ReportOK(m, c.report)
    BY <2>4 DEF OwnReport, ReportOK
  <2>7. Sendable(n, d)
    BY <2>1, <2>2, <2>6 DEF Sendable
  <2> QED
    BY <1>1, <2>3, <2>5, <2>7, PostOK
<1>4. CASE c.ask = {} /\ c.left = {}
  BY <1>1, <1>4, EndsOK DEF NextCall
<1> QED
  BY <1>2, <1>3, <1>4, Zenon DEF NextCall

\* When the loops' calls and what they serve stay, so does the invariant about them.
LEMMA ServingKept ==
  ASSUME NamesInv, LoopsKept, serving' = serving
  PROVE  ServingsOK'
BY DEF NamesInv, LoopsKept, ServingsOK

-----------------------------------------------------------------------------
(* The background threads.                                                   *)

\* A node's table, calls and requests, and what the invariant says of them.
LEMMA OfNode ==
  ASSUME NamesInv, NEW n \in Nodes
  PROVE  /\ TableOK(n, table[n]) /\ ServingOK(n, serving[n])
         /\ \A t \in Threads : CallOK(n, call[n][t])
         /\ \A r \in inbox[n] : RequestOK(n, r)
         /\ "gossip" \in Threads /\ "loop" \in Threads /\ Forwarders \subseteq Threads
         /\ \A m \in Names : table[n][m] # "unknown" => m \in Nodes
BY DEF NamesInv, TablesOK, CallsOK, InboxesOK, ServingsOK, TableOK, Threads

\* A ping is in order if it goes to a node.
LEMMA PingOK ==
  ASSUME NEW n \in Nodes, NEW goal \in {"probe", "add"}, NEW m \in Nodes
  PROVE  CallOK(n, NewCall(n, goal, m)) /\ Sendable(n, NewCall(n, goal, m))
<1> DEFINE c == NewCall(n, goal, m)
<1>1. m \in Nodes /\ m \in Names /\ Host(m) = m
  BY NodeNames, Zenon
<1>2. /\ c \in Call /\ c.goal = goal /\ c.to = m /\ c.about = None
      /\ c.left = {} /\ c.ask = {} /\ c.report = NoReport(n)
  BY <1>1, NewCallOK DEF Goals
<1> HIDE DEF c
<1>3. CallOK(n, c)
  BY <1>1, <1>2, NoReportOK DEF CallOK
<1>4. Sendable(n, c)
  BY <1>1, <1>2 DEF Sendable, Type
<1> QED
  BY <1>3, <1>4 DEF c

\* A round begins.
LEMMA RoundOK ==
  ASSUME NamesInv, NEW n \in Nodes, Round(n)
  PROVE  NamesInv'
<1>1. "gossip" \in Threads /\ "gossip" # "loop"
  BY DEF Threads
<1>2. rounds' \in 0..MaxRounds
  BY NamesAssumption DEF Round, NamesInv
<1>3. CASE SendReport(n)
  <2> DEFINE new == NewCall(n, "prepared", None)
             c == [new EXCEPT !.report = PrepareReport(n)]
  <2>1. OwnReport(n, PrepareReport(n))
    BY PrepareReportOK DEF NamesInv
  <2>2. PrepareReport(n) \in Report
    BY <2>1 DEF OwnReport
  <2>3. new \in Call /\ new.goal = "prepared" /\ new.left = {} /\ new.ask = {}
    BY NewCallOK DEF Goals
  <2>4. SetCall(n, "gossip", c) /\ inbox' = inbox
    BY <1>3 DEF SendReport
  <2> HIDE DEF new
  <2>5. /\ c \in Call /\ c.goal = "prepared" /\ c.left = {} /\ c.ask = {}
        /\ c.report = PrepareReport(n)
    BY <2>2, <2>3 DEF Call
  <2> HIDE DEF c
  <2>6. CallOK(n, c)
    BY <2>1, <2>5 DEF CallOK
  <2>7. CallsOK' /\ LoopsKept
    BY <1>1, <2>4, <2>6, SetCallOK DEF NamesInv, LoopsKept, Threads
  <2>8. InboxesOK'
    BY <2>4 DEF NamesInv, InboxesOK
  <2> QED
    BY <1>2, <2>7, <2>8, ServingKept DEF Round, NamesInv, TablesOK
<1>4. CASE PingRandomSuspected(n) \/ AddNeighbor(n)
  <2>1. PICK goal \in {"probe", "add"}, m \in Names :
          m \in Nodes /\ postMessage(n, "gossip", NewCall(n, goal, m))
    <3>1. CASE PingRandomSuspected(n)
      BY <3>1, OfNode DEF PingRandomSuspected, GetRandomSuspect, Suspicions
    <3>2. CASE AddNeighbor(n)
      BY <3>2, NodeNames DEF AddNeighbor
    <3> QED BY <1>4, <3>1, <3>2
  <2>2. CallOK(n, NewCall(n, goal, m)) /\ Sendable(n, NewCall(n, goal, m))
    BY <2>1, PingOK
  <2>3. CallsOK' /\ InboxesOK' /\ LoopsKept
    BY <1>1, <2>1, <2>2, PostOK
  <2> QED
    BY <1>2, <2>3, ServingKept DEF Round, NamesInv, TablesOK
<1> QED
  BY <1>3, <1>4 DEF Round

\* An eviction only takes a server out of the table.
LEMMA GarbageCollectOK ==
  ASSUME NamesInv, NEW n \in Nodes, GarbageCollectSuspected(n)
  PROVE  NamesInv'
<1>1. PICK m \in Names : SetTable(n, [table[n] EXCEPT ![m] = "unknown"])
  BY DEF GarbageCollectSuspected
<1>2. TableOK(n, [table[n] EXCEPT ![m] = "unknown"])
  BY OfNode DEF TableOK, Status, Suspicions
<1>3. TablesOK'
  BY <1>1, <1>2, SetTableOK DEF NamesInv
<1>4. rounds' \in 0..MaxRounds
  BY NamesAssumption DEF GarbageCollectSuspected, NamesInv
<1> QED
  BY <1>3, <1>4 DEF GarbageCollectSuspected, NamesInv, InboxesOK, CallsOK, ServingsOK

\* The neighbours a report goes to are those the table lists.
LEMMA ChooseOK ==
  ASSUME NamesInv, NEW n \in Nodes, ChooseNeighbours(n)
  PROVE  NamesInv'
<1> DEFINE c == call[n]["gossip"]
<1>1. CallOK(n, c) /\ c \in Call /\ c.goal = "prepared"
  BY OfNode DEF ChooseNeighbours, CallOK
<1>2. PICK others \in SUBSET Listed(n, "alive") : NextCall(n, [c EXCEPT !.left = others])
  BY DEF ChooseNeighbours, GetUniqueNeighbors
<1> DEFINE d == [c EXCEPT !.left = others]
<1>3. \A m \in others : m \in Nodes
  BY OfNode DEF Listed
<1>4. others \in SUBSET Names
  BY <1>3, NodeNames
<1>5. /\ d \in Call /\ d.goal = "prepared" /\ d.left = others /\ d.ask = c.ask
      /\ d.about = c.about /\ d.report = c.report
  BY <1>1, <1>4 DEF Call
<1>6. NextCall(n, d)
  BY <1>2
<1> HIDE DEF d, c
<1>7. CallOK(n, d)
  BY <1>1, <1>3, <1>5 DEF CallOK
<1>8. CallsOK' /\ InboxesOK' /\ LoopsKept
  BY <1>5, <1>6, <1>7, NextCallOK
<1> QED
  BY <1>8, ServingKept DEF ChooseNeighbours, NamesInv, TablesOK

\* Answered or not, the neighbour a round has contacted is a node.
LEMMA ContactedOK ==
  ASSUME NamesInv, NEW n \in Nodes, Contacted(n)
  PROVE  NamesInv'
<1> DEFINE c == call[n]["gossip"]
           tbl == ReportSuspected(n, table[n], c.to, "suspect")
<1>1. /\ CallOK(n, c) /\ c \in Call /\ c.goal \in {"report", "probe", "add"}
      /\ TableOK(n, table[n]) /\ "gossip" \in Threads /\ "gossip" # "loop"
  BY OfNode, Zenon DEF Contacted, Returned, CallOK
<1>2. c.to \in Nodes
  BY <1>1 DEF CallOK
<1>3. TableOK(n, tbl)
  BY <1>1, <1>2, ReportSuspectedOK DEF Suspicions
<1>4. TablesOK' /\ CallsOK' /\ InboxesOK' /\ LoopsKept
  <2>1. CASE c.answer = "OK"
    <3>1. SetTable(n, AddAlive(table[n], c.to)) /\ NextCall(n, c)
      BY <2>1 DEF Contacted
    <3>2. TablesOK'
      BY <1>1, <1>2, <3>1, AddAliveOK, SetTableOK DEF NamesInv
    <3> HIDE DEF c
    <3> QED
      BY <1>1, <3>1, <3>2, NextCallOK
  <2>2. CASE c.answer # "OK" /\ c.goal = "report"
    <3>1. SetTable(n, tbl)
      BY <2>2, Zenon DEF Contacted
    <3> DEFINE d == [c EXCEPT !.goal = "suspected", !.about = c.to]
    <3>2. SetCall(n, "gossip", d) /\ UNCHANGED inbox
      BY <2>2, Zenon DEF Contacted
    <3>3. c.to \in Names
      BY <1>2, NodeNames
    <3>4. /\ d \in Call /\ d.goal = "suspected" /\ d.to = c.to /\ d.left = c.left
          /\ d.ask = c.ask /\ d.about = c.to /\ d.report = c.report
      BY <1>1, <3>3, Zenon DEF Call
    <3>5. TablesOK'
      BY <1>3, <3>1, SetTableOK, Zenon DEF NamesInv
    <3> HIDE DEF d, c, tbl
    <3>6. CallOK(n, d)
      BY <1>1, <1>2, <3>4 DEF CallOK
    <3>7. CallsOK' /\ LoopsKept
      BY <1>1, <3>2, <3>6, SetCallOK DEF NamesInv, LoopsKept, Threads
    <3> QED
      BY <3>2, <3>5, <3>7 DEF NamesInv, InboxesOK
  <2>3. CASE c.answer # "OK" /\ c.goal \in {"add", "probe"}
    <3>1. (SetTable(n, tbl) \/ UNCHANGED table) /\ Ends(n, "gossip")
      BY <2>3, Zenon DEF Contacted
    <3>2. TablesOK'
      BY <1>3, <3>1, SetTableOK, Zenon DEF NamesInv, TablesOK
    <3> QED
      BY <1>1, <3>1, <3>2, EndsOK
  <2> QED
    BY <1>1, <2>1, <2>2, <2>3
<1> QED
  BY <1>4, ServingKept, Zenon DEF Contacted, NamesInv

\* Those asked to ping a suspect are listed in the table as it is by then.
LEMMA ChooseForwardsOK ==
  ASSUME NamesInv, NEW n \in Nodes, ChooseForwards(n)
  PROVE  NamesInv'
<1> DEFINE c == call[n]["gossip"]
<1>1. CallOK(n, c) /\ c \in Call /\ c.goal = "suspected"
  BY OfNode DEF ChooseForwards, Returned, CallOK
<1>2. PICK ask \in SUBSET Listed(n, "alive") : NextCall(n, [c EXCEPT !.ask = ask])
  BY DEF ChooseForwards, GetUniqueNeighbors
<1> DEFINE d == [c EXCEPT !.ask = ask]
<1>3. \A m \in ask : m \in Nodes
  BY OfNode DEF Listed
<1>4. ask \in SUBSET Names
  BY <1>3, NodeNames
<1>5. /\ d \in Call /\ d.goal = "suspected" /\ d.left = c.left /\ d.ask = ask
      /\ d.about = c.about /\ d.report = c.report
  BY <1>1, <1>4 DEF Call
<1>6. NextCall(n, d)
  BY <1>2
<1> HIDE DEF d, c
<1>7. CallOK(n, d)
  BY <1>1, <1>3, <1>5 DEF CallOK
<1>8. CallsOK' /\ InboxesOK' /\ LoopsKept
  BY <1>5, <1>6, <1>7, NextCallOK
<1> QED
  BY <1>8, ServingKept DEF ChooseForwards, NamesInv, TablesOK

\* The outcome of a request to ping is ignored.
LEMMA AskedOK ==
  ASSUME NamesInv, NEW n \in Nodes, Asked(n)
  PROVE  NamesInv'
<1> DEFINE c == call[n]["gossip"]
<1>1. CallOK(n, c) /\ c.goal = "ask" /\ NextCall(n, c)
  BY OfNode DEF Asked, Returned
<1> HIDE DEF c
<1>2. CallsOK' /\ InboxesOK' /\ LoopsKept
  BY <1>1, NextCallOK
<1> QED
  BY <1>2, ServingKept, Zenon DEF Asked, NamesInv, TablesOK

\* The thread that forwards a request has called a node.
LEMMA ForwardedOK ==
  ASSUME NamesInv, NEW n \in Nodes, NEW f \in Forwarders, Forwarded(n, f)
  PROVE  NamesInv'
<1> DEFINE c == call[n][f]
<1>1. f \in Threads /\ f # "loop"
  BY NamesAssumption, Zenon DEF Threads
<1>2. CallOK(n, c) /\ c.goal = "forward" /\ TableOK(n, table[n])
  BY <1>1, OfNode, Zenon DEF Forwarded, Returned
<1>3. c.to \in Nodes
  BY <1>2 DEF CallOK
<1>4. TableOK(n, ReportSuspected(n, table[n], c.to, "suspect"))
  BY <1>2, <1>3, ReportSuspectedOK DEF Suspicions
<1>5. TablesOK'
  BY <1>2, <1>4, SetTableOK, Zenon DEF Forwarded, NamesInv
<1>6. CallsOK' /\ InboxesOK' /\ LoopsKept
  BY <1>1, EndsOK DEF Forwarded
<1> QED
  BY <1>5, <1>6, ServingKept DEF Forwarded, NamesInv

-----------------------------------------------------------------------------
(* Timeouts.                                                                 *)

\* Whether its answer is awaited makes no difference to a request.
LEMMA UnawaitedOK ==
  ASSUME NEW n \in Nodes, NEW r, RequestOK(n, r)
  PROVE  RequestOK(n, Unawaited(r))
<1>1. r \in Request
  BY DEF RequestOK
<1>2. /\ Unawaited(r) \in Request /\ Unawaited(r).from = r.from
      /\ Unawaited(r).type = r.type /\ Unawaited(r).about = r.about
      /\ Unawaited(r).report = r.report
  BY <1>1, Zenon DEF Unawaited, Request
<1> QED
  BY <1>2 DEF RequestOK

\* Nor does it to the inboxes ...
LEMMA InboxesKept ==
  ASSUME NamesInv, NEW n, NEW ts
  PROVE  /\ Inboxes(n, ts) \in [Nodes -> SUBSET Request]
         /\ \A m \in Nodes : \A r \in Inboxes(n, ts)[m] : RequestOK(m, r)
<1> DEFINE new(r) == IF \E t \in ts : Awaits(r, n, t) THEN Unawaited(r) ELSE r
<1>1. \A m \in Nodes : Inboxes(n, ts)[m] = {new(r) : r \in inbox[m]}
  BY Zenon DEF Inboxes
<1>2. \A m \in Nodes : \A r \in inbox[m] : RequestOK(m, new(r))
  BY OfNode, UnawaitedOK
<1>3. Inboxes(n, ts) = [m \in Nodes |-> Inboxes(n, ts)[m]]
  BY DEF Inboxes
<1> HIDE DEF new
<1>4. \A m \in Nodes : \A r \in Inboxes(n, ts)[m] : RequestOK(m, r)
  BY <1>1, <1>2
<1>5. \A m \in Nodes : Inboxes(n, ts)[m] \in SUBSET Request
  BY <1>4 DEF RequestOK
<1> QED
  BY <1>3, <1>4, <1>5

\* ... and to the requests in service.
LEMMA InServiceKept ==
  ASSUME NamesInv, NEW n, NEW ts
  PROVE  /\ InService(n, ts) \in [Nodes -> [request: Request \cup {None}, later: SUBSET Names]]
         /\ \A m \in Nodes :
              /\ ServingOK(m, InService(n, ts)[m])
              /\ RequestOK(m, serving[m].request) => RequestOK(m, InService(n, ts)[m].request)
<1>1. ASSUME NEW m \in Nodes
      PROVE  LET s == InService(n, ts)[m] IN
             /\ ServingOK(m, s) /\ s \in [request: Request \cup {None}, later: SUBSET Names]
             /\ RequestOK(m, serving[m].request) => RequestOK(m, s.request)
  <2> DEFINE s == InService(n, ts)[m]
  <2>1. ServingOK(m, serving[m])
    BY OfNode, Zenon
  <2>2. CASE \E t \in ts : Awaits(serving[m].request, n, t)
    <3>1. s = [serving[m] EXCEPT !.request = Unawaited(@)]
      BY <2>2 DEF InService
    <3>2. serving[m].request # None
      BY <2>2 DEF Awaits
    <3>3. RequestOK(m, Unawaited(serving[m].request))
      BY <2>1, <3>2, UnawaitedOK DEF ServingOK
    <3>4. Unawaited(serving[m].request) \in Request
      BY <3>3 DEF RequestOK
    <3>5. /\ s \in [request: Request \cup {None}, later: SUBSET Names]
          /\ s.request = Unawaited(serving[m].request) /\ s.later = serving[m].later
      BY <2>1, <3>1, <3>4 DEF ServingOK
    <3> QED
      BY <2>1, <3>3, <3>5 DEF ServingOK
  <2>3. CASE ~\E t \in ts : Awaits(serving[m].request, n, t)
    BY <2>1, <2>3 DEF InService, ServingOK
  <2> QED BY <2>2, <2>3, Zenon
<1>2. InService(n, ts) = [m \in Nodes |-> InService(n, ts)[m]]
  BY DEF InService
<1> QED
  BY <1>1, <1>2, Zenon

\* A call that fails, whenever that is.
LEMMA TimesOutOK ==
  ASSUME NamesInv, NEW n \in Nodes, NEW t \in Threads, TimesOut(n, t) \/ TimesOutEarly(n, t)
  PROVE  NamesInv'
<1> DEFINE c == [call[n][t] EXCEPT !.answer = "failed"]
<1>1. CallOK(n, call[n][t]) /\ call[n][t] \in Call
  BY OfNode, Zenon DEF CallOK
<1>2. CallFails(n, t)
  BY DEF TimesOut, TimesOutEarly
<1>3. SetCall(n, t, c) /\ serving' = InService(n, {t})
  BY <1>2 DEF CallFails
<1>4. /\ c \in Call /\ c.goal = call[n][t].goal /\ c.to = call[n][t].to
      /\ c.about = call[n][t].about /\ c.left = call[n][t].left
      /\ c.ask = call[n][t].ask /\ c.report = call[n][t].report
  BY <1>1, Zenon DEF Call
<1> HIDE DEF c
<1>5. CallOK(n, c)
  BY <1>1, <1>4, Zenon DEF CallOK
<1>6. /\ CallsOK'
      /\ \A m \in Nodes, u \in Threads : call'[m][u] = IF m = n /\ u = t THEN c ELSE call[m][u]
  BY <1>3, <1>5, SetCallOK DEF NamesInv
<1>7. \A m \in Nodes : call'[m]["loop"].goal = call[m]["loop"].goal
  BY <1>4, <1>6, Zenon DEF Threads
<1>8. ServingsOK'
  BY <1>3, <1>7, InServiceKept, Zenon DEF NamesInv, ServingsOK
<1>9. InboxesOK'
  <2>1. CASE inbox' = Inboxes(n, {t})
    BY <2>1, InboxesKept DEF InboxesOK
  <2>2. CASE inbox' = [m \in Nodes |-> {r \in inbox[m] : ~Awaits(r, n, t)}]
    BY <2>2, Zenon DEF NamesInv, InboxesOK
  <2> QED
    BY <2>1, <2>2 DEF TimesOut, TimesOutEarly
<1>10. faults' \in 0..MaxFaults
  BY NamesAssumption DEF TimesOut, TimesOutEarly, NamesInv
<1> QED
  BY <1>2, <1>6, <1>8, <1>9, <1>10, Zenon DEF CallFails, NamesInv, TablesOK

-----------------------------------------------------------------------------
(* The loop.                                                                 *)

\* An answer changes nothing of a call but the answer.
LEMMA ReplyOK ==
  ASSUME NEW n \in Nodes, NEW r \in Request, NEW calls \in [Nodes -> [Threads -> Call]],
         \A m \in Nodes, t \in Threads : CallOK(m, calls[m][t])
  PROVE  /\ Reply(calls, r, n) \in [Nodes -> [Threads -> Call]]
         /\ \A m \in Nodes, t \in Threads :
              /\ CallOK(m, Reply(calls, r, n)[m][t])
              /\ Reply(calls, r, n)[m][t].goal = calls[m][t].goal
<1> DEFINE c == calls[r.from][r.thread]
           right == Host(c.to) = n /\ Type(c.goal) = r.type
           d == [c EXCEPT !.answer = "OK", !.handled = right]
<1>1. r.from \in Nodes /\ r.thread \in Threads
  BY Zenon DEF Request
<1>2. CallOK(r.from, c) /\ c \in Call /\ right \in BOOLEAN
  BY <1>1, Zenon DEF CallOK
<1>3. CASE r.awaited
  <2>1. Reply(calls, r, n) = [calls EXCEPT ![r.from][r.thread] = d]
    BY <1>3 DEF Reply
  <2> HIDE DEF right
  <2>2. /\ d \in Call /\ d.goal = c.goal /\ d.to = c.to /\ d.about = c.about
        /\ d.left = c.left /\ d.ask = c.ask /\ d.report = c.report
    BY <1>2, Zenon DEF Call
  <2> HIDE DEF d
  <2>3. CallOK(r.from, d)
    BY <1>2, <2>2, Zenon DEF CallOK
  <2>4. Reply(calls, r, n) \in [Nodes -> [Threads -> Call]]
    BY <1>1, <2>1, <2>2
  <2>5. \A m \in Nodes, t \in Threads :
          Reply(calls, r, n)[m][t] = IF m = r.from /\ t = r.thread THEN d ELSE calls[m][t]
    BY <1>1, <2>1
  <2> QED
    BY <2>2, <2>3, <2>4, <2>5
<1>4. CASE ~r.awaited
  BY <1>4 DEF Reply
<1> QED
  BY <1>3, <1>4

\* The request a loop takes, and the node it is from.
LEMMA Taken ==
  ASSUME NamesInv, NEW n \in Nodes, NEW r \in inbox[n]
  PROVE  /\ r \in Request /\ RequestOK(n, r) /\ ReportOK(n, r.report)
         /\ r.from \in Nodes /\ TableOK(n, AddAlive(table[n], r.from))
         /\ [inbox EXCEPT ![n] = @ \ {r}] \in [Nodes -> SUBSET Request]
         /\ \A m \in Nodes : \A s \in [inbox EXCEPT ![n] = @ \ {r}][m] : RequestOK(m, s)
<1>1. RequestOK(n, r)
  BY OfNode
<1>2. r \in Request /\ ReportOK(n, r.report) /\ r.from \in Nodes
  BY <1>1, Zenon DEF RequestOK, Request
<1>3. TableOK(n, AddAlive(table[n], r.from))
  BY <1>2, OfNode, AddAliveOK
<1>4. inbox \in [Nodes -> SUBSET Request] /\ \A m \in Nodes : \A s \in inbox[m] : RequestOK(m, s)
  BY DEF NamesInv, InboxesOK
<1> QED
  BY <1>1, <1>2, <1>3, <1>4, Zenon

\* So if the calls are answered, they are in order, with the goals they would have.
LEMMA Replied ==
  ASSUME NEW n \in Nodes, NEW r \in Request, NEW calls \in [Nodes -> [Threads -> Call]],
         \A m \in Nodes, t \in Threads : CallOK(m, calls[m][t]), call' = Reply(calls, r, n)
  PROVE  CallsOK' /\ \A m \in Nodes, t \in Threads : call'[m][t].goal = calls[m][t].goal
BY ReplyOK DEF CallsOK

\* The goals of the loops' calls stay.
GoalsKept == \A m \in Nodes : call'[m]["loop"].goal = call[m]["loop"].goal

\* An answer keeps the calls in order.
LEMMA AnswerOK ==
  ASSUME NamesInv, NEW n \in Nodes, NEW r \in Request, call' = Reply(call, r, n)
  PROVE  CallsOK' /\ GoalsKept
<1>1. call \in [Nodes -> [Threads -> Call]] /\ \A m \in Nodes, t \in Threads : CallOK(m, call[m][t])
  BY DEF NamesInv, CallsOK
<1>2. CallsOK' /\ \A m \in Nodes, t \in Threads : call'[m][t].goal = call[m][t].goal
  BY <1>1, Replied, Zenon
<1>3. "loop" \in Threads
  BY DEF Threads
<1> QED
  BY <1>2, <1>3, Zenon DEF GoalsKept

\* A ping.
LEMMA OnUpdateOK ==
  ASSUME NamesInv, NEW n \in Nodes, NEW r \in inbox[n], OnUpdate(n, r)
  PROVE  NamesInv'
<1>1. TablesOK'
  BY Taken, SetTableOK DEF OnUpdate, NamesInv
<1>2. CallsOK' /\ GoalsKept
  BY Taken, AnswerOK, Zenon DEF OnUpdate
<1>3. InboxesOK'
  BY Taken, Zenon DEF OnUpdate, InboxesOK
<1>4. ServingsOK'
  BY <1>2 DEF OnUpdate, GoalsKept, NamesInv, ServingsOK
<1> QED
  BY <1>1, <1>2, <1>3, <1>4, Zenon DEF OnUpdate, NamesInv

\* The report that a detached thread sends the suspect is in order there: the suspicion
\* in seconds is about the receiver itself.
LEMMA ForwardOK ==
  ASSUME NEW n \in Nodes, NEW r, RequestOK(n, r), r.type = "request"
  PROVE  LET c == [NewCall(n, "forward", r.about) EXCEPT
                     !.report = [NoReport(r.from) EXCEPT !.suspect_s = {r.about}]]
         IN CallOK(n, c) /\ Sendable(n, c) /\ c.goal = "forward"
<1> DEFINE new == NewCall(n, "forward", r.about)
           report == [NoReport(r.from) EXCEPT !.suspect_s = {r.about}]
           c == [new EXCEPT !.report = report]
<1>1. r.about \in Nodes /\ r.from \in Nodes
  BY DEF RequestOK, Request
<1>2. /\ r.about \in Names /\ Host(r.about) = r.about /\ r.from \in Names /\ Host(r.from) = r.from
  BY <1>1, NodeNames, Zenon
<1>3. /\ new \in Call /\ new.goal = "forward" /\ new.to = r.about /\ new.left = {} /\ new.ask = {}
  BY <1>2, NewCallOK DEF Goals
<1>4. /\ report \in Report /\ report.sender = r.from /\ report.alive = {}
      /\ report.suspect = {} /\ report.suspect_s = {r.about}
  BY <1>2 DEF NoReport, Report
<1> HIDE DEF new, report
<1>5. /\ c \in Call /\ c.goal = "forward" /\ c.to = r.about /\ c.left = {} /\ c.ask = {}
      /\ c.report = report
  BY <1>3, <1>4 DEF Call
<1>6. ReportOK(r.about, report)
  BY <1>1, <1>2, <1>4, Zenon DEF ReportOK, Lists
<1> HIDE DEF c
<1>7. CallOK(n, c)
  BY <1>1, <1>5 DEF CallOK
<1>8. Sendable(n, c)
  BY <1>1, <1>2, <1>5, <1>6, Zenon DEF Sendable, Type
<1> QED
  BY <1>5, <1>7, <1>8 DEF c, new, report

\* A request to ping a suspect.
LEMMA OnForwardRequestOK ==
  ASSUME NamesInv, NEW n \in Nodes, NEW r \in inbox[n], OnForwardRequest(n, r)
  PROVE  NamesInv'
<1> DEFINE f == CHOOSE f \in Forwarders : call[n][f].goal = "idle"
           c == [NewCall(n, "forward", r.about) EXCEPT
                   !.report = [NoReport(r.from) EXCEPT !.suspect_s = {r.about}]]
           calls == [call EXCEPT ![n][f] = c]
           boxes == [inbox EXCEPT ![n] = @ \ {r}]
<1>1. f \in Threads /\ f # "loop"
  BY NamesAssumption DEF OnForwardRequest, Threads
<1>2. CallOK(n, c) /\ Sendable(n, c) /\ c.goal = "forward"
  BY Taken, ForwardOK, Zenon DEF OnForwardRequest
<1>3. /\ SetTable(n, AddAlive(table[n], r.from))
      /\ call' = Reply(calls, r, n)
      /\ inbox' = Put(boxes, c.to, Message(n, f, c))
      /\ UNCHANGED <<up, serving, rounds, faults>>
  BY Zenon DEF OnForwardRequest, ForwardTo
<1>4. /\ boxes \in [Nodes -> SUBSET Request] /\ r \in Request
      /\ \A m \in Nodes : \A s \in boxes[m] : RequestOK(m, s)
  BY Taken
<1> HIDE DEF f, c, boxes
<1>5. TablesOK'
  BY <1>3, Taken, SetTableOK DEF NamesInv
<1>6. InboxesOK'
  BY <1>1, <1>2, <1>3, <1>4, PutOK, Zenon DEF InboxesOK, NamesInv
<1>7. /\ calls \in [Nodes -> [Threads -> Call]]
      /\ \A m \in Nodes, t \in Threads : calls[m][t] = IF m = n /\ t = f THEN c ELSE call[m][t]
  BY <1>1, <1>2 DEF NamesInv, CallsOK, CallOK
<1> HIDE DEF calls
<1>8. \A m \in Nodes, t \in Threads : CallOK(m, calls[m][t])
  BY <1>2, <1>7, OfNode, ZenonT(60)
<1>9. CallsOK' /\ \A m \in Nodes, t \in Threads : call'[m][t].goal = calls[m][t].goal
  BY <1>3, <1>4, <1>7, <1>8, Replied, Zenon
<1>10. GoalsKept
  BY <1>1, <1>7, <1>9 DEF GoalsKept, Threads
<1>11. ServingsOK'
  BY <1>3, <1>10, Zenon DEF GoalsKept, NamesInv, ServingsOK
<1> QED
  BY <1>3, <1>5, <1>6, <1>9, <1>11 DEF NamesInv

\* A ping to the sender of a report is in order.
LEMMA PingBackOK ==
  ASSUME NEW n \in Nodes, NEW r, RequestOK(n, r)
  PROVE  LET c == NewCall(n, "ping_back", PingBackTo(r)) IN
         CallOK(n, c) /\ Sendable(n, c) /\ c.goal = "ping_back"
<1> DEFINE c == NewCall(n, "ping_back", PingBackTo(r))
<1>1. PingBackTo(r) = r.report.sender /\ r.report.sender \in Names
  BY Zenon DEF PingBackTo, RequestOK, ReportOK, Report
<1>2. /\ c \in Call /\ c.goal = "ping_back" /\ c.to = r.report.sender
      /\ c.left = {} /\ c.ask = {} /\ c.report = NoReport(n)
  BY <1>1, NewCallOK DEF Goals
<1> HIDE DEF c
<1>3. CallOK(n, c)
  BY <1>2, NoReportOK DEF CallOK
<1>4. Sendable(n, c)
  BY <1>1, <1>2 DEF Sendable, Type
<1> QED
  BY <1>2, <1>3, <1>4, Zenon DEF c

\* A report.
LEMMA OnReportOK ==
  ASSUME NamesInv, NEW n \in Nodes, NEW r \in inbox[n], OnReport(n, r)
  PROVE  NamesInv'
<1> DEFINE tbl == AddAlive(table[n], r.from)
           suspects == r.report.suspect \cup r.report.suspect_s
           news == (r.report.alive \cup suspects) \ {Myself(n)}
           boxes == [inbox EXCEPT ![n] = @ \ {r}]
<1>1. /\ boxes \in [Nodes -> SUBSET Request] /\ r \in Request
      /\ \A m \in Nodes : \A s \in boxes[m] : RequestOK(m, s)
      /\ RequestOK(n, r) /\ ReportOK(n, r.report) /\ TableOK(n, tbl)
  BY Taken, Zenon
<1>2. news \in SUBSET (Nodes \ {Myself(n)})
  BY <1>1 DEF ReportOK, Lists
<1>3. \A of \in SUBSET news : Hears(n, tbl, r.report, of) => TablesOK'
  <2> HIDE DEF tbl, news
  <2> QED
    BY <1>1, <1>2, HearsOK DEF NamesInv
<1>4. UNCHANGED <<up, rounds, faults>>
  BY Zenon DEF OnReport
<1>5. \/ /\ Hears(n, tbl, r.report, news)
         /\ call' = Reply(call, r, n) /\ inbox' = boxes /\ UNCHANGED serving
      \/ /\ \E later \in SUBSET (suspects \cap news) :
              /\ Hears(n, tbl, r.report, news \ later)
              /\ serving' = [serving EXCEPT ![n] = [request |-> r, later |-> later]]
         /\ LET c == NewCall(n, "ping_back", PingBackTo(r)) IN
            SetCall(n, "loop", c) /\ inbox' = Put(boxes, c.to, Message(n, "loop", c))
  BY Zenon DEF OnReport
<1>6. CASE /\ Hears(n, tbl, r.report, news)
           /\ call' = Reply(call, r, n) /\ inbox' = boxes /\ UNCHANGED serving
  <2>1. TablesOK'
    BY <1>3, <1>6, Zenon
  <2>2. CallsOK' /\ GoalsKept
    BY <1>1, <1>6, AnswerOK, Zenon
  <2>3. InboxesOK'
    BY <1>1, <1>6, Zenon DEF InboxesOK
  <2>4. ServingsOK'
    BY <1>6, <2>2 DEF GoalsKept, NamesInv, ServingsOK
  <2> QED
    BY <1>4, <2>1, <2>2, <2>3, <2>4 DEF NamesInv
<1>7. ASSUME NEW later \in SUBSET (suspects \cap news),
             Hears(n, tbl, r.report, news \ later),
             serving' = [serving EXCEPT ![n] = [request |-> r, later |-> later]],
             SetCall(n, "loop", NewCall(n, "ping_back", PingBackTo(r))),
             inbox' = Put(boxes, NewCall(n, "ping_back", PingBackTo(r)).to,
                          Message(n, "loop", NewCall(n, "ping_back", PingBackTo(r))))
      PROVE  NamesInv'
  <2> DEFINE c == NewCall(n, "ping_back", PingBackTo(r))
             s == [request |-> r, later |-> later]
  <2>1. CallOK(n, c) /\ Sendable(n, c) /\ "loop" \in Threads
    BY <1>1, PingBackOK, Zenon DEF Threads
  <2>2. TablesOK'
    BY <1>3, <1>7, Zenon
  <2>3. /\ s \in [request: Request \cup {None}, later: SUBSET Names]
        /\ s.request = r /\ s.later = later /\ later \subseteq Nodes \ {Myself(n)}
    BY <1>1, <1>2, NodeNames, Zenon
  <2>4. SetCall(n, "loop", c) /\ inbox' = Put(boxes, c.to, Message(n, "loop", c))
    BY <1>7, Zenon
  <2>5. serving' = [serving EXCEPT ![n] = s]
    BY <1>7, Zenon
  <2> HIDE DEF c, s, boxes
  <2>6. ServingOK(n, s)
    BY <1>1, <2>3, Zenon DEF ServingOK
  <2>7. CallsOK' /\ \A m \in Nodes \ {n} : call'[m]["loop"] = call[m]["loop"]
    BY <2>1, <2>4, SetCallOK DEF NamesInv
  <2>8. InboxesOK'
    BY <1>1, <2>1, <2>4, PutOK, Zenon DEF InboxesOK, NamesInv
  <2>9. /\ serving' \in [Nodes -> [request: Request \cup {None}, later: SUBSET Names]]
        /\ \A m \in Nodes : serving'[m] = IF m = n THEN s ELSE serving[m]
    BY <2>3, <2>5, Zenon DEF NamesInv, ServingsOK
  <2>10. ServingsOK'
    BY <1>1, <2>3, <2>6, <2>7, <2>9, Zenon DEF NamesInv, ServingsOK
  <2> QED
    BY <1>4, <2>2, <2>7, <2>8, <2>10, Zenon DEF NamesInv
<1> QED
  BY <1>5, <1>6, <1>7, Zenon

\* A loop that handles nothing.
LEMMA NotServingOK ==
  ASSUME NEW n \in Nodes
  PROVE  /\ NotServing \in [request: Request \cup {None}, later: SUBSET Names]
         /\ ServingOK(n, NotServing)
BY Zenon DEF NotServing, ServingOK

\* The rest of the report after the ping to its sender.
LEMMA PingedBackOK ==
  ASSUME NamesInv, NEW n \in Nodes, PingedBack(n)
  PROVE  NamesInv'
<1> DEFINE r == serving[n].request
           later == serving[n].later
           calls == [call EXCEPT ![n]["loop"] = NoCall(n)]
<1>1. RequestOK(n, r) /\ later \subseteq Nodes \ {Myself(n)}
  BY Zenon DEF PingedBack, Returned, NamesInv, ServingsOK, ServingOK
<1>2. r \in Request /\ ReportOK(n, r.report)
  BY <1>1 DEF RequestOK
<1>3. /\ Hears(n, table[n], r.report, later)
      /\ call' = Reply(calls, r, n)
      /\ serving' = [serving EXCEPT ![n] = NotServing]
      /\ UNCHANGED <<up, inbox, rounds, faults>>
  BY DEF PingedBack
<1> HIDE DEF r, later
<1>4. TablesOK'
  BY <1>1, <1>2, <1>3, OfNode, HearsOK, Zenon DEF NamesInv
<1>5. "loop" \in Threads /\ CallOK(n, NoCall(n)) /\ NoCall(n).goal = "idle" /\ NoCall(n) \in Call
  BY NoCallOK DEF Threads, CallOK
<1>6. /\ calls \in [Nodes -> [Threads -> Call]]
      /\ \A m \in Nodes, t \in Threads :
           calls[m][t] = IF m = n /\ t = "loop" THEN NoCall(n) ELSE call[m][t]
  BY <1>5, Zenon DEF NamesInv, CallsOK
<1> HIDE DEF calls
<1>7. \A m \in Nodes, t \in Threads : CallOK(m, calls[m][t])
  BY <1>5, <1>6, OfNode, Zenon
<1>8. CallsOK' /\ \A m \in Nodes, t \in Threads : call'[m][t].goal = calls[m][t].goal
  <2>1. calls \in [Nodes -> [Threads -> Call]]
    BY <1>6, Zenon
  <2> QED
    BY <1>2, <1>3, <1>7, <2>1, ReplyOK DEF CallsOK
<1>9. ServingsOK'
  <2>1. /\ serving' \in [Nodes -> [request: Request \cup {None}, later: SUBSET Names]]
        /\ \A m \in Nodes : serving'[m] = IF m = n THEN NotServing ELSE serving[m]
    BY <1>3, NotServingOK, Zenon DEF NamesInv, ServingsOK
  <2>2. \A m \in Nodes : call'[m]["loop"].goal = IF m = n THEN "idle" ELSE call[m]["loop"].goal
    BY <1>5, <1>6, <1>8
  <2> QED
    BY <2>1, <2>2, NotServingOK, Zenon DEF NamesInv, ServingsOK
<1> QED
  BY <1>3, <1>4, <1>8, <1>9, Zenon DEF NamesInv, InboxesOK

-----------------------------------------------------------------------------
(* Crashes, restarts and the beginning.                                      *)

\* A node that knows nobody.
LEMMA UnknownOK ==
  ASSUME NEW n \in Nodes
  PROVE  TableOK(n, [m \in Names |-> "unknown"])
<1>1. WellNamed \subseteq Names
  BY NodeNames DEF WellNamed
<1> QED
  BY <1>1 DEF TableOK, Status, Suspicions

\* A crash empties the node's table, and closes its sockets.
LEMMA CrashOK ==
  ASSUME NamesInv, NEW n \in Nodes, Crash(n)
  PROVE  NamesInv'
<1>1. TablesOK'
  BY UnknownOK, SetTableOK, Zenon DEF Crash, SetTable, NamesInv
<1>2. InboxesOK'
  <2>1. inbox' = [Inboxes(n, Threads) EXCEPT ![n] = {}]
    BY Zenon DEF Crash
  <2> QED
    BY <2>1, InboxesKept DEF InboxesOK
<1>3. CallsOK' /\ \A m \in Nodes, t \in Threads : call'[m][t] = IF m = n THEN NoCall(n) ELSE call[m][t]
  <2>1. CallOK(n, NoCall(n)) /\ NoCall(n) \in Call
    BY NoCallOK DEF CallOK
  <2>2. call' = [call EXCEPT ![n] = [t \in Threads |-> NoCall(n)]]
    BY DEF Crash
  <2>3. /\ call' \in [Nodes -> [Threads -> Call]]
        /\ \A m \in Nodes, t \in Threads : call'[m][t] = IF m = n THEN NoCall(n) ELSE call[m][t]
    BY <2>1, <2>2, Zenon DEF NamesInv, CallsOK
  <2> QED
    BY <2>1, <2>3, OfNode, Zenon DEF CallsOK
<1>4. ServingsOK'
  <2>1. /\ serving' \in [Nodes -> [request: Request \cup {None}, later: SUBSET Names]]
        /\ \A m \in Nodes : serving'[m] = IF m = n THEN NotServing ELSE InService(n, Threads)[m]
    BY NotServingOK, InServiceKept DEF Crash
  <2>2. \A m \in Nodes : call'[m]["loop"].goal = IF m = n THEN "idle" ELSE call[m]["loop"].goal
    BY <1>3, NoCallOK DEF Threads
  <2> QED
    BY <2>1, <2>2, NotServingOK, InServiceKept, ZenonT(60) DEF NamesInv, ServingsOK
<1>5. faults' \in 0..MaxFaults /\ up' \subseteq Nodes /\ rounds' = rounds
  BY NamesAssumption DEF Crash, NamesInv
<1> QED
  BY <1>1, <1>2, <1>3, <1>4, <1>5 DEF NamesInv

\* A restart changes nothing but that the node runs.
LEMMA RestartOK ==
  ASSUME NamesInv, NEW n \in Nodes, Restart(n)
  PROVE  NamesInv'
BY DEF Restart, NamesInv, TablesOK, InboxesOK, CallsOK, ServingsOK

\* The nodes know each other, and two of them may suspect each other.
LEMMA InitOK == Init => NamesInv
<1> SUFFICES ASSUME Init PROVE NamesInv
  OBVIOUS
<1>1. /\ up = Nodes /\ call = [n \in Nodes |-> [t \in Threads |-> NoCall(n)]]
      /\ serving = [n \in Nodes |-> NotServing]
      /\ rounds \in 0..MaxRounds /\ faults \in 0..MaxFaults
  BY NamesAssumption DEF Init, Quiet, Quarrel
<1>2. CallsOK
  <2>1. \A n \in Nodes : CallOK(n, NoCall(n)) /\ NoCall(n) \in Call
    BY NoCallOK, Zenon DEF CallOK
  <2> QED
    BY <1>1, <2>1, Zenon DEF CallsOK
<1>3. ServingsOK
  <2>1. \A n \in Nodes : call[n]["loop"].goal = "idle"
    BY <1>1, NoCallOK DEF Threads
  <2> QED
    BY <1>1, <2>1, NotServingOK DEF ServingsOK
<1>4. WellNamed \subseteq Names /\ Nodes \subseteq Names
  BY NodeNames DEF WellNamed
<1>5. TablesOK /\ InboxesOK
  <2>1. CASE Quiet
    <3>1. /\ table = [n \in Nodes |->
                        [m \in Names |-> IF m \in Nodes \ {n} THEN "alive" ELSE "unknown"]]
          /\ inbox = [n \in Nodes |-> {}]
      BY <2>1 DEF Quiet
    <3>2. table \in [Nodes -> [Names -> Status]]
      BY <3>1 DEF Status
    <3>3. \A n \in Nodes : TableOK(n, table[n])
      BY <1>4, <3>1 DEF TableOK, Status, Suspicions
    <3> QED
      BY <3>1, <3>2, <3>3 DEF TablesOK, InboxesOK
  <2>2. ASSUME NEW q \in Quarrels, Quarrel(q[1], q[2], q[3])
        PROVE  TablesOK /\ InboxesOK
    <3> DEFINE n == q[1]  k == q[2]  m == q[3]
    <3>1. n \in Nodes /\ k \in Nodes /\ m \in Nodes /\ n # m /\ k # n /\ k # m
      BY NamesAssumption, Zenon
    <3>2. /\ table = [i \in Nodes |->
                        [j \in Names |-> IF <<i, j>> \in {<<n, m>>, <<m, n>>} THEN "suspect"
                                         ELSE IF j \in Nodes \ {i} THEN "alive" ELSE "unknown"]]
          /\ inbox = [i \in Nodes |-> IF i = k THEN {Asks(n, m), Asks(m, n)} ELSE {}]
      BY <2>2 DEF Quarrel
    <3> HIDE DEF n, k, m
    <3>3. table \in [Nodes -> [Names -> Status]]
      BY <3>2 DEF Status, Suspicions
    <3>4. \A i \in Nodes : TableOK(i, table[i])
      <4> SUFFICES ASSUME NEW i \in Nodes PROVE TableOK(i, table[i])
        OBVIOUS
      <4>1. \A j \in Names : /\ table[i][j] # "suspect_s"
                             /\ table[i][j] # "unknown" => j \in Nodes /\ j # i
        BY <3>1, <3>2, Zenon
      <4> QED
        BY <1>4, <3>3, <4>1 DEF TableOK, Suspicions
    <3>5. ASSUME NEW i \in Nodes, NEW j \in Nodes, i # j, i # k, j # k
          PROVE  RequestOK(k, Asks(i, j))
      <4>1. /\ NoReport(i) \in Report /\ ReportOK(k, NoReport(i))
        BY <3>1, <3>5, NoReportOK, NodeNames DEF ReportOK
      <4>2. /\ Asks(i, j).from = i /\ Asks(i, j).about = j /\ Asks(i, j).report = NoReport(i)
            /\ Asks(i, j).type = "request"
        BY DEF Asks
      <4>3. Asks(i, j) \in Request
        BY <1>4, <4>1, Zenon DEF Asks, Request, Threads
      <4> HIDE DEF Asks
      <4> QED
        BY <3>5, <4>1, <4>2, <4>3, Zenon DEF RequestOK
    <3>6. /\ inbox \in [Nodes -> SUBSET Request]
          /\ \A i \in Nodes : \A r \in inbox[i] : RequestOK(i, r)
      BY <3>1, <3>2, <3>5 DEF RequestOK
    <3> QED
      BY <3>3, <3>4, <3>6 DEF TablesOK, InboxesOK
  <2> QED
    BY <2>1, <2>2 DEF Init
<1> QED
  BY <1>1, <1>2, <1>3, <1>5 DEF NamesInv

-----------------------------------------------------------------------------
(* The theorems.                                                             *)

\* Every step preserves the inductive invariant.
LEMMA NamesStep == NamesInv /\ [Next]_vars => NamesInv'
<1> SUFFICES ASSUME NamesInv, [Next]_vars PROVE NamesInv'
  OBVIOUS
<1>1. ASSUME NEW n \in Nodes,
             Round(n) \/ GarbageCollectSuspected(n) \/ Crash(n) \/ Restart(n)
      PROVE  NamesInv'
  BY <1>1, RoundOK, GarbageCollectOK, CrashOK, RestartOK
<1>2. ASSUME NEW n \in Nodes, LoopStep(n) PROVE NamesInv'
  BY <1>2, PingedBackOK, OnUpdateOK, OnReportOK, OnForwardRequestOK DEF LoopStep
<1>3. ASSUME NEW n \in Nodes, ClientStep(n) PROVE NamesInv'
  BY <1>3, ChooseOK, ContactedOK, ChooseForwardsOK, AskedOK, ForwardedOK, TimesOutOK
     DEF ClientStep
<1>4. ASSUME NEW n \in Nodes, NEW t \in Threads, TimesOutEarly(n, t) PROVE NamesInv'
  BY <1>4, TimesOutOK, Zenon
<1>5. CASE UNCHANGED vars
  BY <1>5 DEF vars, NamesInv, TablesOK, InboxesOK, CallsOK, ServingsOK
<1> QED
  BY <1>1, <1>2, <1>3, <1>4, <1>5 DEF Next

\* The inductive invariant is one.
THEOREM NamesInvariant == Spec => []NamesInv
BY InitOK, NamesStep, PTL DEF Spec

\* The tables, the requests and the calls are what they are declared to be.
THEOREM ClusterTypes == Spec => []TypeOK
<1>1. NamesInv => TypeOK
  BY Zenon DEF NamesInv, TablesOK, InboxesOK, CallsOK, ServingsOK, TypeOK
<1> QED
  BY <1>1, NamesInvariant, PTL

\* No table holds the timestamp in seconds of a forwarded record among those of
\* CurrentTime(), which are in milliseconds, if the suspect goes by its Hostname().
THEOREM UnitsTheorem == Spec => []UnitsNeverMix
<1>1. NamesInv => UnitsNeverMix
  BY OfNode DEF UnitsNeverMix, TableOK
<1> QED
  BY <1>1, NamesInvariant, PTL

-----------------------------------------------------------------------------
(* What a node's tables say of itself.                                       *)

\* What a step may do to the tables of a well-named node i about i itself.
OnItsOwn(i) ==
  table'[i][i] # table[i][i] => i \notin up' \/ (table'[i][i] = "alive" /\ HeardItself(i))

\* A step that leaves the tables, or node i's record of itself, alone.
LEMMA SameSelf ==
  ASSUME NEW i \in Nodes, table'[i][i] = table[i][i]
  PROVE  OnItsOwn(i)
BY DEF OnItsOwn

\* The new table of node n, as node i sees itself in it.
LEMMA SetSelf ==
  ASSUME NamesInv, NEW n \in Nodes, NEW tbl, SetTable(n, tbl), NEW i \in Nodes
  PROVE  table'[i][i] = IF i = n THEN tbl[i] ELSE table[i][i]
BY OfNode DEF SetTable, NamesInv, TablesOK

\* Adding m says something new only of m.
LEMMA AddSelf ==
  ASSUME NEW tbl \in [Names -> Status], NEW m \in Nodes, NEW i \in Nodes
  PROVE  AddAlive(tbl, m)[i] = IF i = m THEN "alive" ELSE tbl[i]
BY NodeNames DEF AddAlive

\* So does suspecting m, which a well-named node never does to itself.
LEMMA SuspectSelf ==
  ASSUME NEW i \in WellNamed, NEW tbl \in [Names -> Status], NEW m \in Nodes, NEW kind
  PROVE  ReportSuspected(i, tbl, m, kind)[i] = IF i = m THEN "alive" ELSE tbl[i]
BY NodeNames, WellNamedNodes DEF ReportSuspected

\* What a well-named node hears from others says nothing of itself.
LEMMA HearsSelf ==
  ASSUME NamesInv, NEW n \in Nodes, NEW tbl \in [Names -> Status], NEW report, NEW of,
         Hears(n, tbl, report, of), Myself(n) \notin of, NEW i \in WellNamed
  PROVE  table'[i][i] = IF i = n THEN tbl[i] ELSE table[i][i]
<1>1. PICK stale \in SUBSET of : SetTable(n, Hear(n, tbl, report, of \ stale))
  BY Zenon DEF Hears
<1>2. i \in Nodes /\ (i = n => Myself(n) = n)
  BY WellNamedNodes DEF Myself
<1>3. i = n => n \notin of \ stale
  BY <1>2
<1>4. i = n => Hear(n, tbl, report, of \ stale)[i] = tbl[i]
  BY <1>3, HearSelf
<1> QED
  BY <1>1, <1>2, <1>4, SetSelf, Zenon

\* The next call of a round, or its end, is a new one.
LEMMA NextCallNew ==
  ASSUME NamesInv, NEW n \in Nodes, NEW c \in Call, NextCall(n, c)
  PROVE  call'[n]["gossip"].answer = "none"
<1>1. call \in [Nodes -> [Threads -> Call]] /\ "gossip" \in Threads
  BY Zenon DEF NamesInv, CallsOK, Threads
<1>2. \A d : SetCall(n, "gossip", d) => call'[n]["gossip"] = d
  BY <1>1 DEF SetCall
<1>3. \A m : postMessage(n, "gossip", [c EXCEPT !.goal = "ask", !.to = m, !.ask = @ \ {m}])
                => call'[n]["gossip"].answer = "none"
  BY <1>2, Zenon DEF postMessage, Call
<1>4. \A m : postMessage(n, "gossip", [c EXCEPT !.goal = "report", !.to = m, !.left = @ \ {m},
                                                !.about = None])
                => call'[n]["gossip"].answer = "none"
  BY <1>2, Zenon DEF postMessage, Call
<1>5. Ends(n, "gossip") => call'[n]["gossip"].answer = "none"
  <2>1. NoCall(n).answer = "none"
    BY Zenon DEF NoCall
  <2> QED
    BY <1>2, <2>1, Zenon DEF Ends
<1> QED
  BY <1>3, <1>4, <1>5, Zenon DEF NextCall

\* A round whose call has returned adds whom it called, and calls the next.
LEMMA ContactedSelf ==
  ASSUME NamesInv, NEW n \in Nodes, Contacted(n), NEW i \in WellNamed
  PROVE  OnItsOwn(i)
<1> DEFINE c == call[n]["gossip"]
<1>1. /\ CallOK(n, c) /\ c \in Call /\ c.goal \in {"report", "probe", "add"}
      /\ c.answer # "none" /\ "gossip" \in Threads /\ TableOK(n, table[n])
  BY OfNode DEF Contacted, Returned, CallOK
<1>2. c.to \in Nodes /\ i \in Nodes /\ table[n] \in [Names -> Status]
  BY <1>1, WellNamedNodes DEF CallOK, TableOK
<1>3. call'[n]["gossip"] # c
  <2>1. NextCall(n, c) => call'[n]["gossip"].answer = "none"
    BY <1>1, NextCallNew, Zenon
  <2>2. Ends(n, "gossip") => call'[n]["gossip"].answer = "none"
    BY <1>1 DEF Ends, SetCall, NoCall, NamesInv, CallsOK
  <2>3. SetCall(n, "gossip", [c EXCEPT !.goal = "suspected", !.about = c.to])
          => call'[n]["gossip"].goal = "suspected"
    BY <1>1 DEF SetCall, Call, NamesInv, CallsOK
  <2>4. \/ NextCall(n, c) \/ Ends(n, "gossip")
        \/ SetCall(n, "gossip", [c EXCEPT !.goal = "suspected", !.about = c.to])
    BY <1>1, Zenon DEF Contacted
  <2> QED
    BY <1>1, <2>1, <2>2, <2>3, <2>4
<1>4. \/ SetTable(n, AddAlive(table[n], c.to))
      \/ SetTable(n, ReportSuspected(n, table[n], c.to, "suspect"))
      \/ UNCHANGED table
  BY <1>1, Zenon DEF Contacted
<1>5. table'[i][i] = table[i][i] \/ (i = n /\ c.to = n /\ table'[i][i] = "alive")
  BY <1>2, <1>4, SetSelf, AddSelf, SuspectSelf
<1> QED
  BY <1>1, <1>3, <1>5 DEF OnItsOwn, HeardItself

\* A thread that has forwarded a request is done.
LEMMA ForwardedSelf ==
  ASSUME NamesInv, NEW n \in Nodes, NEW f \in Forwarders, Forwarded(n, f), NEW i \in WellNamed
  PROVE  OnItsOwn(i)
<1> DEFINE c == call[n][f]
<1>1. /\ CallOK(n, c) /\ c.goal = "forward" /\ c.answer # "none"
      /\ f \in Threads /\ TableOK(n, table[n])
  BY OfNode, Zenon DEF Forwarded, Returned, CallOK
<1>2. c.to \in Nodes /\ i \in Nodes /\ table[n] \in [Names -> Status]
  BY <1>1, WellNamedNodes DEF CallOK, TableOK
<1>3. call'[n][f] # c
  BY <1>1 DEF Forwarded, Ends, SetCall, NoCall, NamesInv, CallsOK
<1>4. \/ SetTable(n, table[n]) \/ SetTable(n, ReportSuspected(n, table[n], c.to, "suspect"))
  BY Zenon DEF Forwarded
<1>5. table'[i][i] = table[i][i] \/ (i = n /\ c.to = n /\ table'[i][i] = "alive")
  BY <1>2, <1>4, SetSelf, SuspectSelf
<1> QED
  BY <1>1, <1>3, <1>5, Zenon DEF OnItsOwn, HeardItself

\* The loop adds the sender of what it takes.
LEMMA TakenSelf ==
  ASSUME NamesInv, NEW n \in Nodes, NEW r, Take(n, r), NEW i \in WellNamed,
         table'[i][i] = (IF i = n THEN AddAlive(table[n], r.from)[i] ELSE table[i][i]),
         r \notin inbox'[n]
  PROVE  OnItsOwn(i)
<1>1. r \in inbox[n] /\ RequestOK(n, r) /\ TableOK(n, table[n])
  BY OfNode, Zenon DEF Take
<1>2. r.from \in Nodes /\ i \in Nodes /\ table[n] \in [Names -> Status]
  BY <1>1, WellNamedNodes DEF RequestOK, Request, TableOK
<1>3. table'[i][i] = table[i][i] \/ (i = n /\ r.from = n /\ table'[i][i] = "alive")
  BY <1>2, AddSelf
<1> QED
  BY <1>1, <1>3, Zenon DEF OnItsOwn, HeardItself

\* What has been taken is not put back.
LEMMA TakenOut ==
  ASSUME NamesInv, NEW n \in Nodes, NEW r, NEW to, NEW q, q # r,
         inbox' = Put([inbox EXCEPT ![n] = @ \ {r}], to, q)
  PROVE  r \notin inbox'[n]
BY DEF Put, NamesInv, InboxesOK

\* The handlers of the loop.
LEMMA LoopSelf ==
  ASSUME NamesInv, NEW n \in Nodes, LoopStep(n), NEW i \in WellNamed
  PROVE  OnItsOwn(i)
<1> USE DEF InboxesOK
<1>1. TableOK(n, table[n]) /\ i \in Nodes
  BY OfNode, WellNamedNodes
<1>2. inbox \in [Nodes -> SUBSET Request]
  BY DEF NamesInv
<1>3. ASSUME NEW r \in inbox[n], OnUpdate(n, r) PROVE OnItsOwn(i)
  <2>1. Take(n, r) /\ SetTable(n, AddAlive(table[n], r.from)) /\ r \notin inbox'[n]
    BY <1>2, <1>3 DEF OnUpdate
  <2> QED
    BY <1>1, <2>1, SetSelf, TakenSelf, Zenon
<1>4. ASSUME NEW r \in inbox[n], OnForwardRequest(n, r) PROVE OnItsOwn(i)
  <2> DEFINE f == CHOOSE f \in Forwarders : call[n][f].goal = "idle"
             c == [NewCall(n, "forward", ForwardTo(r)) EXCEPT
                     !.report = [NoReport(r.from) EXCEPT !.suspect_s = {r.about}]]
  <2>1. /\ Take(n, r) /\ SetTable(n, AddAlive(table[n], r.from)) /\ r.type = "request"
        /\ inbox' = Put([inbox EXCEPT ![n] = @ \ {r}], c.to, Message(n, f, c))
    BY <1>4, Zenon DEF OnForwardRequest
  <2>2. c.goal = "forward"
    BY DEF NewCall, NoCall
  <2> HIDE DEF c, f
  <2>3. Message(n, f, c) # r
    BY <2>1, <2>2 DEF Message, Type
  <2>4. r \notin inbox'[n]
    BY <2>1, <2>3, TakenOut, Zenon
  <2> QED
    BY <1>1, <2>1, <2>4, SetSelf, TakenSelf, Zenon
<1>5. ASSUME NEW r \in inbox[n], OnReport(n, r) PROVE OnItsOwn(i)
  <2> DEFINE tbl == AddAlive(table[n], r.from)
             suspects == r.report.suspect \cup r.report.suspect_s
             news == (r.report.alive \cup suspects) \ {Myself(n)}
             c == NewCall(n, "ping_back", PingBackTo(r))
  <2>1. Take(n, r) /\ r.type = "report" /\ RequestOK(n, r)
    BY <1>5, OfNode, Zenon DEF OnReport
  <2>2. tbl \in [Names -> Status]
    BY <1>1, <2>1, AddAliveOK, Zenon DEF TableOK, RequestOK, Request
  <2>3. \E of \in SUBSET news : Hears(n, tbl, r.report, of)
    <3>1. \/ Hears(n, tbl, r.report, news)
          \/ \E later \in SUBSET (suspects \cap news) : Hears(n, tbl, r.report, news \ later)
      BY <1>5, Zenon DEF OnReport
    <3> HIDE DEF tbl, news, suspects
    <3> QED
      BY <3>1, Zenon
  <2>4. table'[i][i] = IF i = n THEN tbl[i] ELSE table[i][i]
    <3>1. PICK of \in SUBSET news : Hears(n, tbl, r.report, of)
      BY <2>3
    <3>2. Myself(n) \notin of
      OBVIOUS
    <3> HIDE DEF tbl
    <3> QED
      BY <2>2, <3>1, <3>2, HearsSelf, Zenon
  <2>5. r \notin inbox'[n]
    <3>1. CASE inbox' = [inbox EXCEPT ![n] = @ \ {r}]
      BY <1>2, <3>1
    <3>2. CASE inbox' = Put([inbox EXCEPT ![n] = @ \ {r}], c.to, Message(n, "loop", c))
      <4>1. c.goal = "ping_back"
        BY DEF NewCall, NoCall
      <4> HIDE DEF c
      <4>2. Message(n, "loop", c) # r
        BY <2>1, <4>1 DEF Message, Type
      <4> QED
        BY <3>2, <4>2, TakenOut, Zenon
    <3> QED
      BY <1>5, <3>1, <3>2, Zenon DEF OnReport
  <2> QED
    BY <2>1, <2>4, <2>5, TakenSelf, Zenon
<1>6. CASE PingedBack(n)
  <2>1. Hears(n, table[n], serving[n].request.report, serving[n].later)
    BY <1>6, Zenon DEF PingedBack
  <2>2. Myself(n) \notin serving[n].later
    BY OfNode DEF ServingOK
  <2>3. table[n] \in [Names -> Status]
    BY <1>1 DEF TableOK
  <2> QED
    BY <1>1, <2>1, <2>2, <2>3, HearsSelf, SameSelf, Zenon
<1> QED
  BY <1>3, <1>4, <1>5, <1>6, Zenon DEF LoopStep

\* Every step.
LEMMA SelfStep ==
  ASSUME NamesInv, Next, NEW i \in WellNamed
  PROVE  OnItsOwn(i)
<1>1. i \in Nodes
  BY WellNamedNodes
<1>2. ASSUME NEW n \in Nodes, GarbageCollectSuspected(n) PROVE OnItsOwn(i)
  <2>1. TableOK(n, table[n])
    BY OfNode
  <2>2. PICK m \in Names : /\ table[n][m] \in Suspicions
                           /\ SetTable(n, [table[n] EXCEPT ![m] = "unknown"])
    BY <1>2 DEF GarbageCollectSuspected
  <2>3. i = n => m # i
    BY <2>1, <2>2 DEF TableOK
  <2>4. i = n => [table[n] EXCEPT ![m] = "unknown"][i] = table[i][i]
    BY <1>1, <2>1, <2>3, NodeNames DEF TableOK
  <2> QED
    BY <1>1, <2>2, <2>4, SetSelf, SameSelf, Zenon
<1>3. ASSUME NEW n \in Nodes, Crash(n) PROVE OnItsOwn(i)
  BY <1>1, <1>3 DEF Crash, OnItsOwn, NamesInv, TablesOK
<1>4. ASSUME NEW n \in Nodes, ClientStep(n) PROVE OnItsOwn(i)
  <2>1. CASE Contacted(n)
    BY <2>1, ContactedSelf
  <2>2. CASE \E f \in Forwarders : Forwarded(n, f)
    BY <2>2, ForwardedSelf
  <2>3. CASE ChooseNeighbours(n) \/ ChooseForwards(n) \/ Asked(n)
    BY <1>1, <2>3, SameSelf DEF ChooseNeighbours, ChooseForwards, Asked
  <2>4. CASE \E t \in Threads : TimesOut(n, t)
    BY <1>1, <2>4, SameSelf DEF TimesOut, CallFails
  <2> QED
    BY <1>4, <2>1, <2>2, <2>3, <2>4, Zenon DEF ClientStep
<1>5. ASSUME NEW n \in Nodes,
             Round(n) \/ Restart(n) \/ \E t \in Threads : TimesOutEarly(n, t)
      PROVE  OnItsOwn(i)
  BY <1>1, <1>5, SameSelf, Zenon DEF Round, Restart, TimesOutEarly, CallFails
<1> QED
  BY <1>2, <1>3, <1>4, <1>5, LoopSelf, Zenon DEF Next

\* A node that goes by its Hostname() comes to be listed in its own tables only by
\* calling itself, and is never suspected or evicted there, whatever the others report
\* of it: AddAlive takes the sender of a request, ReportSuspected keeps "myself" alive,
\* and OnReport passes over the record that bears its own name.
THEOREM SelfTheorem == Spec => OnlyItselfListsItself
<1>1. NamesInv /\ [Next]_vars =>
        [\A n \in WellNamed :
           table'[n][n] # table[n][n] =>
             n \notin up' \/ (table'[n][n] = "alive" /\ HeardItself(n))]_vars
  BY SelfStep, Zenon DEF OnItsOwn
<1> QED
  BY <1>1, NamesInvariant, PTL DEF Spec, OnlyItselfListsItself
=============================================================================
