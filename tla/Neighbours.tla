----------------------------- MODULE Neighbours -----------------------------
(* How GossipFailureDetector chooses whom to contact: GetUniqueNeighbors and *)
(* the SwimServer queries it makes, called by the thread that sends reports  *)
(* to several neighbours and by the one that reports to a random one, while  *)
(* alive_ changes under them.                                                *)
(*                                                                           *)
(* alive_ is read under its mutex, each time anew; round_robin_index_ is     *)
(* shared without one, so its reads and writes are steps of their own.       *)
EXTENDS Naturals, FiniteSets

CONSTANTS
  Servers,        \* numbers, in the order of operator<
  Self,           \* what self() returns
  Full, Single,   \* the threads of InitAllBackgroundThreads that send reports
  ReportCounts,   \* the values num_reports_ may have
  ForwardCounts,  \* the values num_forwards_ may have
  MaxChanges,     \* bound: changes of alive_ by the server loop
  MaxSize,        \* bound: the servers in alive_
  None

ASSUME NeighboursAssumption ==
  /\ Servers \subseteq Nat /\ IsFiniteSet(Servers) /\ Self \in Nat
  /\ None \notin Servers /\ None \notin {Full, Single}
  /\ Full # Single /\ ReportCounts \subseteq Nat /\ ForwardCounts \subseteq Nat
  /\ MaxChanges \in Nat /\ MaxSize \in Nat

VARIABLES
  alive,               \* the servers in alive_
  round_robin_index,
  num_reports, num_forwards,
  pc,
  local,               \* each thread's variables
  changes,             \* changes the loop may still make
  calm,                \* history: has nobody interfered with a thread's selection?
  emptied,             \* history: was alive_ emptied by others since Full read its size?
  last,                \* history: the last server taken in turn, unless disturbed since
  inTurn               \* history: was the order always kept?

vars == <<alive, round_robin_index, num_reports, num_forwards, pc, local, changes,
          calm, emptied, last, inTurn>>

Threads == {Full, Single}

\* When each of two threads overwrites what the other writes, the index grows
\* without limit. All values past the end of any table act alike: they are one.
Past == Cardinality(Servers)

Within == {"loop", "compare", "reset", "read", "bump", "get", "self", "chosen"}

Labels == Within \cup {"idle", "count", "pick", "contact", "terminated"}

Local ==
  [for: {"reports", "forwards"},   \* why neighbours are chosen
   k: ReportCounts \cup ForwardCounts \cup {0}, n: Nat, idx: Nat, at: Nat,
   others: SUBSET Servers,                   \* the set GetUniqueNeighbors returns
   left: SUBSET Servers]                     \* neighbours still to be sent a report

NoLocal == [for |-> "reports", k |-> 0, n |-> 0, idx |-> 0, at |-> 0,
            others |-> {}, left |-> {}]

TypeOK ==
  /\ alive \subseteq Servers
  /\ round_robin_index \in 0..Past
  /\ num_reports \in ReportCounts /\ num_forwards \in ForwardCounts
  /\ pc \in [Threads -> Labels] /\ local \in [Threads -> Local]
  /\ changes \in 0..MaxChanges
  /\ calm \in [Threads -> BOOLEAN] /\ emptied \in BOOLEAN
  /\ last \in Servers \cup {None} /\ inTurn \in BOOLEAN

\* num_reports_ and num_forwards_ are initialised from members that are declared,
\* and so initialised, after them: they may have any value.
Init ==
  /\ alive \in {s \in SUBSET Servers : Cardinality(s) <= MaxSize}
  /\ round_robin_index = 0
  /\ num_reports \in ReportCounts /\ num_forwards \in ForwardCounts
  /\ pc = [t \in Threads |-> "idle"]
  /\ local = [t \in Threads |-> NoLocal]
  /\ changes = MaxChanges
  /\ calm = [t \in Threads |-> TRUE] /\ emptied = FALSE
  /\ last = None /\ inTurn = TRUE

-----------------------------------------------------------------------------
Minimum(a, b) == IF a < b THEN a ELSE b

alive_size == Cardinality(alive)

Selecting(t) == pc[t] \in Within

\* An exception that leaves a thread ends the process.
Running == pc[Full] # "terminated"

\* Thread t goes on at label, with the variables l.
Goto(t, label, l) ==
  /\ pc' = [pc EXCEPT ![t] = label]
  /\ local' = [local EXCEPT ![t] = l]

\* The others' selections are not left alone.
Disturbs(t) == calm' = [u \in Threads |-> calm[u] /\ (u = t \/ ~Selecting(u))]

Silent == UNCHANGED <<alive, round_robin_index, num_reports, num_forwards, changes,
                      calm, emptied, last, inTurn>>

\* t changes alive_ (t = None: the server loop does).
ChangeAlive(t, new) ==
  /\ alive' = new
  /\ IF new # alive THEN Disturbs(t) /\ last' = None ELSE UNCHANGED <<calm, last>>
  /\ emptied' = (emptied \/ (t # Full /\ alive # {} /\ new = {}))
  /\ UNCHANGED <<round_robin_index, num_reports, num_forwards, inTurn>>

MutantCountsLess(t) ==
  LET l == local[t] IN
  /\ pc[t] = "count"
  /\ Goto(t, "loop", [l EXCEPT !.n = Minimum(l.k, alive_size) - 1, !.idx = 0, !.others = {}])
  /\ calm' = [calm EXCEPT ![t] = \A u \in Threads \ {t} : ~Selecting(u)]
  /\ emptied' = (emptied /\ t # Full)
  /\ UNCHANGED <<alive, round_robin_index, num_reports, num_forwards, changes, last, inTurn>>

MutantCountsAll(t) ==
  LET l == local[t] IN
  /\ pc[t] = "count"
  /\ Goto(t, "loop", [l EXCEPT !.n = l.k, !.idx = 0, !.others = {}])
  /\ calm' = [calm EXCEPT ![t] = \A u \in Threads \ {t} : ~Selecting(u)]
  /\ emptied' = (emptied /\ t # Full)
  /\ UNCHANGED <<alive, round_robin_index, num_reports, num_forwards, changes, last, inTurn>>

\* The server loop adds or removes a server (see SwimServer).
ServerLoop ==
  /\ Running /\ changes > 0 /\ changes' = changes - 1
  /\ \E s \in Servers :
       \/ s \notin alive /\ alive_size < MaxSize /\ ChangeAlive(None, alive \cup {s})
       \/ s \in alive /\ ChangeAlive(None, alive \ {s})
  /\ UNCHANGED <<pc, local>>

-----------------------------------------------------------------------------
(* GetUniqueNeighbors.                                                       *)

\* n is the lesser of k and the size of alive_ at this moment.
Count(t) ==
  LET l == local[t] IN
  /\ pc[t] = "count"
  /\ Goto(t, "loop", [l EXCEPT !.n = Minimum(l.k, alive_size), !.idx = 0, !.others = {}])
  /\ calm' = [calm EXCEPT ![t] = \A u \in Threads \ {t} : ~Selecting(u)]
  /\ emptied' = (emptied /\ t # Full)
  /\ UNCHANGED <<alive, round_robin_index, num_reports, num_forwards, changes, last, inTurn>>

\* while (idx < n): the index is read ...
Loop(t) ==
  LET l == local[t] IN
  /\ pc[t] = "loop"
  /\ IF l.idx < l.n THEN Goto(t, "compare", [l EXCEPT !.at = round_robin_index])
                    ELSE Goto(t, "chosen", l)
  /\ Silent

MutantResetsLate(t) ==
  /\ pc[t] = "compare"
  /\ Goto(t, IF local[t].at > alive_size THEN "reset" ELSE "read",
          [local[t] EXCEPT !.at = 0])
  /\ Silent

\* ... and compared with alive_size() - 1, which for an empty table is the largest
\* unsigned long.
Compare(t) ==
  /\ pc[t] = "compare"
  /\ Goto(t, IF alive_size > 0 /\ local[t].at > alive_size - 1 THEN "reset" ELSE "read",
          [local[t] EXCEPT !.at = 0])
  /\ Silent

WriteIndex(t, value) ==
  /\ round_robin_index' = value
  /\ Disturbs(t)
  /\ UNCHANGED <<alive, num_reports, num_forwards, changes, emptied, last, inTurn>>

Reset(t) == pc[t] = "reset" /\ WriteIndex(t, 0) /\ Goto(t, "read", local[t])

\* round_robin_index_++
Read(t) ==
  /\ pc[t] = "read" /\ Goto(t, "bump", [local[t] EXCEPT !.at = round_robin_index])
  /\ Silent

MutantForgetsTurn(t) == pc[t] = "bump" /\ WriteIndex(t, local[t].at) /\ Goto(t, "get", local[t])

Bump(t) == pc[t] = "bump" /\ WriteIndex(t, Minimum(local[t].at + 1, Past)) /\ Goto(t, "get", local[t])

\* The distance from alive_.begin().
Rank(s) == Cardinality({r \in alive : r < s})

\* empty_set: the thread of the full reports does not catch it, which ends the
\* process; the other one does.
Throw(t) ==
  /\ IF t = Full THEN Goto(t, "terminated", NoLocal) ELSE Goto(t, "idle", NoLocal)
  /\ Silent

\* After `last' it is s's turn.
Follows(s) ==
  LET others == alive \ {Self} IN
  \/ last = None
  \/ last < s /\ ~\E r \in others : last < r /\ r < s
  \/ s <= last /\ ~\E r \in others : r < s \/ last < r

\* The selection of another thread spoils the order.
Taken(t, s) ==
  /\ last' = IF calm[t] THEN s ELSE None
  /\ inTurn' = (inTurn /\ (calm[t] => Follows(s)))
  /\ UNCHANGED <<alive, round_robin_index, num_reports, num_forwards, changes, calm, emptied>>

GetNeighborByIndex(t) ==
  LET l == [local[t] EXCEPT !.at = 0]
      index == IF local[t].at >= alive_size THEN 0 ELSE local[t].at
  IN
  /\ pc[t] = "get"
  /\ \/ alive = {} /\ Throw(t)
     \/ \E other \in alive :
          /\ Rank(other) = index
          /\ \/ other = Self /\ Goto(t, "self", l) /\ Silent
             \/ /\ other # Self
                /\ Goto(t, "loop", [l EXCEPT !.others = @ \cup {other}, !.idx = @ + 1])
                /\ Taken(t, other)

MutantKeepsLooking(t) == pc[t] = "self" /\ Goto(t, "loop", local[t]) /\ Silent

MutantCountsSelf(t) ==
  /\ pc[t] = "self"
  /\ Goto(t, IF alive_size <= 1 THEN "chosen" ELSE "loop", [local[t] EXCEPT !.idx = @ + 1])
  /\ Silent

\* "get a different neighbor", if there may be one.
SkipSelf(t) ==
  /\ pc[t] = "self"
  /\ Goto(t, IF alive_size <= 1 THEN "chosen" ELSE "loop", local[t])
  /\ Silent

-----------------------------------------------------------------------------
(* The callers.                                                              *)

\* SendReport(type): nothing to do without neighbours.
SendReport(t) ==
  /\ pc[t] = "idle" /\ alive # {}
  /\ IF t = Full THEN Goto(t, "count", [NoLocal EXCEPT !.k = num_reports])
                 ELSE Goto(t, "pick", NoLocal)
  /\ Silent

\* SINGLE: GetRandomNeighbor.
GetRandomNeighbor(t) ==
  /\ t = Single /\ pc[t] = "pick"
  /\ \/ alive = {} /\ Throw(t)
     \/ \E other \in alive : Goto(t, "contact", [NoLocal EXCEPT !.left = {other}]) /\ Silent

\* The neighbours chosen are each sent a report, or asked to forward a request.
Return(t) ==
  LET l == local[t] IN
  /\ pc[t] = "chosen"
  /\ \/ /\ l.for = "reports"
        /\ Goto(t, "contact", [NoLocal EXCEPT !.left = l.others])
     \/ l.for = "forwards" /\ Goto(t, "contact", [NoLocal EXCEPT !.left = l.left])
  /\ Silent

\* SendReport(client, report, other), for one neighbour after the other: AddAlive
\* if it answers, else ReportSuspected, which adds this server itself to alive_, and
\* others are asked to ping it.
Contact(t) ==
  LET l == local[t] IN
  /\ pc[t] = "contact"
  /\ UNCHANGED changes
  /\ \/ l.left = {} /\ Goto(t, "idle", NoLocal) /\ ChangeAlive(t, alive)
     \/ \E other \in l.left :
          /\ \A s \in l.left : other <= s
          /\ \/ /\ Goto(t, "contact", [l EXCEPT !.left = @ \ {other}])
                /\ ChangeAlive(t, alive \cup {other})
             \/ /\ Goto(t, "count", [NoLocal EXCEPT !.for = "forwards", !.k = num_forwards,
                                                   !.left = l.left \ {other}])
                /\ ChangeAlive(t, IF other = Self THEN alive \cup {Self} ELSE alive \ {other})

-----------------------------------------------------------------------------
Step(t) ==
  /\ Running
  /\ \/ SendReport(t) \/ GetRandomNeighbor(t) \/ Return(t) \/ Contact(t)
     \/ Count(t) \/ Loop(t) \/ Compare(t) \/ Reset(t) \/ Read(t) \/ Bump(t)
     \/ GetNeighborByIndex(t) \/ SkipSelf(t)

Next == ServerLoop \/ \E t \in Threads : Step(t)

\* The two threads repeat their rounds for as long as the server runs.
Spec == Init /\ [][Next]_vars /\ \A t \in Threads : WF_vars(Step(t))

-----------------------------------------------------------------------------
\* GetUniqueNeighbors returns "a set of at most k neighboring servers": all that are
\* alive if there are no more than k, else k of them, and never this server, wherever
\* the round robin stood, if nothing interferes; and never more than k.
Chosen ==
  \A t \in Threads :
    LET l == local[t] IN
    pc[t] = "chosen" =>
      /\ Cardinality(l.others) <= l.k
      /\ calm[t] =>
           /\ l.others \subseteq alive \ {Self}
           /\ Cardinality(l.others) = Minimum(l.k, Cardinality(alive \ {Self}))

\* While alive_ does not change and one thread at a time selects, neighbours are taken
\* strictly in turn, across the rounds and across reports and forwarded requests:
\* none a second time before all the others.
InTurn == inTurn

\* The empty_set nobody catches, which ends the process, is only met when the server
\* loop or the other thread removed the last server from alive_ after GetUniqueNeighbors
\* had read its size: neither this thread's own failed contacts nor any other change of
\* the table or of the shared index in the meantime will do.
ThrowsOnlyIfEmptied == pc[Full] = "terminated" => emptied

\* Does thread t write round_robin_index_ no more, from some time on?
LeavesIndex(t) == <>[](pc[t] \notin {"reset", "bump"})

\* A selection ends, even if this server is listed as its own neighbour, unless the
\* other thread moves the shared index for ever.
SelectionEnds ==
  \A t \in Threads :
    (\A u \in Threads \ {t} : LeavesIndex(u)) =>
      (Selecting(t) ~> (~Selecting(t) \/ ~Running))

\* A neighbour that stays alive is sent a full report again and again, however few are
\* sent in one round: the round robin leaves nobody out, once no report fails. (While
\* reports fail, the requests to forward a ping use up turns, and may use up the same
\* neighbour's in every round.)
EveryoneReported ==
  \A s \in Servers \ {Self} :
    (/\ num_reports > 0 /\ []Running /\ <>[](s \in alive)
     /\ \A t \in Threads : <>[](local[t].for = "reports"))
       => []<>(s \in local[Full].left)
=============================================================================
