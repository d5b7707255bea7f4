----------------------------- MODULE SwimServer -----------------------------
(* The membership tables of one swim::SwimServer and every thread that       *)
(* touches them: the server loop (OnUpdate, OnReport, OnForwardRequest), the *)
(* detector's background threads, the detached forwarding threads and the    *)
(* callers of AddNeighbor.                                                   *)
(*                                                                           *)
(* alive_ and suspected_ are guarded by two mutexes that are never held      *)
(* together, so a call is a sequence of critical sections.  Each critical    *)
(* section, each read of lamport_time_ and each status callback is one       *)
(* action; pc[t] is the next one thread t takes and call[t] its locals.      *)
EXTENDS ReportBudget

CONSTANTS
  Servers,       \* the (hostname, port) pairs that occur in tables and messages
  PortZero,      \* those of them with port 0: clients that run no server
  Self,          \* what self() returns
  Loop,          \* the thread that runs start()
  Collector,     \* the detector's garbage collecting thread
  Workers,       \* every other thread that calls into the server
  Messages,      \* the messages the loop may receive ...
  Content(_),    \* ... and the envelope each of them carries
  GracePeriod,   \* the detector's grace period, in clock ticks
  Overlap,       \* may the calls of two threads overlap?
  MaxTime,       \* bound: the last clock tick
  MaxLamport,    \* bound: no message raises lamport_time_ above this
  Absent         \* no record (also the null pointer a callback may be given)

Threads == {Loop, Collector} \cup Workers

ServerRecord == [ts: Nat, lt: Nat, inc: Nat]

Envelope ==
  [lt: Nat, type: {"update", "report", "request"}, sender: Servers,
   alive: SUBSET ReportRecord(Servers), suspected: SUBSET ReportRecord(Servers),
   destination: Servers]

\* The lists of a report are copies of tables: each names a server once, so the
\* order in which a handler goes through them does not matter.
NamesEachOnce(records) ==
  \A r, q \in records : r.server = q.server => r = q

ASSUME ServerAssumption ==
  /\ PortZero \subseteq Servers
  /\ Self \in Servers \ PortZero
  /\ \A m \in Messages :
       /\ Content(m) \in Envelope
       /\ NamesEachOnce(Content(m).alive)
       /\ NamesEachOnce(Content(m).suspected)
  /\ Loop # Collector /\ Loop \notin Workers /\ Collector \notin Workers
  /\ Overlap \in BOOLEAN
  /\ GracePeriod \in Nat /\ MaxTime \in Nat /\ MaxLamport \in Nat
  /\ Absent \notin Servers
  /\ Absent \notin ServerRecord
  /\ Absent \notin ReportRecord(Servers)

VARIABLES
  now,            \* utils::CurrentTime()
  lamport_time,
  alive,          \* alive_: the record of each server, or Absent
  suspected,      \* suspected_
  forwards,       \* destinations a detached forwarding thread is contacting
  pc,
  call,
  told            \* the last status callback made about each server

vars == <<now, lamport_time, alive, suspected, forwards, pc, call, told>>

Table == [Servers -> ServerRecord \cup {Absent}]

Labels ==
  {"idle", "erase_suspected", "stamp_alive", "insert_alive", "refresh_alive",
   "notify_alive", "stamp_suspect", "erase_alive", "insert_suspect",
   "notify_suspect", "forgive", "next_alive", "raise_alive", "next_suspect",
   "ping_back", "raise_suspect", "spawn_forward", "gc_budget", "gc_expire",
   "gc_evict", "notify_removed"}

\* Where AddAlive and ReportSuspected may return to.
Returns == {"idle", "forgive", "spawn_forward", "next_alive", "raise_alive",
            "raise_suspect"}

\* The locals of a call: the server and timestamp it was given, the Lamport
\* time it has read, where to go on when AddAlive or ReportSuspected returns,
\* the records of a report still to be looked at, the one being looked at, and
\* the destination of a forward request.
Call ==
  [ts: Nat, lt: Nat,
   al: SUBSET ReportRecord(Servers), su: SUBSET ReportRecord(Servers),
   srv: Servers \cup {Absent}, ret: Returns,
   rec: ReportRecord(Servers) \cup {Absent}, dst: Servers \cup {Absent}]

NoCall == [ts |-> 0, lt |-> 0, al |-> {}, su |-> {},
           srv |-> Absent, ret |-> "idle", rec |-> Absent, dst |-> Absent]

Told == [status: {"unknown", "alive", "suspect", "removed"},
         record: Servers \cup {Absent}]

TypeOK ==
  /\ now \in Nat
  /\ lamport_time \in Nat
  /\ alive \in Table
  /\ suspected \in Table
  /\ forwards \in SUBSET Servers
  /\ pc \in [Threads -> Labels]
  /\ call \in [Threads -> Call]
  /\ told \in [Servers -> Told]

Init ==
  /\ now = 0
  /\ lamport_time = 0
  /\ alive = [s \in Servers |-> Absent]
  /\ suspected = [s \in Servers |-> Absent]
  /\ forwards = {}
  /\ pc = [t \in Threads |-> "idle"]
  /\ call = [t \in Threads |-> NoCall]
  /\ told = [s \in Servers |-> [status |-> "unknown", record |-> Absent]]

-----------------------------------------------------------------------------
\* Control.

Idle(t) == pc[t] = "idle"

\* Thread t may begin a call.
MayBegin(t) == Idle(t) /\ (Overlap \/ \A u \in Threads : Idle(u))

\* Thread t goes on at label, with the locals c.
Jump(t, label, c) ==
  /\ pc' = [pc EXCEPT ![t] = label]
  /\ call' = [call EXCEPT ![t] = IF label = "idle" THEN NoCall ELSE c]

At(t, label) == pc[t] = label

Tick ==
  /\ now < MaxTime
  /\ now' = now + 1
  /\ UNCHANGED <<lamport_time, alive, suspected, forwards, pc, call, told>>

MutantStampsEarlier(ts, lt) == [ts |-> ts - 1, lt |-> lt, inc |-> 0]

\* A record made by MakeRecord, which does not copy the incarnation.
MakeRecord(ts, lt) == [ts |-> ts, lt |-> lt, inc |-> 0]

Later(a, b) == IF a > b THEN a ELSE b

UpdateLamportTime(time) ==
  /\ Later(lamport_time, time) < MaxLamport
  /\ lamport_time' = Later(lamport_time, time) + 1

-----------------------------------------------------------------------------
\* AddAlive(c.srv, c.ts), which goes on at c.ret when it returns.

EnterAddAlive(s, ret) == IF s \in PortZero THEN ret ELSE "erase_suspected"

\* RemoveSuspected(server, RemoveType::alive): no callback.
RemoveSuspected(t) ==
  /\ At(t, "erase_suspected")
  /\ suspected' = [suspected EXCEPT ![call[t].srv] = Absent]
  /\ Jump(t, "stamp_alive", call[t])
  /\ UNCHANGED <<now, lamport_time, alive, forwards, told>>

MutantStampsAhead(t) ==
  /\ At(t, "stamp_alive")
  /\ Jump(t, "insert_alive", [call[t] EXCEPT !.lt = lamport_time + 1])
  /\ UNCHANGED <<now, lamport_time, alive, suspected, forwards, told>>

StampAlive(t) ==
  /\ At(t, "stamp_alive")
  /\ Jump(t, "insert_alive", [call[t] EXCEPT !.lt = lamport_time])
  /\ UNCHANGED <<now, lamport_time, alive, suspected, forwards, told>>

InsertAlive(t) ==
  LET c == call[t] IN
  /\ At(t, "insert_alive")
  /\ \/ /\ alive[c.srv] = Absent
        /\ alive' = [alive EXCEPT ![c.srv] = MakeRecord(c.ts, c.lt)]
        /\ Jump(t, "notify_alive", c)
     \/ /\ alive[c.srv] # Absent
        /\ Jump(t, "refresh_alive", c)
        /\ UNCHANGED alive
  /\ UNCHANGED <<now, lamport_time, suspected, forwards, told>>

MutantRefreshesWithOldStamp(t) ==
  LET c == call[t] IN
  /\ At(t, "refresh_alive")
  /\ alive' = IF alive[c.srv] = Absent THEN alive
              ELSE [alive EXCEPT ![c.srv] = [@ EXCEPT !.ts = c.ts, !.lt = c.lt]]
  /\ Jump(t, c.ret, c)
  /\ UNCHANGED <<now, lamport_time, suspected, forwards, told>>

\* A second critical section: the record may be gone by now, and lamport_time_
\* is read again.
RefreshAlive(t) ==
  LET c == call[t] IN
  /\ At(t, "refresh_alive")
  /\ alive' = IF alive[c.srv] = Absent THEN alive
              ELSE [alive EXCEPT
                      ![c.srv] = [@ EXCEPT !.ts = c.ts, !.lt = lamport_time]]
  /\ Jump(t, c.ret, c)
  /\ UNCHANGED <<now, lamport_time, suspected, forwards, told>>

NotifyAlive(t) ==
  LET c == call[t] IN
  /\ At(t, "notify_alive")
  /\ told' = [told EXCEPT ![c.srv] = [status |-> "alive", record |-> c.srv]]
  /\ Jump(t, c.ret, c)
  /\ UNCHANGED <<now, lamport_time, alive, suspected, forwards>>

AddAlive(t) ==
  \/ RemoveSuspected(t) \/ StampAlive(t) \/ InsertAlive(t)
  \/ RefreshAlive(t) \/ NotifyAlive(t)

-----------------------------------------------------------------------------
\* ReportSuspected(c.srv, c.ts), which goes on at c.ret when it returns.

MutantSuspectsSelf(s, ret) == IF s \in PortZero THEN ret ELSE "stamp_suspect"

\* A server never suspects itself: that call is one of AddAlive.
EnterReportSuspected(s, ret) ==
  CASE s \in PortZero -> ret
    [] s = Self       -> "erase_suspected"
    [] OTHER          -> "stamp_suspect"

StampSuspect(t) ==
  /\ At(t, "stamp_suspect")
  /\ Jump(t, "erase_alive", [call[t] EXCEPT !.lt = lamport_time])
  /\ UNCHANGED <<now, lamport_time, alive, suspected, forwards, told>>

MutantKeepsAlive(t) ==
  /\ At(t, "erase_alive")
  /\ Jump(t, "insert_suspect", call[t])
  /\ UNCHANGED <<now, lamport_time, alive, suspected, forwards, told>>

EraseAlive(t) ==
  /\ At(t, "erase_alive")
  /\ alive' = [alive EXCEPT ![call[t].srv] = Absent]
  /\ Jump(t, "insert_suspect", call[t])
  /\ UNCHANGED <<now, lamport_time, suspected, forwards, told>>

MutantSuspectsSilently(t) ==
  LET c == call[t] IN
  /\ At(t, "insert_suspect")
  /\ suspected' = IF suspected[c.srv] # Absent THEN suspected
                  ELSE [suspected EXCEPT ![c.srv] = MakeRecord(c.ts, c.lt)]
  /\ Jump(t, c.ret, c)
  /\ UNCHANGED <<now, lamport_time, alive, forwards, told>>

MutantRestartsSuspicion(t) ==
  LET c == call[t] IN
  /\ At(t, "insert_suspect")
  /\ suspected' = [suspected EXCEPT ![c.srv] = MakeRecord(c.ts, c.lt)]
  /\ Jump(t, IF suspected[c.srv] = Absent THEN "notify_suspect" ELSE c.ret, c)
  /\ UNCHANGED <<now, lamport_time, alive, forwards, told>>

\* A server already suspected keeps the record it has.
InsertSuspect(t) ==
  LET c == call[t] IN
  /\ At(t, "insert_suspect")
  /\ \/ /\ suspected[c.srv] = Absent
        /\ suspected' = [suspected EXCEPT ![c.srv] = MakeRecord(c.ts, c.lt)]
        /\ Jump(t, "notify_suspect", c)
     \/ /\ suspected[c.srv] # Absent
        /\ Jump(t, c.ret, c)
        /\ UNCHANGED suspected
  /\ UNCHANGED <<now, lamport_time, alive, forwards, told>>

\* The callback is given the shared_ptr that was moved into the set: null.
NotifySuspect(t) ==
  LET c == call[t] IN
  /\ At(t, "notify_suspect")
  /\ told' = [told EXCEPT ![c.srv] = [status |-> "suspect", record |-> Absent]]
  /\ Jump(t, c.ret, c)
  /\ UNCHANGED <<now, lamport_time, alive, suspected, forwards>>

ReportSuspected(t) ==
  StampSuspect(t) \/ EraseAlive(t) \/ InsertSuspect(t) \/ NotifySuspect(t)

-----------------------------------------------------------------------------
\* The server loop: one message at a time, first the clock, then AddAlive for
\* the sender, then what the message's type asks for (at ret).

Receive(m, ret) ==
  /\ MayBegin(Loop)
  /\ UpdateLamportTime(m.lt)
  /\ Jump(Loop, EnterAddAlive(m.sender, ret),
          [NoCall EXCEPT !.srv = m.sender, !.ts = now, !.ret = ret,
                         !.al = m.alive, !.su = m.suspected,
                         !.dst = m.destination])
  /\ UNCHANGED <<now, alive, suspected, forwards, told>>

OnUpdate(m) ==
  /\ m.type = "update"
  /\ Receive(m, "forgive")

\* OnUpdate erases the sender from suspected_ once more, after AddAlive.
Forgive(t) ==
  /\ At(t, "forgive")
  /\ suspected' = [suspected EXCEPT ![call[t].srv] = Absent]
  /\ Jump(t, "idle", NoCall)
  /\ UNCHANGED <<now, lamport_time, alive, forwards, told>>

OnReport(m) ==
  /\ m.type = "report"
  /\ Receive(m, "next_alive")

OnForwardRequest(m) ==
  /\ m.type = "request"
  /\ Receive(m, "spawn_forward")

\* After AddAlive, a detached thread is started to contact the destination.
SpawnForward(t) ==
  /\ At(t, "spawn_forward")
  /\ forwards' = forwards \cup {call[t].dst}
  /\ Jump(t, "idle", NoCall)
  /\ UNCHANGED <<now, lamport_time, alive, suspected, told>>

\* This server's own record of the same server is newer than the report's.
Stale(table, r) == table[r.server] # Absent /\ table[r.server].lt > r.lt

RaiseIncarnation(table, r) ==
  IF table[r.server] # Absent /\ r.inc > table[r.server].inc
  THEN [table EXCEPT ![r.server] = [@ EXCEPT !.inc = r.inc]]
  ELSE table

\* Start the call that record r of a report asks for.
About(c, r, ret) ==
  [c EXCEPT !.srv = r.server, !.ts = r.ts, !.ret = ret, !.rec = r]

MutantBelievesOldNews(t) ==
  LET c == call[t] IN
  /\ At(t, "next_alive")
  /\ \/ c.al = {} /\ Jump(t, "next_suspect", c)
     \/ \E r \in c.al :
          LET d == [c EXCEPT !.al = @ \ {r}] IN
          IF r.server = Self
          THEN Jump(t, "next_alive", d)
          ELSE Jump(t, EnterAddAlive(r.server, "raise_alive"),
                    About(d, r, "raise_alive"))
  /\ UNCHANGED <<now, lamport_time, alive, suspected, forwards, told>>

\* The loop over report->alive(): take the next record and check it.
NextAlive(t) ==
  LET c == call[t] IN
  /\ At(t, "next_alive")
  /\ \/ c.al = {} /\ Jump(t, "next_suspect", c)
     \/ \E r \in c.al :
          LET d == [c EXCEPT !.al = @ \ {r}] IN
          IF r.server = Self \/ Stale(suspected, r)
          THEN Jump(t, "next_alive", d)
          ELSE Jump(t, EnterAddAlive(r.server, "raise_alive"),
                    About(d, r, "raise_alive"))
  /\ UNCHANGED <<now, lamport_time, alive, suspected, forwards, told>>

RaiseAlive(t) ==
  /\ At(t, "raise_alive")
  /\ alive' = RaiseIncarnation(alive, call[t].rec)
  /\ Jump(t, "next_alive", call[t])
  /\ UNCHANGED <<now, lamport_time, suspected, forwards, told>>

\* The loop over report->suspected().
NextSuspect(t) ==
  LET c == call[t] IN
  /\ At(t, "next_suspect")
  /\ \/ c.su = {} /\ Jump(t, "idle", NoCall)
     \/ \E r \in c.su :
          LET d == [c EXCEPT !.su = @ \ {r}] IN
          CASE r.server = Self  -> Jump(t, "ping_back", d)
            [] r.server # Self /\ Stale(alive, r) -> Jump(t, "next_suspect", d)
            [] OTHER ->
                 Jump(t, EnterReportSuspected(r.server, "raise_suspect"),
                      About(d, r, "raise_suspect"))
  /\ UNCHANGED <<now, lamport_time, alive, suspected, forwards, told>>

\* The loop thread pings the report's sender and waits; the answer is ignored.
PingBack(t) ==
  /\ At(t, "ping_back")
  /\ Jump(t, "next_suspect", call[t])
  /\ UNCHANGED <<now, lamport_time, alive, suspected, forwards, told>>

RaiseSuspect(t) ==
  /\ At(t, "raise_suspect")
  /\ suspected' = RaiseIncarnation(suspected, call[t].rec)
  /\ Jump(t, "next_suspect", call[t])
  /\ UNCHANGED <<now, lamport_time, alive, forwards, told>>

HandlerStep(t) ==
  \/ Forgive(t) \/ NextAlive(t) \/ RaiseAlive(t)
  \/ NextSuspect(t) \/ PingBack(t) \/ RaiseSuspect(t) \/ SpawnForward(t)

-----------------------------------------------------------------------------
\* The calls of the other threads.

\* A ping or a report was answered: SendReport, PingRandomSuspected, AddNeighbor.
Answered(t, s) ==
  /\ MayBegin(t)
  /\ Jump(t, EnterAddAlive(s, "idle"), [NoCall EXCEPT !.srv = s, !.ts = now])
  /\ UNCHANGED <<now, lamport_time, alive, suspected, forwards, told>>

\* A ping or a report failed: SendReport, AddNeighbor.
Unanswered(t, s) ==
  /\ MayBegin(t)
  /\ Jump(t, EnterReportSuspected(s, "idle"),
          [NoCall EXCEPT !.srv = s, !.ts = now])
  /\ UNCHANGED <<now, lamport_time, alive, suspected, forwards, told>>

\* The detached thread of OnForwardRequest gets its answer, and ends ...
ForwardAnswered(s) ==
  /\ s \in forwards
  /\ forwards' = forwards \ {s}
  /\ UNCHANGED <<now, lamport_time, alive, suspected, pc, call, told>>

\* ... or fails, and reports the destination.
ForwardFailed(t, s) ==
  /\ s \in forwards
  /\ forwards' = forwards \ {s}
  /\ MayBegin(t)
  /\ Jump(t, EnterReportSuspected(s, "idle"),
          [NoCall EXCEPT !.srv = s, !.ts = now])
  /\ UNCHANGED <<now, lamport_time, alive, suspected, told>>

\* A copy of a table's records.
Records(table) ==
  { [ts |-> table[s].ts, lt |-> table[s].lt, inc |-> table[s].inc, server |-> s] :
      s \in { x \in Servers : table[x] # Absent } }

\* GarbageCollectSuspected looks at the suspected list of a report: PrepareReport
\* copies suspected_ under its mutex ...
GarbageCollectSuspected(t) ==
  /\ MayBegin(t)
  /\ Jump(t, "gc_budget", [NoCall EXCEPT !.su = Records(suspected)])
  /\ UNCHANGED <<now, lamport_time, alive, suspected, forwards, told>>

\* ... and cuts the copy to the budget, by the time it is then ...
GCBudget(t) ==
  /\ At(t, "gc_budget")
  /\ \E report \in AddRecordsToBudget(call[t].su, now) :
       Jump(t, "gc_expire", [call[t] EXCEPT !.su = report])
  /\ UNCHANGED <<now, lamport_time, alive, suspected, forwards, told>>

MutantExpiresNone(t) ==
  /\ At(t, "gc_expire")
  /\ Jump(t, "gc_evict", [call[t] EXCEPT !.su = {}])
  /\ UNCHANGED <<now, lamport_time, alive, suspected, forwards, told>>

MutantExpiresAll(t) ==
  /\ At(t, "gc_expire")
  /\ Jump(t, "gc_evict", call[t])
  /\ UNCHANGED <<now, lamport_time, alive, suspected, forwards, told>>

\* ... then the collector picks the records older than the grace period ...
GCExpire(t) ==
  /\ At(t, "gc_expire")
  /\ Jump(t, "gc_evict",
          [call[t] EXCEPT !.su = { r \in @ : r.ts < now - GracePeriod }])
  /\ UNCHANGED <<now, lamport_time, alive, suspected, forwards, told>>

\* ... and removes each from suspected_, by name, with a callback if it was
\* there: RemoveSuspected(server, RemoveType::evicted).
GCEvict(t) ==
  LET c == call[t] IN
  /\ At(t, "gc_evict")
  /\ \/ /\ c.su = {}
        /\ Jump(t, "idle", NoCall)
        /\ UNCHANGED suspected
     \/ \E r \in c.su :
          /\ suspected' = [suspected EXCEPT ![r.server] = Absent]
          /\ Jump(t, IF suspected[r.server] = Absent
                     THEN "gc_evict" ELSE "notify_removed",
                  [c EXCEPT !.su = @ \ {r}, !.srv = r.server])
  /\ UNCHANGED <<now, lamport_time, alive, forwards, told>>

NotifyRemoved(t) ==
  LET c == call[t] IN
  /\ At(t, "notify_removed")
  /\ told' = [told EXCEPT ![c.srv] = [status |-> "removed", record |-> c.srv]]
  /\ Jump(t, "gc_evict", c)
  /\ UNCHANGED <<now, lamport_time, alive, suspected, forwards>>

GCStep(t) == GCBudget(t) \/ GCExpire(t) \/ GCEvict(t) \/ NotifyRemoved(t)

-----------------------------------------------------------------------------
\* A thread goes on with the call it is in.
Step(t) == AddAlive(t) \/ ReportSuspected(t) \/ HandlerStep(t) \/ GCStep(t)

Begin ==
  \/ \E m \in Messages :
       \/ OnUpdate(Content(m))
       \/ OnReport(Content(m))
       \/ OnForwardRequest(Content(m))
  \/ \E t \in Workers, s \in Servers :
       Answered(t, s) \/ Unanswered(t, s) \/ ForwardFailed(t, s)
  \/ \E s \in Servers : ForwardAnswered(s)
  \/ GarbageCollectSuspected(Collector)

Next == Tick \/ Begin \/ \E t \in Threads : Step(t)

Spec == Init /\ [][Next]_vars

\* The scheduler runs every thread that is inside a call (no mutex is held while
\* a thread waits for anything else) and the collector starts a round again and
\* again, once per update_round_interval_.
FairSpec ==
  /\ Spec
  /\ \A t \in Threads : WF_vars(Step(t))
  /\ WF_vars(GarbageCollectSuspected(Collector))

-----------------------------------------------------------------------------
\* Properties of every execution, calls overlapping or not.

\* self() is never put in suspected_, whatever reports say and whichever pings
\* fail (the "myself is always alive" branch of ReportSuspected).
SelfNeverSuspected == suspected[Self] = Absent

\* No record carries a Lamport time this server has not reached: records taken
\* from reports are stamped afresh with lamport_time_, not with the reporter's
\* time, and the stamp a thread has read is still in the past when it is used.
StampsInThePast ==
  \A s \in Servers :
    /\ alive[s] # Absent => alive[s].lt <= lamport_time
    /\ suspected[s] # Absent => suspected[s].lt <= lamport_time

\* As long as a server stays in alive_, its Lamport time and its incarnation do
\* not go back, even when two threads are in AddAlive for it at once: the
\* refreshing critical section reads lamport_time_ again.
AliveRecordsGrow ==
  [][\A s \in Servers :
       alive[s] # Absent /\ alive'[s] # Absent =>
         alive[s].lt <= alive'[s].lt /\ alive[s].inc <= alive'[s].inc]_vars

\* As long as a server stays in suspected_, the time it was suspected at does
\* not move, so that failing to answer again does not postpone its eviction.
SuspicionKept ==
  [][\A s \in Servers :
       suspected[s] # Absent /\ suspected'[s] # Absent =>
         suspected'[s].ts = suspected[s].ts /\ suspected'[s].lt = suspected[s].lt]_vars

\* A server suspected for longer than the grace period leaves suspected_: the
\* garbage collector evicts it, unless it is found alive first.
EvictionHappens ==
  \A s \in Servers :
    (suspected[s] # Absent /\ suspected[s].ts < now - GracePeriod)
      ~> (suspected[s] = Absent)

-----------------------------------------------------------------------------
\* Properties of executions whose calls do not overlap.

\* No server is both alive and suspected (AddAlive: "added to the `alive_` set
\* (and, if necessary, removed from the `suspected_` one)").
Exclusive == \A s \in Servers : alive[s] = Absent \/ suspected[s] = Absent

Quiescent == \A t \in Threads : Idle(t)

Status(s) ==
  CASE alive[s] # Absent     -> {"alive"}
    [] suspected[s] # Absent -> {"suspect"}
    [] OTHER                 -> {"unknown", "removed"}

\* Between calls, the last status callback about each server says which table
\* the server is in.
ToldIsCurrent == Quiescent => \A s \in Servers : told[s].status \in Status(s)

\* OnReport changes a server's table only on news that is not older than what
\* the table holds: the record it is about to remove was not stamped after the
\* reported one.
StaleNewsIgnored ==
  [][\A t \in Threads :
       LET c == call[t] IN
       /\ (At(t, "erase_suspected") /\ c.ret = "raise_alive" /\ pc'[t] # pc[t])
            => ~Stale(suspected, c.rec)
       /\ (At(t, "erase_alive") /\ c.ret = "raise_suspect" /\ pc'[t] # pc[t])
            => ~Stale(alive, c.rec)]_vars

\* The garbage collector evicts no server whose suspicion is younger than the
\* grace period.
EvictsOnlyExpired ==
  [][\A s \in Servers :
       (At(Collector, "gc_evict") /\ pc'[Collector] = "notify_removed"
          /\ call'[Collector].srv = s)
         => suspected[s].ts < now - GracePeriod]_vars

=============================================================================
