-------------------------- MODULE SwimServerProofs --------------------------
(* Proofs about SwimServer, for any servers, threads, messages and bounds.   *)
EXTENDS SwimServerRefinement, TLAPS

-----------------------------------------------------------------------------
\* Lemmas about the operators the actions are built from.

\* A report contains only records of the table it was made from.
LEMMA BudgetSelects ==
  ASSUME NEW records, NEW time, NEW S \in AddRecordsToBudget(records, time)
  PROVE  S \subseteq records
<1>1. PICK order \in NewestFirst(records) :
        S = { order[i] : i \in { j \in DOMAIN order : j <= Affordable(order, time) } }
  BY DEF AddRecordsToBudget
<1>2. order \in [1 .. Cardinality(records) -> records]
  BY DEF NewestFirst, Bijection, Injection
<1> QED
  BY <1>1, <1>2

\* The locals of an idle thread.
LEMMA NoCallTyped == NoCall \in Call
  BY DEF NoCall, Call, Returns

\* A jump keeps the types of the program counters and of the threads' locals.
LEMMA JumpTyped ==
  ASSUME TypeOK, NEW t \in Threads, NEW label \in Labels, NEW c \in Call,
         Jump(t, label, c)
  PROVE  pc' \in [Threads -> Labels] /\ call' \in [Threads -> Call]
  BY NoCallTyped DEF TypeOK, Jump

\* A new record is a record.
LEMMA RecordTyped ==
  ASSUME NEW ts \in Nat, NEW lt \in Nat
  PROVE  MakeRecord(ts, lt) \in ServerRecord
  BY DEF MakeRecord, ServerRecord

\* Restamping the locals.
LEMMA StampTyped ==
  ASSUME NEW c \in Call, NEW lt \in Nat
  PROVE  [c EXCEPT !.lt = lt] \in Call /\ [c EXCEPT !.lt = lt].srv = c.srv
  BY DEF Call

\* Where AddAlive and ReportSuspected begin is a label.
LEMMA EntriesTyped ==
  ASSUME NEW s \in Servers, NEW ret \in Returns
  PROVE  EnterAddAlive(s, ret) \in Labels /\ EnterReportSuspected(s, ret) \in Labels
  BY DEF EnterAddAlive, EnterReportSuspected, Labels, Returns

\* Calls return to labels.
LEMMA ReturnsAreLabels == Returns \subseteq Labels
  BY DEF Returns, Labels

\* Raising an incarnation changes nothing but the incarnation of a record.
LEMMA RaiseTyped ==
  ASSUME NEW table \in Table, NEW r \in ReportRecord(Servers)
  PROVE  /\ RaiseIncarnation(table, r) \in Table
         /\ \A s \in Servers :
              /\ table[s] = Absent <=> RaiseIncarnation(table, r)[s] = Absent
              /\ table[s] # Absent =>
                   /\ RaiseIncarnation(table, r)[s].ts = table[s].ts
                   /\ RaiseIncarnation(table, r)[s].lt = table[s].lt
                   /\ RaiseIncarnation(table, r)[s].inc >= table[s].inc
<1> USE ServerAssumption DEF Table, ServerRecord, ReportRecord
<1>1. CASE table[r.server] # Absent /\ r.inc > table[r.server].inc
  <2> DEFINE raised == [table[r.server] EXCEPT !.inc = r.inc]
  <2>1. table[r.server] \in ServerRecord
    BY <1>1
  <2>2. raised \in ServerRecord /\ raised # Absent
    BY <2>1
  <2>3. RaiseIncarnation(table, r) = [table EXCEPT ![r.server] = raised]
    BY <1>1 DEF RaiseIncarnation
  <2>4. raised.ts = table[r.server].ts /\ raised.lt = table[r.server].lt
        /\ raised.inc >= table[r.server].inc
    BY <2>1, <1>1
  <2> HIDE DEF raised
  <2> QED
    BY <2>2, <2>3, <2>4, <1>1
<1>2. CASE ~(table[r.server] # Absent /\ r.inc > table[r.server].inc)
  BY <1>2 DEF RaiseIncarnation
<1> QED
  BY <1>1, <1>2

-----------------------------------------------------------------------------
\* Type correctness.  A thread that is about to touch a table for a server has
\* that server in its locals, one that is about to raise an incarnation (or
\* will return to do so) has the report's record, and one that is about to start
\* a forwarding thread (or will return to do so) has its destination.

AboutServer ==
  {"erase_suspected", "stamp_alive", "insert_alive", "refresh_alive",
   "notify_alive", "stamp_suspect", "erase_alive", "insert_suspect",
   "notify_suspect", "forgive", "notify_removed"}

Raising == {"raise_alive", "raise_suspect"}

CallFormed(label, c) ==
  /\ label \in AboutServer => c.srv \in Servers
  /\ label \in Raising => c.rec \in ReportRecord(Servers)
  /\ c.ret \in Raising => c.rec \in ReportRecord(Servers)
  /\ label = "spawn_forward" => c.dst \in Servers
  /\ c.ret = "spawn_forward" => c.dst \in Servers

TypeInv == TypeOK /\ \A t \in Threads : CallFormed(pc[t], call[t])

\* A jump to a label with the locals it needs keeps every thread formed.
LEMMA JumpFormed ==
  ASSUME TypeInv, NEW t \in Threads, NEW label \in Labels, NEW c \in Call,
         Jump(t, label, c), CallFormed(label, c)
  PROVE  /\ pc' \in [Threads -> Labels]
         /\ call' \in [Threads -> Call]
         /\ \A u \in Threads : CallFormed(pc'[u], call'[u])
  BY JumpTyped, NoCallTyped
  DEF TypeInv, TypeOK, Jump, CallFormed, NoCall, AboutServer, Raising

\* Nobody is inside a call at the beginning.
LEMMA InitTyped == Init => TypeInv
  BY NoCallTyped, ServerAssumption
  DEF Init, TypeInv, TypeOK, Table, Told, Labels, CallFormed, NoCall,
      AboutServer, Raising

\* What a step inside AddAlive may do, given that its locals are formed.
LEMMA AddAliveTyped ==
  ASSUME TypeInv, NEW t \in Threads, AddAlive(t)
  PROVE  TypeInv'
<1> DEFINE c == call[t]
<1> USE DEF At
<1>0. c \in Call /\ c.ret \in Labels /\ CallFormed(pc[t], c)
  BY ReturnsAreLabels DEF TypeInv, TypeOK, Call
<1>1. CASE RemoveSuspected(t)
  <2>1. CallFormed("stamp_alive", c)
    BY <1>0, <1>1 DEF RemoveSuspected, CallFormed, AboutServer, Raising
  <2>2. suspected' \in Table
    BY <1>1, Zenon DEF RemoveSuspected, TypeInv, TypeOK, Table
  <2> QED
    BY <1>0, <1>1, <2>1, <2>2, JumpFormed
    DEF RemoveSuspected, TypeInv, TypeOK, Labels
<1>2. CASE StampAlive(t)
  <2> DEFINE d == [c EXCEPT !.lt = lamport_time]
  <2>1. d \in Call /\ CallFormed("insert_alive", d)
    BY <1>0, <1>2, Zenon
    DEF StampAlive, CallFormed, AboutServer, Raising, Call, TypeInv, TypeOK
  <2> QED
    BY <1>2, <2>1, JumpFormed DEF StampAlive, TypeInv, TypeOK, Labels
<1>3. CASE InsertAlive(t)
  <2>1. CallFormed("notify_alive", c) /\ CallFormed("refresh_alive", c)
    BY <1>0, <1>3 DEF InsertAlive, CallFormed, AboutServer, Raising
  <2>2. MakeRecord(c.ts, c.lt) \in ServerRecord
    BY <1>0, RecordTyped DEF Call
  <2>3. alive' \in Table
    BY <1>3, <2>2 DEF InsertAlive, TypeInv, TypeOK, Table
  <2>4. pc' \in [Threads -> Labels] /\ call' \in [Threads -> Call]
        /\ \A u \in Threads : CallFormed(pc'[u], call'[u])
    BY <1>0, <1>3, <2>1, JumpFormed DEF InsertAlive, Labels
  <2> QED
    BY <1>3, <2>3, <2>4 DEF InsertAlive, TypeInv, TypeOK
<1>4. CASE RefreshAlive(t)
  <2>1. CallFormed(c.ret, c)
    BY <1>0, <1>4
    DEF RefreshAlive, CallFormed, AboutServer, Raising, Call, Returns
  <2>2. alive' \in Table
    <3>1. c.srv \in Servers
      BY <1>0, <1>4 DEF RefreshAlive, CallFormed, AboutServer
    <3>2. CASE alive[c.srv] = Absent
      BY <1>4, <3>2 DEF RefreshAlive, TypeInv, TypeOK
    <3>3. CASE alive[c.srv] # Absent
      <4>1. alive[c.srv] \in ServerRecord
        BY <3>1, <3>3 DEF TypeInv, TypeOK, Table
      <4>2. [alive[c.srv] EXCEPT !.ts = c.ts, !.lt = lamport_time] \in ServerRecord
        BY <4>1, <1>0, Zenon DEF ServerRecord, Call, TypeInv, TypeOK
      <4> QED
        BY <1>4, <3>3, <4>2, Zenon DEF RefreshAlive, TypeInv, TypeOK, Table
    <3> QED
      BY <3>2, <3>3
  <2> QED
    BY <1>0, <1>4, <2>1, <2>2, JumpFormed DEF RefreshAlive, TypeInv, TypeOK
<1>5. CASE NotifyAlive(t)
  <2>1. CallFormed(c.ret, c)
    BY <1>0, <1>5
    DEF NotifyAlive, CallFormed, AboutServer, Raising, Call, Returns
  <2>2. told' \in [Servers -> Told]
    BY <1>0, <1>5, Zenon DEF NotifyAlive, TypeInv, TypeOK, Told, Call
  <2> QED
    BY <1>0, <1>5, <2>1, <2>2, JumpFormed DEF NotifyAlive, TypeInv, TypeOK
<1> QED
  BY <1>1, <1>2, <1>3, <1>4, <1>5 DEF AddAlive

\* The same for a step inside ReportSuspected.
LEMMA ReportSuspectedTyped ==
  ASSUME TypeInv, NEW t \in Threads, ReportSuspected(t)
  PROVE  TypeInv'
<1> DEFINE c == call[t]
<1> USE DEF At
<1>0. c \in Call /\ c.ret \in Labels /\ CallFormed(pc[t], c)
  BY ReturnsAreLabels DEF TypeInv, TypeOK, Call
<1>1. CASE StampSuspect(t)
  <2> DEFINE d == [c EXCEPT !.lt = lamport_time]
  <2>1. d \in Call /\ CallFormed("erase_alive", d)
    BY <1>0, <1>1, Zenon
    DEF StampSuspect, CallFormed, AboutServer, Raising, Call, TypeInv, TypeOK
  <2> QED
    BY <1>1, <2>1, JumpFormed DEF StampSuspect, TypeInv, TypeOK, Labels
<1>2. CASE EraseAlive(t)
  <2>1. CallFormed("insert_suspect", c)
    BY <1>0, <1>2 DEF EraseAlive, CallFormed, AboutServer, Raising
  <2>2. alive' \in Table
    BY <1>2, Zenon DEF EraseAlive, TypeInv, TypeOK, Table
  <2> QED
    BY <1>0, <1>2, <2>1, <2>2, JumpFormed DEF EraseAlive, TypeInv, TypeOK, Labels
<1>3. CASE InsertSuspect(t)
  <2>1. CallFormed("notify_suspect", c) /\ CallFormed(c.ret, c)
    BY <1>0, <1>3
    DEF InsertSuspect, CallFormed, AboutServer, Raising, Call, Returns
  <2>2. MakeRecord(c.ts, c.lt) \in ServerRecord
    BY <1>0, RecordTyped DEF Call
  <2>3. suspected' \in Table
    BY <1>3, <2>2 DEF InsertSuspect, TypeInv, TypeOK, Table
  <2>4. pc' \in [Threads -> Labels] /\ call' \in [Threads -> Call]
        /\ \A u \in Threads : CallFormed(pc'[u], call'[u])
    BY <1>0, <1>3, <2>1, JumpFormed DEF InsertSuspect, Labels
  <2> QED
    BY <1>3, <2>3, <2>4 DEF InsertSuspect, TypeInv, TypeOK
<1>4. CASE NotifySuspect(t)
  <2>1. CallFormed(c.ret, c)
    BY <1>0, <1>4
    DEF NotifySuspect, CallFormed, AboutServer, Raising, Call, Returns
  <2>2. told' \in [Servers -> Told]
    BY <1>4, Zenon DEF NotifySuspect, TypeInv, TypeOK, Told
  <2> QED
    BY <1>0, <1>4, <2>1, <2>2, JumpFormed DEF NotifySuspect, TypeInv, TypeOK
<1> QED
  BY <1>1, <1>2, <1>3, <1>4 DEF ReportSuspected

\* The same for a handler's own steps.
LEMMA HandlerTyped ==
  ASSUME TypeInv, NEW t \in Threads, HandlerStep(t)
  PROVE  TypeInv'
<1> DEFINE c == call[t]
<1> USE DEF At
<1>0. c \in Call /\ CallFormed(pc[t], c)
  BY DEF TypeInv, TypeOK
<1>1. CASE Forgive(t)
  <2>1. CallFormed("idle", NoCall)
    BY DEF CallFormed, AboutServer, Raising, NoCall
  <2>2. suspected' \in Table
    BY <1>1, Zenon DEF Forgive, TypeInv, TypeOK, Table
  <2> QED
    BY <1>1, <2>1, <2>2, NoCallTyped, JumpFormed DEF Forgive, TypeInv, TypeOK, Labels
<1>2. CASE NextAlive(t)
  <2>1. SUFFICES /\ pc' \in [Threads -> Labels] /\ call' \in [Threads -> Call]
                 /\ \A u \in Threads : CallFormed(pc'[u], call'[u])
    BY <1>2 DEF NextAlive, TypeInv, TypeOK
  <2>2. CASE Jump(t, "next_suspect", c)
    <3>1. CallFormed("next_suspect", c)
      BY <1>0 DEF CallFormed, AboutServer, Raising
    <3> QED
      BY <1>0, <2>2, <3>1, JumpFormed DEF Labels
  <2>3. ASSUME NEW r \in c.al,
               IF r.server = Self \/ Stale(suspected, r)
               THEN Jump(t, "next_alive", [c EXCEPT !.al = @ \ {r}])
               ELSE Jump(t, EnterAddAlive(r.server, "raise_alive"),
                         About([c EXCEPT !.al = @ \ {r}], r, "raise_alive"))
        PROVE  /\ pc' \in [Threads -> Labels] /\ call' \in [Threads -> Call]
               /\ \A u \in Threads : CallFormed(pc'[u], call'[u])
    <3> DEFINE d == [c EXCEPT !.al = @ \ {r}]
    <3> DEFINE e == About(d, r, "raise_alive")
    <3> DEFINE entry == EnterAddAlive(r.server, "raise_alive")
    <3>1. r \in ReportRecord(Servers) /\ r.server \in Servers /\ r.ts \in Nat
      BY <1>0 DEF Call, ReportRecord
    <3>2. d \in Call /\ CallFormed("next_alive", d)
      BY <1>0 DEF Call, CallFormed, AboutServer, Raising
    <3>3. e \in Call /\ e.srv \in Servers /\ e.rec = r /\ e.ret \in Raising
      BY <3>1, <3>2, Zenon DEF About, Call, Returns, Raising
    <3>4. entry \in Labels /\ CallFormed(entry, e)
      BY <3>1, <3>3, EntriesTyped DEF CallFormed, Returns, Raising, EnterAddAlive
    <3> HIDE DEF d, e, entry
    <3>5. CASE Jump(t, "next_alive", d)
      BY <3>2, <3>5, JumpFormed DEF Labels
    <3>6. CASE Jump(t, entry, e)
      BY <3>3, <3>4, <3>6, JumpFormed
    <3> QED
      BY <2>3, <3>5, <3>6 DEF d, e, entry
  <2> QED
    BY <1>2, <2>2, <2>3, Zenon DEF NextAlive
<1>3. CASE RaiseAlive(t)
  <2>1. CallFormed("next_alive", c) /\ c.rec \in ReportRecord(Servers)
    BY <1>0, <1>3 DEF RaiseAlive, CallFormed, AboutServer, Raising
  <2>2. alive' \in Table
    BY <1>3, <2>1, RaiseTyped DEF RaiseAlive, TypeInv, TypeOK
  <2> QED
    BY <1>0, <1>3, <2>1, <2>2, JumpFormed DEF RaiseAlive, TypeInv, TypeOK, Labels
<1>4. CASE NextSuspect(t)
  <2>1. SUFFICES /\ pc' \in [Threads -> Labels] /\ call' \in [Threads -> Call]
                 /\ \A u \in Threads : CallFormed(pc'[u], call'[u])
    BY <1>4 DEF NextSuspect, TypeInv, TypeOK
  <2>2. CASE Jump(t, "idle", NoCall)
    <3>1. CallFormed("idle", NoCall)
      BY DEF CallFormed, AboutServer, Raising, NoCall
    <3> QED
      BY <2>2, <3>1, NoCallTyped, JumpFormed DEF Labels
  <2>3. ASSUME NEW r \in c.su,
               LET d == [c EXCEPT !.su = @ \ {r}] IN
               \/ Jump(t, "ping_back", d)
               \/ Jump(t, "next_suspect", d)
               \/ Jump(t, EnterReportSuspected(r.server, "raise_suspect"),
                       About(d, r, "raise_suspect"))
        PROVE  /\ pc' \in [Threads -> Labels] /\ call' \in [Threads -> Call]
               /\ \A u \in Threads : CallFormed(pc'[u], call'[u])
    <3> DEFINE d == [c EXCEPT !.su = @ \ {r}]
    <3> DEFINE e == About(d, r, "raise_suspect")
    <3> DEFINE entry == EnterReportSuspected(r.server, "raise_suspect")
    <3>1. r \in ReportRecord(Servers) /\ r.server \in Servers /\ r.ts \in Nat
      BY <1>0 DEF Call, ReportRecord
    <3>2. d \in Call /\ CallFormed("next_suspect", d) /\ CallFormed("ping_back", d)
      BY <1>0 DEF Call, CallFormed, AboutServer, Raising
    <3>3. e \in Call /\ e.srv \in Servers /\ e.rec = r /\ e.ret \in Raising
      BY <3>1, <3>2, Zenon DEF About, Call, Returns, Raising
    <3>4. entry \in Labels /\ CallFormed(entry, e)
      BY <3>1, <3>3, EntriesTyped
      DEF CallFormed, Returns, Raising, EnterReportSuspected
    <3> HIDE DEF d, e, entry
    <3>5. CASE Jump(t, "ping_back", d) \/ Jump(t, "next_suspect", d)
      BY <3>2, <3>5, JumpFormed DEF Labels
    <3>6. CASE Jump(t, entry, e)
      BY <3>3, <3>4, <3>6, JumpFormed
    <3> QED
      BY <2>3, <3>5, <3>6 DEF d, e, entry
  <2> QED
    BY <1>4, <2>2, <2>3, Zenon DEF NextSuspect
<1>5. CASE PingBack(t)
  <2>1. CallFormed("next_suspect", c)
    BY <1>0, <1>5 DEF PingBack, CallFormed, AboutServer, Raising
  <2> QED
    BY <1>0, <1>5, <2>1, JumpFormed DEF PingBack, TypeInv, TypeOK, Labels
<1>6. CASE RaiseSuspect(t)
  <2>1. CallFormed("next_suspect", c) /\ c.rec \in ReportRecord(Servers)
    BY <1>0, <1>6 DEF RaiseSuspect, CallFormed, AboutServer, Raising
  <2>2. suspected' \in Table
    BY <1>6, <2>1, RaiseTyped DEF RaiseSuspect, TypeInv, TypeOK
  <2> QED
    BY <1>0, <1>6, <2>1, <2>2, JumpFormed, Zenon DEF RaiseSuspect, TypeInv, TypeOK, Labels
<1>7. CASE SpawnForward(t)
  <2>1. CallFormed("idle", NoCall)
    BY DEF CallFormed, AboutServer, Raising, NoCall
  <2>2. forwards' \in SUBSET Servers
    BY <1>0, <1>7 DEF SpawnForward, CallFormed, TypeInv, TypeOK
  <2> QED
    BY <1>7, <2>1, <2>2, NoCallTyped, JumpFormed, Zenon
    DEF SpawnForward, TypeInv, TypeOK, Labels
<1> QED
  BY <1>1, <1>2, <1>3, <1>4, <1>5, <1>6, <1>7 DEF HandlerStep

\* The same for the collector.
LEMMA GCTyped ==
  ASSUME TypeInv, NEW t \in Threads, GCStep(t)
  PROVE  TypeInv'
<1> DEFINE c == call[t]
<1> USE DEF At
<1>0. c \in Call /\ CallFormed(pc[t], c)
  BY DEF TypeInv, TypeOK
<1>1. CASE GCExpire(t)
  <2> DEFINE d == [c EXCEPT !.su = { r \in @ : r.ts < now - GracePeriod }]
  <2>1. d \in Call /\ CallFormed("gc_evict", d)
    BY <1>0 DEF Call, CallFormed, AboutServer, Raising
  <2> QED
    BY <1>1, <2>1, JumpFormed DEF GCExpire, TypeInv, TypeOK, Labels
<1>2. CASE GCEvict(t)
  <2>1. suspected' \in Table
    BY <1>2, Zenon DEF GCEvict, TypeInv, TypeOK, Table
  <2>2. CASE Jump(t, "idle", NoCall)
    <3>1. CallFormed("idle", NoCall)
      BY DEF CallFormed, AboutServer, Raising, NoCall
    <3> QED
      BY <1>2, <2>1, <2>2, <3>1, NoCallTyped, JumpFormed, Zenon
      DEF GCEvict, TypeInv, TypeOK, Labels
  <2>3. ASSUME NEW r \in c.su, NEW label \in {"gc_evict", "notify_removed"},
               Jump(t, label, [c EXCEPT !.su = @ \ {r}, !.srv = r.server])
        PROVE  TypeInv'
    <3> DEFINE d == [c EXCEPT !.su = @ \ {r}, !.srv = r.server]
    <3>1. r.server \in Servers
      BY <1>0 DEF Call, ReportRecord
    <3>2. /\ d \in Call /\ d.srv \in Servers
          /\ d.ret = c.ret /\ d.rec = c.rec /\ d.dst = c.dst
      BY <1>0, <3>1, Zenon DEF Call
    <3>3. CallFormed(label, d)
      BY <1>0, <3>2 DEF CallFormed, Raising
    <3>4. Jump(t, label, d) /\ label \in Labels
      BY <2>3 DEF Labels
    <3> HIDE DEF d
    <3>5. /\ pc' \in [Threads -> Labels] /\ call' \in [Threads -> Call]
          /\ \A u \in Threads : CallFormed(pc'[u], call'[u])
      BY <3>2, <3>3, <3>4, JumpFormed, Zenon
    <3> QED
      BY <1>2, <2>1, <3>5, Zenon DEF GCEvict, TypeInv, TypeOK
  <2> QED
    BY <1>2, <2>2, <2>3, Zenon DEF GCEvict
<1>3. CASE NotifyRemoved(t)
  <2>1. CallFormed("gc_evict", c)
    BY <1>0, <1>3 DEF NotifyRemoved, CallFormed, AboutServer, Raising
  <2>2. told' \in [Servers -> Told]
    BY <1>0, <1>3, Zenon DEF NotifyRemoved, TypeInv, TypeOK, Told, Call
  <2> QED
    BY <1>0, <1>3, <2>1, <2>2, JumpFormed DEF NotifyRemoved, TypeInv, TypeOK, Labels
<1>4. CASE GCBudget(t)
  <2>1. PICK report \in AddRecordsToBudget(c.su, now) :
          Jump(t, "gc_expire", [c EXCEPT !.su = report])
    BY <1>4 DEF GCBudget
  <2>2. report \subseteq ReportRecord(Servers)
    BY <1>0, <2>1, BudgetSelects DEF Call
  <2> DEFINE d == [c EXCEPT !.su = report]
  <2>3. d \in Call /\ CallFormed("gc_expire", d)
    BY <1>0, <2>2 DEF Call, CallFormed, AboutServer, Raising
  <2> HIDE DEF d
  <2>4. Jump(t, "gc_expire", d)
    BY <2>1 DEF d
  <2> QED
    BY <1>4, <2>3, <2>4, JumpFormed DEF GCBudget, TypeInv, TypeOK, Labels
<1> QED
  BY <1>1, <1>2, <1>3, <1>4 DEF GCStep

\* The locals a call begins with.
LEMMA BeginTyped ==
  ASSUME TypeInv, Begin
  PROVE  TypeInv'
<1>1. ASSUME NEW m \in Envelope,
             NEW ret \in {"spawn_forward", "forgive", "next_alive"},
             Receive(m, ret)
      PROVE  TypeInv'
  <2> DEFINE d == [NoCall EXCEPT !.srv = m.sender, !.ts = now, !.ret = ret,
                                 !.al = m.alive, !.su = m.suspected,
                                 !.dst = m.destination]
  <2>1. /\ m.sender \in Servers /\ m.destination \in Servers /\ m.lt \in Nat
        /\ m.alive \in SUBSET ReportRecord(Servers)
        /\ m.suspected \in SUBSET ReportRecord(Servers)
    BY DEF Envelope
  <2>2. d \in Call /\ d.srv \in Servers /\ d.ret = ret /\ d.dst \in Servers
    BY <2>1, NoCallTyped, Zenon DEF NoCall, Call, Returns, TypeInv, TypeOK
  <2> DEFINE entry == EnterAddAlive(m.sender, ret)
  <2>3. entry \in Labels /\ entry \in {ret, "erase_suspected"}
    BY <2>1, EntriesTyped DEF EnterAddAlive, Returns
  <2>4. CallFormed(entry, d)
    BY <2>2, <2>3 DEF CallFormed, Raising
  <2>5. lamport_time' \in Nat
    BY <1>1, <2>1 DEF Receive, UpdateLamportTime, Later, TypeInv, TypeOK
  <2>6. Loop \in Threads
    BY DEF Threads
  <2> HIDE DEF d, entry
  <2>7. Jump(Loop, entry, d)
    BY <1>1 DEF Receive, d, entry
  <2> QED
    BY <1>1, <2>2, <2>3, <2>4, <2>5, <2>6, <2>7, JumpFormed
    DEF Receive, TypeInv, TypeOK
<1>2. ASSUME NEW t \in Threads, NEW s \in Servers, NEW entry \in Labels,
             entry \notin Raising \cup {"spawn_forward"},
             Jump(t, entry, [NoCall EXCEPT !.srv = s, !.ts = now]),
             forwards' \in SUBSET Servers,
             UNCHANGED <<now, lamport_time, alive, suspected, told>>
      PROVE  TypeInv'
  <2> DEFINE d == [NoCall EXCEPT !.srv = s, !.ts = now]
  <2>1. d \in Call /\ d.srv \in Servers /\ d.ret = "idle"
    BY NoCallTyped, Zenon DEF NoCall, Call, Returns, TypeInv, TypeOK
  <2>2. CallFormed(entry, d)
    BY <1>2, <2>1 DEF CallFormed, Raising
  <2> QED
    BY <1>2, <2>1, <2>2, JumpFormed DEF TypeInv, TypeOK
<1>3. ASSUME NEW s \in Servers
      PROVE  /\ EnterAddAlive(s, "idle") \in Labels \ (Raising \cup {"spawn_forward"})
             /\ EnterReportSuspected(s, "idle")
                  \in Labels \ (Raising \cup {"spawn_forward"})
  BY DEF EnterAddAlive, EnterReportSuspected, Labels, Raising
<1>4. ASSUME NEW m \in Messages,
             \/ OnUpdate(Content(m)) \/ OnReport(Content(m))
             \/ OnForwardRequest(Content(m))
      PROVE  TypeInv'
  <2>1. Content(m) \in Envelope /\ Content(m).destination \in Servers
    BY ServerAssumption DEF Envelope
  <2> QED
    BY <1>1, <1>4, <2>1
    DEF OnUpdate, OnReport, OnForwardRequest, TypeInv, TypeOK
<1>5. ASSUME NEW t \in Workers, NEW s \in Servers,
             Answered(t, s) \/ Unanswered(t, s) \/ ForwardFailed(t, s)
      PROVE  TypeInv'
  <2>1. t \in Threads
    BY DEF Threads
  <2>2. forwards' \in SUBSET Servers
    BY <1>5 DEF Answered, Unanswered, ForwardFailed, TypeInv, TypeOK
  <2> QED
    BY <1>2, <1>3, <1>5, <2>1, <2>2, Zenon DEF Answered, Unanswered, ForwardFailed
<1>6. ASSUME NEW s \in Servers, ForwardAnswered(s)
      PROVE  TypeInv'
  BY <1>6 DEF ForwardAnswered, TypeInv, TypeOK, CallFormed
<1>7. ASSUME GarbageCollectSuspected(Collector)
      PROVE  TypeInv'
  <2> DEFINE d == [NoCall EXCEPT !.su = Records(suspected)]
  <2>1. Records(suspected) \subseteq ReportRecord(Servers)
    BY DEF Records, ReportRecord, TypeInv, TypeOK, Table, ServerRecord
  <2>2. d \in Call /\ CallFormed("gc_budget", d)
    BY <2>1, NoCallTyped DEF NoCall, Call, CallFormed, AboutServer, Raising
  <2>3. Collector \in Threads
    BY DEF Threads
  <2> HIDE DEF d
  <2>4. Jump(Collector, "gc_budget", d)
    BY <1>7 DEF GarbageCollectSuspected, d
  <2> QED
    BY <1>7, <2>2, <2>3, <2>4, JumpFormed
    DEF GarbageCollectSuspected, TypeInv, TypeOK, Labels
<1> QED
  BY <1>4, <1>5, <1>6, <1>7 DEF Begin

\* Every step keeps the types.
LEMMA NextTyped == TypeInv /\ [Next]_vars => TypeInv'
<1> SUFFICES ASSUME TypeInv, [Next]_vars PROVE TypeInv'
  OBVIOUS
<1>1. CASE Tick
  BY <1>1 DEF Tick, TypeInv, TypeOK, CallFormed
<1>2. CASE UNCHANGED vars
  BY <1>2 DEF vars, TypeInv, TypeOK, CallFormed
<1>3. ASSUME NEW t \in Threads, Step(t) PROVE TypeInv'
  BY <1>3, AddAliveTyped, ReportSuspectedTyped, HandlerTyped, GCTyped DEF Step
<1> QED
  BY <1>1, <1>2, <1>3, BeginTyped DEF Next

\* The state of a server is well typed, and so are the locals of its threads,
\* for any sets of servers, threads and messages.
THEOREM TypeCorrect == Spec => []TypeOK
<1>1. TypeInv => TypeOK
  BY DEF TypeInv
<1> QED
  BY InitTyped, NextTyped, <1>1, PTL DEF Spec

-----------------------------------------------------------------------------
\* A server does not suspect itself.  The strengthening: no thread is on its way
\* to insert Self into suspected_.

Suspecting == {"stamp_suspect", "erase_alive", "insert_suspect"}

SelfInv ==
  /\ SelfNeverSuspected
  /\ \A t \in Threads : pc[t] \in Suspecting => call[t].srv # Self

\* A jump keeps the strengthening if it does not lead towards suspecting Self.
LEMMA JumpSelf ==
  ASSUME TypeInv, NEW t \in Threads, NEW label \in Labels, NEW c \in Call,
         Jump(t, label, c), label \in Suspecting => c.srv # Self,
         \A u \in Threads : pc[u] \in Suspecting => call[u].srv # Self
  PROVE  \A u \in Threads : pc'[u] \in Suspecting => call'[u].srv # Self
  BY DEF TypeInv, TypeOK, Jump, Suspecting

\* No step of a thread inside a call suspects this server, or is about to.
LEMMA SelfStep ==
  ASSUME TypeInv, SelfInv, NEW t \in Threads, Step(t)
  PROVE  SelfInv'
<1> DEFINE c == call[t]
<1> USE ServerAssumption DEF At, SelfInv, SelfNeverSuspected
<1>0. c \in Call /\ c.ret \in Labels \ Suspecting /\ CallFormed(pc[t], c)
  BY ReturnsAreLabels, ZenonT(60) DEF TypeInv, TypeOK, Call, Returns, Suspecting
<1>1. CASE AddAlive(t)
  <2>1. suspected'[Self] = Absent
    BY <1>1 DEF AddAlive, RemoveSuspected, StampAlive, InsertAlive, RefreshAlive,
                NotifyAlive, TypeInv, TypeOK, Table
  <2>2. [c EXCEPT !.lt = lamport_time] \in Call
    BY <1>0, StampTyped, Zenon DEF TypeInv, TypeOK
  <2>3. \E label \in Labels \ Suspecting, d \in Call : Jump(t, label, d)
    BY <1>0, <1>1, <2>2
    DEF AddAlive, RemoveSuspected, StampAlive, InsertAlive, RefreshAlive,
        NotifyAlive, Labels, Suspecting
  <2> QED
    BY <2>1, <2>3, JumpSelf
<1>2. CASE ReportSuspected(t)
  <2>1. CASE StampSuspect(t)
    <3> DEFINE d == [c EXCEPT !.lt = lamport_time]
    <3>1. d \in Call /\ d.srv = c.srv
      BY <1>0, StampTyped, Zenon DEF TypeInv, TypeOK
    <3> QED
      BY <2>1, <3>1, JumpSelf, Zenon DEF StampSuspect, Suspecting, Labels
  <2>2. CASE EraseAlive(t)
    BY <1>0, <2>2, JumpSelf, Zenon DEF EraseAlive, Suspecting, Labels
  <2>3. CASE InsertSuspect(t)
    <3>1. suspected'[Self] = Absent
      BY <2>3 DEF InsertSuspect, Suspecting, TypeInv, TypeOK, Table
    <3> QED
      BY <1>0, <2>3, <3>1, JumpSelf DEF InsertSuspect, Suspecting, Labels
  <2>4. CASE NotifySuspect(t)
    BY <1>0, <2>4, JumpSelf, Zenon DEF NotifySuspect
  <2> QED
    BY <1>2, <2>1, <2>2, <2>3, <2>4 DEF ReportSuspected
<1>3. CASE HandlerStep(t)
  <2>1. suspected'[Self] = Absent
    <3>1. CASE RaiseSuspect(t)
      BY <1>0, <3>1, RaiseTyped, SMTT(20)
      DEF RaiseSuspect, CallFormed, Raising, TypeInv, TypeOK
    <3> QED
      BY <1>3, <3>1, Zenon DEF HandlerStep, Forgive, NextAlive, RaiseAlive, NextSuspect,
                        PingBack, SpawnForward, TypeInv, TypeOK, Table
  <2>2. CASE \E label \in Labels \ Suspecting, d \in Call : Jump(t, label, d)
    BY <2>1, <2>2, JumpSelf, ZenonT(60)
  <2>3. CASE \/ Forgive(t) \/ RaiseAlive(t) \/ PingBack(t) \/ RaiseSuspect(t)
             \/ SpawnForward(t)
    BY <1>0, <2>2, <2>3, NoCallTyped
    DEF Forgive, RaiseAlive, PingBack, RaiseSuspect, SpawnForward, Labels, Suspecting
  <2>4. CASE NextAlive(t)
    <3>1. ASSUME NEW r \in c.al
          PROVE  /\ [c EXCEPT !.al = @ \ {r}] \in Call
                 /\ About([c EXCEPT !.al = @ \ {r}], r, "raise_alive") \in Call
                 /\ EnterAddAlive(r.server, "raise_alive") \in Labels \ Suspecting
      BY <1>0, ZenonT(60) DEF Call, About, ReportRecord, Returns, EnterAddAlive, Labels, Suspecting
    <3> QED
      BY <1>0, <2>2, <2>4, <3>1, Zenon DEF NextAlive, Labels, Suspecting
  <2>5. CASE NextSuspect(t)
    <3>1. ASSUME NEW r \in c.su
          PROVE  /\ [c EXCEPT !.su = @ \ {r}] \in Call
                 /\ About([c EXCEPT !.su = @ \ {r}], r, "raise_suspect") \in Call
                 /\ About([c EXCEPT !.su = @ \ {r}], r, "raise_suspect").srv = r.server
                 /\ EnterReportSuspected(r.server, "raise_suspect") \in Labels
      BY <1>0, ZenonT(60) DEF Call, About, ReportRecord, Returns, EnterReportSuspected, Labels
    <3>2. CASE Jump(t, "idle", NoCall)
      BY <2>2, <3>2, NoCallTyped DEF Labels, Suspecting
    <3>3. ASSUME NEW r \in c.su,
                 \/ Jump(t, "ping_back", [c EXCEPT !.su = @ \ {r}])
                 \/ Jump(t, "next_suspect", [c EXCEPT !.su = @ \ {r}])
          PROVE  SelfInv'
      BY <2>2, <3>1, <3>3 DEF Labels, Suspecting
    <3>4. ASSUME NEW r \in c.su, r.server # Self,
                 Jump(t, EnterReportSuspected(r.server, "raise_suspect"),
                      About([c EXCEPT !.su = @ \ {r}], r, "raise_suspect"))
          PROVE  SelfInv'
      BY <2>1, <3>1, <3>4, JumpSelf
    <3> QED
      BY <2>5, <3>2, <3>3, <3>4, Zenon DEF NextSuspect
  <2> QED
    BY <1>3, <2>3, <2>4, <2>5 DEF HandlerStep
<1>4. CASE GCStep(t)
  <2>1. suspected'[Self] = Absent
    BY <1>4, Zenon
    DEF GCStep, GCBudget, GCExpire, GCEvict, NotifyRemoved, TypeInv, TypeOK, Table
  <2>2. /\ [c EXCEPT !.su = { r \in @ : r.ts < now - GracePeriod }] \in Call
        /\ \A r \in c.su : [c EXCEPT !.su = @ \ {r}, !.srv = r.server] \in Call
        /\ \A report \in AddRecordsToBudget(c.su, now) :
             [c EXCEPT !.su = report] \in Call
    BY <1>0, BudgetSelects, ZenonT(60) DEF Call, ReportRecord
  <2>3. \E label \in Labels \ Suspecting, d \in Call : Jump(t, label, d)
    BY <1>0, <1>4, <2>2, NoCallTyped, Zenon
    DEF GCStep, GCBudget, GCExpire, GCEvict, NotifyRemoved, Labels, Suspecting
  <2> QED
    BY <2>1, <2>3, JumpSelf
<1> QED
  BY <1>1, <1>2, <1>3, <1>4, Zenon DEF Step

\* How a call begins: about a server with a port, unless AddAlive or ReportSuspected
\* has already returned.
Entered(label, d) ==
  /\ label \in {"erase_suspected", "stamp_suspect"} => d.srv \in Servers \ PortZero
  /\ label = "stamp_suspect" => d.ret = "idle"
  /\ label = "forgive" => d.srv \in PortZero

\* What a call begins with, whichever thread begins it: the tables are as they
\* were and the thread jumps to the first label of the call.
LEMMA BeginJumps ==
  ASSUME TypeInv, Begin
  PROVE  /\ UNCHANGED <<now, alive, suspected, told>>
         /\ lamport_time' \in Nat /\ lamport_time <= lamport_time'
         /\ \/ UNCHANGED <<pc, call>>
            \/ \E t \in Threads, label \in Labels, d \in Call :
                 /\ MayBegin(t)
                 /\ Jump(t, label, d)
                 /\ d.lt = 0
                 /\ d.ret \notin Raising
                 /\ label \in {"idle", "erase_suspected", "stamp_suspect",
                               "forgive", "spawn_forward", "next_alive",
                               "gc_budget"}
                 /\ Entered(label, d)
                 /\ label = "stamp_suspect" => d.srv # Self
                 /\ label = "gc_budget" => t = Collector /\ d.su \subseteq Records(suspected)
                 /\ label # "gc_budget" => t # Collector
<1> DEFINE First == {"idle", "erase_suspected", "stamp_suspect", "forgive",
                     "spawn_forward", "next_alive", "gc_budget"}
<1> USE ServerAssumption
<1>1. ASSUME NEW m \in Envelope,
             NEW ret \in {"spawn_forward", "forgive", "next_alive"},
             Receive(m, ret)
      PROVE  /\ UNCHANGED <<now, alive, suspected, told>>
             /\ lamport_time' \in Nat /\ lamport_time <= lamport_time'
             /\ \E label \in First \ {"stamp_suspect", "gc_budget"}, d \in Call :
                  /\ MayBegin(Loop) /\ Jump(Loop, label, d)
                  /\ d.lt = 0 /\ d.ret \notin Raising /\ Entered(label, d)
  <2> DEFINE d == [NoCall EXCEPT !.srv = m.sender, !.ts = now, !.ret = ret,
                                 !.al = m.alive, !.su = m.suspected,
                                 !.dst = m.destination]
  <2> DEFINE entry == EnterAddAlive(m.sender, ret)
  <2>1. d \in Call /\ d.lt = 0 /\ d.ret \notin Raising /\ d.srv = m.sender
    BY NoCallTyped, Zenon DEF Envelope, NoCall, Call, Returns, TypeInv, TypeOK, Raising
  <2>2. entry \in First \ {"stamp_suspect", "gc_budget"} /\ Entered(entry, d)
    BY <2>1 DEF EnterAddAlive, Entered, Envelope
  <2>3. lamport_time' \in Nat /\ lamport_time <= lamport_time'
    BY <1>1 DEF Receive, UpdateLamportTime, Later, Envelope, TypeInv, TypeOK
  <2>4. MayBegin(Loop) /\ Jump(Loop, entry, d) /\ UNCHANGED <<now, alive, suspected, told>>
    BY <1>1 DEF Receive
  <2> QED
    BY <2>1, <2>2, <2>3, <2>4, Zenon
<1>2. ASSUME NEW t \in Workers, NEW s \in Servers,
             Answered(t, s) \/ Unanswered(t, s) \/ ForwardFailed(t, s)
      PROVE  \E label \in First \ {"gc_budget"}, d \in Call :
               /\ MayBegin(t) /\ Jump(t, label, d)
               /\ d.lt = 0 /\ d.ret \notin Raising /\ Entered(label, d)
               /\ label = "stamp_suspect" => d.srv # Self
  <2> DEFINE d == [NoCall EXCEPT !.srv = s, !.ts = now]
  <2>1. d \in Call /\ d.lt = 0 /\ d.ret = "idle" /\ d.srv = s
    BY NoCallTyped, Zenon DEF NoCall, Call, Returns, TypeInv, TypeOK, Raising
  <2>2. /\ EnterAddAlive(s, "idle") \in {"idle", "erase_suspected"}
        /\ EnterReportSuspected(s, "idle") \in First \ {"gc_budget"}
        /\ EnterReportSuspected(s, "idle") = "stamp_suspect" => s # Self
    BY DEF EnterAddAlive, EnterReportSuspected
  <2>3. MayBegin(t) /\ \/ Jump(t, EnterAddAlive(s, "idle"), d)
                       \/ Jump(t, EnterReportSuspected(s, "idle"), d)
    BY <1>2 DEF Answered, Unanswered, ForwardFailed
  <2>4. Entered(EnterAddAlive(s, "idle"), d) /\ Entered(EnterReportSuspected(s, "idle"), d)
    BY <2>1, Zenon DEF EnterAddAlive, EnterReportSuspected, Entered
  <2> HIDE DEF d
  <2> QED
    BY <2>1, <2>2, <2>3, <2>4 DEF Raising
<1>3. ASSUME GarbageCollectSuspected(Collector)
      PROVE  \E d \in Call :
               /\ MayBegin(Collector) /\ Jump(Collector, "gc_budget", d)
               /\ d.lt = 0 /\ d.ret \notin Raising
               /\ d.su \subseteq Records(suspected)
  <2> DEFINE d == [NoCall EXCEPT !.su = Records(suspected)]
  <2>1. Records(suspected) \subseteq ReportRecord(Servers)
    BY DEF Records, ReportRecord, TypeInv, TypeOK, Table, ServerRecord
  <2>2. d \in Call /\ d.lt = 0 /\ d.ret \notin Raising /\ d.su = Records(suspected)
    BY <2>1, NoCallTyped DEF NoCall, Call, Raising
  <2> HIDE DEF d
  <2>3. MayBegin(Collector) /\ Jump(Collector, "gc_budget", d)
    BY <1>3 DEF GarbageCollectSuspected, d
  <2> QED
    BY <2>2, <2>3
<1>4. First \subseteq Labels /\ Loop \in Threads /\ Collector \in Threads
      /\ Workers \subseteq Threads /\ Collector # Loop /\ Collector \notin Workers
  BY DEF Labels, Threads
<1>5. ASSUME NEW m \in Messages,
             \/ OnUpdate(Content(m)) \/ OnReport(Content(m))
             \/ OnForwardRequest(Content(m))
      PROVE  \E ret \in {"spawn_forward", "forgive", "next_alive"} :
               Content(m) \in Envelope /\ Receive(Content(m), ret)
  BY <1>5, Zenon DEF OnUpdate, OnReport, OnForwardRequest
<1> HIDE DEF First
<1>6. CASE \E m \in Messages : \/ OnUpdate(Content(m)) \/ OnReport(Content(m))
                               \/ OnForwardRequest(Content(m))
  BY <1>1, <1>4, <1>5, <1>6, ZenonT(60) DEF First
<1>7. CASE \E t \in Workers, s \in Servers :
             Answered(t, s) \/ Unanswered(t, s) \/ ForwardFailed(t, s)
  <2>1. UNCHANGED <<now, lamport_time, alive, suspected, told>>
    BY <1>7, ZenonT(60) DEF Answered, Unanswered, ForwardFailed
  <2> QED
    BY <1>2, <1>4, <1>7, <2>1 DEF First, TypeInv, TypeOK
<1>8. CASE \E s \in Servers : ForwardAnswered(s)
  BY <1>8 DEF ForwardAnswered, TypeInv, TypeOK
<1>9. CASE GarbageCollectSuspected(Collector)
  <2>1. UNCHANGED <<now, lamport_time, alive, suspected, told>>
    BY <1>9 DEF GarbageCollectSuspected
  <2> QED
    BY <1>3, <1>4, <1>9, <2>1 DEF First, TypeInv, TypeOK, Entered
<1> QED
  BY <1>6, <1>7, <1>8, <1>9, Zenon DEF Begin

\* Nor does any other step.
LEMMA SelfNext ==
  ASSUME TypeInv, SelfInv, [Next]_vars
  PROVE  SelfInv'
<1>1. CASE Tick \/ UNCHANGED vars
  BY <1>1 DEF Tick, vars, SelfInv, SelfNeverSuspected
<1>2. CASE Begin
  BY <1>2, BeginJumps, JumpSelf DEF SelfInv, SelfNeverSuspected, Suspecting
<1> QED
  BY <1>1, <1>2, SelfStep, Zenon DEF Next

\* No interleaving of handlers, background threads and callers, and no message,
\* makes a server suspect itself.
THEOREM NeverSuspectsItself == Spec => []SelfNeverSuspected
<1>1. Init => SelfInv
  BY ServerAssumption
  DEF Init, SelfInv, SelfNeverSuspected, Suspecting
<1>2. TypeInv /\ SelfInv /\ [Next]_vars => SelfInv'
  BY SelfNext
<1>3. SelfInv => SelfNeverSuspected
  BY DEF SelfInv
<1> QED
  BY InitTyped, NextTyped, <1>1, <1>2, <1>3, PTL DEF Spec

-----------------------------------------------------------------------------
\* What one step of a thread does to the tables.

\* A record of alive_ after a step is the one that was there, perhaps with a
\* greater incarnation or restamped with the present Lamport time, or it was
\* inserted by InsertAlive.
LEMMA AliveEffect ==
  ASSUME TypeInv, NEW t \in Threads, Step(t), NEW s \in Servers,
         alive'[s] # Absent
  PROVE  \/ /\ alive[s] # Absent
            /\ alive'[s].inc >= alive[s].inc
            /\ alive'[s].lt \in {alive[s].lt, lamport_time}
         \/ /\ alive[s] = Absent
            /\ pc[t] = "insert_alive" /\ call[t].srv = s
            /\ UNCHANGED suspected
            /\ alive'[s].lt = call[t].lt
<1> DEFINE c == call[t]
<1> USE ServerAssumption DEF At
<1>0. c \in Call /\ CallFormed(pc[t], c) /\ alive \in Table
  BY Zenon DEF TypeInv, TypeOK
<1>1. alive[s] # Absent => alive[s] \in ServerRecord
  BY <1>0, Zenon DEF Table
<1>2. CASE UNCHANGED alive
  BY <1>1, <1>2 DEF ServerRecord
<1>3. CASE InsertAlive(t)
  <2>1. CASE alive[c.srv] = Absent /\ alive' = [alive EXCEPT ![c.srv] = MakeRecord(c.ts, c.lt)]
    <3>1. (s # c.srv => alive'[s] = alive[s]) /\ (s = c.srv => alive'[s].lt = c.lt)
      BY <1>0, <2>1, Zenon DEF Table, MakeRecord
    <3>2. CASE alive'[s] = alive[s]
      BY <1>1, <3>2 DEF ServerRecord
    <3>3. CASE s = c.srv /\ alive'[s].lt = c.lt
      BY <1>3, <2>1, <3>3, Zenon DEF InsertAlive
    <3> QED
      BY <3>1, <3>2, <3>3, Zenon
  <2> QED
    BY <1>2, <1>3, <2>1, Zenon DEF InsertAlive
<1>4. CASE RefreshAlive(t)
  <2>1. CASE alive[c.srv] = Absent
    BY <1>2, <1>4, <2>1, Zenon DEF RefreshAlive
  <2>2. CASE alive[c.srv] # Absent
    <3> DEFINE r == [alive[c.srv] EXCEPT !.ts = c.ts, !.lt = lamport_time]
    <3>1. alive' = [alive EXCEPT ![c.srv] = r]
      BY <1>4, <2>2 DEF RefreshAlive
    <3>2. c.srv \in Servers
      BY <1>0, <1>4 DEF RefreshAlive, CallFormed, AboutServer
    <3>3. r.lt = lamport_time /\ r.inc >= alive[c.srv].inc
      BY <1>0, <2>2, <3>2 DEF Table, ServerRecord
    <3> HIDE DEF r
    <3> QED
      BY <1>0, <1>1, <2>2, <3>1, <3>2, <3>3 DEF Table, ServerRecord
  <2> QED
    BY <2>1, <2>2
<1>5. CASE EraseAlive(t)
  BY <1>0, <1>1, <1>5 DEF EraseAlive, Table, ServerRecord
<1>6. CASE RaiseAlive(t)
  <2>1. c.rec \in ReportRecord(Servers)
    BY <1>0, <1>6, Zenon DEF RaiseAlive, CallFormed, Raising
  <2> QED
    BY <1>0, <1>6, <2>1, RaiseTyped DEF RaiseAlive
<1> QED
  BY <1>2, <1>3, <1>4, <1>5, <1>6, Zenon
  DEF Step, AddAlive, ReportSuspected, HandlerStep, GCStep, RemoveSuspected,
      StampAlive, NotifyAlive, StampSuspect, InsertSuspect, NotifySuspect,
      Forgive, NextAlive, NextSuspect, PingBack, RaiseSuspect, SpawnForward,
      GCBudget, GCExpire, GCEvict, NotifyRemoved

\* A record of suspected_ after a step is the one that was there, perhaps with
\* a greater incarnation, or it was inserted by InsertSuspect.
LEMMA SuspectedEffect ==
  ASSUME TypeInv, NEW t \in Threads, Step(t), NEW s \in Servers,
         suspected'[s] # Absent
  PROVE  \/ /\ suspected[s] # Absent
            /\ suspected'[s].ts = suspected[s].ts
            /\ suspected'[s].lt = suspected[s].lt
         \/ /\ suspected[s] = Absent
            /\ pc[t] = "insert_suspect" /\ call[t].srv = s
            /\ UNCHANGED alive
            /\ suspected'[s].lt = call[t].lt
<1> DEFINE c == call[t]
<1> USE ServerAssumption DEF At
<1>0. c \in Call /\ CallFormed(pc[t], c) /\ suspected \in Table
  BY DEF TypeInv, TypeOK
<1>1. CASE UNCHANGED suspected
  BY <1>1
<1>2. CASE RemoveSuspected(t) \/ Forgive(t) \/ GCEvict(t)
  BY <1>0, <1>1, <1>2, Zenon DEF RemoveSuspected, Forgive, GCEvict, Table
<1>3. CASE InsertSuspect(t)
  <2>1. CASE /\ suspected[c.srv] = Absent
             /\ suspected' = [suspected EXCEPT ![c.srv] = MakeRecord(c.ts, c.lt)]
    <3>1. /\ s # c.srv => suspected'[s] = suspected[s]
          /\ s = c.srv => suspected'[s].lt = c.lt
      BY <1>0, <2>1, Zenon DEF Table, MakeRecord
    <3> QED
      BY <1>3, <2>1, <3>1, Zenon DEF InsertSuspect
  <2> QED
    BY <1>1, <1>3, <2>1, Zenon DEF InsertSuspect
<1>4. CASE RaiseSuspect(t)
  <2>1. c.rec \in ReportRecord(Servers)
    BY <1>0, <1>4, Zenon DEF RaiseSuspect, CallFormed, Raising
  <2> QED
    BY <1>0, <1>4, <2>1, RaiseTyped DEF RaiseSuspect
<1> QED
  BY <1>1, <1>2, <1>3, <1>4, ZenonT(60)
  DEF Step, AddAlive, ReportSuspected, HandlerStep, GCStep, StampAlive,
      InsertAlive, RefreshAlive, NotifyAlive, StampSuspect, EraseAlive,
      NotifySuspect, NextAlive, RaiseAlive, NextSuspect, PingBack, SpawnForward,
      GCBudget, GCExpire, NotifyRemoved

\* A step is a jump of its thread; the Lamport time in its locals is the one it
\* had, the present one, or the initial one.
LEMMA StepJumps ==
  ASSUME TypeInv, NEW t \in Threads, Step(t)
  PROVE  /\ UNCHANGED <<now, lamport_time>>
         /\ \E label \in Labels, d \in Call :
              Jump(t, label, d) /\ d.lt \in {call[t].lt, lamport_time, 0}
<1> DEFINE c == call[t]
<1> USE DEF At
<1>0. c \in Call /\ c.ret \in Labels /\ NoCall.lt = 0 /\ lamport_time \in Nat
  BY ReturnsAreLabels DEF TypeInv, TypeOK, Call, NoCall
<1>1. CASE AddAlive(t) \/ ReportSuspected(t)
  <2>1. [c EXCEPT !.lt = lamport_time] \in Call
        /\ [c EXCEPT !.lt = lamport_time].lt = lamport_time
    BY <1>0 DEF Call
  <2> QED
    BY <1>0, <1>1, <2>1, Zenon
    DEF AddAlive, ReportSuspected, RemoveSuspected, StampAlive, InsertAlive,
        RefreshAlive, NotifyAlive, StampSuspect, EraseAlive, InsertSuspect,
        NotifySuspect, Labels
<1>2. CASE HandlerStep(t)
  <2>1. ASSUME NEW r \in c.al
        PROVE  LET d == [c EXCEPT !.al = @ \ {r}]
                   e == About(d, r, "raise_alive")
               IN  /\ d \in Call /\ d.lt = c.lt
                   /\ e \in Call /\ e.lt = c.lt
                   /\ EnterAddAlive(r.server, "raise_alive") \in Labels
    BY <1>0, Zenon DEF Call, About, ReportRecord, Returns, EnterAddAlive, Labels
  <2>2. ASSUME NEW r \in c.su
        PROVE  LET d == [c EXCEPT !.su = @ \ {r}]
                   e == About(d, r, "raise_suspect")
               IN  /\ d \in Call /\ d.lt = c.lt
                   /\ e \in Call /\ e.lt = c.lt
                   /\ EnterReportSuspected(r.server, "raise_suspect") \in Labels
    BY <1>0, Zenon DEF Call, About, ReportRecord, Returns, EnterReportSuspected, Labels
  <2>3. CASE NextAlive(t)
    BY <1>0, <2>1, <2>3, Zenon DEF NextAlive, Labels
  <2>4. CASE NextSuspect(t)
    BY <1>0, <2>2, <2>4, NoCallTyped, ZenonT(60) DEF NextSuspect, Labels
  <2>5. CASE \/ Forgive(t) \/ RaiseAlive(t) \/ PingBack(t) \/ RaiseSuspect(t)
             \/ SpawnForward(t)
    BY <1>0, <2>5, NoCallTyped
    DEF Forgive, RaiseAlive, PingBack, RaiseSuspect, SpawnForward, Labels
  <2> QED
    BY <1>2, <2>3, <2>4, <2>5 DEF HandlerStep
<1>3. CASE GCStep(t)
  <2>1. LET d == [c EXCEPT !.su = { r \in @ : r.ts < now - GracePeriod }]
        IN  d \in Call /\ d.lt = c.lt
    BY <1>0 DEF Call
  <2>2. \A r \in c.su : LET d == [c EXCEPT !.su = @ \ {r}, !.srv = r.server]
                        IN  d \in Call /\ d.lt = c.lt
    BY <1>0, Zenon DEF Call, ReportRecord
  <2>3. \A report \in AddRecordsToBudget(c.su, now) :
          LET d == [c EXCEPT !.su = report] IN  d \in Call /\ d.lt = c.lt
    BY <1>0, BudgetSelects DEF Call
  <2> QED
    BY <1>0, <1>3, <2>1, <2>2, <2>3, NoCallTyped, Zenon
    DEF GCStep, GCBudget, GCExpire, GCEvict, NotifyRemoved, Labels
<1> QED
  BY <1>1, <1>2, <1>3, Zenon DEF Step

-----------------------------------------------------------------------------
\* Lamport times.  The strengthening: the stamp in a thread's locals, read some
\* steps before it is used, is not in the future either.

StampInv == StampsInThePast /\ \A t \in Threads : call[t].lt <= lamport_time

\* Every step keeps the stamps in the past.
LEMMA NextStamps == TypeInv /\ StampInv /\ [Next]_vars => StampInv'
<1> SUFFICES ASSUME TypeInv, StampInv, [Next]_vars PROVE StampInv'
  OBVIOUS
<1> USE DEF StampInv, StampsInThePast
<1>1. CASE Tick \/ UNCHANGED vars
  BY <1>1, Zenon DEF Tick, vars
<1>2. CASE Begin
  <2>1. /\ UNCHANGED <<alive, suspected>>
        /\ lamport_time \in Nat /\ lamport_time' \in Nat /\ lamport_time <= lamport_time'
    BY <1>2, BeginJumps DEF TypeInv, TypeOK
  <2>2. \A s \in Servers : /\ alive[s] # Absent => alive[s].lt \in Nat
                           /\ suspected[s] # Absent => suspected[s].lt \in Nat
    BY DEF TypeInv, TypeOK, Table, ServerRecord
  <2>3. \A u \in Threads : call[u].lt \in Nat
    BY Zenon DEF TypeInv, TypeOK, Call
  <2>4. \A u \in Threads : call'[u] = call[u] \/ call'[u].lt = 0
    BY <1>2, BeginJumps DEF Jump, NoCall, TypeInv, TypeOK
  <2> QED
    BY <2>1, <2>2, <2>3, <2>4
<1>3. ASSUME NEW t \in Threads, Step(t) PROVE StampInv'
  <2>1. UNCHANGED lamport_time /\ lamport_time \in Nat
    BY <1>3, StepJumps DEF TypeInv, TypeOK
  <2>2. \A u \in Threads : call'[u].lt <= lamport_time
    <3>1. PICK label \in Labels, d \in Call :
            Jump(t, label, d) /\ d.lt \in {call[t].lt, lamport_time, 0}
      BY <1>3, StepJumps
    <3>2. \A u \in Threads : call'[u] \in {call[u], d, NoCall}
      BY <3>1, Zenon DEF Jump, TypeInv, TypeOK
    <3>3. NoCall.lt = 0 /\ d.lt <= lamport_time
      BY <3>1, <2>1 DEF NoCall, StampInv
    <3> QED
      BY <2>1, <3>2, <3>3
  <2>3. \A s \in Servers : alive'[s] # Absent => alive'[s].lt <= lamport_time
    BY <1>3, <2>1, AliveEffect
  <2>4. \A s \in Servers : suspected'[s] # Absent => suspected'[s].lt <= lamport_time
    BY <1>3, SuspectedEffect
  <2> QED
    BY <2>1, <2>2, <2>3, <2>4, Zenon
<1> QED
  BY <1>1, <1>2, <1>3 DEF Next

\* No record of either table carries a Lamport time the server has not reached,
\* whatever the messages say and however threads interleave.
THEOREM StampsNeverInFuture == Spec => []StampsInThePast
<1>1. Init => StampInv
  BY DEF Init, StampInv, StampsInThePast, NoCall
<1>2. StampInv => StampsInThePast
  BY DEF StampInv
<1> QED
  BY InitTyped, NextTyped, NextStamps, <1>1, <1>2, PTL DEF Spec

\* The Lamport time and the incarnation of a server do not go back while it
\* stays in alive_, with any number of threads refreshing it.
THEOREM AliveRecordsNeverGoBack == Spec => AliveRecordsGrow
<1> DEFINE Grow == \A s \in Servers :
      alive[s] # Absent /\ alive'[s] # Absent =>
        alive[s].lt <= alive'[s].lt /\ alive[s].inc <= alive'[s].inc
<1>1. TypeInv /\ StampInv /\ [Next]_vars => [Grow]_vars
  <2> SUFFICES ASSUME TypeInv, StampInv, [Next]_vars,
                      NEW s \in Servers, alive[s] # Absent, alive'[s] # Absent
               PROVE  alive[s].lt <= alive'[s].lt /\ alive[s].inc <= alive'[s].inc
    BY Zenon
  <2>0. alive[s].lt \in Nat /\ alive[s].inc \in Nat
    BY DEF TypeInv, TypeOK, Table, ServerRecord
  <2>1. CASE UNCHANGED alive
    BY <2>0, <2>1
  <2>2. CASE \E t \in Threads : Step(t)
    <3>1. PICK t \in Threads : Step(t)
      BY <2>2, Zenon
    <3>2. /\ alive'[s].inc >= alive[s].inc
          /\ alive'[s].lt \in {alive[s].lt, lamport_time}
      BY <3>1, AliveEffect, Zenon
    <3>3. alive'[s] \in ServerRecord
      BY NextTyped DEF TypeInv, TypeOK, Table
    <3> QED
      BY <2>0, <3>2, <3>3 DEF StampInv, StampsInThePast, ServerRecord
  <2> QED
    BY <2>1, <2>2, BeginJumps DEF Next, Tick, vars
<1>2. Init => StampInv
  BY DEF Init, StampInv, StampsInThePast, NoCall
<1> QED
  BY InitTyped, NextTyped, NextStamps, <1>1, <1>2, PTL DEF Spec, AliveRecordsGrow

\* The time a suspicion is dated, which decides when the server is evicted, does
\* not move while the server stays suspected.
THEOREM SuspicionNeverRestarted == Spec => SuspicionKept
<1> DEFINE Kept == \A s \in Servers :
      suspected[s] # Absent /\ suspected'[s] # Absent =>
        suspected'[s].ts = suspected[s].ts /\ suspected'[s].lt = suspected[s].lt
<1>1. TypeInv /\ [Next]_vars => [Kept]_vars
  <2> SUFFICES ASSUME TypeInv, [Next]_vars,
                      NEW s \in Servers, suspected[s] # Absent, suspected'[s] # Absent
               PROVE  suspected'[s].ts = suspected[s].ts
                      /\ suspected'[s].lt = suspected[s].lt
    OBVIOUS
  <2>1. CASE UNCHANGED suspected
    BY <2>1, Zenon
  <2>2. CASE \E t \in Threads : Step(t)
    BY <2>2, SuspectedEffect
  <2> QED
    BY <2>1, <2>2, BeginJumps DEF Next, Tick, vars
<1> QED
  BY InitTyped, NextTyped, <1>1, PTL DEF Spec, SuspicionKept

-----------------------------------------------------------------------------
\* Calls that do not overlap.  What a thread has established by the time it is
\* at a label still holds there, because no other thread is inside a call:
\* between the two critical sections of a move the server is in neither table,
\* what was checked to be fresh is fresh, and the copy the collector works from
\* agrees with the table.

Coherent(label, c) ==
  /\ label \in {"stamp_alive", "insert_alive"} => suspected[c.srv] = Absent
  /\ label = "insert_suspect" => alive[c.srv] = Absent
  /\ label = "erase_suspected" /\ c.ret = "raise_alive" => ~Stale(suspected, c.rec)
  /\ label \in {"stamp_suspect", "erase_alive"} /\ c.ret = "raise_suspect" =>
       ~Stale(alive, c.rec)
  /\ label \in {"gc_budget", "gc_expire"} =>
       \A r \in c.su : suspected[r.server].ts = r.ts
  /\ label \in {"gc_evict", "notify_removed"} =>
       \A r \in c.su :
         /\ r.ts < now - GracePeriod
         /\ suspected[r.server] = Absent \/ suspected[r.server].ts = r.ts

SerialInv ==
  /\ \A t, u \in Threads : pc[t] # "idle" /\ pc[u] # "idle" => t = u
  /\ Exclusive
  /\ \A t \in Threads : Coherent(pc[t], call[t])

\* Only a thread inside a call takes a step.
LEMMA StepIsBusy ==
  ASSUME NEW t \in Threads, Step(t)
  PROVE  pc[t] # "idle"
  BY Zenon DEF At, Step, AddAlive, ReportSuspected, HandlerStep, GCStep, RemoveSuspected,
         StampAlive, InsertAlive, RefreshAlive, NotifyAlive, StampSuspect,
         EraseAlive, InsertSuspect, NotifySuspect, Forgive, NextAlive, RaiseAlive,
         NextSuspect, PingBack, RaiseSuspect, SpawnForward, GCBudget, GCExpire,
         GCEvict, NotifyRemoved

\* The labels at which nothing needs to have been established.
Unconstrained ==
  {"idle", "refresh_alive", "notify_alive", "notify_suspect", "forgive",
   "next_alive", "raise_alive", "next_suspect", "ping_back", "raise_suspect",
   "spawn_forward"}

\* A thread that goes on to such a label has to have established nothing.
LEMMA JumpUnconstrained ==
  ASSUME TypeInv, NEW t \in Threads, NEW label \in Unconstrained, NEW c \in Call,
         Jump(t, label, c)
  PROVE  Coherent(pc[t], call[t])'
  BY DEF Jump, Coherent, Unconstrained, TypeInv, TypeOK

\* What the thread that takes a step has established afterwards.
LEMMA StepCoherent ==
  ASSUME TypeInv, SerialInv, NEW t \in Threads, Step(t)
  PROVE  Coherent(pc[t], call[t])'
<1> DEFINE c == call[t]
<1> USE DEF At
<1>0. /\ c \in Call /\ c.ret \in Unconstrained /\ CallFormed(pc[t], c)
      /\ Coherent(pc[t], c) /\ alive \in Table /\ suspected \in Table
  BY DEF TypeInv, TypeOK, Call, Returns, Unconstrained, SerialInv
<1>1. CASE RemoveSuspected(t)
  BY <1>0, <1>1, Zenon
  DEF RemoveSuspected, Jump, Coherent, CallFormed, AboutServer, TypeInv, TypeOK, Table
<1>2. CASE StampAlive(t)
  <2> DEFINE d == [c EXCEPT !.lt = lamport_time]
  <2>1. d.srv = c.srv
    BY <1>0 DEF Call
  <2>2. pc'[t] = "insert_alive" /\ call'[t] = d
    BY <1>2 DEF StampAlive, Jump, TypeInv, TypeOK
  <2> HIDE DEF d
  <2> QED
    BY <1>0, <1>2, <2>1, <2>2 DEF StampAlive, Coherent
<1>3. CASE InsertAlive(t) \/ RefreshAlive(t) \/ NotifyAlive(t)
  BY <1>0, <1>3, JumpUnconstrained
  DEF InsertAlive, RefreshAlive, NotifyAlive, Unconstrained
<1>4. CASE StampSuspect(t)
  <2> DEFINE d == [c EXCEPT !.lt = lamport_time]
  <2>1. d.srv = c.srv /\ d.ret = c.ret /\ d.rec = c.rec
    BY <1>0 DEF Call
  <2>2. pc'[t] = "erase_alive" /\ call'[t] = d
    BY <1>4, Zenon DEF StampSuspect, Jump, TypeInv, TypeOK
  <2> HIDE DEF d
  <2> QED
    BY <1>0, <1>4, <2>1, <2>2 DEF StampSuspect, Coherent, Stale
<1>5. CASE EraseAlive(t)
  BY <1>0, <1>5, Zenon
  DEF EraseAlive, Jump, Coherent, CallFormed, AboutServer, TypeInv, TypeOK, Table
<1>6. CASE InsertSuspect(t) \/ NotifySuspect(t)
  BY <1>0, <1>6, JumpUnconstrained, Zenon DEF InsertSuspect, NotifySuspect, Unconstrained
<1>7. CASE \/ Forgive(t) \/ RaiseAlive(t) \/ PingBack(t) \/ RaiseSuspect(t)
           \/ SpawnForward(t)
  BY <1>0, <1>7, NoCallTyped, JumpUnconstrained, Zenon
  DEF Forgive, RaiseAlive, PingBack, RaiseSuspect, SpawnForward, Unconstrained
<1>8. CASE NextAlive(t)
  <2>1. CASE Jump(t, "next_suspect", c)
    BY <1>0, <2>1, JumpUnconstrained DEF Unconstrained
  <2>2. ASSUME NEW r \in c.al,
               IF r.server = Self \/ Stale(suspected, r)
               THEN Jump(t, "next_alive", [c EXCEPT !.al = @ \ {r}])
               ELSE Jump(t, EnterAddAlive(r.server, "raise_alive"),
                         About([c EXCEPT !.al = @ \ {r}], r, "raise_alive"))
        PROVE  Coherent(pc[t], call[t])'
    <3> DEFINE d == [c EXCEPT !.al = @ \ {r}]
    <3> DEFINE e == About(d, r, "raise_alive")
    <3>1. d \in Call /\ e \in Call /\ e.rec = r
      BY <1>0, Zenon DEF Call, About, ReportRecord, Returns
    <3> HIDE DEF d, e
    <3>2. CASE Jump(t, "next_alive", d)
      BY <3>1, <3>2, JumpUnconstrained DEF Unconstrained
    <3>3. CASE /\ ~Stale(suspected, r)
               /\ Jump(t, EnterAddAlive(r.server, "raise_alive"), e)
      <4>1. CASE Jump(t, "raise_alive", e)
        BY <3>1, <4>1, JumpUnconstrained DEF Unconstrained
      <4>2. CASE Jump(t, "erase_suspected", e)
        <5>1. pc'[t] = "erase_suspected" /\ call'[t] = e
          BY <4>2 DEF Jump, TypeInv, TypeOK
        <5> QED
          BY <1>8, <3>1, <3>3, <5>1 DEF NextAlive, Coherent, Stale
      <4> QED
        BY <3>3, <4>1, <4>2 DEF EnterAddAlive
    <3> QED
      BY <2>2, <3>2, <3>3 DEF d, e
  <2> QED
    BY <1>8, <2>1, <2>2, Zenon DEF NextAlive
<1>9. CASE NextSuspect(t)
  <2>1. CASE Jump(t, "idle", NoCall)
    BY <2>1, NoCallTyped, JumpUnconstrained DEF Unconstrained
  <2>2. ASSUME NEW r \in c.su,
               LET d == [c EXCEPT !.su = @ \ {r}] IN
               \/ Jump(t, "ping_back", d)
               \/ Jump(t, "next_suspect", d)
               \/ /\ ~Stale(alive, r)
                  /\ Jump(t, EnterReportSuspected(r.server, "raise_suspect"),
                          About(d, r, "raise_suspect"))
        PROVE  Coherent(pc[t], call[t])'
    <3> DEFINE d == [c EXCEPT !.su = @ \ {r}]
    <3> DEFINE e == About(d, r, "raise_suspect")
    <3>1. d \in Call /\ e \in Call /\ e.rec = r /\ e.ret = "raise_suspect"
      BY <1>0, Zenon DEF Call, About, ReportRecord, Returns
    <3> HIDE DEF d, e
    <3>2. CASE Jump(t, "ping_back", d) \/ Jump(t, "next_suspect", d)
      BY <3>1, <3>2, JumpUnconstrained DEF Unconstrained
    <3>3. CASE /\ ~Stale(alive, r)
               /\ Jump(t, EnterReportSuspected(r.server, "raise_suspect"), e)
      <4>1. CASE Jump(t, "raise_suspect", e)
        BY <3>1, <4>1, JumpUnconstrained DEF Unconstrained
      <4>2. ASSUME NEW label \in {"erase_suspected", "stamp_suspect"}, Jump(t, label, e)
            PROVE  Coherent(pc[t], call[t])'
        <5>1. pc'[t] = label /\ call'[t] = e
          BY <4>2 DEF Jump, TypeInv, TypeOK
        <5> QED
          BY <1>9, <3>1, <3>3, <5>1 DEF NextSuspect, Coherent, Stale
      <4> QED
        BY <3>3, <4>1, <4>2, Zenon DEF EnterReportSuspected
    <3> QED
      BY <2>2, <3>2, <3>3 DEF d, e
  <2> QED
    BY <1>9, <2>1, <2>2, Zenon DEF NextSuspect
<1>10. CASE GCExpire(t)
  <2> DEFINE d == [c EXCEPT !.su = { r \in @ : r.ts < now - GracePeriod }]
  <2>1. d.su = { r \in c.su : r.ts < now - GracePeriod }
    BY <1>0 DEF Call
  <2>2. pc'[t] = "gc_evict" /\ call'[t] = d
    BY <1>10 DEF GCExpire, Jump, TypeInv, TypeOK
  <2> HIDE DEF d
  <2> QED
    BY <1>0, <1>10, <2>1, <2>2 DEF GCExpire, Coherent
<1>11. CASE GCEvict(t)
  <2>1. CASE Jump(t, "idle", NoCall)
    BY <2>1, NoCallTyped, JumpUnconstrained DEF Unconstrained
  <2>2. ASSUME NEW r \in c.su, NEW label \in {"gc_evict", "notify_removed"},
               Jump(t, label, [c EXCEPT !.su = @ \ {r}, !.srv = r.server]),
               suspected' = [suspected EXCEPT ![r.server] = Absent]
        PROVE  Coherent(pc[t], call[t])'
    <3> DEFINE d == [c EXCEPT !.su = @ \ {r}, !.srv = r.server]
    <3>1. d.su = c.su \ {r} /\ \A q \in c.su : q.server \in Servers
      BY <1>0 DEF Call, ReportRecord
    <3>2. pc'[t] = label /\ call'[t] = d
      BY <2>2, Zenon DEF Jump, TypeInv, TypeOK
    <3> HIDE DEF d
    <3> QED
      BY <1>0, <1>11, <2>2, <3>1, <3>2, Zenon DEF GCEvict, Coherent, Table
  <2> QED
    BY <1>11, <2>1, <2>2, Zenon DEF GCEvict
<1>12. CASE NotifyRemoved(t)
  <2>1. pc'[t] = "gc_evict" /\ call'[t] = c
    BY <1>12 DEF NotifyRemoved, Jump, TypeInv, TypeOK
  <2> QED
    BY <1>0, <1>12, <2>1, Zenon DEF NotifyRemoved, Coherent
<1>13. CASE GCBudget(t)
  <2>1. PICK report \in AddRecordsToBudget(c.su, now) :
          Jump(t, "gc_expire", [c EXCEPT !.su = report])
    BY <1>13 DEF GCBudget
  <2> DEFINE d == [c EXCEPT !.su = report]
  <2>2. d.su \subseteq c.su
    BY <1>0, <2>1, BudgetSelects DEF Call
  <2>3. pc'[t] = "gc_expire" /\ call'[t] = d
    BY <2>1 DEF Jump, TypeInv, TypeOK
  <2> HIDE DEF d
  <2> QED
    BY <1>0, <1>13, <2>2, <2>3 DEF GCBudget, Coherent
<1> QED
  BY <1>1, <1>2, <1>3, <1>4, <1>5, <1>6, <1>7, <1>8, <1>9, <1>10, <1>11, <1>12, <1>13, Zenon
  DEF Step, AddAlive, ReportSuspected, HandlerStep, GCStep

\* A step of the one thread inside a call keeps SerialInv.
LEMMA SerialStep ==
  ASSUME TypeInv, SerialInv, NEW t \in Threads, Step(t)
  PROVE  SerialInv'
<1>1. \A u \in Threads : u # t => pc[u] = "idle" /\ pc'[u] = "idle" /\ call'[u] = call[u]
  BY StepIsBusy, StepJumps DEF SerialInv, Jump, TypeInv, TypeOK
<1>2. \A u, v \in Threads : pc'[u] # "idle" /\ pc'[v] # "idle" => u = v
  BY <1>1
<1>3. Exclusive'
  <2> SUFFICES ASSUME NEW s \in Servers, alive'[s] # Absent, suspected'[s] # Absent
               PROVE  FALSE
    BY DEF Exclusive
  <2>1. Coherent(pc[t], call[t]) /\ (alive[s] = Absent \/ suspected[s] = Absent)
    BY Zenon DEF SerialInv, Exclusive
  <2>2. CASE alive[s] # Absent
    BY <2>1, <2>2, SuspectedEffect, Zenon DEF Coherent
  <2>3. CASE alive[s] = Absent
    BY <2>1, <2>3, AliveEffect, Zenon DEF Coherent
  <2> QED
    BY <2>2, <2>3
<1>4. \A u \in Threads : Coherent(pc[u], call[u])'
  BY <1>1, StepCoherent DEF Coherent
<1> QED
  BY <1>2, <1>3, <1>4, Zenon DEF SerialInv

\* So does the beginning of a call, since no other is under way.
LEMMA SerialBegin ==
  ASSUME ~Overlap, TypeInv, SerialInv, Begin
  PROVE  SerialInv'
<1>1. UNCHANGED <<now, alive, suspected>>
  BY BeginJumps, Zenon
<1>2. CASE UNCHANGED <<pc, call>>
  BY <1>1, <1>2, ZenonT(60) DEF SerialInv, Exclusive, Coherent, Stale
<1>3. CASE ~UNCHANGED <<pc, call>>
  <2>1. PICK t \in Threads, label \in Labels, d \in Call :
          /\ MayBegin(t)
          /\ Jump(t, label, d)
          /\ d.ret \notin Raising
          /\ label \in {"idle", "erase_suspected", "stamp_suspect", "forgive",
                        "spawn_forward", "next_alive", "gc_budget"}
          /\ label = "gc_budget" => d.su \subseteq Records(suspected)
    BY <1>3, BeginJumps
  <2>2. \A u \in Threads : pc[u] = "idle"
    BY <2>1, Zenon DEF MayBegin, Idle
  <2>3. \A u \in Threads : u # t => pc'[u] = "idle"
    BY <2>1, <2>2 DEF Jump, TypeInv, TypeOK
  <2>4. Exclusive'
    BY <1>1, Zenon DEF SerialInv, Exclusive
  <2>5. pc'[t] = label /\ (label # "idle" => call'[t] = d)
    BY <2>1 DEF Jump, TypeInv, TypeOK
  <2>6. Coherent(pc[t], call[t])'
    <3>1. CASE label # "gc_budget"
      BY <2>1, <2>5, <3>1, Zenon DEF Coherent, Raising
    <3>2. CASE label = "gc_budget"
      <4>1. \A r \in d.su : suspected[r.server].ts = r.ts
        BY <2>1, <3>2 DEF Records
      <4> QED
        BY <1>1, <2>5, <3>2, <4>1, Zenon DEF Coherent
    <3> QED
      BY <3>1, <3>2, Zenon
  <2>7. \A u \in Threads : Coherent(pc[u], call[u])'
    BY <2>3, <2>6 DEF Coherent
  <2> QED
    BY <2>3, <2>4, <2>7, Zenon DEF SerialInv
<1> QED
  BY <1>2, <1>3, Zenon

\* SerialInv is inductive when calls do not overlap.
LEMMA SerialInvariance ==
  ASSUME ~Overlap
  PROVE  /\ Init => SerialInv
         /\ TypeInv /\ SerialInv /\ [Next]_vars => SerialInv'
<1>1. Init => SerialInv
  BY DEF Init, SerialInv, Exclusive, Coherent
<1>2. ASSUME TypeInv, SerialInv, [Next]_vars PROVE SerialInv'
  <2>1. CASE UNCHANGED vars
    BY <1>2, <2>1, Zenon DEF vars, SerialInv, Exclusive, Coherent, Stale
  <2>2. CASE Tick
    <3>1. /\ now \in Nat /\ now' = now + 1
          /\ UNCHANGED <<alive, suspected, pc, call>>
      BY <1>2, <2>2, Zenon DEF Tick, TypeInv, TypeOK
    <3>2. \A t \in Threads : \A r \in call[t].su : r.ts \in Nat
      BY <1>2 DEF TypeInv, TypeOK, Call, ReportRecord
    <3>3. \A t \in Threads : Coherent(pc[t], call[t])'
      <4> SUFFICES ASSUME NEW t \in Threads PROVE Coherent(pc[t], call[t])'
        BY Zenon
      <4>1. Coherent(pc[t], call[t])
        BY <1>2, Zenon DEF SerialInv
      <4>2. \A r \in call[t].su : r.ts < now - GracePeriod => r.ts < now' - GracePeriod
        BY <3>1, <3>2, ServerAssumption
      <4> QED
        BY <3>1, <4>1, <4>2, Zenon DEF Coherent, Stale
    <3> QED
      BY <1>2, <3>1, <3>3 DEF SerialInv, Exclusive
  <2>3. CASE Begin
    BY <1>2, <2>3, SerialBegin
  <2>4. CASE \E t \in Threads : Step(t)
    BY <1>2, <2>4, SerialStep
  <2> QED
    BY <1>2, <2>1, <2>2, <2>3, <2>4, Zenon DEF Next
<1> QED
  BY <1>1, <1>2, Zenon

\* When calls do not overlap, no server is ever in both tables, for any number
\* of servers and any messages.
THEOREM SerialExclusive ==
  ASSUME ~Overlap
  PROVE  Spec => []Exclusive
<1>1. SerialInv => Exclusive
  BY DEF SerialInv
<1>2. Init => SerialInv
  BY SerialInvariance
<1>3. TypeInv /\ SerialInv /\ [Next]_vars => SerialInv'
  BY SerialInvariance
<1> QED
  BY InitTyped, NextTyped, <1>1, <1>2, <1>3, PTL DEF Spec

\* When calls do not overlap, a report moves a server from one table to the
\* other only if what the table says is not newer.
THEOREM SerialFreshNews ==
  ASSUME ~Overlap
  PROVE  Spec => StaleNewsIgnored
<1> DEFINE Fresh ==
      \A t \in Threads :
        LET c == call[t] IN
        /\ (At(t, "erase_suspected") /\ c.ret = "raise_alive" /\ pc'[t] # pc[t])
             => ~Stale(suspected, c.rec)
        /\ (At(t, "erase_alive") /\ c.ret = "raise_suspect" /\ pc'[t] # pc[t])
             => ~Stale(alive, c.rec)
<1>1. SerialInv => [Fresh]_vars
  BY DEF SerialInv, Coherent, At
<1>2. Init => SerialInv
  BY SerialInvariance
<1>3. TypeInv /\ SerialInv /\ [Next]_vars => SerialInv'
  BY SerialInvariance
<1> QED
  BY InitTyped, NextTyped, <1>1, <1>2, <1>3, PTL DEF Spec, StaleNewsIgnored

\* When calls do not overlap, the garbage collector evicts only servers whose
\* suspicion is older than the grace period.
THEOREM SerialEvictions ==
  ASSUME ~Overlap
  PROVE  Spec => EvictsOnlyExpired
<1> DEFINE Due ==
      \A s \in Servers :
        (At(Collector, "gc_evict") /\ pc'[Collector] = "notify_removed"
           /\ call'[Collector].srv = s)
          => suspected[s].ts < now - GracePeriod
<1>1. TypeInv /\ SerialInv /\ [Next]_vars => [Due]_vars
  <2> SUFFICES ASSUME TypeInv, SerialInv, [Next]_vars,
                      pc[Collector] = "gc_evict", pc'[Collector] = "notify_removed"
               PROVE  suspected[call'[Collector].srv].ts < now - GracePeriod
    BY DEF At
  <2>1. Collector \in Threads
    BY DEF Threads
  <2>2. \E t \in Threads : Step(t)
    <3>1. ~Begin
      <4> SUFFICES ASSUME Begin PROVE FALSE
        BY Zenon
      <4>1. PICK t \in Threads, label \in Labels, d \in Call :
              MayBegin(t) /\ Jump(t, label, d)
        BY BeginJumps, Zenon
      <4> QED
        BY <2>1, <4>1 DEF MayBegin, Idle, Jump, TypeInv, TypeOK
    <3> QED
      BY <3>1 DEF Next, Tick, vars
  <2>3. Step(Collector)
    BY <2>1, <2>2, StepIsBusy, Zenon DEF SerialInv
  <2>4. GCEvict(Collector)
    BY <2>3
    DEF At, Step, AddAlive, ReportSuspected, HandlerStep, GCStep, RemoveSuspected,
        StampAlive, InsertAlive, RefreshAlive, NotifyAlive, StampSuspect,
        EraseAlive, InsertSuspect, NotifySuspect, Forgive, NextAlive, RaiseAlive,
        NextSuspect, PingBack, RaiseSuspect, SpawnForward, GCBudget, GCExpire,
        NotifyRemoved
  <2>5. PICK r \in call[Collector].su :
          /\ Jump(Collector, IF suspected[r.server] = Absent
                             THEN "gc_evict" ELSE "notify_removed",
                  [call[Collector] EXCEPT !.su = @ \ {r}, !.srv = r.server])
    BY <2>1, <2>4, Zenon DEF GCEvict, Jump, TypeInv, TypeOK
  <2>6. suspected[r.server] # Absent
    BY <2>1, <2>5 DEF Jump, TypeInv, TypeOK
  <2>7. call'[Collector].srv = r.server
    BY <2>1, <2>5, <2>6 DEF Jump, TypeInv, TypeOK, Call
  <2> QED
    BY <2>1, <2>6, <2>7, Zenon DEF SerialInv, Coherent
<1>2. Init => SerialInv
  BY SerialInvariance
<1>3. TypeInv /\ SerialInv /\ [Next]_vars => SerialInv'
  BY SerialInvariance
<1> QED
  BY InitTyped, NextTyped, <1>1, <1>2, <1>3, PTL DEF Spec, EvictsOnlyExpired
=============================================================================
