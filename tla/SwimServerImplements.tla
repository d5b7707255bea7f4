------------------------ MODULE SwimServerImplements ------------------------
(* Proof that SwimServer implements Membership as long as its calls do not   *)
(* overlap, for any servers, threads, messages and bounds.                   *)
EXTENDS SwimServerProofs

-----------------------------------------------------------------------------
(* The inductive invariant.                                                  *)

\* What the tables say of s.
Present(s) ==
  IF alive[s] # Absent THEN "alive" ELSE IF suspected[s] # Absent THEN "suspect" ELSE "unknown"

\* The status of s when the thread that is inside a call is at this label.
StatusAt(label, c, s) ==
  IF label \in {"stamp_alive", "insert_alive"} /\ c.srv = s THEN "alive"
  ELSE IF label = "insert_suspect" /\ c.srv = s THEN "suspect" ELSE Present(s)

\* The change of c.srv has not been announced.
Notifying == {"notify_alive", "notify_suspect", "notify_removed"}

\* What has been announced of s: what the tables say, unless the thread is in the
\* middle of a move of s.  Then the table it is about to insert s into tells whether
\* there will be anything to announce.
Announcing(label, c, s) ==
  IF label \in {"stamp_alive", "insert_alive"} /\ c.srv = s
  THEN alive[s] # Absent <=> AnnouncedOf(s) = "alive"
  ELSE IF label = "insert_suspect" /\ c.srv = s
  THEN suspected[s] # Absent <=> AnnouncedOf(s) = "suspect"
  ELSE IF label \in Notifying /\ c.srv = s
  THEN AnnouncedOf(s) # Present(s)
  ELSE AnnouncedOf(s) = Present(s)

\* Where c.srv is, by the label a thread has come to.
Located(label, c) ==
  /\ label \in AboutServer \ {"forgive"} => c.srv \notin PortZero
  /\ label \in {"stamp_alive", "insert_alive", "refresh_alive", "notify_alive", "forgive"}
       => suspected[c.srv] = Absent
  /\ label = "notify_alive" => alive[c.srv] # Absent
  /\ label \in {"insert_suspect", "notify_suspect"} => alive[c.srv] = Absent
  /\ label = "notify_suspect" => suspected[c.srv] # Absent
  /\ label = "notify_removed" => alive[c.srv] = Absent /\ suspected[c.srv] = Absent
  /\ label \in {"stamp_suspect", "erase_alive", "insert_suspect", "notify_suspect"}
       => c.ret # "forgive"

\* Clients that run no server are in no table.
Unlisted == \A s \in PortZero : alive[s] = Absent /\ suspected[s] = Absent

\* Nobody but t is inside a call.
Alone(t) == \A u \in Threads \ {t} : pc[u] = "idle"

AnnouncedInv ==
  /\ Unlisted
  /\ \A t \in Threads : Located(pc[t], call[t])
  /\ \A t \in Threads : Alone(t) => \A s \in Servers : Announcing(pc[t], call[t], s)

-----------------------------------------------------------------------------
(* What a step of Membership looks like from inside SwimServer.              *)

Unsettled == {"stamp_alive", "insert_alive", "insert_suspect"} \cup Notifying

\* A step of thread t leaves s as it is ...
Same(t, s) ==
  /\ StatusAt(pc[t], call[t], s)' = StatusAt(pc[t], call[t], s)
  /\ AnnouncedOf(s)' = AnnouncedOf(s)

\* ... or gives it a new status, the old one having been announced ...
Changes(t, s) ==
  LET old == StatusAt(pc[t], call[t], s)
      new == StatusAt(pc[t], call[t], s)'
  IN /\ AnnouncedOf(s) = old /\ AnnouncedOf(s)' = AnnouncedOf(s)
     /\ new # old
     /\ \/ new = "alive"
        \/ new = "suspect" /\ s # Self
        \/ new = "unknown" /\ old = "suspect"

\* ... or announces it.
Announces(t, s) ==
  /\ StatusAt(pc[t], call[t], s)' = StatusAt(pc[t], call[t], s)
  /\ AnnouncedOf(s) # StatusAt(pc[t], call[t], s)
  /\ AnnouncedOf(s)' = StatusAt(pc[t], call[t], s)

\* At most one server changes.
Simulates(t) ==
  \E s \in Servers \ PortZero :
    /\ \A q \in Servers \ {s} : Same(t, q)
    /\ Same(t, s) \/ Changes(t, s) \/ Announces(t, s)

\* The same servers are in the tables, and the same has been announced of them.
Untouched(s) ==
  /\ alive'[s] = Absent <=> alive[s] = Absent
  /\ suspected'[s] = Absent <=> suspected[s] = Absent
  /\ told'[s] = told[s]

\* A step about s.
LEMMA OneServer ==
  ASSUME NEW t \in Threads, NEW s \in Servers \ PortZero,
         \A q \in Servers : Announcing(pc[t], call[t], q),
         \A q \in Servers \ {s} : Untouched(q),
         pc[t] \in Unsettled => call[t].srv = s,
         pc'[t] \in Unsettled => call'[t].srv = s,
         Announcing(pc[t], call[t], s)',
         Same(t, s) \/ Changes(t, s) \/ Announces(t, s)
  PROVE  (\A q \in Servers : Announcing(pc[t], call[t], q)') /\ Simulates(t)
<1>1. ASSUME NEW q \in Servers \ {s} PROVE Announcing(pc[t], call[t], q)' /\ Same(t, q)
  <2>1. Present(q)' = Present(q) /\ AnnouncedOf(q)' = AnnouncedOf(q)
    BY <1>1 DEF Untouched, Present, AnnouncedOf
  <2>2. AnnouncedOf(q) = Present(q)
    BY <1>1 DEF Announcing, Unsettled, Notifying
  <2>3. Announcing(pc[t], call[t], q)'
    BY <1>1, <2>1, <2>2 DEF Announcing, Unsettled, Notifying
  <2>4. Same(t, q)
    BY <1>1, <2>1 DEF Same, StatusAt, Unsettled
  <2> QED
    BY <2>3, <2>4
<1>2. \A q \in Servers : Announcing(pc[t], call[t], q)'
  BY <1>1
<1>3. Simulates(t)
  BY <1>1 DEF Simulates
<1> QED
  BY <1>2, <1>3

\* A step that moves and announces nobody.
LEMMA NoServer ==
  ASSUME NEW t \in Threads,
         \A q \in Servers : Announcing(pc[t], call[t], q),
         \A q \in Servers : Untouched(q),
         pc[t] \notin Unsettled, pc'[t] \notin Unsettled
  PROVE  (\A q \in Servers : Announcing(pc[t], call[t], q)') /\ Simulates(t)
<1>1. Self \in Servers \ PortZero
  BY ServerAssumption
<1>2. Present(Self)' = Present(Self) /\ AnnouncedOf(Self)' = AnnouncedOf(Self)
  BY <1>1 DEF Untouched, Present, AnnouncedOf
<1>3. Announcing(pc[t], call[t], Self)'
  BY <1>1, <1>2 DEF Announcing, Unsettled
<1>4. Same(t, Self)
  BY <1>2 DEF Same, StatusAt, Unsettled
<1> QED
  BY <1>1, <1>3, <1>4, OneServer

\* The thread is where it jumped to.
LEMMA Jumped ==
  ASSUME TypeInv, NEW t \in Threads, NEW label, NEW c, Jump(t, label, c)
  PROVE  pc'[t] = label /\ call'[t] = IF label = "idle" THEN NoCall ELSE c
BY DEF Jump, TypeInv, TypeOK

-----------------------------------------------------------------------------
(* The steps.                                                                *)

\* What a step of t has to keep.
Kept(t) ==
  /\ Unlisted' /\ Located(pc[t], call[t])'
  /\ (\A q \in Servers : Announcing(pc[t], call[t], q)')
  /\ Simulates(t)

\* Thread t is alone inside a call, and everything is in order.
Serial(t) == TypeInv /\ SerialInv /\ SelfInv /\ AnnouncedInv /\ Alone(t)

\* What that says of the thread's locals.
LEMMA InOrder ==
  ASSUME NEW t \in Threads, Serial(t)
  PROVE  /\ call[t] \in Call /\ CallFormed(pc[t], call[t]) /\ Located(pc[t], call[t])
         /\ alive \in Table /\ suspected \in Table /\ told \in [Servers -> Told]
         /\ \A s \in Servers : Announcing(pc[t], call[t], s)
         /\ pc[t] \in AboutServer => call[t].srv \in Servers
         /\ pc[t] \in AboutServer \ {"forgive"} => call[t].srv \in Servers \ PortZero
         /\ call[t].ret \notin Unsettled
BY DEF Serial, TypeInv, TypeOK, AnnouncedInv, CallFormed, Located, Call, Returns,
       Unsettled, Notifying

\* Returning from AddAlive or ReportSuspected: OnUpdate finds the server forgiven.
LEMMA ReturnLocated ==
  ASSUME NEW t \in Threads, NEW c \in Call, c.ret \in Returns,
         pc'[t] = c.ret, call'[t] = IF c.ret = "idle" THEN NoCall ELSE c,
         c.ret = "forgive" => suspected'[c.srv] = Absent
  PROVE  Located(pc[t], call[t])'
BY DEF Located, Returns, AboutServer

\* A step of AddAlive leaves everything in order and changes or announces at most one server.
LEMMA AddAliveKept ==
  ASSUME NEW t \in Threads, Serial(t), AddAlive(t)
  PROVE  Kept(t)
<1> DEFINE c == call[t]
<1> USE DEF At
<1>0. PICK s \in Servers \ PortZero : s = c.srv
  BY InOrder DEF AddAlive, RemoveSuspected, StampAlive, InsertAlive, RefreshAlive,
                 NotifyAlive, AboutServer
<1> USE <1>0
<1>1. /\ c \in Call /\ Located(pc[t], c) /\ alive \in Table /\ suspected \in Table
      /\ told \in [Servers -> Told] /\ s \in Servers \ PortZero
      /\ \A q \in Servers : Announcing(pc[t], c, q)
  BY InOrder
<1>2. c.ret \in Returns /\ c.ret \notin Unsettled /\ Unlisted /\ TypeInv
  BY <1>1, InOrder DEF Call, Serial, AnnouncedInv
<1>3. CASE RemoveSuspected(t)
  <2>1. /\ pc[t] = "erase_suspected" /\ pc'[t] = "stamp_alive" /\ call'[t] = c
        /\ alive' = alive /\ told' = told
        /\ \A q \in Servers : suspected'[q] = IF q = s THEN Absent ELSE suspected[q]
    <3>1. /\ pc[t] = "erase_suspected" /\ Jump(t, "stamp_alive", c)
          /\ alive' = alive /\ told' = told
          /\ suspected' = [suspected EXCEPT ![s] = Absent]
      BY <1>3 DEF RemoveSuspected
    <3>2. pc'[t] = "stamp_alive" /\ call'[t] = c
      BY <1>2, <3>1, Jumped
    <3> QED
      BY <1>1, <3>1, <3>2 DEF Table
  <2>2. \A q \in Servers \ {s} : Untouched(q)
    BY <2>1 DEF Untouched
  <2>3. AnnouncedOf(s)' = AnnouncedOf(s) /\ AnnouncedOf(s) = Present(s)
    BY <1>1, <2>1 DEF Announcing, AnnouncedOf, Notifying
  <2>4. Announcing(pc[t], call[t], s)'
    BY <2>1, <2>3 DEF Announcing, Present
  <2>5. Same(t, s) \/ Changes(t, s)
    BY <2>1, <2>3 DEF Same, Changes, StatusAt
  <2>6. Unlisted' /\ Located(pc[t], call[t])'
    BY <1>1, <1>2, <2>1, ServerAssumption, Zenon DEF Unlisted, Located, AboutServer
  <2> QED
    BY <1>1, <2>1, <2>2, <2>4, <2>5, <2>6, OneServer DEF Kept, Unsettled, Notifying
<1>4. CASE StampAlive(t)
  <2> DEFINE d == [c EXCEPT !.lt = lamport_time]
  <2>1. d.srv = s /\ d.ret = c.ret
    BY <1>1 DEF Call
  <2>2. /\ pc[t] = "stamp_alive" /\ pc'[t] = "insert_alive" /\ call'[t] = d
        /\ alive' = alive /\ suspected' = suspected /\ told' = told
    BY <1>2, <1>4, Jumped DEF StampAlive
  <2> HIDE DEF d
  <2>3. \A q \in Servers \ {s} : Untouched(q)
    BY <2>2 DEF Untouched
  <2>4. Announcing(pc[t], call[t], s)'
    BY <1>1, <2>1, <2>2 DEF Announcing, AnnouncedOf
  <2>5. Same(t, s)
    BY <2>1, <2>2 DEF Same, StatusAt, AnnouncedOf
  <2>6. Unlisted' /\ Located(pc[t], call[t])'
    BY <1>1, <1>2, <2>1, <2>2, Zenon DEF Unlisted, Located, AboutServer
  <2> QED
    BY <1>1, <2>1, <2>2, <2>3, <2>4, <2>5, <2>6, OneServer DEF Kept, Unsettled, Notifying
<1>5. CASE InsertAlive(t)
  <2>1. /\ pc[t] = "insert_alive" /\ call'[t] = c /\ suspected' = suspected /\ told' = told
        /\ \A q \in Servers \ {s} : alive'[q] = alive[q]
        /\ alive'[s] # Absent
        /\ pc'[t] = IF alive[s] = Absent THEN "notify_alive" ELSE "refresh_alive"
    <3>1. CASE alive[s] = Absent
      <4> DEFINE r == MakeRecord(c.ts, c.lt)
      <4>1. c.ts \in Nat /\ c.lt \in Nat
        BY <1>1 DEF Call
      <4>2. r # Absent
        BY <4>1, RecordTyped, ServerAssumption
      <4>3. /\ pc[t] = "insert_alive" /\ suspected' = suspected /\ told' = told
            /\ alive' = [alive EXCEPT ![s] = r] /\ Jump(t, "notify_alive", c)
        BY <1>5, <3>1 DEF InsertAlive
      <4> HIDE DEF r
      <4>4. pc'[t] = "notify_alive" /\ call'[t] = c
        BY <1>2, <4>3, Jumped
      <4> QED
        BY <1>1, <3>1, <4>2, <4>3, <4>4 DEF Table
    <3>2. CASE alive[s] # Absent
      <4>1. /\ pc[t] = "insert_alive" /\ suspected' = suspected /\ told' = told
            /\ alive' = alive /\ Jump(t, "refresh_alive", c)
        BY <1>5, <3>2 DEF InsertAlive
      <4>2. pc'[t] = "refresh_alive" /\ call'[t] = IF "refresh_alive" = "idle" THEN NoCall ELSE c
        BY <1>2, <4>1, Jumped
      <4> QED
        BY <3>2, <4>1, <4>2
    <3> QED
      BY <3>1, <3>2
  <2>2. \A q \in Servers \ {s} : Untouched(q)
    BY <2>1, Zenon DEF Untouched
  <2>3. /\ AnnouncedOf(s)' = AnnouncedOf(s) /\ Present(s)' = "alive"
        /\ alive[s] # Absent <=> AnnouncedOf(s) = "alive"
    BY <1>1, <2>1 DEF Announcing, AnnouncedOf, Present
  <2>4. Announcing(pc[t], call[t], s)'
    BY <2>1, <2>3 DEF Announcing, Notifying
  <2>5. Same(t, s)
    BY <2>1, <2>3, Zenon DEF Same, StatusAt
  <2>6. Unlisted' /\ Located(pc[t], call[t])'
    BY <1>1, <1>2, <2>1, ServerAssumption DEF Unlisted, Located, AboutServer
  <2> QED
    BY <1>1, <2>1, <2>2, <2>4, <2>5, <2>6, OneServer, Zenon DEF Kept, Unsettled, Notifying
<1>6. CASE RefreshAlive(t)
  <2>1. /\ pc[t] = "refresh_alive" /\ pc'[t] = c.ret
        /\ call'[t] = IF c.ret = "idle" THEN NoCall ELSE c
        /\ suspected' = suspected /\ told' = told
    BY <1>2, <1>6, Jumped DEF RefreshAlive
  <2>2. \A q \in Servers : alive'[q] = Absent <=> alive[q] = Absent
    <3>1. CASE alive[s] = Absent
      BY <1>6, <3>1 DEF RefreshAlive
    <3>2. CASE alive[s] # Absent
      <4> DEFINE r == [alive[s] EXCEPT !.ts = c.ts, !.lt = lamport_time]
      <4>1. r \in ServerRecord
        BY <1>1, <1>2, <3>2, Zenon DEF Table, ServerRecord, Call, TypeInv, TypeOK
      <4>2. alive' = [alive EXCEPT ![s] = r]
        BY <1>6, <3>2 DEF RefreshAlive
      <4> HIDE DEF r
      <4> QED
        BY <1>1, <3>2, <4>1, <4>2, ServerAssumption DEF Table
    <3> QED
      BY <3>1, <3>2
  <2>3. \A q \in Servers : Untouched(q)
    BY <2>1, <2>2 DEF Untouched
  <2>4. Unlisted'
    BY <1>2, <2>1, <2>2, ServerAssumption, Zenon DEF Unlisted
  <2>5. Located(pc[t], call[t])'
    BY <1>1, <1>2, <2>1, ReturnLocated DEF Located
  <2>6. (\A q \in Servers : Announcing(pc[t], call[t], q)') /\ Simulates(t)
    BY <1>1, <1>2, <2>1, <2>3, NoServer, Zenon DEF Unsettled, Notifying
  <2> QED
    BY <2>4, <2>5, <2>6 DEF Kept
<1>7. CASE NotifyAlive(t)
  <2>1. /\ pc[t] = "notify_alive" /\ pc'[t] = c.ret
        /\ call'[t] = IF c.ret = "idle" THEN NoCall ELSE c
        /\ suspected' = suspected /\ alive' = alive
        /\ \A q \in Servers : told'[q] = IF q = s THEN [status |-> "alive", record |-> s] ELSE told[q]
    <3>1. /\ pc[t] = "notify_alive" /\ Jump(t, c.ret, c)
          /\ suspected' = suspected /\ alive' = alive
          /\ told' = [told EXCEPT ![s] = [status |-> "alive", record |-> s]]
      BY <1>7 DEF NotifyAlive
    <3>2. pc'[t] = c.ret /\ call'[t] = IF c.ret = "idle" THEN NoCall ELSE c
      BY <1>2, <3>1, Jumped
    <3> QED
      BY <1>1, <3>1, <3>2
  <2>2. \A q \in Servers \ {s} : Untouched(q)
    BY <2>1, Zenon DEF Untouched
  <2>3. /\ Present(s) = "alive" /\ Present(s)' = "alive" /\ AnnouncedOf(s)' = "alive"
        /\ AnnouncedOf(s) # "alive"
    BY <1>1, <2>1 DEF Located, Present, AnnouncedOf, Announcing, Notifying
  <2>4. Announcing(pc[t], call[t], s)'
    BY <1>2, <2>1, <2>3, Zenon DEF Announcing, Unsettled
  <2>5. Announces(t, s)
    BY <1>2, <2>1, <2>3, Zenon DEF Announces, StatusAt, Unsettled
  <2>6. Unlisted' /\ Located(pc[t], call[t])'
    BY <1>1, <1>2, <2>1, ReturnLocated DEF Unlisted, Located
  <2> QED
    BY <1>1, <1>2, <2>1, <2>2, <2>4, <2>5, <2>6, OneServer, Zenon DEF Kept
<1> QED
  BY <1>3, <1>4, <1>5, <1>6, <1>7 DEF AddAlive

\* So does a step of ReportSuspected.
LEMMA ReportSuspectedKept ==
  ASSUME NEW t \in Threads, Serial(t), ReportSuspected(t)
  PROVE  Kept(t)
<1> DEFINE c == call[t]
<1> USE DEF At
<1>0. PICK s \in Servers \ PortZero : s = c.srv
  BY InOrder DEF ReportSuspected, StampSuspect, EraseAlive, InsertSuspect, NotifySuspect,
                 AboutServer
<1> USE <1>0
<1>1. /\ c \in Call /\ Located(pc[t], c) /\ alive \in Table /\ suspected \in Table
      /\ told \in [Servers -> Told]
      /\ \A q \in Servers : Announcing(pc[t], c, q)
  BY InOrder, Zenon
<1>2. c.ret \in Returns /\ c.ret \notin Unsettled /\ Unlisted /\ TypeInv
  BY <1>1, InOrder, Zenon DEF Call, Serial, AnnouncedInv
<1>3. CASE StampSuspect(t)
  <2> DEFINE d == [c EXCEPT !.lt = lamport_time]
  <2>1. d.srv = s /\ d.ret = c.ret
    BY <1>1 DEF Call
  <2>2. /\ pc[t] = "stamp_suspect" /\ pc'[t] = "erase_alive" /\ call'[t] = d
        /\ alive' = alive /\ suspected' = suspected /\ told' = told
    BY <1>2, <1>3, Jumped DEF StampSuspect
  <2> HIDE DEF d
  <2>3. Unlisted' /\ Located(pc[t], call[t])'
    BY <1>1, <1>2, <2>1, <2>2 DEF Unlisted, Located, AboutServer
  <2>4. \A q \in Servers : Untouched(q)
    BY <2>2, Zenon DEF Untouched
  <2> QED
    BY <1>1, <2>2, <2>3, <2>4, NoServer DEF Kept, Unsettled, Notifying
<1>4. CASE EraseAlive(t)
  <2>1. /\ pc[t] = "erase_alive" /\ pc'[t] = "insert_suspect" /\ call'[t] = c
        /\ suspected' = suspected /\ told' = told
        /\ \A q \in Servers : alive'[q] = IF q = s THEN Absent ELSE alive[q]
    <3>1. /\ pc[t] = "erase_alive" /\ Jump(t, "insert_suspect", c)
          /\ suspected' = suspected /\ told' = told
          /\ alive' = [alive EXCEPT ![s] = Absent]
      BY <1>4, Zenon DEF EraseAlive
    <3>2. pc'[t] = "insert_suspect" /\ call'[t] = c
      BY <1>2, <3>1, Jumped
    <3> QED
      BY <1>1, <3>1, <3>2, Zenon DEF Table
  <2>2. \A q \in Servers \ {s} : Untouched(q)
    BY <2>1, Zenon DEF Untouched
  <2>3. /\ AnnouncedOf(s)' = AnnouncedOf(s) /\ AnnouncedOf(s) = Present(s)
        /\ alive[s] = Absent \/ suspected[s] = Absent
    BY <1>1, <2>1, Zenon DEF Announcing, AnnouncedOf, Notifying, Serial, SerialInv, Exclusive
  <2>4. Announcing(pc[t], call[t], s)'
    BY <2>1, <2>3, Zenon DEF Announcing, Present
  <2>5. s # Self
    BY <2>1 DEF Serial, SelfInv, Suspecting
  <2>6. Same(t, s) \/ Changes(t, s)
    BY <2>1, <2>3, <2>5, Zenon DEF Same, Changes, StatusAt
  <2>7. Unlisted' /\ Located(pc[t], call[t])'
    BY <1>1, <1>2, <2>1, ServerAssumption, Zenon DEF Unlisted, Located, AboutServer
  <2> QED
    BY <1>1, <2>1, <2>2, <2>4, <2>6, <2>7, OneServer, Zenon DEF Kept, Unsettled, Notifying
<1>5. CASE InsertSuspect(t)
  <2>1. /\ pc[t] = "insert_suspect" /\ alive' = alive /\ told' = told
        /\ \A q \in Servers \ {s} : suspected'[q] = suspected[q]
        /\ suspected'[s] # Absent
        /\ pc'[t] = IF suspected[s] = Absent THEN "notify_suspect" ELSE c.ret
        /\ call'[t] = IF pc'[t] = "idle" THEN NoCall ELSE c
    <3>1. CASE suspected[s] = Absent
      <4> DEFINE r == MakeRecord(c.ts, c.lt)
      <4>1. c.ts \in Nat /\ c.lt \in Nat
        BY <1>1, Zenon DEF Call
      <4>2. r # Absent
        BY <4>1, RecordTyped, ServerAssumption
      <4>3. /\ pc[t] = "insert_suspect" /\ alive' = alive /\ told' = told
            /\ suspected' = [suspected EXCEPT ![s] = r] /\ Jump(t, "notify_suspect", c)
        BY <1>5, <3>1, Zenon DEF InsertSuspect
      <4> HIDE DEF r
      <4>4. pc'[t] = "notify_suspect" /\ call'[t] = c
        BY <1>2, <4>3, Jumped
      <4> QED
        BY <1>1, <3>1, <4>2, <4>3, <4>4 DEF Table
    <3>2. CASE suspected[s] # Absent
      <4>1. /\ pc[t] = "insert_suspect" /\ alive' = alive /\ told' = told
            /\ suspected' = suspected /\ Jump(t, c.ret, c)
        BY <1>5, <3>2 DEF InsertSuspect
      <4>2. pc'[t] = c.ret /\ call'[t] = IF c.ret = "idle" THEN NoCall ELSE c
        BY <1>2, <4>1, Jumped
      <4> QED
        BY <3>2, <4>1, <4>2, Zenon
    <3> QED
      BY <3>1, <3>2
  <2>2. \A q \in Servers \ {s} : Untouched(q)
    BY <2>1, Zenon DEF Untouched
  <2>3. /\ AnnouncedOf(s)' = AnnouncedOf(s) /\ Present(s)' = "suspect"
        /\ suspected[s] # Absent <=> AnnouncedOf(s) = "suspect"
    BY <1>1, <2>1, Zenon DEF Announcing, AnnouncedOf, Present, Located
  <2>4. Announcing(pc[t], call[t], s)'
    BY <1>2, <2>1, <2>3 DEF Announcing, Unsettled, Notifying
  <2>5. Same(t, s)
    BY <1>2, <2>1, <2>3, Zenon DEF Same, StatusAt, Unsettled
  <2>6. Unlisted'
    BY <1>2, <2>1, ServerAssumption DEF Unlisted
  <2>7. Located(pc[t], call[t])'
    <3>1. CASE suspected[s] = Absent
      BY <1>1, <2>1, <3>1, Zenon DEF Located, AboutServer
    <3>2. CASE suspected[s] # Absent
      BY <1>1, <1>2, <2>1, <3>2, ReturnLocated, Zenon DEF Located
    <3> QED
      BY <3>1, <3>2, Zenon
  <2>8. pc[t] \in Unsettled => call[t].srv = s
    BY Zenon
  <2>9. pc'[t] \in Unsettled => call'[t].srv = s
    BY <2>1, Zenon DEF Unsettled, Notifying
  <2> QED
    BY <1>1, <2>2, <2>4, <2>5, <2>6, <2>7, <2>8, <2>9, OneServer, Zenon DEF Kept
<1>6. CASE NotifySuspect(t)
  <2>1. /\ pc[t] = "notify_suspect" /\ pc'[t] = c.ret
        /\ call'[t] = IF c.ret = "idle" THEN NoCall ELSE c
        /\ suspected' = suspected /\ alive' = alive
        /\ \A q \in Servers : told'[q] = IF q = s THEN [status |-> "suspect", record |-> Absent]
                                         ELSE told[q]
    <3>1. /\ pc[t] = "notify_suspect" /\ Jump(t, c.ret, c)
          /\ suspected' = suspected /\ alive' = alive
          /\ told' = [told EXCEPT ![s] = [status |-> "suspect", record |-> Absent]]
      BY <1>6, Zenon DEF NotifySuspect
    <3>2. pc'[t] = c.ret /\ call'[t] = IF c.ret = "idle" THEN NoCall ELSE c
      BY <1>2, <3>1, Jumped
    <3> QED
      BY <1>1, <3>1, <3>2, Zenon
  <2>2. \A q \in Servers \ {s} : Untouched(q)
    BY <2>1, Zenon DEF Untouched
  <2>3. /\ Present(s) = "suspect" /\ Present(s)' = "suspect" /\ AnnouncedOf(s)' = "suspect"
        /\ AnnouncedOf(s) # "suspect"
    BY <1>1, <2>1 DEF Located, Present, AnnouncedOf, Announcing, Notifying
  <2>4. Announcing(pc[t], call[t], s)'
    BY <1>2, <2>1, <2>3, Zenon DEF Announcing, Unsettled
  <2>5. Announces(t, s)
    BY <1>2, <2>1, <2>3, Zenon DEF Announces, StatusAt, Unsettled
  <2>6. Unlisted' /\ Located(pc[t], call[t])'
    BY <1>1, <1>2, <2>1, ReturnLocated DEF Unlisted, Located
  <2> QED
    BY <1>1, <1>2, <2>1, <2>2, <2>4, <2>5, <2>6, OneServer, Zenon DEF Kept
<1> QED
  BY <1>3, <1>4, <1>5, <1>6 DEF ReportSuspected

\* The labels that say nothing of where a server is.
Elsewhere ==
  {"idle", "next_alive", "raise_alive", "next_suspect", "ping_back", "raise_suspect",
   "spawn_forward", "gc_budget", "gc_expire", "gc_evict"}

\* A step that touches no table, and goes where nothing need be known or begins a call.
LEMMA JumpKept ==
  ASSUME NEW t \in Threads, Serial(t), \A q \in Servers : Untouched(q), pc[t] \notin Unsettled,
         NEW label, NEW d, Jump(t, label, d),
         \/ label \in Elsewhere
         \/ label \in {"erase_suspected", "stamp_suspect"} /\ d.srv \notin PortZero
              /\ (label = "stamp_suspect" => d.ret # "forgive")
         \/ label = "forgive" /\ d.srv \in PortZero
  PROVE  Kept(t)
<1>1. Unlisted'
  BY ServerAssumption, Zenon DEF Serial, AnnouncedInv, Unlisted, Untouched
<1>2. pc'[t] = label /\ call'[t] = IF label = "idle" THEN NoCall ELSE d
  BY Jumped, Zenon DEF Serial
<1>3. Located(pc[t], call[t])'
  BY <1>1, <1>2 DEF Located, Elsewhere, AboutServer, Unlisted
<1>4. pc'[t] \notin Unsettled
  BY <1>2 DEF Elsewhere, Unsettled, Notifying
<1> QED
  BY <1>1, <1>3, <1>4, NoServer, InOrder, Zenon DEF Kept

\* So does a handler's own step.
LEMMA HandlerKept ==
  ASSUME NEW t \in Threads, Serial(t), HandlerStep(t)
  PROVE  Kept(t)
<1> DEFINE c == call[t]
<1> USE DEF At
<1>1. /\ c \in Call /\ CallFormed(pc[t], c) /\ Located(pc[t], c)
      /\ alive \in Table /\ suspected \in Table
  BY InOrder
<1>2. CASE Forgive(t)
  <2>1. pc[t] = "forgive" /\ c.srv \in Servers /\ suspected[c.srv] = Absent
    BY <1>1, <1>2, Zenon DEF Forgive, CallFormed, AboutServer, Located
  <2>2. \A q \in Servers : Untouched(q)
    BY <1>1, <1>2, <2>1, Zenon DEF Forgive, Untouched, Table
  <2>3. Jump(t, "idle", NoCall)
    BY <1>2 DEF Forgive
  <2> QED
    BY <2>1, <2>2, <2>3, JumpKept DEF Elsewhere, Unsettled, Notifying
<1>3. CASE SpawnForward(t) \/ PingBack(t)
  <2>1. \A q \in Servers : Untouched(q)
    BY <1>3 DEF SpawnForward, PingBack, Untouched
  <2>2. pc[t] \notin Unsettled
    BY <1>3 DEF SpawnForward, PingBack, Unsettled, Notifying
  <2>3. \E d : \E label \in Elsewhere : Jump(t, label, d)
    BY <1>3 DEF SpawnForward, PingBack, Elsewhere
  <2> QED
    BY <2>1, <2>2, <2>3, JumpKept, Zenon
<1>4. CASE RaiseAlive(t) \/ RaiseSuspect(t)
  <2>1. c.rec \in ReportRecord(Servers)
    BY <1>1, <1>4 DEF RaiseAlive, RaiseSuspect, CallFormed, Raising
  <2>2. \A q \in Servers : Untouched(q)
    <3>1. CASE RaiseAlive(t)
      BY <1>1, <2>1, <3>1, RaiseTyped, Zenon DEF RaiseAlive, Untouched
    <3>2. CASE RaiseSuspect(t)
      BY <1>1, <2>1, <3>2, RaiseTyped, Zenon DEF RaiseSuspect, Untouched
    <3> QED
      BY <1>4, <3>1, <3>2, Zenon
  <2>3. pc[t] \notin Unsettled
    BY <1>4 DEF RaiseAlive, RaiseSuspect, Unsettled, Notifying
  <2>4. \E label \in Elsewhere : Jump(t, label, c)
    BY <1>4 DEF RaiseAlive, RaiseSuspect, Elsewhere
  <2> QED
    BY <2>2, <2>3, <2>4, JumpKept, Zenon
<1>5. CASE NextAlive(t)
  <2>1. (\A q \in Servers : Untouched(q)) /\ pc[t] \notin Unsettled
    BY <1>5 DEF NextAlive, Untouched, Unsettled, Notifying
  <2>2. CASE Jump(t, "next_suspect", c)
    BY <2>1, <2>2, JumpKept DEF Elsewhere
  <2>3. ASSUME NEW r \in c.al, Jump(t, "next_alive", [c EXCEPT !.al = @ \ {r}])
        PROVE  Kept(t)
    BY <2>1, <2>3, JumpKept DEF Elsewhere
  <2>4. ASSUME NEW r \in c.al,
               Jump(t, EnterAddAlive(r.server, "raise_alive"),
                    About([c EXCEPT !.al = @ \ {r}], r, "raise_alive"))
        PROVE  Kept(t)
    <3> DEFINE e == About([c EXCEPT !.al = @ \ {r}], r, "raise_alive")
    <3>1. e.srv = r.server
      BY <1>1 DEF Call, About
    <3>2. Jump(t, EnterAddAlive(r.server, "raise_alive"), e)
      BY <2>4
    <3> HIDE DEF e
    <3>3. CASE r.server \in PortZero
      BY <2>1, <3>2, <3>3, JumpKept DEF EnterAddAlive, Elsewhere
    <3>4. CASE r.server \notin PortZero
      BY <2>1, <3>1, <3>2, <3>4, JumpKept DEF EnterAddAlive
    <3> QED
      BY <3>3, <3>4
  <2> QED
    BY <1>5, <2>2, <2>3, <2>4, Zenon DEF NextAlive
<1>6. CASE NextSuspect(t)
  <2>1. (\A q \in Servers : Untouched(q)) /\ pc[t] \notin Unsettled
    BY <1>6 DEF NextSuspect, Untouched, Unsettled, Notifying
  <2>2. CASE Jump(t, "idle", NoCall)
    BY <2>1, <2>2, JumpKept DEF Elsewhere
  <2>3. ASSUME NEW r \in c.su, NEW label \in {"ping_back", "next_suspect"},
               Jump(t, label, [c EXCEPT !.su = @ \ {r}])
        PROVE  Kept(t)
    BY <2>1, <2>3, JumpKept DEF Elsewhere
  <2>4. ASSUME NEW r \in c.su,
               Jump(t, EnterReportSuspected(r.server, "raise_suspect"),
                    About([c EXCEPT !.su = @ \ {r}], r, "raise_suspect"))
        PROVE  Kept(t)
    <3> DEFINE e == About([c EXCEPT !.su = @ \ {r}], r, "raise_suspect")
    <3>1. e.srv = r.server /\ e.ret = "raise_suspect"
      BY <1>1 DEF Call, About
    <3>2. Jump(t, EnterReportSuspected(r.server, "raise_suspect"), e)
      BY <2>4
    <3> HIDE DEF e
    <3>3. CASE r.server \in PortZero
      <4>1. Jump(t, "raise_suspect", e)
        BY <3>2, <3>3, ServerAssumption DEF EnterReportSuspected
      <4> QED
        BY <2>1, <4>1, JumpKept DEF Elsewhere
    <3>4. CASE r.server \notin PortZero
      <4>1. \E label \in {"erase_suspected", "stamp_suspect"} : Jump(t, label, e)
        BY <3>2, <3>4 DEF EnterReportSuspected
      <4> QED
        BY <2>1, <3>1, <3>4, <4>1, JumpKept
    <3> QED
      BY <3>3, <3>4
  <2> QED
    BY <1>6, <2>2, <2>3, <2>4, Zenon DEF NextSuspect
<1> QED
  BY <1>2, <1>3, <1>4, <1>5, <1>6 DEF HandlerStep

\* So does the collector, which evicts a server in one step and announces it in the next.
LEMMA GCKept ==
  ASSUME NEW t \in Threads, Serial(t), GCStep(t)
  PROVE  Kept(t)
<1> DEFINE c == call[t]
<1> USE DEF At
<1>1. /\ c \in Call /\ Located(pc[t], c) /\ alive \in Table /\ suspected \in Table
      /\ told \in [Servers -> Told]
      /\ \A q \in Servers : Announcing(pc[t], c, q)
  BY InOrder
<1>2. Unlisted /\ TypeInv
  BY DEF Serial, AnnouncedInv
<1>3. CASE GCBudget(t) \/ GCExpire(t)
  <2>1. \A q \in Servers : Untouched(q)
    BY <1>3 DEF GCBudget, GCExpire, Untouched
  <2>2. pc[t] \notin Unsettled
    BY <1>3 DEF GCBudget, GCExpire, Unsettled, Notifying
  <2>3. \E d : \E label \in Elsewhere : Jump(t, label, d)
    BY <1>3, Zenon DEF GCBudget, GCExpire, Elsewhere
  <2> QED
    BY <2>1, <2>2, <2>3, JumpKept
<1>4. CASE GCEvict(t)
  <2>1. pc[t] = "gc_evict" /\ alive' = alive /\ told' = told
    BY <1>4, Zenon DEF GCEvict
  <2>2. CASE Jump(t, "idle", NoCall) /\ suspected' = suspected
    BY <2>1, <2>2, JumpKept DEF Untouched, Elsewhere, Unsettled, Notifying
  <2>3. ASSUME NEW r \in c.su,
               suspected' = [suspected EXCEPT ![r.server] = Absent],
               Jump(t, IF suspected[r.server] = Absent THEN "gc_evict" ELSE "notify_removed",
                    [c EXCEPT !.su = @ \ {r}, !.srv = r.server])
        PROVE  Kept(t)
    <3>1. PICK s \in Servers : s = r.server
      BY <1>1 DEF Call, ReportRecord
    <3> USE <3>1
    <3> DEFINE d == [c EXCEPT !.su = @ \ {r}, !.srv = r.server]
    <3>2. d.srv = s
      BY <1>1 DEF Call
    <3>3. Jump(t, IF suspected[s] = Absent THEN "gc_evict" ELSE "notify_removed", d)
      BY <2>3
    <3> HIDE DEF d
    <3>4. \A q \in Servers : suspected'[q] = IF q = s THEN Absent ELSE suspected[q]
      BY <1>1, <2>3, Zenon DEF Table
    <3>5. CASE suspected[s] = Absent
      BY <2>1, <3>3, <3>4, <3>5, JumpKept, Zenon DEF Untouched, Elsewhere, Unsettled, Notifying
    <3>6. CASE suspected[s] # Absent
      <4>1. pc'[t] = "notify_removed" /\ call'[t] = d
        BY <1>2, <3>3, <3>6, Jumped
      <4>2. s \notin PortZero /\ alive[s] = Absent
        BY <1>2, <3>6 DEF Unlisted, Serial, SerialInv, Exclusive
      <4>3. \A q \in Servers \ {s} : Untouched(q)
        BY <2>1, <3>4, Zenon DEF Untouched
      <4>4. /\ AnnouncedOf(s)' = AnnouncedOf(s) /\ AnnouncedOf(s) = "suspect"
            /\ Present(s) = "suspect" /\ Present(s)' = "unknown"
        BY <1>1, <2>1, <3>4, <3>6, <4>2, Zenon DEF AnnouncedOf, Announcing, Present, Notifying
      <4>5. Announcing(pc[t], call[t], s)'
        BY <3>2, <4>1, <4>4 DEF Announcing, Notifying
      <4>6. Changes(t, s)
        BY <2>1, <4>1, <4>4, Zenon DEF Changes, StatusAt
      <4>7. Unlisted' /\ Located(pc[t], call[t])'
        BY <1>2, <2>1, <3>2, <3>4, <4>1, <4>2, ServerAssumption, Zenon DEF Unlisted, Located, AboutServer
      <4>8. /\ pc[t] \in Unsettled => call[t].srv = s
            /\ pc'[t] \in Unsettled => call'[t].srv = s
        BY <2>1, <3>2, <4>1, Zenon DEF Unsettled, Notifying
      <4> QED
        BY <1>1, <4>2, <4>3, <4>5, <4>6, <4>7, <4>8, OneServer, Zenon DEF Kept
    <3> QED
      BY <3>5, <3>6
  <2> QED
    BY <1>4, <2>2, <2>3, Zenon DEF GCEvict
<1>5. CASE NotifyRemoved(t)
  <2>1. PICK s \in Servers \ PortZero : s = c.srv
    BY <1>5, InOrder, Zenon DEF NotifyRemoved, AboutServer
  <2>2. /\ pc[t] = "notify_removed" /\ pc'[t] = "gc_evict" /\ call'[t] = c
        /\ suspected' = suspected /\ alive' = alive
        /\ \A q \in Servers : told'[q] = IF q = s THEN [status |-> "removed", record |-> s]
                                         ELSE told[q]
    <3>1. /\ pc[t] = "notify_removed" /\ Jump(t, "gc_evict", c)
          /\ suspected' = suspected /\ alive' = alive
      BY <1>5 DEF NotifyRemoved
    <3>2. pc'[t] = "gc_evict" /\ call'[t] = c
      BY <1>2, <3>1, Jumped
    <3>3. told' = [told EXCEPT ![s] = [status |-> "removed", record |-> s]]
      BY <1>5, <2>1, Zenon DEF NotifyRemoved
    <3> QED
      BY <1>1, <3>1, <3>2, <3>3, Zenon
  <2>3. \A q \in Servers \ {s} : Untouched(q)
    BY <2>2 DEF Untouched
  <2>4. /\ Present(s) = "unknown" /\ Present(s)' = "unknown" /\ AnnouncedOf(s)' = "unknown"
        /\ AnnouncedOf(s) # "unknown"
    <3>1. alive[s] = Absent /\ suspected[s] = Absent
      BY <1>1, <2>1, <2>2, Zenon DEF Located
    <3>2. Present(s) = "unknown" /\ Present(s)' = "unknown"
      BY <2>2, <3>1 DEF Present
    <3>3. AnnouncedOf(s)' = "unknown"
      BY <2>1, <2>2 DEF AnnouncedOf
    <3>4. AnnouncedOf(s) # Present(s)
      BY <1>1, <2>1, <2>2, Zenon DEF Announcing, Notifying
    <3> QED
      BY <3>2, <3>3, <3>4, Zenon
  <2>5. Announcing(pc[t], call[t], s)'
    BY <2>2, <2>4 DEF Announcing, Notifying
  <2>6. Announces(t, s)
    BY <2>2, <2>4, Zenon DEF Announces, StatusAt
  <2>7. Unlisted' /\ Located(pc[t], call[t])'
    BY <1>2, <2>2 DEF Unlisted, Located, AboutServer
  <2> QED
    BY <1>1, <2>1, <2>2, <2>3, <2>5, <2>6, <2>7, OneServer, Zenon DEF Kept, Unsettled, Notifying
<1> QED
  BY <1>3, <1>4, <1>5 DEF GCStep

-----------------------------------------------------------------------------
(* Invariance.                                                               *)

\* Every step of a thread inside a call.
LEMMA StepKept ==
  ASSUME NEW t \in Threads, Serial(t), Step(t)
  PROVE  Kept(t)
BY AddAliveKept, ReportSuspectedKept, HandlerKept, GCKept DEF Step

\* A step that changes neither the tables nor where the threads are.
LEMMA StutterKept ==
  ASSUME NEW t \in Threads, Serial(t), UNCHANGED <<alive, suspected, told, pc, call>>
  PROVE  Kept(t) /\ Alone(t)'
<1>1. Unlisted' /\ Located(pc[t], call[t])'
  BY DEF Serial, AnnouncedInv, Unlisted, Located
<1>2. ASSUME NEW q \in Servers PROVE Announcing(pc[t], call[t], q)' /\ Same(t, q)
  <2>1. Present(q)' = Present(q) /\ AnnouncedOf(q)' = AnnouncedOf(q)
    BY Zenon DEF Present, AnnouncedOf
  <2>2. Announcing(pc[t], call[t], q)
    BY InOrder, Zenon
  <2> QED
    BY <2>1, <2>2 DEF Announcing, Same, StatusAt
<1>3. Simulates(t)
  BY <1>2, ServerAssumption DEF Simulates
<1> QED
  BY <1>1, <1>2, <1>3, Zenon DEF Kept, Serial, Alone

\* A call begins: nobody is inside one.
LEMMA BeginKept ==
  ASSUME ~Overlap, TypeInv, SerialInv, SelfInv, AnnouncedInv, Begin, ~UNCHANGED <<pc, call>>
  PROVE  \E t \in Threads : Alone(t) /\ Alone(t)' /\ Kept(t)
<1>1. UNCHANGED <<alive, suspected, told>>
  BY BeginJumps
<1>2. PICK t \in Threads, label \in Labels, d \in Call :
        /\ MayBegin(t)
        /\ Jump(t, label, d)
        /\ label \in {"idle", "erase_suspected", "stamp_suspect", "forgive",
                      "spawn_forward", "next_alive", "gc_budget"}
        /\ Entered(label, d)
  BY BeginJumps
<1>3. \A u \in Threads : pc[u] = "idle"
  BY <1>2 DEF MayBegin, Idle
<1>4. Alone(t) /\ Alone(t)' /\ pc[t] \notin Unsettled
  BY <1>2, <1>3 DEF Alone, Jump, TypeInv, TypeOK, Unsettled, Notifying
<1>5. Serial(t)
  BY <1>4 DEF Serial
<1>6. \A q \in Servers : Untouched(q)
  BY <1>1 DEF Untouched
<1>7. \/ label \in Elsewhere
      \/ label \in {"erase_suspected", "stamp_suspect"} /\ d.srv \notin PortZero
           /\ (label = "stamp_suspect" => d.ret # "forgive")
      \/ label = "forgive" /\ d.srv \in PortZero
  BY <1>2 DEF Entered, Elsewhere
<1>8. Kept(t)
  BY <1>2, <1>4, <1>5, <1>6, <1>7, JumpKept
<1> QED
  BY <1>4, <1>8

\* Every step of the server is one of a thread that is alone inside a call.
LEMMA NextKept ==
  ASSUME ~Overlap, TypeInv, SerialInv, SelfInv, AnnouncedInv, [Next]_vars
  PROVE  \E t \in Threads : Alone(t) /\ Alone(t)' /\ Kept(t)
<1>1. CASE UNCHANGED <<alive, suspected, told, pc, call>>
  <2>1. PICK t \in Threads : Alone(t)
    <3>1. CASE \E t \in Threads : pc[t] # "idle"
      BY <3>1 DEF SerialInv, Alone
    <3>2. CASE \A t \in Threads : pc[t] = "idle"
      BY <3>2 DEF Alone, Threads
    <3> QED
      BY <3>1, <3>2
  <2>2. Serial(t)
    BY <2>1 DEF Serial
  <2> QED
    BY <1>1, <2>1, <2>2, StutterKept
<1>2. ASSUME NEW t \in Threads, Step(t)
      PROVE  Alone(t) /\ Alone(t)' /\ Kept(t)
  <2>1. Alone(t) /\ Alone(t)'
    BY <1>2, StepIsBusy, StepJumps DEF SerialInv, Alone, Jump, TypeInv, TypeOK
  <2>2. Serial(t)
    BY <2>1 DEF Serial
  <2> QED
    BY <1>2, <2>1, <2>2, StepKept, Zenon
<1>3. CASE Begin
  <2>1. UNCHANGED <<alive, suspected, told>>
    BY <1>3, BeginJumps
  <2> QED
    BY <1>1, <1>3, <2>1, BeginKept, Zenon
<1>4. CASE Tick \/ UNCHANGED vars
  BY <1>1, <1>4 DEF Tick, vars
<1> QED
  BY <1>2, <1>3, <1>4 DEF Next

\* At the beginning both tables are empty and nothing has been announced.
LEMMA AnnouncedInit == Init => AnnouncedInv
<1> SUFFICES ASSUME Init PROVE AnnouncedInv
  OBVIOUS
<1>1. Unlisted
  BY ServerAssumption DEF Init, Unlisted
<1>2. \A t \in Threads : Located(pc[t], call[t])
  BY DEF Init, Located, AboutServer
<1>3. \A t \in Threads, s \in Servers : Announcing(pc[t], call[t], s)
  BY Zenon DEF Init, Announcing, Notifying, AnnouncedOf, Present
<1> QED
  BY <1>1, <1>2, <1>3 DEF AnnouncedInv

\* Every step keeps AnnouncedInv.
LEMMA AnnouncedNext ==
  ASSUME ~Overlap, TypeInv, SerialInv, SelfInv, AnnouncedInv, [Next]_vars
  PROVE  AnnouncedInv'
<1>1. PICK t \in Threads : Alone(t) /\ Alone(t)' /\ Kept(t)
  BY NextKept, Zenon
<1>2. \A u \in Threads : Located(pc[u], call[u])'
  <2>1. ASSUME NEW u \in Threads \ {t} PROVE Located(pc[u], call[u])'
    BY <1>1 DEF Alone, Located, AboutServer
  <2> QED
    BY <1>1, <2>1, Zenon DEF Kept
<1>3. ASSUME NEW u \in Threads, Alone(u)', NEW s \in Servers
      PROVE  Announcing(pc[u], call[u], s)'
  <2>1. Announcing(pc[t], call[t], s)'
    BY <1>1, Zenon DEF Kept
  <2>2. CASE u # t
    <3>1. pc'[t] = "idle" /\ pc'[u] = "idle"
      BY <1>1, <1>3, <2>2, Zenon DEF Alone
    <3> QED
      BY <2>1, <3>1 DEF Announcing, Notifying
  <2> QED
    BY <2>1, <2>2
<1> QED
  BY <1>1, <1>2, <1>3 DEF AnnouncedInv, Kept

-----------------------------------------------------------------------------
(* Refinement.                                                               *)

\* Seen from the one thread that may be inside a call.
LEMMA StatusSeen ==
  ASSUME NEW t \in Threads, NEW s \in Servers
  PROVE  /\ Alone(t) => StatusOf(s) = StatusAt(pc[t], call[t], s)
         /\ Alone(t)' => StatusOf(s)' = StatusAt(pc[t], call[t], s)'
<1>1. ASSUME Alone(t) PROVE StatusOf(s) = StatusAt(pc[t], call[t], s)
  BY <1>1 DEF Alone, StatusOf, StatusAt, Within, Present
<1>2. ASSUME Alone(t)' PROVE StatusOf(s)' = StatusAt(pc[t], call[t], s)'
  BY <1>2 DEF Alone, StatusOf, StatusAt, Within, Present
<1> QED
  BY <1>1, <1>2

\* A step that changes or announces at most one server is a step of Membership or a stutter.
LEMMA Refines ==
  ASSUME NEW t \in Threads, Alone(t), Alone(t)', Simulates(t)
  PROVE  [Abstract!Next]_(Abstract!vars)
<1> DEFINE status == [s \in Servers |-> StatusOf(s)]
           announced == [s \in Servers |-> AnnouncedOf(s)]
<1>1. PICK s \in Servers \ PortZero :
        /\ \A q \in Servers \ {s} : Same(t, q)
        /\ Same(t, s) \/ Changes(t, s) \/ Announces(t, s)
  BY Zenon DEF Simulates
<1>2. \A q \in Servers \ {s} : StatusOf(q)' = StatusOf(q) /\ AnnouncedOf(q)' = AnnouncedOf(q)
  BY <1>1, StatusSeen DEF Same
<1>3. CASE Same(t, s)
  <2>1. \A q \in Servers : StatusOf(q)' = StatusOf(q) /\ AnnouncedOf(q)' = AnnouncedOf(q)
    BY <1>2, <1>3, StatusSeen DEF Same
  <2>2. status' = status /\ announced' = announced
    BY <2>1
  <2> QED
    BY <2>2, Zenon DEF Abstract!vars
<1>4. CASE Changes(t, s)
  <2>1. /\ AnnouncedOf(s) = StatusOf(s) /\ AnnouncedOf(s)' = AnnouncedOf(s)
        /\ StatusOf(s)' # StatusOf(s)
        /\ \/ StatusOf(s)' = "alive"
           \/ StatusOf(s)' = "suspect" /\ s # Self
           \/ StatusOf(s)' = "unknown" /\ StatusOf(s) = "suspect"
    BY <1>4, StatusSeen DEF Changes
  <2>2. announced' = announced
    BY <1>2, <2>1
  <2>3. ASSUME NEW new, StatusOf(s)' = new PROVE status' = [status EXCEPT ![s] = new]
    BY <1>2, <2>3, Zenon
  <2>4. status[s] = StatusOf(s) /\ announced[s] = AnnouncedOf(s)
    OBVIOUS
  <2> HIDE DEF status, announced
  <2>5. ASSUME NEW new, StatusOf(s)' = new
        PROVE  /\ announced[s] = status[s] /\ status[s] # new
               /\ status' = [status EXCEPT ![s] = new] /\ announced' = announced
    BY <2>1, <2>2, <2>3, <2>4, <2>5
  <2> USE DEF status, announced
  <2>6. Abstract!Revive(s) \/ Abstract!Suspect(s) \/ Abstract!Evict(s)
    BY <2>1, <2>4, <2>5, Zenon DEF Abstract!Revive, Abstract!Suspect, Abstract!Evict, Abstract!Become
  <2> QED
    BY <2>6, Zenon DEF Abstract!Next
<1>5. CASE Announces(t, s)
  <2>1. /\ StatusOf(s)' = StatusOf(s) /\ AnnouncedOf(s) # StatusOf(s)
        /\ AnnouncedOf(s)' = StatusOf(s)
    BY <1>5, StatusSeen, Zenon DEF Announces
  <2>2. status' = status /\ announced' = [announced EXCEPT ![s] = status[s]]
    BY <1>2, <2>1, Zenon
  <2>3. announced[s] # status[s]
    BY <2>1
  <2>4. Abstract!Announce(s)
    BY <2>2, <2>3 DEF Abstract!Announce
  <2> QED
    BY <2>4 DEF Abstract!Next
<1> QED
  BY <1>1, <1>3, <1>4, <1>5

\* The initial state is one of Membership.
LEMMA InitRefines == Init => Abstract!Init
<1> SUFFICES ASSUME Init PROVE Abstract!Init
  OBVIOUS
<1>1. \A s \in Servers : StatusOf(s) = "unknown" /\ AnnouncedOf(s) = "unknown"
  BY DEF Init, StatusOf, Within, AnnouncedOf
<1> QED
  BY <1>1 DEF Abstract!Init

-----------------------------------------------------------------------------
(* The theorems.                                                             *)

SerialAnnouncedInv == TypeInv /\ SerialInv /\ SelfInv /\ AnnouncedInv

\* The invariants together are inductive when calls do not overlap.
LEMMA SerialAnnounced ==
  ASSUME ~Overlap
  PROVE  /\ Init => SerialAnnouncedInv
         /\ SerialAnnouncedInv /\ [Next]_vars => SerialAnnouncedInv'
<1>1. Init => SelfInv
  BY ServerAssumption DEF Init, SelfInv, SelfNeverSuspected, Suspecting
<1>2. Init => SerialAnnouncedInv
  BY <1>1, InitTyped, SerialInvariance, AnnouncedInit DEF SerialAnnouncedInv
<1>3. SerialAnnouncedInv /\ [Next]_vars => SerialAnnouncedInv'
  BY NextTyped, SerialInvariance, SelfNext, AnnouncedNext DEF SerialAnnouncedInv
<1> QED
  BY <1>2, <1>3, Zenon

\* When calls do not overlap, the tables and the callbacks of a server behave as
\* Membership says, for any servers, threads and messages: every step of
\* AddAlive, ReportSuspected, the handlers and the collector is a change or an
\* announcement of one server, or nothing that an application can see.
THEOREM SerialImplements ==
  ASSUME ~Overlap
  PROVE  Spec => ImplementsMembership
<1>1. Init => SerialAnnouncedInv
  BY SerialAnnounced
<1>2. SerialAnnouncedInv /\ [Next]_vars => SerialAnnouncedInv'
  BY SerialAnnounced, Zenon
<1>3. SerialAnnouncedInv /\ [Next]_vars => [Abstract!Next]_(Abstract!vars)
  BY NextKept, Refines DEF SerialAnnouncedInv, Kept
<1> QED
  BY InitRefines, <1>1, <1>2, <1>3, PTL DEF Spec, ImplementsMembership, Abstract!Spec

\* When calls do not overlap, what the callback last said of each server is, between
\* calls, what the tables say.
THEOREM SerialTold ==
  ASSUME ~Overlap
  PROVE  Spec => []ToldIsCurrent
<1>1. Init => SerialAnnouncedInv
  BY SerialAnnounced
<1>2. SerialAnnouncedInv /\ [Next]_vars => SerialAnnouncedInv'
  BY SerialAnnounced
<1>3. SerialAnnouncedInv => ToldIsCurrent
  <2> SUFFICES ASSUME SerialAnnouncedInv, Quiescent, NEW s \in Servers
               PROVE  told[s].status \in Status(s)
    BY DEF ToldIsCurrent
  <2>1. Loop \in Threads /\ pc[Loop] = "idle" /\ Alone(Loop)
    BY DEF Quiescent, Idle, Alone, Threads
  <2>2. AnnouncedOf(s) = Present(s)
    BY <2>1 DEF SerialAnnouncedInv, AnnouncedInv, Announcing, Notifying
  <2>3. told[s].status \in {"unknown", "alive", "suspect", "removed"}
    BY DEF SerialAnnouncedInv, TypeInv, TypeOK, Told
  <2>4. alive[s] = Absent \/ suspected[s] = Absent
    BY DEF SerialAnnouncedInv, SerialInv, Exclusive
  <2> QED
    BY <2>2, <2>3, <2>4 DEF AnnouncedOf, Present, Status
<1> QED
  BY <1>1, <1>2, <1>3, PTL DEF Spec
=============================================================================
