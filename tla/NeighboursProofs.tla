-------------------------- MODULE NeighboursProofs --------------------------
(* Proofs about Neighbours, for any finite set of servers, any values of     *)
(* num_reports_ and num_forwards_, and any changes of alive_.                *)
EXTENDS Neighbours, FiniteSetTheorems, TLAPS

-----------------------------------------------------------------------------
(* The inductive invariant.                                                  *)

\* A selection has taken at most one server for every count of idx, which n and so
\* k bounds.  Inside the loop another one is due.  If nobody interfered, n is still
\* no more than what the table holds, and the table still holds what was taken.
Sound(label, l, quiet, table) ==
  label \in Within =>
    /\ l.n <= l.k /\ l.idx <= l.n
    /\ IsFiniteSet(l.others) /\ Cardinality(l.others) <= l.idx
    /\ label \notin {"loop", "chosen"} => l.idx < l.n
    /\ quiet => l.n <= Cardinality(table) /\ l.others \subseteq table \ {Self}

\* Every selection under way is sound.
SelectionInv == \A t \in Threads : Sound(pc[t], local[t], calm[t], alive)

\* A number above a natural number is positive.
LEMMA AboveANatural == \A i, k \in Nat : i < k => k > 0
OBVIOUS

\* The tables are finite.
LEMMA Sizes ==
  ASSUME NEW s \in SUBSET Servers
  PROVE  IsFiniteSet(s) /\ Cardinality(s) \in Nat /\ (s = {} <=> Cardinality(s) = 0)
<1>1. IsFiniteSet(s)
  BY NeighboursAssumption, FS_Subset, Zenon
<1> QED
  BY <1>1, FS_CardinalityType, FS_EmptySet

\* What a count and an index may be.
LEMMA LocalNumbers ==
  ASSUME NEW l \in Local
  PROVE  l.k \in Nat /\ l.n \in Nat /\ l.idx \in Nat /\ l.at \in Nat
<1>1. ReportCounts \subseteq Nat /\ ForwardCounts \subseteq Nat
  BY NeighboursAssumption
<1>2. l.k \in ReportCounts \cup ForwardCounts \cup {0}
  BY DEF Local
<1>3. l.n \in Nat /\ l.idx \in Nat /\ l.at \in Nat
  BY DEF Local
<1>4. \A k \in ReportCounts \cup ForwardCounts \cup {0} : k \in Nat
  BY <1>1
<1> QED
  BY <1>2, <1>3, <1>4, Zenon

\* No table outgrows what the index is capped at.
LEMMA TableBelowPast ==
  ASSUME NEW s \in SUBSET Servers
  PROVE  Cardinality(s) <= Past /\ Past \in Nat
BY Sizes, FS_Subset, NeighboursAssumption, Zenon DEF Past

\* The successor of a number below the bound is not capped.
LEMMA MinimumBelow ==
  ASSUME NEW a \in Nat, NEW c \in Nat, NEW b \in Nat, a < c, c <= b
  PROVE  Minimum(a + 1, b) = a + 1
BY DEF Minimum

\* A selection that is due another server has one in the table.
LEMMA DueBelow ==
  ASSUME NEW idx \in Nat, NEW n \in Nat, NEW size \in Nat, idx < n, n <= size
  PROVE  0 < size
OBVIOUS

\* A place below the size of the table is not wrapped to 0.
LEMMA NotWrapped ==
  ASSUME NEW at \in Nat, NEW size \in Nat, at < size
  PROVE  (IF at >= size THEN 0 ELSE at) = at
OBVIOUS

\* The inductive invariant holds when no thread has begun.
LEMMA InitSound == Init => TypeOK /\ SelectionInv
<1> SUFFICES ASSUME Init PROVE TypeOK /\ SelectionInv
  OBVIOUS
<1>1. Past \in Nat
  BY Sizes DEF Past
<1>2. NoLocal \in Local
  BY DEF NoLocal, Local
<1>3. calm \in [Threads -> BOOLEAN] /\ emptied \in BOOLEAN /\ inTurn \in BOOLEAN
  BY Zenon DEF Init
<1>4. TypeOK
  BY <1>1, <1>2, <1>3, NeighboursAssumption DEF Init, TypeOK, Labels
<1>5. SelectionInv
  BY DEF Init, SelectionInv, Sound, Within, Threads
<1> QED
  BY <1>4, <1>5

\* A thread goes on with a sound selection, and leaves the calm of the others only if
\* it leaves their table: then everything stays sound.
LEMMA Jump ==
  ASSUME TypeOK, SelectionInv, Running,
         NEW t \in Threads, NEW label \in Labels, NEW l \in Local, Goto(t, label, l),
         calm' \in [Threads -> BOOLEAN],
         \A u \in Threads \ {t} :
           /\ calm'[u] => calm[u]
           /\ calm'[u] /\ pc[u] \in Within => alive' = alive,
         Sound(label, l, calm'[t], alive')
  PROVE  SelectionInv' /\ pc' \in [Threads -> Labels] /\ local' \in [Threads -> Local]
<1>1. pc' \in [Threads -> Labels] /\ local' \in [Threads -> Local]
  BY DEF Goto, TypeOK
<1>2. \A u \in Threads : pc'[u] = IF u = t THEN label ELSE pc[u]
  BY DEF Goto, TypeOK
<1>3. \A u \in Threads : local'[u] = IF u = t THEN l ELSE local[u]
  BY DEF Goto, TypeOK
<1>4. ASSUME NEW u \in Threads PROVE Sound(pc'[u], local'[u], calm'[u], alive')
  <2>1. CASE u = t
    BY <1>2, <1>3, <2>1
  <2>2. CASE u # t
    <3>1. Sound(pc[u], local[u], calm[u], alive)
      BY DEF SelectionInv
    <3>2. pc'[u] = pc[u] /\ local'[u] = local[u]
      BY <1>2, <1>3, <2>2
    <3>3. CASE calm'[u] /\ pc[u] \in Within
      BY <2>2, <3>1, <3>2, <3>3 DEF Sound
    <3>4. CASE ~(calm'[u] /\ pc[u] \in Within)
      BY <2>2, <3>1, <3>2, <3>4 DEF Sound
    <3> QED BY <3>3, <3>4
  <2> QED BY <2>1, <2>2
<1> QED
  BY <1>1, <1>4 DEF SelectionInv

\* The same for a step that touches nothing but the thread's own variables.
LEMMA SilentJump ==
  ASSUME TypeOK, SelectionInv, Running,
         NEW t \in Threads, NEW label \in Labels, NEW l \in Local, Goto(t, label, l), Silent,
         Sound(label, l, calm[t], alive)
  PROVE  TypeOK' /\ SelectionInv'
<1>1. calm' = calm /\ alive' = alive
  BY DEF Silent
<1>2. SelectionInv' /\ pc' \in [Threads -> Labels] /\ local' \in [Threads -> Local]
  <2>1. calm' \in [Threads -> BOOLEAN]
    BY <1>1 DEF TypeOK
  <2> QED
    BY <1>1, <2>1, Jump
<1> QED
  BY <1>2 DEF TypeOK, Silent

\* A thread's variables, and what the invariant says of them.
LEMMA Mine ==
  ASSUME TypeOK, SelectionInv, NEW t \in Threads
  PROVE  /\ local[t] \in Local /\ pc[t] \in Labels /\ calm[t] \in BOOLEAN
         /\ Sound(pc[t], local[t], calm[t], alive)
BY DEF TypeOK, SelectionInv

-----------------------------------------------------------------------------
(* The steps of GetUniqueNeighbors.                                          *)

\* Counting begins a sound selection: n is the lesser of k and the table's size.
LEMMA CountSound ==
  ASSUME TypeOK, SelectionInv, Running, NEW t \in Threads, Count(t)
  PROVE  TypeOK' /\ SelectionInv'
<1> DEFINE l == local[t]
           m == [l EXCEPT !.n = Minimum(l.k, alive_size), !.idx = 0, !.others = {}]
<1>1. l \in Local /\ l.k \in Nat
  BY Mine, LocalNumbers
<1>2. Cardinality(alive) \in Nat
  BY Sizes DEF TypeOK
<1>3. /\ Minimum(l.k, alive_size) \in Nat
      /\ Minimum(l.k, alive_size) <= l.k /\ Minimum(l.k, alive_size) <= Cardinality(alive)
  BY <1>1, <1>2 DEF Minimum, alive_size
<1>4. m \in Local
  BY <1>1, <1>3, Zenon DEF Local
<1>5. m.n = Minimum(l.k, alive_size) /\ m.k = l.k /\ m.idx = 0 /\ m.others = {}
  BY <1>1 DEF Local
<1>6. Sound("loop", m, calm'[t], alive)
  BY <1>3, <1>5, FS_EmptySet DEF Sound
<1>7. Goto(t, "loop", m) /\ alive' = alive
  BY DEF Count
<1>8. /\ calm' \in [Threads -> BOOLEAN]
      /\ \A u \in Threads \ {t} : calm'[u] = calm[u]
  BY DEF Count, TypeOK
<1>9. SelectionInv' /\ pc' \in [Threads -> Labels] /\ local' \in [Threads -> Local]
  <2> HIDE DEF m
  <2>1. "loop" \in Labels
    BY DEF Labels, Within
  <2> QED
    BY <1>4, <1>6, <1>7, <1>8, <2>1, Jump
<1> QED
  BY <1>8, <1>9 DEF Count, TypeOK

\* The head of the loop, the comparison, the read of the index and the check after
\* meeting oneself write nothing shared.
LEMMA ReadsSound ==
  ASSUME TypeOK, SelectionInv, Running, NEW t \in Threads,
         Loop(t) \/ Compare(t) \/ Read(t) \/ SkipSelf(t)
  PROVE  TypeOK' /\ SelectionInv'
<1> DEFINE l == local[t]
<1>1. l \in Local /\ l.idx \in Nat /\ l.n \in Nat /\ Sound(pc[t], l, calm[t], alive)
  BY Mine, LocalNumbers
<1>2. round_robin_index \in Nat
  BY Sizes DEF TypeOK, Past
<1> DEFINE At(i) == [l EXCEPT !.at = i]
<1>3. \A i \in Nat : /\ At(i) \in Local /\ At(i).n = l.n /\ At(i).k = l.k
                     /\ At(i).idx = l.idx /\ At(i).others = l.others
  BY <1>1 DEF Local
<1>4. {"compare", "read", "bump", "reset", "loop", "chosen"} \subseteq Labels \ {"terminated"}
  BY DEF Labels, Within
<1>5. Silent
  BY DEF Loop, Compare, Read, SkipSelf
<1>6. CASE Loop(t)
  <2>1. CASE l.idx < l.n
    <3>1. Goto(t, "compare", At(round_robin_index))
      BY <1>6, <2>1 DEF Loop
    <3>2. Sound("compare", At(round_robin_index), calm[t], alive)
      BY <1>1, <1>2, <1>3, <1>6, <2>1 DEF Sound, Loop, Within
    <3> QED
      BY <1>2, <1>3, <1>4, <1>5, <3>1, <3>2, SilentJump
  <2>2. CASE ~(l.idx < l.n)
    <3>1. Goto(t, "chosen", l)
      BY <1>6, <2>2 DEF Loop
    <3>2. Sound("chosen", l, calm[t], alive)
      BY <1>1, <1>6 DEF Sound, Loop, Within
    <3> QED
      BY <1>1, <1>4, <1>5, <3>1, <3>2, SilentJump
  <2> QED BY <2>1, <2>2
<1>7. CASE Compare(t)
  <2>1. PICK label \in {"reset", "read"} : Goto(t, label, At(0))
    BY <1>7 DEF Compare
  <2>2. Sound(label, At(0), calm[t], alive)
    BY <1>1, <1>3, <1>7 DEF Sound, Compare, Within
  <2> QED
    BY <1>3, <1>4, <1>5, <2>1, <2>2, SilentJump
<1>8. CASE Read(t)
  <2>1. Goto(t, "bump", At(round_robin_index))
    BY <1>8 DEF Read
  <2>2. Sound("bump", At(round_robin_index), calm[t], alive)
    BY <1>1, <1>2, <1>3, <1>8 DEF Sound, Read, Within
  <2> QED
    BY <1>2, <1>3, <1>4, <1>5, <2>1, <2>2, SilentJump
<1>9. CASE SkipSelf(t)
  <2>1. PICK label \in {"chosen", "loop"} : Goto(t, label, l)
    BY <1>9 DEF SkipSelf
  <2>2. Sound(label, l, calm[t], alive)
    BY <1>1, <1>9 DEF Sound, SkipSelf, Within
  <2> QED
    BY <1>1, <1>4, <1>5, <2>1, <2>2, SilentJump
<1> QED
  BY <1>6, <1>7, <1>8, <1>9

\* Writing the index takes the calm from the other thread's selection only.
LEMMA WritesSound ==
  ASSUME TypeOK, SelectionInv, Running, NEW t \in Threads, Reset(t) \/ Bump(t)
  PROVE  TypeOK' /\ SelectionInv'
<1> DEFINE l == local[t]
<1>1. l \in Local /\ l.at \in Nat /\ Sound(pc[t], l, calm[t], alive)
  BY Mine, LocalNumbers
<1>2. Past \in Nat
  BY Sizes DEF Past
<1>3. PICK label \in {"read", "get"}, value \in 0..Past :
        Goto(t, label, l) /\ WriteIndex(t, value) /\ pc[t] \in {"reset", "bump"}
  BY <1>1, <1>2 DEF Reset, Bump, Minimum
<1>4. /\ calm' \in [Threads -> BOOLEAN] /\ calm'[t] = calm[t]
      /\ \A u \in Threads \ {t} : calm'[u] => calm[u]
      /\ alive' = alive
  BY <1>3 DEF WriteIndex, Disturbs, TypeOK
<1>5. Sound(label, l, calm'[t], alive')
  BY <1>1, <1>3, <1>4 DEF Sound, Within
<1>6. label \in Labels \ {"terminated"}
  BY <1>3 DEF Labels, Within
<1>7. SelectionInv' /\ pc' \in [Threads -> Labels] /\ local' \in [Threads -> Local]
  BY <1>1, <1>3, <1>4, <1>5, <1>6, Jump
<1> QED
  BY <1>3, <1>4, <1>7 DEF TypeOK, WriteIndex

\* If a selection nobody interfered with came to look for a server, there is one; the
\* server it takes is in the table and counts for one more.
LEMMA GetSound ==
  ASSUME TypeOK, SelectionInv, Running, NEW t \in Threads, GetNeighborByIndex(t)
  PROVE  TypeOK' /\ SelectionInv'
<1> DEFINE l == [local[t] EXCEPT !.at = 0]
<1>1. /\ l \in Local /\ l.n = local[t].n /\ l.k = local[t].k
      /\ l.idx = local[t].idx /\ l.others = local[t].others
  BY Mine DEF Local
<1>2. l.k \in Nat /\ l.n \in Nat /\ l.idx \in Nat
  BY <1>1, LocalNumbers, Zenon
<1>3. /\ l.n <= l.k /\ l.idx < l.n
      /\ IsFiniteSet(l.others) /\ Cardinality(l.others) <= l.idx
      /\ calm[t] => l.n <= Cardinality(alive) /\ l.others \subseteq alive \ {Self}
  BY <1>1, Mine, Zenon DEF GetNeighborByIndex, Sound, Within
<1>4. calm[t] \in BOOLEAN
  BY DEF TypeOK
<1> HIDE DEF l
<1>5. CASE alive = {} /\ Throw(t)
  <2>1. NoLocal \in Local
    BY DEF NoLocal, Local
  <2>2. PICK label \in {"terminated", "idle"} : Goto(t, label, NoLocal)
    BY <1>5 DEF Throw
  <2>3. label \in Labels /\ Sound(label, NoLocal, calm[t], alive)
    BY <2>2 DEF Labels, Sound, Within
  <2>4. Silent
    BY <1>5 DEF Throw
  <2> QED
    BY <2>1, <2>2, <2>3, <2>4, SilentJump
<1>6. CASE Goto(t, "self", l) /\ Silent
  <2>1. "self" \in Labels /\ Sound("self", l, calm[t], alive)
    BY <1>2, <1>3 DEF Labels, Sound, Within
  <2> QED
    BY <1>1, <1>6, <2>1, SilentJump
<1>7. ASSUME NEW other \in alive, other # Self,
             Goto(t, "loop", [l EXCEPT !.others = @ \cup {other}, !.idx = @ + 1]),
             Taken(t, other)
      PROVE  TypeOK' /\ SelectionInv'
  <2> DEFINE m == [l EXCEPT !.others = @ \cup {other}, !.idx = @ + 1]
  <2>1. other \in Servers
    BY DEF TypeOK
  <2>2. /\ m \in Local /\ m.n = l.n /\ m.k = l.k
        /\ m.idx = l.idx + 1 /\ m.others = l.others \cup {other}
    <3>1. l.idx + 1 \in Nat
      BY <1>2
    <3>2. l.others \cup {other} \in SUBSET Servers
      BY <1>1, <2>1 DEF Local
    <3> DEFINE d == [l EXCEPT !.others = l.others \cup {other}]
    <3>3. m = [d EXCEPT !.idx = l.idx + 1]
      OBVIOUS
    <3>4. d \in Local /\ d.n = l.n /\ d.k = l.k /\ d.others = l.others \cup {other}
      BY <1>1, <3>2 DEF Local
    <3> HIDE DEF d, m
    <3>5. m \in Local /\ m.n = d.n /\ m.k = d.k /\ m.idx = l.idx + 1 /\ m.others = d.others
      BY <3>1, <3>3, <3>4 DEF Local
    <3> QED
      BY <3>4, <3>5, Zenon
  <2>3. IsFiniteSet(m.others) /\ Cardinality(m.others) <= m.idx
    <3>1. /\ IsFiniteSet(l.others \cup {other})
          /\ \/ Cardinality(l.others \cup {other}) = Cardinality(l.others)
             \/ Cardinality(l.others \cup {other}) = Cardinality(l.others) + 1
      BY <1>3, FS_AddElement, SMTT(30)
    <3>2. Cardinality(l.others) \in Nat
      BY <1>3, FS_CardinalityType
    <3> HIDE DEF m
    <3> QED
      BY <1>2, <1>3, <2>2, <3>1, <3>2
  <2>4. calm' = calm /\ alive' = alive
    BY <1>7 DEF Taken
  <2>5. Sound("loop", m, calm'[t], alive')
    <3> HIDE DEF m
    <3> QED
      BY <1>2, <1>3, <1>7, <2>2, <2>3, <2>4 DEF Sound
  <2>6. "loop" \in Labels /\ calm' \in [Threads -> BOOLEAN]
    BY <2>4 DEF Labels, Within, TypeOK
  <2>7. Goto(t, "loop", m)
    BY <1>7
  <2>8. SelectionInv' /\ pc' \in [Threads -> Labels] /\ local' \in [Threads -> Local]
    <3> HIDE DEF m
    <3> QED
      BY <2>2, <2>4, <2>5, <2>6, <2>7, Jump
  <2>9. last' \in Servers \cup {None} /\ inTurn' \in BOOLEAN
    BY <1>7, <2>1 DEF Taken, TypeOK
  <2> QED
    BY <1>7, <2>8, <2>9 DEF TypeOK, Taken
<1> QED
  BY <1>5, <1>6, <1>7, Zenon DEF GetNeighborByIndex, l

-----------------------------------------------------------------------------
(* The callers and the server loop.                                          *)

\* Outside a selection there is nothing to be sound.
LEMMA OutsideSound ==
  ASSUME NEW label \in {"idle", "count", "pick", "contact"}, NEW l, NEW quiet, NEW table
  PROVE  label \in Labels \ {"terminated"} /\ Sound(label, l, quiet, table)
BY DEF Labels, Within, Sound

\* The values of a thread's variables between selections.
LEMMA OutsideLocal ==
  ASSUME TypeOK,
         NEW left \in SUBSET Servers, NEW k \in ReportCounts \cup ForwardCounts,
         NEW for \in {"reports", "forwards"}
  PROVE  /\ NoLocal \in Local
         /\ [NoLocal EXCEPT !.left = left] \in Local
         /\ [NoLocal EXCEPT !.k = k] \in Local
         /\ [NoLocal EXCEPT !.for = for, !.k = k, !.left = left] \in Local
BY Zenon DEF NoLocal, Local

\* Beginning a round, picking a random neighbour and returning from a selection.
LEMMA CallersSound ==
  ASSUME TypeOK, SelectionInv, Running, NEW t \in Threads,
         SendReport(t) \/ GetRandomNeighbor(t) \/ Return(t)
  PROVE  TypeOK' /\ SelectionInv'
<1>1. /\ num_reports \in ReportCounts /\ local[t] \in Local
      /\ local[t].others \in SUBSET Servers /\ local[t].left \in SUBSET Servers
  BY DEF TypeOK, Local
<1>2. CASE SendReport(t)
  <2>1. PICK label \in {"count", "pick"}, l \in Local : Goto(t, label, l)
    BY <1>1, <1>2, OutsideLocal, Zenon DEF SendReport
  <2> QED
    BY <1>2, <2>1, OutsideSound, SilentJump DEF SendReport
<1>3. CASE GetRandomNeighbor(t) /\ alive # {}
  <2>1. \A other \in alive : {other} \in SUBSET Servers
    BY DEF TypeOK
  <2>2. PICK l \in Local : Goto(t, "contact", l) /\ Silent
    BY <1>1, <1>3, <2>1, OutsideLocal, Zenon DEF GetRandomNeighbor
  <2> QED
    BY <2>2, OutsideSound, SilentJump
<1>4. CASE Return(t)
  <2>1. PICK l \in Local : Goto(t, "contact", l) /\ Silent
    BY <1>1, <1>4, OutsideLocal, Zenon DEF Return
  <2> QED
    BY <2>1, OutsideSound, SilentJump
<1>5. CASE GetRandomNeighbor(t) /\ alive = {}
  <2>1. t = Single /\ Throw(t)
    BY <1>5 DEF GetRandomNeighbor
  <2>2. t # Full
    BY <2>1, NeighboursAssumption
  <2>3. Goto(t, "idle", NoLocal) /\ Silent
    BY <2>1, <2>2 DEF Throw
  <2> QED
    BY <1>1, <2>3, OutsideLocal, OutsideSound, SilentJump, Zenon
<1> QED
  BY <1>2, <1>3, <1>4, <1>5

\* A change of the table, by a thread that is not selecting or by the server loop,
\* takes the calm from every selection under way.
LEMMA ChangeDisturbs ==
  ASSUME TypeOK, NEW t \in Threads \cup {None}, NEW new \in SUBSET Servers, ChangeAlive(t, new)
  PROVE  /\ calm' \in [Threads -> BOOLEAN]
         /\ \A u \in Threads \ {t} :
              /\ calm'[u] => calm[u]
              /\ calm'[u] /\ pc[u] \in Within => alive' = alive
         /\ alive' \in SUBSET Servers /\ last' \in Servers \cup {None}
         /\ emptied' \in BOOLEAN
<1> emptied' \in BOOLEAN
  BY DEF ChangeAlive, TypeOK
<1>1. CASE new = alive
  BY <1>1 DEF ChangeAlive, TypeOK
<1>2. CASE new # alive
  <2>1. Disturbs(t) /\ last' = None /\ alive' = new
    BY <1>2 DEF ChangeAlive
  <2> QED
    BY <2>1, Zenon DEF Disturbs, Selecting, TypeOK
<1> QED
  BY <1>1, <1>2

\* Contacting a neighbour goes on with the next, or begins a selection, and may change
\* the table.
LEMMA ContactChanges ==
  ASSUME TypeOK, NEW t \in Threads, Contact(t)
  PROVE  \E label \in {"idle", "count", "contact"}, l \in Local, new \in SUBSET Servers :
           Goto(t, label, l) /\ ChangeAlive(t, new)
<1>1. /\ num_forwards \in ForwardCounts /\ num_reports \in ReportCounts
      /\ alive \in SUBSET Servers
      /\ local[t] \in Local /\ local[t].left \in SUBSET Servers
  BY DEF TypeOK, Local
<1>2. \A s \in SUBSET Servers : [local[t] EXCEPT !.left = s] \in Local
  BY <1>1 DEF Local
<1>3. CASE Goto(t, "idle", NoLocal) /\ ChangeAlive(t, alive)
  BY <1>1, <1>3, OutsideLocal, Zenon
<1>4. ASSUME NEW other \in local[t].left,
             \/ /\ Goto(t, "contact", [local[t] EXCEPT !.left = @ \ {other}])
                /\ ChangeAlive(t, alive \cup {other})
             \/ /\ Goto(t, "count", [NoLocal EXCEPT !.for = "forwards", !.k = num_forwards,
                                                   !.left = local[t].left \ {other}])
                /\ ChangeAlive(t, IF other = Self THEN alive \cup {Self} ELSE alive \ {other})
      PROVE  \E label \in {"idle", "count", "contact"}, l \in Local, new \in SUBSET Servers :
               Goto(t, label, l) /\ ChangeAlive(t, new)
  <2>1. /\ local[t].left \ {other} \in SUBSET Servers
        /\ alive \cup {other} \in SUBSET Servers
        /\ (IF other = Self THEN alive \cup {Self} ELSE alive \ {other}) \in SUBSET Servers
    BY <1>1
  <2>2. /\ [local[t] EXCEPT !.left = @ \ {other}] \in Local
        /\ [NoLocal EXCEPT !.for = "forwards", !.k = num_forwards,
                           !.left = local[t].left \ {other}] \in Local
    BY <1>1, <1>2, <2>1, OutsideLocal, Zenon
  <2> QED
    BY <1>4, <2>1, <2>2
<1> QED
  BY <1>3, <1>4, Zenon DEF Contact

\* Sending the reports.
LEMMA ContactSound ==
  ASSUME TypeOK, SelectionInv, Running, NEW t \in Threads, Contact(t)
  PROVE  TypeOK' /\ SelectionInv'
<1>1. PICK label \in {"idle", "count", "contact"}, l \in Local, new \in SUBSET Servers :
        Goto(t, label, l) /\ ChangeAlive(t, new)
  BY ContactChanges
<1>2. SelectionInv' /\ pc' \in [Threads -> Labels] /\ local' \in [Threads -> Local]
  BY <1>1, ChangeDisturbs, OutsideSound, Jump
<1> QED
  BY <1>1, <1>2, ChangeDisturbs, Zenon DEF TypeOK, Contact, ChangeAlive

\* The server loop.
LEMMA LoopSound ==
  ASSUME TypeOK, SelectionInv, ServerLoop
  PROVE  TypeOK' /\ SelectionInv'
<1>1. PICK new \in SUBSET Servers : ChangeAlive(None, new)
  <2>1. PICK s \in Servers : ChangeAlive(None, alive \cup {s}) \/ ChangeAlive(None, alive \ {s})
    BY Zenon DEF ServerLoop
  <2> QED
    BY <2>1 DEF TypeOK
<1>2. None \notin Threads
  BY NeighboursAssumption DEF Threads
<1>3. /\ calm' \in [Threads -> BOOLEAN]
      /\ \A u \in Threads : /\ calm'[u] => calm[u]
                            /\ calm'[u] /\ pc[u] \in Within => alive' = alive
      /\ alive' \in SUBSET Servers /\ last' \in Servers \cup {None}
      /\ emptied' \in BOOLEAN
  BY <1>1, <1>2, ChangeDisturbs
<1>4. pc' = pc /\ local' = local /\ changes' \in 0..MaxChanges
  BY NeighboursAssumption DEF ServerLoop, TypeOK
<1>5. ASSUME NEW u \in Threads PROVE Sound(pc'[u], local'[u], calm'[u], alive')
  <2>1. Sound(pc[u], local[u], calm[u], alive)
    BY DEF SelectionInv
  <2>2. CASE calm'[u] /\ pc[u] \in Within
    BY <1>3, <1>4, <2>1, <2>2, Zenon DEF Sound
  <2>3. CASE ~(calm'[u] /\ pc[u] \in Within)
    BY <1>3, <1>4, <2>1, <2>3 DEF Sound
  <2> QED BY <2>2, <2>3
<1> QED
  BY <1>1, <1>3, <1>4, <1>5 DEF TypeOK, SelectionInv, ChangeAlive

-----------------------------------------------------------------------------
(* The theorems.                                                             *)

\* The inductive invariant is one.
THEOREM SelectionInvariant == Spec => [](TypeOK /\ SelectionInv)
<1>1. TypeOK /\ SelectionInv /\ [Next]_vars => TypeOK' /\ SelectionInv'
  <2> SUFFICES ASSUME TypeOK, SelectionInv, [Next]_vars PROVE TypeOK' /\ SelectionInv'
    OBVIOUS
  <2>1. CASE ServerLoop
    BY <2>1, LoopSound
  <2>2. ASSUME NEW t \in Threads, Step(t) PROVE TypeOK' /\ SelectionInv'
    BY <2>2, CountSound, ReadsSound, WritesSound, GetSound, CallersSound, ContactSound DEF Step
  <2>3. CASE UNCHANGED vars
    BY <2>3 DEF vars, TypeOK, SelectionInv
  <2> QED
    BY <2>1, <2>2, <2>3 DEF Next
<1> QED
  BY <1>1, InitSound, PTL DEF Spec

-----------------------------------------------------------------------------
(* The exception that ends the process.                                      *)

\* A selection that counted a server has a table that is not empty, or that somebody
\* else has emptied since.
EmptiedInv ==
  /\ pc[Full] \in Within /\ local[Full].n > 0 => alive # {} \/ emptied
  /\ ThrowsOnlyIfEmptied

\* A step of a thread that leaves the table alone.
LEMMA StillCounted ==
  ASSUME TypeOK, EmptiedInv, Running, NEW t \in Threads, NEW label, NEW l, Goto(t, label, l),
         alive' = alive, t # Full => emptied' = emptied,
         t = Full => /\ label \in Within /\ l.n > 0 => alive # {} \/ emptied'
                     /\ label = "terminated" => emptied'
  PROVE  EmptiedInv'
<1>1. Full \in Threads /\ pc[Full] # "terminated"
  BY DEF Threads, Running
<1>2. CASE t = Full
  <2>1. pc'[Full] = label /\ local'[Full] = l
    BY <1>1, <1>2 DEF Goto, TypeOK
  <2> QED
    BY <1>2, <2>1 DEF EmptiedInv, ThrowsOnlyIfEmptied
<1>3. CASE t # Full
  <2>1. pc'[Full] = pc[Full] /\ local'[Full] = local[Full]
    BY <1>1, <1>3 DEF Goto, TypeOK
  <2> QED
    BY <1>1, <1>3, <2>1 DEF EmptiedInv, ThrowsOnlyIfEmptied
<1> QED BY <1>2, <1>3

\* Somebody else's change of the table is remembered if it empties it.
LEMMA EmptyingSeen ==
  ASSUME TypeOK, EmptiedInv, NEW t, NEW new, ChangeAlive(t, new), t # Full,
         pc'[Full] = pc[Full], local'[Full] = local[Full], Running
  PROVE  EmptiedInv'
BY Zenon DEF EmptiedInv, ThrowsOnlyIfEmptied, ChangeAlive, Running

\* Counting finds the table as it is.
LEMMA CountEmptied ==
  ASSUME TypeOK, SelectionInv, EmptiedInv, Running, NEW t \in Threads, Count(t)
  PROVE  EmptiedInv'
<1> DEFINE l == local[t]
           m == [l EXCEPT !.n = Minimum(l.k, alive_size), !.idx = 0, !.others = {}]
<1>1. Goto(t, "loop", m) /\ alive' = alive /\ emptied' = (emptied /\ t # Full)
  BY DEF Count
<1>2. l \in Local /\ l.k \in Nat
  BY Mine, LocalNumbers
<1>3. m.n = Minimum(l.k, alive_size)
  BY <1>2 DEF Local
<1>4. ASSUME alive = {}  PROVE ~(Minimum(l.k, alive_size) > 0)
  BY <1>2, <1>4, FS_EmptySet DEF Minimum, alive_size
<1>5. emptied \in BOOLEAN
  BY DEF TypeOK
<1> HIDE DEF m
<1>6. m.n > 0 => alive # {}
  BY <1>3, <1>4
<1>7. t # Full => emptied' = emptied
  BY <1>1, <1>5
<1> QED
  BY <1>1, <1>6, <1>7, StillCounted, Zenon

\* The other steps of a selection keep what was counted, and meet an empty table only
\* if it was emptied.
LEMMA SelectingEmptied ==
  ASSUME TypeOK, SelectionInv, EmptiedInv, Running, NEW t \in Threads,
         \/ Loop(t) \/ Compare(t) \/ Reset(t) \/ Read(t) \/ Bump(t)
         \/ GetNeighborByIndex(t) \/ SkipSelf(t)
  PROVE  EmptiedInv'
<1> DEFINE l == local[t]
<1>1. l \in Local /\ l.n \in Nat /\ l.idx \in Nat
  BY Mine, LocalNumbers, Zenon
<1>2. /\ alive' = alive /\ emptied' = emptied /\ pc[t] \in Within
  BY Zenon DEF Loop, Compare, Reset, Read, Bump, GetNeighborByIndex, SkipSelf, Silent, WriteIndex,
         Taken, Throw, Within
<1>3. t = Full /\ l.n > 0 => alive # {} \/ emptied
  BY <1>2 DEF EmptiedInv
<1>4. \A i : [l EXCEPT !.at = i].n = l.n
  BY <1>1 DEF Local
<1>5. CASE Loop(t) \/ Compare(t) \/ Reset(t) \/ Read(t) \/ Bump(t) \/ SkipSelf(t)
  <2>1. PICK label \in Within : \E m : Goto(t, label, m) /\ m.n = l.n
    BY <1>4, <1>5, Zenon DEF Loop, Compare, Reset, Read, Bump, SkipSelf, Within
  <2>2. PICK m : Goto(t, label, m) /\ m.n = l.n
    BY <2>1
  <2>3. label # "terminated"
    BY DEF Within
  <2> QED
    BY <1>2, <1>3, <2>2, <2>3, StillCounted
<1>6. CASE GetNeighborByIndex(t)
  <2>1. l.n > 0
    <3>1. pc[t] = "get"
      BY <1>6, Zenon DEF GetNeighborByIndex
    <3>2. l.idx < l.n
      BY <3>1, Mine DEF Sound, Within
    <3> QED
      BY <1>1, <3>2, AboveANatural, Zenon
  <2>2. t = Full => alive # {} \/ emptied
    BY <1>3, <2>1
  <2>3. CASE alive = {} /\ Throw(t)
    <3>1. PICK label, m : Goto(t, label, m)
      BY <2>3, Zenon DEF Throw
    <3> QED
      BY <1>2, <2>2, <2>3, <3>1, StillCounted, Zenon
  <2>4. ASSUME NEW label \in {"self", "loop"}, NEW m, Goto(t, label, m)
        PROVE  EmptiedInv'
    <3>1. label # "terminated"
      OBVIOUS
    <3> QED
      BY <1>2, <2>2, <2>4, <3>1, StillCounted, Zenon
  <2> QED
    BY <1>6, <2>3, <2>4, Zenon DEF GetNeighborByIndex
<1> QED
  BY <1>5, <1>6

\* Outside its selections a thread counts on nothing.
LEMMA CallersEmptied ==
  ASSUME TypeOK, EmptiedInv, Running, NEW t \in Threads,
         SendReport(t) \/ GetRandomNeighbor(t) \/ Return(t) \/ Contact(t)
  PROVE  EmptiedInv'
<1>1. CASE SendReport(t) \/ GetRandomNeighbor(t) \/ Return(t)
  <2>1. alive' = alive /\ emptied' = emptied
    BY <1>1, Zenon DEF SendReport, GetRandomNeighbor, Return, Silent, Throw
  <2>2. PICK label, l : Goto(t, label, l) /\ (t = Full => label \in {"count", "contact"})
    <3>1. GetRandomNeighbor(t) => t # Full
      BY NeighboursAssumption DEF GetRandomNeighbor
    <3> QED
      BY <1>1, <3>1, Zenon DEF SendReport, GetRandomNeighbor, Return, Throw
  <2> QED
    BY <2>1, <2>2, StillCounted DEF Within
<1>2. CASE Contact(t)
  <2>1. PICK label \in {"idle", "count", "contact"}, l \in Local, new \in SUBSET Servers :
          Goto(t, label, l) /\ ChangeAlive(t, new)
    BY <1>2, ContactChanges
  <2>2. CASE t = Full
    <3>1. pc'[Full] \in {"idle", "count", "contact"}
      BY <2>1, <2>2 DEF Goto, TypeOK
    <3> QED
      BY <3>1 DEF EmptiedInv, ThrowsOnlyIfEmptied, Within
  <2>3. CASE t # Full
    <3>1. pc'[Full] = pc[Full] /\ local'[Full] = local[Full]
      BY <2>1, <2>3 DEF Goto, TypeOK, Threads
    <3> QED
      BY <2>1, <2>3, <3>1, EmptyingSeen
  <2> QED BY <2>2, <2>3
<1> QED
  BY <1>1, <1>2

\* The exception of an empty table, which the thread of the full reports does not catch
\* and which so ends the process, is met only if another thread emptied alive_ after this
\* selection had read its size, for any table, index and counts.
THEOREM ThrowTheorem == Spec => []ThrowsOnlyIfEmptied
<1>1. Init => EmptiedInv
  BY DEF Init, EmptiedInv, ThrowsOnlyIfEmptied, Within, Threads
<1>2. TypeOK /\ SelectionInv /\ EmptiedInv /\ [Next]_vars => EmptiedInv'
  <2> SUFFICES ASSUME TypeOK, SelectionInv, EmptiedInv, [Next]_vars PROVE EmptiedInv'
    OBVIOUS
  <2>1. CASE ServerLoop
    <3>1. PICK new : ChangeAlive(None, new)
      BY <2>1, Zenon DEF ServerLoop
    <3>2. None # Full /\ pc' = pc /\ local' = local /\ Running
      BY <2>1, NeighboursAssumption DEF ServerLoop
    <3> QED
      BY <3>1, <3>2, EmptyingSeen
  <2>2. ASSUME NEW t \in Threads, Step(t) PROVE EmptiedInv'
    BY <2>2, CountEmptied, SelectingEmptied, CallersEmptied, Zenon DEF Step
  <2>3. CASE UNCHANGED vars
    BY <2>3 DEF vars, EmptiedInv, ThrowsOnlyIfEmptied
  <2> QED
    BY <2>1, <2>2, <2>3 DEF Next
<1>3. EmptiedInv => ThrowsOnlyIfEmptied
  BY DEF EmptiedInv
<1> QED
  BY <1>1, <1>2, <1>3, SelectionInvariant, PTL DEF Spec

-----------------------------------------------------------------------------
(* The order in which neighbours are taken, while nobody interferes.         *)

\* The distance of s from the beginning of table.
Place(table, s) == Cardinality({r \in table : r < s})

\* Going round the table from p, no neighbour is passed before place i is reached: i
\* is past p and those between are not neighbours, or i is at or before p, and there
\* are none after p nor before i.
NonePassed(table, p, i) ==
  LET others == table \ {Self} IN
  \/ Place(table, p) < i /\ \A r \in others : p < r => i <= Place(table, r)
  \/ i <= Place(table, p) /\ \A r \in others : r <= p /\ i <= Place(table, r)

\* The neighbours from first to p, going round the table.
Arc(table, first, p) ==
  {r \in table \ {Self} : IF first <= p THEN first <= r /\ r <= p ELSE first <= r \/ r <= p}

\* Where a selection l that nobody interferes with stands.  p is the neighbour taken
\* last, by it or before it, and i the index.  What it has taken is an arc that ends at
\* p, without repetition until it has taken all.
Placed(label, l, table, p, i) ==
  LET others == table \ {Self} IN
  /\ l.n = Minimum(l.k, Cardinality(table))
  /\ l.others # {} =>
       p \in l.others /\ (l.others = others \/ \E f \in l.others : l.others = Arc(table, f, p))
  /\ l.others = others \/ Cardinality(l.others) = l.idx
  /\ p # None => NonePassed(table, p, IF label = "get" THEN l.at ELSE i)
  /\ label = "compare" => l.at = i
  /\ label = "reset" => Cardinality(table) <= i
  /\ label = "read" => i < Cardinality(table)
  /\ label = "bump" => l.at = i /\ i < Cardinality(table)
  /\ label = "get" => l.at < Cardinality(table) /\ i = l.at + 1
  /\ label = "self" => Self \in table
  /\ label = "chosen" => l.idx = l.n \/ l.others = others

\* A selection that nobody interfered with, or one that may have moved the index and
\* has yet to take a neighbour.
Busy(label, l, quiet) ==
  label \in Within /\ (quiet \/ (label # "chosen" /\ l.idx < l.n))

\* When no thread is busy, the index is where the last neighbour left it.  A thread that
\* has moved it has interfered with every other selection.
TurnInv ==
  /\ last # None => last \in alive \ {Self}
  /\ \A t \in Threads :
       pc[t] \in Within /\ calm[t] => Placed(pc[t], local[t], alive, last, round_robin_index)
  /\ \A t, u \in Threads :
       t # u /\ pc[t] \in Within /\ calm[t] => pc[u] \notin {"get", "self"}
  /\ (\A t \in Threads : ~Busy(pc[t], local[t], calm[t])) /\ last # None =>
       NonePassed(alive, last, round_robin_index)
  /\ inTurn

\* What the place of a selection says of the index it read and of the last neighbour.
LEMMA PlacedAt ==
  ASSUME NEW l, NEW table, NEW p, NEW i
  PROVE  /\ Placed("reset", l, table, p, i) =>
              Cardinality(table) <= i /\ (p # None => NonePassed(table, p, i))
         /\ Placed("compare", l, table, p, i) => l.at = i
         /\ Placed("bump", l, table, p, i) => l.at = i /\ i < Cardinality(table)
         /\ Placed("get", l, table, p, i) => l.at < Cardinality(table)
<1>1. "reset" # "get"
  OBVIOUS
<1> QED
  BY <1>1, Zenon DEF Placed

\* Places are numbered in the order of the servers.
LEMMA Places ==
  ASSUME NEW table \in SUBSET Servers, NEW a \in table
  PROVE  /\ Place(table, a) \in Nat /\ Place(table, a) < Cardinality(table)
         /\ \A b \in table : a < b => Place(table, a) < Place(table, b)
<1> DEFINE below(s) == {r \in table : r < s}
<1>1. IsFiniteSet(table) /\ Cardinality(table) \in Nat /\ a \in Nat
  BY Sizes, NeighboursAssumption
<1>2. \A s : below(s) \in SUBSET Servers
  OBVIOUS
<1>3. \A s : IsFiniteSet(below(s)) /\ Cardinality(below(s)) \in Nat
  BY <1>2, Sizes
<1>4. a \notin below(a)
  BY <1>1
<1>5. Cardinality(below(a)) < Cardinality(table)
  <2>1. /\ Cardinality(below(a)) <= Cardinality(table)
        /\ Cardinality(below(a)) = Cardinality(table) => table = below(a)
    <3>1. below(a) \in SUBSET table
      OBVIOUS
    <3> QED
      BY <1>1, <3>1, FS_Subset
  <2> QED
    BY <1>1, <1>3, <1>4, <2>1
<1>6. ASSUME NEW b \in table, a < b
      PROVE  Cardinality(below(a)) < Cardinality(below(b))
  <2>1. below(a) \in SUBSET below(b) /\ a \in below(b)
    <3>1. b \in Nat /\ \A r \in table : r \in Nat
      BY NeighboursAssumption
    <3>2. \A r \in Nat : r < a => r < b
      BY <1>1, <1>6, <3>1
    <3> QED
      BY <1>6, <3>1, <3>2, Zenon
  <2>2. /\ Cardinality(below(a)) <= Cardinality(below(b))
        /\ Cardinality(below(a)) = Cardinality(below(b)) => below(b) = below(a)
    BY <1>3, <2>1, FS_Subset, Zenon
  <2> QED
    BY <1>3, <1>4, <2>1, <2>2
<1> QED
  BY <1>3, <1>5, <1>6 DEF Place

\* The same in the form in which it is used: a smaller place is a smaller server.
LEMMA PlaceOrder ==
  ASSUME NEW table \in SUBSET Servers, NEW a \in table, NEW b \in table
  PROVE  /\ a \in Nat /\ b \in Nat /\ Place(table, a) \in Nat /\ Place(table, b) \in Nat
         /\ a < b <=> Place(table, a) < Place(table, b)
         /\ a = b <=> Place(table, a) = Place(table, b)
<1>1. a \in Nat /\ b \in Nat
  BY NeighboursAssumption
<1>2. Place(table, a) \in Nat /\ Place(table, b) \in Nat
  BY Places
<1>3. /\ a < b => Place(table, a) < Place(table, b)
      /\ b < a => Place(table, b) < Place(table, a)
  BY Places
<1> QED
  BY <1>1, <1>2, <1>3

\* The server at place i, or the first one if i is past the end, follows p.
LEMMA NextFollows ==
  ASSUME NEW table \in SUBSET Servers, NEW p \in table \ {Self}, NEW s \in table \ {Self},
         NEW i \in Nat, NonePassed(table, p, i),
         Place(table, s) = IF i >= Cardinality(table) THEN 0 ELSE i
  PROVE  \/ p < s /\ ~\E r \in table \ {Self} : p < r /\ r < s
         \/ s <= p /\ ~\E r \in table \ {Self} : r < s \/ p < r
<1>1. s \in Nat /\ p \in Nat /\ Place(table, p) \in Nat /\ Place(table, s) \in Nat
  BY Places, NeighboursAssumption
<1>2. Cardinality(table) \in Nat /\ Place(table, p) < Cardinality(table)
  BY Places, Sizes
<1>3. \A r \in table : /\ r \in Nat /\ Place(table, r) \in Nat
                       /\ Place(table, r) < Cardinality(table)
                       /\ r < s <=> Place(table, r) < Place(table, s)
  BY Places, PlaceOrder
<1>4. p < s <=> Place(table, p) < Place(table, s)
  BY PlaceOrder
<1>5. CASE Place(table, p) < i /\ \A r \in table \ {Self} : p < r => i <= Place(table, r)
  <2>1. CASE i < Cardinality(table)
    BY <1>1, <1>2, <1>3, <1>4, <1>5, <2>1
  <2>2. CASE Cardinality(table) <= i
    <3>1. Place(table, s) = 0
      BY <1>2, <2>2
    <3>2. \A r \in table \ {Self} : ~(r < s) /\ ~(p < r)
      BY <1>2, <1>3, <1>5, <2>2, <3>1
    <3> QED
      BY <1>1, <3>2
  <2> QED
    BY <1>2, <2>1, <2>2
<1>6. CASE i <= Place(table, p) /\ \A r \in table \ {Self} : r <= p /\ i <= Place(table, r)
  <2>1. Place(table, s) = i
    BY <1>1, <1>2, <1>6
  <2>2. \A r \in table \ {Self} : ~(r < s) /\ ~(p < r)
    BY <1>1, <1>3, <1>6, <2>1
  <2> QED
    BY <1>1, <2>2
<1> QED
  BY <1>5, <1>6 DEF NonePassed

\* After s is taken, none is passed before the place after it.
LEMMA PassedAfter ==
  ASSUME NEW table \in SUBSET Servers, NEW s \in table \ {Self}
  PROVE  NonePassed(table, s, Place(table, s) + 1)
<1>1. \A r \in table : /\ Place(table, r) \in Nat
                       /\ s < r => Place(table, s) < Place(table, r)
  BY Places
<1>2. Place(table, s) < Place(table, s) + 1
  BY <1>1
<1>3. \A r \in table \ {Self} : s < r => Place(table, s) + 1 <= Place(table, r)
  BY <1>1
<1> QED
  BY <1>2, <1>3 DEF NonePassed

\* Meeting this server passes no neighbour.
LEMMA PassedSelf ==
  ASSUME NEW table \in SUBSET Servers, NEW p \in table \ {Self}, Self \in table,
         NonePassed(table, p, Place(table, Self))
  PROVE  NonePassed(table, p, Place(table, Self) + 1)
<1> DEFINE i == Place(table, Self)
<1>1. /\ i \in Nat /\ Place(table, p) \in Nat /\ Place(table, p) # i
      /\ \A r \in table \ {Self} : Place(table, r) \in Nat /\ Place(table, r) # i
  BY PlaceOrder
<1> HIDE DEF i
<1>2. \A x \in Nat : x # i /\ i <= x => i + 1 <= x
  BY <1>1
<1>3. CASE Place(table, p) < i /\ \A r \in table \ {Self} : p < r => i <= Place(table, r)
  <2>1. Place(table, p) < i + 1
    BY <1>1, <1>3
  <2>2. \A r \in table \ {Self} : p < r => i + 1 <= Place(table, r)
    BY <1>1, <1>2, <1>3
  <2> QED
    BY <2>1, <2>2 DEF NonePassed, i
<1>4. CASE i <= Place(table, p) /\ \A r \in table \ {Self} : r <= p /\ i <= Place(table, r)
  <2>1. i + 1 <= Place(table, p)
    BY <1>1, <1>2, <1>4
  <2>2. \A r \in table \ {Self} : r <= p /\ i + 1 <= Place(table, r)
    BY <1>1, <1>2, <1>4
  <2> QED
    BY <2>1, <2>2 DEF NonePassed, i
<1> QED
  BY <1>3, <1>4 DEF NonePassed, i

\* The index is reset only at the end of the table.
LEMMA PassedReset ==
  ASSUME NEW table \in SUBSET Servers, NEW p \in table \ {Self}, NEW i \in Nat,
         Cardinality(table) <= i, NonePassed(table, p, i)
  PROVE  NonePassed(table, p, 0)
<1>1. /\ Cardinality(table) \in Nat /\ p \in Nat
      /\ \A r \in table : /\ r \in Nat /\ Place(table, r) \in Nat
                          /\ Place(table, r) < Cardinality(table)
  BY Places, Sizes, NeighboursAssumption
<1>2. \A r \in table \ {Self} : ~(p < r)
  BY <1>1 DEF NonePassed
<1>3. 0 <= Place(table, p) /\ \A r \in table \ {Self} : r <= p /\ 0 <= Place(table, r)
  BY <1>1, <1>2
<1> QED
  BY <1>3 DEF NonePassed

\* One neighbour alone is never passed.
LEMMA PassedAlone ==
  ASSUME NEW table \in SUBSET Servers, NEW p \in table \ {Self}, NEW i \in Nat,
         Cardinality(table) <= 1
  PROVE  NonePassed(table, p, i)
<1>1. \A r \in table : /\ r \in Nat /\ Place(table, r) \in Nat
                       /\ Place(table, r) < Cardinality(table) /\ Cardinality(table) \in Nat
  BY Places, Sizes, NeighboursAssumption
<1>2. \A r \in table : Place(table, r) = 0
  BY <1>1
<1>3. \A r \in table : r = p
  BY <1>2, PlaceOrder
<1> QED
  BY <1>1, <1>2, <1>3 DEF NonePassed

\* Until all are taken, the server that follows the end of an arc is new, and makes the
\* arc longer by one.
LEMMA ArcGrows ==
  ASSUME NEW table \in SUBSET Servers, NEW f \in table \ {Self}, NEW p \in table \ {Self},
         NEW s \in table \ {Self}, Arc(table, f, p) # table \ {Self},
         \/ p < s /\ ~\E r \in table \ {Self} : p < r /\ r < s
         \/ s <= p /\ ~\E r \in table \ {Self} : r < s \/ p < r
  PROVE  s \notin Arc(table, f, p) /\ Arc(table, f, p) \cup {s} = Arc(table, f, s)
<1> DEFINE others == table \ {Self}
<1>1. \A r \in others : r \in Nat
  BY NeighboursAssumption
<1>2. f \in others /\ p \in others /\ s \in others
  OBVIOUS
<1>3. PICK q \in others : q \notin Arc(table, f, p)
  BY DEF Arc
<1>4. \A r \in others : r \in Arc(table, f, p) <=>
                          IF f <= p THEN f <= r /\ r <= p ELSE f <= r \/ r <= p
  BY DEF Arc
<1>5. \A r \in others : r \in Arc(table, f, s) <=>
                          IF f <= s THEN f <= r /\ r <= s ELSE f <= r \/ r <= s
  BY DEF Arc
<1>6. Arc(table, f, p) \in SUBSET others /\ Arc(table, f, s) \in SUBSET others
  BY DEF Arc
<1> HIDE DEF others
<1>7. CASE p < s /\ ~\E r \in others : p < r /\ r < s
  <2>1. s \notin Arc(table, f, p)
    BY <1>1, <1>2, <1>3, <1>4, <1>7
  <2>2. ASSUME NEW r \in others
        PROVE  r \in Arc(table, f, s) <=> r \in Arc(table, f, p) \/ r = s
    BY <1>1, <1>2, <1>3, <1>4, <1>5, <1>7
  <2> QED
    BY <1>2, <1>6, <2>1, <2>2, Zenon
<1>8. CASE s <= p /\ ~\E r \in others : r < s \/ p < r
  <2>1. f <= p /\ s <= f
    BY <1>1, <1>2, <1>8
  <2>2. s # f
    BY <1>1, <1>2, <1>3, <1>4, <1>8, <2>1
  <2>3. s \notin Arc(table, f, p)
    BY <1>1, <1>2, <1>4, <2>1, <2>2
  <2>4. ASSUME NEW r \in others
        PROVE  r \in Arc(table, f, s) <=> r \in Arc(table, f, p) \/ r = s
    BY <1>1, <1>2, <1>4, <1>5, <1>8, <2>1, <2>2
  <2> QED
    BY <1>2, <1>6, <2>3, <2>4, Zenon
<1> QED
  BY <1>7, <1>8 DEF others

-----------------------------------------------------------------------------
(* The order is kept.                                                        *)

\* Thread t goes on.  Whoever is left calm has been left its table, the last neighbour
\* and the index.
LEMMA TurnJump ==
  ASSUME TypeOK, TurnInv, NEW t \in Threads, NEW label \in Labels, NEW l \in Local,
         Goto(t, label, l), inTurn',
         last' # None => last' \in alive' \ {Self},
         \A u \in Threads \ {t} : pc[u] \in Within /\ calm'[u] =>
           /\ calm[u]
           /\ alive' = alive /\ last' = last /\ round_robin_index' = round_robin_index,
         label \in Within /\ calm'[t] =>
           /\ Placed(label, l, alive', last', round_robin_index')
           /\ \A u \in Threads \ {t} : pc[u] \notin {"get", "self"},
         label \in {"get", "self"} =>
           \A u \in Threads \ {t} : ~(pc[u] \in Within /\ calm'[u]),
         last' # None /\ ~Busy(label, l, calm'[t])
           /\ (\A u \in Threads \ {t} : ~Busy(pc[u], local[u], calm'[u]))
           => NonePassed(alive', last', round_robin_index')
  PROVE  TurnInv'
<1>1. \A u \in Threads \ {t} : pc'[u] = pc[u] /\ local'[u] = local[u]
  BY DEF Goto, TypeOK
<1>2. pc'[t] = label /\ local'[t] = l
  BY Zenon DEF Goto, TypeOK
<1>3. ASSUME NEW u \in Threads, pc'[u] \in Within, calm'[u]
      PROVE  Placed(pc'[u], local'[u], alive', last', round_robin_index')
  <2>1. CASE u = t
    BY <1>2, <1>3, <2>1, Zenon
  <2>2. CASE u # t
    <3>1. /\ calm[u] /\ alive' = alive /\ last' = last
          /\ round_robin_index' = round_robin_index /\ pc[u] \in Within
      BY <1>1, <1>3, <2>2, Zenon
    <3> QED
      BY <1>1, <2>2, <3>1, Zenon DEF TurnInv
  <2> QED BY <2>1, <2>2, Zenon
<1>4. ASSUME NEW u \in Threads, NEW v \in Threads, u # v, pc'[u] \in Within, calm'[u]
      PROVE  pc'[v] \notin {"get", "self"}
  <2>1. CASE u = t
    BY <1>1, <1>2, <1>4, <2>1, Zenon
  <2>2. CASE v = t
    BY <1>1, <1>2, <1>4, <2>2, Zenon
  <2>3. CASE u # t /\ v # t
    BY <1>1, <1>4, <2>3, Zenon DEF TurnInv
  <2> QED BY <2>1, <2>2, <2>3, Zenon
<1>5. ASSUME \A u \in Threads : ~Busy(pc'[u], local'[u], calm'[u]), last' # None
      PROVE  NonePassed(alive', last', round_robin_index')
  <2>1. ~Busy(label, l, calm'[t])
    BY <1>2, <1>5, Zenon
  <2>2. \A u \in Threads \ {t} : ~Busy(pc[u], local[u], calm'[u])
    BY <1>1, <1>5, Zenon
  <2> QED
    BY <1>5, <2>1, <2>2, Zenon
<1> QED
  BY <1>3, <1>4, <1>5, Zenon DEF TurnInv

\* The same for a step that writes nothing shared.
LEMMA SilentTurn ==
  ASSUME TypeOK, TurnInv, NEW t \in Threads, NEW label \in Labels, NEW l \in Local,
         Goto(t, label, l), Silent,
         label \in Within /\ calm[t] =>
           pc[t] \in Within /\ Placed(label, l, alive, last, round_robin_index),
         label \in {"get", "self"} => pc[t] \in {"get", "self"},
         last # None /\ Busy(pc[t], local[t], calm[t]) /\ ~Busy(label, l, calm[t]) =>
           NonePassed(alive, last, round_robin_index)
  PROVE  TurnInv'
<1>1. /\ alive' = alive /\ last' = last /\ round_robin_index' = round_robin_index
      /\ calm' = calm /\ inTurn' = inTurn
  BY Zenon DEF Silent
<1>2. inTurn' /\ (last' # None => last' \in alive' \ {Self})
  BY <1>1, Zenon DEF TurnInv
<1>3. label \in Within /\ calm[t] => \A u \in Threads \ {t} : pc[u] \notin {"get", "self"}
  BY Zenon DEF TurnInv
<1>4. label \in {"get", "self"} => \A u \in Threads \ {t} : ~(pc[u] \in Within /\ calm[u])
  BY Zenon DEF TurnInv
<1>5. ASSUME last # None, ~Busy(label, l, calm[t]),
             \A u \in Threads \ {t} : ~Busy(pc[u], local[u], calm[u])
      PROVE  NonePassed(alive, last, round_robin_index)
  BY <1>5, Zenon DEF TurnInv
<1> QED
  BY <1>1, <1>2, <1>3, <1>4, <1>5, TurnJump, Zenon

\* What a calm selection knows of its table.
LEMMA CalmTable ==
  ASSUME TypeOK, SelectionInv, TurnInv, NEW t \in Threads, pc[t] \in Within
  PROVE  /\ alive \in SUBSET Servers /\ Cardinality(alive) \in Nat
         /\ round_robin_index \in Nat /\ local[t] \in Local
         /\ local[t].idx \in Nat /\ local[t].n \in Nat /\ local[t].k \in Nat
         /\ local[t].at \in Nat /\ local[t].idx <= local[t].n
         /\ pc[t] \notin {"loop", "chosen"} => local[t].idx < local[t].n
         /\ calm[t] =>
              /\ Placed(pc[t], local[t], alive, last, round_robin_index)
              /\ local[t].n <= Cardinality(alive)
              /\ local[t].others \subseteq alive \ {Self}
<1>1. alive \in SUBSET Servers /\ Cardinality(alive) \in Nat
  BY Sizes DEF TypeOK
<1>2. round_robin_index \in Nat
  BY Sizes DEF TypeOK, Past
<1>3. local[t] \in Local /\ Sound(pc[t], local[t], calm[t], alive)
  BY Mine, Zenon
<1>4. calm[t] => Placed(pc[t], local[t], alive, last, round_robin_index)
  BY DEF TurnInv
<1> QED
  BY <1>1, <1>2, <1>3, <1>4, LocalNumbers, Zenon DEF Sound

\* Changing at changes nothing else.
LEMMA AtFields ==
  ASSUME NEW l \in Local, NEW i \in Nat
  PROVE  LET m == [l EXCEPT !.at = i] IN
         /\ m \in Local /\ m.at = i /\ m.n = l.n /\ m.k = l.k /\ m.idx = l.idx
         /\ m.others = l.others
BY DEF Local

\* The head of the loop, the comparison and the read of the index.
LEMMA ReadsInTurn ==
  ASSUME TypeOK, SelectionInv, TurnInv, NEW t \in Threads, Loop(t) \/ Compare(t) \/ Read(t)
  PROVE  TurnInv'
<1> DEFINE l == local[t]
           i == round_robin_index
           At(a) == [l EXCEPT !.at = a]
<1>1. pc[t] \in {"loop", "compare", "read"} /\ pc[t] \in Within /\ Silent
  BY Zenon DEF Loop, Compare, Read, Within
<1>2. /\ alive \in SUBSET Servers /\ Cardinality(alive) \in Nat /\ i \in Nat
      /\ l \in Local /\ l.idx \in Nat /\ l.n \in Nat /\ l.at \in Nat /\ l.idx <= l.n
      /\ pc[t] # "loop" => l.idx < l.n
      /\ calm[t] => Placed(pc[t], l, alive, last, i) /\ l.n <= Cardinality(alive)
  BY <1>1, CalmTable
<1>3. \A a \in Nat : /\ At(a) \in Local /\ At(a).at = a /\ At(a).n = l.n /\ At(a).k = l.k
                     /\ At(a).idx = l.idx /\ At(a).others = l.others
  BY <1>2, AtFields
<1>4. /\ {"compare", "read", "bump", "reset", "loop", "chosen"} \subseteq Labels \cap Within
      /\ {"compare", "read", "bump", "reset", "loop", "chosen"} \cap {"get", "self"} = {}
  BY Zenon DEF Labels, Within
<1>5. CASE Loop(t) /\ l.idx < l.n
  <2> DEFINE m == At(i)
  <2>1. Goto(t, "compare", m) /\ pc[t] = "loop"
    BY <1>5 DEF Loop
  <2>2. m \in Local /\ m.at = i /\ m.n = l.n /\ m.k = l.k /\ m.idx = l.idx /\ m.others = l.others
    BY <1>2, <1>3, Zenon
  <2> HIDE DEF m, i, l
  <2>3. calm[t] => Placed("compare", m, alive, last, i)
    BY <1>2, <2>1, <2>2, Zenon DEF Placed
  <2>4. Busy("compare", m, calm[t])
    BY <1>4, <1>5, <2>2, Zenon DEF Busy
  <2> QED
    BY <1>1, <1>4, <2>1, <2>2, <2>3, <2>4, SilentTurn, Zenon DEF i
<1>6. CASE Loop(t) /\ ~(l.idx < l.n)
  <2>1. Goto(t, "chosen", l) /\ pc[t] = "loop"
    BY <1>6, Zenon DEF Loop
  <2> HIDE DEF i, l
  <2>2. l.idx = l.n
    BY <1>2, <1>6
  <2>3. calm[t] => Placed("chosen", l, alive, last, i)
    <3>1. calm[t] => Placed("loop", l, alive, last, i)
      BY <1>2, <2>1, Zenon
    <3> QED
      BY <2>2, <3>1, Zenon DEF Placed
  <2>4. Busy(pc[t], l, calm[t]) => Busy("chosen", l, calm[t])
    BY <1>4, <1>6, Zenon DEF Busy
  <2> QED
    BY <1>1, <1>2, <1>4, <2>1, <2>3, <2>4, SilentTurn, Zenon DEF i, l
<1>7. CASE Compare(t)
  <2> DEFINE m == At(0)
  <2>1. PICK label \in {"reset", "read"} :
          /\ Goto(t, label, m)
          /\ label = "reset" <=> Cardinality(alive) > 0 /\ l.at > Cardinality(alive) - 1
    BY <1>7 DEF Compare, alive_size
  <2>2. m \in Local /\ m.n = l.n /\ m.k = l.k /\ m.idx = l.idx /\ m.others = l.others
    BY <1>3
  <2>3. pc[t] = "compare"
    BY <1>7, Zenon DEF Compare
  <2> HIDE DEF m, i, l
  <2>4. ASSUME calm[t]  PROVE Placed(label, m, alive, last, i)
    <3>1. Placed("compare", l, alive, last, i) /\ l.at = i /\ 0 < Cardinality(alive)
      <4>1. Placed("compare", l, alive, last, i) /\ l.n <= Cardinality(alive)
        BY <1>2, <2>3, <2>4, Zenon
      <4>2. l.at = i
        BY <4>1, PlacedAt, Zenon
      <4>3. l.idx < l.n
        BY <1>2, <2>3, Zenon
      <4>4. 0 < Cardinality(alive)
        BY <1>2, <4>1, <4>3, DueBelow, Zenon
      <4> QED
        BY <4>1, <4>2, <4>4, Zenon
    <3>2. /\ label = "reset" => Cardinality(alive) <= i
          /\ label = "read" => i < Cardinality(alive)
      BY <1>2, <2>1, <3>1
    <3> QED
      BY <2>2, <3>1, <3>2, Zenon DEF Placed
  <2>5. Busy(label, m, calm[t])
    BY <1>2, <1>4, <2>2, <2>3, Zenon DEF Busy
  <2> QED
    BY <1>1, <1>4, <2>1, <2>2, <2>4, <2>5, SilentTurn, Zenon DEF i
<1>8. CASE Read(t)
  <2> DEFINE m == At(i)
  <2>1. Goto(t, "bump", m) /\ pc[t] = "read"
    BY <1>8, Zenon DEF Read
  <2>2. m \in Local /\ m.at = i /\ m.n = l.n /\ m.k = l.k /\ m.idx = l.idx /\ m.others = l.others
    BY <1>2, <1>3
  <2> HIDE DEF m, i, l
  <2>3. calm[t] => Placed("bump", m, alive, last, i)
    BY <1>2, <2>1, <2>2, Zenon DEF Placed
  <2>4. Busy("bump", m, calm[t])
    BY <1>2, <1>4, <2>1, <2>2 DEF Busy
  <2> QED
    BY <1>1, <1>4, <2>1, <2>2, <2>3, <2>4, SilentTurn, Zenon DEF i
<1> QED
  BY <1>5, <1>6, <1>7, <1>8, Zenon

\* A selection begins where the last one left the index.
LEMMA CountInTurn ==
  ASSUME TypeOK, SelectionInv, TurnInv, NEW t \in Threads, Count(t)
  PROVE  TurnInv'
<1> DEFINE l == local[t]
           m == [l EXCEPT !.n = Minimum(l.k, alive_size), !.idx = 0, !.others = {}]
<1>1. l \in Local /\ l.k \in Nat
  BY Mine, LocalNumbers
<1>2. Cardinality(alive) \in Nat
  BY Sizes DEF TypeOK
<1>3. Minimum(l.k, alive_size) \in Nat
  BY <1>1, <1>2 DEF Minimum, alive_size
<1>4. m \in Local
  BY <1>1, <1>3, Zenon DEF Local
<1>5. /\ m.n = Minimum(m.k, Cardinality(alive)) /\ m.idx = 0 /\ m.others = {}
  BY <1>1 DEF Local, alive_size
<1>6. /\ Goto(t, "loop", m) /\ pc[t] = "count" /\ alive' = alive /\ last' = last
      /\ round_robin_index' = round_robin_index /\ inTurn' = inTurn
  BY DEF Count
<1>7. /\ calm'[t] = \A u \in Threads \ {t} : ~Selecting(u)
      /\ \A u \in Threads \ {t} : calm'[u] = calm[u]
  BY DEF Count, TypeOK
<1>8. "loop" \in Labels /\ "loop" \in Within /\ "loop" \notin {"get", "self"}
      /\ "count" \notin Within /\ "get" \in Within /\ "self" \in Within
  BY DEF Labels, Within
<1>9. ~Busy(pc[t], l, calm[t])
  BY <1>6, <1>8, Zenon DEF Busy
<1> HIDE DEF l, m
<1>10. ASSUME calm'[t]
       PROVE  /\ Placed("loop", m, alive, last, round_robin_index)
              /\ \A u \in Threads \ {t} : pc[u] \notin {"get", "self"}
  <2>1. \A u \in Threads \ {t} : pc[u] \notin Within
    BY <1>7, <1>10, Zenon DEF Selecting
  <2>2. last # None => NonePassed(alive, last, round_robin_index)
    BY <1>9, <2>1 DEF TurnInv, Busy, l
  <2>3. Cardinality(m.others) = m.idx
    BY <1>5, FS_EmptySet, Zenon
  <2> QED
    BY <1>5, <1>8, <2>1, <2>2, <2>3, Zenon DEF Placed
<1>11. ASSUME last # None, \A u \in Threads \ {t} : ~Busy(pc[u], local[u], calm'[u])
       PROVE  NonePassed(alive, last, round_robin_index)
  BY <1>7, <1>9, <1>11, Zenon DEF TurnInv, l
<1>12. inTurn' /\ (last' # None => last' \in alive' \ {Self})
  BY <1>6 DEF TurnInv
<1> QED
  BY <1>4, <1>6, <1>7, <1>8, <1>10, <1>11, <1>12, TurnJump, Zenon

\* If this server is alone in the table, there is nobody to take.
LEMMA SkipSelfInTurn ==
  ASSUME TypeOK, SelectionInv, TurnInv, NEW t \in Threads, SkipSelf(t)
  PROVE  TurnInv'
<1> DEFINE l == local[t]
           i == round_robin_index
<1>1. /\ pc[t] = "self" /\ pc[t] \in Within /\ Silent
      /\ Goto(t, IF Cardinality(alive) <= 1 THEN "chosen" ELSE "loop", l)
  BY Zenon DEF SkipSelf, Within, alive_size
<1>2. /\ alive \in SUBSET Servers /\ Cardinality(alive) \in Nat /\ i \in Nat
      /\ l \in Local /\ l.idx < l.n
      /\ calm[t] => /\ Placed("self", l, alive, last, i)
                    /\ l.others \subseteq alive \ {Self}
  BY <1>1, CalmTable
<1>3. /\ {"chosen", "loop"} \subseteq Labels \cap Within
      /\ {"chosen", "loop"} \cap {"get", "self"} = {}
  BY Zenon DEF Labels, Within
<1> HIDE DEF l, i
<1>4. CASE Cardinality(alive) <= 1
  <2>1. calm[t] => Placed("chosen", l, alive, last, i)
    <3> SUFFICES ASSUME calm[t] PROVE Placed("chosen", l, alive, last, i)
      BY Zenon
    <3>1. Self \in alive
      BY <1>2, Zenon DEF Placed
    <3>2. \A r \in alive : r = Self
      <4>1. \A r \in alive : Place(alive, r) \in Nat /\ Place(alive, r) < Cardinality(alive)
        BY <1>2, Places, Zenon
      <4>2. \A r \in alive : Place(alive, r) = 0
        BY <1>2, <1>4, <4>1
      <4> QED
        BY <1>2, <3>1, <4>2, PlaceOrder
    <3>3. l.others = alive \ {Self}
      BY <1>2, <3>2, Zenon
    <3> QED
      BY <1>2, <3>3 DEF Placed
  <2>2. last # None => NonePassed(alive, last, i)
    BY <1>2, <1>4, PassedAlone, Zenon DEF TurnInv
  <2> QED
    BY <1>1, <1>2, <1>3, <1>4, <2>1, <2>2, SilentTurn, ZenonT(60) DEF i
<1>5. CASE ~(Cardinality(alive) <= 1)
  <2>1. calm[t] => Placed("loop", l, alive, last, i)
    BY <1>2, Zenon DEF Placed
  <2>2. Busy("loop", l, calm[t])
    BY <1>2, <1>3 DEF Busy
  <2> QED
    BY <1>1, <1>2, <1>3, <1>5, <2>1, <2>2, SilentTurn, Zenon DEF i
<1> QED
  BY <1>4, <1>5

\* Who writes the index interferes with every other selection.
LEMMA WritesInTurn ==
  ASSUME TypeOK, SelectionInv, TurnInv, NEW t \in Threads, Reset(t) \/ Bump(t)
  PROVE  TurnInv'
<1> DEFINE l == local[t]
           i == round_robin_index
<1>1. pc[t] \in {"reset", "bump"} /\ pc[t] \in Within
  BY Zenon DEF Reset, Bump, Within
<1>2. /\ alive \in SUBSET Servers /\ Cardinality(alive) \in Nat /\ i \in Nat
      /\ l \in Local /\ l.idx \in Nat /\ l.n \in Nat /\ l.at \in Nat /\ l.idx < l.n
      /\ calm[t] => Placed(pc[t], l, alive, last, i) /\ l.n <= Cardinality(alive)
  BY <1>1, CalmTable, Zenon
<1>3. PICK value : WriteIndex(t, value)
  BY DEF Reset, Bump
<1>4. /\ alive' = alive /\ last' = last /\ inTurn' = inTurn /\ calm'[t] = calm[t]
      /\ \A u \in Threads \ {t} : ~(pc[u] \in Within /\ calm'[u])
  BY <1>3, Zenon DEF WriteIndex, Disturbs, Selecting, TypeOK
<1>5. inTurn' /\ (last' # None => last' \in alive' \ {Self})
  BY <1>4, Zenon DEF TurnInv
<1>6. calm[t] => \A u \in Threads \ {t} : pc[u] \notin {"get", "self"}
  BY <1>1 DEF TurnInv
<1>7. "read" \in Labels \cap Within /\ "get" \in Labels \cap Within
  BY Zenon DEF Labels, Within
<1>8. CASE Reset(t)
  <2>1. Goto(t, "read", l) /\ round_robin_index' = 0 /\ pc[t] = "reset"
    BY <1>8, Zenon DEF Reset, WriteIndex
  <2> HIDE DEF l, i
  <2>2. ASSUME calm[t]  PROVE Placed("read", l, alive, last, 0)
    <3>1. Placed("reset", l, alive, last, i) /\ 0 < Cardinality(alive)
      <4>1. l.n <= Cardinality(alive)
        BY <1>2, <2>2, Zenon
      <4> QED
        BY <1>2, <2>1, <2>2, <4>1, DueBelow, Zenon
    <3>2. Cardinality(alive) <= i /\ (last # None => NonePassed(alive, last, i))
      BY <3>1, PlacedAt, Zenon
    <3>3. last # None => NonePassed(alive, last, 0)
      BY <1>2, <3>1, <3>2, PassedReset, Zenon DEF TurnInv
    <3> QED
      BY <3>1, <3>3 DEF Placed
  <2>3. Busy("read", l, calm[t])
    BY <1>2, <1>7, Zenon DEF Busy
  <2> QED
    BY <1>2, <1>4, <1>5, <1>6, <1>7, <2>1, <2>2, <2>3, TurnJump, Zenon
<1>9. CASE Bump(t)
  <2>1. Goto(t, "get", l) /\ round_robin_index' = Minimum(l.at + 1, Past) /\ pc[t] = "bump"
    BY <1>9, Zenon DEF Bump, WriteIndex
  <2> HIDE DEF l, i
  <2>2. ASSUME calm[t]  PROVE Placed("get", l, alive, last, round_robin_index')
    <3>1. Placed("bump", l, alive, last, i) /\ l.at = i /\ i < Cardinality(alive)
      <4>1. Placed("bump", l, alive, last, i)
        BY <1>2, <2>1, <2>2, Zenon
      <4>2. l.at = i
        BY <4>1, PlacedAt, Zenon
      <4>3. i < Cardinality(alive)
        BY <4>1, PlacedAt, Zenon
      <4> QED
        BY <4>1, <4>2, <4>3, Zenon
    <3>2. Cardinality(alive) <= Past /\ Past \in Nat
      BY <1>2, TableBelowPast, Zenon
    <3>3. round_robin_index' = l.at + 1
      BY <1>2, <2>1, <3>1, <3>2, MinimumBelow, Zenon
    <3> QED
      BY <3>1, <3>3 DEF Placed
  <2>3. Busy("get", l, calm[t])
    BY <1>2, <1>7, Zenon DEF Busy
  <2> QED
    BY <1>2, <1>4, <1>5, <1>6, <1>7, <2>1, <2>2, <2>3, TurnJump, Zenon
<1> QED
  BY <1>8, <1>9

\* Taking the server at the place that was read: it follows the last one, and it is new
\* unless all are taken.
LEMMA TakePlaced ==
  ASSUME NEW table \in SUBSET Servers, NEW p, NEW i \in Nat, NEW l \in Local, NEW m \in Local,
         NEW s \in table \ {Self}, Placed("get", l, table, p, i),
         p # None => p \in table \ {Self},
         l.others \subseteq table \ {Self}, l.at \in Nat, Place(table, s) = l.at,
         m.n = l.n, m.k = l.k, m.idx = l.idx + 1, m.others = l.others \cup {s}
  PROVE  /\ Placed("loop", m, table, s, i)
         /\ \/ p = None
            \/ p < s /\ ~\E r \in table \ {Self} : p < r /\ r < s
            \/ s <= p /\ ~\E r \in table \ {Self} : r < s \/ p < r
<1> DEFINE others == table \ {Self}
<1>1. /\ Cardinality(table) \in Nat /\ l.at < Cardinality(table) /\ i = l.at + 1
      /\ p # None => NonePassed(table, p, l.at)
  BY Sizes, Zenon DEF Placed
<1>2. \/ p = None
      \/ p < s /\ ~\E r \in others : p < r /\ r < s
      \/ s <= p /\ ~\E r \in others : r < s \/ p < r
  <2>1. Place(table, s) = IF l.at >= Cardinality(table) THEN 0 ELSE l.at
    BY <1>1
  <2> QED
    BY <1>1, <2>1, NextFollows, Zenon
<1>3. NonePassed(table, s, i)
  BY <1>1, PassedAfter
<1>4. IsFiniteSet(l.others) /\ Cardinality(l.others) \in Nat
  BY Sizes, Zenon DEF Local
<1>5. /\ m.others = others \/ \E f \in m.others : m.others = Arc(table, f, s)
      /\ m.others = others \/ s \notin l.others
  <2>1. CASE l.others = others
    BY <2>1, Zenon
  <2>2. CASE l.others = {}
    <3>1. s \in Nat /\ \A r \in others : r \in Nat
      BY NeighboursAssumption, Zenon
    <3>2. \A r \in others : (IF s <= s THEN s <= r /\ r <= s ELSE s <= r \/ r <= s) <=> r = s
      BY <3>1
    <3>3. Arc(table, s, s) = {s}
      BY <3>2, Zenon DEF Arc
    <3> QED
      BY <2>2, <3>3
  <2>3. CASE l.others # {} /\ l.others # others
    <3>1. PICK f \in l.others : p \in l.others /\ l.others = Arc(table, f, p)
      BY <2>3, Zenon DEF Placed
    <3>2. p \in others /\ f \in others /\ p \in Servers
      BY <3>1
    <3>3. p # None
      BY <3>2, NeighboursAssumption, Zenon
    <3>4. s \notin Arc(table, f, p) /\ Arc(table, f, p) \cup {s} = Arc(table, f, s)
      <4>1. \/ p < s /\ ~\E r \in others : p < r /\ r < s
            \/ s <= p /\ ~\E r \in others : r < s \/ p < r
        BY <1>2, <3>3, Zenon
      <4>2. Arc(table, f, p) # others
        BY <2>3, <3>1, Zenon
      <4> QED
        BY <3>2, <4>1, <4>2, ArcGrows, Zenon
    <3> QED
      BY <3>1, <3>4, Zenon
  <2> QED
    BY <2>1, <2>2, <2>3, Zenon
<1>6. m.others = others \/ Cardinality(m.others) = m.idx
  <2>1. CASE s \notin l.others /\ l.others # others
    <3>1. Cardinality(l.others) = l.idx
      BY <2>1 DEF Placed
    <3>2. Cardinality(l.others \cup {s}) = Cardinality(l.others) + 1
      BY <1>4, <2>1, FS_AddElement, Zenon
    <3> QED
      BY <3>1, <3>2, Zenon
  <2>2. CASE l.others = others
    BY <2>2
  <2> QED
    BY <1>5, <2>1, <2>2, Zenon
<1> QED
  BY <1>2, <1>3, <1>5, <1>6, Zenon DEF Placed

\* The server that is taken.
LEMMA GetInTurn ==
  ASSUME TypeOK, SelectionInv, TurnInv, NEW t \in Threads, GetNeighborByIndex(t)
  PROVE  TurnInv'
<1> DEFINE q == local[t]
           l == [q EXCEPT !.at = 0]
           i == round_robin_index
           index == IF q.at >= Cardinality(alive) THEN 0 ELSE q.at
<1>1. pc[t] = "get" /\ pc[t] \in Within
  BY Zenon DEF GetNeighborByIndex, Within
<1>2. /\ alive \in SUBSET Servers /\ Cardinality(alive) \in Nat /\ i \in Nat
      /\ q \in Local /\ q.idx \in Nat /\ q.n \in Nat /\ q.at \in Nat /\ q.idx < q.n
      /\ calm[t] => /\ Placed("get", q, alive, last, i)
                    /\ q.others \subseteq alive \ {Self}
  BY <1>1, CalmTable
<1>3. /\ l \in Local /\ l.n = q.n /\ l.k = q.k /\ l.idx = q.idx /\ l.others = q.others
  BY <1>2, AtFields, ZenonT(30)
<1>4. \A u \in Threads \ {t} : ~(pc[u] \in Within /\ calm[u])
  BY <1>1 DEF TurnInv
<1>5. /\ {"self", "loop"} \subseteq Labels \cap Within
      /\ {"terminated", "idle"} \subseteq Labels \ Within
  BY DEF Labels, Within
<1>6. calm[t] => q.at < Cardinality(alive) /\ index = q.at
  BY <1>2, PlacedAt, NotWrapped, Zenon
<1>7. CASE alive = {} /\ Throw(t)
  <2>1. last = None
    BY <1>7, Zenon DEF TurnInv
  <2>2. NoLocal \in Local
    BY DEF NoLocal, Local
  <2>3. PICK label \in {"terminated", "idle"} : Goto(t, label, NoLocal) /\ Silent
    BY <1>7 DEF Throw
  <2>4. label \notin {"get", "self"}
    BY <2>3, Zenon
  <2> QED
    BY <1>5, <2>1, <2>2, <2>3, <2>4, SilentTurn, Zenon
<1>8. ASSUME Self \in alive, Place(alive, Self) = index, Goto(t, "self", l), Silent
      PROVE  TurnInv'
  <2> HIDE DEF l, i, index, q
  <2>1. ASSUME calm[t]  PROVE Placed("self", l, alive, last, i)
    <3>1. Place(alive, Self) = q.at /\ i = q.at + 1
      BY <1>2, <1>6, <1>8, <2>1, Zenon DEF Placed
    <3>2. last # None => NonePassed(alive, last, q.at)
      BY <1>2, <2>1, Zenon DEF Placed
    <3>3. last # None => NonePassed(alive, last, i)
      BY <1>2, <1>8, <3>1, <3>2, PassedSelf, Zenon DEF TurnInv
    <3> QED
      BY <1>2, <1>3, <1>8, <2>1, <3>3, Zenon DEF Placed
  <2>2. Busy("self", l, calm[t])
    BY <1>2, <1>3, <1>5 DEF Busy
  <2> QED
    BY <1>1, <1>3, <1>5, <1>8, <2>1, <2>2, SilentTurn, Zenon DEF i
<1>9. ASSUME NEW s \in alive, s # Self, Place(alive, s) = index,
             Goto(t, "loop", [l EXCEPT !.others = @ \cup {s}, !.idx = @ + 1]), Taken(t, s)
      PROVE  TurnInv'
  <2> HIDE DEF l, i, index, q
  <2> DEFINE m == [l EXCEPT !.others = @ \cup {s}, !.idx = @ + 1]
  <2>1. s \in Servers /\ s # None
    BY <1>2, NeighboursAssumption
  <2>2. /\ m \in Local /\ m.n = l.n /\ m.k = l.k
        /\ m.idx = l.idx + 1 /\ m.others = l.others \cup {s}
    <3>1. l.idx + 1 \in Nat
      BY <1>2, <1>3
    <3>2. l.others \cup {s} \in SUBSET Servers
      BY <1>3, <2>1 DEF Local
    <3> DEFINE d == [l EXCEPT !.others = l.others \cup {s}]
    <3>3. m = [d EXCEPT !.idx = l.idx + 1]
      OBVIOUS
    <3>4. d \in Local /\ d.n = l.n /\ d.k = l.k /\ d.others = l.others \cup {s}
      BY <1>3, <3>2 DEF Local
    <3> HIDE DEF d, m
    <3>5. m \in Local /\ m.n = d.n /\ m.k = d.k /\ m.idx = l.idx + 1 /\ m.others = d.others
      BY <3>1, <3>3, <3>4 DEF Local
    <3> QED
      BY <3>4, <3>5, Zenon
  <2>3. Goto(t, "loop", m)
    BY <1>9
  <2> HIDE DEF m
  <2>4. /\ alive' = alive /\ calm' = calm /\ round_robin_index' = i
        /\ last' = IF calm[t] THEN s ELSE None
        /\ inTurn' = (inTurn /\ (calm[t] => Follows(s)))
    BY <1>9 DEF Taken, i
  <2>5. ASSUME calm[t]  PROVE Placed("loop", m, alive, s, i) /\ Follows(s)
    <3>1. Place(alive, s) = q.at
      BY <1>6, <1>9, <2>5, Zenon
    <3>2. last # None => last \in alive \ {Self}
      BY DEF TurnInv
    <3>3. /\ Placed("loop", m, alive, s, i)
          /\ \/ last = None
             \/ last < s /\ ~\E r \in alive \ {Self} : last < r /\ r < s
             \/ s <= last /\ ~\E r \in alive \ {Self} : r < s \/ last < r
      BY <1>2, <1>3, <1>9, <2>2, <2>5, <3>1, <3>2, TakePlaced, ZenonT(60)
    <3> QED
      BY <3>3 DEF Follows
  <2>6. inTurn' /\ (last' # None => last' \in alive' \ {Self})
    BY <1>9, <2>4, <2>5, Zenon DEF TurnInv
  <2>7. calm[t] => \A u \in Threads \ {t} : pc[u] \notin {"get", "self"}
    BY <1>1, Zenon DEF TurnInv
  <2>8. calm'[t] => Busy("loop", m, calm'[t])
    BY <1>5, Zenon DEF Busy
  <2> QED
    BY <1>4, <1>5, <2>2, <2>3, <2>4, <2>5, <2>6, <2>7, <2>8, TurnJump,
       ZenonT(30)
<1> QED
  BY <1>7, <1>8, <1>9, Zenon DEF GetNeighborByIndex, Rank, Place, alive_size, l, index, q

\* Outside a selection there is no turn to keep.
LEMMA CallersInTurn ==
  ASSUME TypeOK, SelectionInv, TurnInv, NEW t \in Threads,
         SendReport(t) \/ GetRandomNeighbor(t) \/ Return(t)
  PROVE  TurnInv'
<1>1. /\ num_reports \in ReportCounts /\ local[t] \in Local
      /\ local[t].others \in SUBSET Servers /\ local[t].left \in SUBSET Servers
  BY DEF TypeOK, Local
<1>2. PICK label \in {"count", "pick", "contact", "idle", "terminated"}, l \in Local :
        Goto(t, label, l) /\ Silent
  <2>1. CASE SendReport(t)
    BY <1>1, <2>1, OutsideLocal, Zenon DEF SendReport
  <2>2. CASE GetRandomNeighbor(t)
    <3>1. \A other \in alive : {other} \in SUBSET Servers
      BY DEF TypeOK
    <3> QED
      BY <1>1, <2>2, <3>1, OutsideLocal, Zenon DEF GetRandomNeighbor, Throw
  <2>3. CASE Return(t)
    BY <1>1, <2>3, OutsideLocal, Zenon DEF Return
  <2> QED
    BY <2>1, <2>2, <2>3
<1>3. label \in Labels \ Within /\ label \notin {"get", "self"}
  BY <1>2, ZenonT(30) DEF Labels, Within
<1>4. ASSUME last # None, Busy(pc[t], local[t], calm[t])
      PROVE  NonePassed(alive, last, round_robin_index)
  <2>1. pc[t] = "chosen" /\ calm[t]
    BY <1>4, Zenon DEF Busy, SendReport, GetRandomNeighbor, Return, Within
  <2>2. Placed("chosen", local[t], alive, last, round_robin_index)
    BY <2>1, Zenon DEF TurnInv, Within
  <2> QED
    BY <1>4, <2>2, Zenon DEF Placed
<1> QED
  BY <1>2, <1>3, <1>4, SilentTurn, Zenon

\* A change of the table ends every turn.
LEMMA ContactInTurn ==
  ASSUME TypeOK, SelectionInv, TurnInv, NEW t \in Threads, Contact(t)
  PROVE  TurnInv'
<1>1. PICK label \in {"idle", "count", "contact"}, l \in Local, new \in SUBSET Servers :
        Goto(t, label, l) /\ ChangeAlive(t, new)
  BY ContactChanges
<1>2. /\ label \in Labels \ Within /\ label \notin {"get", "self"}
      /\ pc[t] = "contact" /\ pc[t] \notin Within
  BY <1>1, Zenon DEF Labels, Within, Contact
<1>3. round_robin_index' = round_robin_index /\ inTurn' = inTurn /\ alive' = new
  BY <1>1, Zenon DEF ChangeAlive
<1>4. CASE new = alive
  <2>1. calm' = calm /\ last' = last
    BY <1>1, <1>4, Zenon DEF ChangeAlive
  <2>2. inTurn' /\ (last' # None => last' \in alive' \ {Self})
    BY <1>3, <1>4, <2>1, Zenon DEF TurnInv
  <2>3. ASSUME last # None, \A u \in Threads \ {t} : ~Busy(pc[u], local[u], calm[u])
        PROVE  NonePassed(alive, last, round_robin_index)
    BY <1>2, <2>3, Zenon DEF TurnInv, Busy
  <2> QED
    BY <1>1, <1>2, <1>3, <1>4, <2>1, <2>2, <2>3, TurnJump, Zenon
<1>5. CASE new # alive
  <2>1. last' = None /\ \A u \in Threads \ {t} : ~(pc[u] \in Within /\ calm'[u])
    BY <1>1, <1>5, Zenon DEF ChangeAlive, Disturbs, Selecting
  <2>2. inTurn'
    BY <1>3, Zenon DEF TurnInv
  <2> QED
    BY <1>1, <1>2, <2>1, <2>2, TurnJump, Zenon
<1> QED
  BY <1>4, <1>5

\* The server loop changes the table.
LEMMA LoopInTurn ==
  ASSUME TypeOK, TurnInv, ServerLoop
  PROVE  TurnInv'
<1>1. PICK new : ChangeAlive(None, new) /\ new # alive
  <2>1. PICK s \in Servers : \/ s \notin alive /\ ChangeAlive(None, alive \cup {s})
                             \/ s \in alive /\ ChangeAlive(None, alive \ {s})
    BY Zenon DEF ServerLoop
  <2>2. /\ s \notin alive => alive \cup {s} # alive
        /\ s \in alive => alive \ {s} # alive
    OBVIOUS
  <2> QED
    BY <2>1, <2>2, Zenon
<1>2. None \notin Threads
  BY NeighboursAssumption DEF Threads
<1>3. last' = None /\ \A u \in Threads : ~(pc[u] \in Within /\ calm'[u])
  BY <1>1, <1>2, Zenon DEF ChangeAlive, Disturbs, Selecting
<1>4. pc' = pc /\ inTurn' = inTurn
  BY <1>1, ZenonT(60) DEF ServerLoop, ChangeAlive
<1> QED
  BY <1>3, <1>4, Zenon DEF TurnInv

\* Initially nobody selects, and none has been taken.
LEMMA InitInTurn ==
  ASSUME Init
  PROVE  TurnInv
<1>1. last = None /\ inTurn
  BY DEF Init
<1>2. \A t \in Threads : pc[t] = "idle"
  BY DEF Init
<1>3. "idle" \notin Within
  BY DEF Within
<1> QED
  BY <1>1, <1>2, <1>3, Zenon DEF TurnInv

\* Every selection that nobody interferes with goes round the table, from where the one
\* before it ended.
THEOREM TurnInvariant == Spec => [](TypeOK /\ SelectionInv /\ TurnInv)
<1>1. TypeOK /\ SelectionInv /\ TurnInv /\ [Next]_vars => TurnInv'
  <2> SUFFICES ASSUME TypeOK, SelectionInv, TurnInv, [Next]_vars PROVE TurnInv'
    OBVIOUS
  <2>1. CASE ServerLoop
    BY <2>1, LoopInTurn
  <2>2. ASSUME NEW t \in Threads, Step(t) PROVE TurnInv'
    BY <2>2, CountInTurn, ReadsInTurn, WritesInTurn, GetInTurn, SkipSelfInTurn, CallersInTurn,
       ContactInTurn, Zenon DEF Step
  <2>3. CASE UNCHANGED vars
    BY <2>3, Zenon DEF vars, TurnInv
  <2> QED
    BY <2>1, <2>2, <2>3 DEF Next
<1> QED
  BY <1>1, InitInTurn, SelectionInvariant, PTL DEF Spec

\* While alive_ does not change and one thread at a time selects, GetUniqueNeighbors
\* takes the neighbours strictly in turn, across its calls.
THEOREM InTurnTheorem == Spec => []InTurn
<1>1. TurnInv => InTurn
  BY DEF TurnInv, InTurn
<1> QED
  BY <1>1, TurnInvariant, PTL

\* GetUniqueNeighbors returns at most k servers; and, if nobody interfered, as many
\* neighbours as there are alive, or k of them, none of them this server.
THEOREM ChosenTheorem == Spec => []Chosen
<1>1. TypeOK /\ SelectionInv /\ TurnInv => Chosen
  <2> SUFFICES ASSUME TypeOK, SelectionInv, TurnInv, NEW t \in Threads, pc[t] = "chosen"
               PROVE  /\ Cardinality(local[t].others) <= local[t].k
                      /\ calm[t] =>
                           /\ local[t].others \subseteq alive \ {Self}
                           /\ Cardinality(local[t].others)
                                = Minimum(local[t].k, Cardinality(alive \ {Self}))
    BY Zenon DEF Chosen
  <2> DEFINE l == local[t]
             neighbours == alive \ {Self}
  <2>1. Sound("chosen", l, calm[t], alive) /\ l \in Local /\ "chosen" \in Within
    BY Mine DEF Within
  <2>2. l.k \in Nat /\ l.n \in Nat /\ l.idx \in Nat
    BY <2>1, LocalNumbers, Zenon
  <2>3. Cardinality(l.others) \in Nat
    BY <2>1, FS_CardinalityType, Zenon DEF Sound
  <2>4. Cardinality(l.others) <= l.idx /\ l.idx <= l.n /\ l.n <= l.k
    BY <2>1 DEF Sound
  <2>5. ASSUME calm[t]
        PROVE  l.others \subseteq neighbours /\ Cardinality(l.others)
                 = Minimum(l.k, Cardinality(neighbours))
    <3>1. l.others \subseteq neighbours
      BY <2>1, <2>5, Zenon DEF Sound
    <3>2. Placed("chosen", l, alive, last, round_robin_index)
      BY <2>1, <2>5 DEF TurnInv
    <3>3. /\ l.n = Minimum(l.k, Cardinality(alive))
          /\ l.others = neighbours \/ (Cardinality(l.others) = l.idx /\ l.idx = l.n)
      BY <3>2, Zenon DEF Placed
    <3>4. /\ alive \in SUBSET Servers
          /\ neighbours \in SUBSET Servers /\ neighbours \in SUBSET alive
      BY DEF TypeOK
    <3>5. /\ IsFiniteSet(alive) /\ Cardinality(alive) \in Nat
          /\ IsFiniteSet(neighbours) /\ Cardinality(neighbours) \in Nat
      BY <3>4, Sizes, Zenon
    <3>6. /\ Cardinality(neighbours) <= Cardinality(alive)
          /\ Cardinality(l.others) <= Cardinality(neighbours)
      BY <3>1, <3>4, <3>5, FS_Subset, Zenon
    <3>7. CASE l.others = neighbours
      <4>1. Cardinality(l.others) = Cardinality(neighbours)
        BY <3>7, Zenon
      <4> HIDE DEF l, neighbours
      <4> QED
        BY <2>2, <2>3, <2>4, <3>1, <4>1 DEF Minimum
    <3>8. CASE Cardinality(l.others) = l.n
      <4> HIDE DEF l, neighbours
      <4> QED
        BY <2>2, <2>3, <2>4, <3>1, <3>3, <3>5, <3>6, <3>8 DEF Minimum
    <3> QED
      BY <3>3, <3>7, <3>8, Zenon
  <2>6. Cardinality(l.others) <= l.k
    BY <2>2, <2>3, <2>4
  <2> QED
    BY <2>5, <2>6, Zenon
<1> QED
  BY <1>1, TurnInvariant, PTL
=============================================================================
