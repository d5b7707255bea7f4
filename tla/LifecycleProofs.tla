-------------------------- MODULE LifecycleProofs --------------------------
(* Proofs about Lifecycle, for any number of calls of start(), any number of *)
(* background threads and any sequence of the owner's calls.                 *)
EXTENDS Lifecycle, TLAPS

-----------------------------------------------------------------------------
(* The type invariant and the port: what holds for every owner.              *)

\* At most one call of start() has the port.
OneHolder ==
  \A i, j \in Starts : loop[i] \in Holding /\ loop[j] \in Holding => i = j

\* Initially nobody has the port and no background thread has been started.
LEMMA InitHolds == Init => TypeOK /\ OneHolder /\ Drained
BY LifecycleAssumption, Zenon
DEF Init, TypeOK, OneHolder, Drained, Holding, Looping, LoopLabels, WorkerLabels,
    OwnerLabels

\* A step of start() moves that call only.  It goes to a place that holds the
\* port only from one that does, or through a bind that found the port free.
LEMMA LoopEffect ==
  ASSUME TypeOK, NEW i \in Starts, LoopStep(i)
  PROVE  /\ \E label \in LoopLabels \ {"unborn", "starting"} :
              /\ loop' = [loop EXCEPT ![i] = label]
              /\ label \in Holding => loop[i] \in Holding \/ ~PortTaken(i)
              /\ label \in Looping /\ loop[i] \notin Looping => loop[i] = "bound"
              /\ label = "bound" => loop[i] = "starting"
         /\ loop[i] \notin {"unborn", "returned"}
         /\ stopped' \in BOOLEAN
         /\ loop[i] # "bound" => stopped' = stopped
         /\ aborted' \in {"no", "bind", "fatal"}
         /\ UNCHANGED <<worker, owner, restart, destroying, asked, hasty>>
<1> DEFINE Goal(label) ==
      /\ loop' = [loop EXCEPT ![i] = label]
      /\ label \in Holding => loop[i] \in Holding \/ ~PortTaken(i)
      /\ label \in Looping /\ loop[i] \notin Looping => loop[i] = "bound"
      /\ label = "bound" => loop[i] = "starting"
<1>1. CASE Bind(i)
  <2>1. CASE PortTaken(i)
    <3>1. Goal("returned")
      BY <1>1, <2>1 DEF Bind, LoopGoes, Holding, Looping
    <3> QED
      BY <1>1, <2>1, <3>1, Zenon DEF Bind, LoopGoes, LoopLabels, TypeOK
  <2>2. CASE ~PortTaken(i)
    <3>1. Goal("bound")
      BY <1>1, <2>2 DEF Bind, LoopGoes, Looping
    <3> QED
      BY <1>1, <2>2, <3>1, Zenon DEF Bind, LoopGoes, LoopLabels, Holding, TypeOK
  <2> QED BY <2>1, <2>2
<1>2. CASE EnterLoop(i)
  <2>1. Goal("testing")
    BY <1>2 DEF EnterLoop, LoopGoes, Holding
  <2> QED
    BY <1>2, <2>1, Zenon DEF EnterLoop, LoopGoes, LoopLabels, Holding, Looping, TypeOK
<1>3. CASE Test(i) \/ Poll(i) \/ Handle(i) \/ Close(i)
  <2>1. PICK label \in {"closing", "polling", "handling", "testing", "returned"} :
          LoopGoes(i, label)
    BY <1>3 DEF Test, Poll, Handle, Close
  <2>2. loop[i] \in Holding \ {"bound"}
    BY <1>3 DEF Test, Poll, Handle, Close, Holding, Looping
  <2>3. label \in Looping => loop[i] \in Looping
    BY <1>3, <2>1 DEF Test, Poll, Handle, Close, LoopGoes, Looping, TypeOK
  <2>4. Goal(label)
    BY <2>1, <2>2, <2>3 DEF LoopGoes
  <2> QED
    BY <1>3, <2>1, <2>2, <2>4, Zenon
    DEF Test, Poll, Handle, Close, LoopGoes, LoopLabels, Holding, Looping, TypeOK
<1> QED
  BY <1>1, <1>2, <1>3 DEF LoopStep

\* The steps of the owner that start no thread calling start().
OwnerMoves ==
  \/ InitAllBackgroundThreads \/ StopServer \/ StopAllBackgroundThreads
  \/ DestroyDetector \/ CheckRestarted \/ AwaitStopped \/ DestroyServer
  \/ LeaveDestructor

\* Every step is one of a loop, of a background thread, or of the owner.
LEMMA StepCases ==
  Next => \/ \E i \in Starts : LoopStep(i)
          \/ \E w \in Workers : WorkerStep(w)
          \/ OwnerMoves
          \/ Join
BY DEF Next, OwnerStep, OwnerMoves

\* A step of a background thread moves only an active one.
LEMMA WorkerEffect ==
  ASSUME TypeOK, NEW w \in Workers, WorkerStep(w)
  PROVE  /\ \E label \in WorkerLabels : worker' = [worker EXCEPT ![w] = label]
         /\ Active(w)
         /\ UNCHANGED <<stopped, loop, owner, restart, destroying, asked, hasty, aborted>>
BY DEF WorkerStep, WorkerTest, WorkerRound, WorkerGoes, WorkerLabels, Active, TypeOK

\* Join passes only when no background thread is left, and starts at most one
\* call of start().
LEMMA JoinEffect ==
  ASSUME Join
  PROVE  /\ owner = "joining"
         /\ \A w \in Workers : ~Active(w)
         /\ \/ /\ restart /\ owner' = "restarting"
               /\ \E i \in Starts : /\ loop[i] = "unborn"
                                    /\ loop' = [loop EXCEPT ![i] = "starting"]
            \/ /\ owner' \in {"members", "idle"}
               /\ loop' = loop
         /\ UNCHANGED <<stopped, worker, restart, destroying, asked, hasty, aborted>>
BY DEF Join, Restarts, AfterStopAll

\* Every step keeps the types, the port exclusive and the owner's promise that
\* no background thread is left.
LEMMA StepKeeps ==
  ASSUME TypeOK, OneHolder, Drained, [Next]_vars
  PROVE  (TypeOK /\ OneHolder /\ Drained)'
<1>1. CASE \E i \in Starts : LoopStep(i)
  <2>1. PICK i \in Starts : LoopStep(i)
    BY <1>1
  <2>2. PICK label \in LoopLabels \ {"unborn", "starting"} :
          /\ loop' = [loop EXCEPT ![i] = label]
          /\ label \in Holding => loop[i] \in Holding \/ ~PortTaken(i)
    BY <2>1, LoopEffect
  <2>3. /\ stopped' \in BOOLEAN /\ aborted' \in {"no", "bind", "fatal"}
        /\ UNCHANGED <<worker, owner, restart, destroying, asked, hasty>>
    BY <2>1, LoopEffect
  <2>4. TypeOK'
    BY <2>2, <2>3 DEF TypeOK
  <2>5. OneHolder'
    BY <2>2 DEF OneHolder, PortTaken, TypeOK
  <2>6. Drained'
    BY <2>3 DEF Drained, Active
  <2> QED BY <2>4, <2>5, <2>6
<1>2. CASE \E w \in Workers : WorkerStep(w)
  <2>1. PICK w \in Workers : WorkerStep(w)
    BY <1>2
  <2>2. PICK label \in WorkerLabels : worker' = [worker EXCEPT ![w] = label]
    BY <2>1, WorkerEffect
  <2>3. /\ Active(w)
        /\ UNCHANGED <<stopped, loop, owner, restart, destroying, asked, hasty, aborted>>
    BY <2>1, WorkerEffect
  <2> QED
    BY <2>2, <2>3 DEF TypeOK, OneHolder, Drained
<1>3. CASE OwnerMoves
  <2>1. OneHolder'
    BY <1>3
    DEF OwnerMoves, InitAllBackgroundThreads, StopServer, StopAllBackgroundThreads,
        DestroyDetector, CheckRestarted, AwaitStopped, DestroyServer, LeaveDestructor,
        OneHolder
  <2>2. TypeOK' /\ Drained'
    <3>1. CASE InitAllBackgroundThreads
      BY <3>1
      DEF InitAllBackgroundThreads, Calls, TypeOK, Drained, WorkerLabels
    <3>2. CASE \/ StopServer \/ StopAllBackgroundThreads \/ DestroyDetector
               \/ AwaitStopped \/ DestroyServer \/ LeaveDestructor
      BY <3>2, Zenon
      DEF StopServer, StopAllBackgroundThreads, DestroyDetector, AwaitStopped,
          DestroyServer, LeaveDestructor, Calls, Stop, Born, TypeOK, Drained, Active,
          OwnerLabels
    <3>3. CASE CheckRestarted
      BY <3>3 DEF CheckRestarted, AfterStopAll, TypeOK, Drained, Active, OwnerLabels
    <3> QED BY <1>3, <3>1, <3>2, <3>3 DEF OwnerMoves
  <2> QED BY <2>1, <2>2
<1>4. CASE Join
  <2>1. OneHolder'
    BY <1>4, JoinEffect DEF OneHolder, TypeOK, Holding, Looping
  <2>2. TypeOK'
    BY <1>4, JoinEffect DEF TypeOK, OwnerLabels, LoopLabels
  <2>3. Drained'
    BY <1>4, JoinEffect DEF Drained, Active
  <2> QED BY <2>1, <2>2, <2>3
<1>5. CASE UNCHANGED vars
  BY <1>5 DEF vars, TypeOK, OneHolder, Drained, Active
<1> QED
  BY <1>1, <1>2, <1>3, <1>4, <1>5, StepCases

\* Every reachable state has its types, one holder of the port, and no background
\* thread where Drained forbids it.
LEMMA Kept == Spec => [](TypeOK /\ OneHolder /\ Drained)
BY InitHolds, StepKeeps, PTL DEF Spec

\* Whatever the owner calls and whenever, two calls of start() are never in the
\* loop together, because stopped_ is cleared only after the bind.
THEOREM NeverTwoLoops == Spec => []OneLoop
<1>1. OneHolder => OneLoop
  BY DEF OneHolder, OneLoop, Holding
<1> QED BY <1>1, Kept, PTL

\* StopAllBackgroundThreads restarts the server, and the destructor destroys it,
\* only when every background thread has ended.
THEOREM AlwaysDrained == Spec => []Drained
BY Kept, PTL

-----------------------------------------------------------------------------
(* An owner that is not hasty: stop() is never lost.                         *)

\* A start() that stop() was called on finds stopped_ set.
Heard == owner # "gone" => \A i \in asked : loop[i] \in Looping => stopped

\* Heard is not inductive: a start() that has yet to clear stopped_ would
\* undo a stop().  So at most one call of start() is at that point, stop() has
\* not been called on it, and the owner is between calls or waiting in
\* StopAllBackgroundThreads for it to clear stopped_.
PatientInv ==
  /\ Heard
  /\ \A i \in asked : loop[i] \notin Pending \cup {"unborn"}
  /\ StartPending => owner \in {"idle", "restarting"}
  /\ StartPending /\ owner = "restarting" => stopped
  /\ owner = "joining" /\ restart => stopped
  /\ \A i, j \in Starts : loop[i] \in Pending /\ loop[j] \in Pending => i = j

\* A step of start() keeps PatientInv: clearing stopped_ needs the port, so no
\* earlier call of start() is still in its loop.
LEMMA PatientLoop ==
  ASSUME TypeOK, OneHolder, PatientInv, NEW i \in Starts, LoopStep(i)
  PROVE  PatientInv'
<1>1. PICK label \in LoopLabels \ {"unborn", "starting"} :
        /\ loop' = [loop EXCEPT ![i] = label]
        /\ label \in Looping /\ loop[i] \notin Looping => loop[i] = "bound"
        /\ label = "bound" => loop[i] = "starting"
  BY LoopEffect
<1>2. /\ loop[i] \notin {"unborn", "returned"}
      /\ loop[i] # "bound" => stopped' = stopped
      /\ UNCHANGED <<worker, owner, restart, destroying, asked, hasty>>
  BY LoopEffect
<1>3. \A j \in Starts : loop'[j] = IF j = i THEN label ELSE loop[j]
  BY <1>1 DEF TypeOK
<1>4. \A j \in Starts : loop'[j] \in Pending => loop[j] \in Pending
  BY <1>1, <1>3 DEF Pending
<1>5. StartPending' => StartPending
  BY <1>4 DEF StartPending
<1>6. /\ \A j, k \in Starts : loop'[j] \in Pending /\ loop'[k] \in Pending => j = k
      /\ StartPending' => owner' \in {"idle", "restarting"}
  BY <1>2, <1>4, <1>5 DEF PatientInv
<1>7. \A j \in asked' : loop'[j] \notin Pending \cup {"unborn"}
  BY <1>1, <1>2, <1>3, <1>4 DEF PatientInv, TypeOK
<1>8. CASE loop[i] = "bound"
  <2>1. StartPending
    BY <1>8 DEF StartPending, Pending
  <2>2. label \notin Pending
    BY <1>1, <1>8 DEF Pending
  <2>3. ~StartPending'
    BY <1>3, <1>8, <2>2 DEF StartPending, PatientInv, Pending
  <2>4. \A j \in asked : loop'[j] \notin Looping
    <3>1. SUFFICES ASSUME NEW j \in asked, loop'[j] \in Looping
                   PROVE  FALSE
      OBVIOUS
    <3>2. j # i
      BY <1>8 DEF PatientInv, Pending
    <3>3. loop[j] \in Holding /\ loop[i] \in Holding
      BY <1>3, <1>8, <3>1, <3>2 DEF Holding, TypeOK
    <3> QED
      BY <3>2, <3>3 DEF OneHolder, TypeOK
  <2> QED
    BY <1>2, <1>6, <1>7, <2>1, <2>3, <2>4 DEF PatientInv, Heard
<1>9. CASE loop[i] # "bound"
  <2>1. \A j \in asked : loop'[j] \in Looping => loop[j] \in Looping
    BY <1>1, <1>3, <1>9 DEF TypeOK
  <2> QED
    BY <1>2, <1>5, <1>6, <1>7, <1>9, <2>1 DEF PatientInv, Heard
<1> QED BY <1>8, <1>9

\* A step of the owner keeps PatientInv: an owner that is not hasty calls stop()
\* only when no start() has yet to clear stopped_.
LEMMA PatientOwner ==
  ASSUME TypeOK, PatientInv, OwnerMoves, ~hasty'
  PROVE  PatientInv'
<1>1. UNCHANGED loop /\ (StartPending' <=> StartPending)
  BY DEF OwnerMoves, InitAllBackgroundThreads, StopServer, StopAllBackgroundThreads,
         DestroyDetector, CheckRestarted, AwaitStopped, DestroyServer,
         LeaveDestructor, StartPending
<1>2. ASSUME Stop, ~StartPending, owner' # "restarting" PROVE PatientInv'
  BY <1>1, <1>2 DEF Stop, Born, StartPending, PatientInv, Heard
<1>3. CASE InitAllBackgroundThreads
  BY <1>1, <1>3 DEF InitAllBackgroundThreads, PatientInv, Heard
<1>4. CASE StopServer
  BY <1>2, <1>4, Zenon DEF StopServer, Calls
<1>5. CASE StopAllBackgroundThreads
  <2>1. ~StartPending /\ owner # "gone"
    BY <1>5, Zenon DEF StopAllBackgroundThreads, Calls, PatientInv
  <2>2. CASE stopped
    BY <1>1, <1>5, <2>1, <2>2 DEF StopAllBackgroundThreads, PatientInv, Heard
  <2>3. CASE ~stopped
    BY <1>2, <1>5, <2>1, <2>3 DEF StopAllBackgroundThreads
  <2> QED BY <2>2, <2>3
<1>6. CASE DestroyDetector
  <2>1. ~StartPending /\ owner # "gone"
    BY <1>6, Zenon DEF DestroyDetector, Calls
  <2>2. CASE stopped
    BY <1>1, <1>6, <2>1, <2>2 DEF DestroyDetector, PatientInv, Heard
  <2>3. CASE ~stopped
    BY <1>2, <1>6, <2>1, <2>3 DEF DestroyDetector
  <2> QED BY <2>2, <2>3
<1>7. CASE CheckRestarted
  BY <1>1, <1>7 DEF CheckRestarted, AfterStopAll, PatientInv, Heard
<1>8. CASE AwaitStopped \/ LeaveDestructor
  BY <1>1, <1>8 DEF AwaitStopped, LeaveDestructor, PatientInv, Heard
<1>9. CASE DestroyServer
  BY <1>2, <1>9 DEF DestroyServer, PatientInv
<1> QED
  BY <1>3, <1>4, <1>5, <1>6, <1>7, <1>8, <1>9 DEF OwnerMoves

\* Every step keeps PatientInv.
LEMMA PatientStep ==
  ASSUME TypeOK, OneHolder, PatientInv, [Next]_vars, ~hasty'
  PROVE  PatientInv'
<1>1. CASE \E w \in Workers : WorkerStep(w)
  BY <1>1, WorkerEffect DEF PatientInv, Heard, StartPending
<1>2. CASE Join
  <2>1. ~StartPending
    BY <1>2, JoinEffect DEF PatientInv
  <2>2. CASE loop' = loop /\ owner' \in {"members", "idle"}
    BY <1>2, <2>1, <2>2, JoinEffect DEF PatientInv, Heard, StartPending
  <2>3. CASE restart /\ owner' = "restarting"
    <3>1. PICK i \in Starts : /\ loop[i] = "unborn"
                              /\ loop' = [loop EXCEPT ![i] = "starting"]
      BY <1>2, <2>3, JoinEffect
    <3>2. stopped' /\ i \notin asked /\ asked' = asked
      BY <1>2, <2>3, <3>1, JoinEffect DEF PatientInv
    <3>3. \A j \in Starts : loop'[j] \in Pending => j = i
      BY <2>1, <3>1 DEF StartPending, TypeOK
    <3>4. \A j \in asked : loop'[j] = loop[j]
      BY <3>1, <3>2 DEF TypeOK
    <3> QED
      BY <2>3, <3>2, <3>3, <3>4 DEF PatientInv, Heard, StartPending
  <2> QED BY <1>2, <2>2, <2>3, JoinEffect
<1>3. CASE UNCHANGED vars
  BY <1>3 DEF vars, PatientInv, Heard, StartPending
<1> QED
  BY <1>1, <1>2, <1>3, PatientLoop, PatientOwner, StepCases

\* Once hasty, an owner stays so.
LEMMA HastyForGood == ASSUME TypeOK, hasty, [Next]_vars PROVE hasty'
<1>1. CASE OwnerMoves
  BY <1>1, Zenon
  DEF OwnerMoves, InitAllBackgroundThreads, StopServer, StopAllBackgroundThreads,
      DestroyDetector, CheckRestarted, AwaitStopped, DestroyServer, LeaveDestructor,
      Calls
<1>2. CASE UNCHANGED vars
  BY <1>2 DEF vars
<1> QED
  BY <1>1, <1>2, LoopEffect, WorkerEffect, JoinEffect, StepCases, Zenon

\* If the owner waits for isRunning() before its calls, no stop() is undone by a
\* later write of stopped_, through any number of restarts.
THEOREM StopsHeard == Spec => []StopHeard
<1>1. Init => hasty \/ PatientInv
  BY LifecycleAssumption DEF Init, PatientInv, Heard, StartPending, Pending
<1>2. TypeOK /\ OneHolder /\ (hasty \/ PatientInv) /\ [Next]_vars
        => (hasty \/ PatientInv)'
  BY PatientStep, HastyForGood
<1>3. hasty \/ PatientInv => StopHeard
  BY DEF PatientInv, Heard, StopHeard
<1> QED BY <1>1, <1>2, <1>3, Kept, PTL DEF Spec

=============================================================================
