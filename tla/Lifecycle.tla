----------------------------- MODULE Lifecycle -----------------------------
(* Starting, stopping and destroying a GossipFailureDetector and the         *)
(* SwimServer inside it.  The detector's owner is one thread.  Every call of *)
(* SwimServer::start() runs in a detached thread of its own, and the         *)
(* background threads run for as long as isRunning().  All of them           *)
(* communicate through the atomic stopped_ and the server's port.            *)
(*                                                                           *)
(* A sleep promises nothing about how far other threads get meanwhile, so    *)
(* sleeps are not represented.  What the threads do to the membership tables *)
(* is in SwimServer.                                                         *)
EXTENDS Naturals

CONSTANTS
  Starts,      \* the calls of start() a behaviour may make
  First,       \* the one the detector's constructor makes
  Rounds,      \* the loops that InitAllBackgroundThreads starts
  MaxInits     \* bound on the calls of InitAllBackgroundThreads

ASSUME LifecycleAssumption ==
  /\ First \in Starts
  /\ MaxInits \in Nat

VARIABLES
  stopped,     \* stopped_
  loop,        \* where each call of start() is
  worker,      \* where each background thread is
  owner,       \* where the owner is
  restart,     \* server_was_stopped of StopAllBackgroundThreads
  destroying,  \* is the owner in the detector's destructor?
  asked,       \* history: the calls of start() that stop() has been called on
  hasty,       \* history: has the owner made a call before isRunning()?
  aborted      \* what ended the process: "no", "bind" or "fatal"

vars == <<stopped, loop, worker, owner, restart, destroying, asked, hasty, aborted>>

Workers == Rounds \X (1 .. MaxInits)

Pending == {"starting", "bound"}               \* has not cleared stopped_ yet
Looping == {"testing", "polling", "handling"}  \* inside the while loop
Holding == {"bound", "closing"} \cup Looping   \* the socket has the port
LoopLabels == {"unborn", "starting", "returned"} \cup Holding

WorkerLabels == {"unborn", "testing", "round", "returned"}
OwnerLabels == {"idle", "joining", "restarting", "waiting", "stop_all",
                "members", "leaving", "gone"}

Running == aborted = "no"
Born == {i \in Starts : loop[i] # "unborn"}
Active(w) == worker[w] \in {"testing", "round"}
StartPending == \E i \in Starts : loop[i] \in Pending

\* What reading stopped_ may give: anything once the server has been destroyed.
Seen == IF owner = "gone" THEN BOOLEAN ELSE {stopped}

\* The constructor has started a thread that calls start().
Init ==
  /\ stopped = TRUE
  /\ loop = [i \in Starts |-> IF i = First THEN "starting" ELSE "unborn"]
  /\ worker = [w \in Workers |-> "unborn"]
  /\ owner = "idle"
  /\ restart = FALSE
  /\ destroying = FALSE
  /\ asked = {}
  /\ hasty = FALSE
  /\ aborted = "no"

-----------------------------------------------------------------------------
(* SwimServer::start().  (Its early return on a null socket cannot happen:   *)
(* the socket's constructor throws first.)                                   *)

LoopGoes(i, label) ==
  /\ Running
  /\ loop' = [loop EXCEPT ![i] = label]
  /\ UNCHANGED <<worker, owner, restart, destroying, asked, hasty>>

PortTaken(i) == \E j \in Starts \ {i} : loop[j] \in Holding

MutantSharesPort(i) ==
  /\ loop[i] = "starting"
  /\ LoopGoes(i, "bound")
  /\ UNCHANGED <<stopped, aborted>>

MutantClearsFirst(i) ==
  /\ loop[i] = "starting"
  /\ LoopGoes(i, IF PortTaken(i) THEN "returned" ELSE "bound")
  /\ aborted' = IF PortTaken(i) THEN "bind" ELSE "no"
  /\ stopped' = FALSE

\* bind throws when the port is taken; nothing catches it, so the process ends.
Bind(i) ==
  /\ loop[i] = "starting"
  /\ LoopGoes(i, IF PortTaken(i) THEN "returned" ELSE "bound")
  /\ aborted' = IF PortTaken(i) THEN "bind" ELSE "no"
  /\ UNCHANGED stopped

EnterLoop(i) ==
  /\ loop[i] = "bound"
  /\ LoopGoes(i, "testing")
  /\ stopped' = (owner = "gone" /\ stopped)
  /\ UNCHANGED aborted

\* The condition of the while loop.
Test(i) ==
  /\ loop[i] = "testing"
  /\ \E s \in Seen : LoopGoes(i, IF s THEN "closing" ELSE "polling")
  /\ UNCHANGED <<stopped, aborted>>

\* poll() returns, with or without a message, and stopped_ is read again.
Poll(i) ==
  /\ loop[i] = "polling"
  /\ \E s \in Seen : \E label \in IF s THEN {"closing"} ELSE {"handling", "testing"} :
       LoopGoes(i, label)
  /\ UNCHANGED <<stopped, aborted>>

Handle(i) ==
  /\ loop[i] = "handling"
  /\ LoopGoes(i, "testing")
  /\ UNCHANGED <<stopped, aborted>>

\* The socket is closed and the port is free again.
Close(i) ==
  /\ loop[i] = "closing"
  /\ LoopGoes(i, "returned")
  /\ UNCHANGED <<stopped, aborted>>

LoopStep(i) == Bind(i) \/ EnterLoop(i) \/ Test(i) \/ Poll(i) \/ Handle(i) \/ Close(i)

-----------------------------------------------------------------------------
(* A background thread: while (isRunning()) { a round; sleep; }              *)

WorkerGoes(w, label) ==
  /\ Running
  /\ worker' = [worker EXCEPT ![w] = label]
  /\ UNCHANGED <<stopped, loop, owner, restart, destroying, asked, hasty, aborted>>

WorkerTest(w) ==
  /\ worker[w] = "testing"
  /\ \E s \in Seen : WorkerGoes(w, IF s THEN "returned" ELSE "round")

WorkerRound(w) == worker[w] = "round" /\ WorkerGoes(w, "testing")

WorkerStep(w) == WorkerTest(w) \/ WorkerRound(w)

-----------------------------------------------------------------------------
(* The owner's calls.                                                        *)

\* InitAllBackgroundThreads is documented for use "once the server
\* isRunning()".  An owner is hasty if it makes a call before that, when a
\* start() has yet to clear stopped_.
Calls ==
  /\ Running
  /\ owner = "idle"
  /\ hasty' = (hasty \/ StartPending)

Stop == stopped' = TRUE /\ asked' = asked \cup Born

\* Returns at once when the server is not running.
InitAllBackgroundThreads ==
  /\ Calls
  /\ ~stopped
  /\ \E n \in 1 .. MaxInits :
       /\ \A r \in Rounds : worker[<<r, n>>] = "unborn"
       /\ worker' = [w \in Workers |-> IF w[2] = n THEN "testing" ELSE worker[w]]
  /\ UNCHANGED <<stopped, loop, owner, restart, destroying, asked, aborted>>

\* SwimServer::stop(), which an application may call on the server itself.
StopServer ==
  /\ Calls
  /\ Stop
  /\ UNCHANGED <<loop, worker, owner, restart, destroying, aborted>>

\* Two calls of start() are left: for this restart and for the destructor's.
StartsLeft == \E i, j \in Starts : i # j /\ {loop[i], loop[j]} = {"unborn"}

MutantKeepsRunning ==
  /\ \/ Calls /\ StartsLeft
     \/ Running /\ owner = "stop_all" /\ UNCHANGED hasty
  /\ owner' = "joining"
  /\ restart' = ~stopped
  /\ UNCHANGED <<stopped, asked, loop, worker, destroying, aborted>>

\* Called by the application or by the detector's destructor.
StopAllBackgroundThreads ==
  /\ \/ Calls /\ StartsLeft
     \/ Running /\ owner = "stop_all" /\ UNCHANGED hasty
  /\ owner' = "joining"
  /\ restart' = ~stopped
  /\ IF stopped THEN UNCHANGED <<stopped, asked>> ELSE Stop
  /\ UNCHANGED <<loop, worker, destroying, aborted>>

AfterStopAll == IF destroying THEN "members" ELSE "idle"

\* A thread that calls start() is started if the server was running.
Restarts ==
  \/ /\ restart
     /\ \E i \in Starts : /\ loop[i] = "unborn"
                          /\ loop' = [loop EXCEPT ![i] = "starting"]
     /\ owner' = "restarting"
  \/ ~restart /\ owner' = AfterStopAll /\ UNCHANGED loop

MutantJoinsLastInit ==
  /\ Running
  /\ owner = "joining"
  /\ \A r \in Rounds : ~Active(<<r, MaxInits>>)
  /\ Restarts
  /\ UNCHANGED <<stopped, worker, restart, destroying, asked, aborted, hasty>>

\* StopAllBackgroundThreads joins every thread, then restarts the server ...
Join ==
  /\ Running
  /\ owner = "joining"
  /\ \A w \in Workers : ~Active(w)
  /\ Restarts
  /\ UNCHANGED <<stopped, worker, restart, destroying, asked, aborted, hasty>>

\* ... and aborts the process if the server is not running 100 ms later.
CheckRestarted ==
  /\ Running
  /\ owner = "restarting"
  /\ IF stopped THEN aborted' = "fatal" /\ UNCHANGED owner
                ELSE owner' = AfterStopAll /\ UNCHANGED aborted
  /\ UNCHANGED <<stopped, loop, worker, restart, destroying, asked, hasty>>

\* ~GossipFailureDetector stops a running server ...
DestroyDetector ==
  /\ Calls
  /\ destroying' = TRUE
  /\ IF stopped THEN owner' = "stop_all" /\ UNCHANGED <<stopped, asked>>
                ELSE owner' = "waiting" /\ Stop
  /\ UNCHANGED <<loop, worker, restart, aborted>>

\* ... waits for it and calls StopAllBackgroundThreads.
AwaitStopped ==
  /\ Running
  /\ owner = "waiting"
  /\ IF stopped THEN owner' = "stop_all" /\ UNCHANGED aborted
                ELSE aborted' = "fatal" /\ UNCHANGED owner
  /\ UNCHANGED <<stopped, loop, worker, restart, destroying, asked, hasty>>

\* The members are destroyed; ~SwimServer stops the server ...
DestroyServer ==
  /\ Running
  /\ owner = "members"
  /\ Stop
  /\ owner' = "leaving"
  /\ UNCHANGED <<loop, worker, restart, destroying, aborted, hasty>>

\* ... and waits for at most five polling intervals.
LeaveDestructor ==
  /\ Running
  /\ owner = "leaving"
  /\ owner' = "gone"
  /\ UNCHANGED <<stopped, loop, worker, restart, destroying, asked, aborted, hasty>>

\* The steps of a call the owner is in.
OwnerStep ==
  \/ owner = "stop_all" /\ StopAllBackgroundThreads
  \/ Join \/ CheckRestarted \/ AwaitStopped \/ DestroyServer \/ LeaveDestructor

Next ==
  \/ \E i \in Starts : LoopStep(i)
  \/ \E w \in Workers : WorkerStep(w)
  \/ InitAllBackgroundThreads \/ StopServer \/ StopAllBackgroundThreads
  \/ DestroyDetector
  \/ OwnerStep

Spec == Init /\ [][Next]_vars

\* Threads inside a function go on: poll, the rounds and the sleeps are bounded.
FairSpec ==
  /\ Spec
  /\ \A i \in Starts : WF_vars(LoopStep(i))
  /\ \A w \in Workers : WF_vars(WorkerStep(w))
  /\ WF_vars(OwnerStep)

-----------------------------------------------------------------------------
(* Properties.                                                               *)

\* The values of stopped_, of the history and of every thread's place.
TypeOK ==
  /\ stopped \in BOOLEAN
  /\ loop \in [Starts -> LoopLabels]
  /\ worker \in [Workers -> WorkerLabels]
  /\ owner \in OwnerLabels
  /\ restart \in BOOLEAN /\ destroying \in BOOLEAN
  /\ asked \subseteq Starts /\ hasty \in BOOLEAN
  /\ aborted \in {"no", "bind", "fatal"}

\* However often the server is stopped and restarted, two calls of start()
\* never handle messages at the same time: SwimServer's handlers run one by one.
OneLoop ==
  \A i, j \in Starts : loop[i] \in Looping /\ loop[j] \in Looping => i = j

\* No background thread is left when StopAllBackgroundThreads restarts the
\* server or the detector's members are destroyed, whatever was called before.
Drained ==
  owner \in {"restarting", "members", "leaving", "gone"} =>
    \A w \in Workers : ~Active(w)

\* If the owner was never hasty, a start() that stop() was called on still finds
\* stopped_ set while it is in its loop: neither a restart nor its own beginning
\* takes the request back.
StopHeard ==
  ~hasty /\ owner # "gone" => \A i \in asked : loop[i] \in Looping => stopped

\* The joins of StopAllBackgroundThreads come to an end.
DrainTerminates == (owner = "joining") ~> (owner # "joining" \/ ~Running)

\* If the owner is never hasty, a start() that stop() was called on returns,
\* unless the process ends or the server is destroyed under it.
StopEnds ==
  \A i \in Starts :
    (i \in asked) ~> (loop[i] = "returned" \/ hasty \/ owner = "gone" \/ ~Running)

\* The restart of StopAllBackgroundThreads finds the port free.
BindSucceeds == aborted # "bind"

\* The destructors return after the server's loop has ended, even if the owner
\* was never hasty.
LoopEndsFirst ==
  ~hasty /\ owner = "gone" => \A i \in Starts : loop[i] \in {"unborn", "returned"}

=============================================================================
