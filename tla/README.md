# A TLA+ model of the SWIM gossip failure detector

This directory models the program in `src/`: a C++ implementation of a
SWIM-style failure detector, its REST API and the HTTP client of its tests. TLC
checks the models on small instances, and TLAPS proves the central properties
for every instance.

## The system

| part | source | module |
|---|---|---|
| membership tables and Lamport clock | `src/swim/SwimServer.cpp`, `SwimServer.hpp`, `SwimCommon.hpp` | `SwimServer` |
| message handlers of the server loop | `SwimServer.cpp` | `SwimServer` |
| report preparation | `SwimServer.cpp` | `ReportBudget`, `ReportSelection` |
| eviction, probing, `AddNeighbor` | `src/swim/GossipFailureDetector.cpp` | `SwimServer`, `Cluster` |
| neighbour selection | `GossipFailureDetector.cpp`, `SwimServer.cpp` | `Neighbours` |
| request/reply client, and several detectors together | `src/swim/SwimClient.cpp` | `Cluster` |
| start, stop, restart, destruction | `SwimServer.cpp`, `GossipFailureDetector.cpp` | `Lifecycle` |
| what an application is promised | header comments | `Membership` |
| REST API and the program that offers it | `src/api/rest/ApiServer.cpp`, `examples/gossip_example.cpp` | `ApiServer` |
| HTTP client | `include/request/SimpleHttpRequest.hpp` | `HttpRequest` |
| a REST call from end to end | | `Rest` |

A `SwimServer` keeps two tables of records keyed by host name and port:
`alive_` and `suspected_`. Each has its own mutex and no code holds both. One
thread runs the loop in `start()`: it receives a message, raises the Lamport
clock, and runs one handler to its end.

- `OnUpdate` handles a ping.
- `OnReport` handles gossip about other servers.
- `OnForwardRequest` records the sender as alive, then starts a detached thread
  that contacts a third server.

Around it a `GossipFailureDetector` runs four threads. Two send reports, one
pings a random suspect and one evicts expired suspects. All of them, and the
application through `AddNeighbor`, change the tables through `AddAlive`,
`ReportSuspected` and `RemoveSuspected`.

Detectors talk through `SwimClient`: one request on a socket of its own, one
answer, 25 ms. A detector whose report is not answered suspects the other one
and asks neighbours to contact it; they send it a report of the suspicion, and
it pings whoever suspects it. An `ApiServer` in the same process offers the
report and `AddNeighbor` over HTTP.

## Modules

**`ReportBudget`** is `AddRecordsToBudget` as an operator. Records are taken in
order of decreasing Lamport time until their accumulated cost exceeds the
budget. `std::sort` is not stable, so the result is the *set* of selections
the code may make. Costs are scaled by 100 to stay in the integers. Only on a
sum of exactly the budget may the code's doubles differ. **`ReportSelection`**
says what a report should hold without sorting or looping. `MCSwimServer`
compares the two on both tables of the server, in every state it reaches.

**`SwimServer`** is one server and every thread that calls into it.

- `alive` and `suspected` map each server to its record or to `Absent`.
- `now` is `utils::CurrentTime()` in ticks of `TickMsec` milliseconds.
- `lamport_time` is `lamport_time_`.
- `forwards` holds the destinations of detached forwarding threads.
- `told` is the last status callback made about each server.
- `pc[t]` and `call[t]` are the program counter and locals of thread `t`.

Each critical section, each separate read of `lamport_time_` and each callback
is one action. `AddAlive` and `ReportSuspected` are sub-routines that go on at
`call[t].ret`, because five different callers use them. The constant `Overlap`
says whether calls of different threads may interleave.

| `Overlap` | meaning |
|---|---|
| `TRUE` | the program as it is: any interleaving of critical sections |
| `FALSE` | each call runs to its end before the next begins: what the code does when no two calls race |

Messages are members of `Messages`, and `Content` gives their envelopes. A
worker's ping or report may succeed or fail for any server at any time. That
covers every choice of neighbour and every outcome `SwimClient` can produce.

**`Membership`** is the abstract promise: a server is unknown, alive or
suspected, an alive one never just disappears, and each change is announced
before the next one. **`SwimServerRefinement`** gives the mapping: a server
changes status when the first of its two tables changes.

**`Lifecycle`** is a detector from construction to destruction. Its owner is
one thread. Each call of `start()` is a thread with a place in `loop`, and each
background thread has a place in `worker`. They share `stopped`, the atomic
`stopped_`, and the port, which a call of `start()` holds from its bind to its
return. The four background loops differ only in what they do in a round, which
is `SwimServer`'s business. A sleep promises nothing about other threads, so
sleeps are left out: the model allows every order the scheduler might produce.
Reading `stopped_` after the server has been destroyed gives any value. Two
history variables serve the properties. `asked` holds the calls of `start()`
that a `stop()` was meant for. `hasty` says that the owner made a call before
`isRunning()`. The header asks to wait for it before `InitAllBackgroundThreads`,
and the example and the tests do.

`SwimServer` has one loop thread. `Lifecycle`'s `OneLoop` justifies that.

**`Neighbours`** is `GetUniqueNeighbors` and the queries it makes of the server,
called by the two threads that send reports while `alive_` changes. Servers are
numbers, in the order of `operator<`. `alive_` is read under its mutex, each
time anew. `round_robin_index_` is an unsynchronised member, so that its reads
and writes are steps of their own. An index past the end of every table acts
like any other, so those are one value, `Past`. `num_reports_` and
`num_forwards_` have any value from the start: they are initialised from
members that are declared, and so initialised, after them. The history
variables `calm`, `emptied`, `last` and `inTurn` say whether a thread's selection
has been interfered with, whether others have removed the last server from
`alive_` since a full report's selection read its size, who was taken last, and
whether the order was kept.

**`Cluster`** is several detectors. `table[n][m]` is what node `n` takes server
`m` to be. `call[n][t]` is the `SwimClient` of thread `t`: the loop, a detached
forwarding thread, or `gossip`, which stands for the background threads and
begins one round at a time. `inbox[n]` holds the requests on their way to `n`,
and `serving[n]` the report during whose handling its loop pings back. A
request says whether its answer is still awaited: the socket is closed with the
call. `AddAlive` and `ReportSuspected` are single steps here, because
`SwimServer` takes them apart. Lamport times are left out: a record that
contradicts a table may or may not be stale, and is judged when its turn comes,
after the ping back if it follows that. A neighbour that does not take the report
is suspected in one step (`Contacted`), and those asked to ping it are chosen in
another (`ChooseForwards`), from the table as it is by then: they may include the
suspect itself. `AddNeighbor` may name this node. A node is called by its
`host_name_`, and calls itself `Self(n)`, by `utils::Hostname()`. A name always
has a node that listens there; a name without one acts like a node that is down.
The two kinds of suspicion differ in the unit of their timestamp. Reports hold
whole tables here: the cut to the budget is in `ReportBudget` and `SwimServer`.
With ages and Lamport times for every record of every node `Cluster` is out of
TLC's reach, and a report that may leave out any records multiplies the states of
every message. A cut report says less than a whole one, and `Refutes`, the one
property that needs something to be said, is about a forwarded report, which has a
single record and is not cut.

**`HttpRequest`** is the HTTP client on its libuv loop: the caller's `get`, `on`
and `end`, and every callback. **`ApiServer`** is the acceptor, the connections
and the io thread, with the main thread of `gossip_example`, which starts the
server and, on SIGINT, destroys it. **`Rest`** composes the two through a TCP
connection (`wire`) that may be refused or cut, and lets the client meet some
other HTTP server instead. libuv is taken as documented: a TCP handle is active
while it connects, reads or has bytes to write. `OneOutcome` and `LoopEnds`
rest on that.

- `events` holds all that a client's callbacks were given, in order. Three things
  end a request (`Outcomes`): a response, a timeout, a connection that is not
  made. The other errors leave the timer running and the client goes on.
- `wire.text` is what the bytes the kernel has taken are to a parser, and
  `wire.sent` how much of them has arrived. What the kernel does not take at once
  is sent later from a string that has gone out of scope, so that those bytes may
  be any. They may complete the request with other contents (`"garbled"`), which
  is then read like any other and reaches the endpoint, or make it one that does
  not parse (`"refused"`). A part holds at least the request line: the kernel
  takes that much at once.
- A read fails as soon as the parser can tell, with the rest of the request still
  on its way and the connection up, or for want of the rest when the connection is
  lost. `handleRequest` runs all the same. A request may therefore be answered
  before it is all written, and the write that closing the handle cancels is
  reported after the response.
- Another server answers at any time and more than once, asks to change the
  protocol or sends no HTTP at all. Two responses in one buffer stand for more. It
  does not matter what it was asked.

The modules named `...Proofs`, `SwimServerImplements` and `ClusterAnswers` hold
the theorems. Those named `MC...` are the instances for TLC.

## Runs that pass

| run | property | what it says |
|---|---|---|
| `server_serial` | `Exclusive` | no server is in both tables |
| | `ToldIsCurrent` | between calls, the last callback about a server agrees with the tables |
| | `StaleNewsIgnored` | a report never overrides a record stamped after it |
| | `EvictsOnlyExpired` | only suspicions older than the grace period are evicted |
| | `ImplementsMembership` | the server implements `Membership` |
| | `ReportsNewestAffordable` | from either table `AddRecordsToBudget` selects exactly what `ReportSelection` allows |
| | `TypeOK` | type invariant |
| `server_overlap` | `SelfNeverSuspected` | a server never suspects itself |
| | `StampsInThePast` | no record has a Lamport time the server has not reached |
| | `AliveRecordsGrow` | Lamport time and incarnation of an alive record never go back |
| | `SuspicionKept` | a suspicion keeps the time it dates from |
| `server_eviction` | `EvictionHappens` | an expired suspicion ends |
| `lifecycle` | `OneLoop` | two calls of `start()` never handle messages together |
| | `Drained` | no background thread is left at a restart or a destruction |
| | `DrainTerminates` | `StopAllBackgroundThreads` gets past its joins |
| | `StopHeard` | if the owner is not hasty, no later write of `stopped_` undoes a `stop()` |
| | `StopEnds` | if the owner is not hasty, a stopped `start()` returns |
| `neighbours` | `Chosen` | at most `k` neighbours; undisturbed, as many as there are, alive, and never this server |
| | `InTurn` | undisturbed, nobody is taken a second time before all the others |
| | `ThrowsOnlyIfEmptied` | the uncaught `empty_set` needs another thread to remove the last server during the selection |
| | `SelectionEnds` | a selection ends, unless the other thread moves the index for ever |
| | `EveryoneReported` | who stays alive is sent full reports again and again, once no report fails |
| | `TypeOK` | type invariant |
| `cluster` | `OnlyItselfListsItself` | a node that goes by its `Hostname()` lists itself only after calling itself, and neither suspects nor evicts itself |
| | `UnitsNeverMix` | no table mixes its millisecond timestamps with those in seconds of forwarded records |
| | `NoFaultNoSuspicion` | without a fault nobody is suspected: waiting for each other causes no timeout |
| | `AckMeansHandled` | an "OK" comes from the node that was called, for this very request |
| | `CallsEnd` | every call returns, also those of two loops that ping each other back |
| | `Refutes` | a wrong suspicion ends once a third node has the request to ping |
| | `TypeOK` | type invariant |
| `rest` | `OneOutcome` | a client is told one outcome, whatever other errors; several responses only by another server that sends several |
| | `OnlyWriteFollows` | after the `ApiServer`'s response at most the error of a cancelled write is reported |
| | `AnswerIsTrue` | success means that the endpoint was called once, "not found" that there is none, "bad request" that the request or its late bytes are to blame |
| | `NoCallAfterJoin` | no endpoint is called while the detector is being stopped |
| | `OutcomeComes` | a request whose loop is run has an outcome, also after other errors, unless the client crashes on a handle it never initialised |
| | `LoopEnds` | the loop of a client of the `ApiServer` returns |
| | `RequestAnswered` | a request that was read is answered, unless the program ends |
| | `ShutdownEnds` | once interrupted, the program ends |
| | `TypeOK` | type invariant |

*Bounds.* `server_serial` has this server, two others, a client without a
port, one worker and the collector. Its six messages include old and new
reports, reports about the server itself, and a forward request. Two clock
ticks and a grace period of one reach suspicion, expiry and eviction.
`MaxLamport` 2 is enough for a record to be older and newer than a report.
Ticks of a minute make three records exceed the budget when two of them are two
minutes old and the third one or two, so that reports are cut. `server_overlap` has one
other server, because the races are all about one server, and three threads.
`lifecycle` has three calls of `start()`, enough for a restart by the
application and one by the destructor, and two batches of two background
threads. A detector that has been destroyed does nothing more, so deadlock is
not checked there either.

`neighbours` has three servers, this one in the middle of the order, so that
the round robin meets it and wraps around; none, one or three reports in a
round; and one change of the table by the loop besides those of the report
threads. `cluster` has three nodes, the least with somebody to ask; two
forwarding threads; and either two rounds and one fault, or the state after two
timeouts in which two nodes suspect each other (`Quarrel`), from which both
loops can ping back at once. A fault is a crash, a loss, or an answer later
than the timeout. `Refutes` is stated for the pairs of `a` and `b`: nothing but
the quarrel tells the nodes apart, so that these stand for all. In `rest` there
is one client, with a loop of its own or without, with preset options or without,
making each of seven requests: two clients meet only in the io thread, which runs
one handler at a time, and are out of TLC's reach. `MaxEvents` 2 ends the empty
reads libuv may report and the answers of another server once a client has been
told two things; an answer that is already on its way may still add two. All three
may come to rest, so deadlock is not checked.

*Fairness.* `FairSpec` assumes that a thread inside a call goes on (no mutex
is held while waiting for anything else) and that the collector starts a round
again and again, which its loop does every `update_round_interval_`. The clock
need not advance. In `server_eviction` no suspicion gets older than 120
seconds, within the budget's horizon. `starved_eviction` shows what happens
beyond it. In `Lifecycle` a thread inside a function goes on, because `poll`,
the clients' timeouts and the sleeps are all bounded. The owner need never make
another call. In `Neighbours` the two threads go on, as their loops do. In
`Cluster` loops and clients go on, the timeouts included, and nothing is
assumed of when rounds begin. In `Rest` a loop that is run calls back what is
due, the timer included, and the io thread and the destructor go on; nothing is
assumed of the network, the caller or another server.

Three hypotheses say something about the code.

- `SelectionEnds`: two threads in lock step can each undo the other's index for
  ever.
- `EveryoneReported`: the requests to forward a ping take their turns from the
  same round robin, so that a neighbour that fails and recovers can cost
  another all its reports.
- `OnlyItselfListsItself` and `UnitsNeverMix` are for nodes whose `host_name_` is
  their `Hostname()`. Another node does not recognise itself in reports.

## Runs that violate what the code says of itself

| run | property | what happens |
|---|---|---|
| `both_tables` | `Exclusive` | `AddAlive` and `ReportSuspected` overlap and leave a server in both tables |
| `starved_eviction` | `EvictionHappens` | suspects older than 173 s are cut from the collector's list; a longer grace period evicts nobody |
| `report_order` | `ReportsMostRecent` | records are sorted by Lamport time, not by timestamp, so that a cut report leaves out a record more recent than one it holds |
| `restart_bind` | `BindSucceeds` | `StopAllBackgroundThreads` restarts after 20 ms a server that may be in `poll` for 50 ms with the port bound |
| `destroyed_early` | `LoopEndsFirst` | the destructors wait for a flag that `stop()` itself sets, not for the loop |

`Exclusive` fails only when two calls overlap. With `Overlap = FALSE` it holds,
by `server_serial` and by proof.

Other disagreements have no run of their own.

- `OnUpdate` erases the sender from `suspected_` a second time, after
  `AddAlive`. A server suspected in between is dropped from both tables
  without a callback. `ToldIsCurrent` excludes that only for calls that do not
  overlap.
- `EvictsOnlyExpired` also fails when calls overlap: the collector evicts by
  name on the strength of a copy, and hits a server that came back and was
  suspected afresh.
- `ReportSuspected` moves the record into the table and then passes the null
  pointer to the callback: `record` of `told` is `Absent` after a suspicion.
- `num_reports_` and `num_forwards_` do not get the values 6 and 3 that
  `GossipFailureDetector.hpp:111-113` gives their defaults, because of the
  order of declaration. With zero no full report is sent.
- The `empty_set` of `GetNeighborByIndex` is caught only for
  `ReportType::SINGLE`. It ends the process when `alive_` is emptied between
  the reading of its size and the query.
- `handleRequest` lets `substr` throw for a target that is the prefix alone, or
  empty because the read failed before the request line was parsed, and the exception ends the process
  (`HandlerThrows`).
- The HTTP client reports an empty read as an error, reports a write that its own
  timeout or response has cancelled, does not report the end of the stream, and
  examines a handle that was never initialised when the timer
  fires after a failed name lookup.
- `StaleNewsIgnored` also fails when calls overlap: a suspicion recorded after
  `OnReport`'s staleness check is erased by older news.
- `StopHeard` fails without `~hasty`: `start()` clears `stopped_` after a
  `stop()` that was meant for it.
- When calls overlap, the callbacks of two moves of one server may come in the
  opposite order of the moves, because they run outside the critical sections.
- `swim.proto:37-40` says that a record's timestamp is in seconds.
  `utils::CurrentTime()`, from which the tables have theirs, counts milliseconds
  (`utils.cpp:112-119`), and `AddRecordsToBudget` and the collector read them as
  such. The record of a forwarded request alone is in seconds. `UnitsNeverMix`
  says that the two do not meet in a table, not that the tables agree with the
  comment.
- A node that calls itself, by a `SINGLE` report after `AddNeighbor` has named it
  or by a request to ping itself, has itself in `alive_`, and gossips that it is.
- A late part of an HTTP request is sent from a string that no longer exists
  (`SimpleHttpRequest.hpp:561-577`): an endpoint may be called with a body the
  client did not compose.

## What is proved

The theorems about `SwimServer` are for any sets of servers, workers and
messages and any bounds, from `ServerAssumption` and `TickAssumption`. Those say
that constants have their types, that reports name each server once, and that
`Self` has a port.

| theorem | statement |
|---|---|
| `TypeCorrect` | `Spec => []TypeOK` |
| `NeverSuspectsItself` | `Spec => []SelfNeverSuspected` |
| `StampsNeverInFuture` | `Spec => []StampsInThePast` |
| `AliveRecordsNeverGoBack` | `Spec => AliveRecordsGrow` |
| `SuspicionNeverRestarted` | `Spec => SuspicionKept` |
| `SerialExclusive` | `~Overlap` implies `Spec => []Exclusive` |
| `SerialFreshNews` | `~Overlap` implies `Spec => StaleNewsIgnored` |
| `SerialEvictions` | `~Overlap` implies `Spec => EvictsOnlyExpired` |
| `SerialTold` | `~Overlap` implies `Spec => []ToldIsCurrent` |
| `SerialImplements` | `~Overlap` implies `Spec => ImplementsMembership` |

The argument:

1. `TypeInv` adds to `TypeOK` what a thread's locals hold at each label
   (`CallFormed`). A thread about to change a table knows which server it is
   about, and one that will raise an incarnation has a record. Without this
   `TypeOK` is not inductive.
2. `SelfInv` adds that no thread on its way to `suspected_` is about `Self`.
   `StampInv` adds that stamps already read are in the past.
3. `AliveEffect` and `SuspectedEffect` say once what any step can do to each
   table. The two action properties follow from them.
4. `SerialInv` is for `~Overlap`. At most one thread is inside a call, and
   `Coherent` says what it has established: the other table no longer has the
   server, the report was not stale, the collector's copies are still those of
   the table. TLC checked it on the serial instance before it was proved.
5. `AnnouncedInv` says what has been announced of each server. It is what the
   tables say, unless the one thread inside a call is in the middle of a move.
   After the first of the two critical sections, the table to be inserted into
   tells whether a callback is due (`Announcing`). `Located` says, for each
   label, in which table the thread's server is, and `Unlisted` that servers
   without a port are in none. With `SelfInv` and `SerialInv` it is inductive,
   and TLC checked it first. `Kept` is what each action is shown to do:
   re-establish it, and change or announce at most one server (`Simulates`).
   `Refines` turns that into a step of `Membership` or a stutter.

The theorems about `Lifecycle` are for any number of calls of `start()`, of
background threads and of the owner's calls, from `LifecycleAssumption`.

| theorem | statement |
|---|---|
| `NeverTwoLoops` | `Spec => []OneLoop` |
| `AlwaysDrained` | `Spec => []Drained` |
| `StopsHeard` | `Spec => []StopHeard` |

1. `OneHolder`, at most one call of `start()` has the port, is inductive and
   implies `OneLoop`, because `stopped_` is cleared only after the bind.
2. `hasty \/ PatientInv` strengthens `StopHeard`. In `PatientInv`, at most one
   `start()` has yet to clear `stopped_`. No `stop()` was meant for it, and the owner is between calls or
   waiting for it. With `OneHolder`, clearing `stopped_` finds no older loop. TLC
   checked `PatientInv` before it was proved.

The theorems about `Neighbours` are for any table, index, counts and number of
changes, from `NeighboursAssumption`.

| theorem | statement |
|---|---|
| `SelectionInvariant` | `Spec => [](TypeOK /\ SelectionInv)` |
| `ThrowTheorem` | `Spec => []ThrowsOnlyIfEmptied` |
| `TurnInvariant` | `Spec => [](TypeOK /\ SelectionInv /\ TurnInv)` |
| `InTurnTheorem` | `Spec => []InTurn` |
| `ChosenTheorem` | `Spec => []Chosen` |

1. `SelectionInv` says what a thread inside `GetUniqueNeighbors` has established,
   whoever interferes: it has taken at most `idx` servers and `idx` is at most
   `n`, which is at most `k`. Undisturbed, what it has taken is in the table and
   is not this server, and the table still holds at least `n`.
   `EmptiedInv` adds that a table in which it counted somebody is not empty, unless
   others have emptied it; `ThrowsOnlyIfEmptied` follows.
2. `TurnInv` says where the round robin stands. Between the neighbour taken last
   and the index no neighbour is passed over (`NonePassed`), and what an
   undisturbed selection has taken is an arc of the table that ends at the last
   one (`Arc`, `Placed`). The index is kept when nobody is `Busy`: a disturbed
   thread may have moved it and have yet to take a neighbour. `inTurn` alone is
   not inductive, because the index is compared, reset, read and written in
   separate steps. TLC checked `TurnInv` with this server first, second and last
   in the order.
3. An arc that grows by the neighbour after its end repeats nobody until it has
   everybody (`ArcGrows`, `TakePlaced`). Hence an undisturbed selection has
   taken `idx` servers, or all there are, and `Chosen` follows.

The theorems about `Rest` are for any clients and any number of events, from no
assumption. The network may refuse or cut a connection, and the client may meet
another server.

| theorem | statement |
|---|---|
| `RestInvariant` | `Spec => [](TypeInv /\ RestInv)` |
| `RestTypes` | `Spec => []TypeOK` |
| `OneOutcomeTheorem` | `Spec => []OneOutcome` |
| `OnlyWriteFollowsTheorem` | `Spec => []OnlyWriteFollows` |
| `AnswerIsTrueTheorem` | `Spec => []AnswerIsTrue` |
| `NoCallAfterJoinTheorem` | `Spec => []NoCallAfterJoin` |

1. `ClientOK` relates what a client was told to the callbacks libuv still owes
   it. After an outcome the timer is closed and no connect can fail, and only
   where another server answers is anything read after a response (`Single`).
   After a response of the `ApiServer` the handle is closed, a cancelled write is
   all that is owed (`Closes`), and it is the last thing to be told (`Last`): the
   `ApiServer` sends one response and nothing after it (`Final`). They need
   `Owed`: which callbacks can be due in which state of the handle.
2. `ServedOK` follows one answer from the endpoint to the client. By the state
   of the connection it says how often the endpoint was called; an answer that
   is being written, is on its way or was given is `Truthful`. The exception is a
   `bad_request` for a read that failed because the connection was lost: it is
   written to a connection on which it can no longer be given. `AnsweredOnce`
   keeps the io thread and the destructor from both answering.
3. `ThreadsOK` couples the main thread's progress with the io thread's: the join
   is passed only when the io thread has returned, and it returns only when no
   endpoint is being called. `NoCallAfterJoin` follows.

TLC checked `RestInv` for one client as well. The runs have one
client; that several do not disturb one another is shown by the proof alone.

The theorems about `Cluster` are for any nodes, names, threads and bounds, from
`NamesAssumption` and `NoneAssumption`. Every fault of the model is included.

| theorem | statement |
|---|---|
| `ClusterTypes` | `Spec => []TypeOK` |
| `SelfTheorem` | `Spec => OnlyItselfListsItself` |
| `UnitsTheorem` | `Spec => []UnitsNeverMix` |
| `AckTheorem` | `Spec => []AckMeansHandled` |
| `CalmTheorem` | `MaxFaults > 0 \/ Quarrels = {}` implies `Spec => []NoFaultNoSuspicion` |

1. `NamesInv` says where the name of a node may travel. Tables and reports list
   only nodes, and a well-named node does not suspect itself. A record in seconds
   about a well-named node is only in a forwarder's call to, or a request for, that
   node. `UnitsNeverMix` follows; it is not inductive without the requests in
   flight and the reports being handled. From the same invariant each action is
   shown to change what a node's table says of the node itself only as
   `OnlyItselfListsItself` allows.
2. `AnswersInv` ties requests to calls. A request whose answer is awaited
   belongs to a call that still waits for the node that holds it (`AwaitedOK`).
   No thread awaits two answers (`Once`), and a loop calls only while it handles
   a report (`LoopsIdle`). `OneNew` and `NothingNew` say once what a step must
   respect, and each action is reduced to one of them.
3. `CalmInv` says that until the first fault all nodes run, no table, report or
   request has a suspect, no loop waits for an answer, and every call that waits
   has its request in the inbox of the node it called (`Received`). Hence no call
   is `Overdue`, and a call that is not fails only by a fault. The assumption
   excludes only instances that start with suspicions and allow no fault: there,
   `faults = MaxFaults` does not mean that nobody was ever at fault.

The theorem about `AddRecordsToBudget` is for any finite table, any clock and
any length of a tick, from `TickAssumption`. `Table` says that there are finitely
many records and that times are natural numbers.

| theorem | statement |
|---|---|
| `SelectionExact` | `Table => SelectsNewestAffordable` |

Both sides of `SelectsNewestAffordable` are recursions over data: the loop adds
costs position by position, the specification over a set. The library's
induction theorems have an operator as a parameter, which the provers cannot
instantiate. Each induction is therefore a search for a least counterexample: a
set of numbers, or of finite sets, that is not empty has a least element
(`Least`, `LeastSet`), and the step shows that this element is no counterexample.

1. `SumsExist` and `SumsAgree` show that the recursion behind `TotalCost` has a
   solution and only one. `TotalCostRemove` is that the order of summing does not
   matter, `TotalCostMonotonic` that a set costs no less than its subsets.
2. `RunningCostTotal` says that after n records the loop has spent the total
   cost of the first n. With `Greatest` it follows that the loop stops at the
   last affordable record (`AffordableGreatest`).
3. `SelectionAllowed`: what the loop selects fits, prefers the newest, and is
   full or everything.
4. `SelectionPossible` is the converse. `OrderAppend` puts the record that does
   not fit after the selected ones, and `OrderExtends` continues this to an order
   of the whole table that the unstable sort may leave. By monotonicity the loop
   stops exactly before that record.

TLC checks the same equation, as `ReportsNewestAffordable`, on both tables of the
server in every state of `server_serial`.

Only model-checked:

- `EvictionHappens`, `DrainTerminates`, `StopEnds`, `SelectionEnds`,
  `EveryoneReported`, `CallsEnd`, `Refutes`, `OutcomeComes`, `LoopEnds`,
  `RequestAnswered` and `ShutdownEnds`: liveness is out of the prover's reach.

Every other property of a passing run is stated by a theorem, those of
`server_serial` for `~Overlap`. `ReportsNewestAffordable` is stated by
`SelectionExact` for one table.

By default a leaf is tried with SMT, then with Zenon. Where SMT is slow or fails
and Zenon proves the leaf, the leaf cites Zenon.

## Not modelled

- The branch of `GetUniqueNeighbors` for `roundRobin = false`, which only tests
  take.
- Detached forwarding threads that outlive the server. They capture `this` and
  nothing waits for them, so there is no promise to state.
- How Lamport times spread in a cluster. `SwimServer` has them for one server
  and any messages; with them `Cluster` is out of TLC's reach. For the same
  reason a node's background threads begin one round at a time in `Cluster`;
  `SwimServer` and `Neighbours` have their interleavings.
- That every node learns of a crash. With random probes and bounded rounds the
  code promises no such thing.
- Header fields, bodies and urls as text, and HTTPS, which is not built.
- `server_demo`, command lines, logging, name resolution and the string
  handling of `utils`.
- Memory ownership, and data races inside libraries: closing an acceptor while
  its handler runs, and the random engine that two mutexes guard.

`PROJECT.json` lists components, runs, mutations, the map from definitions to
source lines, findings, hazards and theorems.
