--------------------------- MODULE ClusterAnswers ---------------------------
(* Proof that in Cluster an answer is the answer to the request: what a      *)
(* client takes for its "OK" was said by the node it called, of the request  *)
(* it sent.  And as long as there is no fault, the nodes that wait for one   *)
(* another's answers get them, and nobody is suspected.                      *)
EXTENDS ClusterProofs

-----------------------------------------------------------------------------
(* What an answer means: the inductive invariant.                            *)

\* The requests that have been sent to node m, the one it is handling included.
Held(m) == inbox[m] \cup ({serving[m].request} \ {None})

\* No answer is awaited by thread t of node n.
Free(n, t) == \A m \in Nodes : \A r \in Held(m) : ~Awaits(r, n, t)

\* The call that awaits the answer to r, which node m holds.
Pending(m, r) ==
  /\ Waits(r.from, r.thread)
  /\ Host(call[r.from][r.thread].to) = m
  /\ Type(call[r.from][r.thread].goal) = r.type

\* A request whose answer is awaited belongs to a call that waits, to the node that
\* holds it.
AwaitedOK == \A m \in Nodes : \A r \in Held(m) : r.awaited => Pending(m, r)

\* No thread awaits the answers to two requests, or to one held twice.
Once ==
  \A m \in Nodes :
    /\ \A r, s \in Held(m) :
         r.awaited /\ s.awaited /\ r.from = s.from /\ r.thread = s.thread => r = s
    /\ serving[m].request # None /\ serving[m].request.awaited => serving[m].request \notin inbox[m]

\* A loop calls only while it handles a report.
LoopsIdle == \A m \in Nodes : serving[m].request = None => call[m]["loop"].goal = "idle"

AnswersInv == AwaitedOK /\ Once /\ LoopsIdle /\ AckMeansHandled

\* An idle call.
LEMMA NoCallAnswer == ASSUME NEW n PROVE NoCall(n).goal = "idle" /\ NoCall(n).answer = "none"
BY DEF NoCall

\* Nobody waits at the beginning.
LEMMA AnswersInit == Init => AnswersInv
<1> SUFFICES ASSUME Init PROVE AnswersInv
  OBVIOUS
<1>1. /\ \A n \in Nodes, t \in Threads : call[n][t] = NoCall(n)
      /\ \A n \in Nodes : serving[n].request = None
  BY DEF Init, Quiet, Quarrel, NotServing
<1>2. \A n \in Nodes : \A r \in inbox[n] : ~r.awaited
  BY DEF Init, Quiet, Quarrel, Asks
<1>3. \A n \in Nodes : \A r \in Held(n) : ~r.awaited
  BY <1>1, <1>2, Zenon DEF Held
<1> QED
  BY <1>1, <1>3, NoCallAnswer DEF AnswersInv, AwaitedOK, Once, LoopsIdle, AckMeansHandled, Threads

\* Steps that leave the requests and the calls as they are.
LEMMA NothingHappens ==
  ASSUME AnswersInv, inbox' = inbox, call' = call, serving' = serving
  PROVE  AnswersInv'
BY DEF AnswersInv, AwaitedOK, Once, LoopsIdle, AckMeansHandled, Held, Pending, Waits

-----------------------------------------------------------------------------
(* What a step has to respect.                                               *)

\* A held request is from a thread of a node.
LEMMA HeldRequests ==
  ASSUME NamesInv, NEW m \in Nodes, NEW r \in Held(m)
  PROVE  r \in Request /\ r # None /\ r.from \in Nodes /\ r.thread \in Threads /\ r.awaited \in BOOLEAN
<1>1. r \in Request
  BY DEF NamesInv, InboxesOK, ServingsOK, Held
<1> QED
  BY <1>1, NoneAssumption DEF Request

\* The calls that change are those that await nothing afterwards, and the request that
\* is sent, if one is, is that of thread t of n.
CallsRespected(n, t) ==
  \A k \in Nodes, u \in Threads :
    <<k, u>> # <<n, t>> =>
      call'[k][u] = call[k][u] \/ \A m \in Nodes : \A r \in Held(m)' : ~Awaits(r, k, u)

\* A step after which nothing is awaited that was not before.
LEMMA NothingNew ==
  ASSUME NamesInv, NamesInv', AnswersInv,
         \A m \in Nodes : \A r \in Held(m)' : r.awaited => r \in Held(m),
         \A k \in Nodes, u \in Threads :
           call'[k][u] = call[k][u] \/ \A m \in Nodes : \A r \in Held(m)' : ~Awaits(r, k, u),
         \A k \in Nodes, u \in Threads : call'[k][u].answer = "OK" => call'[k][u].handled,
         \A m \in Nodes : serving'[m].request # None /\ serving'[m].request.awaited
                            => serving'[m].request \notin inbox'[m],
         LoopsIdle'
  PROVE  AnswersInv'
<1>1. ASSUME NEW m \in Nodes, NEW r \in Held(m)', r.awaited PROVE Pending(m, r)'
  <2>1. r \in Held(m) /\ r # None /\ r.from \in Nodes /\ r.thread \in Threads
    BY <1>1, HeldRequests
  <2>2. Pending(m, r)
    BY <1>1, <2>1 DEF AnswersInv, AwaitedOK
  <2>3. call'[r.from][r.thread] = call[r.from][r.thread]
    BY <1>1, <2>1 DEF Awaits
  <2> QED
    BY <2>2, <2>3 DEF Pending, Waits
<1>2. AwaitedOK'
  BY <1>1 DEF AwaitedOK
<1>3. Once'
  BY DEF AnswersInv, Once
<1>4. AckMeansHandled'
  BY DEF AckMeansHandled
<1> QED
  BY <1>2, <1>3, <1>4 DEF AnswersInv

\* A step by which thread t of n, which awaited nothing, sends msg and waits.
LEMMA OneNew ==
  ASSUME NamesInv, NamesInv', AnswersInv, NEW n \in Nodes, NEW t \in Threads, Free(n, t),
         NEW msg \in Request, msg.from = n, msg.thread = t,
         Waits(n, t)', Type(call'[n][t].goal) = msg.type,
         \A m \in Nodes : \A r \in Held(m)' :
           r.awaited => r \in Held(m) \/ (r = msg /\ m = Host(call'[n][t].to)),
         CallsRespected(n, t),
         \A k \in Nodes, u \in Threads : call'[k][u].answer = "OK" => call'[k][u].handled,
         \A m \in Nodes : serving'[m].request # None /\ serving'[m].request.awaited
                            => serving'[m].request \notin inbox'[m],
         LoopsIdle'
  PROVE  AnswersInv'
<1>1. ASSUME NEW m \in Nodes, NEW r \in Held(m), r.awaited
      PROVE  <<r.from, r.thread>> # <<n, t>>
  BY <1>1, HeldRequests DEF Free, Awaits
<1>2. ASSUME NEW m \in Nodes, NEW r \in Held(m)', r.awaited PROVE Pending(m, r)'
  <2>1. CASE r \in Held(m)
    <3>1. r # None /\ r.from \in Nodes /\ r.thread \in Threads /\ <<r.from, r.thread>> # <<n, t>>
      BY <1>1, <1>2, <2>1, HeldRequests
    <3>2. Pending(m, r)
      BY <1>2, <2>1 DEF AnswersInv, AwaitedOK
    <3>3. call'[r.from][r.thread] = call[r.from][r.thread]
      BY <1>2, <3>1 DEF Awaits, CallsRespected
    <3> QED
      BY <3>2, <3>3 DEF Pending, Waits
  <2>2. CASE r = msg /\ m = Host(call'[n][t].to)
    BY <2>2 DEF Pending
  <2> QED
    BY <1>2, <2>1, <2>2, Zenon
<1>3. AwaitedOK'
  BY <1>2 DEF AwaitedOK
<1>4. ASSUME NEW m \in Nodes, NEW r \in Held(m)', NEW s \in Held(m)',
             r.awaited, s.awaited, r.from = s.from, r.thread = s.thread
      PROVE  r = s
  <2>1. CASE r \in Held(m) /\ s \in Held(m)
    BY <1>4, <2>1 DEF AnswersInv, Once
  <2>2. CASE r = msg \/ s = msg
    BY <1>1, <1>4, <2>2
  <2> QED
    BY <1>4, <2>1, <2>2
<1>5. Once'
  BY <1>4 DEF Once
<1>6. AckMeansHandled'
  BY DEF AckMeansHandled
<1> QED
  BY <1>3, <1>5, <1>6 DEF AnswersInv

-----------------------------------------------------------------------------
(* The clients.                                                              *)

\* A thread that does not wait awaits nothing.
LEMMA FreeIfNotWaiting ==
  ASSUME NamesInv, AnswersInv, NEW n \in Nodes, NEW t \in Threads, ~Waits(n, t)
  PROVE  Free(n, t)
BY DEF AnswersInv, AwaitedOK, Pending, Free, Awaits

\* The calls after one has been replaced.
LEMMA CallsAfter ==
  ASSUME NamesInv, NEW n \in Nodes, NEW t \in Threads, NEW c, SetCall(n, t, c)
  PROVE  \A m \in Nodes, u \in Threads : call'[m][u] = IF m = n /\ u = t THEN c ELSE call[m][u]
BY DEF SetCall, NamesInv, CallsOK

\* A thread that sends nothing more, or has not sent anything yet.
LEMMA EndStep ==
  ASSUME NamesInv, NamesInv', AnswersInv, NEW n \in Nodes, NEW t \in Threads \ {"loop"}, ~Waits(n, t),
         NEW c, c.answer # "OK", SetCall(n, t, c), inbox' = inbox, serving' = serving
  PROVE  AnswersInv'
<1>1. \A m \in Nodes, u \in Threads : call'[m][u] = IF m = n /\ u = t THEN c ELSE call[m][u]
  BY CallsAfter
<1>2. Free(n, t)
  BY FreeIfNotWaiting
<1>3. \A m \in Nodes : Held(m)' = Held(m)
  BY DEF Held
<1>4. \A k \in Nodes, u \in Threads :
        call'[k][u] = call[k][u] \/ \A m \in Nodes : \A r \in Held(m)' : ~Awaits(r, k, u)
  BY <1>1, <1>2, <1>3 DEF Free
<1>5. \A k \in Nodes, u \in Threads : call'[k][u].answer = "OK" => call'[k][u].handled
  BY <1>1 DEF AnswersInv, AckMeansHandled
<1>6. LoopsIdle'
  BY <1>1 DEF AnswersInv, LoopsIdle, Threads
<1>7. \A m \in Nodes : serving'[m].request # None /\ serving'[m].request.awaited
                         => serving'[m].request \notin inbox'[m]
  BY DEF AnswersInv, Once
<1> QED
  BY <1>3, <1>4, <1>5, <1>6, <1>7, NothingNew

\* postMessage, by a thread other than the loop.
LEMMA PostStep ==
  ASSUME NamesInv, NamesInv', AnswersInv, NEW n \in Nodes, NEW t \in Threads \ {"loop"}, ~Waits(n, t),
         NEW c \in Call, c.goal \notin {"idle", "prepared"},
         postMessage(n, t, c), serving' = serving
  PROVE  AnswersInv'
<1> DEFINE d == [c EXCEPT !.answer = "none", !.handled = FALSE]
           msg == Message(n, t, c)
<1>1. d.goal = c.goal /\ d.to = c.to /\ d.answer = "none"
  BY DEF Call
<1>2. SetCall(n, t, d) /\ inbox' = Put(inbox, c.to, msg)
  BY DEF postMessage
<1>3. msg.from = n /\ msg.thread = t /\ msg.awaited = TRUE /\ msg.type = Type(c.goal)
  BY DEF Message
<1> HIDE DEF d, msg
<1>4. \A m \in Nodes, u \in Threads : call'[m][u] = IF m = n /\ u = t THEN d ELSE call[m][u]
  BY <1>2, CallsAfter
<1>5. Free(n, t)
  BY FreeIfNotWaiting
<1>6. CASE Host(c.to) \notin up
  <2>1. inbox' = inbox
    BY <1>2, <1>6 DEF Put
  <2> QED
    BY <1>1, <1>2, <2>1, EndStep
<1>7. CASE Host(c.to) \in up
  <2>1. Host(c.to) \in Nodes /\ \A m \in Nodes : inbox'[m] = IF m = Host(c.to) THEN inbox[m] \cup {msg} ELSE inbox[m]
    BY <1>2, <1>7, Zenon DEF Put, NamesInv, InboxesOK
  <2>2. msg \in Request
    BY <2>1 DEF NamesInv, InboxesOK
  <2>3. msg # None
    BY <2>2, NoneAssumption
  <2>4. \A m \in Nodes : \A r \in Held(m)' :
          r.awaited => r \in Held(m) \/ (r = msg /\ m = Host(call'[n][t].to))
    <3>1. call'[n][t].to = c.to
      BY <1>1, <1>4
    <3>2. \A m \in Nodes : \A r \in Held(m)' : r \in Held(m) \/ (r = msg /\ m = Host(c.to))
      BY <2>1, Zenon DEF Held
    <3> QED
      BY <3>1, <3>2
  <2>5. CallsRespected(n, t)
    BY <1>4 DEF CallsRespected
  <2>6. \A k \in Nodes, u \in Threads : call'[k][u].answer = "OK" => call'[k][u].handled
    BY <1>1, <1>4 DEF AnswersInv, AckMeansHandled
  <2>7. ASSUME NEW m \in Nodes, serving'[m].request # None, serving'[m].request.awaited
        PROVE  serving'[m].request \notin inbox'[m]
    <3>1. serving[m].request \notin inbox[m] /\ serving[m].request \in Held(m)
      BY <2>7 DEF AnswersInv, Once, Held
    <3>2. serving[m].request # msg
      BY <1>3, <1>5, <2>3, <3>1 DEF Free, Awaits
    <3> QED
      BY <2>1, <3>1, <3>2, Zenon
  <2>8. LoopsIdle'
    BY <1>4 DEF AnswersInv, LoopsIdle, Threads
  <2>9. Waits(n, t)' /\ Type(call'[n][t].goal) = msg.type
    BY <1>1, <1>3, <1>4 DEF Waits
  <2> QED
    BY <1>3, <1>5, <2>2, <2>4, <2>5, <2>6, <2>7, <2>8, <2>9, OneNew, Zenon
<1> QED
  BY <1>6, <1>7

\* The next call of a round.
LEMMA NextCallStep ==
  ASSUME NamesInv, NamesInv', AnswersInv, NEW n \in Nodes, ~Waits(n, "gossip"),
         NEW c \in Call, NextCall(n, c), serving' = serving
  PROVE  AnswersInv'
<1>1. "gossip" \in Threads \ {"loop"}
  BY DEF Threads
<1>2. c.ask \in SUBSET Names /\ c.left \in SUBSET Names
  BY DEF Call
<1>3. ASSUME NEW m \in c.ask,
             postMessage(n, "gossip", [c EXCEPT !.goal = "ask", !.to = m, !.ask = @ \ {m}])
      PROVE  AnswersInv'
  <2> DEFINE d == [c EXCEPT !.goal = "ask", !.to = m, !.ask = @ \ {m}]
  <2>1. d \in Call /\ d.goal = "ask"
    BY <1>1, <1>2, Zenon DEF Call
  <2>2. postMessage(n, "gossip", d)
    BY <1>3
  <2> HIDE DEF d
  <2> QED
    BY <1>1, <2>1, <2>2, PostStep
<1>4. ASSUME NEW m \in c.left,
             postMessage(n, "gossip", [c EXCEPT !.goal = "report", !.to = m, !.left = @ \ {m},
                                                !.about = None])
      PROVE  AnswersInv'
  <2> DEFINE d == [c EXCEPT !.goal = "report", !.to = m, !.left = @ \ {m}, !.about = None]
  <2>1. d \in Call /\ d.goal = "report"
    BY <1>1, <1>2, Zenon DEF Call
  <2>2. postMessage(n, "gossip", d)
    BY <1>4
  <2> HIDE DEF d
  <2> QED
    BY <1>1, <2>1, <2>2, PostStep
<1>5. CASE Ends(n, "gossip")
  BY <1>1, <1>5, NoCallAnswer, EndStep DEF Ends
<1> QED
  BY <1>3, <1>4, <1>5, Zenon DEF NextCall

\* The background threads.
LEMMA RoundStep ==
  ASSUME NamesInv, NamesInv', AnswersInv, NEW n \in Nodes, Round(n)
  PROVE  AnswersInv'
<1>1. "gossip" \in Threads \ {"loop"} /\ ~Waits(n, "gossip") /\ serving' = serving
  BY DEF Round, Idle, Waits, Threads
<1>2. CASE SendReport(n)
  <2> DEFINE c == [NewCall(n, "prepared", None) EXCEPT !.report = PrepareReport(n)]
  <2>1. c.answer = "none"
    BY DEF NewCall, NoCall
  <2>2. SetCall(n, "gossip", c) /\ inbox' = inbox
    BY <1>2 DEF SendReport
  <2> HIDE DEF c
  <2> QED
    BY <1>1, <2>1, <2>2, EndStep
<1>3. CASE PingRandomSuspected(n) \/ AddNeighbor(n)
  <2>1. PICK goal \in {"probe", "add"}, m \in Names : postMessage(n, "gossip", NewCall(n, goal, m))
    BY <1>3, NodeNames DEF PingRandomSuspected, GetRandomSuspect, AddNeighbor
  <2>2. NewCall(n, goal, m) \in Call /\ NewCall(n, goal, m).goal = goal
    BY <2>1, NewCallOK DEF Goals
  <2> QED
    BY <1>1, <2>1, <2>2, PostStep
<1> QED
  BY <1>2, <1>3 DEF Round

\* Choosing neighbours, and going on after a call has returned.
LEMMA ClientsStep ==
  ASSUME NamesInv, NamesInv', AnswersInv, NEW n \in Nodes,
         ChooseNeighbours(n) \/ Contacted(n) \/ ChooseForwards(n) \/ Asked(n)
  PROVE  AnswersInv'
<1> DEFINE c == call[n]["gossip"]
<1>1. /\ "gossip" \in Threads \ {"loop"} /\ serving' = serving
      /\ CallOK(n, c) /\ c \in Call
  BY OfNode, Zenon DEF ChooseNeighbours, Contacted, ChooseForwards, Asked, Threads, CallOK
<1>2. ~Waits(n, "gossip")
  BY Zenon DEF ChooseNeighbours, Contacted, ChooseForwards, Asked, Returned, Waits
<1>3. CASE ChooseNeighbours(n)
  <2>1. PICK others \in SUBSET Listed(n, "alive") : NextCall(n, [c EXCEPT !.left = others])
    BY <1>3 DEF ChooseNeighbours, GetUniqueNeighbors
  <2>2. [c EXCEPT !.left = others] \in Call
    BY <1>1, <2>1 DEF Call, Listed
  <2> QED
    BY <1>1, <1>2, <2>1, <2>2, NextCallStep
<1>4. CASE Asked(n)
  BY <1>1, <1>2, <1>4, NextCallStep DEF Asked
<1>5. CASE Contacted(n)
  <2>1. CASE NextCall(n, c)
    BY <1>1, <1>2, <2>1, NextCallStep, Zenon
  <2>2. CASE Ends(n, "gossip")
    BY <1>1, <1>2, <2>2, NoCallAnswer, EndStep DEF Ends
  <2>3. CASE /\ c.answer # "OK" /\ inbox' = inbox
             /\ SetCall(n, "gossip", [c EXCEPT !.goal = "suspected", !.about = c.to])
    <3> DEFINE d == [c EXCEPT !.goal = "suspected", !.about = c.to]
    <3>1. d.answer # "OK"
      BY <1>1, <2>3 DEF Call
    <3> HIDE DEF d
    <3> QED
      BY <1>1, <1>2, <2>3, <3>1, EndStep, Zenon DEF d
  <2>4. c.goal \in {"report", "add", "probe"}
    BY <1>5, Zenon DEF Contacted, Returned
  <2> QED
    BY <1>5, <2>1, <2>2, <2>3, <2>4, Zenon DEF Contacted
<1>6. CASE ChooseForwards(n)
  <2>1. PICK ask \in SUBSET Listed(n, "alive") : NextCall(n, [c EXCEPT !.ask = ask])
    BY <1>6, Zenon DEF ChooseForwards, GetUniqueNeighbors
  <2>2. [c EXCEPT !.ask = ask] \in Call
    BY <1>1, <2>1 DEF Call, Listed
  <2> QED
    BY <1>1, <1>2, <2>1, <2>2, NextCallStep
<1> QED
  BY <1>3, <1>4, <1>5, <1>6

\* A forwarding thread that is done.
LEMMA ForwardedStep ==
  ASSUME NamesInv, NamesInv', AnswersInv, NEW n \in Nodes, NEW f \in Forwarders, Forwarded(n, f)
  PROVE  AnswersInv'
<1>1. f \in Threads \ {"loop"} /\ ~Waits(n, f)
  BY NamesAssumption DEF Forwarded, Returned, Waits, Threads
<1> QED
  BY <1>1, NoCallAnswer, EndStep DEF Forwarded, Ends

-----------------------------------------------------------------------------
(* Timeouts and crashes.                                                     *)

\* What is still awaited after threads ts of n have closed their sockets.
LEMMA SocketsClosed ==
  ASSUME NamesInv, NEW n \in Nodes, NEW ts \in SUBSET Threads, NEW m \in Nodes
  PROVE  /\ \A r \in Inboxes(n, ts)[m] : r.awaited => r \in inbox[m] /\ \A t \in ts : ~Awaits(r, n, t)
         /\ LET s == InService(n, ts)[m].request IN
            /\ s = None <=> serving[m].request = None
            /\ s # None /\ s.awaited => s = serving[m].request /\ \A t \in ts : ~Awaits(s, n, t)
<1>1. \A r \in Request : Unawaited(r) \in Request /\ Unawaited(r).awaited = FALSE
  BY Zenon DEF Unawaited, Request
<1>2. inbox[m] \in SUBSET Request /\ serving[m] \in [request: Request \cup {None}, later: SUBSET Names]
  BY DEF NamesInv, InboxesOK, ServingsOK
<1>3. ASSUME NEW r \in Inboxes(n, ts)[m], r.awaited
      PROVE  r \in inbox[m] /\ \A t \in ts : ~Awaits(r, n, t)
  <2>1. PICK s \in inbox[m] : r = IF \E t \in ts : Awaits(s, n, t) THEN Unawaited(s) ELSE s
    BY DEF Inboxes
  <2> QED
    BY <1>1, <1>2, <1>3, <2>1
<1>4. CASE \E t \in ts : Awaits(serving[m].request, n, t)
  <2>1. serving[m].request # None /\ serving[m].request \in Request
    BY <1>2, <1>4 DEF Awaits
  <2>2. InService(n, ts)[m].request = Unawaited(serving[m].request)
    BY <1>2, <1>4 DEF InService
  <2> QED
    BY <1>1, <1>3, <2>1, <2>2, NoneAssumption
<1>5. CASE ~\E t \in ts : Awaits(serving[m].request, n, t)
  <2>1. InService(n, ts)[m] = serving[m]
    BY <1>5 DEF InService
  <2> QED
    BY <1>3, <1>5, <2>1
<1> QED
  BY <1>4, <1>5

\* A timeout.
LEMMA TimesOutStep ==
  ASSUME NamesInv, NamesInv', AnswersInv, NEW n \in Nodes, NEW t \in Threads,
         TimesOut(n, t) \/ TimesOutEarly(n, t)
  PROVE  AnswersInv'
<1> DEFINE c == [call[n][t] EXCEPT !.answer = "failed"]
<1>1. SetCall(n, t, c) /\ serving' = InService(n, {t})
  BY DEF TimesOut, TimesOutEarly, CallFails
<1>2. c.answer = "failed" /\ c.goal = call[n][t].goal
  BY OfNode DEF CallOK, Call
<1> HIDE DEF c
<1>3. \A k \in Nodes, u \in Threads : call'[k][u] = IF k = n /\ u = t THEN c ELSE call[k][u]
  BY <1>1, CallsAfter
<1>4. \A m \in Nodes : \A r \in inbox'[m] : r.awaited => r \in inbox[m] /\ ~Awaits(r, n, t)
  <2>1. CASE inbox' = Inboxes(n, {t})
    BY <2>1, SocketsClosed
  <2>2. CASE inbox' = [m \in Nodes |-> {r \in inbox[m] : ~Awaits(r, n, t)}]
    BY <2>2
  <2> QED
    BY <2>1, <2>2 DEF TimesOut, TimesOutEarly
<1>5. \A m \in Nodes :
        /\ serving'[m].request = None <=> serving[m].request = None
        /\ serving'[m].request # None /\ serving'[m].request.awaited
             => serving'[m].request = serving[m].request /\ ~Awaits(serving'[m].request, n, t)
  BY <1>1, SocketsClosed
<1>6. \A m \in Nodes : \A r \in Held(m)' : r.awaited => r \in Held(m) /\ ~Awaits(r, n, t)
  BY <1>4, <1>5 DEF Held
<1>7. \A k \in Nodes, u \in Threads :
        call'[k][u] = call[k][u] \/ \A m \in Nodes : \A r \in Held(m)' : ~Awaits(r, k, u)
  BY <1>3, <1>6 DEF Awaits
<1>8. \A k \in Nodes, u \in Threads : call'[k][u].answer = "OK" => call'[k][u].handled
  BY <1>2, <1>3 DEF AnswersInv, AckMeansHandled
<1>9. \A m \in Nodes : serving'[m].request # None /\ serving'[m].request.awaited
                         => serving'[m].request \notin inbox'[m]
  BY <1>4, <1>5, Zenon DEF AnswersInv, Once
<1>10. LoopsIdle'
  BY <1>2, <1>3, <1>5, OfNode, Zenon DEF AnswersInv, LoopsIdle
<1> QED
  BY <1>6, <1>7, <1>8, <1>9, <1>10, NothingNew

\* A crash.
LEMMA CrashStep ==
  ASSUME NamesInv, NamesInv', AnswersInv, NEW n \in Nodes, Crash(n)
  PROVE  AnswersInv'
<1>1. \A k \in Nodes, u \in Threads : call'[k][u] = IF k = n THEN NoCall(n) ELSE call[k][u]
  BY DEF Crash, NamesInv, CallsOK
<1>2. \A m \in Nodes : inbox'[m] = IF m = n THEN {} ELSE Inboxes(n, Threads)[m]
  BY InboxesKept DEF Crash
<1>3. \A m \in Nodes : serving'[m] = IF m = n THEN NotServing ELSE InService(n, Threads)[m]
  BY InServiceKept DEF Crash
<1>4. NotServing.request = None
  BY DEF NotServing
<1>5. \A m \in Nodes : \A r \in inbox'[m] :
        r.awaited => r \in inbox[m] /\ \A t \in Threads : ~Awaits(r, n, t)
  BY <1>2, SocketsClosed
<1>6. \A m \in Nodes :
        /\ m # n => (serving'[m].request = None <=> serving[m].request = None)
        /\ serving'[m].request # None /\ serving'[m].request.awaited
             => /\ serving'[m].request = serving[m].request
                /\ \A t \in Threads : ~Awaits(serving'[m].request, n, t)
  BY <1>3, <1>4, SocketsClosed
<1>7. \A m \in Nodes : \A r \in Held(m)' :
        r.awaited => r \in Held(m) /\ \A t \in Threads : ~Awaits(r, n, t)
  BY <1>5, <1>6 DEF Held
<1>8. \A k \in Nodes, u \in Threads :
        call'[k][u] = call[k][u] \/ \A m \in Nodes : \A r \in Held(m)' : ~Awaits(r, k, u)
  BY <1>1, <1>7 DEF Awaits
<1>9. \A k \in Nodes, u \in Threads : call'[k][u].answer = "OK" => call'[k][u].handled
  BY <1>1, NoCallAnswer DEF AnswersInv, AckMeansHandled
<1>10. \A m \in Nodes : serving'[m].request # None /\ serving'[m].request.awaited
                          => serving'[m].request \notin inbox'[m]
  BY <1>5, <1>6, Zenon DEF AnswersInv, Once
<1>11. LoopsIdle'
  BY <1>1, <1>6, NoCallAnswer, OfNode DEF AnswersInv, LoopsIdle
<1> QED
  BY <1>7, <1>8, <1>9, <1>10, <1>11, NothingNew

-----------------------------------------------------------------------------
(* The loop.                                                                 *)

\* The answer to r goes to the one call that awaits it.
LEMMA OneAnswer ==
  ASSUME NamesInv, AnswersInv, NEW n \in Nodes, NEW r \in Held(n), r.awaited,
         NEW m \in Nodes, NEW s \in Held(m), Awaits(s, r.from, r.thread)
  PROVE  m = n /\ s = r
<1>1. s.awaited /\ s.from = r.from /\ s.thread = r.thread
  BY DEF Awaits
<1>2. Pending(m, s) /\ Pending(n, r)
  BY <1>1 DEF AnswersInv, AwaitedOK
<1>3. m = n
  BY <1>1, <1>2, Zenon DEF Pending
<1> QED
  BY <1>1, <1>3 DEF AnswersInv, Once

\* The calls once r has been answered: `calls' are those there would be otherwise.
Answered(calls, r) ==
  \A k \in Nodes, u \in Threads :
    /\ call'[k][u] = calls[k][u] \/ (r.awaited /\ k = r.from /\ u = r.thread)
    /\ call'[k][u].goal = calls[k][u].goal
    /\ (calls[k][u].answer = "OK" => calls[k][u].handled)
         => (call'[k][u].answer = "OK" => call'[k][u].handled)

\* Reply leaves them so.
LEMMA CallsAnswered ==
  ASSUME NamesInv, AnswersInv, NEW n \in Nodes, NEW r \in Held(n),
         NEW calls \in [Nodes -> [Threads -> Call]],
         r.awaited => calls[r.from][r.thread] = call[r.from][r.thread],
         call' = Reply(calls, r, n)
  PROVE  Answered(calls, r)
<1>1. r.from \in Nodes /\ r.thread \in Threads
  BY HeldRequests
<1>2. CASE ~r.awaited
  BY <1>2 DEF Reply, Answered
<1>3. CASE r.awaited
  <2> DEFINE c == calls[r.from][r.thread]
             d == [c EXCEPT !.answer = "OK", !.handled = Host(c.to) = n /\ Type(c.goal) = r.type]
  <2>1. c \in Call /\ c = call[r.from][r.thread]
    BY <1>1, <1>3
  <2>2. Host(c.to) = n /\ Type(c.goal) = r.type
    BY <1>3, <2>1 DEF AnswersInv, AwaitedOK, Pending
  <2>3. call' = [calls EXCEPT ![r.from][r.thread] = d]
    BY <1>3 DEF Reply
  <2>4. d.handled = (Host(c.to) = n /\ Type(c.goal) = r.type) /\ d.goal = c.goal
    BY <2>1 DEF Call
  <2>5. d.handled
    BY <2>2, <2>4, Zenon
  <2> HIDE DEF d
  <2>6. \A k \in Nodes, u \in Threads :
          call'[k][u] = IF k = r.from /\ u = r.thread THEN d ELSE calls[k][u]
    BY <1>1, <2>3
  <2> QED
    BY <1>3, <2>4, <2>5, <2>6 DEF Answered
<1> QED
  BY <1>2, <1>3

\* What is held while nothing is in service.
LEMMA TakenStep ==
  ASSUME NamesInv, AnswersInv, NEW n \in Nodes, NEW r, Take(n, r)
  PROVE  /\ r \in Held(n) /\ Held(n) = inbox[n] /\ r \in Request /\ r # None
         /\ call[n]["loop"].goal = "idle" /\ ~Waits(n, "loop")
         /\ \A m \in Nodes : [inbox EXCEPT ![n] = @ \ {r}][m] = IF m = n THEN inbox[n] \ {r} ELSE inbox[m]
<1>1. r \in inbox[n] /\ serving[n].request = None
  BY DEF Take
<1>2. Held(n) = inbox[n]
  BY <1>1 DEF Held
<1>3. call[n]["loop"].goal = "idle"
  BY <1>1 DEF AnswersInv, LoopsIdle
<1>4. inbox \in [Nodes -> SUBSET Request]
  BY Zenon DEF NamesInv, InboxesOK
<1> QED
  BY <1>1, <1>2, <1>3, <1>4, NoneAssumption DEF Waits

\* A request that is answered at once.
LEMMA AnswerStep ==
  ASSUME NamesInv, NamesInv', AnswersInv, NEW n \in Nodes, NEW r, Take(n, r),
         inbox' = [inbox EXCEPT ![n] = @ \ {r}], call' = Reply(call, r, n), serving' = serving
  PROVE  AnswersInv'
<1>1. r \in Held(n) /\ r \in Request /\ Held(n) = inbox[n] /\ serving[n].request = None
  BY TakenStep, Zenon DEF Take
<1>2. \A m \in Nodes : inbox'[m] = IF m = n THEN inbox[n] \ {r} ELSE inbox[m]
  BY DEF NamesInv, InboxesOK
<1>3. call \in [Nodes -> [Threads -> Call]]
  BY Zenon DEF NamesInv, CallsOK
<1>4. Answered(call, r)
  BY <1>1, <1>3, CallsAnswered, Zenon
<1>5. /\ \A m \in Nodes : \A s \in Held(m)' : s \in Held(m)
      /\ r \notin Held(n)'
  BY <1>1, <1>2 DEF Held
<1>6. \A k \in Nodes, u \in Threads :
        call'[k][u] = call[k][u] \/ \A m \in Nodes : \A s \in Held(m)' : ~Awaits(s, k, u)
  BY <1>1, <1>4, <1>5, OneAnswer DEF Answered
<1>7. \A k \in Nodes, u \in Threads : call'[k][u].answer = "OK" => call'[k][u].handled
  BY <1>4 DEF AnswersInv, AckMeansHandled, Answered
<1>8. \A m \in Nodes : serving'[m].request # None /\ serving'[m].request.awaited
                         => serving'[m].request \notin inbox'[m]
  BY <1>2 DEF AnswersInv, Once
<1>9. LoopsIdle'
  BY <1>4, OfNode DEF AnswersInv, LoopsIdle, Answered
<1> QED
  BY <1>5, <1>6, <1>7, <1>8, <1>9, NothingNew

\* The loop has pinged the sender of a report back.
LEMMA PingedBackStep ==
  ASSUME NamesInv, NamesInv', AnswersInv, NEW n \in Nodes, PingedBack(n)
  PROVE  AnswersInv'
<1> DEFINE r == serving[n].request
           calls == [call EXCEPT ![n]["loop"] = NoCall(n)]
<1>1. "loop" \in Threads /\ ~Waits(n, "loop") /\ call[n]["loop"].goal = "ping_back"
  BY OfNode DEF PingedBack, Returned, Waits
<1>2. r # None /\ r \in Held(n)
  BY <1>1, Zenon DEF AnswersInv, LoopsIdle, Held
<1>3. /\ calls \in [Nodes -> [Threads -> Call]]
      /\ \A k \in Nodes, u \in Threads :
           calls[k][u] = IF k = n /\ u = "loop" THEN NoCall(n) ELSE call[k][u]
  BY <1>1, NoCallOK DEF NamesInv, CallsOK, CallOK
<1>4. r.awaited => Waits(r.from, r.thread)
  BY <1>2 DEF AnswersInv, AwaitedOK, Pending
<1>5. call' = Reply(calls, r, n) /\ inbox' = inbox /\ serving' = [serving EXCEPT ![n] = NotServing]
  BY DEF PingedBack
<1>6. r.from \in Nodes /\ r.thread \in Threads
  BY <1>2, HeldRequests
<1> HIDE DEF calls
<1>7. r.awaited => calls[r.from][r.thread] = call[r.from][r.thread]
  BY <1>1, <1>3, <1>4, <1>6, Zenon
<1>8. Answered(calls, r)
  BY <1>2, <1>3, <1>5, <1>7, CallsAnswered, Zenon
<1>9. \A m \in Nodes : serving'[m] = IF m = n THEN NotServing ELSE serving[m]
  BY <1>5, Zenon DEF NamesInv, ServingsOK
<1>10. NotServing.request = None
  BY DEF NotServing
<1>11. /\ \A m \in Nodes : \A s \in Held(m)' : s \in Held(m)
       /\ r.awaited => r \notin Held(n)'
  BY <1>2, <1>5, <1>9, <1>10 DEF Held, AnswersInv, Once
<1>12. Free(n, "loop")
  BY <1>1, FreeIfNotWaiting, Zenon
<1> HIDE DEF r
<1>13. \A k \in Nodes, u \in Threads :
         call'[k][u] = call[k][u] \/ \A m \in Nodes : \A s \in Held(m)' : ~Awaits(s, k, u)
  BY <1>2, <1>3, <1>8, <1>11, <1>12, OneAnswer DEF Free, Answered
<1>14. \A k \in Nodes, u \in Threads : call'[k][u].answer = "OK" => call'[k][u].handled
  BY <1>3, <1>8, NoCallAnswer DEF AnswersInv, AckMeansHandled, Answered
<1>15. \A m \in Nodes : serving'[m].request # None /\ serving'[m].request.awaited
                          => serving'[m].request \notin inbox'[m]
  BY <1>5, <1>9, <1>10, Zenon DEF AnswersInv, Once
<1>16. LoopsIdle'
  BY <1>1, <1>3, <1>8, <1>9, NoCallAnswer DEF AnswersInv, LoopsIdle, Answered
<1> QED
  BY <1>11, <1>13, <1>14, <1>15, <1>16, NothingNew

\* What remains once r has been taken.
Rest(n, r) == [inbox EXCEPT ![n] = @ \ {r}]

\* The inboxes once r has been taken and msg has been put.
TakenAndPut(n, r, to, msg) ==
  /\ Host(to) \notin up => \A m \in Nodes : inbox'[m] = IF m = n THEN inbox[n] \ {r} ELSE inbox[m]
  /\ Host(to) \in up =>
       /\ Host(to) \in Nodes
       /\ \A m \in Nodes : inbox'[m] = (IF m = n THEN inbox[n] \ {r} ELSE inbox[m])
                                         \cup (IF m = Host(to) THEN {msg} ELSE {})

\* The only request that is new to a node is the one that was put.
LEMMA PutHeld ==
  ASSUME NEW n, NEW r, NEW to, NEW msg, TakenAndPut(n, r, to, msg)
  PROVE  \A m \in Nodes : \A s \in inbox'[m] :
           s \in inbox[m] \/ (s = msg /\ m = Host(to) /\ Host(to) \in up)
BY DEF TakenAndPut

\* What the inboxes hold once a loop has taken a request and sent another.
LEMMA PutStep ==
  ASSUME NamesInv, NEW n \in Nodes, NEW r, NEW to, NEW msg, inbox' = Put(Rest(n, r), to, msg)
  PROVE  TakenAndPut(n, r, to, msg)
<1>1. /\ Rest(n, r) \in [Nodes -> SUBSET Request]
      /\ \A m \in Nodes : Rest(n, r)[m] = IF m = n THEN inbox[n] \ {r} ELSE inbox[m]
  BY DEF NamesInv, InboxesOK, Rest
<1>2. up \subseteq Nodes
  BY DEF NamesInv
<1> QED
  BY <1>1, <1>2, Zenon DEF Put, TakenAndPut

\* A request to ping: a detached thread calls, and the request is answered.
LEMMA ForwardStep ==
  ASSUME NamesInv, NamesInv', AnswersInv, NEW n \in Nodes, NEW r, OnForwardRequest(n, r)
  PROVE  AnswersInv'
<1>2. PICK f \in Forwarders : f = (CHOOSE g \in Forwarders : call[n][g].goal = "idle") /\ call[n][f].goal = "idle"
  BY DEF OnForwardRequest
<1> DEFINE c == [NewCall(n, "forward", ForwardTo(r)) EXCEPT
                   !.report = [NoReport(r.from) EXCEPT !.suspect_s = {r.about}]]
           msg == Message(n, f, c)
           calls == [call EXCEPT ![n][f] = c]
<1>1. /\ Take(n, r) /\ call' = Reply(calls, r, n) /\ serving' = serving
      /\ inbox' = Put(Rest(n, r), c.to, msg)
  BY <1>2 DEF OnForwardRequest, Rest
<1>3. f \in Threads \ {"loop"} /\ ~Waits(n, f)
  BY <1>2, NamesAssumption, Zenon DEF Waits, Threads
<1>4. r \in Held(n) /\ Held(n) = inbox[n] /\ r \in Request /\ r # None /\ r.from \in Nodes /\ r.thread \in Threads
  BY <1>1, TakenStep, HeldRequests, Zenon
<1>5. CallOK(n, c) /\ c.goal = "forward" /\ c.answer = "none" /\ c \in Call
  <2>1. RequestOK(n, r) /\ r.type = "request"
    BY OfNode DEF OnForwardRequest, Take
  <2>2. CallOK(n, c) /\ c.goal = "forward"
    BY <2>1, ForwardOK DEF ForwardTo
  <2>3. c.answer = "none"
    BY DEF NewCall, NoCall
  <2> QED
    BY <2>2, <2>3 DEF CallOK
<1>6. msg.from = n /\ msg.thread = f /\ msg.awaited = TRUE /\ msg.type = Type(c.goal)
  BY DEF Message
<1> HIDE DEF c, msg
<1>7. /\ calls \in [Nodes -> [Threads -> Call]]
      /\ \A k \in Nodes, u \in Threads : calls[k][u] = IF k = n /\ u = f THEN c ELSE call[k][u]
  BY <1>3, <1>5 DEF NamesInv, CallsOK
<1> HIDE DEF calls
<1>8. Free(n, f)
  BY <1>3, FreeIfNotWaiting
<1>9. r.awaited => ~(r.from = n /\ r.thread = f)
  BY <1>4, <1>8, Zenon DEF Free, Awaits
<1>10. Answered(calls, r)
  <2>1. r.awaited => calls[r.from][r.thread] = call[r.from][r.thread]
    BY <1>4, <1>7, <1>9, Zenon
  <2> QED
    BY <1>1, <1>4, <1>7, <2>1, CallsAnswered, Zenon
<1>11. call'[n][f] = c
  BY <1>3, <1>7, <1>9, <1>10 DEF Answered
<1>19. TakenAndPut(n, r, c.to, msg)
  BY <1>1, PutStep, Zenon
<1>12. \A m \in Nodes : \A s \in Held(m)' :
         \/ s \in Held(m) /\ (m = n => s # r)
         \/ s = msg /\ m = Host(c.to) /\ Host(c.to) \in up
  BY <1>19, <1>1, <1>4 DEF TakenAndPut, Held, Take
<1>13. \A k \in Nodes, u \in Threads :
         <<k, u>> # <<n, f>> =>
           call'[k][u] = call[k][u] \/ \A m \in Nodes : \A s \in Held(m)' : ~Awaits(s, k, u)
  <2>1. ASSUME NEW k \in Nodes, NEW u \in Threads, <<k, u>> # <<n, f>>, call'[k][u] # call[k][u],
               NEW m \in Nodes, NEW s \in Held(m)', Awaits(s, k, u)
        PROVE  FALSE
    <3>1. r.awaited /\ k = r.from /\ u = r.thread
      BY <1>7, <1>10, <2>1 DEF Answered
    <3>2. s \in Held(m) /\ (m = n => s # r)
      BY <1>6, <1>12, <2>1, Zenon DEF Awaits
    <3> QED
      BY <1>4, <2>1, <3>1, <3>2, OneAnswer, Zenon
  <2> QED
    BY <2>1
<1>14. \A k \in Nodes, u \in Threads : call'[k][u].answer = "OK" => call'[k][u].handled
  BY <1>5, <1>7, <1>10 DEF AnswersInv, AckMeansHandled, Answered
<1>15. \A m \in Nodes : serving'[m].request # None /\ serving'[m].request.awaited
                          => serving'[m].request \notin inbox'[m]
  <2>1. ASSUME NEW m \in Nodes, serving[m].request # None, serving[m].request.awaited,
               serving[m].request \in inbox'[m]
        PROVE  FALSE
    <3>1. serving[m].request \in Held(m) /\ serving[m].request \notin inbox[m]
      BY <2>1, Zenon DEF AnswersInv, Once, Held
    <3>2. serving[m].request = msg
      BY <1>19, <2>1, <3>1 DEF TakenAndPut
    <3> QED
      BY <1>6, <1>8, <2>1, <3>1, <3>2, Zenon DEF Free, Awaits
  <2> QED
    BY <1>1, <2>1
<1>16. LoopsIdle'
  <2>1. f # "loop" /\ "loop" \in Threads /\ serving' = serving
    BY <1>1, <1>3, OfNode, Zenon
  <2>2. \A m \in Nodes : call'[m]["loop"].goal = call[m]["loop"].goal
    BY <1>7, <1>10, <2>1 DEF Answered
  <2> QED
    BY <2>1, <2>2, Zenon DEF AnswersInv, LoopsIdle
<1>17. CASE Host(c.to) \notin up
  <2>1. \A m \in Nodes : \A s \in Held(m)' : s \in Held(m)
    BY <1>12, <1>17, Zenon
  <2>2. \A k \in Nodes, u \in Threads :
          call'[k][u] = call[k][u] \/ \A m \in Nodes : \A s \in Held(m)' : ~Awaits(s, k, u)
    BY <1>8, <1>13, <2>1 DEF Free
  <2> QED
    BY <1>14, <1>15, <1>16, <2>1, <2>2, NothingNew
<1>18. CASE Host(c.to) \in up
  <2>1. msg \in inbox'[Host(c.to)] /\ Host(c.to) \in Nodes
    BY <1>19, <1>18 DEF TakenAndPut
  <2>2. msg \in Request
    BY <2>1 DEF NamesInv, InboxesOK
  <2>3. Waits(n, f)' /\ Type(call'[n][f].goal) = msg.type
    BY <1>5, <1>6, <1>11 DEF Waits
  <2>4. \A m \in Nodes : \A s \in Held(m)' :
          s.awaited => s \in Held(m) \/ (s = msg /\ m = Host(call'[n][f].to))
    BY <1>11, <1>12, Zenon
  <2>5. CallsRespected(n, f)
    BY <1>13 DEF CallsRespected
  <2> QED
    BY <1>3, <1>6, <1>8, <1>14, <1>15, <1>16, <2>2, <2>3, <2>4, <2>5, OneNew, Zenon
<1> QED
  BY <1>17, <1>18

\* A report of a suspicion: the loop keeps the request and pings the sender back.
LEMMA PingBackStep ==
  ASSUME NamesInv, NamesInv', AnswersInv, NEW n \in Nodes, NEW r, Take(n, r), NEW c \in Call,
         c.goal = "ping_back", c.answer = "none", SetCall(n, "loop", c),
         inbox' = Put(Rest(n, r), c.to, Message(n, "loop", c)),
         NEW later, serving' = [serving EXCEPT ![n] = [request |-> r, later |-> later]]
  PROVE  AnswersInv'
<1> DEFINE msg == Message(n, "loop", c)
<1>1. "loop" \in Threads /\ ~Waits(n, "loop") /\ Free(n, "loop")
  BY TakenStep, OfNode, FreeIfNotWaiting, Zenon
<1>2. r \in Held(n) /\ Held(n) = inbox[n] /\ r \in Request /\ r # None
  BY TakenStep, Zenon
<1>3. \A k \in Nodes, u \in Threads : call'[k][u] = IF k = n /\ u = "loop" THEN c ELSE call[k][u]
  BY <1>1, CallsAfter
<1>4. \A m \in Nodes : serving'[m].request = IF m = n THEN r ELSE serving[m].request
  BY Zenon DEF NamesInv, ServingsOK
<1>5. msg.from = n /\ msg.thread = "loop" /\ msg.awaited = TRUE /\ msg.type = Type(c.goal)
  BY DEF Message
<1>6. TakenAndPut(n, r, c.to, msg)
  BY PutStep
<1> HIDE DEF msg
<1>7. \A m \in Nodes : \A s \in Held(m)' :
        s \in Held(m) \/ (s = msg /\ m = Host(c.to) /\ Host(c.to) \in up)
  <2>1. \A m \in Nodes : \A s \in inbox'[m] :
          s \in inbox[m] \/ (s = msg /\ m = Host(c.to) /\ Host(c.to) \in up)
    BY <1>6, PutHeld, Zenon
  <2>2. \A m \in Nodes : \A s \in Held(m)' : s \in inbox'[m] \/ s \in Held(m)
    BY <1>2, <1>4, Zenon DEF Held
  <2> QED
    BY <2>1, <2>2, Zenon DEF Held
<1>8. \A k \in Nodes, u \in Threads : call'[k][u].answer = "OK" => call'[k][u].handled
  BY <1>3, Zenon DEF AnswersInv, AckMeansHandled
<1>9. \A m \in Nodes : serving'[m].request # None /\ serving'[m].request.awaited
                         => serving'[m].request \notin inbox'[m]
  <2>1. ASSUME NEW m \in Nodes, NEW s \in Held(m), s.awaited, s # None PROVE s # msg
    BY <1>1, <1>5, <2>1, Zenon DEF Free, Awaits
  <2>2. ASSUME NEW m \in Nodes, m # n, serving[m].request # None, serving[m].request.awaited
        PROVE  serving[m].request \notin inbox'[m]
    <3>1. serving[m].request \in Held(m) /\ serving[m].request \notin inbox[m]
      BY <2>2, Zenon DEF AnswersInv, Once, Held
    <3> QED
      BY <1>6, <2>1, <2>2, <3>1, Zenon DEF TakenAndPut
  <2>3. r.awaited => r \notin inbox'[n]
    BY <1>2, <1>6, <2>1 DEF TakenAndPut
  <2> QED
    BY <1>4, <2>2, <2>3
<1>10. LoopsIdle'
  <2>1. ASSUME NEW m \in Nodes, serving'[m].request = None
        PROVE  m # n /\ serving[m].request = None
    BY <1>2, <1>4, <2>1, Zenon
  <2>2. ASSUME NEW m \in Nodes, m # n PROVE call'[m]["loop"] = call[m]["loop"]
    BY <1>1, <1>3, <2>2, Zenon
  <2> QED
    BY <2>1, <2>2, Zenon DEF AnswersInv, LoopsIdle
<1>11. CASE Host(c.to) \notin up
  <2>1. \A m \in Nodes : \A s \in Held(m)' : s \in Held(m)
    BY <1>7, <1>11
  <2>2. \A k \in Nodes, u \in Threads :
          call'[k][u] = call[k][u] \/ \A m \in Nodes : \A s \in Held(m)' : ~Awaits(s, k, u)
    BY <1>1, <1>3, <2>1, Zenon DEF Free
  <2> QED
    BY <1>8, <1>9, <1>10, <2>1, <2>2, NothingNew, Zenon
<1>12. CASE Host(c.to) \in up
  <2>1. msg \in inbox'[Host(c.to)] /\ Host(c.to) \in Nodes
    BY <1>6, <1>12, Zenon DEF TakenAndPut
  <2>2. msg \in Request
    BY <2>1 DEF NamesInv, InboxesOK
  <2>3. call'[n]["loop"] = c
    BY <1>1, <1>3, Zenon
  <2>4. Waits(n, "loop")' /\ Type(call'[n]["loop"].goal) = msg.type
    BY <1>5, <2>3, Zenon DEF Waits
  <2>5. \A m \in Nodes : \A s \in Held(m)' :
          s.awaited => s \in Held(m) \/ (s = msg /\ m = Host(call'[n]["loop"].to))
    BY <1>7, <2>3, Zenon
  <2>6. CallsRespected(n, "loop")
    BY <1>3, Zenon DEF CallsRespected
  <2> QED
    BY <1>1, <1>5, <1>8, <1>9, <1>10, <2>2, <2>4, <2>5, <2>6, OneNew, Zenon
<1> QED
  BY <1>11, <1>12

\* A report.
LEMMA ReportStep ==
  ASSUME NamesInv, NamesInv', AnswersInv, NEW n \in Nodes, NEW r, OnReport(n, r)
  PROVE  AnswersInv'
<1> DEFINE c == NewCall(n, "ping_back", PingBackTo(r))
<1>1. Take(n, r)
  BY Zenon DEF OnReport
<1>2. CASE /\ call' = Reply(call, r, n) /\ serving' = serving
           /\ inbox' = [inbox EXCEPT ![n] = @ \ {r}]
  BY <1>1, <1>2, AnswerStep, Zenon
<1>3. ASSUME NEW later, SetCall(n, "loop", c),
             serving' = [serving EXCEPT ![n] = [request |-> r, later |-> later]],
             inbox' = Put(Rest(n, r), c.to, Message(n, "loop", c))
      PROVE  AnswersInv'
  <2>1. RequestOK(n, r)
    BY <1>1, OfNode, Zenon DEF Take
  <2>2. c \in Call /\ c.goal = "ping_back"
    BY <2>1, PingBackOK, Zenon DEF CallOK
  <2>3. c.answer = "none"
    BY Zenon DEF NewCall, NoCall
  <2> HIDE DEF c
  <2> QED
    BY <1>1, <1>3, <2>2, <2>3, PingBackStep, Zenon
<1> QED
  BY <1>2, <1>3, Zenon DEF OnReport, Rest

-----------------------------------------------------------------------------
(* The theorem.                                                              *)

\* Every step keeps the invariant.
LEMMA AnswersStep ==
  ASSUME NamesInv, NamesInv', AnswersInv, [Next]_vars
  PROVE  AnswersInv'
<1>1. ASSUME NEW n \in Nodes, GarbageCollectSuspected(n) \/ Restart(n) PROVE AnswersInv'
  BY <1>1, NothingHappens DEF GarbageCollectSuspected, Restart
<1>2. ASSUME NEW n \in Nodes, Round(n) \/ Crash(n) PROVE AnswersInv'
  BY <1>2, RoundStep, CrashStep
<1>3. ASSUME NEW n \in Nodes, LoopStep(n) PROVE AnswersInv'
  <2>1. ASSUME NEW r \in inbox[n], OnUpdate(n, r) PROVE AnswersInv'
    BY <2>1, AnswerStep, Zenon DEF OnUpdate
  <2> QED
    BY <1>3, <2>1, PingedBackStep, ReportStep, ForwardStep, Zenon DEF LoopStep
<1>4. ASSUME NEW n \in Nodes, ClientStep(n) PROVE AnswersInv'
  BY <1>4, ClientsStep, ForwardedStep, TimesOutStep DEF ClientStep
<1>5. ASSUME NEW n \in Nodes, NEW t \in Threads, TimesOutEarly(n, t) PROVE AnswersInv'
  BY <1>5, TimesOutStep
<1>6. CASE UNCHANGED vars
  BY <1>6, NothingHappens DEF vars
<1> QED
  BY <1>1, <1>2, <1>3, <1>4, <1>5, <1>6, Zenon DEF Next

\* Whatever is lost, late or crashes: a client that is told "OK" (postMessage returns
\* true) was told so by the node it called, which has handled the request.
THEOREM AckTheorem == Spec => []AckMeansHandled
<1>1. Init => NamesInv /\ AnswersInv
  BY InitOK, AnswersInit
<1>2. NamesInv /\ AnswersInv /\ [Next]_vars => (NamesInv /\ AnswersInv)'
  BY NamesStep, AnswersStep
<1>3. AnswersInv => AckMeansHandled
  BY DEF AnswersInv
<1> QED
  BY <1>1, <1>2, <1>3, PTL DEF Spec

-----------------------------------------------------------------------------
(* Nobody is suspected without a fault: the inductive invariant.             *)

\* A table, and a report, without suspects.
CalmTable(tbl) == \A m \in Names : tbl[m] \notin Suspicions
CalmReport(report) == report.suspect = {} /\ report.suspect_s = {}

\* Nobody is asked to ping anybody.
CalmRequest(r) == r.type # "request" /\ CalmReport(r.report)

CalmCall(c) ==
  /\ c.goal \in {"idle", "prepared", "report", "add"} /\ c.answer # "failed"
  /\ c.ask = {} /\ CalmReport(c.report)

\* The node that is called has the request that thread t of n waits for the answer to.
Received(n, t) == \E r \in inbox[Host(call[n][t].to)] : Awaits(r, n, t)

\* Everybody runs, nobody is suspected or about to be, no loop waits for an answer,
\* and who waits for one has been heard.
Calm ==
  /\ up = Nodes
  /\ \A n \in Nodes : CalmTable(table[n])
  /\ \A n \in Nodes : \A r \in inbox[n] : CalmRequest(r)
  /\ \A n \in Nodes, t \in Threads : CalmCall(call[n][t])
  /\ \A n \in Nodes : serving[n].request = None
  /\ \A n \in Nodes, t \in Threads : Waits(n, t) => Received(n, t)

CalmInv == faults = MaxFaults => Calm

-----------------------------------------------------------------------------
(* The clients.                                                              *)

\* Who waits has called a node.
LEMMA CalmCalled ==
  ASSUME NamesInv, Calm, NEW n \in Nodes, NEW t \in Threads, Waits(n, t)
  PROVE  Host(call[n][t].to) \in Nodes
<1>1. CallOK(n, call[n][t]) /\ CalmCall(call[n][t])
  BY OfNode, Zenon DEF Calm
<1>2. call[n][t].goal \in {"report", "add"}
  BY <1>1, Zenon DEF Waits, CalmCall
<1>3. call[n][t].to \in Nodes
  BY <1>1, <1>2, Zenon DEF CallOK
<1> QED
  BY <1>3, NodeNames, Zenon

\* The calls after one has been replaced.
LEMMA OneCall ==
  ASSUME NamesInv, NEW n \in Nodes, NEW t \in Threads, NEW c, SetCall(n, t, c)
  PROVE  \A m \in Nodes, u \in Threads : call'[m][u] = IF m = n /\ u = t THEN c ELSE call[m][u]
BY DEF SetCall, NamesInv, CallsOK

\* The tables after one has been replaced.
LEMMA CalmTables ==
  ASSUME NamesInv, Calm, NEW n \in Nodes, NEW tbl, CalmTable(tbl), SetTable(n, tbl)
  PROVE  \A m \in Nodes : CalmTable(table'[m])
<1>1. \A m \in Nodes : table'[m] = IF m = n THEN tbl ELSE table[m]
  BY DEF SetTable, NamesInv, TablesOK
<1> QED
  BY <1>1 DEF Calm

\* A server recorded as alive is no suspect.
LEMMA CalmAddAlive ==
  ASSUME NEW tbl \in [Names -> Status], CalmTable(tbl), NEW m
  PROVE  CalmTable(AddAlive(tbl, m)) /\ AddAlive(tbl, m) \in [Names -> Status]
BY Zenon DEF CalmTable, AddAlive, Suspicions, Status

\* A call that is not, or no longer, waiting.
LEMMA CalmEnd ==
  ASSUME NamesInv, Calm, NEW n \in Nodes, NEW t \in Threads,
         NEW c, CalmCall(c), c.goal \in {"idle", "prepared"}, SetCall(n, t, c),
         up' = up, inbox' = inbox, serving' = serving, \A m \in Nodes : CalmTable(table'[m])
  PROVE  Calm'
<1>1. \A m \in Nodes, u \in Threads : call'[m][u] = IF m = n /\ u = t THEN c ELSE call[m][u]
  BY OneCall
<1>2. \A m \in Nodes, u \in Threads : CalmCall(call'[m][u])
  BY <1>1, Zenon DEF Calm
<1>3. \A m \in Nodes, u \in Threads : Waits(m, u)' => Received(m, u)'
  BY <1>1, Zenon DEF Calm, Waits, Received
<1> QED
  BY <1>2, <1>3, Zenon DEF Calm

\* The calls that report and the pings of AddNeighbor reach their node.
LEMMA CalmPost ==
  ASSUME NamesInv, Calm, NEW n \in Nodes, NEW t \in Threads,
         NEW c \in Call, CalmCall(c), c.goal \in {"report", "add"}, c.to \in Nodes,
         postMessage(n, t, c),
         up' = up, serving' = serving, \A m \in Nodes : CalmTable(table'[m])
  PROVE  Calm'
<1> DEFINE d == [c EXCEPT !.answer = "none", !.handled = FALSE]
           msg == Message(n, t, c)
<1>1. CalmCall(d) /\ d.to = c.to
  BY DEF Call, CalmCall
<1>2. SetCall(n, t, d) /\ inbox' = Put(inbox, c.to, msg)
  BY Zenon DEF postMessage
<1>3. msg.from = n /\ msg.thread = t /\ msg.awaited = TRUE
  BY DEF Message
<1>4. CalmRequest(msg)
  BY DEF Message, Type, CalmRequest, CalmCall, CalmReport, NoReport
<1>5. msg # None
  <2>1. c.to \in Names /\ NoReport(n) \in Report /\ c.report \in Report
    BY NodeNames DEF NoReport, Report, Call
  <2>2. msg \in Request
    BY <2>1, Zenon DEF Message, Type, Request
  <2> QED
    BY <2>2, NoneAssumption, Zenon
<1> HIDE DEF d, msg
<1>6. \A m \in Nodes, u \in Threads : call'[m][u] = IF m = n /\ u = t THEN d ELSE call[m][u]
  BY <1>2, OneCall
<1>7. \A m \in Nodes : inbox'[m] = IF m = c.to THEN inbox[m] \cup {msg} ELSE inbox[m]
  BY <1>2, NodeNames, Zenon DEF Put, Calm, NamesInv, InboxesOK
<1>8. \A m \in Nodes, u \in Threads : CalmCall(call'[m][u])
  BY <1>1, <1>6, Zenon DEF Calm
<1>9. \A m \in Nodes : \A r \in inbox'[m] : CalmRequest(r)
  BY <1>4, <1>7, Zenon DEF Calm
<1>10. ASSUME NEW m \in Nodes, NEW u \in Threads, Waits(m, u)' PROVE Received(m, u)'
  <2>1. CASE m = n /\ u = t
    <3>1. call'[m][u].to = c.to /\ Host(c.to) = c.to
      BY <1>1, <1>6, <2>1, NodeNames
    <3>2. msg \in inbox'[Host(call'[m][u].to)]
      BY <1>7, <3>1, Zenon
    <3>3. Awaits(msg, m, u)
      BY <1>3, <1>5, <2>1 DEF Awaits
    <3> QED
      BY <3>2, <3>3, Zenon DEF Received
  <2>2. CASE ~(m = n /\ u = t)
    <3>1. call'[m][u] = call[m][u] /\ Waits(m, u)
      BY <1>6, <1>10, <2>2, Zenon DEF Waits
    <3>2. PICK r \in inbox[Host(call[m][u].to)] : Awaits(r, m, u)
      BY <3>1, Zenon DEF Calm, Received
    <3>3. Host(call[m][u].to) \in Nodes
      BY <3>1, CalmCalled, Zenon
    <3> QED
      BY <1>7, <3>1, <3>2, <3>3, Zenon DEF Received
  <2> QED
    BY <2>1, <2>2, Zenon
<1> QED
  BY <1>8, <1>9, <1>10 DEF Calm

\* An idle call.
LEMMA CalmNoCall ==
  ASSUME NEW n
  PROVE  CalmCall(NoCall(n)) /\ NoCall(n).goal = "idle"
BY Zenon DEF NoCall, NoReport, CalmCall, CalmReport

\* The next call of a round that asks nobody to ping anybody.
LEMMA CalmNextCall ==
  ASSUME NamesInv, Calm, NEW n \in Nodes,
         NEW c \in Call, CalmCall(c), c.left \subseteq Nodes, NextCall(n, c),
         up' = up, serving' = serving, \A m \in Nodes : CalmTable(table'[m])
  PROVE  Calm'
<1>1. "gossip" \in Threads /\ c.ask = {}
  BY Zenon DEF Threads, CalmCall
<1>2. ASSUME NEW m \in c.left,
             postMessage(n, "gossip", [c EXCEPT !.goal = "report", !.to = m, !.left = @ \ {m},
                                                !.about = None])
      PROVE  Calm'
  <2> DEFINE d == [c EXCEPT !.goal = "report", !.to = m, !.left = @ \ {m}, !.about = None]
  <2>1. m \in Nodes /\ m \in Names
    BY NodeNames
  <2>2. d \in Call /\ d.goal = "report" /\ d.to = m /\ CalmCall(d)
    BY <2>1, Zenon DEF Call, CalmCall
  <2>3. postMessage(n, "gossip", d)
    BY <1>2, Zenon
  <2> HIDE DEF d
  <2> QED
    BY <1>1, <2>1, <2>2, <2>3, CalmPost, Zenon
<1>3. CASE Ends(n, "gossip")
  BY <1>1, <1>3, CalmNoCall, CalmEnd DEF Ends
<1> QED
  BY <1>1, <1>2, <1>3, Zenon DEF NextCall

\* The background threads find nobody to probe.
LEMMA CalmRound ==
  ASSUME NamesInv, Calm, NEW n \in Nodes, Round(n)
  PROVE  Calm'
<1>1. "gossip" \in Threads /\ up' = up /\ serving' = serving /\ \A m \in Nodes : CalmTable(table'[m])
  BY DEF Round, Threads, Calm
<1>2. CASE SendReport(n)
  <2> DEFINE c == [NewCall(n, "prepared", None) EXCEPT !.report = PrepareReport(n)]
  <2>1. CalmReport(PrepareReport(n))
    BY Zenon DEF Calm, CalmTable, CalmReport, PrepareReport, Listed, Suspicions
  <2>2. CalmCall(c) /\ c.goal = "prepared"
    BY <2>1 DEF NewCall, NoCall, CalmCall
  <2>3. SetCall(n, "gossip", c) /\ inbox' = inbox
    BY <1>2 DEF SendReport
  <2> HIDE DEF c
  <2> QED
    BY <1>1, <2>2, <2>3, CalmEnd
<1>3. CASE PingRandomSuspected(n)
  BY <1>3, Zenon DEF PingRandomSuspected, GetRandomSuspect, Calm, CalmTable
<1>4. CASE AddNeighbor(n)
  <2>1. PICK m \in Nodes : postMessage(n, "gossip", NewCall(n, "add", m))
    BY <1>4, Zenon DEF AddNeighbor
  <2>2. NewCall(n, "add", m) \in Call
    BY <2>1, NewCallOK, NodeNames DEF Goals
  <2>3. /\ NewCall(n, "add", m).goal = "add" /\ NewCall(n, "add", m).to = m
        /\ CalmCall(NewCall(n, "add", m))
    BY DEF NewCall, NoCall, NoReport, CalmCall, CalmReport
  <2> QED
    BY <1>1, <2>1, <2>2, <2>3, CalmPost, Zenon
<1> QED
  BY <1>2, <1>3, <1>4, Zenon DEF Round

\* Calls go on, and those that return have succeeded.
LEMMA CalmClient ==
  ASSUME NamesInv, Calm, NEW n \in Nodes, ClientStep(n)
  PROVE  Calm'
<1> DEFINE c == call[n]["gossip"]
<1>1. "gossip" \in Threads /\ CallOK(n, c) /\ c \in Call /\ CalmCall(c) /\ c.left \subseteq Nodes
  BY OfNode, Zenon DEF CallOK, Calm
<1>2. CASE ChooseNeighbours(n)
  <2>1. PICK others \in SUBSET Listed(n, "alive") : NextCall(n, [c EXCEPT !.left = others])
    BY <1>2, Zenon DEF ChooseNeighbours, GetUniqueNeighbors
  <2> DEFINE d == [c EXCEPT !.left = others]
  <2>2. others \subseteq Nodes /\ others \subseteq Names
    BY <2>1, OfNode DEF Listed
  <2>3. d \in Call /\ CalmCall(d) /\ d.left = others
    BY <1>1, <2>2 DEF Call, CalmCall
  <2>4. NextCall(n, d) /\ up' = up /\ serving' = serving /\ \A m \in Nodes : CalmTable(table'[m])
    BY <1>2, <2>1, Zenon DEF ChooseNeighbours, Calm
  <2> HIDE DEF d
  <2> QED
    BY <2>2, <2>3, <2>4, CalmNextCall
<1>3. CASE Contacted(n)
  <2>1. c.answer = "OK"
    BY <1>1, <1>3, Zenon DEF Contacted, Returned, Call, CalmCall
  <2>2. SetTable(n, AddAlive(table[n], c.to)) /\ NextCall(n, c) /\ up' = up /\ serving' = serving
    BY <1>3, <2>1, Zenon DEF Contacted
  <2>3. CalmTable(AddAlive(table[n], c.to))
    BY CalmAddAlive, Zenon DEF Calm, NamesInv, TablesOK
  <2>4. \A m \in Nodes : CalmTable(table'[m])
    BY <2>2, <2>3, CalmTables, Zenon
  <2> QED
    BY <1>1, <2>2, <2>4, CalmNextCall
<1>4. ~Asked(n) /\ ~ChooseForwards(n)
  BY <1>1 DEF Asked, ChooseForwards, Returned, CalmCall
<1>5. ASSUME NEW f \in Forwarders PROVE ~Forwarded(n, f)
  BY OfNode, Zenon DEF Forwarded, Returned, Calm, CalmCall
<1>6. ASSUME NEW t \in Threads PROVE ~TimesOut(n, t)
  <2> SUFFICES ASSUME Waits(n, t) PROVE ~Overdue(n, t)
    BY DEF TimesOut, Overdue
  <2>1. Host(call[n][t].to) \in Nodes
    BY CalmCalled, Zenon
  <2> QED
    BY <2>1, Zenon DEF Overdue, Calm, Received
<1> QED
  BY <1>2, <1>3, <1>4, <1>5, <1>6 DEF ClientStep

-----------------------------------------------------------------------------
(* The loops.                                                                *)

\* A request is answered at once, and whoever else waits is still heard.
LEMMA CalmAnswer ==
  ASSUME NamesInv, Calm, NEW n \in Nodes, NEW r \in inbox[n],
         call' = Reply(call, r, n), inbox' = [inbox EXCEPT ![n] = @ \ {r}],
         up' = up, serving' = serving, \A m \in Nodes : CalmTable(table'[m])
  PROVE  Calm'
<1>1. r.from \in Nodes /\ r.thread \in Threads
  BY OfNode, Zenon DEF RequestOK, Request
<1>2. ASSUME NEW m \in Nodes, NEW u \in Threads
      PROVE  /\ CalmCall(call'[m][u])
             /\ ~Awaits(r, m, u) => call'[m][u] = call[m][u]
             /\ Awaits(r, m, u) => ~Waits(m, u)'
  <2>1. call[m][u] \in Call /\ CalmCall(call[m][u])
    BY OfNode, Zenon DEF CallOK, Calm
  <2>2. r # None
    BY NoneAssumption, OfNode DEF RequestOK
  <2>3. CASE Awaits(r, m, u)
    <3> DEFINE h == Host(call[m][u].to) = n /\ Type(call[m][u].goal) = r.type
    <3>1. call'[m][u] = [call[m][u] EXCEPT !.answer = "OK", !.handled = h]
      BY <1>1, <2>3, Zenon DEF Reply, Awaits, NamesInv, CallsOK
    <3> HIDE DEF h
    <3>2. CalmCall(call'[m][u]) /\ call'[m][u].answer = "OK"
      BY <2>1, <3>1, Zenon DEF Call, CalmCall
    <3> QED
      BY <2>3, <3>2, Zenon DEF Waits
  <2>4. CASE ~Awaits(r, m, u)
    <3>1. call'[m][u] = call[m][u]
      BY <1>1, <2>2, <2>4 DEF Reply, Awaits, NamesInv, CallsOK
    <3> QED
      BY <2>1, <2>4, <3>1
  <2> QED
    BY <2>3, <2>4
<1>3. \A m \in Nodes : inbox'[m] = IF m = n THEN inbox[m] \ {r} ELSE inbox[m]
  BY Zenon DEF NamesInv, InboxesOK
<1>4. ASSUME NEW m \in Nodes, NEW u \in Threads, Waits(m, u)' PROVE Received(m, u)'
  <2>1. ~Awaits(r, m, u) /\ call'[m][u] = call[m][u] /\ Waits(m, u)
    BY <1>2, <1>4, Zenon DEF Waits
  <2>2. PICK s \in inbox[Host(call[m][u].to)] : Awaits(s, m, u)
    BY <2>1 DEF Calm, Received
  <2>3. Host(call[m][u].to) \in Nodes /\ s # r
    BY <2>1, <2>2, CalmCalled, Zenon
  <2> QED
    BY <1>3, <2>1, <2>2, <2>3 DEF Received
<1>5. \A m \in Nodes : \A s \in inbox'[m] : CalmRequest(s)
  BY <1>3 DEF Calm
<1> QED
  BY <1>2, <1>4, <1>5, Zenon DEF Calm

\* What is heard from a report without suspects.
LEMMA CalmHear ==
  ASSUME NEW n, NEW tbl \in [Names -> Status], CalmTable(tbl), NEW report, CalmReport(report), NEW of
  PROVE  CalmTable(Hear(n, tbl, report, of))
<1>1. \A m \in Names : m \notin (report.suspect \cup report.suspect_s) \cap of
  BY DEF CalmReport
<1>2. \A m \in Names : Hear(n, tbl, report, of)[m] = IF m \in report.alive \cap of THEN "alive" ELSE tbl[m]
  BY <1>1, Zenon DEF Hear
<1> QED
  BY <1>2 DEF CalmTable, Suspicions

\* A loop handles pings and reports, and pings nobody back.
LEMMA CalmLoop ==
  ASSUME NamesInv, Calm, NEW n \in Nodes, LoopStep(n)
  PROVE  Calm'
<1>1. table[n] \in [Names -> Status] /\ CalmTable(table[n])
  BY Zenon DEF NamesInv, TablesOK, Calm
<1>2. ~PingedBack(n)
  BY OfNode DEF PingedBack, Returned, Calm, CalmCall
<1>3. ASSUME NEW r \in inbox[n], OnUpdate(n, r) PROVE Calm'
  <2>1. \A m \in Nodes : CalmTable(table'[m])
    BY <1>1, <1>3, CalmAddAlive, CalmTables, Zenon DEF OnUpdate
  <2> QED
    BY <1>3, <2>1, CalmAnswer, Zenon DEF OnUpdate
<1>4. ASSUME NEW r \in inbox[n], OnReport(n, r) PROVE Calm'
  <2> DEFINE tbl == AddAlive(table[n], r.from)
  <2>1. CalmReport(r.report)
    BY Zenon DEF Calm, CalmRequest
  <2>2. Myself(n) \notin r.report.suspect \cup r.report.suspect_s
    BY <2>1, Zenon DEF CalmReport
  <2>3. PICK of : SetTable(n, Hear(n, tbl, r.report, of))
    BY <1>4, <2>2, Zenon DEF OnReport, Hears
  <2>4. tbl \in [Names -> Status] /\ CalmTable(tbl)
    BY <1>1, CalmAddAlive, Zenon
  <2> HIDE DEF tbl
  <2>5. \A m \in Nodes : CalmTable(table'[m])
    BY <2>1, <2>3, <2>4, CalmHear, CalmTables
  <2>6. /\ call' = Reply(call, r, n) /\ inbox' = [inbox EXCEPT ![n] = @ \ {r}]
        /\ serving' = serving /\ up' = up
    BY <1>4, <2>2, Zenon DEF OnReport
  <2> QED
    BY <2>5, <2>6, CalmAnswer, Zenon
<1>5. ASSUME NEW r \in inbox[n] PROVE ~OnForwardRequest(n, r)
  BY Zenon DEF OnForwardRequest, Calm, CalmRequest
<1> QED
  BY <1>2, <1>3, <1>4, <1>5 DEF LoopStep

-----------------------------------------------------------------------------
(* The theorem.                                                              *)

\* The cluster is calm at the beginning, unless the faults have happened before.
LEMMA CalmInit ==
  ASSUME MaxFaults > 0 \/ Quarrels = {}
  PROVE  Init => CalmInv
<1> SUFFICES ASSUME Init, faults = MaxFaults PROVE Calm
  BY Zenon DEF CalmInv
<1>1. Quiet
  BY NamesAssumption DEF Init, Quarrel
<1>2. \A n \in Nodes, t \in Threads : call[n][t] = NoCall(n)
  BY <1>1 DEF Quiet
<1>3. \A n \in Nodes : CalmTable(table[n])
  BY <1>1 DEF Quiet, CalmTable, Suspicions
<1> QED
  BY <1>1, <1>2, <1>3, CalmNoCall DEF Quiet, Calm, NotServing, Waits

\* Every step that is not a fault keeps it so.
LEMMA CalmStep ==
  ASSUME NamesInv, CalmInv, [Next]_vars
  PROVE  CalmInv'
<1> SUFFICES ASSUME faults' = MaxFaults PROVE Calm'
  BY DEF CalmInv
<1>0. faults \in 0..MaxFaults /\ MaxFaults \in Nat
  BY NamesAssumption, Zenon DEF NamesInv
<1>1. ASSUME NEW n \in Nodes PROVE ~Crash(n) /\ \A t \in Threads : ~TimesOutEarly(n, t)
  BY <1>0 DEF Crash, TimesOutEarly
<1>2. faults' = faults
  <2>1. ASSUME NEW n \in Nodes, LoopStep(n) \/ ClientStep(n) PROVE faults' = faults
    BY <2>1, Zenon DEF LoopStep, PingedBack, OnUpdate, OnReport, OnForwardRequest,
                ClientStep, ChooseNeighbours, Contacted, ChooseForwards, Asked, Forwarded,
                TimesOut
  <2>2. ASSUME NEW n \in Nodes, Round(n) \/ GarbageCollectSuspected(n) \/ Restart(n)
        PROVE  faults' = faults
    BY <2>2 DEF Round, GarbageCollectSuspected, Restart
  <2> QED
    BY <1>1, <2>1, <2>2 DEF Next, vars
<1>3. Calm
  BY <1>2 DEF CalmInv
<1>4. ASSUME NEW n \in Nodes PROVE ~GarbageCollectSuspected(n) /\ ~Restart(n)
  BY <1>3, Zenon DEF GarbageCollectSuspected, Restart, Calm, CalmTable
<1>5. CASE UNCHANGED vars
  BY <1>3, <1>5, Zenon DEF vars, Calm, Waits, Received
<1> QED
  BY <1>1, <1>3, <1>4, <1>5, CalmRound, CalmLoop, CalmClient, Zenon DEF Next

\* However many nodes wait for one another, and whatever their loops are busy with: as
\* long as nothing has crashed, got lost or come late, nobody is suspected.  (Unless
\* some initial state has suspicions and the model allows no fault at all.)
THEOREM CalmTheorem ==
  ASSUME MaxFaults > 0 \/ Quarrels = {}
  PROVE  Spec => []NoFaultNoSuspicion
<1>1. Init => NamesInv /\ CalmInv
  BY InitOK, CalmInit
<1>2. NamesInv /\ CalmInv /\ [Next]_vars => (NamesInv /\ CalmInv)'
  BY NamesStep, CalmStep, Zenon
<1>3. CalmInv => NoFaultNoSuspicion
  BY DEF CalmInv, Calm, CalmTable, NoFaultNoSuspicion
<1> QED
  BY <1>1, <1>2, <1>3, PTL DEF Spec
=============================================================================
