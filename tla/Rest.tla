-------------------------------- MODULE Rest --------------------------------
(* Calls of the REST API: HttpRequest's clients, the network, and at its     *)
(* other end either the program with the ApiServer or some other HTTP        *)
(* server, which does what the protocol and the network allow.               *)
EXTENDS ApiServer

VARIABLE peer    \* whom the clients talk to: "api" or "other"

vars == <<req, wire, server, peer>>

\* What another server is asked makes no difference to it.
Init ==
  /\ ClientInit /\ ServerInit /\ peer \in {"api", "other"}
  /\ peer = "other" => want = [c \in Clients |-> "GET other"]

-----------------------------------------------------------------------------
(* The network.                                                              *)

NetSet(c, w) == SetWire(c, w) /\ UNCHANGED <<req, server, peer>>

\* The kernel answers for a server that listens, accepted or not.
Handshake(c) ==
  /\ wire[c].link = "syn"
  /\ peer = "other" \/ acceptor
  /\ NetSet(c, [wire[c] EXCEPT !.link = "up"])

Refuse(c) == wire[c].link = "syn" /\ NetSet(c, [wire[c] EXCEPT !.link = "refused"])

Cut(c) == wire[c].link = "up" /\ NetSet(c, [wire[c] EXCEPT !.link = "cut"])

\* The kernel takes more of the request.  The string it was composed in went out of
\* scope with the connect callback, so the bytes may be any, and complete it or not.
Flush(c) ==
  LET w == wire[c] IN
  /\ req[c].write = "queued" /\ w.link = "up"
  /\ \E written \in {"queued", "flushed"} : Set(c, [req[c] EXCEPT !.write = written])
  /\ \E text \in IF w.text = "part" THEN {"part", "request", "garbled", "refused"} ELSE {w.text} :
       SetWire(c, [w EXCEPT !.text = text])
  /\ UNCHANGED <<server, peer>>

\* "part" holds the request line, at least; "whole" is what a parser needs to take or
\* refuse the request.
Deliver(c) ==
  LET w == wire[c] IN
  /\ peer = "api" /\ w.link \in {"up", "left"} /\ w.sent # "whole" /\ ~w.ended
  /\ \/ w.sent = "none" /\ w.text # "none" /\ NetSet(c, [w EXCEPT !.sent = "part"])
     \/ w.text \notin {"none", "part"} /\ NetSet(c, [w EXCEPT !.sent = "whole"])

\* Another server answers at any time and more than once, with HTTP responses or
\* without, asks to close the connection or not, and ends it when it likes.
OtherServer(c) ==
  LET w == wire[c] IN
  /\ peer = "other" /\ w.link = "up" /\ ~w.ended
  /\ \/ /\ w.reply = "none" \/ (w.reply = "taken" /\ Len(req[c].events) < MaxEvents)
        /\ \/ \E keep \in BOOLEAN, more \in {"nothing", "ok", "upgrade", "httpparse"} :
                NetSet(c, [w EXCEPT !.reply = "ok", !.keep = keep, !.more = more])
           \/ \E what \in {"junk", "upgrade"} : NetSet(c, [w EXCEPT !.reply = what])
     \/ NetSet(c, [w EXCEPT !.ended = TRUE])

Network(c) == Handshake(c) \/ Refuse(c) \/ Cut(c) \/ Flush(c) \/ Deliver(c)

-----------------------------------------------------------------------------
ClientStep(c) == ClientNext(c) /\ UNCHANGED <<server, peer>>
ServerStep == peer = "api" /\ ServerNext /\ UNCHANGED peer

Next == (\E c \in Clients : ClientStep(c) \/ Network(c) \/ OtherServer(c)) \/ ServerStep

\* A loop that is run calls back what is due, the timer included; the io thread
\* and the destructor go on.  Nothing is assumed of the network, of the caller
\* or of another server.
Fairness ==
  /\ \A c \in Clients : WF_vars((Callback(c) \/ LoopReturns(c)) /\ UNCHANGED <<server, peer>>)
  /\ WF_vars(peer = "api" /\ IoStep /\ UNCHANGED peer)
  /\ WF_vars(peer = "api" /\ MainStep /\ UNCHANGED peer)

Spec == Init /\ [][Next]_vars /\ Fairness

-----------------------------------------------------------------------------
(* Properties.                                                               *)

Told(c) == {req[c].events[i] : i \in DOMAIN req[c].events}

\* The members of the clients and of the server, and the connections.
TypeOK ==
  /\ \A c \in Clients : req[c] \in Request /\ wire[c] \in Connection
  /\ want \in [Clients -> Requests] /\ main \in MainLabels
  /\ io \in {"idle", "running", "stopping", "returned", "thrown"}
  /\ acceptor \in BOOLEAN /\ served \in [Clients -> Nat]
  /\ conn \in [Clients -> {"none", "reading", "calling", "done"} \cup Statuses]

\* What ends a request: a response, a timeout, or a connection that is not made.
Outcomes == Statuses \cup {"timeout", "connect"}

\* A client is given one outcome, whatever other errors are reported before or after:
\* the timer is closed by the callback that reports the response, and neither the
\* timer nor a response has the cancelled connect reported.  Only a server that sends
\* several responses has each of them reported.
OneOutcome ==
  \A c \in Clients : \A i, j \in DOMAIN req[c].events :
    i # j /\ {req[c].events[i], req[c].events[j]} \subseteq Outcomes =>
      peer = "other" /\ {req[c].events[i], req[c].events[j]} \subseteq Statuses

\* After the response of the ApiServer, which may come before the request is all
\* written, a client is told one thing at most: that the rest of it was not written.
OnlyWriteFollows ==
  peer = "api" =>
    \A c \in Clients : \A i \in DOMAIN req[c].events :
      req[c].events[i] \in Statuses =>
        \/ i = Len(req[c].events)
        \/ i + 1 = Len(req[c].events) /\ req[c].events[i + 1] = "write"

\* A client is told "ok" or "created" only if an endpoint was called for it, once, and
\* "not_found" only if there is none; "bad_request" only if what it asked for, or what
\* became of it on the way, is to blame, and not because the rest of it was late.
AnswerIsTrue ==
  peer = "api" =>
    \A c \in Clients :
      /\ Told(c) \cap {"ok", "created"} # {} => served[c] = 1
      /\ "not_found" \in Told(c) => served[c] = 0 /\ ~Registered(want[c])
      /\ "bad_request" \in Told(c) =>
           \/ want[c] \in {"POST unparsable", "bad head"}
           \/ wire[c].text \in {"garbled", "refused"}

\* No endpoint is called while, or after, the detector it uses is stopped.
NoCallAfterJoin == main \in {"stop_detector", "exited"} => ~Calling

\* Every request whose loop is run has an outcome, also after other errors: the timer
\* sees to it when the server, the network or an end of stream that is not reported
\* does not.
OutcomeComes ==
  \A c \in Clients :
    (req[c].phase = "looping") ~> (Told(c) \cap Outcomes # {} \/ req[c].phase = "crashed")

\* A call of the ApiServer lets its loop return.
LoopEnds ==
  \A c \in Clients : (peer = "api" /\ req[c].phase = "looping") ~> (req[c].phase # "looping")

\* A request that was read is answered, unless the program ends first.
RequestAnswered ==
  \A c \in Clients :
    (conn[c] = "reading" /\ ReadWhole(c))
      ~> (conn[c] = "done" \/ main \notin {"configuring", "serving"})

\* Once interrupted, the program ends.
ShutdownEnds == (main = "closing") ~> (main \in {"exited", "aborted"})
=============================================================================
