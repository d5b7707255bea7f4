----------------------------- MODULE ApiServer -----------------------------
(* api::rest::ApiServer: an acceptor and the connections it has accepted,    *)
(* served by the one thread that runs the io_context, and the program that   *)
(* owns it (gossip_example): it registers the two endpoints, starts the      *)
(* server and, on SIGINT, destroys it before it stops the detector.          *)
(*                                                                           *)
(* A handler that the io_context runs is one action, except that a call of   *)
(* an endpoint, which may wait for another server's answer, is two.  The     *)
(* connections are HttpRequest's wire; a request is read from wire.sent.     *)
EXTENDS HttpRequest

VARIABLES
  want,         \* the request each client makes
  main,         \* where the program's main thread is
  io,           \* the io_context and the thread that runs it
  acceptor,     \* is it open?
  conn,         \* each client's HttpConnection; a status is a response to write
  served        \* history: the endpoint calls made for each client

server == <<want, main, io, acceptor, conn, served>>

\* The registered endpoints, a body the endpoint cannot parse, any other target
\* or verb, a target that is no longer than the prefix, a request line that does not
\* parse, and a malformed head or one that announces more than the parser takes.
Requests == {"GET report", "POST server", "POST unparsable", "GET other", "GET prefix",
             "bad line", "bad head"}

MainLabels == {"configuring", "serving", "closing", "joining", "stop_detector",
               "exited", "aborted"}

ServerInit ==
  /\ want \in [Clients -> Requests]
  /\ main = "configuring"
  /\ io = "idle"
  /\ acceptor = TRUE
  /\ conn = [c \in Clients |-> "none"]
  /\ served = [c \in Clients |-> 0]

\* Is an endpoint being called?
Calling == \E c \in Clients : conn[c] = "calling"

Running == io = "running" /\ ~Calling

\* What becomes of the connection of a client when the server's end is closed:
\* it is ended, or cut if bytes of the request were left unread.  A response
\* that was being written may have gone out before.
Closed(c) ==
  LET w == wire[c] IN
  IF w.link = "up" /\ ~w.ended /\ conn[c] # "none"
  THEN {[w EXCEPT !.ended = TRUE], [w EXCEPT !.link = "cut"]} \cup
       {[w EXCEPT !.ended = TRUE, !.reply = s] : s \in Statuses \cap {conn[c]}}
  ELSE {w}

\* The connections nobody has accepted are cut.
Unaccepted(c) ==
  IF wire[c].link = "up" /\ conn[c] = "none" THEN [wire[c] EXCEPT !.link = "cut"] ELSE wire[c]

CloseAll ==
  wire' \in {f \in [Clients -> UNION {Closed(c) \cup {Unaccepted(c)} : c \in Clients}] :
               \A c \in Clients : IF conn[c] = "none" THEN f[c] = Unaccepted(c)
                                                      ELSE f[c] \in Closed(c)}

-----------------------------------------------------------------------------
(* The io_context's handlers.                                                *)

\* accept(): the connection starts to read, and the next one is awaited.
accept(c) ==
  /\ Running /\ acceptor
  /\ conn[c] = "none" /\ wire[c].link \in {"up", "left", "cut"}
  /\ conn' = [conn EXCEPT ![c] = "reading"]
  /\ UNCHANGED <<want, main, io, acceptor, served, req, wire>>

\* The endpoints of gossip_example; any other request is answered "not_found".
Endpoint(request) ==
  CASE request = "GET report"      -> "ok"
    [] request = "POST server"     -> "created"
    [] request = "POST unparsable" -> "bad_request"
    [] OTHER                       -> "not_found"

Registered(request) == Endpoint(request) # "not_found"

\* async_read completes with a whole request, be its contents the client's or not ...
ReadWhole(c) ==
  /\ wire[c].sent = "whole" /\ wire[c].text \in {"request", "garbled"}
  /\ want[c] \notin {"bad line", "bad head"}

MutantFailsOnPart(c) == ~ReadWhole(c) /\ wire[c].sent # "none"

\* ... or fails: for want of the rest, or at once where it does not parse.
ReadFailed(c) ==
  /\ ~ReadWhole(c)
  /\ \/ wire[c].link \in {"left", "cut"}
     \/ wire[c].sent # "none" /\ want[c] \in {"bad line", "bad head"}
     \/ wire[c].sent = "whole"

\* handleRequest takes what follows the prefix, or the first character, of the
\* target with substr, which throws if the target is shorter than that: the request
\* line was not read, or holds the prefix alone.
Throws(c) == wire[c].sent = "none" \/ want[c] \in {"GET prefix", "bad line"}

handleRequest(c) ==
  /\ Running /\ conn[c] = "reading" /\ ~Throws(c)
  /\ conn' = [conn EXCEPT ![c] = IF ReadWhole(c) /\ Registered(want[c]) THEN "calling"
                                 ELSE IF ReadWhole(c) THEN "not_found"
                                 ELSE "bad_request"]
  /\ ReadWhole(c) \/ ReadFailed(c)
  /\ UNCHANGED <<want, main, io, acceptor, served, req, wire>>

\* An exception leaves run() and the thread: the process is terminated.
HandlerThrows(c) ==
  /\ Running /\ conn[c] = "reading" /\ Throws(c)
  /\ ReadWhole(c) \/ ReadFailed(c)
  /\ io' = "thrown" /\ main' = "aborted" /\ acceptor' = FALSE
  /\ CloseAll
  /\ UNCHANGED <<want, conn, served, req>>

\* What the endpoint may make of a request: a garbled body may parse or not.
Results(c) ==
  IF wire[c].text = "garbled" /\ want[c] \in {"POST server", "POST unparsable"}
  THEN {"created", "bad_request"}
  ELSE {Endpoint(want[c])}

\* An endpoint that was being called when stop() was returns all the same.
EndpointReturns(c) ==
  /\ io \in {"running", "stopping"} /\ conn[c] = "calling"
  /\ \E result \in Results(c) : conn' = [conn EXCEPT ![c] = result]
  /\ served' = [served EXCEPT ![c] = @ + 1]
  /\ UNCHANGED <<want, main, io, acceptor, req, wire>>

MutantRespondsIfUp(c) ==
  /\ Running /\ conn[c] \in Statuses /\ wire[c].link = "up"
  /\ SetWire(c, [wire[c] EXCEPT !.reply = conn[c], !.ended = TRUE])
  /\ conn' = [conn EXCEPT ![c] = "done"]
  /\ UNCHANGED <<want, main, io, acceptor, served, req>>

\* respond(): the response has been written, or could not be, and the sending
\* side is shut down.  The connection then goes out of scope and is closed.
respond(c) ==
  LET w == wire[c] IN
  /\ Running /\ conn[c] \in Statuses
  /\ SetWire(c, IF w.link = "up" THEN [w EXCEPT !.reply = conn[c], !.ended = TRUE] ELSE w)
  /\ conn' = [conn EXCEPT ![c] = "done"]
  /\ UNCHANGED <<want, main, io, acceptor, served, req>>

\* run() returns once stop() has been called.
RunReturns ==
  /\ io = "stopping" /\ ~Calling
  /\ io' = "returned"
  /\ UNCHANGED <<want, main, acceptor, conn, served, req, wire>>

IoStep ==
  \/ RunReturns
  \/ \E c \in Clients : \/ accept(c) \/ handleRequest(c) \/ HandlerThrows(c)
                        \/ EndpointReturns(c) \/ respond(c)

-----------------------------------------------------------------------------
(* The program's main thread.                                                *)

Goes(from, to) == main = from /\ main' = to

\* addGet, addPost and start().
start ==
  /\ Goes("configuring", "serving")
  /\ io' = "running"
  /\ UNCHANGED <<want, acceptor, conn, served, req, wire>>

MutantStopsNothing ==
  /\ Goes("serving", "closing")
  /\ UNCHANGED <<want, io, acceptor, conn, served, req, wire>>

\* SIGINT: shutdown() drops the last reference to the server, whose destructor
\* stops the io_context ...
shutdown ==
  /\ Goes("serving", "closing")
  /\ io' = "stopping"
  /\ UNCHANGED <<want, acceptor, conn, served, req, wire>>

\* ... closes the acceptor ...
CloseAcceptor ==
  /\ Goes("closing", "joining")
  /\ acceptor' = FALSE
  /\ wire' = [c \in Clients |-> Unaccepted(c)]
  /\ UNCHANGED <<want, io, conn, served, req>>

MutantDoesNotJoin ==
  /\ Goes("joining", "stop_detector")
  /\ CloseAll
  /\ UNCHANGED <<want, io, acceptor, conn, served, req>>

\* ... and joins the thread; then its members, the connections among them, go.
Join ==
  /\ io = "returned" /\ Goes("joining", "stop_detector")
  /\ CloseAll
  /\ UNCHANGED <<want, io, acceptor, conn, served, req>>

\* StopAllBackgroundThreads (see Lifecycle) and exit.
StopDetector ==
  /\ Goes("stop_detector", "exited")
  /\ UNCHANGED <<want, io, acceptor, conn, served, req, wire>>

MainStep == CloseAcceptor \/ Join \/ StopDetector

ServerNext == IoStep \/ start \/ shutdown \/ MainStep
=============================================================================
