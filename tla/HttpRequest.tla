---------------------------- MODULE HttpRequest ----------------------------
(* request::SimpleHttpRequest, the HTTP client of the integration tests, on  *)
(* a libuv event loop.  A client makes one request.  Every callback the loop *)
(* runs is one action, and the loop runs one at a time.                      *)
(*                                                                           *)
(* libuv is taken as documented: a TCP handle is active while it connects,   *)
(* reads or has bytes to write; closing it cancels the callbacks that are    *)
(* still owed; a loop returns when nothing is active.  Header fields, bodies *)
(* and the text of urls are not represented.                                 *)
EXTENDS Naturals, Sequences

CONSTANTS
  Clients,      \* the SimpleHttpRequest objects
  MaxEvents     \* bound: after this many events no empty read is reported, and
                \* another server does not answer again

VARIABLES
  req,          \* the members of each client, and where its caller is
  wire          \* each client's TCP connection, shared with the server

Statuses == {"ok", "created", "bad_request", "not_found"}
Errors == {"parseUrl", "setup", "timeout", "connect", "write", "read", "upgrade", "httpparse"}

Request ==
  [phase: {"new", "asked", "looping", "returned", "thrown", "crashed"},
   listening: BOOLEAN,      \* are the "error" and "response" callbacks set?
   port: BOOLEAN,           \* do the options hold one?
   own: BOOLEAN,            \* _defaultLoopAbsented: end() runs the loop itself
   timer: {"none", "armed", "closed"},
   tcp: {"none", "idle", "connecting", "reading", "closed"},
   connect: {"none", "pending", "canceled", "done"},
   write: {"none", "queued", "flushed", "canceled", "done"},
   events: Seq(Statuses \cup Errors)]  \* what the callbacks were given, in order

Connection ==
  [link: {"none", "syn", "up", "refused", "left", "cut"},
   \* What the bytes the kernel has taken are, to a parser: a part of the request,
   \* all it takes for the one the client composed or for one with other contents,
   \* or no request.
   text: {"none", "part", "request", "garbled", "refused"},
   sent: {"none", "part", "whole"},                       \* of the text
   reply: {"none", "junk", "upgrade", "taken"} \cup Statuses,
   more: {"nothing", "ok", "upgrade", "httpparse"},       \* follows in the same buffer
   keep: BOOLEAN,           \* may the connection be kept alive after the reply?
   ended: BOOLEAN]          \* has the server shut down its sending side?

NewRequest(own, port) ==
  [phase |-> "new", listening |-> FALSE, port |-> port, own |-> own,
   timer |-> "none", tcp |-> "none", connect |-> "none", write |-> "none", events |-> <<>>]

NoConnection ==
  [link |-> "none", text |-> "none", sent |-> "none", reply |-> "none", more |-> "nothing",
   keep |-> TRUE, ended |-> FALSE]

\* The constructor without arguments leaves the loop to end(); the others may be
\* given options.
ClientInit ==
  /\ req \in [Clients -> {NewRequest(TRUE, FALSE)} \cup {NewRequest(FALSE, port) : port \in BOOLEAN}]
  /\ wire = [c \in Clients |-> NoConnection]

Set(c, r) == req' = [req EXCEPT ![c] = r]
SetWire(c, w) == wire' = [wire EXCEPT ![c] = w]

-----------------------------------------------------------------------------
(* What the members do to a client r.                                        *)

\* An event that has no callback is dropped.
emit(r, event) == IF r.listening THEN [r EXCEPT !.events = Append(@, event)] ELSE r

clearTimer(r) == [r EXCEPT !.timer = "closed"]

Active(r) ==
  r.tcp # "closed" /\ (r.tcp \in {"connecting", "reading"} \/ r.write = "queued")

MutantNeverCloses(r) == r

\* uv_close: what the loop still owes is called back with ECANCELED, except a
\* write whose bytes have all been handed over.
clearConnection(r) ==
  IF Active(r)
  THEN [r EXCEPT !.tcp = "closed",
                 !.connect = IF @ = "pending" THEN "canceled" ELSE @,
                 !.write = IF @ = "queued" THEN "canceled" ELSE @]
  ELSE r

\* The server's end of a connection that this end has closed.
Hangup(w, r) ==
  IF r.tcp = "closed" /\ w.link \in {"syn", "up"} THEN [w EXCEPT !.link = "left"] ELSE w

Becomes(c, r) == Set(c, r) /\ SetWire(c, Hangup(wire[c], r))

\* The reply has been read.
Taken(w) == [w EXCEPT !.reply = "taken", !.more = "nothing", !.keep = TRUE]

-----------------------------------------------------------------------------
(* The caller: get(url) or post(url, body), on(event, callback), end().      *)

\* An url that does not parse leaves the options as they are and is reported at
\* once, to the callback set so far.
get(c) ==
  LET r == [req[c] EXCEPT !.phase = "asked"] IN
  /\ req[c].phase = "new"
  /\ Set(c, [r EXCEPT !.port = TRUE]) \/ Set(c, emit(r, "parseUrl"))
  /\ UNCHANGED wire

on(c) ==
  /\ req[c].phase \in {"new", "asked"} /\ ~req[c].listening
  /\ Set(c, [req[c] EXCEPT !.listening = TRUE])
  /\ UNCHANGED wire

\* end() starts the timer.  Without a port stoi then throws; a name that does not
\* resolve, or a handle or connection that cannot be set up, makes it return
\* before it runs the loop; otherwise the connection is under way.  A caller with a
\* loop of its own runs it later.
end(c) ==
  LET r == [req[c] EXCEPT !.timer = "armed"] IN
  /\ r.phase \in {"new", "asked"} /\ r.listening
  /\ \/ /\ ~r.port
        /\ Set(c, [r EXCEPT !.phase = "thrown"])
        /\ UNCHANGED wire
     \/ /\ r.port
        /\ \E handle \in {"none", "idle"} :
             Set(c, emit([r EXCEPT !.tcp = handle,
                                   !.phase = IF r.own THEN "returned" ELSE "looping"],
                         "setup"))
        /\ UNCHANGED wire
     \/ /\ r.port
        /\ Set(c, [r EXCEPT !.phase = "looping", !.tcp = "connecting",
                            !.connect = "pending"])
        /\ SetWire(c, [wire[c] EXCEPT !.link = "syn"])

-----------------------------------------------------------------------------
(* The callbacks.                                                            *)

Looping(c) == req[c].phase = "looping"

MutantSilentTimeout(c) ==
  /\ Looping(c) /\ req[c].timer = "armed"
  /\ Becomes(c, clearConnection(clearTimer(req[c])))

\* After a failed name lookup this examines, and may close, a handle that was
\* never initialised.
timeoutFired(c) ==
  LET r == req[c] IN
  /\ Looping(c) /\ r.timer = "armed"
  /\ \/ Becomes(c, emit(clearConnection(clearTimer(r)), "timeout"))
     \/ r.tcp = "none" /\ Becomes(c, [clearTimer(r) EXCEPT !.phase = "crashed"])

MutantReportsCanceled(c) ==
  LET r == [req[c] EXCEPT !.connect = "done"] IN
  /\ Looping(c) /\ req[c].connect = "canceled"
  /\ Becomes(c, emit(clearConnection(clearTimer(r)), "connect"))

\* With ECANCELED, "by timer", nothing is left to do.  After another failure the
\* handle no longer connects: whether it still counts as active, and is closed,
\* is up to libuv.  After a success reading starts and the request is written,
\* at once or, if the kernel does not take all of it, later (what it takes may be a
\* request already: empty lines follow the body); unless one of the two cannot be
\* started.
connectCb(c) ==
  LET r == [req[c] EXCEPT !.connect = "done"]
      link == wire[c].link
  IN
  /\ Looping(c)
  /\ \/ req[c].connect = "canceled" /\ Becomes(c, r)
     \/ /\ req[c].connect = "pending" /\ link = "refused"
        /\ \E handle \in {"idle", "closed"} :
             Becomes(c, emit([clearTimer(r) EXCEPT !.tcp = handle], "connect"))
     \/ /\ req[c].connect = "pending" /\ link \in {"up", "cut"}
        /\ \/ \E written \in {"queued", "flushed"}, text \in {"part", "request"} :
                /\ written = "flushed" => text = "request"
                /\ Set(c, [r EXCEPT !.tcp = "reading", !.write = written])
                /\ SetWire(c, [wire[c] EXCEPT !.text = text])
           \/ \E handle \in {"idle", "reading"} :
                Becomes(c, emit([r EXCEPT !.tcp = handle], "write"))

\* A write that was canceled, by the timer or by the response, is an error too.
writeCb(c) ==
  LET r == [req[c] EXCEPT !.write = "done"] IN
  /\ Looping(c)
  /\ \/ req[c].write = "flushed" /\ Becomes(c, r)
     \/ /\ \/ req[c].write = "canceled"
           \/ req[c].write = "queued" /\ wire[c].link = "cut"
        /\ Becomes(c, emit(r, "write"))

MutantCompletesAnything(c) ==
  LET r == emit(clearConnection(clearTimer(req[c])), wire[c].reply) IN
  /\ Looping(c) /\ req[c].tcp = "reading" /\ wire[c].reply \notin {"none", "taken"}
  /\ Becomes(c, r)

MutantKeepsReading(c) ==
  /\ Looping(c) /\ req[c].tcp = "reading" /\ wire[c].reply \in Statuses
  /\ Set(c, emit(clearTimer(req[c]), wire[c].reply))
  /\ SetWire(c, Taken(wire[c]))

\* Only a connection that could be kept alive is closed.  The parser goes on with
\* the buffer all the same: it completes another response, or the read callback
\* finds fault with what follows.
on_message_complete(c) ==
  LET r == clearTimer(req[c])
      w == wire[c]
      q == emit(IF w.keep THEN clearConnection(r) ELSE r, w.reply)
      s == IF w.more = "nothing" THEN q ELSE emit(q, w.more)
  IN
  /\ Looping(c) /\ r.tcp = "reading" /\ w.reply \in Statuses
  /\ Set(c, s)
  /\ SetWire(c, Hangup(Taken(w), s))

\* Bytes that are not a response, or the head of one to change the protocol, nothing
\* to read, or a connection that was cut are errors; the end of the stream is not
\* reported at all.
readCb(c) ==
  LET r == req[c]
      w == wire[c]
  IN
  /\ Looping(c) /\ r.tcp = "reading"
  /\ \/ /\ w.reply \in {"junk", "upgrade"}
        /\ Set(c, emit(r, IF w.reply = "junk" THEN "httpparse" ELSE "upgrade"))
        /\ SetWire(c, Taken(w))
     \/ Len(r.events) < MaxEvents /\ Becomes(c, emit(r, "read"))
     \/ w.link = "cut" /\ Becomes(c, emit([r EXCEPT !.tcp = "idle"], "read"))
     \/ /\ w.ended /\ w.reply \in {"none", "taken"}
        /\ Becomes(c, [r EXCEPT !.tcp = "idle"])

\* uv_run returns.
LoopReturns(c) ==
  LET r == req[c] IN
  /\ r.phase = "looping"
  /\ r.timer # "armed" /\ ~Active(r)
  /\ r.connect \notin {"pending", "canceled"} /\ r.write \notin {"flushed", "canceled"}
  /\ Set(c, [r EXCEPT !.phase = "returned"])
  /\ UNCHANGED wire

Callback(c) ==
  timeoutFired(c) \/ connectCb(c) \/ writeCb(c) \/ on_message_complete(c) \/ readCb(c)

ClientNext(c) == get(c) \/ on(c) \/ end(c) \/ Callback(c) \/ LoopReturns(c)
=============================================================================
