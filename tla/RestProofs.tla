----------------------------- MODULE RestProofs -----------------------------
(* Proofs about Rest, for any number of clients and events, whatever the     *)
(* network and another server do.                                            *)
EXTENDS Rest, TLAPS

-----------------------------------------------------------------------------
(* The inductive invariant.                                                  *)

\* The types, and that req and wire are functions on the clients.
TypeInv == TypeOK /\ req \in [Clients -> Request] /\ wire \in [Clients -> Connection]

\* Where in its events a client is given a response, and where an outcome.
Responses(r) == {i \in DOMAIN r.events : r.events[i] \in Statuses}
Ends(r) == {i \in DOMAIN r.events : r.events[i] \in Outcomes}

\* Before end(): no timer, no handle, no connection.
Unstarted(r, w) ==
  r.phase \in {"new", "asked"} =>
    /\ r.timer = "none" /\ r.tcp = "none" /\ r.connect = "none" /\ r.write = "none"
    /\ w.link = "none" /\ w.text = "none"

\* What the callbacks that are owed say of the handle and of the request.
Owed(r, w) ==
  /\ r.connect = "pending" => r.tcp = "connecting" /\ r.write = "none" /\ w.text = "none"
  /\ r.connect = "canceled" => r.tcp = "closed"

\* The one outcome.  After it the timer is closed and no connect can fail, and only
\* where another server answers is anything read after a response.
Single(r, p) ==
  /\ \A i, j \in Ends(r) :
       i = j \/ (p = "other" /\ r.events[i] \in Statuses /\ r.events[j] \in Statuses)
  /\ Ends(r) # {} => r.timer = "closed" /\ r.connect # "pending"
  /\ \A i \in Ends(r) : p = "api" \/ r.events[i] \notin Statuses => r.tcp # "reading"

\* What may follow a response of the ApiServer: the callback of a write that closing the
\* handle has cancelled.
Last(r) ==
  \A i \in Responses(r) :
    \/ i = Len(r.events)
    \/ i + 1 = Len(r.events) /\ r.events[i + 1] = "write" /\ r.write = "done"

\* After a response of the ApiServer the handle is closed, and only a write is owed.
Closes(r) == r.tcp = "closed" /\ r.connect \notin {"pending", "canceled"} /\ r.write # "queued"

\* The ApiServer sends one response and no more.
Final(r, w) ==
  /\ w.keep /\ w.more = "nothing" /\ w.reply \notin {"junk", "upgrade"}
  /\ Responses(r) # {} => Closes(r) /\ w.reply = "taken"
  /\ Last(r)

ClientOK(r, w, p) ==
  Unstarted(r, w) /\ Owed(r, w) /\ Single(r, p) /\ (p = "api" => Final(r, w))

\* An answer says what was done for the request: n endpoint calls.
Truthful(answer, w, n, request) ==
  /\ answer \in {"ok", "created"} => n = 1
  /\ answer = "not_found" => n = 0 /\ ~Registered(request)
  /\ answer = "bad_request" =>
       request \in {"POST unparsable", "bad head"} \/ w.text \in {"garbled", "refused"}

\* What the ApiServer has done for a client, by the state k of its connection: k is an
\* answer, or the answer is on its way (w.reply) or has been given (r.events).  An
\* answer that blames the request for a lost connection cannot be given any more.
ServedOK(r, w, k, n, request) ==
  /\ w.sent = "whole" => w.text \notin {"none", "part"}
  /\ k \in {"none", "reading", "calling"} => n = 0 /\ w.reply = "none"
  /\ k = "calling" => Registered(request)
  /\ k \in Statuses =>
       Truthful(k, w, n, request) \/ (k = "bad_request" /\ w.link \in {"left", "cut"})
  /\ w.reply \in Statuses => Truthful(w.reply, w, n, request)
  /\ \A i \in Responses(r) : Truthful(r.events[i], w, n, request)

\* The main thread and the io thread.
Gone == {"stop_detector", "exited", "aborted"}

ThreadsOK ==
  /\ main = "configuring" => io = "idle"
  /\ main = "serving" => io = "running"
  /\ main \in {"closing", "joining"} => io \in {"stopping", "returned"}
  /\ main \in {"stop_detector", "exited"} => io = "returned"
  /\ main = "aborted" => io = "thrown"
  /\ io \in {"idle", "returned"} => ~Calling

\* A response is handed to the network once: by the io thread, or by the destructor
\* when the io thread is gone.
AnsweredOnce ==
  \A c \in Clients : wire[c].reply # "none" => conn[c] = "done" \/ main \in Gone

ServersOK ==
  /\ ThreadsOK /\ AnsweredOnce
  /\ \A c \in Clients : ServedOK(req[c], wire[c], conn[c], served[c], want[c])

RestInv ==
  /\ peer \in {"api", "other"}
  /\ \A c \in Clients : ClientOK(req[c], wire[c], peer)
  /\ main \in {"stop_detector", "exited"} => ~Calling
  /\ peer = "api" => ServersOK

-----------------------------------------------------------------------------
(* What the members of a client do to its fields.                            *)

\* Append at the end of a sequence of events.
LEMMA Appended ==
  ASSUME NEW S, NEW s \in Seq(S), NEW e \in S
  PROVE /\ Append(s, e) \in Seq(S) /\ Append(s, e) # <<>>
        /\ Len(Append(s, e)) = Len(s) + 1 /\ DOMAIN s = 1..Len(s) /\ Len(s) \in Nat
        /\ DOMAIN Append(s, e) = 1..(Len(s) + 1)
        /\ Append(s, e)[Len(s) + 1] = e
        /\ \A i \in 1..Len(s) : Append(s, e)[i] = s[i]
  OBVIOUS

\* s has the events of r, and perhaps e after them.
Tells(r, s, e) == s.events = r.events \/ s.events = Append(r.events, e)

\* The timer, the handle and the callbacks that are owed are the same.
Alike(r, s) ==
  /\ s.phase = r.phase /\ s.timer = r.timer /\ s.tcp = r.tcp
  /\ s.connect = r.connect /\ s.write = r.write

\* emit changes the events and nothing else.
LEMMA EmitFields ==
  ASSUME NEW r \in Request, NEW e \in Statuses \cup Errors
  PROVE emit(r, e) \in Request /\ Alike(r, emit(r, e)) /\ Tells(r, emit(r, e), e)
  <1>1. r.events \in Seq(Statuses \cup Errors)  BY DEF Request
  <1>2. Append(r.events, e) \in Seq(Statuses \cup Errors)  BY <1>1, Appended
  <1> QED  BY <1>2, SMTT(30) DEF emit, Request, Alike, Tells

\* clearTimer closes the timer.
LEMMA ClearTimerFields ==
  ASSUME NEW r \in Request
  PROVE /\ clearTimer(r) \in Request /\ clearTimer(r).timer = "closed"
        /\ clearTimer(r).phase = r.phase /\ clearTimer(r).tcp = r.tcp
        /\ clearTimer(r).connect = r.connect /\ clearTimer(r).write = r.write
        /\ clearTimer(r).events = r.events
  BY DEF clearTimer, Request

\* clearConnection closes a handle that connects or reads, and cancels what is owed.
LEMMA ClearConnectionFields ==
  ASSUME NEW r \in Request
  PROVE /\ clearConnection(r) \in Request /\ clearConnection(r).timer = r.timer
        /\ clearConnection(r).phase = r.phase /\ clearConnection(r).events = r.events
        /\ \/ /\ clearConnection(r).tcp = "closed"
              /\ clearConnection(r).connect =
                   IF r.connect = "pending" THEN "canceled" ELSE r.connect
              /\ clearConnection(r).write = IF r.write = "queued" THEN "canceled" ELSE r.write
           \/ /\ r.tcp \notin {"connecting", "reading"}
              /\ clearConnection(r).tcp = r.tcp
              /\ clearConnection(r).connect = r.connect /\ clearConnection(r).write = r.write
  <1>1. CASE Active(r)
    <2> DEFINE k == IF r.connect = "pending" THEN "canceled" ELSE r.connect
               v == IF r.write = "queued" THEN "canceled" ELSE r.write
    <2>1. clearConnection(r) = [r EXCEPT !.tcp = "closed", !.connect = k, !.write = v]
      BY <1>1 DEF clearConnection, Request
    <2>2. /\ k \in {"none", "pending", "canceled", "done"}
          /\ v \in {"none", "queued", "flushed", "canceled", "done"}
      BY DEF Request
    <2> HIDE DEF k, v
    <2>3. clearConnection(r) \in Request
      <3> DEFINE x == [r EXCEPT !.tcp = "closed"]
                 y == [x EXCEPT !.connect = k]
      <3>1. x \in Request  BY DEF Request
      <3>2. clearConnection(r) = [y EXCEPT !.write = v]  BY <2>1 DEF Request
      <3> HIDE DEF x
      <3>3. y \in Request  BY <2>2, <3>1 DEF Request
      <3> HIDE DEF y
      <3> QED  BY <2>2, <3>2, <3>3 DEF Request
    <2>4. /\ clearConnection(r).timer = r.timer /\ clearConnection(r).phase = r.phase
          /\ clearConnection(r).events = r.events
      BY <2>1 DEF Request
    <2>5. /\ clearConnection(r).tcp = "closed" /\ clearConnection(r).connect = k
          /\ clearConnection(r).write = v
      BY <2>1 DEF Request
    <2> QED  BY <2>3, <2>4, <2>5 DEF k, v
  <1>2. CASE ~Active(r)
    <2>1. clearConnection(r) = r  BY <1>2 DEF clearConnection
    <2>2. r.tcp \notin {"connecting", "reading"}  BY <1>2 DEF Active
    <2> QED  BY <2>1, <2>2
  <1> QED  BY <1>1, <1>2

-----------------------------------------------------------------------------
(* What a step leaves of a connection.                                       *)

\* A request that is complete, to a parser, does not change, and is all that can have
\* arrived as a whole; a connection that is lost remains so.
Carries(w, v) ==
  /\ v.text = w.text \/ w.text \in {"none", "part"}
  /\ v.sent = "whole" => w.sent = "whole" \/ v.text \notin {"none", "part"}
  /\ w.link \in {"left", "cut"} => v.link \in {"left", "cut"}

\* The server's part is the same.
SameReply(w, v) == v.reply = w.reply /\ v.more = w.more /\ v.keep = w.keep

\* Hangup only changes the link, which no longer is up.
LEMMA HangupFields ==
  ASSUME NEW w \in Connection, NEW r
  PROVE /\ Hangup(w, r) \in Connection
        /\ SameReply(w, Hangup(w, r)) /\ Carries(w, Hangup(w, r))
        /\ Hangup(w, r).text = w.text
  BY DEF Hangup, Connection, SameReply, Carries

\* Taken only changes the reply.
LEMMA TakenFields ==
  ASSUME NEW w \in Connection
  PROVE /\ Taken(w) \in Connection /\ Carries(w, Taken(w)) /\ Taken(w).text = w.text
        /\ Taken(w).reply = "taken" /\ Taken(w).more = "nothing" /\ Taken(w).keep
        /\ Taken(w).link = w.link
  <1>1. Taken(w) \in Connection  BY Zenon DEF Taken, Connection
  <1>2. /\ Taken(w).text = w.text /\ Taken(w).sent = w.sent /\ Taken(w).link = w.link
        /\ Taken(w).reply = "taken" /\ Taken(w).more = "nothing"
    BY DEF Taken, Connection
  <1>3. Taken(w).keep  BY Zenon DEF Taken, Connection
  <1> QED  BY <1>1, <1>2, <1>3 DEF Carries

-----------------------------------------------------------------------------
(* What a step may add to the events of a client.                            *)

\* The events before the new one stay where they are.
LEMMA TellsEvents ==
  ASSUME NEW r \in Request, NEW s \in Request, NEW e \in Statuses \cup Errors, Tells(r, s, e)
  PROVE /\ Len(r.events) \in Nat /\ DOMAIN r.events = 1..Len(r.events)
        /\ Len(s.events) \in Nat /\ DOMAIN s.events = 1..Len(s.events)
        /\ Len(s.events) <= Len(r.events) + 1
        /\ Len(r.events) <= Len(s.events)
        /\ \A i \in DOMAIN s.events : i \in DOMAIN r.events => s.events[i] = r.events[i]
        /\ \A i \in DOMAIN s.events :
             i \notin DOMAIN r.events => i = Len(s.events) /\ s.events[i] = e
  <1>1. r.events \in Seq(Statuses \cup Errors) /\ s.events \in Seq(Statuses \cup Errors)
    BY DEF Request
  <1> QED  BY <1>1, Appended DEF Tells

\* So an outcome is an old one, or the new event.
LEMMA TellsEnds ==
  ASSUME NEW r \in Request, NEW s \in Request, NEW e \in Statuses \cup Errors, Tells(r, s, e)
  PROVE /\ \A i \in Ends(s) :
             \/ i \in Ends(r) /\ s.events[i] = r.events[i]
             \/ i = Len(s.events) /\ s.events[i] = e /\ e \in Outcomes
        /\ \A i \in Responses(s) :
             \/ i \in Responses(r) /\ s.events[i] = r.events[i]
             \/ i = Len(s.events) /\ s.events[i] = e /\ e \in Statuses
  <1>1. /\ \A i \in DOMAIN s.events : i \in DOMAIN r.events => s.events[i] = r.events[i]
        /\ \A i \in DOMAIN s.events :
             i \notin DOMAIN r.events => i = Len(s.events) /\ s.events[i] = e
    BY TellsEvents
  <1> QED  BY <1>1, Zenon DEF Ends, Responses

\* A response is an outcome.
LEMMA ResponsesEnd ==
  ASSUME NEW r
  PROVE Responses(r) \subseteq Ends(r)
  BY DEF Responses, Ends, Outcomes

\* An event that is no outcome adds none.
LEMMA QuietSingle ==
  ASSUME NEW r \in Request, NEW s \in Request, NEW e \in Errors \ Outcomes, NEW p,
         Tells(r, s, e), Single(r, p),
         Ends(r) # {} => /\ s.timer = "closed" /\ s.connect # "pending"
                         /\ s.tcp = "reading" => r.tcp = "reading"
  PROVE Single(s, p)
  <1>1. \A i \in Ends(s) : i \in Ends(r) /\ s.events[i] = r.events[i]  BY TellsEnds, Zenon
  <1> QED  BY <1>1 DEF Single

\* An outcome that is the first.
LEMMA FirstSingle ==
  ASSUME NEW r \in Request, NEW s \in Request, NEW e \in Statuses \cup Errors, NEW p,
         Tells(r, s, e), Ends(r) = {},
         s.timer = "closed", s.connect # "pending", s.tcp # "reading"
  PROVE Single(s, p)
  <1>1. \A i \in Ends(s) : i = Len(s.events)  BY TellsEnds
  <1> QED  BY <1>1, Zenon DEF Single

\* After a response of the ApiServer nothing is told but that a write was cancelled.
LEMMA QuietFinal ==
  ASSUME NEW r \in Request, NEW s \in Request, NEW w, NEW v, NEW e \in Errors \ Outcomes,
         Tells(r, s, e), Final(r, w),
         SameReply(w, v) \/ w.reply \in {"junk", "upgrade"},
         Responses(r) # {} =>
           /\ Closes(s)
           /\ \/ s.events = r.events /\ (r.write = "done" => s.write = "done")
              \/ e = "write" /\ r.write # "done" /\ s.write = "done"
  PROVE Final(s, v)
  <1>1. \A i \in Responses(s) : i \in Responses(r) /\ s.events[i] = r.events[i]
    <2>1. e \in Statuses \cup Errors /\ e \notin Statuses  BY DEF Outcomes
    <2> QED  BY <2>1, TellsEnds, Zenon
  <1>2. SameReply(w, v)  BY Zenon DEF Final
  <1>3. ASSUME NEW i \in Responses(s)
        PROVE \/ i = Len(s.events)
              \/ i + 1 = Len(s.events) /\ s.events[i + 1] = "write" /\ s.write = "done"
    <2>1. i \in Responses(r)  BY <1>1
    <2>2. CASE s.events = r.events /\ (r.write = "done" => s.write = "done")
      BY <2>1, <2>2 DEF Final, Last
    <2>3. CASE e = "write" /\ r.write # "done" /\ s.write = "done" /\ s.events # r.events
      <3>1. i = Len(r.events)  BY <2>1, <2>3, Zenon DEF Final, Last
      <3>2. r.events \in Seq(Statuses \cup Errors)  BY DEF Request
      <3>3. s.events = Append(r.events, "write")  BY <2>3 DEF Tells
      <3> QED  BY <2>3, <3>1, <3>2, <3>3
    <2> QED  BY <2>1, <2>2, <2>3
  <1>4. Last(s)  BY <1>3 DEF Last
  <1> QED  BY <1>1, <1>2, <1>4, Zenon DEF Final, SameReply

-----------------------------------------------------------------------------
(* The steps of a client.                                                    *)

\* What the server can notice of a step from r, w to s, v: a response that the client is
\* told is the one that was on its way.
Seen(r, w, s, v) ==
  /\ Carries(w, v)
  /\ v.reply = w.reply \/ (w.reply # "none" /\ v.reply = "taken")
  /\ \A i \in Responses(s) :
       (i \in Responses(r) /\ s.events[i] = r.events[i]) \/ s.events[i] = w.reply

\* A step of client c that keeps its part of the invariant.
Moves(c) ==
  \E s \in Request, v \in Connection :
    /\ Set(c, s) /\ SetWire(c, v)
    /\ ClientOK(s, v, peer) /\ (peer = "api" => Seen(req[c], wire[c], s, v))

\* What the proofs about a step of client c start from.
Before(c) ==
  /\ c \in Clients /\ req \in [Clients -> Request] /\ wire \in [Clients -> Connection]
  /\ peer \in {"api", "other"} /\ ClientOK(req[c], wire[c], peer)

\* A step that tells nothing, or an error that is no outcome.
LEMMA QuietMoves ==
  ASSUME NEW c, Before(c), NEW s \in Request, NEW v \in Connection, NEW e \in Errors \ Outcomes,
         Set(c, s), SetWire(c, v), Tells(req[c], s, e), Carries(wire[c], v),
         SameReply(wire[c], v) \/ (wire[c].reply \in {"junk", "upgrade"} /\ v.reply = "taken"),
         Unstarted(s, v), Owed(s, v),
         Ends(req[c]) # {} => /\ s.timer = "closed" /\ s.connect # "pending"
                              /\ s.tcp = "reading" => req[c].tcp = "reading",
         peer = "api" /\ Responses(req[c]) # {} =>
           /\ Closes(s)
           /\ \/ s.events = req[c].events /\ (req[c].write = "done" => s.write = "done")
              \/ e = "write" /\ req[c].write # "done" /\ s.write = "done"
  PROVE Moves(c)
  <1> DEFINE r == req[c]
             w == wire[c]
  <1>1. r \in Request /\ w \in Connection /\ ClientOK(r, w, peer)  BY DEF Before
  <1> HIDE DEF r, w
  <1>2. Single(s, peer)
    <2>1. Single(r, peer)  BY <1>1, Zenon DEF ClientOK
    <2> QED  BY <1>1, <2>1, QuietSingle, Zenon DEF r
  <1>3. ASSUME peer = "api"  PROVE Final(s, v)
    <2>1. Final(r, w)  BY <1>1, <1>3, Zenon DEF ClientOK
    <2> QED  BY <1>1, <1>3, <2>1, QuietFinal, Zenon DEF r, w
  <1>4. \A i \in Responses(s) : i \in Responses(r) /\ s.events[i] = r.events[i]
    <2>1. e \in Statuses \cup Errors /\ e \notin Statuses  BY DEF Outcomes
    <2> QED  BY <1>1, <2>1, TellsEnds, Zenon DEF r
  <1>5. Seen(r, w, s, v)
    BY <1>4 DEF Seen, SameReply, w
  <1> QED  BY <1>2, <1>3, <1>5, Zenon DEF Moves, ClientOK, r, w

\* A callback that tells nothing, or an error that is no outcome.
LEMMA QuietBecomes ==
  ASSUME NEW c, Before(c), NEW s \in Request, NEW e \in Errors \ Outcomes, Becomes(c, s),
         Tells(req[c], s, e), s.phase \notin {"new", "asked"}, Owed(s, wire[c]),
         Ends(req[c]) # {} => /\ s.timer = "closed" /\ s.connect # "pending"
                              /\ s.tcp = "reading" => req[c].tcp = "reading",
         peer = "api" /\ Responses(req[c]) # {} =>
           /\ Closes(s)
           /\ \/ s.events = req[c].events /\ (req[c].write = "done" => s.write = "done")
              \/ e = "write" /\ req[c].write # "done" /\ s.write = "done"
  PROVE Moves(c)
  <1> DEFINE v == Hangup(wire[c], s)
  <1>1. wire[c] \in Connection  BY DEF Before
  <1>2. Set(c, s) /\ SetWire(c, v)  BY Zenon DEF Becomes
  <1>3. v \in Connection /\ SameReply(wire[c], v) /\ Carries(wire[c], v) /\ v.text = wire[c].text
    BY <1>1, HangupFields, Zenon
  <1> HIDE DEF v
  <1>4. Unstarted(s, v) /\ Owed(s, v)  BY <1>3 DEF Unstarted, Owed
  <1> QED  BY <1>2, <1>3, <1>4, QuietMoves, Zenon

\* A callback that tells the first outcome, an error.
LEMMA EndBecomes ==
  ASSUME NEW c, Before(c), NEW s \in Request, NEW e \in Errors, Becomes(c, s),
         Tells(req[c], s, e), s.phase \notin {"new", "asked"}, Owed(s, wire[c]),
         Ends(req[c]) = {}, s.timer = "closed", s.connect # "pending", s.tcp # "reading"
  PROVE Moves(c)
  <1> DEFINE r == req[c]
             w == wire[c]
             v == Hangup(w, s)
  <1>1. r \in Request /\ w \in Connection /\ ClientOK(r, w, peer)  BY DEF Before
  <1>2. Set(c, s) /\ SetWire(c, v)  BY Zenon DEF Becomes
  <1>3. v \in Connection /\ SameReply(w, v) /\ Carries(w, v) /\ v.text = w.text
    BY <1>1, HangupFields, Zenon
  <1> HIDE DEF v
  <1>4. Unstarted(s, v) /\ Owed(s, v)  BY <1>3 DEF Unstarted, Owed
  <1>5. e \in Statuses \cup Errors /\ e \notin Statuses  BY DEF Statuses, Errors
  <1> HIDE DEF r, w
  <1>6. Single(s, peer)  BY <1>1, <1>5, FirstSingle, Zenon DEF r
  <1>7. Responses(s) = {}
    <2>1. Responses(r) = {}  BY ResponsesEnd DEF r
    <2>2. \A i \in Responses(s) : i \in Responses(r)  BY <1>1, <1>5, TellsEnds, Zenon DEF r
    <2> QED  BY <2>1, <2>2
  <1>8. peer = "api" => Final(s, v)
    BY <1>1, <1>3, <1>7 DEF ClientOK, Final, Last, SameReply
  <1>9. Seen(r, w, s, v)  BY <1>3, <1>7 DEF Seen, SameReply
  <1> QED  BY <1>2, <1>3, <1>4, <1>6, <1>8, <1>9, Zenon DEF Moves, ClientOK, r, w

\* Before end() there is no outcome, nor before the timer is closed.
LEMMA NoEndYet ==
  ASSUME NEW r, NEW w, NEW p, ClientOK(r, w, p),
         r.phase \in {"new", "asked"} \/ r.timer # "closed" \/ r.connect = "pending"
  PROVE Ends(r) = {} /\ Responses(r) = {}
  <1>1. Ends(r) = {}  BY DEF ClientOK, Unstarted, Single
  <1> QED  BY <1>1, ResponsesEnd

\* The events that are no outcome.
LEMMA Quiet ==
  {"parseUrl", "setup", "write", "read", "upgrade", "httpparse"} \subseteq Errors \ Outcomes
  BY DEF Errors, Outcomes, Statuses

\* get() reports an url that does not parse before the timer exists.
LEMMA getMoves ==
  ASSUME NEW c, Before(c), get(c)
  PROVE Moves(c)
  <1> DEFINE r == req[c]
             w == wire[c]
             q == [r EXCEPT !.phase = "asked"]
  <1>1. r \in Request /\ w \in Connection /\ ClientOK(r, w, peer) /\ SetWire(c, w)
    BY DEF Before, get, SetWire
  <1>2. r.phase = "new"  BY DEF get
  <1>3. PICK s : /\ Set(c, s)
                 /\ s = [q EXCEPT !.port = TRUE] \/ s = emit(q, "parseUrl")
    BY DEF get
  <1>4. /\ q \in Request /\ q.phase = "asked" /\ q.timer = r.timer /\ q.tcp = r.tcp
        /\ q.connect = r.connect /\ q.write = r.write /\ q.events = r.events
    BY <1>1, Zenon DEF Request
  <1> HIDE DEF r, w, q
  <1>5. s \in Request /\ Alike(q, s) /\ Tells(q, s, "parseUrl")
    <2>1. CASE s = [q EXCEPT !.port = TRUE]
      BY <1>4, <2>1, Zenon DEF Request, Alike, Tells
    <2>2. CASE s = emit(q, "parseUrl")
      BY <1>4, <2>2, EmitFields DEF Errors
    <2> QED  BY <1>3, <2>1, <2>2
  <1>6. Unstarted(s, w) /\ Owed(s, w) /\ Tells(r, s, "parseUrl")
    BY <1>1, <1>2, <1>4, <1>5 DEF ClientOK, Unstarted, Owed, Alike, Tells
  <1>7. Ends(r) = {} /\ Responses(r) = {}  BY <1>1, <1>2, NoEndYet
  <1>8. SameReply(w, w) /\ Carries(w, w)  BY DEF SameReply, Carries
  <1>9. "parseUrl" \in Errors \ Outcomes  BY Quiet
  <1> QED  BY <1>1, <1>3, <1>5, <1>6, <1>7, <1>8, <1>9, QuietMoves, Zenon DEF r, w

\* on() tells nothing, and comes before end().
LEMMA onMoves ==
  ASSUME NEW c, Before(c), on(c)
  PROVE Moves(c)
  <1> DEFINE r == req[c]
             w == wire[c]
             s == [r EXCEPT !.listening = TRUE]
  <1>1. r \in Request /\ w \in Connection /\ ClientOK(r, w, peer) /\ SetWire(c, w)
    BY DEF Before, on, SetWire
  <1>2. Set(c, s) /\ r.phase \in {"new", "asked"}  BY Zenon DEF on
  <1>3. s \in Request /\ Alike(r, s) /\ s.events = r.events
    BY <1>1, Zenon DEF Request, Alike
  <1> HIDE DEF r, w, s
  <1>4. Unstarted(s, w) /\ Owed(s, w) /\ Tells(r, s, "read")
    BY <1>1, <1>3 DEF ClientOK, Unstarted, Owed, Alike, Tells
  <1>5. Ends(r) = {} /\ Responses(r) = {}  BY <1>1, <1>2, NoEndYet
  <1>6. SameReply(w, w) /\ Carries(w, w)  BY DEF SameReply, Carries
  <1>7. "read" \in Errors \ Outcomes  BY Quiet
  <1> QED  BY <1>1, <1>2, <1>3, <1>4, <1>5, <1>6, <1>7, QuietMoves, Zenon DEF r, w

\* The loop returns and tells nothing.
LEMMA LoopReturnsMoves ==
  ASSUME NEW c, Before(c), LoopReturns(c)
  PROVE Moves(c)
  <1> DEFINE r == req[c]
             w == wire[c]
             s == [r EXCEPT !.phase = "returned"]
  <1>1. r \in Request /\ w \in Connection /\ ClientOK(r, w, peer) /\ Set(c, s) /\ SetWire(c, w)
    BY DEF Before, LoopReturns, SetWire
  <1>2. /\ s \in Request /\ s.phase = "returned" /\ s.timer = r.timer /\ s.tcp = r.tcp
        /\ s.connect = r.connect /\ s.write = r.write /\ s.events = r.events
    BY <1>1 DEF Request
  <1> HIDE DEF r, w, s
  <1>3. Unstarted(s, w) /\ Owed(s, w) /\ Tells(r, s, "read")
    BY <1>1, <1>2 DEF ClientOK, Unstarted, Owed, Tells
  <1>4. Ends(r) # {} => s.timer = "closed" /\ s.connect # "pending"
    BY <1>1, <1>2 DEF ClientOK, Single
  <1>5. peer = "api" /\ Responses(r) # {} => Closes(s)
    BY <1>1, <1>2 DEF ClientOK, Final, Closes
  <1>6. SameReply(w, w) /\ Carries(w, w)  BY DEF SameReply, Carries
  <1>7. "read" \in Errors \ Outcomes  BY Quiet
  <1> QED
    BY <1>1, <1>2, <1>3, <1>4, <1>5, <1>6, <1>7, QuietMoves, Zenon DEF r, w

\* end() arms the timer of a client that has been told no outcome.
LEMMA endMoves ==
  ASSUME NEW c, Before(c), end(c)
  PROVE Moves(c)
  <1> DEFINE r == req[c]
             w == wire[c]
             a == [r EXCEPT !.timer = "armed"]
             up(h) == [a EXCEPT !.tcp = h, !.phase = IF a.own THEN "returned" ELSE "looping"]
  <1>1. r \in Request /\ w \in Connection /\ ClientOK(r, w, peer)  BY DEF Before
  <1>2. /\ a \in Request /\ a.timer = "armed" /\ a.phase = r.phase /\ a.tcp = r.tcp
        /\ a.connect = r.connect /\ a.write = r.write /\ a.events = r.events
    BY <1>1 DEF Request
  <1>3. r.phase \in {"new", "asked"}  BY <1>2 DEF end
  <1>4. /\ r.connect = "none" /\ r.write = "none" /\ w.link = "none" /\ w.text = "none"
    BY <1>1, <1>3 DEF ClientOK, Unstarted
  <1>5. Ends(r) = {} /\ Responses(r) = {}  BY <1>1, <1>3, NoEndYet
  <1>6. ASSUME NEW s \in Request, NEW v \in Connection, Set(c, s), SetWire(c, v),
               Tells(r, s, "setup"), s.phase \notin {"new", "asked"},
               s.connect = "none" \/ (s.connect = "pending" /\ s.tcp = "connecting"),
               s.write = "none", Carries(w, v), SameReply(w, v), v.text = w.text
        PROVE Moves(c)
    <2> HIDE DEF r, w, a, up
    <2>1. Unstarted(s, v) /\ Owed(s, v)  BY <1>4, <1>6 DEF Unstarted, Owed
    <2>2. "setup" \in Errors \ Outcomes  BY Quiet
    <2> QED  BY <1>5, <1>6, <2>1, <2>2, QuietMoves, Zenon DEF r, w
  <1>7. SameReply(w, w) /\ Carries(w, w)  BY DEF SameReply, Carries
  <1>8. CASE /\ Set(c, [a EXCEPT !.phase = "thrown"]) /\ UNCHANGED wire
    <2> DEFINE s == [a EXCEPT !.phase = "thrown"]
    <2>1. SetWire(c, w)  BY <1>8 DEF Before, SetWire
    <2>2. /\ s \in Request /\ s.phase = "thrown" /\ s.connect = a.connect
          /\ s.write = a.write /\ s.events = a.events
      BY <1>2, Zenon DEF Request
    <2> HIDE DEF r, w, a, s
    <2>3. Set(c, s) /\ Tells(r, s, "setup")  BY <1>2, <1>8, <2>2 DEF s, Tells
    <2> QED  BY <1>1, <1>2, <1>4, <1>6, <1>7, <2>1, <2>2, <2>3
  <1>9. ASSUME NEW h \in {"none", "idle"}, Set(c, emit(up(h), "setup")), UNCHANGED wire
        PROVE Moves(c)
    <2> DEFINE s == emit(up(h), "setup")
    <2>1. SetWire(c, w)  BY <1>9 DEF Before, SetWire
    <2>2. /\ up(h) \in Request /\ up(h).phase \notin {"new", "asked"}
          /\ up(h).connect = a.connect /\ up(h).write = a.write /\ up(h).events = a.events
      BY <1>2, Zenon DEF Request
    <2> HIDE DEF r, w, a, up
    <2>3. s \in Request /\ Alike(up(h), s) /\ Tells(up(h), s, "setup")
      BY <2>2, EmitFields DEF Errors
    <2> HIDE DEF s
    <2>4. Tells(r, s, "setup") /\ Set(c, s)  BY <1>2, <1>9, <2>2, <2>3 DEF Tells, s
    <2> QED  BY <1>1, <1>2, <1>4, <1>6, <1>7, <2>1, <2>2, <2>3, <2>4 DEF Alike
  <1>10. CASE /\ Set(c, [a EXCEPT !.phase = "looping", !.tcp = "connecting",
                                    !.connect = "pending"])
              /\ SetWire(c, [w EXCEPT !.link = "syn"])
    <2> DEFINE s == [a EXCEPT !.phase = "looping", !.tcp = "connecting", !.connect = "pending"]
               v == [w EXCEPT !.link = "syn"]
    <2>1. s \in Request /\ s.phase = "looping" /\ s.connect = "pending"
      BY <1>2, Zenon DEF Request
    <2>2. s.tcp = "connecting" /\ s.write = a.write /\ s.events = a.events
      BY <1>2 DEF Request
    <2>3. v \in Connection /\ SameReply(w, v) /\ v.text = w.text /\ v.sent = w.sent
      BY <1>1 DEF Connection, SameReply
    <2>4. Set(c, s) /\ SetWire(c, v)  BY <1>10
    <2> HIDE DEF r, w, a, s, v
    <2>5. Tells(r, s, "setup") /\ Carries(w, v)  BY <1>2, <1>4, <2>2, <2>3 DEF Tells, Carries
    <2> QED  BY <1>2, <1>4, <1>6, <2>1, <2>2, <2>3, <2>4, <2>5
  <1> QED  BY <1>8, <1>9, <1>10 DEF end

\* The timeout is told by an armed timer, which no outcome has closed.
LEMMA timeoutFiredMoves ==
  ASSUME NEW c, Before(c), timeoutFired(c)
  PROVE Moves(c)
  <1> DEFINE r == req[c]
             w == wire[c]
             a == clearTimer(r)
             b == clearConnection(a)
  <1>1. r \in Request /\ w \in Connection /\ ClientOK(r, w, peer)  BY DEF Before
  <1>2. r.phase = "looping" /\ r.timer = "armed"  BY DEF timeoutFired, Looping
  <1>3. Ends(r) = {} /\ Responses(r) = {}  BY <1>1, <1>2, NoEndYet
  <1>4. "timeout" \in Errors  BY DEF Errors
  <1>5. /\ a \in Request /\ a.timer = "closed" /\ a.phase = "looping" /\ a.tcp = r.tcp
        /\ a.connect = r.connect /\ a.write = r.write /\ a.events = r.events
    BY <1>1, <1>2, ClearTimerFields
  <1>6. CASE Becomes(c, emit(b, "timeout"))
    <2> DEFINE s == emit(b, "timeout")
    <2> HIDE DEF r, w, a
    <2>1. /\ b \in Request /\ b.timer = "closed" /\ b.phase = "looping" /\ b.events = r.events
      BY <1>5, ClearConnectionFields
    <2>2. \/ /\ b.tcp = "closed"
             /\ b.connect = IF r.connect = "pending" THEN "canceled" ELSE r.connect
          \/ /\ r.tcp \notin {"connecting", "reading"} /\ b.tcp = r.tcp
             /\ b.connect = r.connect /\ b.write = r.write
      BY <1>5, ClearConnectionFields
    <2> HIDE DEF b
    <2>3. s \in Request /\ Alike(b, s) /\ Tells(b, s, "timeout")
      BY <1>4, <2>1, EmitFields
    <2>4. Becomes(c, s)  BY <1>6, Zenon
    <2> HIDE DEF s
    <2>5. Tells(r, s, "timeout")  BY <2>1, <2>3 DEF Tells
    <2>6. s.connect # "pending" /\ s.tcp # "reading" /\ Owed(s, w)
      BY <1>1, <2>2, <2>3 DEF ClientOK, Owed, Alike
    <2>7. s.phase = "looping" /\ s.timer = "closed"  BY <2>1, <2>3 DEF Alike
    <2>8. s.phase \notin {"new", "asked"}  BY <2>7
    <2> QED  BY <1>3, <1>4, <2>3, <2>4, <2>5, <2>6, <2>7, <2>8, EndBecomes, Zenon DEF r, w
  <1>7. CASE Becomes(c, [a EXCEPT !.phase = "crashed"])
    <2> DEFINE s == [a EXCEPT !.phase = "crashed"]
    <2>1. Becomes(c, s)  BY <1>7
    <2> HIDE DEF r, w, a
    <2>2. /\ s \in Request /\ s.phase = "crashed" /\ s.tcp = r.tcp
          /\ s.connect = r.connect /\ s.write = r.write /\ s.events = r.events
      BY <1>5 DEF Request
    <2> HIDE DEF s
    <2>3. Owed(s, w) /\ Tells(r, s, "read") /\ s.phase \notin {"new", "asked"}
      BY <1>1, <2>2 DEF ClientOK, Owed, Tells
    <2>4. "read" \in Errors \ Outcomes  BY Quiet
    <2> QED  BY <1>3, <2>1, <2>2, <2>3, <2>4, QuietBecomes, Zenon DEF r, w
  <1> QED  BY <1>6, <1>7, Zenon DEF timeoutFired

\* A connect that is pending has not been given up, so nothing has been told but quiet
\* errors; one that was canceled is not told.
LEMMA connectCbMoves ==
  ASSUME NEW c, Before(c), connectCb(c)
  PROVE Moves(c)
  <1> DEFINE q == req[c]
             w == wire[c]
             r == [q EXCEPT !.connect = "done"]
  <1>1. q \in Request /\ w \in Connection /\ ClientOK(q, w, peer) /\ q.phase = "looping"
    BY DEF Before, connectCb, Looping
  <1>2. /\ r \in Request /\ r.connect = "done" /\ r.phase = "looping" /\ r.timer = q.timer
        /\ r.tcp = q.tcp /\ r.write = q.write /\ r.events = q.events
    BY <1>1 DEF Request
  <1>3. CASE q.connect = "canceled" /\ Becomes(c, r)
    <2>1. Becomes(c, r)  BY <1>3
    <2>2. "read" \in Errors \ Outcomes  BY Quiet
    <2> HIDE DEF q, w, r
    <2>3. Owed(r, w) /\ Tells(q, r, "read") /\ r.phase \notin {"new", "asked"}
      BY <1>2 DEF Owed, Tells
    <2>4. Ends(q) # {} => r.timer = "closed"  BY <1>1, <1>2 DEF ClientOK, Single
    <2>5. r.connect # "pending" /\ (r.tcp = "reading" => q.tcp = "reading")  BY <1>2
    <2>6. peer = "api" => Responses(q) = {}  BY <1>1, <1>3 DEF ClientOK, Final, Closes
    <2> QED  BY <1>2, <2>1, <2>2, <2>3, <2>4, <2>5, <2>6, QuietBecomes, Zenon DEF q, w
  <1>4. ASSUME q.connect = "pending"
        PROVE Ends(q) = {} /\ Responses(q) = {} /\ w.text = "none"
    BY <1>1, <1>4, NoEndYet DEF ClientOK, Owed
  <1>5. ASSUME q.connect = "pending", NEW h \in {"idle", "closed"},
               Becomes(c, emit([clearTimer(r) EXCEPT !.tcp = h], "connect"))
        PROVE Moves(c)
    <2> DEFINE a == clearTimer(r)
               b == [a EXCEPT !.tcp = h]
               s == emit(b, "connect")
    <2>1. Becomes(c, s)  BY <1>5
    <2>2. "connect" \in Errors  BY DEF Errors
    <2> HIDE DEF q, w, r
    <2>3. /\ a \in Request /\ a.timer = "closed" /\ a.phase = "looping"
          /\ a.connect = "done" /\ a.events = q.events
      BY <1>2, ClearTimerFields
    <2> HIDE DEF a
    <2>4. /\ b \in Request /\ b.timer = "closed" /\ b.phase = "looping" /\ b.tcp = h
          /\ b.connect = "done" /\ b.events = q.events
      BY <2>3 DEF Request
    <2> HIDE DEF b
    <2>5. s \in Request /\ Alike(b, s) /\ Tells(b, s, "connect")
      BY <2>2, <2>4, EmitFields
    <2> HIDE DEF s
    <2>6. Tells(q, s, "connect") /\ Owed(s, w)  BY <2>4, <2>5 DEF Tells, Owed, Alike
    <2>7. /\ s.timer = "closed" /\ s.connect # "pending" /\ s.tcp # "reading"
          /\ s.phase \notin {"new", "asked"}
      BY <2>4, <2>5 DEF Alike
    <2> QED  BY <1>4, <1>5, <2>1, <2>2, <2>5, <2>6, <2>7, EndBecomes, Zenon DEF q, w
  <1>6. ASSUME q.connect = "pending", NEW t \in {"queued", "flushed"},
               NEW x \in {"part", "request"},
               Set(c, [r EXCEPT !.tcp = "reading", !.write = t]),
               SetWire(c, [w EXCEPT !.text = x])
        PROVE Moves(c)
    <2> DEFINE s == [r EXCEPT !.tcp = "reading", !.write = t]
               v == [w EXCEPT !.text = x]
    <2>1. Set(c, s) /\ SetWire(c, v)  BY <1>6
    <2>2. "read" \in Errors \ Outcomes  BY Quiet
    <2> HIDE DEF q, r
    <2>3. s \in Request /\ s.connect = "done"  BY <1>2, Zenon DEF Request
    <2>4. s.phase = "looping" /\ s.events = q.events  BY <1>2 DEF Request
    <2>5. v \in Connection /\ SameReply(w, v) /\ v.sent = w.sent /\ v.link = w.link
      BY <1>1 DEF Connection, SameReply
    <2> HIDE DEF w, s, v
    <2>6. Unstarted(s, v) /\ Owed(s, v) /\ Tells(q, s, "read")
      BY <2>3, <2>4 DEF Unstarted, Owed, Tells
    <2>7. Carries(w, v)  BY <1>4, <1>6, <2>5 DEF Carries
    <2> QED
      BY <1>4, <1>6, <2>1, <2>2, <2>3, <2>5, <2>6, <2>7, QuietMoves, Zenon DEF q, w
  <1>7. ASSUME q.connect = "pending", NEW h \in {"idle", "reading"},
               Becomes(c, emit([r EXCEPT !.tcp = h], "write"))
        PROVE Moves(c)
    <2> DEFINE b == [r EXCEPT !.tcp = h]
               s == emit(b, "write")
    <2>1. Becomes(c, s)  BY <1>7
    <2>2. "write" \in Errors \ Outcomes  BY Quiet
    <2> HIDE DEF q, w, r
    <2>3. b \in Request /\ b.phase = "looping" /\ b.connect = "done" /\ b.events = q.events
      BY <1>2 DEF Request
    <2> HIDE DEF b
    <2>4. s \in Request /\ Alike(b, s) /\ Tells(b, s, "write")
      BY <2>2, <2>3, EmitFields
    <2> HIDE DEF s
    <2>5. Tells(q, s, "write") /\ Owed(s, w) /\ s.phase \notin {"new", "asked"}
      BY <2>3, <2>4 DEF Tells, Owed, Alike
    <2> QED  BY <1>4, <1>7, <2>1, <2>2, <2>4, <2>5, QuietBecomes, Zenon DEF q, w
  <1> QED  BY <1>3, <1>5, <1>6, <1>7 DEF connectCb

\* A write that fails is no outcome.
LEMMA writeCbMoves ==
  ASSUME NEW c, Before(c), writeCb(c)
  PROVE Moves(c)
  <1> DEFINE q == req[c]
             w == wire[c]
             r == [q EXCEPT !.write = "done"]
  <1>1. /\ q \in Request /\ w \in Connection /\ ClientOK(q, w, peer) /\ q.phase = "looping"
        /\ q.write \in {"queued", "flushed", "canceled"}
    BY DEF Before, writeCb, Looping
  <1>2. /\ r \in Request /\ r.connect = q.connect /\ r.phase = "looping" /\ r.timer = q.timer
        /\ r.tcp = q.tcp /\ r.write = "done" /\ r.events = q.events
    BY <1>1 DEF Request
  <1>3. PICK s : Becomes(c, s) /\ (s = r \/ s = emit(r, "write"))  BY Zenon DEF writeCb
  <1>4. "write" \in Errors \ Outcomes  BY Quiet
  <1> HIDE DEF q, w, r
  <1>5. s \in Request /\ Alike(r, s) /\ Tells(r, s, "write")
    <2>1. CASE s = r  BY <1>2, <2>1 DEF Alike, Tells
    <2>2. CASE s = emit(r, "write")  BY <1>2, <1>4, <2>2, EmitFields
    <2> QED  BY <1>3, <2>1, <2>2
  <1>6. Tells(q, s, "write") /\ s.phase \notin {"new", "asked"} /\ s.write = "done"
    BY <1>2, <1>5 DEF Tells, Alike
  <1>7. Owed(s, w)  BY <1>1, <1>2, <1>5 DEF ClientOK, Owed, Alike
  <1>8. Ends(q) # {} => s.timer = "closed" /\ s.connect # "pending"
    BY <1>1, <1>2, <1>5 DEF ClientOK, Single, Alike
  <1>9. s.tcp = "reading" => q.tcp = "reading"  BY <1>2, <1>5 DEF Alike
  <1>10. peer = "api" /\ Responses(q) # {} => Closes(s)
    BY <1>1, <1>2, <1>5 DEF ClientOK, Final, Closes, Alike
  <1>11. q.write # "done"  BY <1>1
  <1> QED
    BY <1>3, <1>4, <1>5, <1>6, <1>7, <1>8, <1>9, <1>10, <1>11, QuietBecomes, Zenon DEF q, w

\* A client that reads from the ApiServer has not been told a response yet.
LEMMA readCbMoves ==
  ASSUME NEW c, Before(c), readCb(c)
  PROVE Moves(c)
  <1> DEFINE r == req[c]
             w == wire[c]
  <1>1. /\ r \in Request /\ w \in Connection /\ ClientOK(r, w, peer) /\ r.phase = "looping"
        /\ r.tcp = "reading"
    BY DEF Before, readCb, Looping
  <1>2. peer = "api" => Responses(r) = {}  BY <1>1 DEF ClientOK, Final, Closes
  <1>3. Ends(r) # {} => r.timer = "closed" /\ r.connect # "pending"
    BY <1>1 DEF ClientOK, Single
  <1>4. {"read", "httpparse", "upgrade"} \subseteq Errors \ Outcomes  BY Quiet
  <1>5. ASSUME NEW b \in Request, NEW e \in {"read", "httpparse", "upgrade"},
               b.phase = r.phase, b.timer = r.timer, b.connect = r.connect,
               b.write = r.write, b.events = r.events, NEW s, s = b \/ s = emit(b, e)
        PROVE /\ s \in Request /\ Tells(r, s, e) /\ s.phase \notin {"new", "asked"}
              /\ Owed(s, w) /\ s.timer = r.timer /\ s.connect = r.connect
    <2> HIDE DEF r, w
    <2>1. s \in Request /\ Alike(b, s) /\ Tells(b, s, e)
      <3>1. CASE s = b  BY <3>1 DEF Alike, Tells
      <3>2. CASE s = emit(b, e)  BY <1>4, <3>2, EmitFields
      <3> QED  BY <1>5, <3>1, <3>2
    <2> QED  BY <1>1, <1>5, <2>1 DEF ClientOK, Owed, Alike, Tells
  <1>6. ASSUME NEW e \in {"httpparse", "upgrade"}, w.reply \in {"junk", "upgrade"},
               Set(c, emit(r, e)), SetWire(c, Taken(w))
        PROVE Moves(c)
    <2> DEFINE s == emit(r, e)
               v == Taken(w)
    <2>1. Set(c, s) /\ SetWire(c, v)  BY <1>6
    <2> HIDE DEF r, w
    <2>2. /\ s \in Request /\ Tells(r, s, e) /\ s.phase \notin {"new", "asked"}
          /\ Owed(s, w) /\ s.timer = r.timer /\ s.connect = r.connect
      BY <1>1, <1>5
    <2>3. v \in Connection /\ Carries(w, v) /\ v.text = w.text /\ v.reply = "taken"
      BY <1>1, TakenFields
    <2> HIDE DEF s, v
    <2>4. Unstarted(s, v) /\ Owed(s, v)  BY <2>2, <2>3 DEF Unstarted, Owed
    <2>5. e \in Errors \ Outcomes  BY <1>4, <1>6
    <2> QED
      BY <1>1, <1>2, <1>3, <1>6, <2>1, <2>2, <2>3, <2>4, <2>5, QuietMoves, Zenon DEF r, w
  <1>7. ASSUME NEW b \in Request, NEW s, Becomes(c, s), s = b \/ s = emit(b, "read"),
               b.phase = r.phase, b.timer = r.timer, b.connect = r.connect,
               b.write = r.write, b.events = r.events
        PROVE Moves(c)
    <2> HIDE DEF r, w
    <2>1. /\ s \in Request /\ Tells(r, s, "read") /\ s.phase \notin {"new", "asked"}
          /\ Owed(s, w) /\ s.timer = r.timer /\ s.connect = r.connect
      BY <1>5, <1>7
    <2>2. "read" \in Errors \ Outcomes  BY <1>4
    <2> QED  BY <1>1, <1>2, <1>3, <1>7, <2>1, <2>2, QuietBecomes, Zenon DEF r, w
  <1>8. CASE Becomes(c, emit(r, "read"))  BY <1>1, <1>7, <1>8
  <1>9. ASSUME NEW s, Becomes(c, s),
               s = [r EXCEPT !.tcp = "idle"] \/ s = emit([r EXCEPT !.tcp = "idle"], "read")
        PROVE Moves(c)
    <2> DEFINE b == [r EXCEPT !.tcp = "idle"]
    <2>1. s = b \/ s = emit(b, "read")  BY <1>9
    <2>2. /\ b \in Request /\ b.phase = r.phase /\ b.timer = r.timer /\ b.connect = r.connect
          /\ b.write = r.write /\ b.events = r.events
      BY <1>1 DEF Request
    <2> HIDE DEF r, b
    <2> QED  BY <1>7, <1>9, <2>1, <2>2, Zenon
  <1> QED  BY <1>6, <1>8, <1>9, Zenon DEF readCb

\* What on_message_complete does to the fields of a client q, before it tells anything.
LEMMA CompletedFields ==
  ASSUME NEW q \in Request, NEW w, NEW p, ClientOK(q, w, p), q.phase = "looping",
         q.tcp = "reading", NEW keep \in BOOLEAN
  PROVE LET a == clearTimer(q)
            b == IF keep THEN clearConnection(a) ELSE a
        IN  /\ b \in Request /\ b.timer = "closed" /\ b.phase = "looping"
            /\ b.events = q.events /\ b.connect \notin {"pending", "canceled"}
            /\ keep => b.tcp = "closed" /\ b.write # "queued"
  <1> DEFINE a == clearTimer(q)
  <1>1. /\ a \in Request /\ a.timer = "closed" /\ a.phase = q.phase /\ a.tcp = q.tcp
        /\ a.connect = q.connect /\ a.write = q.write /\ a.events = q.events
    BY ClearTimerFields
  <1>2. q.connect \notin {"pending", "canceled"}  BY DEF ClientOK, Owed
  <1> HIDE DEF a
  <1>3. CASE keep
    <2> DEFINE b == clearConnection(a)
    <2>1. b \in Request /\ b.timer = "closed" /\ b.phase = "looping" /\ b.events = q.events
      BY <1>1, ClearConnectionFields
    <2>2. /\ b.tcp = "closed" /\ b.connect \notin {"pending", "canceled"} /\ b.write # "queued"
      BY <1>1, <1>2, ClearConnectionFields
    <2> QED  BY <1>3, <2>1, <2>2, Zenon DEF a
  <1>4. CASE ~keep
    BY <1>1, <1>2, <1>4, Zenon DEF a
  <1> QED  BY <1>3, <1>4

\* A response of the ApiServer is the first, and closes the handle.
LEMMA ApiCompleteMoves ==
  ASSUME NEW c, Before(c), on_message_complete(c), peer = "api"
  PROVE Moves(c)
  <1> DEFINE q == req[c]
             w == wire[c]
             b == IF w.keep THEN clearConnection(clearTimer(q)) ELSE clearTimer(q)
             s == emit(b, w.reply)
             u == Taken(w)
             v == Hangup(u, s)
  <1>1. q \in Request /\ w \in Connection /\ ClientOK(q, w, peer)  BY DEF Before
  <1>2. q.tcp = "reading" /\ q.phase = "looping" /\ w.reply \in Statuses
    BY <1>1, ClearTimerFields DEF on_message_complete, Looping
  <1>3. w.keep /\ w.more = "nothing"  BY <1>1, Zenon DEF ClientOK, Final
  <1>4. Set(c, s) /\ SetWire(c, v)  BY <1>3, Zenon DEF on_message_complete
  <1>5. w.keep \in BOOLEAN  BY <1>1, Zenon DEF Connection
  <1> HIDE DEF q, w
  <1>6. /\ b \in Request /\ b.timer = "closed" /\ b.phase = "looping"
        /\ b.events = q.events /\ b.connect \notin {"pending", "canceled"}
        /\ w.keep => b.tcp = "closed" /\ b.write # "queued"
    BY <1>1, <1>2, <1>5, CompletedFields, Zenon
  <1> HIDE DEF b
  <1>7. s \in Request /\ Alike(b, s) /\ Tells(b, s, w.reply)  BY <1>2, <1>6, EmitFields
  <1>8. u \in Connection /\ Carries(w, u) /\ u.reply = "taken" /\ u.more = "nothing" /\ u.keep
    BY <1>1, TakenFields, Zenon
  <1> HIDE DEF s, u
  <1>9. v \in Connection /\ SameReply(u, v) /\ Carries(u, v)  BY <1>8, HangupFields, Zenon
  <1> HIDE DEF v
  <1>10. Carries(w, v)  BY <1>8, <1>9 DEF Carries
  <1>11. v.reply = "taken" /\ v.more = "nothing" /\ v.keep  BY <1>8, <1>9, Zenon DEF SameReply
  <1>12. Tells(q, s, w.reply)  BY <1>6, <1>7 DEF Tells
  <1>13. Ends(q) = {} /\ Responses(q) = {}
    <2>1. Ends(q) = {}  BY <1>1, <1>2 DEF ClientOK, Single
    <2> QED  BY <2>1, ResponsesEnd
  <1>14. /\ s.timer = "closed" /\ s.phase = "looping" /\ s.connect \notin {"pending", "canceled"}
         /\ s.tcp = "closed" /\ s.write # "queued"
    BY <1>3, <1>6, <1>7, Zenon DEF Alike
  <1>15. w.reply \in Statuses \cup Errors  BY <1>2
  <1>16. Single(s, peer)  BY <1>1, <1>7, <1>12, <1>13, <1>14, <1>15, FirstSingle
  <1>17. \A i \in Responses(s) : i = Len(s.events) /\ s.events[i] = w.reply
    BY <1>1, <1>7, <1>12, <1>13, <1>15, TellsEnds
  <1>18. Final(s, v)  BY <1>11, <1>14, <1>17, Zenon DEF Final, Last, Closes
  <1>19. Unstarted(s, v) /\ Owed(s, v)  BY <1>14 DEF Unstarted, Owed
  <1>20. Seen(q, w, s, v)  BY <1>2, <1>10, <1>11, <1>17 DEF Seen, Statuses
  <1> QED
    BY <1>4, <1>7, <1>9, <1>16, <1>18, <1>19, <1>20, Zenon DEF Moves, ClientOK, q, w

\* A response of another server follows no outcome but responses, and so does what is
\* found after it.
LEMMA OtherCompleteMoves ==
  ASSUME NEW c, Before(c), on_message_complete(c), peer = "other"
  PROVE Moves(c)
  <1> DEFINE q == req[c]
             w == wire[c]
             b == IF w.keep THEN clearConnection(clearTimer(q)) ELSE clearTimer(q)
             t == emit(b, w.reply)
             s == IF w.more = "nothing" THEN t ELSE emit(t, w.more)
             u == Taken(w)
             v == Hangup(u, s)
  <1>1. q \in Request /\ w \in Connection /\ ClientOK(q, w, peer)  BY DEF Before
  <1>2. q.tcp = "reading" /\ q.phase = "looping" /\ w.reply \in Statuses
    BY <1>1, ClearTimerFields DEF on_message_complete, Looping
  <1>3. Set(c, s) /\ SetWire(c, v)  BY Zenon DEF on_message_complete
  <1>4. w.keep \in BOOLEAN  BY <1>1, Zenon DEF Connection
  <1>5. w.more \in {"nothing", "ok", "upgrade", "httpparse"}  BY <1>1 DEF Connection
  <1> HIDE DEF q, w
  <1>6. /\ b \in Request /\ b.timer = "closed" /\ b.phase = "looping"
        /\ b.events = q.events /\ b.connect \notin {"pending", "canceled"}
    BY <1>1, <1>2, <1>4, CompletedFields, Zenon
  <1> HIDE DEF b
  <1>7. w.reply \in Statuses \cup Errors  BY <1>2
  <1>8. t \in Request /\ Alike(b, t) /\ Tells(b, t, w.reply)  BY <1>6, <1>7, EmitFields
  <1> HIDE DEF t
  <1>9. \E e \in {"ok", "upgrade", "httpparse"} :
          s \in Request /\ Alike(t, s) /\ Tells(t, s, e)
    <2>1. CASE w.more = "nothing"  BY <1>8, <2>1 DEF Alike, Tells
    <2>2. CASE w.more # "nothing"
      <3>1. w.more \in {"ok", "upgrade", "httpparse"} /\ w.more \in Statuses \cup Errors
        BY <1>5, <2>2 DEF Statuses, Errors
      <3>2. s = emit(t, w.more)  BY <2>2
      <3> HIDE DEF s
      <3> QED  BY <1>8, <3>1, <3>2, EmitFields
    <2> QED  BY <2>1, <2>2
  <1>10. PICK e \in {"ok", "upgrade", "httpparse"} :
           s \in Request /\ Alike(t, s) /\ Tells(t, s, e)
    BY <1>9
  <1>11. u \in Connection  BY <1>1, TakenFields
  <1> HIDE DEF s, u
  <1>12. v \in Connection  BY <1>11, HangupFields
  <1> HIDE DEF v
  <1>13. \A i \in Ends(q) : q.events[i] \in Statuses  BY <1>1, <1>2 DEF ClientOK, Single
  <1>14. \A i \in Ends(t) : t.events[i] \in Statuses
    <2>1. Tells(q, t, w.reply)  BY <1>6, <1>8 DEF Tells
    <2> QED  BY <1>1, <1>2, <1>7, <1>8, <1>13, <2>1, TellsEnds
  <1>15. \A i \in Ends(s) : s.events[i] \in Statuses
    <2>1. e \in Statuses \cup Errors /\ (e \in Outcomes => e \in Statuses)
      BY DEF Statuses, Errors, Outcomes
    <2> QED  BY <1>8, <1>10, <1>14, <2>1, TellsEnds
  <1>16. s.timer = "closed" /\ s.phase = "looping" /\ s.connect \notin {"pending", "canceled"}
    BY <1>6, <1>8, <1>10 DEF Alike
  <1>17. Single(s, peer)  BY <1>15, <1>16 DEF Single
  <1>18. Unstarted(s, v) /\ Owed(s, v)  BY <1>16 DEF Unstarted, Owed
  <1>19. ClientOK(s, v, peer)  BY <1>17, <1>18 DEF ClientOK
  <1>20. peer # "api"  OBVIOUS
  <1> QED  BY <1>3, <1>10, <1>12, <1>19, <1>20, Zenon DEF Moves

\* Every step of a client.
LEMMA ClientMoves ==
  ASSUME NEW c, Before(c), ClientNext(c)
  PROVE Moves(c)
  <1>1. CASE on_message_complete(c)
    BY <1>1, ApiCompleteMoves, OtherCompleteMoves DEF Before
  <1> QED
    BY <1>1, getMoves, onMoves, endMoves, LoopReturnsMoves, timeoutFiredMoves, connectCbMoves,
       writeCbMoves, readCbMoves DEF ClientNext, Callback

-----------------------------------------------------------------------------
(* The steps of the network and of another server.                           *)

\* The network keeps a client's part of the invariant.
LEMMA NetworkMoves ==
  ASSUME NEW r \in Request, NEW w \in Connection, NEW v \in Connection, NEW p,
         ClientOK(r, w, p), SameReply(w, v), w.link = "none" => v.link = "none",
         v.text = w.text \/ r.write = "queued"
  PROVE ClientOK(r, v, p)
  <1>1. Unstarted(r, v) /\ Owed(r, v)  BY DEF ClientOK, Unstarted, Owed
  <1>2. p = "api" => Final(r, v)  BY DEF ClientOK, Final, SameReply
  <1> QED  BY <1>1, <1>2, Zenon DEF ClientOK

\* So does the server that hands over its reply: the ApiServer does it once.
LEMMA ReplyMoves ==
  ASSUME NEW r \in Request, NEW w \in Connection, NEW v \in Connection, NEW p,
         ClientOK(r, w, p), w.link # "none", v.text = w.text,
         p = "api" => /\ w.reply = "none" /\ v.reply \in Statuses
                      /\ v.keep = w.keep /\ v.more = w.more
  PROVE ClientOK(r, v, p)
  <1>1. Unstarted(r, v) /\ Owed(r, v)  BY DEF ClientOK, Unstarted, Owed
  <1>2. p = "api" => Final(r, v)  BY DEF ClientOK, Final, Statuses
  <1> QED  BY <1>1, <1>2, Zenon DEF ClientOK

-----------------------------------------------------------------------------
(* What those steps leave of the server's part.                              *)

\* What the bytes of a request are to blame for, they remain so.
LEMMA StillTruthful ==
  ASSUME NEW x, NEW w, NEW v, NEW n, NEW q, Truthful(x, w, n, q), Carries(w, v)
  PROVE Truthful(x, v, n, q)
  BY Zenon DEF Truthful, Carries

\* A step of the client or of the network.
LEMMA SeenServed ==
  ASSUME NEW r, NEW w, NEW s, NEW v, NEW k, NEW n, NEW q,
         ServedOK(r, w, k, n, q), Seen(r, w, s, v)
  PROVE ServedOK(s, v, k, n, q)
  <1>1. Carries(w, v)  BY DEF Seen
  <1>2. v.sent = "whole" => v.text \notin {"none", "part"}
    BY <1>1 DEF Carries, ServedOK
  <1>3. k \in {"none", "reading", "calling"} => n = 0 /\ v.reply = "none"
    BY DEF ServedOK, Seen
  <1>4. k \in Statuses =>
          Truthful(k, v, n, q) \/ (k = "bad_request" /\ v.link \in {"left", "cut"})
    <2>1. w.link \in {"left", "cut"} => v.link \in {"left", "cut"}  BY <1>1, Zenon DEF Carries
    <2> QED  BY <1>1, <2>1, StillTruthful, Zenon DEF ServedOK
  <1>5. v.reply \in Statuses => Truthful(v.reply, v, n, q)
    <2>1. v.reply \in Statuses => v.reply = w.reply  BY DEF Seen, Statuses
    <2> QED  BY <1>1, <2>1, StillTruthful, Zenon DEF ServedOK
  <1>6. \A i \in Responses(s) : Truthful(s.events[i], v, n, q)
    <2> TAKE i \in Responses(s)
    <2>1. s.events[i] \in Statuses  BY DEF Responses
    <2>2. Truthful(s.events[i], w, n, q)  BY <2>1, Zenon DEF Seen, ServedOK
    <2> QED  BY <1>1, <2>2, StillTruthful, Zenon
  <1> QED  BY <1>2, <1>3, <1>4, <1>5, <1>6, Zenon DEF ServedOK

-----------------------------------------------------------------------------
(* The invariant is kept.                                                    *)

\* A step of one client or on its connection.
LEMMA OneClient ==
  ASSUME TypeInv, RestInv, NEW c \in Clients, NEW s \in Request, NEW v \in Connection,
         Set(c, s), SetWire(c, v), UNCHANGED <<server, peer>>, ClientOK(s, v, peer),
         peer = "api" => Seen(req[c], wire[c], s, v)
  PROVE TypeInv' /\ RestInv'
  <1>1. /\ req' \in [Clients -> Request] /\ wire' \in [Clients -> Connection]
        /\ req'[c] = s /\ wire'[c] = v
        /\ \A d \in Clients \ {c} : req'[d] = req[d] /\ wire'[d] = wire[d]
    BY DEF TypeInv, Set, SetWire
  <1>2. TypeInv'  BY <1>1, Zenon DEF TypeInv, TypeOK, server
  <1>3. \A d \in Clients : ClientOK(req'[d], wire'[d], peer')
    BY <1>1 DEF RestInv
  <1>4. Calling' = Calling  BY Zenon DEF Calling, server
  <1>5. ASSUME peer = "api"  PROVE ServersOK'
    <2>1. ServersOK  BY <1>5, Zenon DEF RestInv
    <2>2. ThreadsOK'  BY <1>4, <2>1 DEF ServersOK, ThreadsOK, server
    <2>3. ServedOK(s, v, conn[c], served[c], want[c])
      BY <1>5, <2>1, SeenServed, Zenon DEF ServersOK
    <2>4. v.reply # "none" => wire[c].reply # "none"  BY <1>5, Zenon DEF Seen
    <2>5. AnsweredOnce'  BY <1>1, <2>1, <2>4, Zenon DEF ServersOK, AnsweredOnce, server
    <2>6. \A d \in Clients : ServedOK(req'[d], wire'[d], conn'[d], served'[d], want'[d])
      BY <1>1, <2>1, <2>3, Zenon DEF ServersOK, server
    <2> QED  BY <2>2, <2>5, <2>6, Zenon DEF ServersOK
  <1> QED  BY <1>2, <1>3, <1>4, <1>5, Zenon DEF RestInv, server

\* The caller of a client and the callbacks of its loop.
LEMMA ClientStepKeeps ==
  ASSUME TypeInv, RestInv, NEW c \in Clients, ClientStep(c)
  PROVE TypeInv' /\ RestInv'
  <1>1. Before(c)  BY DEF TypeInv, RestInv, Before
  <1>2. Moves(c)  BY <1>1, ClientMoves DEF ClientStep
  <1>3. PICK s \in Request, v \in Connection :
          /\ Set(c, s) /\ SetWire(c, v)
          /\ ClientOK(s, v, peer) /\ (peer = "api" => Seen(req[c], wire[c], s, v))
    BY <1>2, Zenon DEF Moves
  <1> QED  BY <1>3, OneClient DEF ClientStep

\* A step that carries bytes or loses the connection.
LEMMA NetworkKeeps ==
  ASSUME TypeInv, RestInv, NEW c \in Clients, NEW s \in Request, NEW v \in Connection,
         Set(c, s), SetWire(c, v), UNCHANGED <<server, peer>>,
         ClientOK(s, v, peer), s.events = req[c].events,
         SameReply(wire[c], v), Carries(wire[c], v)
  PROVE TypeInv' /\ RestInv'
  <1>1. Seen(req[c], wire[c], s, v)  BY DEF Seen, SameReply, Responses
  <1> QED  BY <1>1, OneClient, Zenon

\* Each step of the network.
LEMMA NetworkStepKeeps ==
  ASSUME TypeInv, RestInv, NEW c \in Clients, Network(c)
  PROVE TypeInv' /\ RestInv'
  <1> DEFINE r == req[c]
             w == wire[c]
  <1>1. r \in Request /\ w \in Connection /\ ClientOK(r, w, peer)
    BY DEF TypeInv, RestInv
  <1>2. ASSUME NEW v \in Connection, NetSet(c, v), SameReply(w, v), Carries(w, v),
               w.link = "none" => v.link = "none", v.text = w.text
        PROVE TypeInv' /\ RestInv'
    <2>1. Set(c, r) /\ SetWire(c, v) /\ UNCHANGED <<server, peer>>
      BY <1>2 DEF NetSet, Set, TypeInv
    <2> HIDE DEF r, w
    <2>2. ClientOK(r, v, peer)  BY <1>1, <1>2, NetworkMoves
    <2> QED  BY <1>1, <1>2, <2>1, <2>2, NetworkKeeps, Zenon DEF r, w
  <1>3. ASSUME NEW l \in {"up", "refused", "cut"}, w.link \in {"syn", "up"},
               NetSet(c, [w EXCEPT !.link = l])
        PROVE TypeInv' /\ RestInv'
    <2> DEFINE v == [w EXCEPT !.link = l]
    <2>1. v \in Connection /\ SameReply(w, v) /\ v.sent = w.sent /\ v.text = w.text
      BY <1>1 DEF Connection, SameReply
    <2>2. NetSet(c, v)  BY <1>3
    <2> HIDE DEF r, w, v
    <2>3. Carries(w, v) /\ w.link # "none"  BY <1>3, <2>1 DEF Carries
    <2> QED  BY <1>2, <2>1, <2>2, <2>3, Zenon
  <1>4. CASE Handshake(c)  BY <1>3, <1>4 DEF Handshake
  <1>5. CASE Refuse(c)  BY <1>3, <1>5 DEF Refuse
  <1>6. CASE Cut(c)  BY <1>3, <1>6, Zenon DEF Cut
  <1>7. CASE Flush(c)
    <2>1. PICK t \in {"queued", "flushed"} : Set(c, [r EXCEPT !.write = t])
      BY <1>7, Zenon DEF Flush
    <2>2. PICK x \in {"part", "request", "garbled", "refused", w.text} :
            /\ SetWire(c, [w EXCEPT !.text = x])
            /\ x = w.text \/ w.text = "part"
      BY <1>7, Zenon DEF Flush
    <2> DEFINE s == [r EXCEPT !.write = t]
               v == [w EXCEPT !.text = x]
    <2>3. Set(c, s) /\ SetWire(c, v) /\ UNCHANGED <<server, peer>> /\ r.write = "queued"
      BY <1>7, <2>1, <2>2, Zenon DEF Flush
    <2>4. w.text \in {"none", "part", "request", "garbled", "refused"}  BY <1>1 DEF Connection
    <2>5. v \in Connection /\ SameReply(w, v) /\ v.sent = w.sent /\ v.link = w.link
      BY <1>1, <2>2, <2>4 DEF Connection, SameReply
    <2>6. v.text = x  BY <1>1 DEF Connection
    <2>7. /\ s \in Request /\ s.phase = r.phase /\ s.timer = r.timer /\ s.tcp = r.tcp
          /\ s.connect = r.connect /\ s.write = t /\ s.events = r.events
      BY <1>1 DEF Request
    <2> HIDE DEF r, w, s, v
    <2>8. ClientOK(r, v, peer)  BY <1>1, <2>3, <2>5, NetworkMoves
    <2>9. Unstarted(s, v) /\ Owed(s, v)
      BY <2>3, <2>7, <2>8 DEF ClientOK, Unstarted, Owed
    <2>10. Single(s, peer)  BY <2>7, <2>8 DEF ClientOK, Single, Ends
    <2>11. peer = "api" => Responses(s) = {}
      BY <2>3, <2>7, <2>8 DEF ClientOK, Final, Closes, Responses
    <2>12. peer = "api" => Final(s, v)  BY <2>8, <2>11, Zenon DEF ClientOK, Final, Last
    <2>13. Carries(w, v)  BY <2>2, <2>5, <2>6 DEF Carries
    <2>14. ClientOK(s, v, peer)  BY <2>9, <2>10, <2>12, Zenon DEF ClientOK
    <2> QED  BY <2>3, <2>5, <2>7, <2>13, <2>14, NetworkKeeps, Zenon DEF r, w
  <1>8. CASE Deliver(c)
    <2>1. PICK t \in {"part", "whole"} :
            /\ NetSet(c, [w EXCEPT !.sent = t])
            /\ t = "part" \/ w.text \notin {"none", "part"}
      BY <1>8, Zenon DEF Deliver
    <2> DEFINE v == [w EXCEPT !.sent = t]
    <2>2. v \in Connection /\ SameReply(w, v) /\ v.text = w.text /\ v.link = w.link
      BY <1>1 DEF Connection, SameReply
    <2>3. v.sent = t  BY <1>1 DEF Connection
    <2>4. NetSet(c, v)  BY <2>1
    <2> HIDE DEF r, w, v
    <2>5. Carries(w, v)  BY <2>1, <2>2, <2>3 DEF Carries
    <2> QED  BY <1>2, <2>2, <2>4, <2>5, Zenon
  <1> QED  BY <1>4, <1>5, <1>6, <1>7, <1>8 DEF Network

\* Another server's answers.
LEMMA OtherServerKeeps ==
  ASSUME TypeInv, RestInv, NEW c \in Clients, OtherServer(c)
  PROVE TypeInv' /\ RestInv'
  <1> DEFINE r == req[c]
             w == wire[c]
  <1>1. r \in Request /\ w \in Connection /\ ClientOK(r, w, peer) /\ Set(c, r)
    BY Zenon DEF TypeInv, RestInv, OtherServer, NetSet, Set
  <1>2. peer = "other" /\ w.link = "up" /\ UNCHANGED <<server, peer>>
    BY Zenon DEF OtherServer, NetSet
  <1>3. ASSUME NEW v \in Connection, SetWire(c, v), v.text = w.text
        PROVE TypeInv' /\ RestInv'
    <2>1. w.link # "none" /\ peer # "api"  BY <1>2
    <2> HIDE DEF r, w
    <2>2. ClientOK(r, v, peer)  BY <1>1, <1>3, <2>1, ReplyMoves
    <2> QED  BY <1>1, <1>2, <1>3, <2>1, <2>2, OneClient, Zenon
  <1>4. ASSUME NEW keep \in BOOLEAN, NEW more \in {"nothing", "ok", "upgrade", "httpparse"},
               SetWire(c, [w EXCEPT !.reply = "ok", !.keep = keep, !.more = more])
        PROVE TypeInv' /\ RestInv'
    <2> DEFINE v == [w EXCEPT !.reply = "ok", !.keep = keep, !.more = more]
    <2>1. SetWire(c, v)  BY <1>4
    <2>2. v \in Connection  BY <1>1, ZenonT(30) DEF Connection, Statuses
    <2>3. v.text = w.text  BY <1>1 DEF Connection
    <2> HIDE DEF w, v
    <2> QED  BY <1>3, <2>1, <2>2, <2>3
  <1>5. ASSUME NEW what \in {"junk", "upgrade"}, SetWire(c, [w EXCEPT !.reply = what])
        PROVE TypeInv' /\ RestInv'
    <2> DEFINE v == [w EXCEPT !.reply = what]
    <2>1. SetWire(c, v)  BY <1>5
    <2>2. v \in Connection  BY <1>1, Zenon DEF Connection
    <2>3. v.text = w.text  BY <1>1 DEF Connection
    <2> HIDE DEF w, v
    <2> QED  BY <1>3, <2>1, <2>2, <2>3
  <1>6. CASE SetWire(c, [w EXCEPT !.ended = TRUE])
    <2> DEFINE v == [w EXCEPT !.ended = TRUE]
    <2>1. SetWire(c, v)  BY <1>6
    <2>2. v \in Connection  BY <1>1, Zenon DEF Connection
    <2>3. v.text = w.text  BY <1>1 DEF Connection
    <2> HIDE DEF w, v
    <2> QED  BY <1>3, <2>1, <2>2, <2>3
  <1> QED  BY <1>4, <1>5, <1>6, Zenon DEF OtherServer, NetSet

\* What the server may do to a connection: nothing, cut it or hand over its answer k.
Gives(w, v, k) ==
  /\ v \in Connection /\ v.text = w.text /\ v.sent = w.sent
  /\ v.more = w.more /\ v.keep = w.keep
  /\ \/ v.reply = w.reply /\ (v.link = w.link \/ (w.link = "up" /\ v.link = "cut"))
     \/ k \in Statuses /\ w.link = "up" /\ v.link = w.link /\ v.reply = k

\* An answer is handed over once, and is true.
LEMMA GivenServed ==
  ASSUME NEW r \in Request, NEW w \in Connection, NEW v, NEW k, NEW n, NEW q,
         ClientOK(r, w, "api"), ServedOK(r, w, k, n, q), Gives(w, v, k),
         k # "done" => w.reply = "none"
  PROVE ClientOK(r, v, "api") /\ ServedOK(r, v, k, n, q)
  <1>1. v \in Connection /\ Carries(w, v)  BY DEF Gives, Carries
  <1>2. \A i \in Responses(r) : Truthful(r.events[i], v, n, q)
    BY <1>1, StillTruthful, Zenon DEF ServedOK
  <1>3. v.sent = "whole" => v.text \notin {"none", "part"}  BY DEF Gives, ServedOK
  <1>4. CASE v.reply = w.reply /\ (v.link = w.link \/ (w.link = "up" /\ v.link = "cut"))
    <2>1. SameReply(w, v) /\ (w.link = "none" => v.link = "none")
      BY <1>4 DEF Gives, SameReply
    <2>2. ClientOK(r, v, "api")  BY <1>1, <2>1, NetworkMoves, Zenon DEF Gives
    <2>3. Seen(r, w, r, v)  BY <1>1, <1>4 DEF Seen
    <2> QED  BY <2>2, <2>3, SeenServed, Zenon
  <1>5. CASE k \in Statuses /\ w.link = "up" /\ v.link = w.link /\ v.reply = k
    <2>1. k \notin {"done", "none", "reading", "calling"}  BY <1>5 DEF Statuses
    <2>2. Truthful(k, v, n, q)
      <3>1. Truthful(k, w, n, q)  BY <1>5 DEF ServedOK
      <3> QED  BY <1>1, <3>1, StillTruthful
    <2>3. ClientOK(r, v, "api")  BY <1>1, <1>5, <2>1, ReplyMoves DEF Gives
    <2> QED  BY <1>2, <1>3, <1>5, <2>1, <2>2, <2>3, Zenon DEF ServedOK
  <1> QED  BY <1>4, <1>5 DEF Gives

\* Closed and Unaccepted do no more than that.
LEMMA CloseGives ==
  ASSUME NEW c \in Clients, wire[c] \in Connection
  PROVE /\ Gives(wire[c], Unaccepted(c), conn[c])
        /\ \A v \in Closed(c) : Gives(wire[c], v, conn[c])
  <1> DEFINE w == wire[c]
  <1>1. Gives(w, w, conn[c])  BY DEF Gives
  <1>2. ASSUME w.link = "up"  PROVE Gives(w, [w EXCEPT !.link = "cut"], conn[c])
    BY <1>2 DEF Gives, Connection
  <1>3. Gives(w, [w EXCEPT !.ended = TRUE], conn[c])  BY Zenon DEF Gives, Connection
  <1>4. ASSUME w.link = "up", NEW s \in Statuses \cap {conn[c]}
        PROVE Gives(w, [w EXCEPT !.ended = TRUE, !.reply = s], conn[c])
    <2> DEFINE v == [w EXCEPT !.ended = TRUE, !.reply = s]
    <2>1. v \in Connection  BY Zenon DEF Connection
    <2>2. /\ v.text = w.text /\ v.sent = w.sent /\ v.more = w.more /\ v.keep = w.keep
      BY DEF Connection
    <2>3. v.link = w.link /\ v.reply = s  BY DEF Connection
    <2> QED  BY <1>4, <2>1, <2>2, <2>3 DEF Gives
  <1> QED  BY <1>1, <1>2, <1>3, <1>4, Zenon DEF Unaccepted, Closed

\* A step of the server on the connections, of which none is answered twice.
LEMMA GivesKeeps ==
  ASSUME TypeInv, RestInv, peer = "api", UNCHANGED <<req, want, conn, served, peer>>,
         wire' \in [Clients -> Connection],
         \A c \in Clients : Gives(wire[c], wire'[c], conn[c]),
         main \notin Gone,
         main' \in MainLabels, io' \in {"idle", "running", "stopping", "returned", "thrown"},
         acceptor' \in BOOLEAN, ThreadsOK',
         main' \in Gone \/ \A c \in Clients : wire'[c].reply = wire[c].reply
  PROVE TypeInv' /\ RestInv'
  <1>1. ServersOK  BY Zenon DEF RestInv
  <1>2. ASSUME NEW c \in Clients
        PROVE /\ ClientOK(req[c], wire'[c], "api")
              /\ ServedOK(req[c], wire'[c], conn[c], served[c], want[c])
    <2>1. req[c] \in Request /\ wire[c] \in Connection  BY DEF TypeInv
    <2>2. ClientOK(req[c], wire[c], "api")  BY DEF RestInv
    <2>3. ServedOK(req[c], wire[c], conn[c], served[c], want[c])  BY <1>1 DEF ServersOK
    <2>4. conn[c] # "done" => wire[c].reply = "none"  BY <1>1 DEF ServersOK, AnsweredOnce
    <2>5. Gives(wire[c], wire'[c], conn[c])  OBVIOUS
    <2> QED  BY <2>1, <2>2, <2>3, <2>4, <2>5, GivenServed
  <1>3. AnsweredOnce'  BY <1>1 DEF ServersOK, AnsweredOnce
  <1>4. Calling' = Calling  BY DEF Calling
  <1>5. main' \in {"stop_detector", "exited"} => ~Calling'  BY DEF ThreadsOK
  <1>6. TypeInv'  BY Zenon DEF TypeInv, TypeOK
  <1>7. ServersOK'  BY <1>2, <1>3, Zenon DEF ServersOK
  <1> QED  BY <1>2, <1>5, <1>6, <1>7 DEF RestInv

\* A step of the io thread for one client.
LEMMA ConnKeeps ==
  ASSUME TypeInv, RestInv, peer = "api", NEW c \in Clients, NEW v \in Connection,
         NEW k \in {"none", "reading", "calling", "done"} \cup Statuses, NEW n \in Nat,
         SetWire(c, v), conn' = [conn EXCEPT ![c] = k], served' = [served EXCEPT ![c] = n],
         UNCHANGED <<want, main, io, acceptor, req, peer>>,
         io \in {"running", "stopping"},
         ClientOK(req[c], v, "api"), ServedOK(req[c], v, k, n, want[c]),
         v.reply # "none" => k = "done"
  PROVE TypeInv' /\ RestInv'
  <1>1. /\ wire' \in [Clients -> Connection] /\ wire'[c] = v /\ conn'[c] = k /\ served'[c] = n
        /\ conn' \in [Clients -> {"none", "reading", "calling", "done"} \cup Statuses]
        /\ served' \in [Clients -> Nat]
        /\ \A d \in Clients \ {c} :
             wire'[d] = wire[d] /\ conn'[d] = conn[d] /\ served'[d] = served[d]
    BY DEF TypeInv, TypeOK, SetWire
  <1>2. TypeInv'  BY <1>1, Zenon DEF TypeInv, TypeOK
  <1>3. ServersOK  BY DEF RestInv
  <1>4. ThreadsOK' /\ main' \notin {"stop_detector", "exited"}
    BY <1>3, Zenon DEF ServersOK, ThreadsOK
  <1>5. AnsweredOnce'  BY <1>1, <1>3, Zenon DEF ServersOK, AnsweredOnce
  <1>6. \A d \in Clients : ServedOK(req'[d], wire'[d], conn'[d], served'[d], want'[d])
    BY <1>1, <1>3, Zenon DEF ServersOK
  <1>7. \A d \in Clients : ClientOK(req'[d], wire'[d], peer')
    BY <1>1, Zenon DEF RestInv
  <1> QED  BY <1>2, <1>4, <1>5, <1>6, <1>7, Zenon DEF RestInv, ServersOK

\* While the io thread runs, or waits for an endpoint, nobody else has answered.
LEMMA WhileRunning ==
  ASSUME TypeInv, RestInv, peer = "api", io \in {"running", "stopping"}
  PROVE /\ ServersOK /\ main \notin Gone
        /\ \A c \in Clients : conn[c] # "done" => wire[c].reply = "none"
  <1>1. ServersOK  BY Zenon DEF RestInv
  <1>2. main \notin Gone  BY <1>1 DEF ServersOK, ThreadsOK, Gone
  <1> QED  BY <1>1, <1>2 DEF ServersOK, AnsweredOnce

\* A connection is accepted, a request is read and an endpoint returns.
LEMMA ServeKeeps ==
  ASSUME TypeInv, RestInv, peer = "api", UNCHANGED peer, NEW c \in Clients,
         accept(c) \/ handleRequest(c) \/ EndpointReturns(c)
  PROVE TypeInv' /\ RestInv'
  <1> DEFINE r == req[c]
             w == wire[c]
             n == served[c]
             q == want[c]
  <1>1. r \in Request /\ w \in Connection /\ n \in Nat /\ q \in Requests
    BY Zenon DEF TypeInv, TypeOK
  <1>2. ClientOK(r, w, "api") /\ ServedOK(r, w, conn[c], n, q)
    BY Zenon DEF RestInv, ServersOK
  <1>3. /\ io \in {"running", "stopping"} /\ SetWire(c, w)
        /\ UNCHANGED <<want, main, io, acceptor, req>>
    BY DEF accept, handleRequest, EndpointReturns, Running, SetWire, TypeInv
  <1>4. CASE accept(c)
    <2>1. /\ conn[c] = "none"
          /\ conn' = [conn EXCEPT ![c] = "reading"] /\ served' = [served EXCEPT ![c] = n]
      BY <1>4, Zenon DEF accept, TypeInv, TypeOK
    <2> HIDE DEF r, w, n, q
    <2>2. ServedOK(r, w, "reading", n, q)  BY <1>2, <2>1, Zenon DEF ServedOK, Statuses
    <2>3. w.reply = "none"  BY <1>2, <2>1 DEF ServedOK
    <2> QED  BY <1>1, <1>2, <1>3, <2>1, <2>2, <2>3, ConnKeeps, Zenon DEF r, q
  <1>5. CASE handleRequest(c)
    <2> DEFINE whole == ReadWhole(c)
               k == IF whole /\ Registered(q) THEN "calling"
                    ELSE IF whole THEN "not_found" ELSE "bad_request"
    <2>1. /\ conn[c] = "reading" /\ conn' = [conn EXCEPT ![c] = k]
          /\ served' = [served EXCEPT ![c] = n]
      BY <1>5, Zenon DEF handleRequest, TypeInv, TypeOK
    <2>2. whole \/ \/ w.link \in {"left", "cut"} \/ q \in {"bad line", "bad head"}
                   \/ w.sent = "whole" /\ w.text \notin {"request", "garbled"}
      BY <1>5, Zenon DEF handleRequest, ReadFailed, ReadWhole
    <2>3. q # "bad line"  BY <1>5, Zenon DEF handleRequest, Throws
    <2> HIDE DEF r, w, n, q, whole
    <2>4. /\ n = 0 /\ w.reply = "none" /\ (w.sent = "whole" => w.text \notin {"none", "part"})
      BY <1>2, <2>1 DEF ServedOK
    <2>5. w.text \in {"none", "part", "request", "garbled", "refused"}  BY <1>1 DEF Connection
    <2>6. k = "bad_request" =>
            \/ w.link \in {"left", "cut"} \/ q \in {"POST unparsable", "bad head"}
            \/ w.text \in {"garbled", "refused"}
      BY <2>2, <2>3, <2>4, <2>5, Zenon
    <2>7. /\ k \in {"calling", "not_found", "bad_request"}
          /\ k = "calling" => Registered(q)
          /\ k = "not_found" => ~Registered(q)
      BY Zenon
    <2> HIDE DEF k
    <2>8. k \in Statuses =>
            Truthful(k, w, n, q) \/ (k = "bad_request" /\ w.link \in {"left", "cut"})
      BY <2>4, <2>6, <2>7, Zenon DEF Truthful
    <2>9. ServedOK(r, w, k, n, q)  BY <1>2, <2>4, <2>7, <2>8, Zenon DEF ServedOK
    <2>10. k \in {"none", "reading", "calling", "done"} \cup Statuses  BY <2>7 DEF Statuses
    <2> QED  BY <1>1, <1>2, <1>3, <2>1, <2>4, <2>9, <2>10, ConnKeeps, Zenon DEF r, q
  <1>6. CASE EndpointReturns(c)
    <2>1. conn[c] = "calling" /\ served' = [served EXCEPT ![c] = n + 1]
      BY <1>6 DEF EndpointReturns
    <2>2. PICK k \in Results(c) : conn' = [conn EXCEPT ![c] = k]
      BY <1>6, Zenon DEF EndpointReturns
    <2>3. k = Endpoint(q) \/ (w.text = "garbled" /\ k \in {"created", "bad_request"})
      BY <2>2, Zenon DEF Results
    <2> HIDE DEF r, w, n, q
    <2>4. /\ n = 0 /\ w.reply = "none" /\ (w.sent = "whole" => w.text \notin {"none", "part"})
          /\ Registered(q)
      BY <1>2, <2>1, Zenon DEF ServedOK
    <2>5. /\ Endpoint(q) \in {"ok", "created", "bad_request"}
          /\ Endpoint(q) = "bad_request" => q = "POST unparsable"
      BY <1>1, <2>4, Zenon DEF Registered, Endpoint, Requests
    <2>6. k \in {"ok", "created", "bad_request"} /\ Truthful(k, w, n + 1, q)
      <3>1. n + 1 = 1  BY <2>4
      <3>2. CASE k = Endpoint(q)  BY <2>5, <3>1, <3>2, Zenon DEF Truthful
      <3>3. CASE w.text = "garbled" /\ k \in {"created", "bad_request"}
        BY <3>1, <3>3 DEF Truthful
      <3> QED  BY <2>3, <3>2, <3>3
    <2>7. Responses(r) = {}  BY <1>2, <2>4 DEF ClientOK, Final
    <2>8. "none" \notin Statuses /\ k \notin {"none", "reading", "calling"}
      BY <2>6 DEF Statuses
    <2>9. ServedOK(r, w, k, n + 1, q)  BY <2>4, <2>6, <2>7, <2>8 DEF ServedOK
    <2>10. n + 1 \in Nat /\ k \in {"none", "reading", "calling", "done"} \cup Statuses
      BY <1>1, <2>6 DEF Statuses
    <2> QED  BY <1>1, <1>2, <1>3, <2>1, <2>2, <2>4, <2>9, <2>10, ConnKeeps, Zenon DEF r, q
  <1> QED  BY <1>4, <1>5, <1>6

\* A response is written, or could not be.
LEMMA respondKeeps ==
  ASSUME TypeInv, RestInv, peer = "api", UNCHANGED peer, NEW c \in Clients, respond(c)
  PROVE TypeInv' /\ RestInv'
  <1> DEFINE r == req[c]
             w == wire[c]
             k == conn[c]
             n == served[c]
             q == want[c]
             u == [w EXCEPT !.reply = k, !.ended = TRUE]
             v == IF w.link = "up" THEN u ELSE w
  <1>1. /\ r \in Request /\ w \in Connection /\ n \in Nat
        /\ ClientOK(r, w, "api") /\ ServedOK(r, w, k, n, q)
    BY DEF TypeInv, TypeOK, RestInv, ServersOK
  <1>2. /\ io \in {"running", "stopping"} /\ SetWire(c, v) /\ k \in Statuses
        /\ UNCHANGED <<want, main, io, acceptor, req>>
        /\ conn' = [conn EXCEPT ![c] = "done"] /\ served' = [served EXCEPT ![c] = n]
    BY DEF respond, Running, TypeInv, TypeOK
  <1>3. k \notin {"done", "none", "reading", "calling"}  BY <1>2 DEF Statuses
  <1>4. w.reply = "none"  BY <1>2, <1>3, WhileRunning
  <1> HIDE DEF r, w, k, n, q
  <1>5. /\ u \in Connection /\ u.text = w.text /\ u.sent = w.sent /\ u.more = w.more
        /\ u.keep = w.keep /\ u.link = w.link /\ u.reply = k
    <2>1. u \in Connection  BY <1>1, <1>2, Zenon DEF Connection
    <2>2. u.text = w.text /\ u.sent = w.sent /\ u.more = w.more /\ u.keep = w.keep
      BY <1>1 DEF Connection
    <2>3. u.link = w.link /\ u.reply = k  BY <1>1, Zenon DEF Connection
    <2> QED  BY <2>1, <2>2, <2>3
  <1> HIDE DEF u
  <1>6. Gives(w, v, k)  BY <1>1, <1>2, <1>5 DEF Gives
  <1> HIDE DEF v
  <1>7. ClientOK(r, v, "api") /\ ServedOK(r, v, k, n, q)  BY <1>1, <1>4, <1>6, GivenServed, Zenon
  <1>8. ServedOK(r, v, "done", n, q)
    BY <1>3, <1>7 DEF ServedOK, Statuses
  <1>9. v \in Connection  BY <1>6 DEF Gives
  <1> QED  BY <1>1, <1>2, <1>7, <1>8, <1>9, ConnKeeps, Zenon DEF r, q

\* The connections are closed, at the end of the program or by an exception.
LEMMA CloseAllGives ==
  ASSUME TypeInv, CloseAll
  PROVE /\ wire' \in [Clients -> Connection]
        /\ \A c \in Clients : Gives(wire[c], wire'[c], conn[c])
  <1>1. \A c \in Clients : wire[c] \in Connection  BY DEF TypeInv
  <1>2. \A c \in Clients : wire'[c] = Unaccepted(c) \/ wire'[c] \in Closed(c)
    BY Zenon DEF CloseAll
  <1>3. \A c \in Clients : Gives(wire[c], wire'[c], conn[c])
    BY <1>1, <1>2, CloseGives, Zenon
  <1>4. \A c \in Clients : wire'[c] \in Connection  BY <1>3 DEF Gives
  <1>5. wire' = [c \in Clients |-> wire'[c]]  BY DEF CloseAll
  <1> QED  BY <1>3, <1>4, <1>5

\* The handlers of the io_context.
LEMMA IoStepKeeps ==
  ASSUME TypeInv, RestInv, peer = "api", UNCHANGED peer, IoStep
  PROVE TypeInv' /\ RestInv'
  <1>1. CASE RunReturns
    <2>1. ServersOK /\ main \notin Gone  BY <1>1, WhileRunning DEF RunReturns
    <2>2. Calling' = Calling  BY <1>1, Zenon DEF RunReturns, Calling
    <2>3. ThreadsOK'  BY <1>1, <2>1, <2>2, Zenon DEF RunReturns, ServersOK, ThreadsOK, Gone
    <2>4. \A c \in Clients : Gives(wire[c], wire'[c], conn[c])
      BY <1>1 DEF RunReturns, Gives, TypeInv
    <2> QED  BY <1>1, <2>1, <2>3, <2>4, GivesKeeps DEF RunReturns, TypeInv, TypeOK
  <1>2. ASSUME NEW c \in Clients, HandlerThrows(c)  PROVE TypeInv' /\ RestInv'
    <2>1. io = "running" /\ ~Calling  BY <1>2 DEF HandlerThrows, Running
    <2>2. ServersOK /\ main \notin Gone  BY <2>1, WhileRunning
    <2>3. ThreadsOK'  BY <1>2, Zenon DEF HandlerThrows, ThreadsOK
    <2>4. /\ wire' \in [Clients -> Connection]
          /\ \A d \in Clients : Gives(wire[d], wire'[d], conn[d])
      BY <1>2, CloseAllGives DEF HandlerThrows
    <2> QED  BY <1>2, <2>2, <2>3, <2>4, GivesKeeps, Zenon DEF HandlerThrows, Gone, MainLabels
  <1> QED  BY <1>1, <1>2, ServeKeeps, respondKeeps, Zenon DEF IoStep

\* The main thread.
LEMMA MainKeeps ==
  ASSUME TypeInv, RestInv, peer = "api", UNCHANGED peer, start \/ shutdown \/ MainStep
  PROVE TypeInv' /\ RestInv'
  <1>1. ServersOK /\ wire \in [Clients -> Connection]  BY DEF RestInv, TypeInv
  <1>2. \A c \in Clients : Gives(wire[c], wire[c], conn[c])  BY <1>1, Zenon DEF Gives
  <1>3. CASE start
    <2>1. ThreadsOK'  BY <1>3, Zenon DEF start, Goes, ThreadsOK
    <2> QED  BY <1>1, <1>2, <1>3, <2>1, GivesKeeps, Zenon
             DEF start, Goes, Gone, MainLabels, TypeInv, TypeOK
  <1>4. CASE shutdown
    <2>1. ThreadsOK'  BY <1>4 DEF shutdown, Goes, ThreadsOK
    <2> QED  BY <1>1, <1>2, <1>4, <2>1, GivesKeeps
             DEF shutdown, Goes, Gone, MainLabels, TypeInv, TypeOK
  <1>5. CASE CloseAcceptor
    <2>1. Calling' = Calling  BY <1>5, Zenon DEF CloseAcceptor, Calling
    <2>2. ThreadsOK'
      BY <1>1, <1>5, <2>1 DEF CloseAcceptor, Goes, ThreadsOK, ServersOK
    <2>3. \A c \in Clients : wire'[c] = Unaccepted(c)  BY <1>5 DEF CloseAcceptor
    <2>4. \A c \in Clients : Gives(wire[c], wire'[c], conn[c])
      BY <1>1, <2>3, CloseGives, Zenon
    <2>5. wire' \in [Clients -> Connection]  BY <1>5, <2>3, <2>4 DEF CloseAcceptor, Gives
    <2>6. \A c \in Clients : wire'[c].reply = wire[c].reply
      BY <1>1, <2>3, Zenon DEF Unaccepted, Connection
    <2> QED  BY <1>5, <2>2, <2>4, <2>5, <2>6, GivesKeeps, Zenon
             DEF CloseAcceptor, Goes, Gone, MainLabels, TypeInv, TypeOK
  <1>6. CASE Join
    <2>1. Calling' = Calling  BY <1>6, Zenon DEF Join, Calling
    <2>2. ThreadsOK'  BY <1>1, <1>6, <2>1, Zenon DEF Join, Goes, ThreadsOK, ServersOK
    <2>3. /\ wire' \in [Clients -> Connection]
          /\ \A c \in Clients : Gives(wire[c], wire'[c], conn[c])
      BY <1>6, CloseAllGives DEF Join
    <2> QED  BY <1>6, <2>2, <2>3, GivesKeeps
             DEF Join, Goes, Gone, MainLabels, TypeInv, TypeOK
  <1>7. CASE StopDetector
    <2>1. Calling' = Calling  BY <1>7 DEF StopDetector, Calling
    <2>2. ThreadsOK' /\ ~Calling
      BY <1>1, <1>7, <2>1 DEF StopDetector, Goes, ThreadsOK, ServersOK
    <2>3. TypeInv'  BY <1>7 DEF StopDetector, Goes, TypeInv, TypeOK, MainLabels
    <2>4. AnsweredOnce'  BY <1>7, Zenon DEF StopDetector, Goes, AnsweredOnce, Gone
    <2>5. ServersOK'
      BY <1>1, <1>7, <2>2, <2>4 DEF StopDetector, ServersOK
    <2> QED  BY <1>7, <2>1, <2>2, <2>3, <2>5 DEF StopDetector, RestInv
  <1> QED  BY <1>3, <1>4, <1>5, <1>6, <1>7 DEF MainStep

\* The clients before their calls and the program before start().
LEMMA InitRestInv == Init => TypeInv /\ RestInv
  <1> SUFFICES ASSUME Init  PROVE TypeInv /\ RestInv
    BY Zenon
  <1>1. \A own, port \in BOOLEAN : NewRequest(own, port) \in Request
    <2>1. <<>> \in Seq(Statuses \cup Errors)  OBVIOUS
    <2> QED  BY <2>1 DEF NewRequest, Request
  <1>2. NoConnection \in Connection  BY DEF NoConnection, Connection
  <1>3. wire = [c \in Clients |-> NoConnection]  BY Zenon DEF Init, ClientInit
  <1>4. /\ req = [c \in Clients |-> req[c]]
        /\ \A c \in Clients : \E own, port \in BOOLEAN : req[c] = NewRequest(own, port)
    <2> DEFINE S == {NewRequest(FALSE, port) : port \in BOOLEAN}
    <2>1. req \in [Clients -> {NewRequest(TRUE, FALSE)} \cup S]  BY Zenon DEF Init, ClientInit
    <2>2. \A x \in {NewRequest(TRUE, FALSE)} \cup S :
            \E own, port \in BOOLEAN : x = NewRequest(own, port)
      BY Zenon
    <2> HIDE DEF S
    <2> QED  BY <2>1, <2>2, Zenon
  <1>5. req \in [Clients -> Request] /\ wire \in [Clients -> Connection]
    BY <1>1, <1>2, <1>3, <1>4
  <1>6. TypeInv  BY <1>5, Zenon DEF Init, ServerInit, TypeInv, TypeOK, MainLabels
  <1>7. ASSUME NEW c \in Clients
        PROVE /\ ClientOK(req[c], wire[c], peer)
              /\ ServedOK(req[c], wire[c], conn[c], served[c], want[c])
    <2> DEFINE r == req[c]
               w == wire[c]
    <2>1. /\ w.link = "none" /\ w.text = "none" /\ w.sent = "none" /\ w.reply = "none"
          /\ w.more = "nothing" /\ w.keep
      BY <1>3 DEF NoConnection
    <2>2. conn[c] = "none" /\ served[c] = 0  BY Zenon DEF Init, ServerInit
    <2>3. /\ r.timer = "none" /\ r.tcp = "none" /\ r.connect = "none" /\ r.write = "none"
          /\ r.events = <<>>
      <3>1. PICK own \in BOOLEAN, port \in BOOLEAN : r = NewRequest(own, port)  BY <1>4, Zenon
      <3> QED  BY <3>1 DEF NewRequest
    <2> HIDE DEF r, w
    <2>4. Ends(r) = {} /\ Responses(r) = {}  BY <2>3 DEF Ends, Responses
    <2>5. ClientOK(r, w, peer)
      BY <2>1, <2>3, <2>4 DEF ClientOK, Unstarted, Owed, Single, Final, Last
    <2>6. ServedOK(r, w, conn[c], served[c], want[c])
      BY <2>1, <2>2, <2>4 DEF ServedOK, Statuses
    <2> QED  BY <2>5, <2>6 DEF r, w
  <1>8. ThreadsOK /\ AnsweredOnce /\ ~Calling
    BY <1>3, Zenon DEF Init, ServerInit, ThreadsOK, AnsweredOnce, Calling, NoConnection
  <1>9. peer \in {"api", "other"}  BY Zenon DEF Init
  <1> QED  BY <1>6, <1>7, <1>8, <1>9 DEF RestInv, ServersOK

\* The inductive invariant holds in every reachable state.
THEOREM RestInvariant == Spec => [](TypeInv /\ RestInv)
  <1>1. Init => TypeInv /\ RestInv  BY InitRestInv
  <1>2. TypeInv /\ RestInv /\ [Next]_vars => (TypeInv /\ RestInv)'
    <2> SUFFICES ASSUME TypeInv, RestInv, [Next]_vars  PROVE (TypeInv /\ RestInv)'
      OBVIOUS
    <2>1. ASSUME NEW c \in Clients, ClientStep(c) \/ Network(c) \/ OtherServer(c)
          PROVE TypeInv' /\ RestInv'
      BY <2>1, ClientStepKeeps, NetworkStepKeeps, OtherServerKeeps
    <2>2. CASE ServerStep
      BY <2>2, IoStepKeeps, MainKeeps, Zenon DEF ServerStep, ServerNext
    <2>3. CASE UNCHANGED vars
      BY <2>3 DEF vars, server, TypeInv, TypeOK, RestInv, ServersOK, ThreadsOK, AnsweredOnce,
                  Calling
    <2> QED  BY <2>1, <2>2, <2>3 DEF Next
  <1> QED  BY <1>1, <1>2, PTL DEF Spec

-----------------------------------------------------------------------------
(* What follows from it.                                                     *)

\* The members of clients and server keep their types, whatever is called back.
THEOREM RestTypes == Spec => []TypeOK
  <1>1. TypeInv => TypeOK  BY DEF TypeInv
  <1> QED  BY <1>1, RestInvariant, PTL

\* A client is given one outcome: the timer, the connect callback and the response
\* exclude each other.
THEOREM OneOutcomeTheorem == Spec => []OneOutcome
  <1>1. RestInv => OneOutcome
    <2> SUFFICES ASSUME RestInv, NEW c \in Clients,
                        NEW i \in DOMAIN req[c].events, NEW j \in DOMAIN req[c].events,
                        i # j, {req[c].events[i], req[c].events[j]} \subseteq Outcomes
                 PROVE /\ peer = "other"
                       /\ {req[c].events[i], req[c].events[j]} \subseteq Statuses
      BY Zenon DEF OneOutcome
    <2>1. i \in Ends(req[c]) /\ j \in Ends(req[c])  BY DEF Ends
    <2> QED  BY <2>1 DEF RestInv, ClientOK, Single
  <1> QED  BY <1>1, RestInvariant, PTL

\* After the response of the ApiServer a client is told at most that the rest of the
\* request was not written.
THEOREM OnlyWriteFollowsTheorem == Spec => []OnlyWriteFollows
  <1>1. RestInv => OnlyWriteFollows
    BY Zenon DEF RestInv, OnlyWriteFollows, ClientOK, Final, Last, Responses
  <1> QED  BY <1>1, RestInvariant, PTL

\* What a client is told was done for its request was done, once, and what it is blamed
\* for is its request's fault.
THEOREM AnswerIsTrueTheorem == Spec => []AnswerIsTrue
  <1>1. RestInv => AnswerIsTrue
    <2> SUFFICES ASSUME RestInv, peer = "api", NEW c \in Clients
                 PROVE /\ Told(c) \cap {"ok", "created"} # {} => served[c] = 1
                       /\ "not_found" \in Told(c) => served[c] = 0 /\ ~Registered(want[c])
                       /\ "bad_request" \in Told(c) =>
                            \/ want[c] \in {"POST unparsable", "bad head"}
                            \/ wire[c].text \in {"garbled", "refused"}
      BY Zenon DEF AnswerIsTrue
    <2>1. ServedOK(req[c], wire[c], conn[c], served[c], want[c])  BY Zenon DEF RestInv, ServersOK
    <2>2. \A x \in Told(c) : x \in Statuses => Truthful(x, wire[c], served[c], want[c])
      BY <2>1, Zenon DEF ServedOK, Responses, Told
    <2> HIDE DEF Told
    <2> QED  BY <2>2, Zenon DEF Truthful, Statuses
  <1> QED  BY <1>1, RestInvariant, PTL

\* The detector is stopped only when no endpoint is being called, or will be.
THEOREM NoCallAfterJoinTheorem == Spec => []NoCallAfterJoin
  <1>1. RestInv => NoCallAfterJoin  BY DEF RestInv, NoCallAfterJoin
  <1> QED  BY <1>1, RestInvariant, PTL
=============================================================================
