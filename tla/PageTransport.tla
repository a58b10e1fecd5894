--------------------------- MODULE PageTransport ---------------------------
(***************************************************************************)
(* fantastic_transport (transport.js), which the Rust and the Swift host   *)
(* put into every page they serve: one socket for the document, calls      *)
(* refused while it is down, watches and the state subscription replayed   *)
(* when it comes back, and a document that reloads itself on reload_html.  *)
(*                                                                         *)
(* The host (external) keeps for a connection what its frames asked for,   *)
(* watches the page's own agent by itself, and sends frames in order; what *)
(* is under way is lost with the connection.  A reload begins anew: a      *)
(* document with the body of that moment, no memory, ids from 1.           *)
(***************************************************************************)
EXTENDS Naturals, Sequences

CONSTANTS PgCalls,      \* calls the page's program makes
          PgSubscribers, PgSources,   \* its state handlers; agents it watches
          PgDrops, PgChanges, PgTraffic,   \* bounds: lost sockets, set_html, state events
          PgQueue,      \* bound: frames under way when the page subscribes
          Nothing

VARIABLES pgPhase,     \* of the socket: `connected` is "open"
          pgNextId, pgPending,   \* nextId; pending: id -> call
          pgCall,      \* what became of each call
          pgHandlers, pgSeen,   \* stateHandlers, and the last state each was given
          pgWatching, pgTold,   \* watching; what lifecycle handlers heard last
          pgHost,      \* the host's side of the connection
          pgFrames,    \* frames on their way to the page
          pgShown, pgBody,   \* the body this document was served with; the agent's
          pgState,     \* the host's state, which every event changes
          pgLost,      \* connections lost
          pgMissed, pgUnread   \* ghosts: a change that was not told; calls with unread errors

pageVars == <<pgPhase, pgNextId, pgPending, pgCall, pgHandlers, pgSeen, pgWatching, pgTold,
              pgHost, pgFrames, pgShown, pgBody, pgState, pgLost, pgMissed, pgUnread>>
socketState == <<pgPhase, pgTold>>
callState == <<pgNextId, pgPending, pgCall, pgUnread>>
standing == <<pgHandlers, pgSeen, pgWatching>>
content == <<pgShown, pgBody, pgState, pgLost, pgMissed>>

NoCalls == [i \in {} |-> Nothing]
NoClient == [subs |-> 0, watch |-> {}, asked |-> {}]
Frame(type, id, of) == [type |-> type, id |-> id, of |-> of]

\* A document that has its socket in the given phase and has done nothing.
NewPage(phase) ==
  /\ pgPhase = phase /\ pgTold = "nothing"
  /\ pgNextId = 1 /\ pgPending = NoCalls
  /\ pgCall = [c \in PgCalls |-> [at |-> "free", got |-> Nothing]] /\ pgUnread = {}
  /\ pgHandlers = {} /\ pgSeen = [h \in PgSubscribers |-> Nothing] /\ pgWatching = {}
  /\ pgHost = NoClient /\ pgFrames = <<>>
  /\ pgShown = 0 /\ pgBody = 0 /\ pgState = 0 /\ pgLost = 0 /\ pgMissed = FALSE

\* The load-time bootstrap connects.
PageInit == NewPage("dialing")

-----------------------------------------------------------------------------
\* The socket.

Snapshot == Frame("state_snapshot", 0, pgState)

\* Mutant: the state subscription is not sent again.
ReplaysWatches == [subs |-> 0, watch |-> pgWatching, asked |-> {}]

\* What onopen sends into the new connection.
Replays == [subs |-> IF pgHandlers # {} THEN 1 ELSE 0, watch |-> pgWatching, asked |-> {}]

fireLifecycle(state) == pgTold' = state

\* onopen
PageOpens ==
  /\ pgPhase = "dialing"
  /\ pgPhase' = "open" /\ fireLifecycle("connected")
  /\ pgHost' = Replays
  /\ pgFrames' = IF Replays.subs = 1 THEN <<Snapshot>> ELSE <<>>
  /\ UNCHANGED <<callState, standing, content>>

\* The calls that wait end so.
Ended(how) == [c \in PgCalls |-> IF pgCall[c].at = "sent" THEN [pgCall[c] EXCEPT !.at = how]
                                 ELSE pgCall[c]]

\* rejectAllPending
rejectAllPending == pgPending' = NoCalls /\ pgCall' = Ended("rejected")

\* onclose, of an open socket or of a dial.
PageCloses ==
  /\ pgPhase \in {"open", "dialing"} /\ pgLost < PgDrops
  /\ pgLost' = pgLost + 1
  /\ pgPhase' = "backoff" /\ fireLifecycle("disconnected")
  /\ rejectAllPending
  /\ pgHost' = NoClient /\ pgFrames' = <<>>
  /\ pgMissed' = (pgMissed \/ \E i \in DOMAIN pgFrames : pgFrames[i].type = "reload_html")
  /\ UNCHANGED <<pgNextId, pgUnread, standing, pgShown, pgBody, pgState>>

\* The timer set by onclose.
PageRedials ==
  /\ pgPhase = "backoff" /\ pgPhase' = "dialing"
  /\ UNCHANGED <<pgTold, callState, standing, pgHost, pgFrames, content>>

-----------------------------------------------------------------------------
\* What the page's program does.

\* sendFrame: a frame changes the host's side only while the socket is open.
SendFrame(h) == pgHost' = IF pgPhase = "open" THEN h ELSE pgHost

\* call
PageCalls(c) ==
  /\ pgCall[c].at = "free"
  /\ \/ /\ pgPhase = "open"
        /\ pgNextId' = pgNextId + 1
        /\ pgPending' = [i \in DOMAIN pgPending \cup {pgNextId} |->
                           IF i = pgNextId THEN c ELSE pgPending[i]]
        /\ SendFrame([pgHost EXCEPT !.asked = @ \cup {[id |-> pgNextId, of |-> c]}])
        /\ pgCall' = [pgCall EXCEPT ![c].at = "sent"]
     \/ /\ pgPhase # "open"
        /\ pgCall' = [pgCall EXCEPT ![c].at = "rejected"]
        /\ UNCHANGED <<pgNextId, pgPending, pgHost>>
  /\ UNCHANGED <<socketState, pgUnread, standing, pgFrames, content>>

\* watch and unwatch
PageWatches(s) ==
  /\ s \notin pgWatching /\ pgWatching' = pgWatching \cup {s}
  /\ SendFrame([pgHost EXCEPT !.watch = @ \cup {s}])
  /\ UNCHANGED <<socketState, callState, pgHandlers, pgSeen, pgFrames, content>>

PageUnwatches(s) ==
  /\ s \in pgWatching /\ pgWatching' = pgWatching \ {s}
  /\ SendFrame([pgHost EXCEPT !.watch = @ \ {s}])
  /\ UNCHANGED <<socketState, callState, pgHandlers, pgSeen, pgFrames, content>>

\* subscribeState: only the first handler sends a frame, which brings a snapshot.
PageSubscribes(h) ==
  /\ h \notin pgHandlers /\ Len(pgFrames) < PgQueue
  /\ pgHandlers' = pgHandlers \cup {h}
  /\ pgSeen' = [pgSeen EXCEPT ![h] = Nothing]
  /\ \/ /\ pgHandlers = {} /\ pgPhase = "open"
        /\ SendFrame([pgHost EXCEPT !.subs = @ + 1])
        /\ pgFrames' = Append(pgFrames, Snapshot)
     \/ /\ pgHandlers # {} \/ pgPhase # "open"
        /\ UNCHANGED <<pgHost, pgFrames>>
  /\ UNCHANGED <<socketState, callState, pgWatching, content>>

\* The function it returned; the host forgets every subscription of the connection.
PageUnsubscribes(h) ==
  /\ h \in pgHandlers /\ pgHandlers' = pgHandlers \ {h}
  /\ IF pgHandlers = {h} THEN SendFrame([pgHost EXCEPT !.subs = 0]) ELSE UNCHANGED pgHost
  /\ UNCHANGED <<socketState, callState, pgSeen, pgWatching, pgFrames, content>>

-----------------------------------------------------------------------------
\* Frames.

\* A reply: the entry goes and its promise settles.
GetsReply(f) ==
  /\ pgPending' = [i \in DOMAIN pgPending \ {f.id} |-> pgPending[i]]
  /\ pgCall' = IF f.id \in DOMAIN pgPending
               THEN [pgCall EXCEPT ![pgPending[f.id]] = [at |-> "answered", got |-> f.of]]
               ELSE pgCall
  /\ UNCHANGED <<socketState, pgNextId, pgUnread, standing, pgHost, content>>

\* Any other type, `error` among them, is not looked at.
GetsError(f) ==
  /\ pgUnread' = pgUnread \cup {f.of}
  /\ UNCHANGED <<socketState, pgNextId, pgPending, pgCall, standing, pgHost, content>>

\* state_snapshot and state_event go to every handler.
GetsState(f) ==
  /\ pgSeen' = [h \in PgSubscribers |-> IF h \in pgHandlers THEN f.of ELSE pgSeen[h]]
  /\ UNCHANGED <<socketState, callState, pgHandlers, pgWatching, pgHost, content>>

\* location.reload: the calls of the old document are gone with it.
Reloads ==
  /\ pgPhase' = "dialing" /\ pgTold' = "nothing"
  /\ pgNextId' = 1 /\ pgPending' = NoCalls /\ pgCall' = Ended("gone")
  /\ pgHandlers' = {} /\ pgSeen' = [h \in PgSubscribers |-> Nothing] /\ pgWatching' = {}
  /\ pgHost' = NoClient /\ pgFrames' = <<>>
  /\ pgShown' = pgBody /\ pgMissed' = FALSE
  /\ UNCHANGED <<pgUnread, pgBody, pgState, pgLost>>

\* onmessage
OnMessage ==
  /\ pgFrames # <<>>
  /\ LET f == Head(pgFrames) IN
     \/ f.type = "reload_html" /\ Reloads
     \/ /\ \/ f.type = "reply" /\ GetsReply(f)
           \/ f.type = "error" /\ GetsError(f)
           \/ f.type \in {"state_snapshot", "state_event"} /\ GetsState(f)
        /\ pgFrames' = Tail(pgFrames)

-----------------------------------------------------------------------------
\* The host.

\* It answers a request, by a reply or an error frame.
HostAnswers(q) ==
  /\ q \in pgHost.asked
  /\ pgHost' = [pgHost EXCEPT !.asked = @ \ {q}]
  /\ \E type \in {"reply", "error"} : pgFrames' = Append(pgFrames, Frame(type, q.id, q.of))
  /\ UNCHANGED <<socketState, callState, standing, content>>

\* The body changes and reload_html is emitted on the agent's inbox.
BodyChanges ==
  /\ pgBody < PgChanges /\ pgBody' = pgBody + 1
  /\ pgFrames' = IF pgPhase = "open" THEN Append(pgFrames, Frame("reload_html", 0, Nothing))
                 ELSE pgFrames
  /\ pgMissed' = (pgMissed \/ pgPhase # "open")
  /\ UNCHANGED <<socketState, callState, standing, pgHost, pgShown, pgState, pgLost>>

\* Something happens that the state stream reports.
StateChanges ==
  /\ pgState < PgTraffic /\ pgState' = pgState + 1
  /\ pgFrames' = IF pgHost.subs > 0 THEN Append(pgFrames, Frame("state_event", 0, pgState'))
                 ELSE pgFrames
  /\ UNCHANGED <<socketState, callState, standing, pgHost, pgShown, pgBody, pgLost, pgMissed>>

HostAnswersAny == \E q \in pgHost.asked : HostAnswers(q)

PageNext ==
  \/ PageOpens \/ PageCloses \/ PageRedials \/ OnMessage
  \/ HostAnswersAny \/ BodyChanges \/ StateChanges
  \/ \E c \in PgCalls : PageCalls(c)
  \/ \E s \in PgSources : PageWatches(s) \/ PageUnwatches(s)
  \/ \E h \in PgSubscribers : PageSubscribes(h) \/ PageUnsubscribes(h)

\* Dials end, timers fire, the host answers, and frames arrive.
PageFairness ==
  WF_pageVars(PageOpens \/ PageRedials \/ HostAnswersAny) /\ WF_pageVars(OnMessage)

PageSpec == PageInit /\ [][PageNext]_pageVars /\ PageFairness

-----------------------------------------------------------------------------
\* A call of the page resolves with the answer to its own request, over reconnects
\* and over reloads, after which the ids start at 1 again (transport.js:227-237,
\* :188-194).
PageRightReply == \A c \in PgCalls : pgCall[c].at = "answered" => pgCall[c].got = c

\* Exactly the calls that wait have an entry, one each, and none outlives its
\* connection (transport.js:163-169 rejectAllPending).
PagePendingExact ==
  /\ {c \in PgCalls : pgCall[c].at = "sent"} = {pgPending[i] : i \in DOMAIN pgPending}
  /\ \A i, j \in DOMAIN pgPending : pgPending[i] = pgPending[j] => i = j
  /\ DOMAIN pgPending # {} => pgPhase = "open"

\* While the socket is open the host holds the page's watches and one state stream
\* if there is a handler, none else (transport.js:174-185, :243-281).
PageHostAgrees ==
  pgPhase = "open" =>
    pgHost.watch = pgWatching /\ pgHost.subs = IF pgHandlers # {} THEN 1 ELSE 0

\* When all frames have arrived at an open socket, the document shows the present
\* body, unless a change met no open socket or was lost with it; every state
\* handler was given the present state or, when it came later, nothing yet; and the
\* lifecycle handlers last heard `connected`.  (transport.js:174-205, :346-348)
PageCurrent ==
  pgPhase = "open" /\ pgFrames = <<>> =>
    /\ pgMissed \/ pgShown = pgBody
    /\ \A h \in pgHandlers : pgSeen[h] \in {Nothing, pgState}
    /\ pgTold = "connected"

\* No call of the page waits; one whose `error` frame arrived is out, for nobody reads
\* it (transport.js:186-205).
PageNoneWaits == \A c \in PgCalls : pgCall[c].at # "sent" \/ c \in pgUnread
=============================================================================
