----------------------------- MODULE WireClient -----------------------------
(***************************************************************************)
(* The browser kernel's client of the host's websocket protocol, in        *)
(* transport/bridge.ts: a socket (Conn) per watched endpoint and a control *)
(* one, calls that wait for `ready`, sockets closed by unwatchRemote and   *)
(* dialled anew.                                                           *)
(*                                                                         *)
(* A Conn outlives its connections: it redials after each drop.  `host` is *)
(* what the host keeps for the present connection of a Conn; it starts     *)
(* afresh with every connection.  Frames are handled as they are sent: a   *)
(* frame that a drop overtakes is lost with the state it would have made.  *)
(* Delays, which double up to a limit, are left out.                       *)
(***************************************************************************)
EXTENDS Naturals

CONSTANTS Endpoint,   \* agents a socket may be dialled to
          Control,    \* controlEndpoint
          Call,       \* calls the program makes
          Handler,    \* subscribers of the host's state stream
          NConns,     \* Conn objects
          MaxDrops,   \* connections lost
          None

ASSUME ClientConstants ==
  /\ Control \in Endpoint
  /\ NConns \in Nat /\ None \notin Nat

VARIABLES conns,      \* WsBridge.conns: the Conn of each endpoint
          phase,      \* of each Conn: what its socket does
          nextId,     \* Conn.nextId
          pending,    \* Conn.pending: correlation id -> call
          call,       \* what became of each call, and on which Conn
          handlers,   \* WsBridge.stateHandlers
          host,       \* per Conn: subscriptions and open requests at the host
          drops       \* connections lost

clientVars == <<conns, phase, nextId, pending, call, handlers, host, drops>>

Conn == 1..NConns
Free == [at |-> "free", on |-> None, got |-> None]
NoMap == [i \in {} |-> None]
Nobody == [subs |-> 0, asked |-> {}]

Init ==
  /\ conns = [e \in Endpoint |-> None]
  /\ phase = [o \in Conn |-> "unused"]
  /\ nextId = [o \in Conn |-> 1] /\ pending = [o \in Conn |-> NoMap]
  /\ call = [c \in Call |-> Free]
  /\ handlers = {} /\ host = [o \in Conn |-> Nobody]
  /\ drops = 0

-----------------------------------------------------------------------------
\* Sockets.

\* connFor an endpoint without a Conn: the next unused one dials.  (The bound
\* leaves one for the control endpoint.)
Dialled(e, o) ==
  /\ e # Control /\ conns[Control] = None => o < NConns
  /\ phase[o] = "unused" /\ \A p \in Conn : phase[p] = "unused" => o <= p
  /\ conns' = [conns EXCEPT ![e] = o]
  /\ phase' = [phase EXCEPT ![o] = "dialing"]

\* connFor, for the Conn o of an endpoint.
ConnFor(e, o) ==
  \/ o = conns[e] /\ UNCHANGED <<conns, phase>>
  \/ conns[e] = None /\ Dialled(e, o)

\* watchRemote and onLifecycle.
WatchRemote(e) ==
  /\ conns[e] = None
  /\ \E o \in Conn : ConnFor(e, o)
  /\ UNCHANGED <<nextId, pending, call, handlers, host, drops>>

\* The calls on o that are in one of the given states move to another.
Moved(o, from, to) == [c \in Call |-> IF call[c].on = o /\ call[c].at \in from
                                      THEN [call[c] EXCEPT !.at = to] ELSE call[c]]

\* Mutant: onopen sends before it sets `connected`, and sendFrame drops the frames.
ReplayedEarly(o) == Nobody

\* What onopen puts into a new connection: `/<endpoint>/ws` is watched by the host
\* itself; the state subscription is sent again.
Replayed(o) ==
  [subs |-> IF o = conns[Control] /\ handlers # {} THEN 1 ELSE 0, asked |-> {}]

\* onopen: `ready` resolves.
Open(o) ==
  /\ phase[o] = "dialing"
  /\ phase' = [phase EXCEPT ![o] = "open"]
  /\ host' = [host EXCEPT ![o] = Replayed(o)]
  /\ call' = Moved(o, {"parked"}, "woken")
  /\ UNCHANGED <<conns, nextId, pending, handlers, drops>>

\* Mutant: the map is cleared and nobody is told.
RejectNone(o) == pending' = [pending EXCEPT ![o] = NoMap] /\ UNCHANGED call

\* rejectAll.
RejectAll(o) ==
  /\ pending' = [pending EXCEPT ![o] = NoMap]
  /\ call' = Moved(o, {"sent"}, "failed")

\* onclose of an open socket the client did not close.
Drop(o) ==
  /\ phase[o] = "open" /\ drops < MaxDrops
  /\ drops' = drops + 1
  /\ phase' = [phase EXCEPT ![o] = "backoff"]
  /\ RejectAll(o)
  /\ host' = [host EXCEPT ![o] = Nobody]
  /\ UNCHANGED <<conns, nextId, handlers>>

\* onclose of a dial that failed.  arm() makes a new `ready`: no one resolves the
\* one that earlier calls wait for.
DialFails(o) ==
  /\ phase[o] = "dialing" /\ drops < MaxDrops
  /\ drops' = drops + 1
  /\ phase' = [phase EXCEPT ![o] = "backoff"]
  /\ call' = Moved(o, {"parked"}, "stranded")
  /\ UNCHANGED <<conns, nextId, pending, handlers, host>>

\* The reconnect timer.
Redial(o) ==
  /\ phase[o] = "backoff"
  /\ phase' = [phase EXCEPT ![o] = "dialing"]
  /\ UNCHANGED <<conns, nextId, pending, call, handlers, host, drops>>

\* unwatchRemote closes the socket, except the control one; `connected` stays set
\* until its onclose.
UnwatchOpen(e) ==
  LET o == conns[e] IN
  /\ e # Control /\ o # None /\ phase[o] = "open"
  /\ phase' = [phase EXCEPT ![o] = "closing"]
  /\ conns' = [conns EXCEPT ![e] = None]
  /\ RejectAll(o)
  /\ host' = [host EXCEPT ![o] = Nobody]
  /\ UNCHANGED <<nextId, handlers, drops>>

\* The same before the socket is open: its `ready` is never resolved.
UnwatchUnopened(e) ==
  LET o == conns[e] IN
  /\ e # Control /\ o # None /\ phase[o] \in {"dialing", "backoff"}
  /\ phase' = [phase EXCEPT ![o] = "closed"]
  /\ conns' = [conns EXCEPT ![e] = None]
  /\ call' = Moved(o, {"parked"}, "stranded")
  /\ UNCHANGED <<nextId, pending, handlers, host, drops>>

\* onclose of a socket the client closed.
CloseEvent(o) ==
  /\ phase[o] = "closing"
  /\ phase' = [phase EXCEPT ![o] = "closed"]
  /\ RejectAll(o)
  /\ UNCHANGED <<conns, nextId, handlers, host, drops>>

-----------------------------------------------------------------------------
\* Calls.

\* Mutant: nextId is read and not advanced.
SameId(o) == 1

\* The id of the next call on o.
FreshId(o) == nextId[o]

\* The call frame: sent into a closing socket it reaches nobody.
Sends(c, o) ==
  LET i == FreshId(o) IN
  /\ nextId' = [nextId EXCEPT ![o] = @ + 1]
  /\ pending' = [pending EXCEPT ![o] = [j \in DOMAIN @ \cup {i} |-> IF j = i THEN c ELSE @[j]]]
  /\ host' = IF phase[o] = "open"
             THEN [host EXCEPT ![o].asked = @ \cup {[id |-> i, of |-> c]}] ELSE host
  /\ call' = [call EXCEPT ![c].at = "sent", ![c].on = o]

\* forward: on the target's own socket if it has one, else on the control one.
\* Conn.call then waits for `ready`.
Forward(c, e) ==
  /\ call[c].at = "free"
  /\ \E o \in Conn :
       /\ IF conns[e] # None THEN ConnFor(e, o) ELSE ConnFor(Control, o)
       /\ call' = [call EXCEPT ![c].at = IF phase[o] = "open" THEN "woken" ELSE "parked",
                                ![c].on = o]
  /\ UNCHANGED <<nextId, pending, handlers, host, drops>>

\* The rest of Conn.call.
Proceed(c) ==
  LET o == call[c].on IN
  /\ call[c].at = "woken"
  /\ \/ phase[o] \in {"open", "closing"} /\ Sends(c, o)
     \/ /\ phase[o] \notin {"open", "closing"}
        /\ call' = [call EXCEPT ![c].at = "failed"]
        /\ UNCHANGED <<nextId, pending, host>>
  /\ UNCHANGED <<conns, phase, handlers, drops>>

\* onMessage of a reply: the entry is taken out and its promise settled.
Settles(o, i, how, got) ==
  /\ pending' = [pending EXCEPT ![o] = [j \in DOMAIN @ \ {i} |-> @[j]]]
  /\ call' = IF i \in DOMAIN pending[o]
             THEN [call EXCEPT ![pending[o][i]].at = how, ![pending[o][i]].got = got] ELSE call

\* The host answers a request, in any order.
Reply(o, q) ==
  /\ q \in host[o].asked
  /\ host' = [host EXCEPT ![o].asked = @ \ {q}]
  /\ Settles(o, q.id, "answered", q.of)
  /\ UNCHANGED <<conns, phase, nextId, handlers, drops>>

\* The host answers with an `error` frame.
Error(o, q) ==
  /\ q \in host[o].asked
  /\ host' = [host EXCEPT ![o].asked = @ \ {q}]
  /\ Settles(o, q.id, "failed", None)
  /\ UNCHANGED <<conns, phase, nextId, handlers, drops>>

-----------------------------------------------------------------------------
\* Standing subscriptions.

\* sendFrame of a subscription frame: dropped unless the socket is open.
Tells(o, h) == host' = IF phase[o] = "open" THEN [host EXCEPT ![o] = h] ELSE host

\* setWantsState: the host adds a callback for every subscribe frame and drops all of
\* them for an unsubscribe frame.
SetWantsState(o, on) ==
  IF on = (handlers # {}) THEN UNCHANGED host
  ELSE Tells(o, [host[o] EXCEPT !.subs = IF on THEN @ + 1 ELSE 0])

\* subscribeState: the first subscriber opens the stream on the control socket.
SubscribeState(h) ==
  /\ h \notin handlers /\ handlers' = handlers \cup {h}
  /\ \E o \in Conn :
       /\ ConnFor(Control, o)
       /\ SetWantsState(o, TRUE)
  /\ UNCHANGED <<nextId, pending, call, drops>>

\* The last one ends it.
UnsubscribeState(h) ==
  LET o == conns[Control] IN
  /\ h \in handlers /\ handlers' = handlers \ {h}
  /\ IF handlers = {h} THEN SetWantsState(o, FALSE) ELSE UNCHANGED host
  /\ UNCHANGED <<conns, phase, nextId, pending, call, drops>>

Answered(o) == \E q \in host[o].asked : Reply(o, q) \/ Error(o, q)

Next ==
  \/ \E e \in Endpoint : WatchRemote(e) \/ UnwatchOpen(e) \/ UnwatchUnopened(e)
  \/ \E o \in Conn : \/ Open(o) \/ Drop(o) \/ DialFails(o) \/ Redial(o) \/ CloseEvent(o)
                     \/ Answered(o)
  \/ \E c \in Call : Proceed(c) \/ \E e \in Endpoint : Forward(c, e)
  \/ \E h \in Handler : SubscribeState(h) \/ UnsubscribeState(h)

\* Dials end, timers and close events fire, resolved promises resume, the host answers.
\* None of these can go on for ever, so that one weak fairness for all of them will do.
Progress ==
  \/ \E o \in Conn : Open(o) \/ Redial(o) \/ CloseEvent(o) \/ Answered(o)
  \/ \E c \in Call : Proceed(c)

Fairness == WF_clientVars(Progress)

Spec == Init /\ [][Next]_clientVars /\ Fairness

-----------------------------------------------------------------------------
\* Properties.

\* A call resolves with the answer to its own request, over reconnects, several
\* sockets and answers out of order (the id correlation of bridge.ts:137-193).
RightReply == \A c \in Call : call[c].at = "answered" => call[c].got = c

Waiting(o) == {c \in Call : call[c].at = "sent" /\ call[c].on = o}

\* A call waits for a reply exactly when one entry of its Conn's pending map holds
\* it, and the map of a Conn that is not up is empty: no entry survives a drop or a
\* close (rejectAll, bridge.ts:162-172).
PendingExact ==
  \A o \in Conn :
    /\ Waiting(o) = {pending[o][i] : i \in DOMAIN pending[o]}
    /\ \A i, j \in DOMAIN pending[o] : pending[o][i] = pending[o][j] => i = j
    /\ DOMAIN pending[o] # {} => phase[o] \in {"open", "closing"}

\* While a socket is open the host holds for it exactly the subscription the client
\* wants: one state stream if there is a subscriber, none else, also after a
\* reconnect (bridge.ts:96-101).
HostAgrees ==
  \A o \in Conn : phase[o] = "open" =>
    host[o].subs = IF o = conns[Control] /\ handlers # {} THEN 1 ELSE 0

\* No call waits for anything that may still come; one that waited for the `ready` of a
\* socket that did not open is out (bridge.ts:85-89,175).
NoneWaits == \A c \in Call : call[c].at \notin {"parked", "woken", "sent"}
=============================================================================
