----------------------------- MODULE Messaging -----------------------------
(***************************************************************************)
(* Traffic in one kernel, and the browser connections that observe it:     *)
(* _dispatch, _fanout, watch and the state stream (kernel/_agent.py,       *)
(* kernel/_kernel.py) with the connection loop of web_ws (_proxy.py).      *)
(*                                                                         *)
(* An agent id may be deleted and created again; what hangs on the Agent   *)
(* object (its watchers, its in-flight count) starts afresh then, while a  *)
(* call that runs keeps the object it was dispatched to.  Creation and     *)
(* deletion themselves are the subject of AgentTree.                       *)
(*                                                                         *)
(* The ingress rule lets all frames pass.  A connection has at most one    *)
(* call in flight.  Agents' own inboxes, which nothing here reads, are     *)
(* left out.                                                               *)
(***************************************************************************)
EXTENDS Naturals, Sequences, FiniteSets

CONSTANTS
  Agent, Client,
  Other,       \* callers inside the kernel (handlers, jobs)
  INBOX_BOUND,
  MaxEvents,   \* bound: events fanned out
  MaxGen,      \* bound: incarnations of one agent id
  MaxSubs,     \* bound: state subscriptions of one connection
  None

ASSUME MessagingAssumption ==
  /\ INBOX_BOUND \in Nat \ {0} /\ MaxEvents \in Nat /\ MaxGen \in Nat \ {0} /\ MaxSubs \in Nat
  /\ IsFiniteSet(Client) /\ IsFiniteSet(Other)
  /\ None \notin Nat /\ None \notin Seq(Nat)
  /\ None \notin [to : Agent, gen : 1..MaxGen, cut : BOOLEAN]

Caller == Client \cup Other

VARIABLES
  live,      \* ids in ctx.agents
  gen,       \* incarnation of each id
  inFlight,  \* Agent._in_flight, of each incarnation
  watchers,  \* Agent._watcher_ids, of the live incarnation
  inbox,     \* ctx.inboxes of the clients
  clock,     \* events so far; an event is its number
  conn,      \* connection: "off", "on", "closing" (in its `finally`)
  watching,  \* the connection's own set of watched ids
  call,      \* each caller's call in flight: [to, gen, cut], or None
  subs,      \* its callbacks in ctx.state_subscribers
  snap,      \* it is sending a state snapshot
  view,      \* what its browser was told: in-flight count, or None, by id
  due,       \* ghost: events put into its inbox since it connected
  lost,      \* ghost: watched ids created since they were watched
  stale      \* ghost: ids its view may be wrong about

agentVars == <<live, gen, inFlight>>
queueVars == <<inbox, due, clock>>
connVars == <<conn, watching, lost>>
viewVars == <<view, stale>>
vars == <<agentVars, queueVars, watchers, connVars, call, subs, snap, viewVars>>

\* Every variable has its type; an inbox never exceeds its bound.
TypeOK ==
  /\ live \subseteq Agent /\ gen \in [Agent -> 0..MaxGen]
  /\ inFlight \in [Agent -> [1..MaxGen -> 0..Cardinality(Caller)]]
  /\ watchers \in [Agent -> SUBSET Client]
  /\ clock \in 0..MaxEvents
  /\ inbox \in [Client -> Seq(1..clock) \cup {None}] /\ due \in [Client -> Seq(1..clock)]
  /\ \A c \in Client : inbox[c] # None => Len(inbox[c]) <= INBOX_BOUND
  /\ call \in [Caller -> [to : Agent, gen : 1..MaxGen, cut : BOOLEAN] \cup {None}]
  /\ conn \in [Client -> {"off", "on", "closing"}]
  /\ watching \in [Client -> SUBSET Agent] /\ lost \in [Client -> SUBSET Agent]
  /\ subs \in [Client -> 0..MaxSubs] /\ snap \in [Client -> BOOLEAN]
  /\ view \in [Client -> [Agent -> 0..Cardinality(Caller) \cup {None}]]
  /\ stale \in [Client -> SUBSET Agent]

NoView == [a \in Agent |-> None]

Init ==
  /\ live = {} /\ gen = [a \in Agent |-> 0]
  /\ inFlight = [a \in Agent |-> [g \in 1..MaxGen |-> 0]]
  /\ watchers = [a \in Agent |-> {}]
  /\ inbox = [c \in Client |-> None] /\ due = [c \in Client |-> <<>>] /\ clock = 0
  /\ conn = [c \in Client |-> "off"]
  /\ watching = [c \in Client |-> {}] /\ lost = [c \in Client |-> {}]
  /\ call = [c \in Caller |-> None]
  /\ subs = [c \in Client |-> 0] /\ snap = [c \in Client |-> FALSE]
  /\ view = [c \in Client |-> NoView] /\ stale = [c \in Client |-> {}]

-----------------------------------------------------------------------------
\* Mutant: a full inbox drops the event that arrives.
PutDropNewest(q, e) == IF Len(q) < INBOX_BOUND THEN Append(q, e) ELSE q

\* _put_drop_oldest
Put(q, e) == IF Len(q) < INBOX_BOUND THEN Append(q, e) ELSE Append(Tail(q), e)

\* The watchers' part of _fanout: the event goes to those that have an inbox.
Fanout(a) ==
  /\ clock < MaxEvents
  /\ clock' = clock + 1
  /\ LET to == {c \in watchers[a] : inbox[c] # None}
     IN /\ inbox' = [c \in Client |-> IF c \in to THEN Put(inbox[c], clock') ELSE inbox[c]]
        /\ due' = [c \in Client |-> IF c \in to THEN Append(due[c], clock') ELSE due[c]]

\* publish_state: the subscribers learn the count n of incarnation g of a.
Publish(a, g, n) ==
  /\ view' = [c \in Client |-> IF subs[c] > 0 THEN [view[c] EXCEPT ![a] = n] ELSE view[c]]
  /\ stale' = [c \in Client |->
                 IF (subs[c] > 0 /\ g # gen'[a]) \/ (subs[c] = 0 /\ snap[c]) THEN stale[c] \cup {a}
                 ELSE IF subs[c] > 0 THEN stale[c] \ {a} ELSE stale[c]]

Create(a) ==
  /\ a \notin live /\ gen[a] < MaxGen
  /\ live' = live \cup {a}
  /\ gen' = [gen EXCEPT ![a] = @ + 1]
  /\ watchers' = [watchers EXCEPT ![a] = {}]
  /\ Publish(a, gen'[a], 0)
  /\ lost' = [c \in Client |-> IF a \in watching[c] THEN lost[c] \cup {a} ELSE lost[c]]
  /\ UNCHANGED <<inFlight, queueVars, conn, watching, call, subs, snap>>

Delete(a) ==
  /\ a \in live
  /\ live' = live \ {a}
  /\ watchers' = [watchers EXCEPT ![a] = {}]
  /\ UNCHANGED gen /\ Publish(a, gen[a], None)
  /\ UNCHANGED <<inFlight, queueVars, connVars, call, subs, snap>>

Emit(a) ==
  /\ a \in live
  /\ Fanout(a)
  /\ UNCHANGED gen /\ Publish(a, gen[a], inFlight[a][gen[a]])
  /\ UNCHANGED <<live, inFlight, watchers, connVars, call, subs, snap>>

-----------------------------------------------------------------------------
\* The connection.

\* kernel.watch on an id that is not registered does nothing.
KernelWatch(c, a) ==
  watchers' = [b \in Agent |-> IF b = a /\ a \in live THEN watchers[b] \cup {c} ELSE watchers[b]]

\* The connection opens and watches the agent it addressed.
Connect(c, a) ==
  /\ conn[c] = "off"
  /\ conn' = [conn EXCEPT ![c] = "on"]
  /\ inbox' = [inbox EXCEPT ![c] = <<>>]
  /\ KernelWatch(c, a)
  /\ watching' = [watching EXCEPT ![c] = {a}]
  /\ UNCHANGED <<agentVars, due, clock, lost, call, subs, snap, viewVars>>

\* The receive loop is free to take the next frame.
Receives(c) == conn[c] = "on" /\ ~snap[c]

\* A frame for an id that is already in `watching` is ignored.
Watch(c, a) ==
  /\ Receives(c) /\ a \notin watching[c]
  /\ KernelWatch(c, a)
  /\ watching' = [watching EXCEPT ![c] = @ \cup {a}]
  /\ UNCHANGED <<agentVars, queueVars, conn, lost, call, subs, snap, viewVars>>

Forget(c, a) ==
  /\ watching' = [watching EXCEPT ![c] = @ \ {a}]
  /\ lost' = [lost EXCEPT ![c] = @ \ {a}]

Unwatch(c, a) ==
  /\ Receives(c) /\ a \in watching[c]
  /\ watchers' = [watchers EXCEPT ![a] = @ \ {c}]
  /\ Forget(c, a)
  /\ UNCHANGED <<agentVars, queueVars, conn, call, subs, snap, viewVars>>

\* state_snapshot
Snapshot == [a \in Agent |-> IF a \in live THEN inFlight[a][gen[a]] ELSE None]

\* The snapshot is taken and its sending awaited; then the callback is added.
StateSubscribe(c) ==
  /\ Receives(c) /\ subs[c] < MaxSubs
  /\ snap' = [snap EXCEPT ![c] = TRUE]
  /\ view' = [view EXCEPT ![c] = Snapshot] /\ stale' = [stale EXCEPT ![c] = {}]
  /\ UNCHANGED <<agentVars, queueVars, watchers, connVars, call, subs>>

Subscribed(c) ==
  /\ snap[c]
  /\ snap' = [snap EXCEPT ![c] = FALSE]
  /\ subs' = [subs EXCEPT ![c] = @ + 1]
  /\ UNCHANGED <<agentVars, queueVars, watchers, connVars, call, viewVars>>

StateUnsubscribe(c) ==
  /\ Receives(c) /\ subs[c] > 0
  /\ subs' = [subs EXCEPT ![c] = 0]
  /\ view' = [view EXCEPT ![c] = NoView] /\ stale' = [stale EXCEPT ![c] = {}]
  /\ UNCHANGED <<agentVars, queueVars, watchers, connVars, call, snap>>

\* send: the target is dispatched to; a call frame runs as a task of its own.
Call(c, a) ==
  /\ c \in Client => Receives(c)
  /\ call[c] = None
  /\ a \in live
  /\ call' = [call EXCEPT ![c] = [to |-> a, gen |-> gen[a], cut |-> FALSE]]
  /\ inFlight' = [inFlight EXCEPT ![a][gen[a]] = @ + 1]
  /\ Fanout(a)
  /\ UNCHANGED gen /\ Publish(a, gen[a], inFlight'[a][gen[a]])
  /\ UNCHANGED <<live, watchers, connVars, subs, snap>>

\* Mutant: a cancelled handler is not counted down.
CountedReturn(k) == IF k.cut THEN inFlight[k.to][k.gen] ELSE inFlight[k.to][k.gen] - 1

\* The `finally` of _dispatch.
Counted(k) == IF inFlight[k.to][k.gen] = 0 THEN 0 ELSE inFlight[k.to][k.gen] - 1

\* The handler returns, raises or is cancelled.
CallEnd(c) ==
  /\ call[c] # None
  /\ LET k == call[c]  n == Counted(k)
     IN /\ inFlight' = [inFlight EXCEPT ![k.to][k.gen] = n]
        /\ UNCHANGED gen
        /\ Publish(k.to, IF k.to \in live THEN k.gen ELSE 0, n)
  /\ call' = [call EXCEPT ![c] = None]
  /\ UNCHANGED <<live, queueVars, watchers, connVars, subs, snap>>

\* The drain task sends the oldest event.
Drain(c) ==
  /\ conn[c] = "on" /\ inbox[c] # <<>>
  /\ inbox' = [inbox EXCEPT ![c] = Tail(@)]
  /\ UNCHANGED <<agentVars, due, clock, watchers, connVars, call, subs, snap, viewVars>>

\* Mutant: calls in flight are left running.
CutNothing(c) == UNCHANGED call

\* t.cancel() for the calls in flight
Cut(c) == call' = [call EXCEPT ![c] = IF @ = None THEN None ELSE [@ EXCEPT !.cut = TRUE]]

Disconnect(c) ==
  /\ Receives(c)
  /\ conn' = [conn EXCEPT ![c] = "closing"]
  /\ Cut(c)
  /\ UNCHANGED <<agentVars, queueVars, watchers, watching, lost, subs, snap, viewVars>>

UnwatchAll(c) ==
  watchers' = [a \in Agent |-> IF a \in watching[c] THEN watchers[a] \ {c} ELSE watchers[a]]

\* The cancelled calls are back.
CloseDone(c) ==
  /\ conn[c] = "closing" /\ call[c] = None
  /\ conn' = [conn EXCEPT ![c] = "off"]
  /\ UnwatchAll(c)
  /\ watching' = [watching EXCEPT ![c] = {}] /\ lost' = [lost EXCEPT ![c] = {}]
  /\ subs' = [subs EXCEPT ![c] = 0]
  /\ inbox' = [inbox EXCEPT ![c] = None] /\ due' = [due EXCEPT ![c] = <<>>]
  /\ view' = [view EXCEPT ![c] = NoView] /\ stale' = [stale EXCEPT ![c] = {}]
  /\ UNCHANGED <<agentVars, clock, call, snap>>

-----------------------------------------------------------------------------
CutEnd(c) == call[c] # None /\ call[c].cut /\ CallEnd(c)

Next ==
  \/ \E a \in Agent : Create(a) \/ Delete(a) \/ Emit(a)
  \/ \E c \in Client, a \in Agent : Connect(c, a) \/ Watch(c, a) \/ Unwatch(c, a)
  \/ \E c \in Caller : CallEnd(c) \/ \E a \in Agent : Call(c, a)
  \/ \E c \in Client : \/ StateSubscribe(c) \/ Subscribed(c) \/ StateUnsubscribe(c)
                       \/ Drain(c) \/ Disconnect(c) \/ CloseDone(c)

\* The sending of a frame returns, a cancelled call ends, and what can go on
\* does; a call that is not cancelled may run for ever.
Fairness ==
  \A c \in Client : WF_vars(Subscribed(c)) /\ WF_vars(CutEnd(c)) /\ WF_vars(CloseDone(c))

Spec == Init /\ [][Next]_vars /\ Fairness

-----------------------------------------------------------------------------
\* A slow browser loses the oldest events and only those: what its inbox holds
\* is the end of what it was sent, in order (_put_drop_oldest, and the comment
\* on INBOX_BOUND).
FreshestKept ==
  \A c \in Client : inbox[c] # None =>
    \E k \in 1..Len(due[c]) + 1 : inbox[c] = SubSeq(due[c], k, Len(due[c]))

\* A connection that is gone leaves nothing behind, and an agent's watchers are
\* connections that know they watch it, whatever was deleted and created again
\* meanwhile (the `finally` of run).
NoResidue ==
  \A c \in Client :
    /\ conn[c] = "off" => inbox[c] = None /\ subs[c] = 0 /\ call[c] = None
    /\ \A a \in Agent : c \in watchers[a] => conn[c] # "off" /\ a \in watching[c]

\* A watched agent that lives has the connection among its watchers, unless it
\* was created after the watch (kernel.watch, _on_watch).
WatchHolds ==
  \A c \in Client : \A a \in watching[c] \cap live : c \in watchers[a] \/ a \in lost[c]

\* The in-flight count of each incarnation is the number of calls that run in
\* it: no order of deletion, cancellation and return makes it drift (_dispatch).
BacklogExact ==
  \A a \in Agent, g \in 1..MaxGen :
    inFlight[a][g] = Cardinality({c \in Caller : call[c] # None /\ call[c].to = a /\ call[c].gen = g})

\* A subscriber's picture of the kernel is right about every agent, except one
\* that changed between its snapshot and its registration, or whose last event
\* came from a call that outlived the agent it ran in (publish_state,
\* _on_state_subscribe).
ViewAgrees ==
  \A c \in Client : subs[c] > 0 => \A a \in Agent \ stale[c] : view[c][a] = Snapshot[a]

\* What a client sees is right: its inbox holds the newest events, in order, and its
\* picture of the kernel agrees with the kernel (_put_drop_oldest, publish_state,
\* _on_state_subscribe).
ClientSees == FreshestKept /\ ViewAgrees

\* The kernel's books are exact: watchers, watched agents and connections name each
\* other, nothing is left of a connection that is gone, and each incarnation counts the
\* calls that run in it (run, _on_watch, _dispatch).
BooksExact == TypeOK /\ NoResidue /\ WatchHolds /\ BacklogExact

\* A closed connection is always cleaned up, however long its call would have
\* run (the cancellation in the `finally` of run).
ClosingEnds == \A c \in Client : conn[c] = "closing" ~> conn[c] = "off"
=============================================================================
