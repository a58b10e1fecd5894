--------------------------- MODULE MessagingProofs ---------------------------
(***************************************************************************)
(* The books of a kernel are exact and its browsers see what is there, for *)
(* any number of agents, connections and callers: the inductive invariant  *)
(* behind BooksExact and ClientSees, and its proof.                        *)
(***************************************************************************)
EXTENDS Messaging, TLAPS

\* The calls that run in incarnation g of a.
Running(a, g) == {c \in Caller : call[c] # None /\ call[c].to = a /\ call[c].gen = g}

\* A live agent is an incarnation, and no call runs in one that is still to come.
Incarnations ==
  /\ \A a \in live : gen[a] >= 1
  /\ \A c \in Caller : call[c] # None => call[c].gen <= gen[call[c].to]

\* An open connection has its inbox; one that is gone was sent nothing since.
Opened ==
  \A c \in Client : IF conn[c] = "off" THEN due[c] = <<>> ELSE inbox[c] # None

\* A snapshot is being sent on an open connection that may still subscribe.
Snapping == \A c \in Client : snap[c] => conn[c] = "on" /\ subs[c] < MaxSubs

\* A picture is right from its snapshot on, except about what is noted as stale.
Pictured ==
  \A c \in Client : subs[c] > 0 \/ snap[c] => \A a \in Agent \ stale[c] : view[c][a] = Snapshot[a]

\* TypeOK, by part of the state.
CallType ==
  /\ live \subseteq Agent /\ gen \in [Agent -> 0..MaxGen]
  /\ inFlight \in [Agent -> [1..MaxGen -> 0..Cardinality(Caller)]]
  /\ call \in [Caller -> [to : Agent, gen : 1..MaxGen, cut : BOOLEAN] \cup {None}]

QueueType ==
  /\ clock \in 0..MaxEvents
  /\ inbox \in [Client -> Seq(1..clock) \cup {None}] /\ due \in [Client -> Seq(1..clock)]
  /\ \A c \in Client : inbox[c] # None => Len(inbox[c]) <= INBOX_BOUND

ConnType ==
  /\ watchers \in [Agent -> SUBSET Client]
  /\ conn \in [Client -> {"off", "on", "closing"}]
  /\ watching \in [Client -> SUBSET Agent] /\ lost \in [Client -> SUBSET Agent]

ViewType ==
  /\ subs \in [Client -> 0..MaxSubs] /\ snap \in [Client -> BOOLEAN]
  /\ view \in [Client -> [Agent -> 0..Cardinality(Caller) \cup {None}]]
  /\ stale \in [Client -> SUBSET Agent]

\* The inductive invariant, by part of the state.
CallsOk == CallType /\ BacklogExact /\ Incarnations
QueueOk == QueueType /\ FreshestKept
ConnOk == ConnType /\ NoResidue /\ WatchHolds /\ Opened /\ Snapping
ViewOk == ViewType /\ Pictured

IInv == CallsOk /\ QueueOk /\ ConnOk /\ ViewOk

-----------------------------------------------------------------------------
\* The invariant says what BooksExact and ClientSees say.
LEMMA IInvImplies == IInv => BooksExact /\ ClientSees
<1> SUFFICES ASSUME IInv PROVE BooksExact /\ ClientSees
  BY Zenon
<1>1. TypeOK
  BY ZenonT(30) DEF IInv, CallsOk, QueueOk, ConnOk, ViewOk, CallType, QueueType, ConnType, ViewType, TypeOK
<1>2. ViewAgrees
  BY Zenon DEF IInv, ViewOk, Pictured, ViewAgrees
<1> QED
  BY Zenon, <1>1, <1>2 DEF IInv, CallsOk, QueueOk, ConnOk, BooksExact, ClientSees

\* What the proofs use of the constants.
LEMMA Numbers ==
  /\ MaxGen \in Nat \ {0} /\ MaxSubs \in Nat /\ MaxEvents \in Nat /\ INBOX_BOUND \in Nat \ {0}
  /\ Client \subseteq Caller
BY Zenon, MessagingAssumption DEF Caller

\* None is no call and no inbox.
LEMMA NoneIsNoCall == None \notin [to : Agent, gen : 1..MaxGen, cut : BOOLEAN]
BY Zenon, MessagingAssumption

\* None is no inbox.
LEMMA NoneIsNoInbox == None \notin Seq(Nat)
BY Zenon, MessagingAssumption

\* BacklogExact, by the calls that run.
LEMMA RunningCounted ==
  BacklogExact => \A a \in Agent, g \in 1..MaxGen : inFlight[a][g] = Cardinality(Running(a, g))
BY Zenon DEF BacklogExact, Running

\* A part of the state that a step leaves alone stays in order.
LEMMA CallsKept == ASSUME CallsOk, UNCHANGED <<live, gen, inFlight, call>> PROVE CallsOk'
BY Zenon DEF CallsOk, CallType, BacklogExact, Incarnations

\* What a step that leaves their variables alone keeps.
LEMMA QueueKept == ASSUME QueueOk, UNCHANGED <<inbox, due, clock>> PROVE QueueOk'
BY Zenon DEF QueueOk, QueueType, FreshestKept

\* The same, for the picture of a subscriber.
LEMMA ViewKept ==
  ASSUME ViewOk, UNCHANGED <<view, stale, subs, snap>>, Snapshot' = Snapshot PROVE ViewOk'
BY Zenon DEF ViewOk, ViewType, Pictured

\* The same, for the connections.
LEMMA ConnKept ==
  ASSUME ConnOk, UNCHANGED <<live, watchers, conn, watching, lost, subs, snap>>,
         \A c \in Client : /\ inbox'[c] = None <=> inbox[c] = None
                           /\ inbox[c] = None => due'[c] = due[c]
                           /\ call'[c] # None /\ call[c] = None => conn[c] # "off"
  PROVE  ConnOk'
<1>1. ConnType' /\ WatchHolds' /\ Snapping'
  BY Zenon DEF ConnOk, ConnType, WatchHolds, Snapping
<1>2. NoResidue'
  BY Zenon DEF ConnOk, NoResidue
<1>3. Opened'
  BY Zenon DEF ConnOk, Opened, NoResidue
<1> QED
  BY Zenon, <1>1, <1>2, <1>3 DEF ConnOk

-----------------------------------------------------------------------------
\* An event of an agent makes the picture of it right, or notes it as stale
\* (publish_state).
LEMMA PublishStep ==
  ASSUME ViewOk, NEW a \in Agent, NEW g, NEW n \in 0..Cardinality(Caller) \cup {None},
         Publish(a, g, n), UNCHANGED <<subs, snap>>,
         \A b \in Agent \ {a} : Snapshot'[b] = Snapshot[b],
         g = gen'[a] => Snapshot'[a] = n
  PROVE  ViewOk'
<1>1. /\ view' = [c \in Client |-> IF subs[c] > 0 THEN [view[c] EXCEPT ![a] = n] ELSE view[c]]
      /\ stale' = [c \in Client |->
           IF (subs[c] > 0 /\ g # gen'[a]) \/ (subs[c] = 0 /\ snap[c]) THEN stale[c] \cup {a}
           ELSE IF subs[c] > 0 THEN stale[c] \ {a} ELSE stale[c]]
  BY Zenon DEF Publish
<1>2. ViewType'
  <2>1. \A c \in Client : view'[c] \in [Agent -> 0..Cardinality(Caller) \cup {None}]
    BY Zenon, <1>1 DEF ViewOk, ViewType
  <2>2. \A c \in Client : stale'[c] \subseteq Agent
    BY Zenon, <1>1 DEF ViewOk, ViewType
  <2> QED BY Zenon, <1>1, <2>1, <2>2 DEF ViewOk, ViewType
<1>3. ASSUME NEW c \in Client, subs'[c] > 0 \/ snap'[c], NEW b \in Agent \ stale'[c]
      PROVE  view'[c][b] = Snapshot'[b]
  <2>1. subs[c] \in Nat /\ subs[c] = subs'[c] /\ snap[c] = snap'[c]
    BY DEF ViewOk, ViewType
  <2>2. CASE subs[c] > 0 /\ b = a
    <3>1. g = gen'[a]
      BY Zenon, <1>1, <1>3, <2>2
    <3>2. view'[c][a] = n
      BY Zenon, <1>1, <2>2 DEF ViewOk, ViewType
    <3> QED BY Zenon, <2>2, <3>1, <3>2
  <2>3. CASE b # a
    <3>1. b \notin stale[c] /\ view'[c][b] = view[c][b]
      BY Zenon, <1>1, <1>3, <2>1, <2>3 DEF ViewOk, ViewType
    <3> QED BY Zenon, <1>3, <2>1, <2>3, <3>1 DEF ViewOk, Pictured
  <2>4. CASE ~(subs[c] > 0) /\ b = a
    <3>1. subs[c] = 0 /\ snap[c]
      BY <1>3, <2>1, <2>4
    <3>2. a \in stale'[c]
      BY Zenon, <1>1, <3>1
    <3> QED BY Zenon, <1>3, <2>4, <3>2
  <2> QED BY Zenon, <2>2, <2>3, <2>4
<1>4. Pictured'
  BY Zenon, <1>3 DEF Pictured
<1> QED
  BY Zenon, <1>2, <1>4 DEF ViewOk

\* A call count is what a browser can be told.
LEMMA CountType ==
  ASSUME CallsOk, NEW a \in live
  PROVE  a \in Agent /\ gen[a] \in 1..MaxGen /\ inFlight[a][gen[a]] \in 0..Cardinality(Caller) \cup {None}
BY MessagingAssumption DEF CallsOk, CallType, Incarnations

\* A deleted agent takes its watchers along; its calls go on (_cascade_delete).
LEMMA DeleteStep ==
  ASSUME IInv, NEW a \in Agent, Delete(a)
  PROVE  IInv'
<1> USE Numbers
<1>1. /\ a \in live /\ live' = live \ {a} /\ watchers' = [watchers EXCEPT ![a] = {}]
      /\ UNCHANGED <<gen, inFlight, inbox, due, clock, conn, watching, lost, call, subs, snap>>
  BY Zenon DEF Delete, queueVars, connVars
<1>2. CallsOk'
  <2>1. CallType'
    BY Zenon, <1>1 DEF IInv, CallsOk, CallType
  <2>2. BacklogExact'
    BY <1>1 DEF IInv, CallsOk, BacklogExact
  <2>3. Incarnations'
    BY Zenon, <1>1 DEF IInv, CallsOk, Incarnations
  <2> QED BY Zenon, <2>1, <2>2, <2>3 DEF CallsOk
<1>3. QueueOk'
  BY Zenon, <1>1, QueueKept DEF IInv
<1>4. ConnOk'
  <2>1. ConnType' /\ Snapping' /\ Opened'
    BY Zenon, <1>1 DEF IInv, ConnOk, ConnType, Snapping, Opened
  <2>2. NoResidue'
    BY Zenon, <1>1 DEF IInv, ConnOk, ConnType, NoResidue
  <2>3. WatchHolds'
    BY Zenon, <1>1 DEF IInv, ConnOk, ConnType, WatchHolds
  <2> QED BY Zenon, <2>1, <2>2, <2>3 DEF ConnOk
<1>5. ViewOk'
  <2>1. Snapshot'[a] = None /\ \A b \in Agent \ {a} : Snapshot'[b] = Snapshot[b]
    BY Zenon, <1>1 DEF Snapshot
  <2>2. Publish(a, gen[a], None)
    BY Zenon DEF Delete
  <2> QED BY ZenonT(30), <1>1, <2>1, <2>2, PublishStep DEF IInv
<1> QED
  BY Zenon, <1>2, <1>3, <1>4, <1>5 DEF IInv

-----------------------------------------------------------------------------
\* A connection starts with an empty inbox and one watched agent (run).
LEMMA ConnectStep ==
  ASSUME IInv, NEW c \in Client, NEW a \in Agent, Connect(c, a)
  PROVE  IInv'
<1> USE Numbers
<1>1. /\ conn[c] = "off" /\ conn' = [conn EXCEPT ![c] = "on"] /\ inbox' = [inbox EXCEPT ![c] = <<>>]
      /\ watchers' = [b \in Agent |-> IF b = a /\ a \in live THEN watchers[b] \cup {c} ELSE watchers[b]]
      /\ watching' = [watching EXCEPT ![c] = {a}]
      /\ UNCHANGED <<live, gen, inFlight, due, clock, lost, call, subs, snap, view, stale>>
  BY Zenon DEF Connect, KernelWatch, agentVars, viewVars
<1>2. CallsOk' /\ ViewOk'
  BY Zenon, <1>1, CallsKept, ViewKept DEF IInv, Snapshot
<1>3. QueueOk'
  <2>1. <<>> \in Seq(1..clock) /\ Len(<<>>) = 0 /\ due[c] = <<>>
    BY <1>1 DEF IInv, ConnOk, Opened
  <2>2. QueueType'
    BY <1>1, <2>1 DEF IInv, QueueOk, QueueType
  <2>3. \A d \in Client \ {c} : inbox'[d] = inbox[d]
    BY Zenon, <1>1 DEF IInv, QueueOk, QueueType
  <2>4. inbox'[c] = <<>>
    BY Zenon, <1>1 DEF IInv, QueueOk, QueueType
  <2>5. <<>> = SubSeq(<<>>, 1, 0)
    OBVIOUS
  <2>6. FreshestKept'
    BY <1>1, <2>1, <2>3, <2>4, <2>5 DEF IInv, QueueOk, FreshestKept
  <2> QED BY Zenon, <2>2, <2>6 DEF QueueOk
<1>4. ConnOk'
  <2>1. ConnType'
    BY Zenon, <1>1 DEF IInv, ConnOk, ConnType
  <2>2. Snapping' /\ WatchHolds'
    BY <1>1 DEF IInv, ConnOk, ConnType, Snapping, WatchHolds
  <2>3. inbox'[c] # None /\ \A d \in Client \ {c} : inbox'[d] = inbox[d]
    <3>1. <<>> \in Seq(Nat)
      OBVIOUS
    <3>2. <<>> # None
      BY ZenonT(30), <3>1, NoneIsNoInbox
    <3> QED BY Zenon, <1>1, <3>2 DEF IInv, QueueOk, QueueType
  <2>4. Opened'
    BY Zenon, <1>1, <2>3 DEF IInv, ConnOk, ConnType, Opened
  <2>5. NoResidue'
    BY <1>1, <2>3 DEF IInv, ConnOk, ConnType, NoResidue
  <2> QED BY Zenon, <2>1, <2>2, <2>4, <2>5 DEF ConnOk
<1> QED
  BY Zenon, <1>2, <1>3, <1>4 DEF IInv

\* A connection watches one more agent, or one less (_on_watch, _on_unwatch).
LEMMA WatchStep ==
  ASSUME IInv, NEW c \in Client, NEW a \in Agent, Watch(c, a) \/ Unwatch(c, a)
  PROVE  IInv'
<1>1. /\ conn[c] = "on"
      /\ UNCHANGED <<live, gen, inFlight, inbox, due, clock, conn, call, subs, snap, view, stale>>
  BY Zenon DEF Watch, Unwatch, Receives, agentVars, queueVars, viewVars
<1>2. CallsOk' /\ QueueOk' /\ ViewOk'
  BY Zenon, <1>1, CallsKept, QueueKept, ViewKept DEF IInv, Snapshot
<1>3. Opened' /\ Snapping'
  BY Zenon, <1>1 DEF IInv, ConnOk, Opened, Snapping
<1>4. CASE Watch(c, a)
  <2>1. /\ watchers' = [b \in Agent |-> IF b = a /\ a \in live THEN watchers[b] \cup {c} ELSE watchers[b]]
        /\ watching' = [watching EXCEPT ![c] = @ \cup {a}] /\ lost' = lost
    BY Zenon, <1>4 DEF Watch, KernelWatch
  <2>2. ConnType'
    BY Zenon, <1>1, <2>1 DEF IInv, ConnOk, ConnType
  <2>3. NoResidue'
    BY Zenon, <1>1, <2>1 DEF IInv, ConnOk, ConnType, NoResidue
  <2>4. WatchHolds'
    BY <1>1, <2>1 DEF IInv, ConnOk, ConnType, WatchHolds
  <2> QED BY Zenon, <1>2, <1>3, <2>2, <2>3, <2>4 DEF IInv, ConnOk
<1>5. CASE Unwatch(c, a)
  <2>1. /\ watchers' = [watchers EXCEPT ![a] = @ \ {c}]
        /\ watching' = [watching EXCEPT ![c] = @ \ {a}] /\ lost' = [lost EXCEPT ![c] = @ \ {a}]
    BY Zenon, <1>5 DEF Unwatch, Forget
  <2>2. ConnType'
    BY Zenon, <1>1, <2>1 DEF IInv, ConnOk, ConnType
  <2>3. NoResidue'
    BY Zenon, <1>1, <2>1 DEF IInv, ConnOk, ConnType, NoResidue
  <2>4. WatchHolds'
    BY Zenon, <1>1, <2>1 DEF IInv, ConnOk, ConnType, WatchHolds
  <2> QED BY Zenon, <1>2, <1>3, <2>2, <2>3, <2>4 DEF IInv, ConnOk
<1> QED
  BY Zenon, <1>4, <1>5

\* A snapshot is taken, its subscription added, and all of them given up
\* (_on_state_subscribe, _on_state_unsubscribe).
LEMMA SubscribeStep ==
  ASSUME IInv, NEW c \in Client, StateSubscribe(c) \/ Subscribed(c) \/ StateUnsubscribe(c)
  PROVE  IInv'
<1> USE Numbers
<1>1. /\ UNCHANGED <<live, gen, inFlight, inbox, due, clock, watchers, conn, watching, lost, call>>
      /\ Snapshot' = Snapshot
  BY Zenon DEF StateSubscribe, Subscribed, StateUnsubscribe, agentVars, queueVars, connVars, Snapshot
<1>2. CallsOk' /\ QueueOk'
  BY Zenon, <1>1, CallsKept, QueueKept DEF IInv
<1>3. ConnType' /\ WatchHolds' /\ Opened'
  BY Zenon, <1>1 DEF IInv, ConnOk, ConnType, WatchHolds, Opened
<1>4. conn[c] = "on"
  BY Zenon DEF IInv, ConnOk, Snapping, StateSubscribe, Subscribed, StateUnsubscribe, Receives
<1>5. (\A d \in Client \ {c} : subs'[d] = subs[d]) => NoResidue'
  BY Zenon, <1>1, <1>4 DEF IInv, ConnOk, NoResidue
<1>6. Snapshot \in [Agent -> 0..Cardinality(Caller) \cup {None}]
  BY Zenon, CountType DEF IInv, Snapshot
<1>7. CASE StateSubscribe(c)
  <2>1. /\ subs[c] < MaxSubs /\ snap' = [snap EXCEPT ![c] = TRUE] /\ subs' = subs
        /\ view' = [view EXCEPT ![c] = Snapshot] /\ stale' = [stale EXCEPT ![c] = {}]
    BY Zenon, <1>7 DEF StateSubscribe
  <2>2. ViewType'
    <3>1. snap' \in [Client -> BOOLEAN]
      BY Zenon, <2>1 DEF IInv, ViewOk, ViewType
    <3>2. view' \in [Client -> [Agent -> 0..Cardinality(Caller) \cup {None}]]
      BY Zenon, <1>6, <2>1 DEF IInv, ViewOk, ViewType
    <3> QED BY Zenon, <2>1, <3>1, <3>2 DEF IInv, ViewOk, ViewType
  <2>3. Snapping'
    BY Zenon, <1>1, <1>4, <2>1 DEF IInv, ConnOk, Snapping, ViewOk, ViewType
  <2>4. Pictured'
    BY SMTT(20), <1>1, <2>1 DEF IInv, ViewOk, ViewType, Pictured
  <2> QED BY Zenon, <1>2, <1>3, <1>5, <2>1, <2>2, <2>3, <2>4 DEF IInv, ConnOk, ViewOk
<1>8. CASE Subscribed(c)
  <2>1. /\ snap[c] /\ snap' = [snap EXCEPT ![c] = FALSE] /\ subs' = [subs EXCEPT ![c] = @ + 1]
        /\ UNCHANGED <<view, stale>>
    BY Zenon, <1>8 DEF Subscribed, viewVars
  <2>2. subs[c] < MaxSubs /\ subs[c] \in Nat
    BY <2>1 DEF IInv, ConnOk, Snapping, ViewOk, ViewType
  <2>3. ViewType'
    <3>1. snap' \in [Client -> BOOLEAN]
      BY Zenon, <2>1 DEF IInv, ViewOk, ViewType
    <3>2. subs' \in [Client -> 0..MaxSubs]
      BY <2>1, <2>2 DEF IInv, ViewOk, ViewType
    <3> QED BY Zenon, <2>1, <3>1, <3>2 DEF IInv, ViewOk, ViewType
  <2>4. \A d \in Client \ {c} : subs'[d] = subs[d] /\ snap'[d] = snap[d]
    BY Zenon, <2>1 DEF IInv, ViewOk, ViewType
  <2>5. Snapping'
    BY Zenon, <1>1, <2>1, <2>4 DEF IInv, ConnOk, Snapping, ViewOk, ViewType
  <2>6. Pictured'
    BY Zenon, <1>1, <2>1, <2>4 DEF IInv, ViewOk, Pictured
  <2> QED BY Zenon, <1>2, <1>3, <1>5, <2>3, <2>4, <2>5, <2>6 DEF IInv, ConnOk, ViewOk
<1>9. CASE StateUnsubscribe(c)
  <2>1. /\ ~snap[c] /\ subs' = [subs EXCEPT ![c] = 0] /\ snap' = snap
        /\ view' = [view EXCEPT ![c] = NoView] /\ stale' = [stale EXCEPT ![c] = {}]
    BY Zenon, <1>9 DEF StateUnsubscribe, Receives
  <2>2. ViewType'
    BY <2>1 DEF IInv, ViewOk, ViewType, NoView
  <2>3. \A d \in Client \ {c} : subs'[d] = subs[d] /\ view'[d] = view[d] /\ stale'[d] = stale[d]
    BY Zenon, <2>1 DEF IInv, ViewOk, ViewType
  <2>4. Snapping'
    BY Zenon, <1>1, <2>1, <2>3 DEF IInv, ConnOk, Snapping
  <2>5. ~(subs'[c] > 0)
    BY SMTT(20), <2>1 DEF IInv, ViewOk, ViewType
  <2>6. Pictured'
    BY <1>1, <2>1, <2>3, <2>5 DEF IInv, ViewOk, Pictured
  <2> QED BY Zenon, <1>2, <1>3, <1>5, <2>2, <2>3, <2>4, <2>6 DEF IInv, ConnOk, ViewOk
<1> QED
  BY Zenon, <1>7, <1>8, <1>9

\* A connection that is lost cancels its call; the count stands until it is back (run).
LEMMA DisconnectStep ==
  ASSUME IInv, NEW c \in Client, Disconnect(c)
  PROVE  IInv'
<1> USE Numbers
<1>1. /\ conn[c] = "on" /\ ~snap[c] /\ conn' = [conn EXCEPT ![c] = "closing"]
      /\ call' = [call EXCEPT ![c] = IF @ = None THEN None ELSE [@ EXCEPT !.cut = TRUE]]
      /\ UNCHANGED <<live, gen, inFlight, inbox, due, clock, watchers, watching, lost, subs, snap, view, stale>>
  BY Zenon DEF Disconnect, Cut, Receives, agentVars, queueVars, viewVars
<1>2. QueueOk' /\ ViewOk'
  BY Zenon, <1>1, QueueKept, ViewKept DEF IInv, Snapshot
<1>3. /\ call' \in [Caller -> [to : Agent, gen : 1..MaxGen, cut : BOOLEAN] \cup {None}]
      /\ \A d \in Caller : /\ call'[d] = None <=> call[d] = None
                           /\ call[d] # None => call'[d].to = call[d].to /\ call'[d].gen = call[d].gen
  <2>1. CASE call[c] = None
    BY Zenon, <1>1, <2>1 DEF IInv, CallsOk, CallType
  <2>2. CASE call[c] # None
    <3>1. call[c] \in [to : Agent, gen : 1..MaxGen, cut : BOOLEAN] /\ TRUE \in BOOLEAN
      BY Zenon, <2>2 DEF IInv, CallsOk, CallType
    <3>2. PICK k : k = [call[c] EXCEPT !.cut = TRUE]
      BY ZenonT(30)
    <3>3. k \in [to : Agent, gen : 1..MaxGen, cut : BOOLEAN] /\ k.to = call[c].to /\ k.gen = call[c].gen
      BY ZenonT(30), <3>1, <3>2
    <3>4. call' = [call EXCEPT ![c] = k] /\ k # None
      BY ZenonT(30), <1>1, <2>2, <3>2, <3>3, NoneIsNoCall
    <3> QED BY Zenon, <2>2, <3>3, <3>4 DEF IInv, CallsOk, CallType
  <2> QED BY Zenon, <2>1, <2>2
<1>4. CallsOk'
  <2>1. \A a \in Agent, g \in 1..MaxGen : Running(a, g)' = Running(a, g)
    BY Zenon, <1>3 DEF Running
  <2>2. \A a \in Agent, g \in 1..MaxGen : inFlight'[a][g] = Cardinality(Running(a, g)')
    BY Zenon, <1>1, <2>1, RunningCounted DEF IInv, CallsOk
  <2>5. BacklogExact'
    BY Zenon, <2>2 DEF BacklogExact, Running
  <2>3. CallType'
    BY Zenon, <1>1, <1>3 DEF IInv, CallsOk, CallType
  <2>4. Incarnations'
    BY Zenon, <1>1, <1>3 DEF IInv, CallsOk, Incarnations
  <2> QED BY Zenon, <2>3, <2>4, <2>5 DEF CallsOk
<1>5. ConnOk'
  <2>1. ConnType' /\ WatchHolds'
    BY Zenon, <1>1 DEF IInv, ConnOk, ConnType, WatchHolds
  <2>2. \A d \in Client : conn'[d] = IF d = c THEN "closing" ELSE conn[d]
    BY Zenon, <1>1 DEF IInv, ConnOk, ConnType
  <2>3. NoResidue'
    BY <1>1, <1>3, <2>2 DEF IInv, ConnOk, NoResidue
  <2>4. Opened' /\ Snapping'
    BY <1>1, <2>2 DEF IInv, ConnOk, Opened, Snapping
  <2> QED BY Zenon, <2>1, <2>3, <2>4 DEF ConnOk
<1> QED
  BY Zenon, <1>2, <1>4, <1>5 DEF IInv

\* The end of a connection takes everything of it out of the kernel (the `finally` of run).
LEMMA CloseDoneStep ==
  ASSUME IInv, NEW c \in Client, CloseDone(c)
  PROVE  IInv'
<1> USE Numbers
<1>1. /\ conn[c] = "closing" /\ call[c] = None /\ conn' = [conn EXCEPT ![c] = "off"]
      /\ watchers' = [a \in Agent |-> IF a \in watching[c] THEN watchers[a] \ {c} ELSE watchers[a]]
      /\ watching' = [watching EXCEPT ![c] = {}] /\ lost' = [lost EXCEPT ![c] = {}]
      /\ subs' = [subs EXCEPT ![c] = 0]
      /\ inbox' = [inbox EXCEPT ![c] = None] /\ due' = [due EXCEPT ![c] = <<>>]
      /\ view' = [view EXCEPT ![c] = NoView] /\ stale' = [stale EXCEPT ![c] = {}]
      /\ UNCHANGED <<live, gen, inFlight, clock, call, snap>>
  BY Zenon DEF CloseDone, UnwatchAll, agentVars
<1>2. CallsOk'
  BY Zenon, <1>1, CallsKept DEF IInv
<1>3. \A d \in Client \ {c} : /\ conn'[d] = conn[d] /\ watching'[d] = watching[d] /\ lost'[d] = lost[d]
                              /\ subs'[d] = subs[d] /\ inbox'[d] = inbox[d] /\ due'[d] = due[d]
                              /\ view'[d] = view[d] /\ stale'[d] = stale[d]
  BY Zenon, <1>1 DEF IInv, ConnOk, ConnType, QueueOk, QueueType, ViewOk, ViewType
<1>4. /\ conn'[c] = "off" /\ watching'[c] = {} /\ subs'[c] = 0 /\ inbox'[c] = None /\ due'[c] = <<>>
  BY Zenon, <1>1 DEF IInv, ConnOk, ConnType, QueueOk, QueueType, ViewOk, ViewType
<1>5. QueueOk'
  <2>1. <<>> \in Seq(1..clock)
    BY SMTT(20)
  <2>2. QueueType'
    BY Zenon, <1>1, <1>3, <1>4, <2>1 DEF IInv, QueueOk, QueueType
  <2>3. FreshestKept'
    <3> SUFFICES ASSUME NEW d \in Client, inbox'[d] # None
                 PROVE  \E k \in 1..Len(due'[d]) + 1 : inbox'[d] = SubSeq(due'[d], k, Len(due'[d]))
      BY Zenon DEF FreshestKept
    <3>1. d # c /\ inbox'[d] = inbox[d] /\ due'[d] = due[d]
      BY Zenon, <1>3, <1>4
    <3> QED BY Zenon, <3>1 DEF IInv, QueueOk, FreshestKept
  <2> QED BY Zenon, <2>2, <2>3 DEF QueueOk
<1>6. ~snap[c]
  BY Zenon, <1>1 DEF IInv, ConnOk, Snapping
<1>7. ConnOk'
  <2>1. ConnType'
    BY Zenon, <1>1 DEF IInv, ConnOk, ConnType
  <2>2. \A a \in Agent : c \notin watchers'[a] /\ watchers'[a] \subseteq watchers[a]
                         /\ watchers[a] \ {c} \subseteq watchers'[a]
    BY Zenon, <1>1 DEF IInv, ConnOk, NoResidue, ConnType
  <2>3. NoResidue'
    BY SMTT(20), <1>1, <1>3, <1>4, <2>2 DEF IInv, ConnOk, NoResidue
  <2>4. WatchHolds'
    BY SMTT(20), <1>1, <1>3, <1>4, <2>2 DEF IInv, ConnOk, ConnType, WatchHolds
  <2>5. Opened' /\ Snapping'
    BY <1>1, <1>3, <1>4, <1>6 DEF IInv, ConnOk, Opened, Snapping
  <2> QED BY Zenon, <2>1, <2>3, <2>4, <2>5 DEF ConnOk
<1>8. ViewOk'
  <2>1. ViewType'
    BY SMTT(20), <1>1 DEF IInv, ViewOk, ViewType, NoView
  <2>2. Snapshot' = Snapshot
    BY Zenon, <1>1 DEF Snapshot
  <2>3. Pictured'
    BY <1>1, <1>3, <1>4, <1>6, <2>2 DEF IInv, ViewOk, Pictured
  <2> QED BY Zenon, <2>1, <2>3 DEF ViewOk
<1> QED
  BY Zenon, <1>2, <1>5, <1>7, <1>8 DEF IInv

-----------------------------------------------------------------------------
\* The end of a sequence.
LEMMA SubSeqOf ==
  ASSUME NEW S, NEW s \in Seq(S), NEW k \in 1..Len(s) + 1
  PROVE  /\ Len(s) \in Nat /\ SubSeq(s, k, Len(s)) \in Seq(S)
         /\ Len(SubSeq(s, k, Len(s))) = Len(s) - k + 1
         /\ \A i \in 1..Len(s) - k + 1 : SubSeq(s, k, Len(s))[i] = s[k + i - 1]
OBVIOUS

\* A suffix of what was sent, with what is sent next, is a suffix again.
LEMMA SuffixAppend ==
  ASSUME NEW S, NEW d \in Seq(S), NEW e \in S, NEW k \in 1..Len(d) + 1
  PROVE  Append(SubSeq(d, k, Len(d)), e) = SubSeq(Append(d, e), k, Len(Append(d, e)))
<1> DEFINE n == Len(d)
           a == Append(SubSeq(d, k, n), e)
           b == SubSeq(Append(d, e), k, n + 1)
<1>1. n \in Nat /\ Len(Append(d, e)) = n + 1 /\ Append(d, e) \in Seq(S)
  OBVIOUS
<1>2. SubSeq(d, k, n) \in Seq(S) /\ Len(SubSeq(d, k, n)) = n - k + 1
      /\ \A i \in 1..n - k + 1 : SubSeq(d, k, n)[i] = d[k + i - 1]
  BY <1>1
<1>3. a \in Seq(S) /\ Len(a) = n - k + 2
      /\ \A i \in 1..n - k + 2 : a[i] = IF i = n - k + 2 THEN e ELSE d[k + i - 1]
  BY <1>1, <1>2
<1>4. b \in Seq(S) /\ Len(b) = n - k + 2
      /\ \A i \in 1..n - k + 2 : b[i] = Append(d, e)[k + i - 1]
  <2>1. k \in 1..Len(Append(d, e)) + 1 /\ n + 1 - k + 1 = n - k + 2
    BY <1>1
  <2>2. /\ b \in Seq(S) /\ Len(b) = n + 1 - k + 1
        /\ \A i \in 1..n + 1 - k + 1 : b[i] = Append(d, e)[k + i - 1]
    BY <1>1, <2>1, SubSeqOf
  <2> QED BY ZenonT(30), <2>1, <2>2
<1>5. \A i \in 1..n - k + 2 : a[i] = b[i]
  BY <1>1, <1>3, <1>4
<1>6. a = b
  BY <1>1, <1>3, <1>4, <1>5
<1> QED
  BY Zenon, <1>1, <1>6

\* A suffix without its first element is a suffix.
LEMMA SuffixTail ==
  ASSUME NEW S, NEW d \in Seq(S), NEW k \in 1..Len(d) + 1, SubSeq(d, k, Len(d)) # <<>>
  PROVE  k + 1 \in 1..Len(d) + 1 /\ Tail(SubSeq(d, k, Len(d))) = SubSeq(d, k + 1, Len(d))
<1> DEFINE n == Len(d)
           s == SubSeq(d, k, n)
           b == SubSeq(d, k + 1, n)
<1>1. n \in Nat
  OBVIOUS
<1>2. s \in Seq(S) /\ Len(s) = n - k + 1 /\ \A i \in 1..n - k + 1 : s[i] = d[k + i - 1]
  BY <1>1
<1>3. k <= n
  BY <1>1, <1>2
<1>4. Tail(s) \in Seq(S) /\ Len(Tail(s)) = n - k /\ \A i \in 1..n - k : Tail(s)[i] = d[k + i]
  BY <1>1, <1>2, <1>3
<1>5. b \in Seq(S) /\ Len(b) = n - k /\ \A i \in 1..n - k : b[i] = d[k + i]
  BY <1>1, <1>3
<1>6. Tail(s) = b
  BY <1>1, <1>4, <1>5
<1> QED
  BY <1>1, <1>3, <1>6

SuffixOf(q, d) == \E k \in 1..Len(d) + 1 : q = SubSeq(d, k, Len(d))

\* An inbox stays the end of what its connection was sent, and within its bound
\* (_put_drop_oldest).
LEMMA PutKeeps ==
  ASSUME NEW S, NEW d \in Seq(S), NEW e \in S, NEW q, SuffixOf(q, d), Len(q) <= INBOX_BOUND
  PROVE  /\ Put(q, e) \in Seq(S) /\ Len(Put(q, e)) <= INBOX_BOUND
         /\ SuffixOf(Put(q, e), Append(d, e))
<1>0. INBOX_BOUND \in Nat /\ INBOX_BOUND # 0
  BY Zenon, MessagingAssumption
<1> USE DEF SuffixOf
<1> PICK k \in 1..Len(d) + 1 : q = SubSeq(d, k, Len(d))
  BY Zenon
<1>1. q \in Seq(S) /\ Len(Append(d, e)) = Len(d) + 1 /\ Len(d) \in Nat /\ Append(d, e) \in Seq(S)
  OBVIOUS
<1>2. CASE Len(q) < INBOX_BOUND
  <2>1. Put(q, e) = Append(q, e) /\ Append(q, e) = SubSeq(Append(d, e), k, Len(Append(d, e)))
    BY Zenon, <1>2, SuffixAppend DEF Put
  <2>2. Append(q, e) \in Seq(S) /\ Len(Append(q, e)) = Len(q) + 1 /\ Len(q) \in Nat
    BY <1>1
  <2>3. k \in 1..Len(Append(d, e)) + 1
    BY <1>1
  <2>4. Len(Append(q, e)) <= INBOX_BOUND
    BY <1>0, <1>2, <2>2
  <2> QED BY ZenonT(30), <2>1, <2>2, <2>3, <2>4
<1>3. CASE ~(Len(q) < INBOX_BOUND)
  <2>1. q # <<>>
    <3>1. Len(q) # 0
      BY <1>0, <1>1, <1>3
    <3> QED BY ZenonT(30), <3>1
  <2>2. k + 1 \in 1..Len(d) + 1 /\ Tail(q) = SubSeq(d, k + 1, Len(d))
    BY Zenon, <2>1, SuffixTail
  <2>3. Put(q, e) = Append(Tail(q), e)
    BY Zenon, <1>3 DEF Put
  <2>4. Append(Tail(q), e) = SubSeq(Append(d, e), k + 1, Len(Append(d, e)))
    BY ZenonT(30), <2>2, SuffixAppend
  <2>5. Tail(q) \in Seq(S) /\ Len(Tail(q)) = Len(q) - 1
    BY <1>1, <2>1
  <2>6. Append(Tail(q), e) \in Seq(S) /\ Len(Append(Tail(q), e)) = Len(q)
    BY <1>1, <2>5
  <2>7. k + 1 \in 1..Len(Append(d, e)) + 1
    BY <1>1, <2>2
  <2> QED BY ZenonT(30), <2>3, <2>4, <2>6, <2>7
<1> QED
  BY ZenonT(30), <1>2, <1>3

\* A sequence of events is one of later events too.
LEMMA SeqGrows ==
  ASSUME NEW S, NEW U, S \subseteq U, NEW s \in Seq(S)
  PROVE  s \in Seq(U)
OBVIOUS

\* What is left of a sequence without its first element.
LEMMA TailOf ==
  ASSUME NEW S, NEW s \in Seq(S), s # <<>>
  PROVE  Tail(s) \in Seq(S) /\ Len(s) \in Nat /\ Len(Tail(s)) = Len(s) - 1
OBVIOUS

\* An event reaches the watchers' inboxes in order (_fanout).
LEMMA FanoutStep ==
  ASSUME QueueOk, ConnType, NEW a \in Agent, Fanout(a)
  PROVE  /\ QueueOk'
         /\ \A c \in Client : /\ inbox'[c] = None <=> inbox[c] = None
                              /\ inbox[c] = None => due'[c] = due[c]
<1> USE Numbers
<1> DEFINE to == {c \in watchers[a] : inbox[c] # None}
<1>1. /\ clock \in 0..MaxEvents /\ clock < MaxEvents /\ clock' = clock + 1
      /\ inbox' = [c \in Client |-> IF c \in to THEN Put(inbox[c], clock') ELSE inbox[c]]
      /\ due' = [c \in Client |-> IF c \in to THEN Append(due[c], clock') ELSE due[c]]
  BY Zenon DEF Fanout, QueueOk, QueueType
<1>2. clock' \in 0..MaxEvents /\ 1..clock \subseteq 1..clock' /\ clock' \in 1..clock'
  BY <1>1
<1>3. \A c \in Client : /\ due[c] \in Seq(1..clock')
                        /\ inbox[c] # None => inbox[c] \in Seq(1..clock') /\ Len(inbox[c]) <= INBOX_BOUND
  BY ZenonT(30), <1>2, SeqGrows DEF QueueOk, QueueType
<1>4. ASSUME NEW c \in Client, c \in to
      PROVE  /\ inbox'[c] \in Seq(1..clock') /\ Len(inbox'[c]) <= INBOX_BOUND
             /\ due'[c] \in Seq(1..clock')
             /\ SuffixOf(inbox'[c], due'[c])
  <2>1. SuffixOf(inbox[c], due[c])
    BY Zenon, <1>4 DEF QueueOk, FreshestKept, SuffixOf
  <2>2. inbox'[c] = Put(inbox[c], clock') /\ due'[c] = Append(due[c], clock')
    BY Zenon, <1>1, <1>4
  <2>3. due[c] \in Seq(1..clock') /\ Len(inbox[c]) <= INBOX_BOUND
    BY Zenon, <1>3, <1>4
  <2>4. due'[c] \in Seq(1..clock')
    BY <1>2, <2>2, <2>3
  <2>5. ASSUME NEW S, NEW e \in S, due[c] \in Seq(S)
        PROVE  /\ Put(inbox[c], e) \in Seq(S) /\ Len(Put(inbox[c], e)) <= INBOX_BOUND
               /\ SuffixOf(Put(inbox[c], e), Append(due[c], e))
    BY ONLY Zenon, <2>1, <2>3, <2>5, PutKeeps
  <2>6. /\ Put(inbox[c], clock') \in Seq(1..clock') /\ Len(Put(inbox[c], clock')) <= INBOX_BOUND
        /\ SuffixOf(Put(inbox[c], clock'), Append(due[c], clock'))
    BY Zenon, <1>2, <2>3, <2>5
  <2> QED BY Zenon, <2>2, <2>4, <2>6
<1>5. \A c \in Client : c \notin to => inbox'[c] = inbox[c] /\ due'[c] = due[c]
  BY Zenon, <1>1
<1>6. None \notin Seq(1..clock')
  <2>1. 1..clock' \subseteq Nat
    BY <1>1
  <2> QED BY ZenonT(30), <2>1, SeqGrows, NoneIsNoInbox
<1>7. \A c \in Client : /\ inbox'[c] = None <=> inbox[c] = None
                        /\ inbox[c] = None => due'[c] = due[c]
  BY Zenon, <1>4, <1>5, <1>6
<1>8. QueueType'
  <2>1. \A c \in Client : /\ inbox'[c] \in Seq(1..clock') \cup {None} /\ due'[c] \in Seq(1..clock')
                          /\ inbox'[c] # None => Len(inbox'[c]) <= INBOX_BOUND
    BY Zenon, <1>3, <1>4, <1>5
  <2> QED BY Zenon, <1>1, <1>2, <2>1 DEF QueueType
<1>9. FreshestKept'
  BY ZenonT(30), <1>4, <1>5 DEF QueueOk, FreshestKept, SuffixOf
<1> QED
  BY Zenon, <1>7, <1>8, <1>9 DEF QueueOk

\* An event of a live agent goes to its watchers (emit).
LEMMA EmitStep ==
  ASSUME IInv, NEW a \in Agent, Emit(a)
  PROVE  IInv'
<1> USE Numbers
<1>1. /\ a \in live /\ Fanout(a)
      /\ UNCHANGED <<live, gen, inFlight, watchers, conn, watching, lost, call, subs, snap>>
  BY Zenon DEF Emit, connVars
<1>2. CallsOk'
  BY Zenon, <1>1, CallsKept DEF IInv
<1>3. /\ QueueOk'
      /\ \A c \in Client : /\ inbox'[c] = None <=> inbox[c] = None
                           /\ inbox[c] = None => due'[c] = due[c]
  BY Zenon, <1>1, FanoutStep DEF IInv, ConnOk
<1>4. ConnOk'
  BY Zenon, <1>1, <1>3, ConnKept DEF IInv
<1>5. ViewOk'
  <2>1. Snapshot'[a] = inFlight[a][gen[a]] /\ \A b \in Agent \ {a} : Snapshot'[b] = Snapshot[b]
    BY Zenon, <1>1 DEF Snapshot
  <2>2. Publish(a, gen[a], inFlight[a][gen[a]])
    BY Zenon DEF Emit
  <2>3. inFlight[a][gen[a]] \in 0..Cardinality(Caller) \cup {None}
    BY Zenon, <1>1, CountType DEF IInv
  <2> QED BY ZenonT(30), <1>1, <2>1, <2>2, <2>3, PublishStep DEF IInv
<1> QED
  BY Zenon, <1>2, <1>3, <1>4, <1>5 DEF IInv

\* The oldest event of an inbox is sent (drain_outbound).
LEMMA DrainStep ==
  ASSUME IInv, NEW c \in Client, Drain(c)
  PROVE  IInv'
<1> USE Numbers
<1>1. /\ conn[c] = "on" /\ inbox[c] # <<>> /\ inbox' = [inbox EXCEPT ![c] = Tail(@)]
      /\ UNCHANGED <<live, gen, inFlight, due, clock, watchers, conn, watching, lost, call, subs, snap,
                     view, stale>>
  BY Zenon DEF Drain, agentVars, connVars, viewVars
<1>2. CallsOk' /\ ViewOk'
  BY Zenon, <1>1, CallsKept, ViewKept DEF IInv, Snapshot
<1>3. inbox[c] \in Seq(1..clock) /\ inbox[c] # None /\ Len(inbox[c]) <= INBOX_BOUND /\ clock \in Nat
  BY <1>1 DEF IInv, ConnOk, Opened, QueueOk, QueueType
<1>4. Tail(inbox[c]) \in Seq(1..clock) /\ Len(Tail(inbox[c])) = Len(inbox[c]) - 1 /\ Len(inbox[c]) \in Nat
  BY ZenonT(30), <1>1, <1>3, TailOf
<1>5. inbox'[c] = Tail(inbox[c]) /\ \A d \in Client \ {c} : inbox'[d] = inbox[d]
  BY Zenon, <1>1 DEF IInv, QueueOk, QueueType
<1>6. inbox'[c] # None
  <2>1. 1..clock \subseteq Nat
    BY <1>3
  <2> QED BY ZenonT(30), <1>4, <1>5, <2>1, SeqGrows, NoneIsNoInbox
<1>7. QueueOk'
  <2>1. QueueType'
    <3>1. Len(Tail(inbox[c])) <= INBOX_BOUND
      BY <1>3, <1>4
    <3> QED BY Zenon, <1>1, <1>4, <1>5, <3>1 DEF IInv, QueueOk, QueueType
  <2>2. PICK k \in 1..Len(due[c]) + 1 : inbox[c] = SubSeq(due[c], k, Len(due[c]))
    BY Zenon, <1>3 DEF IInv, QueueOk, FreshestKept
  <2>3. due[c] \in Seq(1..clock)
    BY Zenon DEF IInv, QueueOk, QueueType
  <2>4. k + 1 \in 1..Len(due[c]) + 1 /\ Tail(inbox[c]) = SubSeq(due[c], k + 1, Len(due[c]))
    BY Zenon, <1>1, <2>2, <2>3, SuffixTail
  <2>5. FreshestKept'
    BY Zenon, <1>1, <1>5, <2>4 DEF IInv, QueueOk, FreshestKept
  <2> QED BY Zenon, <2>1, <2>5 DEF QueueOk
<1>8. ConnOk'
  BY Zenon, <1>1, <1>3, <1>5, <1>6, ConnKept DEF IInv
<1> QED
  BY Zenon, <1>2, <1>7, <1>8 DEF IInv

-----------------------------------------------------------------------------
\* Facts about finite sets; the library is brought in here because only the counts of
\* calls need it.
FS == INSTANCE FiniteSetTheorems

\* The library speaks of the same finite sets and cardinalities.
LEMMA SameNotions == \A S : (FS!IsFiniteSet(S) <=> IsFiniteSet(S)) /\ FS!Cardinality(S) = Cardinality(S)
BY Zenon DEF IsFiniteSet, FS!IsFiniteSet, Cardinality, FS!Cardinality

\* A set of some of finitely many callers is no larger than all of them.
LEMMA CardSubset ==
  ASSUME NEW S, NEW T, IsFiniteSet(S), T \subseteq S
  PROVE  IsFiniteSet(T) /\ Cardinality(T) \in Nat /\ Cardinality(T) <= Cardinality(S) /\ Cardinality(S) \in Nat
<1>1. FS!IsFiniteSet(S) /\ FS!IsFiniteSet(T) /\ FS!Cardinality(T) <= FS!Cardinality(S)
  BY Zenon, SameNotions, FS!FS_Subset
<1>2. FS!Cardinality(S) \in Nat /\ FS!Cardinality(T) \in Nat
  BY Zenon, <1>1, FS!FS_CardinalityType
<1> QED BY Zenon, <1>1, <1>2, SameNotions

\* One more call counts one more.
LEMMA CardAdd ==
  ASSUME NEW S, NEW x, IsFiniteSet(S), x \notin S
  PROVE  Cardinality(S \cup {x}) = Cardinality(S) + 1
<1>1. FS!Cardinality(S \cup {x}) = FS!Cardinality(S) + 1
  BY Zenon, SameNotions, FS!FS_AddElement
<1> QED BY Zenon, <1>1, SameNotions

\* One call less counts one less.
LEMMA CardRemove ==
  ASSUME NEW S, NEW x, IsFiniteSet(S), x \in S
  PROVE  Cardinality(S \ {x}) = Cardinality(S) - 1
<1>1. FS!Cardinality(S \ {x}) = FS!Cardinality(S) - 1
  BY Zenon, SameNotions, FS!FS_RemoveElement
<1> QED BY Zenon, <1>1, SameNotions

\* Clients and other callers together are finitely many.
LEMMA CardUnion ==
  ASSUME NEW S, NEW T, IsFiniteSet(S), IsFiniteSet(T)
  PROVE  IsFiniteSet(S \cup T)
<1>1. FS!IsFiniteSet(S \cup T)
  BY ZenonT(30), SameNotions, FS!FS_Union
<1> QED BY Zenon, <1>1, SameNotions

\* No call counts nothing.
LEMMA CardEmpty == Cardinality({}) = 0
BY Zenon, SameNotions, FS!FS_EmptySet

\* There are finitely many callers.
LEMMA CallersFinite ==
  /\ IsFiniteSet(Caller) /\ Cardinality(Caller) \in Nat
  /\ Client \subseteq Caller
<1>1. IsFiniteSet(Client) /\ IsFiniteSet(Other)
  BY Zenon, MessagingAssumption
<1>2. IsFiniteSet(Caller)
  BY Zenon, <1>1, CardUnion DEF Caller
<1> QED
  BY Zenon, <1>2, CardSubset DEF Caller

\* Nothing lives, nobody is connected.
LEMMA InitIInv == Init => IInv
<1> SUFFICES ASSUME Init PROVE IInv
  BY Zenon
<1> USE Numbers, CallersFinite
<1>1. CallsOk
  <2>1. CallType
    BY SMTT(20) DEF Init, CallType
  <2>2. \A a \in Agent, g \in 1..MaxGen :
          {c \in Caller : call[c] # None /\ call[c].to = a /\ call[c].gen = g} = {}
    BY Zenon DEF Init
  <2>3. BacklogExact
    BY ZenonT(30), <2>2, CardEmpty DEF Init, BacklogExact
  <2> QED BY Zenon, <2>1, <2>3 DEF Init, CallsOk, Incarnations
<1>2. QueueOk
  BY DEF Init, QueueOk, QueueType, FreshestKept
<1>3. ConnOk
  <2>1. ConnType /\ WatchHolds /\ Opened /\ Snapping
    BY Zenon DEF Init, ConnType, WatchHolds, Opened, Snapping
  <2>2. NoResidue
    BY Zenon DEF Init, NoResidue
  <2> QED BY Zenon, <2>1, <2>2 DEF ConnOk
<1>4. ViewOk
  BY DEF Init, ViewOk, ViewType, Pictured, NoView
<1> QED
  BY Zenon, <1>1, <1>2, <1>3, <1>4 DEF IInv

\* A new incarnation has no calls and no watchers (Agent.__init__).
LEMMA CreateStep ==
  ASSUME IInv, NEW a \in Agent, Create(a)
  PROVE  IInv'
<1> USE Numbers, CallersFinite
<1>1. /\ a \notin live /\ gen[a] < MaxGen /\ live' = live \cup {a} /\ gen' = [gen EXCEPT ![a] = @ + 1]
      /\ watchers' = [watchers EXCEPT ![a] = {}]
      /\ lost' = [c \in Client |-> IF a \in watching[c] THEN lost[c] \cup {a} ELSE lost[c]]
      /\ UNCHANGED <<inFlight, inbox, due, clock, conn, watching, call, subs, snap>>
  BY Zenon DEF Create, queueVars
<1>2. gen[a] \in 0..MaxGen /\ gen'[a] = gen[a] + 1 /\ gen'[a] \in 1..MaxGen
      /\ \A b \in Agent \ {a} : gen'[b] = gen[b]
  BY <1>1 DEF IInv, CallsOk, CallType
<1>3. CallsOk'
  <2>1. CallType'
    BY SMTT(20), <1>1 DEF IInv, CallsOk, CallType
  <2>2. BacklogExact'
    BY SMTT(20), <1>1 DEF IInv, CallsOk, BacklogExact
  <2>3. \A c \in Caller : call[c] # None => call[c].to \in Agent /\ call[c].gen \in 1..MaxGen
    BY Zenon DEF IInv, CallsOk, CallType
  <2>4. Incarnations'
    <3>1. \A b \in live' : gen'[b] >= 1
      BY SMTT(20), <1>1, <1>2 DEF IInv, CallsOk, CallType, Incarnations
    <3>2. \A b \in Agent : gen[b] <= gen'[b] /\ gen[b] \in Nat /\ gen'[b] \in Nat
      <4>1. \A b \in Agent : gen[b] \in Nat
        BY SMTT(20) DEF IInv, CallsOk, CallType
      <4> QED BY SMTT(20), <1>2, <4>1
    <3>3. \A c \in Caller : call[c] # None => call[c].gen <= gen'[call[c].to]
      BY SMTT(20), <2>3, <3>2 DEF IInv, CallsOk, Incarnations
    <3> QED BY ZenonT(30), <1>1, <3>1, <3>3 DEF Incarnations
  <2> QED BY Zenon, <2>1, <2>2, <2>4 DEF CallsOk
<1>4. inFlight[a][gen'[a]] = 0
  <2>1. {c \in Caller : call[c] # None /\ call[c].to = a /\ call[c].gen = gen'[a]} = {}
    BY SMTT(20), <1>2 DEF IInv, CallsOk, CallType, Incarnations
  <2> QED BY SMTT(20), <1>2, <2>1, CardEmpty DEF IInv, CallsOk, BacklogExact
<1>5. QueueOk'
  BY Zenon, <1>1, QueueKept DEF IInv
<1>6. ConnOk'
  <2>1. ConnType' /\ Snapping' /\ Opened'
    BY Zenon, <1>1 DEF IInv, ConnOk, ConnType, Snapping, Opened
  <2>2. NoResidue'
    BY Zenon, <1>1 DEF IInv, ConnOk, ConnType, NoResidue
  <2>3. WatchHolds'
    BY <1>1 DEF IInv, ConnOk, ConnType, WatchHolds
  <2> QED BY Zenon, <2>1, <2>2, <2>3 DEF ConnOk
<1>7. ViewOk'
  <2>1. Snapshot'[a] = 0 /\ \A b \in Agent \ {a} : Snapshot'[b] = Snapshot[b]
    BY SMTT(20), <1>1, <1>2, <1>4 DEF Snapshot
  <2>2. Publish(a, gen'[a], 0)
    BY ZenonT(30) DEF Create
  <2>3. 0 \in 0..Cardinality(Caller) \cup {None}
    BY SMTT(20)
  <2>4. ViewOk /\ UNCHANGED <<subs, snap>>
    BY Zenon, <1>1 DEF IInv
  <2> QED BY ZenonT(30), <2>1, <2>2, <2>3, <2>4, PublishStep
<1> QED
  BY SMTT(20), <1>3, <1>5, <1>6, <1>7 DEF IInv

\* A count that is the number of running calls fits its type.
LEMMA CountBounded ==
  \A a, g : IsFiniteSet(Running(a, g)) /\ Cardinality(Running(a, g)) \in 0..Cardinality(Caller)
<1>1. ASSUME NEW a, NEW g
      PROVE  IsFiniteSet(Running(a, g)) /\ Cardinality(Running(a, g)) \in 0..Cardinality(Caller)
  <2>1. Running(a, g) \subseteq Caller
    BY Zenon DEF Running
  <2> QED BY <2>1, CallersFinite, CardSubset
<1> QED
  BY Zenon, <1>1

\* The calls' books after a step that moves one call c in or out of incarnation g of a.
LEMMA OneCall ==
  ASSUME CallsOk, UNCHANGED <<live, gen>>, NEW c \in Caller, NEW a \in Agent, NEW g \in 1..MaxGen, NEW n,
         g <= gen[a],
         inFlight' = [inFlight EXCEPT ![a][g] = n],
         n = Cardinality(Running(a, g)'),
         call' \in [Caller -> [to : Agent, gen : 1..MaxGen, cut : BOOLEAN] \cup {None}],
         \A d \in Caller \ {c} : call'[d] = call[d],
         call[c] = None \/ (call[c].to = a /\ call[c].gen = g),
         call'[c] = None \/ (call'[c].to = a /\ call'[c].gen = g)
  PROVE  CallsOk'
<1>1. \A b \in Agent, h \in 1..MaxGen : inFlight'[b][h] = IF b = a /\ h = g THEN n ELSE inFlight[b][h]
  BY ZenonT(30) DEF CallsOk, CallType
<1>2. \A b \in Agent, h \in 1..MaxGen : ~(b = a /\ h = g) => Running(b, h)' = Running(b, h)
  BY SMTT(20) DEF Running
<1>3. \A b \in Agent, h \in 1..MaxGen : inFlight'[b][h] = Cardinality(Running(b, h)')
  BY SMTT(20), <1>1, <1>2, RunningCounted DEF CallsOk
<1>4. BacklogExact'
  BY Zenon, <1>3 DEF BacklogExact, Running
<1>5. n \in 0..Cardinality(Caller)
  <2>1. Running(a, g)' \subseteq Caller
    BY Zenon DEF Running
  <2> QED BY SMTT(20), <2>1, CallersFinite, CardSubset
<1>6. CallType'
  BY Zenon, <1>5 DEF CallsOk, CallType
<1>7. Incarnations'
  BY SMTT(20) DEF CallsOk, Incarnations
<1> QED
  BY Zenon, <1>4, <1>6, <1>7 DEF CallsOk

\* A call is counted in the incarnation it is dispatched to (_dispatch).
LEMMA CallStep ==
  ASSUME IInv, NEW c \in Caller, NEW a \in Agent, Call(c, a)
  PROVE  IInv'
<1> USE Numbers
<1> DEFINE g == gen[a]
           k == [to |-> a, gen |-> g, cut |-> FALSE]
<1>1. /\ a \in live /\ Fanout(a) /\ call[c] = None /\ (c \in Client => conn[c] = "on")
      /\ call' = [call EXCEPT ![c] = k]
      /\ inFlight' = [inFlight EXCEPT ![a][g] = @ + 1]
      /\ UNCHANGED <<live, gen, watchers, conn, watching, lost, subs, snap>>
  BY Zenon DEF Call, connVars, Receives
<1>2. g \in 1..MaxGen /\ k \in [to : Agent, gen : 1..MaxGen, cut : BOOLEAN] /\ k # None
  <2>1. g \in 1..MaxGen /\ FALSE \in BOOLEAN
    BY Zenon, <1>1, CountType DEF IInv
  <2>2. k \in [to : Agent, gen : 1..MaxGen, cut : BOOLEAN]
    BY Zenon, <2>1
  <2> QED BY ZenonT(30), <2>1, <2>2, NoneIsNoCall
<1>3. /\ call' \in [Caller -> [to : Agent, gen : 1..MaxGen, cut : BOOLEAN] \cup {None}]
      /\ call'[c] = k /\ \A d \in Caller \ {c} : call'[d] = call[d]
  BY Zenon, <1>1, <1>2 DEF IInv, CallsOk, CallType
<1>4. /\ c \notin Running(a, g)
      /\ {d \in Caller : call'[d] # None /\ call'[d].to = a /\ call'[d].gen = g} = Running(a, g) \cup {c}
  BY <1>1, <1>2, <1>3 DEF Running
<1>5. inFlight[a][g] + 1 = Cardinality({d \in Caller : call'[d] # None /\ call'[d].to = a /\ call'[d].gen = g})
  <2>1. inFlight[a][g] = Cardinality(Running(a, g)) /\ IsFiniteSet(Running(a, g))
    BY ZenonT(30), <1>2, CountBounded, RunningCounted DEF IInv, CallsOk
  <2>2. Cardinality(Running(a, g) \cup {c}) = Cardinality(Running(a, g)) + 1
    BY Zenon, <1>4, <2>1, CardAdd
  <2> QED BY ZenonT(30), <1>4, <2>1, <2>2
<1>6. inFlight' = [inFlight EXCEPT ![a][g] = inFlight[a][g] + 1]
  BY Zenon, <1>1, <1>2 DEF IInv, CallsOk, CallType
<1>7. CallsOk'
  <2>1. PICK h, n : h = g /\ n = inFlight[a][g] + 1
    BY Zenon
  <2>2. n = Cardinality(Running(a, h)')
    BY Zenon, <1>5, <2>1 DEF Running
  <2>3. h \in 1..MaxGen /\ h <= gen[a] /\ inFlight' = [inFlight EXCEPT ![a][h] = n]
    BY SMTT(20), <1>2, <1>6, <2>1
  <2>4. call'[c].to = a /\ call'[c].gen = h
    BY SMTT(20), <1>3, <2>1
  <2> QED BY ZenonT(30), <1>1, <1>3, <2>2, <2>3, <2>4, OneCall DEF IInv
<1>8. /\ QueueOk'
      /\ \A d \in Client : /\ inbox'[d] = None <=> inbox[d] = None
                           /\ inbox[d] = None => due'[d] = due[d]
  BY Zenon, <1>1, FanoutStep DEF IInv, ConnOk
<1>9. ConnOk'
  <2>1. \A d \in Client : call'[d] # None /\ call[d] = None => conn[d] # "off"
    BY Zenon, <1>1, <1>3
  <2> QED BY Zenon, <1>1, <1>8, <2>1, ConnKept DEF IInv
<1>10. ViewOk'
  <2>1. inFlight'[a][g] \in 0..Cardinality(Caller)
    BY SMTT(20), <1>2, <1>7 DEF CallsOk, CallType
  <2>2. \A b \in Agent \ {a} : inFlight'[b] = inFlight[b]
    BY Zenon, <1>6 DEF IInv, CallsOk, CallType
  <2>3. Snapshot'[a] = inFlight'[a][g] /\ \A b \in Agent \ {a} : Snapshot'[b] = Snapshot[b]
    BY SMTT(20), <1>1, <2>2 DEF Snapshot
  <2>4. Publish(a, g, inFlight'[a][g])
    BY Zenon DEF Call
  <2> QED BY SMTT(20), <1>1, <2>1, <2>3, <2>4, PublishStep DEF IInv
<1> QED
  BY Zenon, <1>7, <1>8, <1>9, <1>10 DEF IInv

\* The count of an incarnation goes down once for each of its calls (_dispatch).
LEMMA CallEndStep ==
  ASSUME IInv, NEW c \in Caller, CallEnd(c)
  PROVE  IInv'
<1> USE Numbers
<1>1. PICK k \in [to : Agent, gen : 1..MaxGen, cut : BOOLEAN] : k = call[c]
  BY Zenon DEF CallEnd, IInv, CallsOk, CallType
<1>2. PICK n : n = Counted(k)
  BY Zenon
<1>3. /\ call[c] # None /\ inFlight' = [inFlight EXCEPT ![k.to][k.gen] = n]
      /\ Publish(k.to, IF k.to \in live THEN k.gen ELSE 0, n)
      /\ call' = [call EXCEPT ![c] = None]
      /\ UNCHANGED <<live, gen, inbox, due, clock, watchers, conn, watching, lost, subs, snap>>
  BY Zenon, <1>1, <1>2 DEF CallEnd, queueVars, connVars
<1>4. PICK a, g : a = k.to /\ g = k.gen
  BY Zenon
<1>5. a \in Agent /\ g \in 1..MaxGen /\ g <= gen[a] /\ gen[a] \in 0..MaxGen
  BY Zenon, <1>1, <1>3, <1>4 DEF IInv, CallsOk, CallType, Incarnations
<1>6. /\ call' \in [Caller -> [to : Agent, gen : 1..MaxGen, cut : BOOLEAN] \cup {None}]
      /\ call'[c] = None /\ \A d \in Caller \ {c} : call'[d] = call[d]
  BY Zenon, <1>3 DEF IInv, CallsOk, CallType
<1>7. c \in Running(a, g) /\ Running(a, g)' = Running(a, g) \ {c}
  BY Zenon, <1>1, <1>3, <1>4, <1>6 DEF Running
<1>8. n = Cardinality(Running(a, g)')
  <2>1. inFlight[a][g] = Cardinality(Running(a, g)) /\ IsFiniteSet(Running(a, g))
        /\ Cardinality(Running(a, g)) \in Nat
    BY SMTT(20), <1>5, CountBounded, RunningCounted DEF IInv, CallsOk
  <2>2. Cardinality(Running(a, g) \ {c}) = Cardinality(Running(a, g)) - 1
        /\ Cardinality(Running(a, g) \ {c}) \in Nat
    BY Zenon, <1>7, <2>1, CardRemove, CardSubset
  <2>3. n = inFlight[a][g] - 1
    BY SMTT(20), <1>2, <1>4, <2>1, <2>2 DEF Counted
  <2> QED BY Zenon, <1>7, <2>1, <2>2, <2>3
<1>9. CallsOk'
  BY ZenonT(30), <1>1, <1>3, <1>4, <1>5, <1>6, <1>8, OneCall DEF IInv
<1>10. QueueOk'
  BY Zenon, <1>3, QueueKept DEF IInv
<1>11. ConnOk'
  BY Zenon, <1>3, <1>6, ConnKept DEF IInv
<1>12. ViewOk'
  <2>1. inFlight'[a][g] = n /\ \A b \in Agent \ {a} : inFlight'[b] = inFlight[b]
    BY Zenon, <1>3, <1>4, <1>5 DEF IInv, CallsOk, CallType
  <2>2. n \in 0..Cardinality(Caller)
    BY SMTT(20), <1>5, <1>9, <2>1 DEF CallsOk, CallType
  <2>3. \A b \in Agent \ {a} : Snapshot'[b] = Snapshot[b]
    BY SMTT(20), <1>3, <2>1 DEF Snapshot
  <2>4. (IF a \in live THEN g ELSE 0) = gen'[a] => Snapshot'[a] = n
    BY SMTT(20), <1>3, <1>5, <2>1 DEF Snapshot
  <2> QED BY SMTT(20), <1>3, <1>4, <1>5, <2>2, <2>3, <2>4, PublishStep DEF IInv
<1> QED
  BY Zenon, <1>9, <1>10, <1>11, <1>12 DEF IInv

-----------------------------------------------------------------------------
\* Every step of the kernel and of its connections keeps the invariant.
LEMMA NextIInv == IInv /\ [Next]_vars => IInv'
<1> SUFFICES ASSUME IInv, [Next]_vars PROVE IInv'
  BY Zenon
<1>1. CASE UNCHANGED vars
  <2>1. UNCHANGED <<live, gen, inFlight, inbox, due, clock, watchers, conn, watching, lost, call,
                    subs, snap, view, stale>>
    BY Zenon, <1>1 DEF vars, agentVars, queueVars, connVars, viewVars
  <2>2. CallsOk' /\ QueueOk' /\ ViewOk'
    BY ZenonT(30), <2>1, CallsKept, QueueKept, ViewKept DEF IInv, Snapshot
  <2>3. ConnOk'
    BY Zenon, <2>1, ConnKept DEF IInv
  <2> QED BY Zenon, <2>2, <2>3 DEF IInv
<1>2. CASE Next
  BY SMTT(20), <1>2, CreateStep, DeleteStep, EmitStep, ConnectStep, WatchStep, CallStep, CallEndStep,
     SubscribeStep, DrainStep, DisconnectStep, CloseDoneStep DEF Next
<1> QED
  BY Zenon, <1>1, <1>2

\* The invariant holds in every behaviour of the kernel and its connections.
THEOREM MessagingInvariant == Spec => []IInv
BY InitIInv, NextIInv, PTL DEF Spec

\* The kernel's books are exact whatever the order of creation, deletion, calls, watches
\* and disconnections: nothing of a gone connection is left, and each incarnation counts
\* the calls that run in it (_dispatch, _on_watch, the `finally` of run).
THEOREM KernelBooks == Spec => []BooksExact
BY MessagingInvariant, IInvImplies, PTL

\* A browser's inbox holds the newest of its events in order, and its picture of the
\* kernel is right except about what is noted as stale (_put_drop_oldest, publish_state).
THEOREM BrowserSees == Spec => []ClientSees
BY MessagingInvariant, IInvImplies, PTL

=============================================================================
