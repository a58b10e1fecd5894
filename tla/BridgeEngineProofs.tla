------------------------- MODULE BridgeEngineProofs -------------------------
(***************************************************************************)
(* A bridge serves its forwards, for any number of verbs, forwards and     *)
(* connections: the inductive invariant behind ForwardsServed, and its     *)
(* proof.                                                                  *)
(***************************************************************************)
EXTENDS BridgeEngine, TLAPS

\* Forwards start in order and take their number as id; one that has not started is
\* untouched.
Numbered ==
  \A f \in F : /\ fwd[f] = "idle" <=> f > corr
               /\ id[f] = IF f <= corr THEN f ELSE 0
               /\ fwd[f] = "idle" => fut[f] = "open"

\* What is on its way is the call of the forward it names.
SentOwn == \A r \in sent : r[1] = r[2]

\* While a forward is under way, its id is pending exactly while its future is open.
PendingIsOpen ==
  \A f \in F : fwd[f] \in {"send", "wait"} =>
    /\ id[f] \in pending <=> fut[f] = "open"
    /\ via[f] \in T /\ conn[via[f]] # "new"

\* The forward that a served call waits for has started.
NestedStarted == \A l \in T : nested[l] # None => fwd[nested[l]] # "idle"

\* Somebody will end what waits: a read loop runs, or a teardown is under way.
Ender == broken \/ (\E l \in T : Alive(l)) \/ \E o \in Op : op[o] \in {"down", "close"}

\* A cancelled loop is waited for.
CancelAwaited == \A l \in T : loop[l] = "cancel" => \E o \in Op : op[o] = "down" /\ on[o] = l

\* An open connection in the state is read by its own loop, unless a teardown is at it;
\* without one, nothing is pending.
TransportRead ==
  /\ transport = None => pending = {}
  /\ transport # None => conn[transport] # "new"
  /\ transport # None /\ conn[transport] = "open" =>
       \/ broken \/ \E o \in Op : op[o] \in {"down", "close"}
       \/ loop[transport] = "ready"
       \/ loop[transport] \in {"recv", "serve"} /\ reads[transport] = transport

\* Whatever waits, or can still be sent, has its Ender.
Heard ==
  \A f \in F :
    fut[f] = "open" /\ (fwd[f] = "wait" \/ (fwd[f] = "send" /\ conn[via[f]] = "open")) => Ender

\* Verbs that do not overlap: one at a time, which dials and closes with no connection
\* open.
Alone ==
  ~overlap => /\ \A o, p \in Op : op[o] # "idle" /\ op[p] # "idle" => o = p
              /\ \A o \in Op, t \in T : op[o] \in {"build", "close"} => conn[t] # "open"

\* The inductive invariant.
IInv ==
  /\ TypeOK /\ RightReply /\ PendingExact /\ OpenIsOwned
  /\ Numbered /\ SentOwn /\ PendingIsOpen /\ NestedStarted
  /\ CancelAwaited /\ TransportRead /\ Heard /\ Alone

\* The conjuncts about forwards.
ForwardSide == RightReply /\ PendingExact /\ Numbered /\ SentOwn /\ PendingIsOpen /\ NestedStarted

-----------------------------------------------------------------------------
\* Nothing was dialled, nothing is pending.
LEMMA InitIInv == Init => IInv
<1> SUFFICES ASSUME Init PROVE IInv
  BY Zenon
<1> USE BridgeAssumption
<1>1. TypeOK
  <2>1. corr \in 0..NForwards /\ pending \subseteq 1..corr /\ id \in [F -> 0..corr]
        /\ sent \subseteq (1..corr) \X F
    BY DEF Init
  <2>2. overlap \in BOOLEAN /\ broken \in BOOLEAN
    BY ZenonT(30) DEF Init
  <2>3. /\ conn \in [T -> {"new", "open", "dropped", "closed"}]
        /\ loop \in [T -> {"none", "ready", "recv", "serve", "cancel", "ended"}]
        /\ reads \in [T -> T \cup {None}] /\ nested \in [T -> F \cup {None}]
        /\ op \in [Op -> {"idle", "build", "down", "close"}]
        /\ then \in [Op -> {"boot", "return"}] /\ on \in [Op -> T \cup {None}]
        /\ fwd \in [F -> {"idle", "send", "wait", "done", "gone"}]
        /\ via \in [F -> T \cup {None}]
        /\ fut \in [F -> {"open", "set", "failed"}] /\ got \in [F -> F \cup {None}]
    BY Zenon DEF Init
  <2> QED BY Zenon, <2>1, <2>2, <2>3 DEF Init, TypeOK
<1>2. Numbered
  BY DEF Init, Numbered, F
<1>3. RightReply /\ PendingExact /\ SentOwn /\ PendingIsOpen /\ NestedStarted
  BY Zenon DEF Init, RightReply, PendingExact, SentOwn, PendingIsOpen, NestedStarted
<1>4. OpenIsOwned /\ CancelAwaited /\ TransportRead /\ Heard /\ Alone
  BY Zenon DEF Init, OpenIsOwned, CancelAwaited, TransportRead, Heard, Alone
<1> QED
  BY Zenon, <1>1, <1>2, <1>3, <1>4 DEF IInv

-----------------------------------------------------------------------------
\* FailAll leaves no open future under way (the `finally` of _read_loop, _teardown).
LEMMA FailAllDoes ==
  ASSUME IInv, FailAll
  PROVE  /\ pending' = {} /\ fut' \in [F -> {"open", "set", "failed"}]
         /\ \A f \in F : /\ fwd[f] \in {"send", "wait"} => fut'[f] # "open"
                         /\ fwd[f] = "idle" => fut'[f] = "open"
<1> USE BridgeAssumption
<1>1. pending' = {} /\ fut' = [f \in F |-> IF id[f] \in pending /\ fut[f] = "open" THEN "failed" ELSE fut[f]]
  BY Zenon DEF FailAll
<1>2. fut' \in [F -> {"open", "set", "failed"}]
  BY Zenon, <1>1 DEF IInv, TypeOK
<1>3. \A f \in F : fwd[f] \in {"send", "wait"} => fut'[f] # "open"
  BY Zenon, <1>1 DEF IInv, PendingIsOpen
<1>4. \A f \in F : fwd[f] = "idle" => id[f] = 0 /\ fut[f] = "open" /\ id[f] \notin pending
  BY DEF IInv, TypeOK, Numbered, F
<1>5. \A f \in F : fwd[f] = "idle" => fut'[f] = "open"
  BY Zenon, <1>1, <1>4
<1> QED
  BY Zenon, <1>1, <1>2, <1>3, <1>5

\* What does not touch the forwards keeps them in order, also when it fails them all.
LEMMA ForwardsKept ==
  ASSUME IInv, UNCHANGED <<fwdVars, got, sent, corr>>, FailAll \/ UNCHANGED <<pending, fut>>,
         \A t \in T : (conn[t] # "new" => conn'[t] # "new") /\ nested'[t] \in {nested[t], None}
  PROVE  ForwardSide'
<1>1. UNCHANGED <<fwd, id, via, got, sent, corr>>
  BY Zenon DEF fwdVars
<1>2. (RightReply /\ SentOwn /\ NestedStarted)'
  BY Zenon, <1>1 DEF IInv, RightReply, SentOwn, NestedStarted
<1>3. CASE FailAll
  BY Zenon, <1>1, <1>2, <1>3, FailAllDoes DEF IInv, ForwardSide, PendingExact, Numbered, PendingIsOpen
<1>4. CASE UNCHANGED <<pending, fut>>
  BY Zenon, <1>1, <1>2, <1>4 DEF IInv, ForwardSide, PendingExact, Numbered, PendingIsOpen
<1> QED
  BY Zenon, <1>3, <1>4

-----------------------------------------------------------------------------
\* The frame of a verb's step with connection t in the state: a loop it waited for has
\* ended, and unless verbs overlap it is the only one and t the only open connection.
Verb(o, t) ==
  /\ UNCHANGED <<load, corr, reads, nested, fwdVars, got, sent, broken>>
  /\ overlap' \in BOOLEAN /\ (overlap => overlap')
  /\ op[o] = "down" => loop[on[o]] = "ended"
  /\ ~overlap' => /\ \A p \in Op \ {o} : op[p] = "idle"
                  /\ \A u \in T : conn[u] = "open" => u = t

\* The tail of a teardown.
LEMMA FinishStep ==
  ASSUME IInv, NEW o \in Op, NEW next \in {"boot", "return"}, Finish(o, next), Verb(o, None)
  PROVE  IInv'
<1> USE BridgeAssumption
<1>1. /\ transport' = None /\ readTask' = None /\ ingress' = "deny"
      /\ op' = [op EXCEPT ![o] = IF next = "boot" THEN "build" ELSE "idle"]
      /\ then' = [then EXCEPT ![o] = "return"] /\ on' = [on EXCEPT ![o] = None]
      /\ UNCHANGED <<conn, loop, load, corr, reads, nested, fwd, id, via, got, sent, broken>>
      /\ overlap' \in BOOLEAN /\ (overlap => overlap')
  BY Zenon DEF Finish, Verb, fwdVars
<1>2. /\ pending' = {} /\ fut' \in [F -> {"open", "set", "failed"}]
      /\ \A f \in F : fwd[f] \in {"send", "wait"} => fut'[f] # "open"
  BY Zenon, FailAllDoes DEF Finish
<1>3. TypeOK'
  BY Zenon, <1>1, <1>2 DEF IInv, TypeOK
<1>4. ForwardSide'
  BY Zenon, ForwardsKept DEF Finish, Verb
<1>5. (OpenIsOwned /\ Alone)'
  <2>1. ~overlap' => \A u \in T : conn[u] # "open"
    BY DEF Verb, T
  <2> QED BY <1>1, <2>1 DEF IInv, TypeOK, OpenIsOwned, Alone, Verb
<1>6. CancelAwaited'
  <2> SUFFICES ASSUME NEW l \in T, loop'[l] = "cancel"
               PROVE  \E p \in Op : op'[p] = "down" /\ on'[p] = l
    BY Zenon DEF CancelAwaited
  <2>1. PICK p \in Op : op[p] = "down" /\ on[p] = l
    BY Zenon, <1>1 DEF IInv, CancelAwaited
  <2>2. p # o
    BY Zenon, <1>1, <2>1 DEF Verb
  <2> QED BY <1>1, <2>1, <2>2 DEF IInv, TypeOK
<1>7. TransportRead'
  BY Zenon, <1>1, <1>2 DEF TransportRead
<1>8. Heard'
  BY Zenon, <1>1, <1>2 DEF Heard
<1> QED
  BY Zenon, <1>3, <1>4, <1>5, <1>6, <1>7, <1>8 DEF IInv, ForwardSide

\* From the loop's end on: the connection is closed, or there is none.
LEMMA AfterLoopStep ==
  ASSUME IInv, NEW o \in Op, NEW t \in T \cup {None}, NEW rule \in {"deny", "allow"},
         NEW next \in {"boot", "return"}, AfterLoop(o, t, rule, next), Verb(o, t)
  PROVE  IInv'
<1> USE BridgeAssumption
<1>1. CASE t = None /\ Finish(o, next)
  BY Zenon, <1>1, FinishStep
<1>2. CASE t # None /\ ~(t = None /\ Finish(o, next))
  <2>1. /\ t \in T /\ transport' = t /\ ingress' = rule
        /\ op' = [op EXCEPT ![o] = "close"] /\ conn' = [conn EXCEPT ![t] = "closed"]
        /\ then' = [then EXCEPT ![o] = next] /\ on' = [on EXCEPT ![o] = None]
        /\ UNCHANGED <<readTask, pending, fut, loop>>
        /\ UNCHANGED <<load, corr, reads, nested, fwd, id, via, got, sent, broken>>
        /\ overlap' \in BOOLEAN /\ (overlap => overlap')
    BY Zenon, <1>2 DEF AfterLoop, Close, Verb, fwdVars
  <2>2. TypeOK'
    BY Zenon, <2>1 DEF IInv, TypeOK
  <2>3. ForwardSide'
    <3>1. \A u \in T : conn[u] # "new" => conn'[u] # "new"
      BY SMTT(20), <2>1 DEF IInv, TypeOK
    <3> QED BY Zenon, <2>1, <3>1, ForwardsKept DEF fwdVars
  <2>4. (OpenIsOwned /\ Alone)'
    <3>1. ~overlap' => \A u \in T : conn'[u] # "open"
      BY <2>1 DEF Verb, IInv, TypeOK
    <3> QED BY SMTT(20), <2>1, <3>1 DEF IInv, TypeOK, OpenIsOwned, Alone, Verb
  <2>5. CancelAwaited'
    <3> SUFFICES ASSUME NEW l \in T, loop'[l] = "cancel"
                 PROVE  \E p \in Op : op'[p] = "down" /\ on'[p] = l
      BY Zenon DEF CancelAwaited
    <3>1. PICK p \in Op : op[p] = "down" /\ on[p] = l
      BY Zenon, <2>1 DEF IInv, CancelAwaited
    <3>2. p # o
      BY Zenon, <2>1, <3>1 DEF Verb
    <3> QED BY <2>1, <3>1, <3>2 DEF IInv, TypeOK
  <2>6. op'[o] = "close"
    BY Zenon, <2>1 DEF IInv, TypeOK
  <2>7. TransportRead'
    <3>1. conn'[t] = "closed" /\ t # None
      BY Zenon, <1>2, <2>1 DEF IInv, TypeOK
    <3> QED BY Zenon, <2>1, <3>1 DEF TransportRead
  <2>8. Heard'
    BY Zenon, <2>6 DEF Heard, Ender
  <2> QED BY Zenon, <2>2, <2>3, <2>4, <2>5, <2>7, <2>8 DEF IInv, ForwardSide
<1> QED
  BY Zenon, <1>1, <1>2 DEF AfterLoop

\* A teardown begins (_teardown).
LEMMA TeardownStep ==
  ASSUME IInv, NEW o \in Op, NEW t \in T \cup {None}, NEW rule \in {"deny", "allow"},
         NEW next \in {"boot", "return"}, Teardown(o, t, rule, next), Verb(o, t),
         op[o] # "down", t = None => transport = None
  PROVE  IInv'
<1> USE BridgeAssumption
<1>1. CASE ~(readTask # None /\ Alive(readTask))
  BY Zenon, <1>1, AfterLoopStep DEF Teardown
<1>2. CASE readTask # None /\ Alive(readTask)
  <2>1. /\ readTask \in T /\ loop' = [loop EXCEPT ![readTask] = "cancel"]
        /\ op' = [op EXCEPT ![o] = "down"] /\ on' = [on EXCEPT ![o] = readTask]
        /\ then' = [then EXCEPT ![o] = next] /\ transport' = t /\ ingress' = rule
        /\ conn' = [u \in T |-> IF u = t /\ conn[u] = "new" THEN "open" ELSE conn[u]]
        /\ UNCHANGED <<readTask, pending, fut>>
        /\ UNCHANGED <<load, corr, reads, nested, fwd, id, via, got, sent, broken>>
        /\ overlap' \in BOOLEAN /\ (overlap => overlap')
    BY ZenonT(30), <1>2 DEF Teardown, Verb, fwdVars, IInv, TypeOK
  <2>2. TypeOK'
    BY Zenon, <2>1 DEF IInv, TypeOK
  <2>3. ForwardSide'
    <3>1. \A u \in T : conn[u] # "new" => conn'[u] # "new"
      BY Zenon, <2>1 DEF IInv, TypeOK
    <3> QED BY Zenon, <2>1, <3>1, ForwardsKept DEF fwdVars
  <2>4. op'[o] = "down" /\ on'[o] = readTask
    BY SMTT(20), <2>1 DEF IInv, TypeOK
  <2>5. (OpenIsOwned /\ Alone)'
    <3>1. ~overlap' => \A u \in T : conn'[u] = "open" => u = t
      BY Zenon, <2>1 DEF Verb
    <3> QED BY <2>1, <2>4, <3>1 DEF IInv, TypeOK, OpenIsOwned, Alone, Verb
  <2>6. CancelAwaited'
    BY SMTT(20), <2>1, <2>4 DEF IInv, TypeOK, CancelAwaited
  <2>7. TransportRead' /\ Heard'
    BY <2>1, <2>4 DEF IInv, TypeOK, TransportRead, Heard, Ender
  <2> QED BY Zenon, <2>2, <2>3, <2>5, <2>6, <2>7 DEF IInv, ForwardSide
<1> QED
  BY Zenon, <1>1, <1>2

\* reconnect and the delete hook: the teardown of what is in the state.
LEMMA BeginTeardown ==
  ASSUME IInv, UNCHANGED load, NEW o \in Op, NEW next \in {"boot", "return"}, Begin(o),
         Teardown(o, transport, ingress, next)
  PROVE  IInv'
<1>1. op[o] = "idle" /\ overlap' = (overlap \/ \E p \in Op : op[p] # "idle")
  BY Zenon DEF Begin
<1>2. overlap' \in BOOLEAN /\ (overlap => overlap')
  BY ZenonT(30), <1>1
<1>3. ~overlap' => /\ \A p \in Op \ {o} : op[p] = "idle"
                   /\ \A u \in T : conn[u] = "open" => u = transport
  BY ZenonT(30), <1>1 DEF IInv, OpenIsOwned
<1>4. Verb(o, transport)
  BY ZenonT(30), <1>1, <1>2, <1>3 DEF Verb, Teardown
<1>5. transport \in T \cup {None} /\ ingress \in {"deny", "allow"}
  BY Zenon DEF IInv, TypeOK
<1> QED
  BY Zenon, <1>1, <1>4, <1>5, TeardownStep

\* The cancelled loop has ended, or the close has (_teardown).
LEMMA OpStepStep ==
  ASSUME IInv, UNCHANGED load, NEW o \in Op, OpStep(o)
  PROVE  IInv'
<1> USE BridgeAssumption
<1>0. transport \in T \cup {None} /\ ingress \in {"deny", "allow"} /\ then[o] \in {"boot", "return"}
  BY Zenon DEF IInv, TypeOK
<1>1. CASE LoopAwaited(o)
  <2>1. Verb(o, transport)
    BY Zenon, <1>1 DEF LoopAwaited, Verb, ghosts, IInv, TypeOK, Alone, OpenIsOwned
  <2> QED BY Zenon, <1>0, <1>1, <2>1, AfterLoopStep DEF LoopAwaited
<1>2. CASE CloseDone(o)
  <2>1. Verb(o, None)
    BY <1>2 DEF CloseDone, Verb, ghosts, IInv, TypeOK, Alone
  <2> QED BY Zenon, <1>0, <1>2, <2>1, FinishStep DEF CloseDone
<1> QED
  BY Zenon, <1>1, <1>2 DEF OpStep

\* A dial succeeds and the record names a bad rule (boot).
LEMMA BadRuleStep ==
  ASSUME IInv, UNCHANGED load, NEW o \in Op, NEW t \in T, NEW rule \in {"deny", "allow"},
         BadRule(o, t, rule)
  PROVE  IInv'
<1> USE BridgeAssumption
<1>1. op[o] = "build" /\ Teardown(o, t, rule, "return") /\ overlap' = overlap /\ t # None
  BY SMTT(20) DEF BadRule, T
<1>2. Verb(o, t)
  BY <1>1 DEF Teardown, Verb, IInv, TypeOK, Alone
<1> QED
  BY Zenon, <1>1, <1>2, TeardownStep

\* boot begins to dial, a dial fails, the caller of a teardown goes away.
LEMMA OpEdges ==
  ASSUME IInv, UNCHANGED load, NEW o \in Op, Boot(o) \/ BootFails(o) \/ OpCancelled(o)
  PROVE  IInv'
<1> USE BridgeAssumption
<1>1. /\ UNCHANGED <<load, transport, readTask, ingress, pending, corr, conn, loop, reads, nested,
                     on, fwd, id, via, fut, got, sent>>
      /\ overlap' \in BOOLEAN /\ (overlap => overlap') /\ broken' \in BOOLEAN /\ (broken => broken')
      /\ then' \in [Op -> {"boot", "return"}] /\ op' \in [Op -> {"idle", "build", "down", "close"}]
      /\ op[o] # "down"
      /\ \A p \in Op : op'[p] = op[p] \/ (p = o /\ op'[p] # "down" /\ (op[p] = "close" => broken'))
  <2>1. CASE Boot(o)
    BY SMTT(20), <2>1 DEF Boot, Begin, stVars, loopVars, fwdVars, IInv, TypeOK
  <2>2. CASE BootFails(o)
    BY SMTT(20), <2>2 DEF BootFails, stVars, loopVars, fwdVars, ghosts, IInv, TypeOK
  <2>3. CASE OpCancelled(o)
    BY SMTT(20), <2>3 DEF OpCancelled, stVars, loopVars, fwdVars, IInv, TypeOK
  <2> QED BY Zenon, <2>1, <2>2, <2>3
<1>2. TypeOK'
  BY SMTT(20), <1>1 DEF IInv, TypeOK
<1>3. ForwardSide'
  BY Zenon, <1>1, ForwardsKept DEF fwdVars
<1>4. OpenIsOwned'
  BY Zenon, <1>1 DEF IInv, OpenIsOwned
<1>5. CancelAwaited'
  BY Zenon, <1>1 DEF IInv, CancelAwaited
<1>6. broken' \/ \A p \in Op : op[p] \in {"down", "close"} => op'[p] \in {"down", "close"}
  BY Zenon, <1>1
<1>7. TransportRead'
  BY Zenon, <1>1, <1>6 DEF IInv, TransportRead
<1>8. Heard'
  BY Zenon, <1>1, <1>6 DEF IInv, Heard, Ender, Alive
<1>9. Alone'
  <2>1. CASE Boot(o)
    <3>1. op[o] = "idle" /\ overlap' = (overlap \/ \E p \in Op : op[p] # "idle") /\ ~Connected
          /\ op' = [op EXCEPT ![o] = "build"]
      BY Zenon, <2>1 DEF Boot, Begin
    <3>2. ~overlap => \A t \in T : conn[t] # "open"
      BY <3>1 DEF Connected, Closed, IInv, OpenIsOwned, T
    <3>3. ~overlap' => ~overlap /\ \A p \in Op : op[p] = "idle"
      BY ZenonT(30), <3>1
    <3>4. \A p \in Op : p # o => op'[p] = op[p]
      BY SMTT(20), <3>1 DEF IInv, TypeOK
    <3> QED BY Zenon, <1>1, <3>2, <3>3, <3>4 DEF Alone
  <2>2. CASE BootFails(o) \/ OpCancelled(o)
    BY <1>1, <2>2 DEF IInv, TypeOK, Alone, BootFails, OpCancelled, ghosts
  <2> QED BY Zenon, <2>1, <2>2
<1> QED
  BY Zenon, <1>2, <1>3, <1>4, <1>5, <1>7, <1>8, <1>9 DEF IInv, ForwardSide

\* A dial succeeds: its connection is open, with a loop of its own to read it (boot).
LEMMA BootedStep ==
  ASSUME IInv, UNCHANGED load, NEW o \in Op, NEW t \in T, Booted(o, t)
  PROVE  IInv'
<1> USE BridgeAssumption
<1>1. /\ op[o] = "build" /\ conn[t] = "new" /\ op' = [op EXCEPT ![o] = "idle"]
      /\ conn' = [conn EXCEPT ![t] = "open"] /\ transport' = t /\ ingress' = Rule /\ readTask' = t
      /\ loop' = [loop EXCEPT ![t] = "ready"]
      /\ UNCHANGED <<load, pending, corr, reads, nested, then, on, fwd, id, via, fut, got, sent,
                     overlap, broken>>
  BY Zenon DEF Booted, fwdVars, ghosts
<1>2. TypeOK'
  BY Zenon, <1>1 DEF IInv, TypeOK
<1>3. ForwardSide'
  <2>1. \A u \in T : conn[u] # "new" => conn'[u] # "new"
    BY Zenon, <1>1 DEF IInv, TypeOK
  <2> QED BY Zenon, <1>1, <2>1, ForwardsKept DEF fwdVars
<1>4. (OpenIsOwned /\ Alone)'
  BY SMTT(20), <1>1 DEF IInv, TypeOK, OpenIsOwned, Alone
<1>5. CancelAwaited'
  BY SMTT(20), <1>1 DEF IInv, TypeOK, CancelAwaited
<1>6. loop'[t] = "ready" /\ conn'[t] = "open" /\ t # None
  BY <1>1 DEF IInv, TypeOK, T
<1>7. TransportRead'
  BY Zenon, <1>1, <1>6 DEF TransportRead
<1>8. Heard'
  BY Zenon, <1>6 DEF Heard, Ender, Alive
<1> QED
  BY Zenon, <1>2, <1>3, <1>4, <1>5, <1>7, <1>8 DEF IInv, ForwardSide

-----------------------------------------------------------------------------
\* A forward starts, from outside or from a served call: it takes the next id (_forward).
LEMMA StartStep ==
  ASSUME IInv, UNCHANGED load, NEW f \in F, Start(f), nested' \in [T -> F \cup {None}],
         \A l \in T : nested'[l] \in {nested[l], f}
  PROVE  IInv'
<1> USE BridgeAssumption
<1>1. /\ fwd[f] = "idle" /\ transport # None /\ corr' = corr + 1 /\ pending' = pending \cup {corr'}
      /\ fwd' = [fwd EXCEPT ![f] = "send"] /\ id' = [id EXCEPT ![f] = corr']
      /\ via' = [via EXCEPT ![f] = transport]
      /\ UNCHANGED <<load, transport, readTask, ingress, conn, loop, reads, op, then, on, fut, got,
                     sent, overlap, broken>>
  BY Zenon DEF Start, NextCorr, Connected, stVars, opVars, ghosts
<1>2. f = corr + 1 /\ corr + 1 <= NForwards
  <2>1. f > corr /\ f \in 1..NForwards /\ corr \in Nat
    BY <1>1 DEF IInv, TypeOK, Numbered, F
  <2>2. ASSUME f # corr + 1 PROVE FALSE
    <3>1. corr + 1 \in 1..(f - 1) /\ corr + 1 \in F
      BY <2>1, <2>2 DEF F
    <3>2. fwd[corr + 1] = "idle"
      BY SMTT(20), <2>1, <3>1 DEF IInv, Numbered
    <3> QED BY Zenon, <3>1, <3>2 DEF Start
  <2> QED BY SMTT(20), <2>1, <2>2
<1>3. TypeOK'
  BY <1>1, <1>2 DEF IInv, TypeOK
<1>4. (RightReply /\ SentOwn)'
  BY Zenon, <1>1 DEF IInv, RightReply, SentOwn
<1>5. Numbered'
  BY SMTT(20), <1>1, <1>2 DEF IInv, TypeOK, Numbered, F
<1>6. \A g \in F \ {f} : fwd'[g] = fwd[g] /\ id'[g] = id[g] /\ via'[g] = via[g] /\ id[g] # corr'
  BY SMTT(20), <1>1 DEF IInv, TypeOK
<1>7. fwd'[f] = "send" /\ id'[f] = corr' /\ via'[f] = transport /\ fut[f] = "open"
  BY SMTT(20), <1>1 DEF IInv, TypeOK, Numbered
<1>8. (PendingExact /\ PendingIsOpen /\ NestedStarted)'
  BY <1>1, <1>6, <1>7 DEF IInv, TypeOK, PendingExact, PendingIsOpen, NestedStarted, TransportRead
<1>9. (OpenIsOwned /\ CancelAwaited /\ Alone)'
  BY ZenonT(30), <1>1 DEF IInv, OpenIsOwned, CancelAwaited, Alone
<1>10. TransportRead'
  BY Zenon, <1>1 DEF IInv, TransportRead
<1>11. Ender' <=> Ender
  BY Zenon, <1>1 DEF Ender, Alive
<1>12. conn[transport] = "open" => Ender
  BY Zenon, <1>1 DEF IInv, TypeOK, TransportRead, Ender, Alive
<1>13. Heard'
  BY SMTT(20), <1>1, <1>6, <1>7, <1>11, <1>12 DEF IInv, Heard
<1> QED
  BY Zenon, <1>3, <1>4, <1>5, <1>8, <1>9, <1>10, <1>13 DEF IInv

\* What is sent, answered, timed out or cancelled of one forward, the rest unchanged.
FrameOf(f) ==
  /\ UNCHANGED <<load, transport, readTask, ingress, corr, conn, loop, reads, nested, op, then, on, id, overlap,
                 broken>>
  /\ fwd' \in [F -> {"idle", "send", "wait", "done", "gone"}] /\ via' \in [F -> T \cup {None}]
  /\ fut' \in [F -> {"open", "set", "failed"}]
  /\ got' \in [F -> F \cup {None}] /\ RightReply'
  /\ \A g \in F \ {f} : fwd'[g] = fwd[g] /\ via'[g] = via[g] /\ fut'[g] = fut[g]
  /\ fwd[f] \in {"send", "wait"}
  /\ pending' \subseteq pending /\ pending \subseteq pending' \cup {id[f]}

\* A step of one forward that ends it, or that puts it on its way over an open connection.
LEMMA OneForward ==
  ASSUME IInv, NEW f \in F, FrameOf(f), sent' \subseteq sent \cup {<<id[f], f>>},
         \/ fwd'[f] = "wait" /\ conn[via[f]] = "open" /\ via'[f] = via[f] /\ fut'[f] = fut[f]
            /\ pending' = pending /\ fwd[f] = "send"
         \/ fwd'[f] = "done" /\ id[f] \notin pending'
         \/ fwd'[f] = "gone"
  PROVE  IInv'
<1> USE BridgeAssumption
<1> USE DEF FrameOf
<1>1. /\ f <= corr /\ id[f] = f /\ id[f] \in 1..corr
      /\ \A g \in F \ {f} : id[g] # id[f]
  BY SMTT(20) DEF IInv, TypeOK, Numbered, F
<1>2. TypeOK'
  <2>1. sent' \subseteq (1..corr) \X F
    BY SMTT(20), <1>1 DEF IInv, TypeOK
  <2> QED BY Zenon, <2>1 DEF IInv, TypeOK
<1>3. SentOwn'
  BY SMTT(20), <1>1 DEF IInv, SentOwn
<1>4. Numbered'
  BY SMTT(20), <1>1 DEF IInv, TypeOK, Numbered
<1>5. (PendingExact /\ PendingIsOpen /\ NestedStarted)'
  BY SMTT(20), <1>1 DEF IInv, TypeOK, PendingExact, PendingIsOpen, NestedStarted
<1>6. (OpenIsOwned /\ CancelAwaited /\ Alone)'
  BY SMTT(20) DEF IInv, OpenIsOwned, CancelAwaited, Alone
<1>7. TransportRead'
  BY Zenon DEF IInv, TransportRead
<1>8. Ender' <=> Ender
  BY Zenon DEF Ender, Alive
<1>9. Heard'
  BY <1>8 DEF IInv, Heard
<1> QED
  BY Zenon, <1>2, <1>3, <1>4, <1>5, <1>6, <1>7, <1>9 DEF IInv

\* The frame is out, or the send raised (_forward).
LEMMA SentStep ==
  ASSUME IInv, UNCHANGED load, NEW f \in F, Sent(f)
  PROVE  IInv'
<1>1. CASE conn[via[f]] = "open"
  <2>0. /\ fwd[f] = "send" /\ fwd' = [fwd EXCEPT ![f] = "wait"]
        /\ UNCHANGED <<load, via, got, pending, fut, transport, readTask, ingress, corr, conn,
                       loop, reads, nested, op, then, on, id, overlap, broken>>
    BY ZenonT(30), <1>1 DEF Sent, stVars, loopVars, opVars, ghosts
  <2>1. FrameOf(f) /\ fwd'[f] = "wait" /\ via'[f] = via[f] /\ fut'[f] = fut[f] /\ pending' = pending
        /\ fwd[f] = "send"
    BY <2>0 DEF IInv, TypeOK, RightReply, FrameOf
  <2>2. sent' \subseteq sent \cup {<<id[f], f>>}
    BY ZenonT(30), <1>1 DEF Sent
  <2> QED BY Zenon, <1>1, <2>1, <2>2, OneForward
<1>2. CASE conn[via[f]] # "open"
  <2>1. FrameOf(f) /\ fwd'[f] = "done" /\ id[f] \notin pending'
    BY <1>2 DEF IInv, TypeOK, RightReply, Sent, Over, FrameOf, stVars, loopVars, opVars, ghosts
  <2>2. sent' \subseteq sent \cup {<<id[f], f>>}
    BY ZenonT(30), <1>2 DEF Sent
  <2> QED BY ZenonT(30), <2>1, <2>2, OneForward
<1> QED
  BY Zenon, <1>1, <1>2

\* The future is done, or the time limit expires, or the caller goes away (_forward).
LEMMA OverStep ==
  ASSUME IInv, UNCHANGED load, NEW f \in F, Return(f) \/ Timeout(f) \/ ForwardCancelled(f)
  PROVE  IInv'
<1>1. PICK how \in {"done", "gone"} : Over(f, how) /\ (how = "done" => id[f] \notin pending')
  <2>1. CASE Return(f)
    BY Zenon, <2>1 DEF Return, IInv, PendingIsOpen
  <2>2. CASE Timeout(f)
    BY Zenon, <2>2 DEF Timeout, Unpend
  <2>3. CASE ForwardCancelled(f)
    BY Zenon, <2>3 DEF ForwardCancelled
  <2> QED BY Zenon, <2>1, <2>2, <2>3
<1>2. /\ fwd[f] \in {"send", "wait"} /\ fut' = [fut EXCEPT ![f] = "set"]
      /\ UNCHANGED <<load, transport, readTask, ingress, corr, conn, loop, reads, nested, op, then,
                     on, id, sent, overlap, broken>>
  BY Zenon DEF Return, Timeout, ForwardCancelled, stVars, loopVars, opVars, ghosts
<1>3. pending' \in {pending, pending \ {id[f]}}
  BY ZenonT(30) DEF Return, Timeout, Unpend, ForwardCancelled
<1>4. /\ fwd' = [fwd EXCEPT ![f] = how] /\ via' = [via EXCEPT ![f] = None]
      /\ got' = [got EXCEPT ![f] = None]
  BY Zenon, <1>1 DEF Over
<1>5. /\ fwd' \in [F -> {"idle", "send", "wait", "done", "gone"}] /\ via' \in [F -> T \cup {None}]
      /\ fut' \in [F -> {"open", "set", "failed"}] /\ got' \in [F -> F \cup {None}]
      /\ fwd'[f] = how
      /\ \A g \in F \ {f} : fwd'[g] = fwd[g] /\ via'[g] = via[g] /\ fut'[g] = fut[g]
  BY ZenonT(30), <1>2, <1>4 DEF IInv, TypeOK
<1>6. RightReply'
  BY ZenonT(30), <1>4 DEF IInv, TypeOK, RightReply
<1>7. FrameOf(f)
  BY Zenon, <1>2, <1>3, <1>5, <1>6 DEF FrameOf
<1> QED
  BY ZenonT(30), <1>1, <1>2, <1>5, <1>7, OneForward

-----------------------------------------------------------------------------
\* What a step of a read loop leaves alone.
LoopFrame ==
  /\ UNCHANGED <<load, transport, readTask, ingress, corr, conn, op, then, on, id, overlap>>
  /\ broken' \in BOOLEAN /\ (broken => broken')
  /\ reads' \in [T -> T \cup {None}] /\ nested' \in [T -> F \cup {None}]
  /\ loop' \in [T -> {"none", "ready", "recv", "serve", "cancel", "ended"}]
  /\ \A l \in T : loop'[l] = "cancel" => loop[l] = "cancel"

\* A step that cancels no loop and leaves the operations alone keeps CancelAwaited.
LEMMA CancelStands ==
  ASSUME CancelAwaited, UNCHANGED <<op, on>>, \A m \in T : loop'[m] = "cancel" => loop[m] = "cancel"
  PROVE  CancelAwaited'
BY DEF CancelAwaited

\* A loop's step that keeps the loops running, or fails what is pending, or ends a loop
\* that a teardown waits for or that finds no connection.
LEMMA OneLoop ==
  ASSUME IInv, NEW l \in T, LoopFrame, \A m \in T \ {l} : loop'[m] = loop[m] /\ reads'[m] = reads[m],
         TypeOK', ForwardSide',
         \A f \in F : fwd'[f] \in {"send", "wait"} => fwd'[f] = fwd[f] /\ via'[f] = via[f],
         \A f \in F : fwd'[f] \in {"send", "wait"} /\ fut'[f] = "open" => fut[f] = "open",
         transport = None => pending' = {},
         \/ broken'
         \/ loop[l] = "cancel"
         \/ conn[reads[l]] # "open" /\ loop[l] \in {"recv", "serve"}
         \/ transport = None /\ loop[l] = "ready"
         \/ loop'[l] \in {"recv", "serve"} /\ loop[l] = "ready" /\ reads'[l] = transport
         \/ loop'[l] \in {"recv", "serve"} /\ loop[l] \in {"recv", "serve"} /\ reads'[l] = reads[l],
         \/ \E o \in Op : op[o] \in {"down", "close"}
         \/ broken' \/ Alive(l)'
         \/ \A f \in F : fwd'[f] \in {"send", "wait"} => fut'[f] # "open"
  PROVE  IInv'
<1> USE BridgeAssumption
<1> USE DEF LoopFrame
<1>1. (OpenIsOwned /\ Alone)'
  <2>1. OpenIsOwned'
    BY ZenonT(30) DEF IInv, OpenIsOwned
  <2>2. Alone'
    BY ZenonT(30) DEF IInv, Alone
  <2> QED BY Zenon, <2>1, <2>2
<1>2. CancelAwaited'
  <2>1. \A m \in T : loop'[m] = "cancel" => loop[m] = "cancel"
    OBVIOUS
  <2>2. UNCHANGED <<op, on>>
    OBVIOUS
  <2>3. CancelAwaited
    BY Zenon DEF IInv
  <2> QED BY Zenon, <2>1, <2>2, <2>3, CancelStands
<1>3. TransportRead'
  <2>1. CASE transport = None
    BY Zenon, <2>1 DEF IInv, TransportRead
  <2>2. CASE transport # None /\ conn[transport] # "open"
    BY Zenon, <2>2 DEF IInv, TransportRead
  <2>3. CASE transport # None /\ conn[transport] = "open"
    <3>1. \/ broken \/ \E o \in Op : op[o] \in {"down", "close"}
          \/ loop[transport] = "ready"
          \/ loop[transport] \in {"recv", "serve"} /\ reads[transport] = transport
      BY Zenon, <2>3 DEF IInv, TransportRead
    <3>2. CASE l # transport
      <4>1. loop'[transport] = loop[transport] /\ reads'[transport] = reads[transport]
        BY Zenon, <2>3, <3>2 DEF IInv, TypeOK
      <4> QED BY Zenon, <2>3, <3>1, <4>1 DEF IInv, TransportRead
    <3>3. CASE l = transport
      <4>1. loop[l] = "cancel" => \E o \in Op : op[o] \in {"down", "close"}
        BY ZenonT(30) DEF IInv, CancelAwaited
      <4> QED BY Zenon, <2>3, <3>1, <3>3, <4>1 DEF IInv, TransportRead
    <3> QED BY ZenonT(30), <3>2, <3>3
  <2> QED BY Zenon, <2>1, <2>2, <2>3
<1>4. Heard'
  <2> SUFFICES ASSUME NEW f \in F, fut'[f] = "open",
                      fwd'[f] = "wait" \/ (fwd'[f] = "send" /\ conn'[via'[f]] = "open")
               PROVE  Ender'
    BY Zenon DEF Heard
  <2>1. Ender
    BY SMTT(20) DEF IInv, Heard
  <2>2. CASE broken' \/ \E o \in Op : op[o] \in {"down", "close"}
    BY Zenon, <2>2 DEF Ender
  <2>3. CASE Alive(l)'
    BY Zenon, <2>3 DEF Ender, Alive
  <2> QED BY Zenon, <2>2, <2>3
<1> QED
  BY ZenonT(30), <1>1, <1>2, <1>3, <1>4 DEF IInv, ForwardSide

\* A loop takes the connection that is in the state when it first runs (_read_loop).
LEMMA LoopStartStep ==
  ASSUME IInv, UNCHANGED load, NEW l \in T, LoopStart(l)
  PROVE  IInv'
<1> USE BridgeAssumption
<1>1. /\ loop[l] = "ready" /\ reads' = [reads EXCEPT ![l] = transport]
      /\ loop' = [loop EXCEPT ![l] = IF transport = None THEN "ended" ELSE "recv"]
      /\ UNCHANGED <<load, transport, readTask, ingress, pending, corr, conn, nested, op, then, on,
                     fwd, id, via, fut, got, sent, overlap, broken>>
  BY ZenonT(30) DEF LoopStart, stVars, opVars, fwdVars, ghosts
<1>2. TypeOK' /\ LoopFrame
  BY <1>1 DEF IInv, TypeOK, LoopFrame
<1>3. ForwardSide'
  BY ZenonT(30), <1>1, ForwardsKept DEF fwdVars
<1>4. \A m \in T \ {l} : loop'[m] = loop[m] /\ reads'[m] = reads[m]
  BY <1>1 DEF IInv, TypeOK
<1>5. transport = None => pending' = {} /\ \A f \in F : fwd'[f] \in {"send", "wait"} => fut'[f] # "open"
  BY ZenonT(30), <1>1 DEF IInv, TransportRead, PendingIsOpen
<1>6. transport # None => loop'[l] = "recv" /\ reads'[l] = transport
  BY <1>1 DEF IInv, TypeOK
<1> QED
  BY Zenon, <1>1, <1>2, <1>3, <1>4, <1>5, <1>6, OneLoop DEF Alive

\* A loop ends through its `finally` (_read_loop).
LEMMA LoopEndStep ==
  ASSUME IInv, UNCHANGED load, NEW l \in T, LoopClosed(l) \/ LoopFails(l)
  PROVE  IInv'
<1> USE BridgeAssumption
<1>1. /\ loop[l] = "recv" /\ loop' = [loop EXCEPT ![l] = "ended"] /\ FailAll
      /\ UNCHANGED <<load, transport, readTask, ingress, corr, conn, reads, nested, op, then, on,
                     fwd, id, via, got, sent, overlap>>
      /\ conn[reads[l]] # "open" \/ broken'
  BY Zenon DEF LoopClosed, LoopFails, End, stVars, opVars, fwdVars, ghosts
<1>2. broken' \in BOOLEAN /\ (broken => broken')
  <2>1. CASE LoopClosed(l)
    BY Zenon, <2>1 DEF IInv, TypeOK, LoopClosed, ghosts
  <2>2. CASE LoopFails(l)
    BY Zenon, <2>2 DEF LoopFails
  <2> QED BY Zenon, <2>1, <2>2
<1>3. /\ pending' = {} /\ fut' \in [F -> {"open", "set", "failed"}]
      /\ \A f \in F : fwd'[f] \in {"send", "wait"} => fut'[f] # "open"
  BY Zenon, <1>1, FailAllDoes
<1>4. TypeOK' /\ LoopFrame
  BY <1>1, <1>2, <1>3 DEF IInv, TypeOK, LoopFrame
<1>5. ForwardSide'
  BY ZenonT(30), <1>1, ForwardsKept DEF fwdVars
<1>6. \A m \in T \ {l} : loop'[m] = loop[m] /\ reads'[m] = reads[m]
  BY ZenonT(30), <1>1 DEF IInv, TypeOK
<1> QED
  BY ZenonT(30), <1>1, <1>3, <1>4, <1>5, <1>6, OneLoop

\* A call is served (_read_loop).
LEMMA LoopCallStep ==
  ASSUME IInv, UNCHANGED load, NEW l \in T, LoopCall(l)
  PROVE  IInv'
<1> USE BridgeAssumption
<1>1. /\ loop[l] = "recv" /\ loop' = [loop EXCEPT ![l] = "serve"]
      /\ UNCHANGED <<load, transport, readTask, ingress, pending, corr, conn, reads, nested, op,
                     then, on, fwd, id, via, fut, got, sent, overlap, broken>>
  BY ZenonT(30) DEF LoopCall, stVars, opVars, fwdVars, ghosts
<1>2. TypeOK' /\ LoopFrame
  BY <1>1 DEF IInv, TypeOK, LoopFrame
<1>3. ForwardSide'
  BY ZenonT(30), <1>1, ForwardsKept DEF fwdVars
<1>4. loop'[l] = "serve" /\ \A m \in T \ {l} : loop'[m] = loop[m] /\ reads'[m] = reads[m]
  BY SMTT(20), <1>1 DEF IInv, TypeOK
<1>5. transport = None => pending' = {}
  BY Zenon, <1>1 DEF IInv, TransportRead
<1> QED
  BY Zenon, <1>1, <1>2, <1>3, <1>4, <1>5, OneLoop DEF Alive

\* The served call returned, and its reply is out or the send raised (_read_loop).
LEMMA ServeDoneStep ==
  ASSUME IInv, UNCHANGED load, NEW l \in T, ServeDone(l)
  PROVE  IInv'
<1> USE BridgeAssumption
<1>1. /\ loop[l] = "serve" /\ nested' = [nested EXCEPT ![l] = None]
      /\ UNCHANGED <<load, transport, readTask, ingress, corr, conn, reads, op, then, on, fwd, id,
                     via, got, sent, overlap, broken>>
  BY ZenonT(30) DEF ServeDone, stVars, opVars, fwdVars, ghosts
<1>2. CASE conn[reads[l]] = "open"
  <2>1. loop' = [loop EXCEPT ![l] = "recv"] /\ UNCHANGED <<pending, fut>>
    BY ZenonT(30), <1>2 DEF ServeDone
  <2>2. TypeOK' /\ LoopFrame
    BY SMTT(20), <1>1, <2>1 DEF IInv, TypeOK, LoopFrame
  <2>3. ForwardSide'
    BY SMTT(20), <1>1, <2>1, ForwardsKept DEF fwdVars
  <2>4. loop'[l] = "recv" /\ \A m \in T \ {l} : loop'[m] = loop[m] /\ reads'[m] = reads[m]
    BY SMTT(20), <1>1, <2>1 DEF IInv, TypeOK
  <2>5. transport = None => pending' = {}
    BY Zenon, <2>1 DEF IInv, TransportRead
  <2> QED BY ZenonT(30), <1>1, <2>1, <2>2, <2>3, <2>4, <2>5, OneLoop DEF Alive
<1>3. CASE conn[reads[l]] # "open"
  <2>1. loop' = [loop EXCEPT ![l] = "ended"] /\ FailAll
    BY ZenonT(30), <1>3 DEF ServeDone, End
  <2>2. /\ pending' = {} /\ fut' \in [F -> {"open", "set", "failed"}]
        /\ \A f \in F : fwd'[f] \in {"send", "wait"} => fut'[f] # "open"
    BY Zenon, <1>1, <2>1, FailAllDoes
  <2>3. TypeOK' /\ LoopFrame
    BY SMTT(20), <1>1, <2>1, <2>2 DEF IInv, TypeOK, LoopFrame
  <2>4. ForwardSide'
    BY SMTT(20), <1>1, <2>1, ForwardsKept DEF fwdVars
  <2>5. \A m \in T \ {l} : loop'[m] = loop[m] /\ reads'[m] = reads[m]
    BY Zenon, <1>1, <2>1 DEF IInv, TypeOK
  <2> QED BY ZenonT(30), <1>1, <1>3, <2>2, <2>3, <2>4, <2>5, OneLoop
<1> QED
  BY Zenon, <1>2, <1>3

\* A reply settles the future that is pending under its id, if one is (_read_loop).
LEMMA LoopReplyStep ==
  ASSUME IInv, UNCHANGED load, NEW l \in T, NEW r \in sent, LoopReply(l, r)
  PROVE  IInv'
<1> USE BridgeAssumption
<1> DEFINE hit == {f \in F : id[f] = r[1] /\ r[1] \in pending /\ fut[f] = "open"}
<1>1. /\ loop[l] = "recv" /\ sent' = sent \ {r} /\ pending' = pending \ {r[1]}
      /\ fut' = [f \in F |-> IF f \in hit THEN "set" ELSE fut[f]]
      /\ got' = [f \in F |-> IF f \in hit THEN r[2] ELSE got[f]]
      /\ UNCHANGED <<load, transport, readTask, ingress, corr, conn, loop, reads, nested, op, then,
                     on, fwd, id, via, overlap, broken>>
  BY ZenonT(30) DEF LoopReply, stVars, loopVars, opVars, fwdVars, ghosts
<1>2. r[1] \in 1..corr /\ r[2] \in F /\ r[1] = r[2]
  BY SMTT(20) DEF IInv, TypeOK, SentOwn
<1>3. \A f \in F : f \in hit => f = r[2]
  BY SMTT(20), <1>2 DEF IInv, Numbered
<1>4. \A f \in F : fut'[f] # fut[f] => f \in hit /\ fut'[f] = "set"
  BY Zenon, <1>1 DEF IInv, TypeOK
<1>5. \A f \in F : fwd[f] \in {"send", "wait"} =>
        /\ id[f] = r[1] => fut'[f] # "open"
        /\ id[f] # r[1] => fut'[f] = fut[f]
  BY ZenonT(30), <1>1 DEF IInv, PendingIsOpen
<1>6. \A f \in F : fwd[f] = "idle" => f \notin hit
  BY <1>2 DEF IInv, TypeOK, Numbered, F
<1>7. \A f \in F : got'[f] \in {None, f} /\ got'[f] \in F \cup {None}
  BY ZenonT(30), <1>1, <1>2, <1>3 DEF IInv, TypeOK, RightReply
<1>8. TypeOK'
  <2>1. fut' \in [F -> {"open", "set", "failed"}] /\ got' \in [F -> F \cup {None}]
    BY Zenon, <1>1, <1>7 DEF IInv, TypeOK
  <2> HIDE DEF hit
  <2>2. pending' \subseteq 1..corr /\ sent' \subseteq (1..corr) \X F
    BY ZenonT(30), <1>1 DEF IInv, TypeOK
  <2> QED BY ZenonT(30), <1>1, <2>1, <2>2 DEF IInv, TypeOK
<1>9. LoopFrame
  BY Zenon, <1>1 DEF IInv, TypeOK, LoopFrame
<1>10. ForwardSide'
  <2>1. (RightReply /\ SentOwn)'
    BY Zenon, <1>1, <1>7 DEF IInv, RightReply, SentOwn
  <2> HIDE DEF hit
  <2>2. Numbered'
    BY Zenon, <1>1, <1>4, <1>6 DEF IInv, Numbered
  <2>3. PendingExact' /\ PendingIsOpen' /\ NestedStarted'
    BY ZenonT(30), <1>1, <1>5 DEF IInv, PendingExact, PendingIsOpen, NestedStarted
  <2> QED BY Zenon, <2>1, <2>2, <2>3 DEF ForwardSide
<1>11. \A f \in F : fwd'[f] \in {"send", "wait"} /\ fut'[f] = "open" => fut[f] = "open"
  BY ZenonT(30), <1>1, <1>4
<1>12. transport = None => pending' = {}
  BY ZenonT(30), <1>1 DEF IInv, TransportRead
<1> HIDE DEF hit
<1> QED
  BY ZenonT(30), <1>1, <1>8, <1>9, <1>10, <1>11, <1>12, OneLoop DEF Alive

\* The cancelled loop ends, with the call it serves and the forward that made; the
\* teardown that cancelled it still waits (_read_loop, _teardown).
LEMMA LoopCancelledStep ==
  ASSUME IInv, UNCHANGED load, NEW l \in T, LoopCancelled(l)
  PROVE  IInv'
<1> USE BridgeAssumption
<1>1. /\ loop[l] = "cancel" /\ loop' = [loop EXCEPT ![l] = "ended"]
      /\ nested' = [nested EXCEPT ![l] = None]
      /\ FailAll \/ UNCHANGED <<pending, fut>>
      /\ UNCHANGED <<load, transport, readTask, ingress, corr, conn, reads, op, then, on, id, sent,
                     overlap, broken>>
  BY Zenon DEF LoopCancelled, End, stVars, opVars, ghosts
<1>2. /\ fut' \in [F -> {"open", "set", "failed"}] /\ pending' \subseteq pending
      /\ \A f \in F : /\ fwd[f] \in {"send", "wait"} => (id[f] \in pending' <=> fut'[f] = "open")
                      /\ fwd[f] = "idle" => fut'[f] = "open"
                      /\ fwd[f] \in {"send", "wait"} /\ fut'[f] = "open" => fut[f] = "open"
  <2>1. CASE FailAll
    BY Zenon, <2>1, FailAllDoes
  <2>2. CASE UNCHANGED <<pending, fut>>
    BY Zenon, <2>2 DEF IInv, TypeOK, PendingIsOpen, Numbered
  <2> QED BY ZenonT(30), <1>1, <2>1, <2>2
<1>3. /\ fwd' \in [F -> {"idle", "send", "wait", "done", "gone"}] /\ via' \in [F -> T \cup {None}]
      /\ got' \in [F -> F \cup {None}]
      /\ \A f \in F : \/ fwd'[f] = fwd[f] /\ via'[f] = via[f] /\ got'[f] = got[f]
                      \/ fwd'[f] = "gone" /\ got'[f] = None /\ fwd[f] # "idle"
  <2>1. CASE UNCHANGED <<fwd, via, got>>
    BY Zenon, <2>1 DEF IInv, TypeOK
  <2>2. CASE nested[l] # None /\ ~Returned(nested[l]) /\ Over(nested[l], "gone")
    <3>1. PICK g \in F : g = nested[l]
      BY SMTT(20), <2>2 DEF IInv, TypeOK
    <3>2. /\ fwd' = [fwd EXCEPT ![g] = "gone"] /\ via' = [via EXCEPT ![g] = None]
          /\ got' = [got EXCEPT ![g] = None]
      BY Zenon, <2>2, <3>1 DEF Over
    <3>3. fwd[g] # "idle"
      BY Zenon, <2>2, <3>1 DEF IInv, NestedStarted
    <3> QED BY SMTT(20), <3>2, <3>3 DEF IInv, TypeOK
  <2> QED BY Zenon, <2>1, <2>2 DEF LoopCancelled
<1>4. TypeOK' /\ LoopFrame
  <2>1. /\ nested' \in [T -> F \cup {None}]
        /\ loop' \in [T -> {"none", "ready", "recv", "serve", "cancel", "ended"}]
        /\ \A m \in T : loop'[m] = "cancel" => loop[m] = "cancel"
    BY Zenon, <1>1 DEF IInv, TypeOK
  <2>2. TypeOK'
    <3>1. pending' \subseteq 1..corr
      BY Zenon, <1>2 DEF IInv, TypeOK
    <3>2. /\ load' \in Loads /\ transport' \in T \cup {None} /\ readTask' \in T \cup {None}
          /\ ingress' \in {"deny", "allow"} /\ corr' \in 0..NForwards
          /\ conn' \in [T -> {"new", "open", "dropped", "closed"}] /\ reads' \in [T -> T \cup {None}]
      BY Zenon, <1>1 DEF IInv, TypeOK
    <3>3. /\ op' \in [Op -> {"idle", "build", "down", "close"}]
          /\ then' \in [Op -> {"boot", "return"}] /\ on' \in [Op -> T \cup {None}]
          /\ id' \in [F -> 0..corr'] /\ sent' \subseteq (1..corr') \X F
          /\ overlap' \in BOOLEAN /\ broken' \in BOOLEAN
      BY Zenon, <1>1 DEF IInv, TypeOK
    <3>4. pending' \subseteq 1..corr'
      BY Zenon, <1>1, <3>1
    <3> QED BY Zenon, <1>2, <1>3, <2>1, <3>2, <3>3, <3>4 DEF TypeOK
  <2>3. LoopFrame
    BY ZenonT(30), <1>1, <2>1 DEF IInv, TypeOK, LoopFrame
  <2> QED BY Zenon, <2>2, <2>3
<1>5. ForwardSide'
  <2>1. RightReply' /\ SentOwn'
    BY Zenon, <1>1, <1>3 DEF IInv, RightReply, SentOwn
  <2>2. Numbered'
    BY Zenon, <1>1, <1>2, <1>3 DEF IInv, Numbered
  <2>3. PendingExact'
    BY Zenon, <1>1, <1>2, <1>3 DEF IInv, PendingExact
  <2>4. PendingIsOpen'
    BY Zenon, <1>1, <1>2, <1>3 DEF IInv, PendingIsOpen
  <2>5. NestedStarted'
    <3>1. \A m \in T : nested'[m] = None \/ (nested'[m] = nested[m] /\ nested[m] \in F \cup {None})
      BY Zenon, <1>1 DEF IInv, TypeOK
    <3> QED BY Zenon, <1>3, <3>1 DEF IInv, NestedStarted
  <2> QED BY Zenon, <2>1, <2>2, <2>3, <2>4, <2>5 DEF ForwardSide
<1>6. \A m \in T \ {l} : loop'[m] = loop[m] /\ reads'[m] = reads[m]
  BY Zenon, <1>1 DEF IInv, TypeOK
<1>7. transport = None => pending' = {}
  BY ZenonT(30), <1>2 DEF IInv, TransportRead
<1>8. \E o \in Op : op[o] \in {"down", "close"}
  BY ZenonT(30), <1>1 DEF IInv, CancelAwaited
<1>9. \A f \in F : fwd'[f] \in {"send", "wait"} =>
        fwd'[f] = fwd[f] /\ via'[f] = via[f] /\ (fut'[f] = "open" => fut[f] = "open")
  BY Zenon, <1>2, <1>3
<1> QED
  BY ZenonT(30), <1>1, <1>4, <1>5, <1>6, <1>7, <1>8, <1>9, OneLoop

\* The peer goes away.
LEMMA DropStep ==
  ASSUME IInv, UNCHANGED load, NEW t \in T, Drop(t)
  PROVE  IInv'
<1> USE BridgeAssumption
<1>1. /\ conn[t] = "open" /\ conn' = [conn EXCEPT ![t] = "dropped"]
      /\ UNCHANGED <<load, transport, readTask, ingress, pending, corr, loop, reads, nested, op,
                     then, on, fwd, id, via, fut, got, sent, overlap, broken>>
  BY Zenon DEF Drop, stVars, loopVars, opVars, fwdVars, ghosts
<1>2. \A u \in T : conn'[u] = conn[u] \/ (conn[u] = "open" /\ conn'[u] = "dropped")
  BY Zenon, <1>1 DEF IInv, TypeOK
<1>3. TypeOK'
  BY ZenonT(30), <1>1 DEF IInv, TypeOK
<1>4. ForwardSide'
  BY Zenon, <1>1, <1>2, ForwardsKept DEF fwdVars
<1>5. (OpenIsOwned /\ CancelAwaited /\ Alone)'
  <2>1. \A u \in T : conn'[u] = "open" => conn[u] = "open"
    BY Zenon, <1>2
  <2>2. OpenIsOwned'
    BY ZenonT(30), <1>1, <2>1 DEF IInv, OpenIsOwned
  <2>3. CancelAwaited'
    BY ZenonT(30), <1>1 DEF IInv, CancelAwaited
  <2>4. Alone'
    BY ZenonT(30), <1>1, <2>1 DEF IInv, Alone
  <2> QED BY Zenon, <2>2, <2>3, <2>4
<1>6. TransportRead'
  BY ZenonT(60), <1>1, <1>2 DEF IInv, TypeOK, TransportRead
<1>7. Ender' <=> Ender
  BY Zenon, <1>1 DEF Ender, Alive
<1>8. Heard'
  <2>1. \A f \in F : fwd[f] = "send" => via[f] \in T
    BY Zenon DEF IInv, PendingIsOpen
  <2> QED BY SMTT(20), <1>1, <1>2, <1>7, <2>1 DEF IInv, Heard
<1> QED
  BY Zenon, <1>3, <1>4, <1>5, <1>6, <1>8 DEF IInv, ForwardSide

-----------------------------------------------------------------------------
\* No step of a verb, a forward, a read loop or the peer breaks the invariant.
LEMMA NextIInv == IInv /\ [Next]_vars => IInv'
<1> SUFFICES ASSUME IInv, [Next]_vars PROVE IInv'
  BY Zenon
<1>1. CASE UNCHANGED vars
  <2>1. UNCHANGED <<load, transport, readTask, ingress, pending, corr, conn, loop, reads, nested, op,
                    then, on, fwd, id, via, fut, got, sent, overlap, broken>>
    BY Zenon, <1>1 DEF vars, stVars, loopVars, opVars, fwdVars, ghosts
  <2>2. TypeOK'
    BY Zenon, <2>1 DEF IInv, TypeOK
  <2>3. ForwardSide'
    BY ZenonT(30), <2>1, ForwardsKept DEF fwdVars
  <2>4. (OpenIsOwned /\ CancelAwaited /\ TransportRead /\ Heard /\ Alone)'
    BY ZenonT(30), <2>1 DEF IInv, OpenIsOwned, CancelAwaited, TransportRead, Heard, Ender, Alive, Alone
  <2> QED BY Zenon, <2>2, <2>3, <2>4 DEF IInv, ForwardSide
<1>2. ASSUME UNCHANGED load, NEW o \in Op,
             OpStep(o) \/ Reconnect(o) \/ on_delete(o) \/ Boot(o) \/ BootFails(o) \/ OpCancelled(o)
      PROVE  IInv'
  BY Zenon, <1>2, OpStepStep, BeginTeardown, OpEdges DEF Reconnect, on_delete
<1>3. ASSUME UNCHANGED load, NEW o \in Op, NEW t \in T,
             Booted(o, t) \/ \E r \in {ingress, Rule} : BadRule(o, t, r)
      PROVE  IInv'
  <2>1. ingress \in {"deny", "allow"} /\ Rule \in {"deny", "allow"}
    BY Zenon, BridgeAssumption DEF IInv, TypeOK
  <2> QED BY Zenon, <1>3, <2>1, BootedStep, BadRuleStep
<1>4. ASSUME UNCHANGED load, NEW f \in F, Forward(f) PROVE IInv'
  <2>1. Start(f) /\ nested' \in [T -> F \cup {None}] /\ \A l \in T : nested'[l] \in {nested[l], f}
    BY Zenon, <1>4 DEF Forward, IInv, TypeOK
  <2> QED BY Zenon, <1>4, <2>1, StartStep
<1>5. ASSUME UNCHANGED load, NEW f \in F, ForwardStep(f) \/ Timeout(f) \/ ForwardCancelled(f) PROVE IInv'
  BY Zenon, <1>5, SentStep, OverStep DEF ForwardStep
<1>6. ASSUME UNCHANGED load, NEW l \in T, LoopStep(l) \/ LoopCall(l) \/ LoopFails(l) \/ Drop(l) PROVE IInv'
  BY Zenon, <1>6, LoopStartStep, LoopEndStep, LoopCancelledStep, ServeDoneStep, LoopCallStep, DropStep
     DEF LoopStep
<1>7. ASSUME UNCHANGED load, NEW l \in T, NEW f \in F, ServedForward(l, f) PROVE IInv'
  <2>1. Start(f) /\ nested' \in [T -> F \cup {None}] /\ \A m \in T : nested'[m] \in {nested[m], f}
    BY Zenon, <1>7 DEF ServedForward, IInv, TypeOK
  <2> QED BY Zenon, <1>7, <2>1, StartStep
<1>8. ASSUME UNCHANGED load, NEW l \in T, NEW r \in sent, LoopReply(l, r) PROVE IInv'
  BY Zenon, <1>8, LoopReplyStep
<1> QED
  BY Zenon, <1>1, <1>2, <1>3, <1>4, <1>5, <1>6, <1>7, <1>8 DEF Next, Step

\* The strengthening is an invariant of a bridge with any number of verbs, forwards and
\* connections, with any ingress rule.
THEOREM BridgeInvariant == Spec => []IInv
<1> QED
  BY InitIInv, NextIInv, PTL DEF Spec

\* Each forward gets its own reply or none, what is pending is what is waited for,
\* somebody can end every wait, and an open connection is the one that the next teardown
\* closes (_forward, _read_loop, _teardown, boot).
THEOREM BridgeServesForwards == Spec => []ForwardsServed
<1>1. IInv => ForwardsServed
  BY Zenon DEF IInv, ForwardsServed, WaitIsHeard, Heard, Ender
<1> QED
  BY <1>1, BridgeInvariant, PTL
=============================================================================
