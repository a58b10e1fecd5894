---------------------------- MODULE BridgeEngine ----------------------------
(***************************************************************************)
(* One bridge agent (io_bridge/_engine.py): the connection it dials, the   *)
(* read loop that serves it, and the verbs boot, reconnect and forward,    *)
(* with the delete hook.                                                   *)
(*                                                                         *)
(* Everything runs on one event loop, so an action is what runs between    *)
(* two awaits that suspend.  These are: dialling (build_transport), a send *)
(* or close on the transport, the wait for the cancelled read loop, the    *)
(* wait for a reply, recv, and the call a read loop serves.  kernel.emit   *)
(* does not suspend.                                                       *)
(*                                                                         *)
(* The peer is not modelled: a call that was sent may be answered late,    *)
(* out of order or never, on whichever connection is being read (a relay   *)
(* routes by name, so an answer can arrive on a later connection).  A      *)
(* served call is any handler; it may forward through the same bridge.     *)
(***************************************************************************)
EXTENDS Naturals, FiniteSets

CONSTANTS
  Loads,      \* the cases to consider, records [ops, forwards, sees]: how many
              \* callers of boot, reconnect and the delete hook there are, how
              \* many forwards, and whether transport.closed tells that the
              \* peer closed
  NOps,       \* bound on the callers
  NForwards,  \* bound: forwards, numbered in the order they start
  NDials,     \* bound: connections, numbered in the order they are dialled
  Rule,       \* the ingress rule in the agent's record
  None

ASSUME BridgeAssumption ==
  /\ NForwards \in Nat \ {0} /\ NDials \in Nat \ {0} /\ NOps \in Nat \ {0}
  /\ Loads \subseteq [ops : 1..NOps, forwards : 1..NForwards, sees : BOOLEAN]
  /\ Rule \in {"deny", "allow"} /\ None \notin Nat

Op == 1..NOps
F == 1..NForwards
T == 1..NDials

VARIABLES
  load,       \* which of the cases this is
  transport,  \* st.transport
  readTask,   \* st.read_task: the read loop, named by the dial that started it
  pending,    \* st.pending: correlation ids
  corr,       \* st.corr_counter
  ingress,    \* st.ingress: "deny" or "allow"
  conn,       \* connection: "new", "open", "dropped" by the peer, "closed" by us
  loop,       \* read loop: "none", "ready", "recv", "serve", "cancel", "ended"
  reads,      \* the connection a started read loop reads
  nested,     \* the forward that the call being served waits for
  op,         \* verb: "idle", "build", "down" (awaits the loop), "close"
  then,       \* what follows the teardown: "boot" or "return"
  on,         \* the read loop a teardown waits for
  fwd,        \* forward: "idle", "send", "wait", "done", "gone" (cancelled)
  id,         \* its correlation id
  via,        \* the connection it was sent on
  fut,        \* its future: "open", "set", "failed"
  got,        \* ghost: the forward whose reply it got
  sent,       \* unanswered calls: <<correlation id, forward>>
  overlap,    \* ghost: one verb started while another was under way
  broken      \* a loop failed on an open connection, or a teardown was cut; at
              \* most once (bound)

stVars == <<transport, readTask, ingress>>
loopVars == <<loop, reads, nested>>
opVars == <<op, then, on>>
fwdVars == <<fwd, id, via>>
ghosts == <<overlap, broken>>
vars == <<load, stVars, pending, corr, conn, loopVars, opVars, fwdVars, fut, got, sent, ghosts>>

\* Every variable has its type; ids come from the counter.
TypeOK ==
  /\ load \in Loads
  /\ transport \in T \cup {None} /\ readTask \in T \cup {None}
  /\ ingress \in {"deny", "allow"}
  /\ corr \in 0..NForwards /\ pending \subseteq 1..corr
  /\ conn \in [T -> {"new", "open", "dropped", "closed"}]
  /\ loop \in [T -> {"none", "ready", "recv", "serve", "cancel", "ended"}]
  /\ reads \in [T -> T \cup {None}] /\ nested \in [T -> F \cup {None}]
  /\ op \in [Op -> {"idle", "build", "down", "close"}]
  /\ then \in [Op -> {"boot", "return"}] /\ on \in [Op -> T \cup {None}]
  /\ fwd \in [F -> {"idle", "send", "wait", "done", "gone"}]
  /\ id \in [F -> 0..corr] /\ via \in [F -> T \cup {None}]
  /\ fut \in [F -> {"open", "set", "failed"}] /\ got \in [F -> F \cup {None}]
  /\ sent \subseteq (1..corr) \X F
  /\ overlap \in BOOLEAN /\ broken \in BOOLEAN

Init ==
  /\ load \in Loads
  /\ transport = None /\ readTask = None /\ ingress = "deny"
  /\ corr = 0 /\ pending = {} /\ sent = {}
  /\ conn = [t \in T |-> "new"]
  /\ loop = [t \in T |-> "none"] /\ reads = [t \in T |-> None] /\ nested = [t \in T |-> None]
  /\ op = [o \in Op |-> "idle"] /\ then = [o \in Op |-> "return"] /\ on = [o \in Op |-> None]
  /\ fwd = [f \in F |-> "idle"] /\ id = [f \in F |-> 0] /\ via = [f \in F |-> None]
  /\ fut = [f \in F |-> "open"] /\ got = [f \in F |-> None]
  /\ overlap = FALSE /\ broken = FALSE

-----------------------------------------------------------------------------
\* transport.closed
Closed(t) == conn[t] = "closed" \/ (load.sees /\ conn[t] = "dropped")

Connected == transport # None /\ ~Closed(transport)

\* not read_task.done()
Alive(l) == loop[l] \in {"ready", "recv", "serve", "cancel"}

Returned(f) == fwd[f] \in {"done", "gone"}

\* Every pending future fails and is forgotten.
FailAll ==
  /\ pending' = {}
  /\ fut' = [f \in F |-> IF id[f] \in pending /\ fut[f] = "open" THEN "failed" ELSE fut[f]]

-----------------------------------------------------------------------------
\* The teardown and boot.

Begin(o) ==
  /\ o <= load.ops /\ op[o] = "idle"
  /\ overlap' = (overlap \/ \E p \in Op : op[p] # "idle")

\* await st.transport.close()
Close(o, t) ==
  /\ op' = [op EXCEPT ![o] = "close"]
  /\ conn' = [conn EXCEPT ![t] = "closed"]

\* The tail of a teardown; reconnect goes on with boot.
Finish(o, next) ==
  /\ FailAll
  /\ transport' = None /\ readTask' = None /\ ingress' = "deny"
  /\ op' = [op EXCEPT ![o] = IF next = "boot" THEN "build" ELSE "idle"]
  /\ then' = [then EXCEPT ![o] = "return"] /\ on' = [on EXCEPT ![o] = None]
  /\ UNCHANGED <<conn, loop>>

\* From the loop's end on, with connection t in the state.
AfterLoop(o, t, rule, next) ==
  \/ t = None /\ Finish(o, next)
  \/ /\ t # None /\ Close(o, t)
     /\ transport' = t /\ ingress' = rule
     /\ then' = [then EXCEPT ![o] = next] /\ on' = [on EXCEPT ![o] = None]
     /\ UNCHANGED <<readTask, pending, fut, loop>>

\* A read loop that is not done is cancelled and waited for; a connection that was just
\* dialled stays open that long.
Teardown(o, t, rule, next) ==
  /\ IF readTask # None /\ Alive(readTask)
     THEN /\ loop' = [loop EXCEPT ![readTask] = "cancel"]
          /\ op' = [op EXCEPT ![o] = "down"] /\ on' = [on EXCEPT ![o] = readTask]
          /\ then' = [then EXCEPT ![o] = next]
          /\ transport' = t /\ ingress' = rule
          /\ conn' = [u \in T |-> IF u = t /\ conn[u] = "new" THEN "open" ELSE conn[u]]
          /\ UNCHANGED <<readTask, pending, fut>>
     ELSE AfterLoop(o, t, rule, next)
  /\ UNCHANGED <<corr, reads, nested, fwdVars, got, sent, broken>>

Reconnect(o) == Begin(o) /\ Teardown(o, transport, ingress, "boot")

on_delete(o) == Begin(o) /\ Teardown(o, transport, ingress, "return")

\* The cancelled loop has ended.
LoopAwaited(o) ==
  /\ op[o] = "down" /\ loop[on[o]] = "ended"
  /\ AfterLoop(o, transport, ingress, then[o])
  /\ UNCHANGED <<corr, reads, nested, fwdVars, got, sent, ghosts>>

CloseDone(o) ==
  /\ op[o] = "close"
  /\ Finish(o, then[o])
  /\ UNCHANGED <<corr, reads, nested, fwdVars, got, sent, ghosts>>

\* A connected bridge answers "already".  A new read loop is already queued to
\* run, so no dial that starts now ends before it does.
Boot(o) ==
  /\ Begin(o)
  /\ ~Connected /\ \A l \in T : loop[l] # "ready"
  /\ op' = [op EXCEPT ![o] = "build"]
  /\ UNCHANGED <<stVars, pending, corr, conn, loopVars, then, on, fwdVars, fut, got, sent, broken>>

BootFails(o) ==
  /\ op[o] = "build"
  /\ op' = [op EXCEPT ![o] = "idle"]
  /\ UNCHANGED <<stVars, pending, corr, conn, loopVars, then, on, fwdVars, fut, got, sent, ghosts>>

\* The dial t succeeds: the connection and the record's rule are installed and
\* a read loop is created.
Booted(o, t) ==
  /\ op[o] = "build"
  /\ conn[t] = "new" /\ \A u \in 1..(t - 1) : conn[u] # "new"
  /\ op' = [op EXCEPT ![o] = "idle"]
  /\ conn' = [conn EXCEPT ![t] = "open"]
  /\ transport' = t /\ ingress' = Rule /\ readTask' = t
  /\ loop' = [loop EXCEPT ![t] = "ready"]
  /\ UNCHANGED <<pending, corr, reads, nested, then, on, fwdVars, fut, got, sent, ghosts>>

\* The dial t succeeds and the record names a bad rule: the teardown runs with
\* the new connection in the state (the ingress rule may already be replaced).
BadRule(o, t, rule) ==
  /\ op[o] = "build"
  /\ conn[t] = "new" /\ \A u \in 1..(t - 1) : conn[u] # "new"
  /\ Teardown(o, t, rule, "return")
  /\ UNCHANGED overlap

\* The caller of a verb goes away while the connection closes.  Waiting for the
\* loop, the teardown swallows the cancellation; while dialling, it is a failed
\* boot.
OpCancelled(o) ==
  /\ op[o] = "close" /\ ~broken
  /\ op' = [op EXCEPT ![o] = "idle"]
  /\ then' = [then EXCEPT ![o] = "return"]
  /\ broken' = TRUE
  /\ UNCHANGED <<stVars, pending, corr, conn, loopVars, on, fwdVars, fut, got, sent, overlap>>

-----------------------------------------------------------------------------
\* Forwards.

\* A forward is over; what it held is forgotten.
Over(f, how) ==
  /\ fwd' = [fwd EXCEPT ![f] = how]
  /\ via' = [via EXCEPT ![f] = None]
  /\ got' = [got EXCEPT ![f] = None]

\* Mutant: ids are handed out by the number of pending calls.
NextCorrPending == Cardinality(pending) + 1

NextCorr == corr + 1

\* An unconnected bridge answers an error at once.
Start(f) ==
  /\ f <= load.forwards /\ fwd[f] = "idle" /\ \A g \in 1..(f - 1) : fwd[g] # "idle"
  /\ Connected
  /\ corr' = NextCorr
  /\ pending' = pending \cup {corr'}
  /\ fwd' = [fwd EXCEPT ![f] = "send"]
  /\ id' = [id EXCEPT ![f] = corr'] /\ via' = [via EXCEPT ![f] = transport]
  /\ UNCHANGED <<stVars, conn, loop, reads, opVars, fut, got, sent, ghosts>>

Forward(f) == Start(f) /\ UNCHANGED nested

\* The frame is out, or the send raised ConnectionClosed.
Sent(f) ==
  /\ fwd[f] = "send"
  /\ \/ /\ conn[via[f]] = "open"
        /\ fwd' = [fwd EXCEPT ![f] = "wait"]
        /\ sent' = sent \cup {<<id[f], f>>}
        /\ UNCHANGED <<via, got, pending, fut>>
     \/ /\ conn[via[f]] # "open"
        /\ Over(f, "done")
        /\ pending' = pending \ {id[f]}
        /\ fut' = [fut EXCEPT ![f] = "set"]
        /\ UNCHANGED sent
  /\ UNCHANGED <<stVars, corr, conn, loopVars, opVars, id, ghosts>>

Return(f) ==
  /\ fwd[f] = "wait" /\ fut[f] # "open"
  /\ Over(f, "done")
  /\ fut' = [fut EXCEPT ![f] = "set"]
  /\ UNCHANGED <<stVars, pending, corr, conn, loopVars, opVars, id, sent, ghosts>>

\* st.pending.pop(corr, None)
Unpend(f) == pending' = pending \ {id[f]}

Timeout(f) ==
  /\ fwd[f] = "wait" /\ fut[f] = "open"
  /\ Over(f, "done")
  /\ Unpend(f)
  /\ fut' = [fut EXCEPT ![f] = "set"]
  /\ UNCHANGED <<stVars, corr, conn, loopVars, opVars, id, sent, ghosts>>

\* The caller goes away; the entry stays behind.
ForwardCancelled(f) ==
  /\ fwd[f] \in {"send", "wait"} /\ \A l \in T : nested[l] # f
  /\ Over(f, "gone")
  /\ fut' = [fut EXCEPT ![f] = "set"]
  /\ UNCHANGED <<stVars, pending, corr, conn, loopVars, opVars, id, sent, ghosts>>

-----------------------------------------------------------------------------
\* Read loops.

\* A loop reads the connection that is in the state when it first runs; with
\* none there, the assertion ends it.
LoopStart(l) ==
  /\ loop[l] = "ready"
  /\ reads' = [reads EXCEPT ![l] = transport]
  /\ loop' = [loop EXCEPT ![l] = IF transport = None THEN "ended" ELSE "recv"]
  /\ UNCHANGED <<stVars, pending, corr, conn, nested, opVars, fwdVars, fut, got, sent, ghosts>>

\* A reply or an error frame for call r.
LoopReply(l, r) ==
  /\ loop[l] = "recv" /\ conn[reads[l]] = "open"
  /\ sent' = sent \ {r}
  /\ pending' = pending \ {r[1]}
  /\ LET hit == {f \in F : id[f] = r[1] /\ r[1] \in pending /\ fut[f] = "open"}
     IN /\ fut' = [f \in F |-> IF f \in hit THEN "set" ELSE fut[f]]
        /\ got' = [f \in F |-> IF f \in hit THEN r[2] ELSE got[f]]
  /\ UNCHANGED <<stVars, corr, conn, loopVars, opVars, fwdVars, ghosts>>

\* An inbound call that the rule allows; a denial is answered at once.
LoopCall(l) ==
  /\ loop[l] = "recv" /\ conn[reads[l]] = "open"
  /\ ingress = "allow"
  /\ loop' = [loop EXCEPT ![l] = "serve"]
  /\ UNCHANGED <<stVars, pending, corr, conn, reads, nested, opVars, fwdVars, fut, got, sent, ghosts>>

\* The served call forwards through this bridge.
ServedForward(l, f) ==
  /\ loop[l] = "serve" /\ nested[l] = None
  /\ Start(f)
  /\ nested' = [nested EXCEPT ![l] = f]

\* Mutant: the loop ends without failing what is pending.
EndQuiet(l) ==
  /\ loop' = [loop EXCEPT ![l] = "ended"]
  /\ UNCHANGED <<pending, fut>>

\* The loop's `finally`.
End(l) ==
  /\ loop' = [loop EXCEPT ![l] = "ended"]
  /\ FailAll

\* The served call returned; its reply is sent, or the send raises.
ServeDone(l) ==
  /\ loop[l] = "serve" /\ (nested[l] # None => Returned(nested[l]))
  /\ nested' = [nested EXCEPT ![l] = None]
  /\ \/ /\ conn[reads[l]] = "open"
        /\ loop' = [loop EXCEPT ![l] = "recv"]
        /\ UNCHANGED <<pending, fut>>
     \/ conn[reads[l]] # "open" /\ End(l)
  /\ UNCHANGED <<stVars, corr, conn, reads, opVars, fwdVars, got, sent, ghosts>>

\* recv raises ConnectionClosed.
LoopClosed(l) ==
  /\ loop[l] = "recv" /\ conn[reads[l]] # "open"
  /\ End(l)
  /\ UNCHANGED <<stVars, corr, conn, reads, nested, opVars, fwdVars, got, sent, ghosts>>

\* recv raises something else: a frame that does not decode, or another loop
\* reading the same connection.
LoopFails(l) ==
  /\ loop[l] = "recv" /\ conn[reads[l]] = "open"
  /\ ~broken /\ End(l)
  /\ broken' = TRUE
  /\ UNCHANGED <<stVars, corr, conn, reads, nested, opVars, fwdVars, got, sent, overlap>>

\* The cancelled loop ends, and with it the call it serves; a loop that never
\* ran has no `finally` to run.
LoopCancelled(l) ==
  /\ loop[l] = "cancel"
  /\ IF reads[l] = None THEN loop' = [loop EXCEPT ![l] = "ended"] /\ UNCHANGED <<pending, fut>>
                        ELSE End(l)
  /\ nested' = [nested EXCEPT ![l] = None]
  /\ IF nested[l] # None /\ ~Returned(nested[l])
     THEN Over(nested[l], "gone") ELSE UNCHANGED <<fwd, via, got>>
  /\ UNCHANGED <<stVars, corr, conn, reads, opVars, id, sent, ghosts>>

\* The peer goes away, and this side learns of it.
Drop(t) ==
  /\ conn[t] = "open"
  /\ conn' = [conn EXCEPT ![t] = "dropped"]
  /\ UNCHANGED <<stVars, pending, corr, loopVars, opVars, fwdVars, fut, got, sent, ghosts>>

-----------------------------------------------------------------------------
OpStep(o) == LoopAwaited(o) \/ CloseDone(o)

ForwardStep(f) == Sent(f) \/ Return(f)

ServedTimeout(f) == Timeout(f) /\ \E l \in T : nested[l] = f

LoopStep(l) == LoopStart(l) \/ LoopClosed(l) \/ LoopCancelled(l) \/ ServeDone(l)

Step ==
  \/ \E o \in Op : OpStep(o) \/ Reconnect(o) \/ on_delete(o) \/ Boot(o) \/ BootFails(o) \/ OpCancelled(o)
  \/ \E o \in Op, t \in T : Booted(o, t) \/ \E r \in {ingress, Rule} : BadRule(o, t, r)
  \/ \E f \in F : Forward(f) \/ ForwardStep(f) \/ Timeout(f) \/ ForwardCancelled(f)
  \/ \E l \in T : LoopStep(l) \/ LoopCall(l) \/ LoopFails(l) \/ Drop(l) \/ \E f \in F : ServedForward(l, f)
  \/ \E l \in T, r \in sent : LoopReply(l, r)

Next == Step /\ UNCHANGED load

\* Coroutines that can go on do.  The only time limit assumed to expire is that
\* of a forward made by a served call.
Fairness ==
  /\ \A o \in Op : WF_vars(OpStep(o) /\ UNCHANGED load)
  /\ \A l \in T : WF_vars(LoopStep(l) /\ UNCHANGED load)
  /\ \A f \in F : /\ WF_vars(ForwardStep(f) /\ UNCHANGED load)
                  /\ WF_vars(ServedTimeout(f) /\ UNCHANGED load)

Spec == Init /\ [][Next]_vars /\ Fairness

-----------------------------------------------------------------------------
\* A forward returns the reply to its own call, however late replies come, time
\* limits expire and connections are replaced (_next_corr, the reply frame).
RightReply == \A f \in F : got[f] \in {None, f}

\* What is pending is what is waited for: a future that is still open can be
\* failed or answered, and a forward that returned left nothing behind
\* (_forward, _read_loop, _teardown).
PendingExact ==
  \A f \in F : /\ fwd[f] \in {"send", "wait"} /\ fut[f] = "open" => id[f] \in pending
               /\ fwd[f] = "done" => id[f] \notin pending

\* A forward waits only while somebody can end the wait: a read loop runs, or a
\* teardown that will fail it is under way, unless a loop failed on an open
\* connection or a teardown was cut short (the `finally` of _read_loop, and
\* _teardown), also when verbs overlap.
WaitIsHeard ==
  (\E f \in F : fwd[f] = "wait" /\ fut[f] = "open") =>
     broken \/ (\E l \in T : Alive(l)) \/ (\E o \in Op : op[o] \in {"down", "close"})

\* A connection that is open is the one the state names, so that the next
\* teardown closes it, unless verbs overlapped (the check of boot, _teardown).
OpenIsOwned == overlap \/ \A t \in T : conn[t] = "open" => transport = t

\* Forwards are served: each gets its own reply or none, what is pending is what is
\* waited for, somebody can end every wait, and an open connection is the one the next
\* teardown closes (_forward, _read_loop, _teardown, boot).
ForwardsServed == TypeOK /\ RightReply /\ PendingExact /\ WaitIsHeard /\ OpenIsOwned

\* Losing its connection ends a forward without its own time limit, unless a
\* loop failed, a teardown was cut short or verbs overlapped (_read_loop).
DropReleases ==
  \A f \in F : (fwd[f] = "wait" /\ conn[via[f]] # "open") ~> (Returned(f) \/ broken \/ overlap)
=============================================================================
