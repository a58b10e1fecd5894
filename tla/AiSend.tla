------------------------------- MODULE AiSend -------------------------------
(***************************************************************************)
(* The `send` verb of the AI backends (ai_core/core.py): a lock per        *)
(* backend, the queue that `status` shows, the generation task behind a    *)
(* shield, tool calls that may be sends to other backends, time limit,     *)
(* `interrupt` and cancellation.                                           *)
(*                                                                         *)
(* A call is one `send`.  Its generation (`_run`) is a task of its own     *)
(* that only `interrupt` and the time limit cancel: cancelling the caller  *)
(* ends the call and not the task.  A task that waits for tool calls hands *)
(* its cancellation to them (asyncio.gather).                              *)
(***************************************************************************)
EXTENDS Integers, Sequences, FiniteSets

CONSTANTS Backend, None,
          Call,          \* sends, numbered in the order they are made
          MaxCallDepth,  \* MAX_CALL_DEPTH
          Disconnects    \* may the coroutine of a call be cancelled from outside?

ASSUME AiConstants ==
  /\ None \notin Backend \cup Call /\ Call \subseteq Nat
  /\ MaxCallDepth \in Nat \ {0} /\ Disconnects \in BOOLEAN

VARIABLES
  pc,       \* the call: "new", "wait" (for the lock), "run", "done"
  at,       \* the backend it was sent to
  by,       \* the call whose generation made it, or None
  chain,    \* the backends in its _call_stack
  task,     \* its generation: "none", "gen", "tool", "cancel", "ended"
  holder,   \* who holds the backend's lock
  waiters,  \* who waits for it, first come first
  queue,    \* _queue, as a set
  current,  \* _current
  tasks,    \* _tasks: whose generation `interrupt` cancels
  turn,     \* the generation that is starting a batch of tool calls, or None
  cut       \* ghost: calls cancelled behind their shield whose task goes on

callVars == <<at, by, chain>>
lockVars == <<holder, current, tasks>>
vars == <<pc, callVars, task, lockVars, waiters, queue, turn, cut>>

TypeOK ==
  /\ pc \in [Call -> {"new", "wait", "run", "done"}]
  /\ at \in [Call -> Backend \cup {None}] /\ by \in [Call -> Call \cup {None}]
  /\ chain \in [Call -> SUBSET Backend]
  /\ task \in [Call -> {"none", "gen", "tool", "cancel", "ended"}]
  /\ holder \in [Backend -> Call \cup {None}]
  /\ \A b \in Backend : waiters[b] \in Seq({c \in Call : pc[c] = "wait"})
  /\ queue \in [Backend -> SUBSET Call]
  /\ current \in [Backend -> Call \cup {None}] /\ tasks \in [Backend -> Call \cup {None}]
  /\ turn \in Call \cup {None} /\ cut \subseteq Call

Init ==
  /\ pc = [c \in Call |-> "new"]
  /\ at = [c \in Call |-> None] /\ by = [c \in Call |-> None]
  /\ chain = [c \in Call |-> {}]
  /\ task = [c \in Call |-> "none"]
  /\ holder = [b \in Backend |-> None] /\ waiters = [b \in Backend |-> <<>>]
  /\ queue = [b \in Backend |-> {}]
  /\ current = [b \in Backend |-> None] /\ tasks = [b \in Backend |-> None]
  /\ turn = None /\ cut = {}

-----------------------------------------------------------------------------
Live(c) == task[c] \in {"gen", "tool", "cancel"}

\* The calls a generation made that have not come back.
Kids(c) == {k \in Call : by[k] = c /\ pc[k] \in {"wait", "run"}}

\* The call has the lock: _set_current, and _tasks once the task is made.
Hold(c, b) ==
  /\ holder' = [holder EXCEPT ![b] = c]
  /\ current' = [current EXCEPT ![b] = c]
  /\ tasks' = [tasks EXCEPT ![b] = c]

\* The recursion guard, before the lock.
Refused(b, st) == b \in st \/ Cardinality(st) >= MaxCallDepth

\* _send, on behalf of the generation p, up to the first suspension: refused,
\* waiting for the lock or, if that is free, generating.
Send(c, b, p) ==
  LET st == IF p = None THEN {} ELSE chain[p] \cup {at[p]} IN
  /\ pc[c] = "new" /\ \A d \in Call : d < c => pc[d] # "new"
  /\ at' = [at EXCEPT ![c] = b]
  /\ by' = [by EXCEPT ![c] = p]
  /\ chain' = [chain EXCEPT ![c] = st]
  /\ \/ /\ Refused(b, st)
        /\ pc' = [pc EXCEPT ![c] = "done"]
        /\ UNCHANGED <<lockVars, waiters, queue>>
     \/ /\ ~Refused(b, st) /\ holder[b] = None /\ waiters[b] = <<>>
        /\ pc' = [pc EXCEPT ![c] = "run"]
        /\ Hold(c, b)
        /\ UNCHANGED <<waiters, queue>>
     \/ /\ ~Refused(b, st) /\ (holder[b] # None \/ waiters[b] # <<>>)
        /\ pc' = [pc EXCEPT ![c] = "wait"]
        /\ waiters' = [waiters EXCEPT ![b] = Append(@, c)]
        /\ queue' = [queue EXCEPT ![b] = @ \cup {c}]
        /\ UNCHANGED lockVars

Begun(c) == IF pc'[c] = "run" THEN "gen" ELSE "none"

UserSend(c, b) ==
  /\ turn = None
  /\ Send(c, b, None)
  /\ task' = [task EXCEPT ![c] = Begun(c)]
  /\ UNCHANGED <<turn, cut>>

\* _run comes to tool calls that are sends to backends; asyncio.gather starts
\* all of a batch before anything else runs.
ToolSend(p, c, b) ==
  /\ (turn = None /\ task[p] = "gen") \/ turn = p
  /\ Send(c, b, p)
  /\ task' = [task EXCEPT ![p] = "tool", ![c] = Begun(c)]
  /\ turn' \in {None} \cup (IF \E k \in Call \ {c} : pc[k] = "new" THEN {p} ELSE {})
  /\ UNCHANGED cut

\* asyncio.gather is through.
ToolsDone(p) ==
  /\ turn = None
  /\ task[p] = "tool" /\ Kids(p) = {}
  /\ task' = [task EXCEPT ![p] = "gen"]
  /\ UNCHANGED <<pc, callVars, lockVars, waiters, queue, turn, cut>>

\* async with lock: _dequeue_send, _set_current, create_task.
Acquire(c) ==
  /\ turn = None
  /\ pc[c] = "wait" /\ holder[at[c]] = None /\ Head(waiters[at[c]]) = c
  /\ pc' = [pc EXCEPT ![c] = "run"]
  /\ waiters' = [waiters EXCEPT ![at[c]] = Tail(@)]
  /\ queue' = [queue EXCEPT ![at[c]] = @ \ {c}]
  /\ Hold(c, at[c])
  /\ task' = [task EXCEPT ![c] = "gen"]
  /\ UNCHANGED <<callVars, turn, cut>>

\* Mutant: the lock is kept.
LeaveLocked(c) ==
  /\ pc' = [pc EXCEPT ![c] = "done"]
  /\ current' = [current EXCEPT ![at[c]] = None]
  /\ tasks' = [tasks EXCEPT ![at[c]] = None]
  /\ UNCHANGED holder

\* The call returns: `finally`, and the lock is released.
Leave(c) ==
  /\ pc' = [pc EXCEPT ![c] = "done"]
  /\ holder' = [holder EXCEPT ![at[c]] = None]
  /\ current' = [current EXCEPT ![at[c]] = None]
  /\ tasks' = [tasks EXCEPT ![at[c]] = None]

\* _run returns or raises, or it was cancelled and its tool calls are back; if
\* the call still waits for it, the call returns too.
TaskEnd(c) ==
  /\ turn = None
  /\ task[c] = "gen" \/ (task[c] = "cancel" /\ Kids(c) = {})
  /\ task' = [task EXCEPT ![c] = "ended"]
  /\ IF pc[c] = "run" THEN Leave(c) ELSE UNCHANGED <<pc, lockVars>>
  /\ cut' = cut \ {c}
  /\ UNCHANGED <<callVars, waiters, queue, turn>>

\* Mutant: the time limit leaves the task alone.
CancelNothing(c) == UNCHANGED task

\* task.cancel()
CancelTask(c) == task' = [task EXCEPT ![c] = IF Live(c) THEN "cancel" ELSE @]

\* The time limit: the task is cancelled and not waited for.
Timeout(c) ==
  /\ turn = None
  /\ pc[c] = "run"
  /\ CancelTask(c)
  /\ Leave(c)
  /\ UNCHANGED <<callVars, waiters, queue, turn, cut>>

\* The `interrupt` verb.
Interrupt(b) ==
  /\ turn = None
  /\ tasks[b] # None /\ task[tasks[b]] \in {"gen", "tool"}
  /\ CancelTask(tasks[b])
  /\ UNCHANGED <<pc, callVars, lockVars, waiters, queue, turn, cut>>

\* s without its k-th element.
RemoveAt(s, k) == SubSeq(s, 1, k - 1) \o SubSeq(s, k + 1, Len(s))

\* The lock's own queue of waiters forgets a cancelled one.
DropWaiter(c) ==
  \E i \in DOMAIN waiters[at[c]] :
    waiters[at[c]][i] = c /\ waiters' = [waiters EXCEPT ![at[c]] = RemoveAt(@, i)]

\* CancelledError in the call itself.  Waiting for the lock it just ends, and
\* its queue entry stays; behind the shield the task goes on.
Cancelled(c) ==
  /\ turn = None
  /\ \/ /\ pc[c] = "wait"
        /\ pc' = [pc EXCEPT ![c] = "done"]
        /\ DropWaiter(c)
        /\ UNCHANGED <<lockVars, cut>>
     \/ /\ pc[c] = "run"
        /\ Leave(c)
        /\ cut' = cut \cup {c}
        /\ UNCHANGED waiters
  /\ UNCHANGED <<callVars, task, queue, turn>>

\* A cancelled generation hands its cancellation to its tool calls.
KidCancelled(c) == by[c] # None /\ task[by[c]] = "cancel" /\ Cancelled(c)

\* The client goes away (web_ws cancels its calls).
Disconnect(c) == Disconnects /\ by[c] = None /\ Cancelled(c)

-----------------------------------------------------------------------------
Step(c) == Acquire(c) \/ ToolsDone(c) \/ KidCancelled(c) \/ (task[c] = "cancel" /\ TaskEnd(c))

Next ==
  \/ \E c \in Call : Step(c) \/ TaskEnd(c) \/ Timeout(c) \/ Disconnect(c)
  \/ \E c \in Call, b \in Backend : UserSend(c, b) \/ \E p \in Call : ToolSend(p, c, b)
  \/ \E b \in Backend : Interrupt(b)

\* Coroutines that can go on do, and the time limit of a call expires; a batch
\* of tool calls is started to its end.  A generation need not stop by itself.
Fairness ==
  /\ \A c \in Call : WF_vars(Step(c)) /\ WF_vars(Timeout(c))
  /\ WF_vars(turn # None /\ \E p, c \in Call, b \in Backend : ToolSend(p, c, b))

Spec == Init /\ [][Next]_vars /\ Fairness

-----------------------------------------------------------------------------
\* The calls whose generations led to c: those in every set that holds its caller and
\* the caller of each of its own.
Above(c) ==
  {d \in Call : \A S \in SUBSET Call :
     (({by[c]} \cup {by[e] : e \in S}) \ {None} \subseteq S) => d \in S}

\* What `status` and `interrupt` act on is the call that holds the lock: no
\* order of returns, time limits and cancellations makes one call clear or keep
\* the entries of another (_set_current, the `finally` of _send).
StatusIsHolder == \A b \in Backend : current[b] = holder[b] /\ tasks[b] = holder[b]

\* A generation that is not cancelled is the lock holder's, or its caller was
\* cancelled behind the shield: returns, errors, interrupts and time limits
\* never leave one going on without the lock (_send, _interrupt).
OneSupervised == \A c \in Call : task[c] \in {"gen", "tool"} => holder[at[c]] = c \/ c \in cut

\* The comment on the recursion guard says that a cycle can never deadlock on
\* the lock: no call waits for a lock that a call of its own chain holds, also
\* after calls in between were cancelled.
NoSelfWait == \A c \in Call : pc[c] = "wait" => holder[at[c]] \notin Above(c)

\* The lock and its bookkeeping hold together: the call that `status` and `interrupt`
\* act on is the one with the lock, nothing generates without it unless a caller was
\* cancelled behind the shield, and no chain waits for itself (core.py:996, :1050-1090,
\* :1122).
Supervised == TypeOK /\ StatusIsHolder /\ OneSupervised /\ NoSelfWait

\* Whatever waits for whatever, two backends that call each other included,
\* every send returns: the time limit takes a call out of any wait, and the lock
\* goes on to the next one (wait_for, async with lock).
EveryReturns == \A c \in Call : pc[c] \in {"wait", "run"} ~> pc[c] = "done"

\* What reflect says under "concurrency": one generation at a time per backend.
OneGeneration ==
  \A c, d \in Call : (task[c] = "gen" /\ task[d] = "gen" /\ at[c] = at[d]) => c = d

\* What the comment on _queue says: its entries wait for the lock.
QueueWaits == \A b \in Backend : \A c \in queue[b] : pc[c] = "wait"
=============================================================================
