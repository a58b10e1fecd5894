----------------------------- MODULE AgentTree -----------------------------
(***************************************************************************)
(* The in-memory agent tree of one kernel process: `Agent` and the         *)
(* `Kernel` registry (kernel/_agent.py, kernel/_kernel.py).                *)
(*                                                                         *)
(* Every agent is held twice: in the flat registry `ctx.agents` (by id)    *)
(* and in its parent's `_children` (by id).  Creation is one synchronous   *)
(* step.  Deletion is a coroutine: `_cascade_delete` walks the subtree and *)
(* awaits each bundle's `on_delete`, so other coroutines run in between.   *)
(*                                                                         *)
(* An activation of `_cascade_delete` on agent o was called from the one   *)
(* on o's parent, so the call stack of a deleting task is the chain of     *)
(* parents from `top` up to `base`, and needs no sequence.                 *)
(***************************************************************************)
EXTENDS Integers

CONSTANTS Obj,       \* Agent instances
          Root,      \* the instance that is ctx.root
          Id,        \* agent ids
          RootId,
          Alias,     \* values of the `alias` meta
          Task,      \* coroutines that call delete
          None,
          LockVals,  \* values of the `delete_lock` meta
          ReuseIds   \* may a caller pass an id that was used before?

ASSUME TreeConstants ==
  /\ Root \in Obj /\ RootId \in Id
  /\ None \notin Obj /\ None \notin Id /\ None \notin Alias /\ None \notin Task
  /\ LockVals \in SUBSET BOOLEAN
  /\ ReuseIds \in BOOLEAN

VARIABLES
  agents,      \* ctx.agents
  wellKnown,   \* ctx.well_known
  inboxes,     \* keys of ctx.inboxes
  idOf,        \* Agent.id; None for an instance not constructed yet
  parent,      \* Agent.parent
  children,    \* Agent._children
  depth,       \* length of Agent._root_path, fixed when the agent is constructed
  aliasOf,     \* Agent._meta["alias"]
  deleteLock,  \* Agent._meta["delete_lock"]
  pc,          \* where each deleting task is
  base,        \* the agent its delete was called on
  top,         \* the agent whose _cascade_delete activation is innermost
  stack,       \* all agents with an activation
  todo,        \* child ids each activation has still to visit
  result,      \* what the task's last delete returned
  loop,        \* the task that runs until its next suspension, or None
  hooked,      \* ghost: agents whose on_delete was invoked
  doomed,      \* ghost: the subtree a delete was called on, at the call
  late         \* ghost: agents created under a dying parent, and their offspring

treeVars == <<agents, wellKnown, inboxes, idOf, parent, children, depth,
              aliasOf, deleteLock>>
taskVars == <<pc, base, top, stack, todo, result, loop, hooked, doomed>>
vars == <<treeVars, taskVars, late>>

TreeTypeOK ==
  /\ agents \in [Id -> Obj \cup {None}]
  /\ wellKnown \in [Alias -> Id \cup {None}]
  /\ inboxes \in SUBSET Id
  /\ idOf \in [Obj -> Id \cup {None}]
  /\ parent \in [Obj -> Obj \cup {None}]
  /\ children \in [Obj -> [Id -> Obj \cup {None}]]
  /\ depth \in [Obj -> Nat]
  /\ aliasOf \in [Obj -> Alias \cup {None}]
  /\ deleteLock \in [Obj -> BOOLEAN]

TaskTypeOK ==
  /\ pc \in [Task -> {"idle", "walk", "hook"}]
  /\ base \in [Task -> Obj \cup {None}]
  /\ top \in [Task -> Obj \cup {None}]
  /\ stack \in [Task -> SUBSET Obj]
  /\ todo \in [Task -> [Obj -> SUBSET Id]]
  /\ result \in [Task -> {"none", "deleted", "locked", "raised", "cancelled"}]
  /\ loop \in Task \cup {None}
  /\ hooked \in SUBSET Obj
  /\ doomed \in [Task -> SUBSET Obj]
  /\ late \in SUBSET Obj

TypeOK == TreeTypeOK /\ TaskTypeOK

-----------------------------------------------------------------------------
Registered(o) == idOf[o] # None /\ agents[idOf[o]] = o
Linked(o)     == /\ idOf[o] # None /\ parent[o] # None
                 /\ children[parent[o]][idOf[o]] = o
ChildrenOf(o) == {children[o][i] : i \in {j \in Id : children[o][j] # None}}

\* Agents reached by following _children, o included: the least set that holds
\* o and is closed under ChildrenOf.
Subtree(o) ==
  {c \in Obj : \A S \in SUBSET Obj :
      (o \in S /\ \A p \in S : ChildrenOf(p) \subseteq S) => c \in S}

\* An activation of _cascade_delete on p exists, or p has been removed.
Dying(p) == ~Registered(p) \/ \E t \in Task : p \in stack[t]

Init ==
  /\ agents = [i \in Id |-> IF i = RootId THEN Root ELSE None]
  /\ wellKnown = [a \in Alias |-> None]
  /\ inboxes = {RootId}
  /\ idOf = [o \in Obj |-> IF o = Root THEN RootId ELSE None]
  /\ parent = [o \in Obj |-> None]
  /\ children = [o \in Obj |-> [i \in Id |-> None]]
  /\ depth = [o \in Obj |-> 0]
  /\ aliasOf = [o \in Obj |-> None]
  /\ deleteLock = [o \in Obj |-> FALSE]
  /\ pc = [t \in Task |-> "idle"]
  /\ base = [t \in Task |-> None]
  /\ top = [t \in Task |-> None]
  /\ stack = [t \in Task |-> {}]
  /\ todo = [t \in Task |-> [o \in Obj |-> {}]]
  /\ result = [t \in Task |-> "none"]
  /\ loop = None
  /\ hooked = {}
  /\ doomed = [t \in Task |-> {}]
  /\ late = {}

-----------------------------------------------------------------------------
\* Kernel.register: the alias goes to the agent registered last.
Register(o, i, a) ==
  /\ agents' = [agents EXCEPT ![i] = o]
  /\ wellKnown' = IF a = None THEN wellKnown ELSE [wellKnown EXCEPT ![a] = i]

\* Mutant: unregister drops the inbox but leaves the agent in the index.
UnregisterKeepsIndex(i) ==
  /\ inboxes' = inboxes \ {i}
  /\ UNCHANGED <<agents, wellKnown>>

\* Mutant: unregister leaves the alias behind.
UnregisterKeepsAlias(i) ==
  /\ agents' = [agents EXCEPT ![i] = None]
  /\ inboxes' = inboxes \ {i}
  /\ UNCHANGED wellKnown

\* Kernel.unregister works on the id, whichever instance holds it by now.
Unregister(i) ==
  /\ agents' = [agents EXCEPT ![i] = None]
  /\ inboxes' = inboxes \ {i}
  /\ wellKnown' = [a \in Alias |-> IF wellKnown[a] = i THEN None ELSE wellKnown[a]]

\* Agent.__init__: register, inbox, the parent's _children.
Construct(p, o, i, a, locked) ==
  /\ idOf' = [idOf EXCEPT ![o] = i]
  /\ parent' = [parent EXCEPT ![o] = p]
  /\ depth' = [depth EXCEPT ![o] = depth[p] + 1]
  /\ aliasOf' = [aliasOf EXCEPT ![o] = a]
  /\ deleteLock' = [deleteLock EXCEPT ![o] = locked]
  /\ Register(o, i, a)
  /\ inboxes' = inboxes \cup {i}
  /\ children' = [children EXCEPT ![p][i] = o]

\* Agent.create.  The caller is a handler of p; one dispatched before p was
\* deleted may still be running, so p need not be registered.  An id not given
\* is minted, and then it is new.
Create(p, o, i, a, locked) ==
  /\ loop = None
  /\ idOf[p] # None /\ idOf[o] = None
  /\ agents[i] = None
  /\ ReuseIds \/ \A q \in Obj : idOf[q] # i
  /\ Construct(p, o, i, a, locked)
  /\ late' = IF Dying(p) \/ p \in late THEN late \cup {o} ELSE late
  /\ UNCHANGED taskVars

\* Agent.update with {delete_lock: b}.  Updating `alias` changes the meta only:
\* register is not called again.
Update(i, b) ==
  /\ loop = None
  /\ agents[i] # None
  /\ deleteLock' = [deleteLock EXCEPT ![agents[i]] = b]
  /\ UNCHANGED <<agents, wellKnown, inboxes, idOf, parent, children, depth, aliasOf, late>>
  /\ UNCHANGED taskVars

-----------------------------------------------------------------------------
\* _find_locked_descendant
LockedIn(o) == {c \in Subtree(o) : deleteLock[c]}

\* Mutant: the walk visits one child only.
ChildIdsFirst(o) ==
  LET ids == {i \in Id : children[o][i] # None} IN
  IF ids = {} THEN {} ELSE {CHOOSE i \in ids : TRUE}

\* list(self._children.keys())
ChildIds(o) == {i \in Id : children[o][i] # None}

\* Agent.delete, refused: nothing is changed.
DeleteLocked(t, i) ==
  /\ loop = None /\ pc[t] = "idle"
  /\ agents[i] # None
  /\ LockedIn(agents[i]) # {}
  /\ result' = [result EXCEPT ![t] = "locked"]
  /\ UNCHANGED <<treeVars, pc, base, top, stack, todo, loop, hooked, doomed, late>>

\* Agent.delete, accepted: the cascade starts in the same step of the loop.
DeleteStart(t, i) ==
  /\ loop = None /\ pc[t] = "idle"
  /\ agents[i] # None
  /\ LockedIn(agents[i]) = {}
  /\ pc' = [pc EXCEPT ![t] = "walk"]
  /\ base' = [base EXCEPT ![t] = agents[i]]
  /\ doomed' = [doomed EXCEPT ![t] = Subtree(agents[i])]
  /\ result' = [result EXCEPT ![t] = "none"]
  /\ top' = [top EXCEPT ![t] = agents[i]]
  /\ stack' = [stack EXCEPT ![t] = {agents[i]}]
  /\ todo' = [todo EXCEPT ![t][agents[i]] = ChildIds(agents[i])]
  /\ loop' = t
  /\ UNCHANGED <<treeVars, hooked, late>>

\* The task's activations are gone; it returns r.
Finish(t, r) ==
  /\ pc' = [pc EXCEPT ![t] = "idle"]
  /\ base' = [base EXCEPT ![t] = None]
  /\ top' = [top EXCEPT ![t] = None]
  /\ stack' = [stack EXCEPT ![t] = {}]
  /\ todo' = [todo EXCEPT ![t] = [o \in Obj |-> {}]]
  /\ result' = [result EXCEPT ![t] = r]
  /\ loop' = None

\* for cid in list(self._children): the next child, still there.
Descend(t, i) ==
  /\ loop = t /\ pc[t] = "walk"
  /\ i \in todo[t][top[t]]
  /\ LET c == children[top[t]][i] IN
     /\ c # None
     /\ top' = [top EXCEPT ![t] = c]
     /\ stack' = [stack EXCEPT ![t] = @ \cup {c}]
     /\ todo' = [todo EXCEPT ![t] =
                   [todo[t] EXCEPT ![top[t]] = @ \ {i}, ![c] = ChildIds(c)]]
  /\ UNCHANGED <<treeVars, pc, base, result, loop, hooked, doomed, late>>

\* Mutant: the KeyError is swallowed and the delete reports success.
ChildVanishedOk(t, i) ==
  /\ loop = t /\ pc[t] = "walk"
  /\ i \in todo[t][top[t]]
  /\ children[top[t]][i] = None
  /\ Finish(t, "deleted")
  /\ UNCHANGED <<treeVars, hooked, doomed, late>>

\* Mutant: the walk waits for the child to come back.
ChildVanishedRetry(t, i) ==
  /\ loop = t /\ pc[t] = "walk"
  /\ i \in todo[t][top[t]]
  /\ children[top[t]][i] = None
  /\ UNCHANGED vars

\* for cid in list(self._children): another delete removed it meanwhile;
\* self._children[cid] raises KeyError through every activation.
ChildVanished(t, i) ==
  /\ loop = t /\ pc[t] = "walk"
  /\ i \in todo[t][top[t]]
  /\ children[top[t]][i] = None
  /\ Finish(t, "raised")
  /\ UNCHANGED <<treeVars, hooked, doomed, late>>

\* await self.on_delete(): the hook may suspend.
OnDelete(t) ==
  /\ loop = t /\ pc[t] = "walk"
  /\ todo[t][top[t]] = {}
  /\ hooked' = hooked \cup {top[t]}
  /\ pc' = [pc EXCEPT ![t] = "hook"]
  /\ loop' \in {t, None}
  /\ UNCHANGED <<treeVars, base, top, stack, todo, result, doomed, late>>

\* The hook is over (returned, or raised and was logged): unregister, leave
\* the parent, publish `removed`, return to the caller.
Detach(t) ==
  /\ loop \in {t, None} /\ pc[t] = "hook"
  /\ LET o == top[t]  p == parent[o] IN
     /\ Unregister(idOf[o])
     /\ children' = IF p = None THEN children
                                ELSE [children EXCEPT ![p][idOf[o]] = None]
     /\ IF o = base[t]
        THEN Finish(t, "deleted")
        ELSE /\ pc' = [pc EXCEPT ![t] = "walk"]
             /\ top' = [top EXCEPT ![t] = p]
             /\ stack' = [stack EXCEPT ![t] = @ \ {o}]
             /\ loop' = t
             /\ UNCHANGED <<base, todo, result>>
  /\ UNCHANGED <<idOf, parent, depth, aliasOf, deleteLock, hooked, doomed, late>>

\* The task is cancelled while a hook is suspended (web_ws cancels the calls of
\* a client that disconnects).  CancelledError is no Exception: neither
\* except clause stops it.
CancelDelete(t) ==
  /\ loop = None /\ pc[t] = "hook"
  /\ Finish(t, "cancelled")
  /\ UNCHANGED <<treeVars, hooked, doomed, late>>

-----------------------------------------------------------------------------
CreateSome == \E p, o \in Obj, i \in Id, a \in Alias \cup {None}, b \in LockVals :
                Create(p, o, i, a, b)
UpdateSome == \E i \in Id, b \in LockVals : Update(i, b)
DeleteStep(t) ==
  \/ \E i \in Id : DeleteStart(t, i) \/ DeleteLocked(t, i)
  \/ \E i \in Id : Descend(t, i) \/ ChildVanished(t, i)
  \/ OnDelete(t) \/ Detach(t) \/ CancelDelete(t)

Next == CreateSome \/ UpdateSome \/ \E t \in Task : DeleteStep(t)

\* A running coroutine goes on to its next suspension.  A bundle's on_delete
\* returns, and asyncio's ready queue is first in first out: a task whose hook
\* is over gets its turn although other tasks keep taking the loop (strong
\* fairness of Detach).
Fairness ==
  \A t \in Task :
    /\ WF_vars(OnDelete(t) \/ \E i \in Id : Descend(t, i) \/ ChildVanished(t, i))
    /\ SF_vars(Detach(t))

Spec == Init /\ [][Next]_vars /\ Fairness

-----------------------------------------------------------------------------
\* The two indexes agree.  A registered agent other than the root is in its
\* parent's `_children`; where ids are not re-used the converse holds too, so
\* walking the tree and listing `ctx.agents` find the same agents, whatever
\* cascades are half-way through (_cascade_delete, Kernel.unregister).
RegistryLinked ==
  \A o \in Obj \ {Root} :
    /\ Registered(o) => Linked(o)
    /\ (~ReuseIds /\ Linked(o)) => Registered(o)

\* An agent whose parent is gone was created, or descends from one created,
\* while a cascade was on its parent: cascades themselves, interleaved,
\* cancelled or aborted, never leave an agent behind its parent.
OrphansAreLate ==
  ~ReuseIds => \A o \in Obj \ {Root} :
                 (Registered(o) /\ ~Registered(parent[o])) => o \in late

\* When Agent.delete answers {deleted: true}, every agent that was in the
\* subtree at the call (and was not born late) has left the registry, even if
\* several deletes overlapped.
DeletedMeansGone ==
  ~ReuseIds => \A t \in Task : result[t] = "deleted" =>
                 \A o \in doomed[t] \ late : ~Registered(o)

\* Every name `send` can be given leads to a live agent with an inbox:
\* Kernel.unregister drops the aliases and the inbox with the agent.
NamesResolve ==
  /\ \A a \in Alias : wellKnown[a] # None => agents[wellKnown[a]] # None
  /\ \A i \in Id : agents[i] # None <=> i \in inboxes

\* A delete whose hooks return comes to an end: it walks snapshots of
\* `_children`, so agents created meanwhile cannot keep it going.
DeleteReturns == \A t \in Task : pc[t] # "idle" ~> pc[t] = "idle"

\* What the doc of _cascade_delete says: once delete has answered
\* {deleted: true}, nothing below the deleted agent is left.
SubtreeGone ==
  \A t \in Task : result[t] = "deleted" =>
    \A o \in Obj : (Registered(o) /\ o # Root) => parent[o] \notin doomed[t]

\* What the README says of delete_lock: a locked agent is not removed.
LockedStays == [][\A o \in Obj : (Registered(o) /\ deleteLock[o]) => Registered(o)']_vars

\* What the README says of on_delete: it runs before the agent detaches from
\* the registry.
HookBeforeDetach == \A o \in Obj : idOf[o] # None => Registered(o) \/ o \in hooked

\* What the doc of Kernel.register says: an agent that declares an alias can
\* be addressed by that name.
AliasResolves ==
  \A o \in Obj : (Registered(o) /\ aliasOf[o] # None) => wellKnown[aliasOf[o]] # None

-----------------------------------------------------------------------------
\* The tree as its observers see it, by id, where ids are not re-used.
ObjOf(i) == CHOOSE o \in Obj : idOf[o] = i
UsedIds  == {idOf[o] : o \in {q \in Obj : idOf[q] # None}}
ParentId(i) ==
  IF i \in UsedIds /\ parent[ObjOf(i)] # None THEN idOf[parent[ObjOf(i)]] ELSE None

Abstract == INSTANCE LiveTree
  WITH live <- {i \in Id : agents[i] # None},
       parentOf <- [i \in Id |-> ParentId(i)],
       used <- UsedIds,
       late <- {idOf[o] : o \in late}

\* Whatever deletes overlap, abort or are cancelled, the tree changes only by
\* AddAgent and RemoveAgent steps of LiveTree: _cascade_delete removes an agent only
\* when no child is left, late births apart.
ImplementsLiveTree == Abstract!LiveSpec
=============================================================================
