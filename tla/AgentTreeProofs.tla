-------------------------- MODULE AgentTreeProofs --------------------------
(***************************************************************************)
(* The inductive invariant of AgentTree, that every step preserves it, and *)
(* the theorems about the tree of agents, for any number of agents, ids    *)
(* and tasks.                                                              *)
(***************************************************************************)
EXTENDS AgentTree, TLAPS

Made(o) == idOf[o] # None

\* The registry and the parent/child links are well formed.
Links ==
  /\ idOf[Root] = RootId /\ parent[Root] = None
  /\ \A o \in Obj \ {Root} : Made(o) =>
       /\ parent[o] \in Obj /\ Made(parent[o])
       /\ depth[o] = depth[parent[o]] + 1
  /\ \A p \in Obj, i \in Id : children[p][i] # None =>
       idOf[children[p][i]] = i /\ parent[children[p][i]] = p
  /\ \A i \in Id : agents[i] # None => idOf[agents[i]] = i

\* Where ids are minted, an id names one agent.
UniqueIds ==
  ~ReuseIds => \A o, q \in Obj : (Made(o) /\ idOf[o] = idOf[q]) => o = q

\* The activations of a deleting task are a chain of parents from `top` up to
\* `base`: one per depth, none below `top`.
Chain(t) ==
  IF pc[t] = "idle" THEN stack[t] = {}
  ELSE /\ base[t] \in stack[t] /\ top[t] \in stack[t]
       /\ \A x \in stack[t] :
            /\ Made(x) /\ (x # base[t] => x # Root /\ parent[x] \in stack[t])
            /\ depth[x] <= depth[top[t]]
            /\ \A y \in stack[t] : depth[x] = depth[y] => x = y
       /\ pc[t] = "hook" => todo[t][top[t]] = {}

\* The walk has not missed a child: a registered child of an agent on the stack
\* is on the stack itself, still to be visited, or born late.
NoneMissed(t) ==
  ~ReuseIds => \A x \in stack[t], c \in Obj :
    (Registered(c) /\ parent[c] = x /\ c \notin late) =>
      idOf[c] \in todo[t][x] \/ c \in stack[t]

IInv ==
  /\ TypeOK /\ Links /\ UniqueIds /\ RegistryLinked
  /\ \A t \in Task : Chain(t) /\ NoneMissed(t)
  /\ OrphansAreLate

\* The initial tree, a root with no children, satisfies the invariant.
LEMMA InitIInv == Init => IInv
<1> SUFFICES ASSUME Init PROVE IInv
  BY Zenon
<1> USE TreeConstants
<1>1. TypeOK
  BY Zenon DEF Init, TypeOK, TreeTypeOK, TaskTypeOK
<1>2. \A o \in Obj \ {Root} : ~Made(o)
  BY ZenonT(30) DEF Init, Made
<1>3. Links
  BY ZenonT(30), <1>2 DEF Init, Links
<1>4. UniqueIds
  BY Zenon, <1>2 DEF Init, UniqueIds, Made
<1>5. RegistryLinked /\ OrphansAreLate
  BY Zenon, <1>2 DEF RegistryLinked, OrphansAreLate, Registered, Linked, Made
<1>6. \A t \in Task : Chain(t) /\ NoneMissed(t)
  BY Zenon DEF Init, Chain, NoneMissed
<1> QED
  BY Zenon, <1>1, <1>3, <1>4, <1>5, <1>6 DEF IInv

\* Agent.create preserves the invariant: a child of an agent on some stack is
\* late, and its id was free.
LEMMA CreateStep ==
  ASSUME IInv, NEW p \in Obj, NEW o \in Obj, NEW i \in Id,
         NEW a \in Alias \cup {None}, NEW b \in LockVals, Create(p, o, i, a, b)
  PROVE  IInv'
<1>inv. /\ TreeTypeOK /\ TaskTypeOK /\ Links /\ UniqueIds /\ RegistryLinked
        /\ OrphansAreLate /\ \A u \in Task : Chain(u) /\ NoneMissed(u)
  BY Zenon DEF IInv, TypeOK
<1> USE TreeConstants
<1>1. TypeOK'
  BY <1>inv DEF TypeOK, TreeTypeOK, TaskTypeOK, Create, Construct, Register, taskVars
<1>2. /\ Made(p) /\ ~Made(o) /\ o # Root /\ p # o /\ agents[i] = None
      /\ ~ReuseIds => \A q \in Obj : idOf[q] # i
  BY <1>inv DEF Links, Create, Made, TreeTypeOK
<1>3. /\ \A q \in Obj \ {o} : idOf'[q] = idOf[q] /\ parent'[q] = parent[q] /\ depth'[q] = depth[q]
      /\ idOf'[o] = i /\ parent'[o] = p /\ depth'[o] = depth[p] + 1
  BY Zenon, <1>inv DEF TreeTypeOK, Create, Construct
<1>4. \A q \in Obj : Made(q) => q # o
  BY Zenon, <1>2
<1>5. \A q \in Obj, j \in Id :
        children'[q][j] = IF q = p /\ j = i THEN o ELSE children[q][j]
  BY <1>inv DEF TreeTypeOK, Create, Construct
<1>6. \A j \in Id : agents'[j] = IF j = i THEN o ELSE agents[j]
  BY Zenon, <1>inv DEF TreeTypeOK, Create, Construct, Register
<1>7. Links'
  <2>1. idOf'[Root] = RootId /\ parent'[Root] = None
    BY Zenon, <1>2, <1>3, <1>inv DEF Links
  <2>2. ASSUME NEW j \in Id, agents'[j] # None PROVE idOf'[agents'[j]] = j
    <3>1. CASE j = i
      BY Zenon, <3>1, <1>3, <1>6
    <3>2. CASE j # i
      <4>1. agents'[j] = agents[j] /\ agents[j] \in Obj /\ idOf[agents[j]] = j
        BY <2>2, <3>2, <1>6, <1>inv DEF TreeTypeOK, Links
      <4> QED BY <4>1, <1>2, <1>3 DEF Made
    <3> QED BY Zenon, <3>1, <3>2
  <2>3. ASSUME NEW q \in Obj \ {Root}, Made(q)'
        PROVE  /\ parent'[q] \in Obj /\ Made(parent[q])'
               /\ depth'[q] = depth'[parent'[q]] + 1
    <3>1. CASE q = o
      BY Zenon, <3>1, <1>2, <1>3, <1>inv DEF TreeTypeOK, Made
    <3>2. CASE q # o
      <4>1. Made(q) /\ parent'[q] = parent[q] /\ depth'[q] = depth[q]
        BY Zenon, <3>2, <2>3, <1>3 DEF Made
      <4>2. /\ parent[q] \in Obj \ {o} /\ Made(parent[q])
            /\ depth[q] = depth[parent[q]] + 1
        BY Zenon, <4>1, <1>2, <1>inv DEF Links
      <4> QED BY Zenon, <4>1, <4>2, <1>3 DEF Made
    <3> QED BY Zenon, <3>1, <3>2
  <2>4. ASSUME NEW q \in Obj, NEW j \in Id, children'[q][j] # None
        PROVE  idOf'[children'[q][j]] = j /\ parent'[children'[q][j]] = q
    <3>1. CASE q = p /\ j = i
      BY Zenon, <3>1, <1>3, <1>5
    <3>2. CASE ~(q = p /\ j = i)
      <4>1. children'[q][j] = children[q][j]
        BY Zenon, <3>2, <1>5
      <4>2. children[q][j] \in Obj
        BY <2>4, <4>1, <1>inv DEF TreeTypeOK
      <4>3. idOf[children[q][j]] = j /\ parent[children[q][j]] = q
        BY Zenon, <4>1, <2>4, <1>inv DEF Links
      <4>4. children[q][j] # o
        BY Zenon, <4>3, <1>2 DEF Made
      <4> QED BY Zenon, <4>1, <4>2, <4>3, <4>4, <1>3
    <3> QED BY Zenon, <3>1, <3>2
  <2> QED BY Zenon, <2>1, <2>2, <2>3, <2>4 DEF Links, Made
<1>8. UniqueIds'
  BY <1>2, <1>3, <1>inv DEF UniqueIds, Made
<1>9. \A q \in Obj : q # o => (Registered(q)' <=> Registered(q))
  BY <1>2, <1>3, <1>6, <1>inv DEF TreeTypeOK, Registered
<1>10. RegistryLinked'
  <2>1. Registered(o)' /\ Linked(o)'
    BY Zenon, <1>3, <1>5, <1>6, <1>inv DEF TreeTypeOK, Registered, Linked
  <2>2. ASSUME NEW q \in Obj \ {Root}, q # o
        PROVE  /\ Registered(q) => (Linked(q)' <=> Linked(q))
               /\ ~ReuseIds => (Linked(q)' <=> Linked(q))
    <3>1. idOf'[q] = idOf[q] /\ parent'[q] = parent[q]
      BY Zenon, <2>2, <1>3
    <3>2. CASE ~Made(q)
      BY Zenon, <3>1, <3>2 DEF Linked, Made
    <3>3. CASE Made(q)
      <4>1. parent[q] \in Obj /\ idOf[q] \in Id
        BY <3>3, <1>inv DEF Links, TreeTypeOK, Made
      <4>2. (Registered(q) \/ ~ReuseIds) => idOf[q] # i
        BY Zenon, <1>2 DEF Registered
      <4>3. (Registered(q) \/ ~ReuseIds) =>
              children'[parent[q]][idOf[q]] = children[parent[q]][idOf[q]]
        BY Zenon, <4>1, <4>2, <1>5
      <4> QED BY Zenon, <3>1, <4>3 DEF Linked
    <3> QED BY Zenon, <3>2, <3>3
  <2> QED BY Zenon, <2>1, <2>2, <1>9, <1>inv DEF RegistryLinked
<1>11. \A t \in Task : Chain(t)'
  <2> SUFFICES ASSUME NEW t \in Task PROVE Chain(t)'
    BY Zenon
  <2>1. UNCHANGED <<pc, base, top, stack, todo>>
    BY Zenon DEF Create, taskVars
  <2>2. \A x \in stack[t] : x \in Obj
    BY Zenon, <1>inv DEF TaskTypeOK
  <2>3. CASE pc[t] = "idle"
    BY Zenon, <2>1, <2>3, <1>inv DEF Chain
  <2>4. CASE pc[t] # "idle"
    <3>1. \A x \in stack[t] : x \in Obj \ {o}
      BY Zenon, <2>2, <2>4, <1>4, <1>inv DEF Chain
    <3> QED BY SMTT(20), <3>1, <2>1, <2>4, <1>3, <1>inv DEF Chain, Made
  <2> QED BY Zenon, <2>3, <2>4
<1>12. \A t \in Task : NoneMissed(t)'
  <2> SUFFICES ASSUME NEW t \in Task, ~ReuseIds, NEW x \in stack[t], NEW c \in Obj,
                      Registered(c)', parent'[c] = x, c \notin late'
               PROVE  idOf'[c] \in todo[t][x] \/ c \in stack[t]
    BY Zenon DEF NoneMissed, Create, taskVars
  <2>1. c # o
    BY Zenon, <1>3 DEF Create, Dying
  <2>2. Registered(c) /\ parent[c] = x /\ c \notin late
    BY Zenon, <2>1, <1>9, <1>3 DEF Create
  <2> QED BY Zenon, <2>1, <2>2, <1>3, <1>inv DEF NoneMissed
<1>13. OrphansAreLate'
  <2> SUFFICES ASSUME ~ReuseIds, NEW q \in Obj \ {Root}, Registered(q)',
                      ~Registered(parent[q])'
               PROVE  q \in late'
    BY Zenon DEF OrphansAreLate
  <2>1. CASE q = o
    <3>1. ~Registered(p)
      BY Zenon, <2>1, <1>3, <1>9, <1>2
    <3> QED BY Zenon, <3>1, <2>1 DEF Create, Dying
  <2>2. CASE q # o
    <3>0. Registered(q) /\ Made(q) /\ parent'[q] = parent[q]
      BY Zenon, <2>2, <1>3, <1>9 DEF Registered, Made
    <3>1. Registered(q) /\ Made(q) /\ parent'[q] = parent[q] /\ parent[q] # o
      BY <3>0, <1>2, <1>inv DEF Links, Made
    <3>2. ~Registered(parent[q])
      BY Zenon, <3>1, <1>9, <1>inv DEF Links
    <3> QED BY Zenon, <3>1, <3>2, <1>inv DEF OrphansAreLate, Create
  <2> QED BY Zenon, <2>1, <2>2
<1> QED
  BY Zenon, <1>1, <1>7, <1>8, <1>10, <1>11, <1>12, <1>13 DEF IInv

\* A step of a deleting task that leaves the tree alone preserves everything
\* that is said about the tree.
LEMMA TreeFrame ==
  ASSUME IInv, UNCHANGED <<treeVars, late>>
  PROVE  /\ Links' /\ UniqueIds' /\ RegistryLinked' /\ OrphansAreLate'
         /\ \A o \in Obj : Registered(o)' <=> Registered(o)
<1>1. Links /\ UniqueIds /\ RegistryLinked /\ OrphansAreLate
  BY Zenon DEF IInv
<1>2. UNCHANGED <<agents, idOf, parent, children, depth, late>>
  BY Zenon DEF treeVars
<1>3. Links' /\ UniqueIds'
  BY Zenon, <1>1, <1>2 DEF Links, UniqueIds, Made
<1>4. RegistryLinked' /\ OrphansAreLate'
  BY Zenon, <1>1, <1>2 DEF RegistryLinked, OrphansAreLate, Registered, Linked
<1> QED
  BY Zenon, <1>2, <1>3, <1>4 DEF Registered

\* A task on which another task's step does not act keeps its chain and its
\* walk, as long as no agent becomes registered.
LEMMA OtherTask ==
  ASSUME IInv, NEW u \in Task,
         pc'[u] = pc[u], base'[u] = base[u], top'[u] = top[u],
         stack'[u] = stack[u], todo'[u] = todo[u],
         UNCHANGED <<idOf, parent, depth, late>>,
         \A o \in Obj : Registered(o)' => Registered(o)
  PROVE  Chain(u)' /\ NoneMissed(u)'
<1>1. Chain(u) /\ NoneMissed(u) /\ stack[u] \in SUBSET Obj
  BY Zenon DEF IInv, TypeOK, TaskTypeOK
<1>2. Chain(u)'
  BY Zenon, <1>1 DEF Chain, Made
<1>3. NoneMissed(u)'
  BY Zenon, <1>1 DEF NoneMissed
<1> QED
  BY Zenon, <1>2, <1>3

\* Agent.update touches only the record.
LEMMA UpdateStep ==
  ASSUME IInv, NEW i \in Id, NEW b \in LockVals, Update(i, b)
  PROVE  IInv'
<1>inv. /\ TreeTypeOK /\ TaskTypeOK /\ Links /\ UniqueIds /\ RegistryLinked
        /\ OrphansAreLate /\ \A u \in Task : Chain(u) /\ NoneMissed(u)
  BY Zenon DEF IInv, TypeOK
<1>1. TypeOK'
  BY Zenon, TreeConstants, <1>inv DEF TypeOK, TreeTypeOK, TaskTypeOK, Update, taskVars
<1>2. UNCHANGED <<agents, idOf, parent, children, depth, late, pc, base, top, stack, todo>>
  BY Zenon DEF Update, taskVars
<1>3. Links' /\ UniqueIds'
  BY Zenon, <1>2, <1>inv DEF Links, UniqueIds, Made
<1>3a. RegistryLinked' /\ OrphansAreLate'
  BY Zenon, <1>2, <1>inv DEF RegistryLinked, OrphansAreLate, Registered, Linked
<1>4. \A o \in Obj : Registered(o)' => Registered(o)
  BY Zenon, <1>2 DEF Registered
<1>5. \A u \in Task : Chain(u)' /\ NoneMissed(u)'
  BY Zenon, <1>2, <1>4, OtherTask
<1> QED
  BY Zenon, <1>1, <1>3, <1>3a, <1>5 DEF IInv

\* A delete that ends, for whatever reason, leaves an empty stack.
LEMMA FinishStep ==
  ASSUME IInv, NEW t \in Task, NEW r, Finish(t, r),
         UNCHANGED <<idOf, parent, depth, late>>,
         \A o \in Obj : Registered(o)' => Registered(o)
  PROVE  \A u \in Task : Chain(u)' /\ NoneMissed(u)'
<1>inv. /\ TreeTypeOK /\ TaskTypeOK /\ Links /\ UniqueIds /\ RegistryLinked
        /\ OrphansAreLate /\ \A u \in Task : Chain(u) /\ NoneMissed(u)
  BY Zenon DEF IInv, TypeOK
<1>1. ASSUME NEW u \in Task, u # t PROVE Chain(u)' /\ NoneMissed(u)'
  BY Zenon, <1>1, OtherTask, <1>inv DEF Finish, TaskTypeOK
<1>2. pc'[t] = "idle" /\ stack'[t] = {}
  BY Zenon, <1>inv DEF Finish, TaskTypeOK
<1>3. Chain(t)' /\ NoneMissed(t)'
  BY Zenon, <1>2 DEF Chain, NoneMissed
<1> QED BY Zenon, <1>1, <1>3

\* The refused delete.
LEMMA LockedStep ==
  ASSUME IInv, NEW t \in Task, NEW i \in Id, DeleteLocked(t, i)
  PROVE  IInv'
<1>inv. /\ TreeTypeOK /\ TaskTypeOK /\ Links /\ UniqueIds /\ RegistryLinked
        /\ OrphansAreLate /\ \A u \in Task : Chain(u) /\ NoneMissed(u)
  BY Zenon DEF IInv, TypeOK
<1>1. TypeOK'
  BY Zenon, <1>inv DEF TypeOK, TreeTypeOK, TaskTypeOK, DeleteLocked, treeVars
<1>2. \A u \in Task : Chain(u)' /\ NoneMissed(u)'
  BY TreeFrame, OtherTask, ZenonT(60) DEF DeleteLocked, treeVars
<1> QED
  BY Zenon, <1>1, <1>2, TreeFrame DEF IInv, DeleteLocked

\* Agent.delete starts: the snapshot of the child ids has every registered child.
LEMMA StartStep ==
  ASSUME IInv, NEW t \in Task, NEW i \in Id, DeleteStart(t, i)
  PROVE  IInv'
<1>inv. /\ TreeTypeOK /\ TaskTypeOK /\ Links /\ UniqueIds /\ RegistryLinked
        /\ OrphansAreLate /\ \A u \in Task : Chain(u) /\ NoneMissed(u)
  BY Zenon DEF IInv, TypeOK
<1> DEFINE o == agents[i]
<1> USE TreeConstants
<1>0. o \in Obj /\ Subtree(o) \subseteq Obj /\ ChildIds(o) \subseteq Id
  BY Zenon, <1>inv DEF DeleteStart, TreeTypeOK, Subtree, ChildIds
<1>1. TypeOK'
  <2>1. TreeTypeOK'
    BY Zenon, <1>inv DEF TreeTypeOK, DeleteStart, treeVars
  <2>2. TaskTypeOK'
    BY Zenon, <1>0, <1>inv DEF TaskTypeOK, DeleteStart
  <2> QED BY Zenon, <2>1, <2>2 DEF TypeOK
<1>2. ASSUME NEW u \in Task, u # t PROVE Chain(u)' /\ NoneMissed(u)'
  BY <1>2, TreeFrame, OtherTask, <1>inv, ZenonT(60) DEF DeleteStart, treeVars, TaskTypeOK
<1>3. /\ o \in Obj /\ idOf[o] = i /\ pc'[t] = "walk" /\ base'[t] = o /\ top'[t] = o
      /\ stack'[t] = {o} /\ todo'[t][o] = ChildIds(o)
  <2>1. idOf[o] = i
    BY Zenon, <1>inv DEF DeleteStart, Links
  <2> QED BY <2>1, <1>0, <1>inv, SMTT(60) DEF DeleteStart, TaskTypeOK
<1>4. UNCHANGED <<idOf, parent, depth, children, agents, late>>
  BY Zenon DEF DeleteStart, treeVars
<1>5. Chain(t)'
  <2> HIDE DEF o
  <2>1. idOf'[o] # None
    BY Zenon, <1>3, <1>4
  <2>2. depth'[o] \in Nat
    BY Zenon, <1>3, <1>4, <1>inv DEF TreeTypeOK
  <2>3. pc'[t] # "idle" /\ pc'[t] # "hook"
    BY Zenon, <1>3
  <2>4. base'[t] \in stack'[t] /\ top'[t] \in stack'[t]
    BY Zenon, <1>3
  <2>5. ASSUME NEW x \in stack'[t]
        PROVE  /\ idOf'[x] # None /\ x = base'[t] /\ depth'[x] <= depth'[top'[t]]
               /\ \A y \in stack'[t] : x = y
    <3>1. x = o /\ \A y \in stack'[t] : y = o
      BY Zenon, <1>3
    <3> QED BY <3>1, <2>1, <2>2, <1>3
  <2> QED BY <2>3, <2>4, <2>5, Zenon DEF Chain, Made
<1>6. NoneMissed(t)'
  <2> SUFFICES ASSUME ~ReuseIds, NEW c \in Obj, Registered(c), parent[c] = o
               PROVE  idOf[c] \in ChildIds(o)
    BY Zenon, <1>3, <1>4 DEF NoneMissed, Registered
  <2>1. c # Root
    BY Zenon, <1>3, <1>inv DEF Links
  <2>2. idOf[c] \in Id
    BY Zenon, <1>inv DEF Registered, TreeTypeOK
  <2>3. children[parent[c]][idOf[c]] = c
    BY Zenon, <2>1, <1>inv DEF RegistryLinked, Linked
  <2> QED BY Zenon, <2>2, <2>3, TreeConstants DEF ChildIds
<1>7. Links' /\ UniqueIds' /\ RegistryLinked' /\ OrphansAreLate'
  BY Zenon, TreeFrame DEF DeleteStart
<1> QED
  BY Zenon, <1>1, <1>2, <1>5, <1>6, <1>7 DEF IInv


\* The walk goes down to a child: one level deeper, and no other child has
\* the id that is taken off the snapshot.
LEMMA DescendStep ==
  ASSUME IInv, NEW t \in Task, NEW i \in Id, Descend(t, i)
  PROVE  IInv'
<1>inv. /\ TreeTypeOK /\ TaskTypeOK /\ Links /\ UniqueIds /\ RegistryLinked
        /\ OrphansAreLate /\ \A u \in Task : Chain(u) /\ NoneMissed(u)
  BY Zenon DEF IInv, TypeOK
<1> DEFINE o == top[t]
           c == children[o][i]
<1> USE TreeConstants
<1>1. /\ pc[t] = "walk" /\ o \in Obj /\ o \in stack[t] /\ c \in Obj /\ i \in todo[t][o]
      /\ idOf[c] = i /\ parent[c] = o /\ c # Root
  BY <1>inv DEF Descend, TreeTypeOK, TaskTypeOK, Chain, Links
<1> DEFINE f == [todo[t] EXCEPT ![o] = @ \ {i}, ![c] = ChildIds(c)]
<1>0. /\ todo' = [todo EXCEPT ![t] = f] /\ top' = [top EXCEPT ![t] = c]
      /\ stack' = [stack EXCEPT ![t] = @ \cup {c}]
  BY Zenon DEF Descend
<1>a. todo[t] \in [Obj -> SUBSET Id] /\ ChildIds(c) \in SUBSET Id
  BY Zenon, <1>inv DEF TaskTypeOK, ChildIds
<1>b. f \in [Obj -> SUBSET Id]
  BY Zenon, <1>a, <1>1
<1>2. TypeOK'
  <2> HIDE DEF f, c
  <2>1. todo' \in [Task -> [Obj -> SUBSET Id]] /\ top' \in [Task -> Obj \cup {None}]
        /\ stack' \in [Task -> SUBSET Obj]
    BY Zenon, <1>0, <1>1, <1>b, <1>inv DEF TaskTypeOK
  <2> QED BY <2>1, <1>inv, ZenonT(60) DEF TypeOK, TreeTypeOK, TaskTypeOK, Descend, treeVars
<1>3. ASSUME NEW u \in Task, u # t PROVE Chain(u)' /\ NoneMissed(u)'
  BY Zenon, <1>3, TreeFrame, OtherTask, <1>inv DEF Descend, treeVars, TaskTypeOK
<1>4. UNCHANGED <<idOf, parent, depth, children, agents, late, pc, base>>
  BY Zenon DEF Descend, treeVars
<1>5. depth[c] = depth[o] + 1 /\ depth[o] \in Nat
  <2> HIDE DEF c
  <2>1. Made(c)
    BY Zenon, <1>1, TreeConstants DEF Made
  <2> QED BY ZenonT(30), <2>1, <1>1, <1>inv DEF Links, TreeTypeOK
<1>6. c \notin stack[t]
  BY SMTT(20), <1>1, <1>5, <1>inv DEF Chain
<1>7. /\ top'[t] = c /\ stack'[t] = stack[t] \cup {c}
      /\ todo'[t][c] = ChildIds(c)
      /\ todo'[t][o] = todo[t][o] \ {i}
      /\ \A x \in Obj \ {o, c} : todo'[t][x] = todo[t][x]
  <2>1. top'[t] = c /\ stack'[t] = stack[t] \cup {c} /\ todo'[t] = f
    BY Zenon, <1>0, <1>inv DEF TaskTypeOK
  <2>2. o # c
    BY Zenon, <1>1, <1>6
  <2> QED BY Zenon, <2>1, <2>2, <1>1, <1>a
<1>8. Chain(t)'
  <2>1. /\ base[t] \in stack[t]
        /\ \A x \in stack[t] :
             /\ Made(x) /\ (x # base[t] => x # Root /\ parent[x] \in stack[t])
             /\ depth[x] \in Nat /\ depth[x] <= depth[o]
             /\ \A y \in stack[t] : depth[x] = depth[y] => x = y
    BY SMTT(20), <1>1, <1>inv DEF Chain, TreeTypeOK, TaskTypeOK
  <2>2. /\ Made(c) /\ parent[c] \in stack[t]
        /\ \A x \in stack[t] : depth[x] < depth[c]
    BY <2>1, <1>1, <1>5 DEF Made
  <2>3. \A x \in stack[t] \cup {c} :
          /\ Made(x) /\ (x # base[t] => x # Root /\ parent[x] \in stack[t] \cup {c})
          /\ depth[x] <= depth[c]
          /\ \A y \in stack[t] \cup {c} : depth[x] = depth[y] => x = y
    BY SMTT(20), <2>1, <2>2, <1>1, <1>5
  <2>4. base'[t] \in stack'[t] /\ top'[t] \in stack'[t] /\ pc'[t] = "walk"
    BY Zenon, <2>1, <1>1, <1>4, <1>7
  <2> HIDE DEF c
  <2> QED BY <2>3, <2>4, <1>4, <1>7 DEF Chain, Made
<1>9. NoneMissed(t)'
  <2> SUFFICES ASSUME ~ReuseIds, NEW x \in stack[t] \cup {c}, NEW d \in Obj, Registered(d),
                      parent[d] = x, d \notin late
               PROVE  idOf[d] \in todo'[t][x] \/ d \in stack[t] \cup {c}
    BY Zenon, <1>4, <1>7 DEF NoneMissed, Registered
  <2>0. d # Root /\ idOf[d] \in Id /\ children[x][idOf[d]] = d
    BY <1>1, <1>inv, SMTT(60) DEF Links, RegistryLinked, Registered, Linked, TreeTypeOK, TaskTypeOK
  <2>1. CASE x = c
    BY <2>0, <2>1, <1>7, SMTT(60) DEF ChildIds
  <2>2. CASE x = o
    BY Zenon, <2>0, <2>2, <1>1, <1>7, <1>inv DEF NoneMissed
  <2>3. CASE x # c /\ x # o
    BY Zenon, <2>3, <1>7, <1>inv DEF NoneMissed, TaskTypeOK
  <2> QED BY Zenon, <2>1, <2>2, <2>3
<1>10. Links' /\ UniqueIds' /\ RegistryLinked' /\ OrphansAreLate'
  BY Zenon, TreeFrame DEF Descend
<1> QED
  BY Zenon, <1>2, <1>3, <1>8, <1>9, <1>10 DEF IInv

\* The walk finds a child gone and raises, or its hook is cancelled.
LEMMA AbortStep ==
  ASSUME IInv, NEW t \in Task,
         (\E i \in Id : ChildVanished(t, i)) \/ CancelDelete(t)
  PROVE  IInv'
<1>inv. /\ TreeTypeOK /\ TaskTypeOK /\ Links /\ UniqueIds /\ RegistryLinked
        /\ OrphansAreLate /\ \A u \in Task : Chain(u) /\ NoneMissed(u)
  BY Zenon DEF IInv, TypeOK
<1>1. \E r \in {"raised", "cancelled"} : Finish(t, r)
  BY Zenon DEF ChildVanished, CancelDelete
<1>2. UNCHANGED <<treeVars, hooked, doomed, late>>
  BY Zenon DEF ChildVanished, CancelDelete
<1>3. TypeOK'
  BY <1>1, <1>2, TreeConstants, <1>inv DEF TypeOK, TreeTypeOK, TaskTypeOK, Finish, treeVars
<1>4. \A u \in Task : Chain(u)' /\ NoneMissed(u)'
  BY Zenon, <1>1, <1>2, TreeFrame, FinishStep DEF treeVars
<1> QED
  BY Zenon, <1>2, <1>3, <1>4, TreeFrame DEF IInv

\* The innermost activation has visited all children and calls the hook.
LEMMA HookStep ==
  ASSUME IInv, NEW t \in Task, OnDelete(t)
  PROVE  IInv'
<1>inv. /\ TreeTypeOK /\ TaskTypeOK /\ Links /\ UniqueIds /\ RegistryLinked
        /\ OrphansAreLate /\ \A u \in Task : Chain(u) /\ NoneMissed(u)
  BY Zenon DEF IInv, TypeOK
<1>1. pc[t] = "walk" /\ top[t] \in Obj /\ top[t] \in stack[t]
  BY Zenon, <1>inv DEF OnDelete, Chain, TaskTypeOK
<1>2. TypeOK'
  BY Zenon, <1>1, TreeConstants, <1>inv DEF TypeOK, TreeTypeOK, TaskTypeOK, OnDelete, treeVars
<1>3. ASSUME NEW u \in Task, u # t PROVE Chain(u)' /\ NoneMissed(u)'
  BY Zenon, <1>3, TreeFrame, OtherTask, <1>inv DEF OnDelete, treeVars, TaskTypeOK
<1>4. UNCHANGED <<idOf, parent, depth, late, base, top, stack, todo>>
  BY Zenon DEF OnDelete, treeVars
<1>5. pc'[t] = "hook" /\ todo'[t][top'[t]] = {}
  BY Zenon, <1>4, <1>inv DEF OnDelete, TaskTypeOK
<1>6. Chain(t)'
  BY SMTT(20), <1>1, <1>4, <1>5, <1>inv DEF Chain, Made
<1>7. NoneMissed(t)' /\ Links' /\ UniqueIds' /\ RegistryLinked' /\ OrphansAreLate'
  BY Zenon, <1>4, TreeFrame, <1>inv DEF OnDelete, NoneMissed
<1> QED
  BY Zenon, <1>2, <1>3, <1>6, <1>7 DEF IInv

\* The hook is over.  Nothing registered below the agent is left but what was
\* born late: its children would be on the stack, deeper than `top`, or still
\* to be visited.
LEMMA DetachStep ==
  ASSUME IInv, NEW t \in Task, Detach(t)
  PROVE  IInv'
<1>inv. /\ TreeTypeOK /\ TaskTypeOK /\ Links /\ UniqueIds /\ RegistryLinked
        /\ OrphansAreLate /\ \A u \in Task : Chain(u) /\ NoneMissed(u)
  BY Zenon DEF IInv, TypeOK
<1> DEFINE o == top[t]
           p == parent[o]
           i == idOf[o]
<1> USE TreeConstants
<1>1. /\ pc[t] = "hook" /\ o \in Obj /\ o \in stack[t] /\ i \in Id /\ todo[t][o] = {}
      /\ o # base[t] => o # Root /\ p \in Obj /\ p \in stack[t]
      /\ p = None \/ p \in Obj
  BY <1>inv DEF Detach, TreeTypeOK, TaskTypeOK, Chain, Made
<1>2. TypeOK'
  <2>1. /\ agents' \in [Id -> Obj \cup {None}] /\ inboxes' \in SUBSET Id
        /\ wellKnown' \in [Alias -> Id \cup {None}]
    BY Zenon, <1>1, <1>inv DEF TreeTypeOK, Detach, Unregister
  <2>2. children' \in [Obj -> [Id -> Obj \cup {None}]]
    BY Zenon, <1>1, <1>inv DEF TreeTypeOK, Detach
  <2>3. UNCHANGED <<idOf, parent, depth, aliasOf, deleteLock, hooked, doomed, late>>
    BY Zenon DEF Detach
  <2>4. CASE o = base[t]
    <3>1. Finish(t, "deleted")
      BY Zenon, <2>4 DEF Detach
    <3> QED BY Zenon, <2>1, <2>2, <2>3, <3>1, <1>inv DEF TypeOK, TreeTypeOK, TaskTypeOK, Finish
  <2>5. CASE o # base[t]
    <3>1. /\ pc' = [pc EXCEPT ![t] = "walk"] /\ top' = [top EXCEPT ![t] = p]
          /\ stack' = [stack EXCEPT ![t] = @ \ {o}] /\ loop' = t
          /\ UNCHANGED <<base, todo, result>>
      BY Zenon, <2>5 DEF Detach
    <3> HIDE DEF p, o
    <3> QED BY ZenonT(30), <2>1, <2>2, <2>3, <2>5, <3>1, <1>1, <1>inv DEF TypeOK, TreeTypeOK, TaskTypeOK
  <2> QED BY Zenon, <2>4, <2>5
<1>3. UNCHANGED <<idOf, parent, depth, late>>
  BY Zenon DEF Detach
<1>4. /\ \A j \in Id : agents'[j] = IF j = i THEN None ELSE agents[j]
      /\ \A q \in Obj, j \in Id :
           children'[q][j] = IF q = p /\ j = i THEN None ELSE children[q][j]
  BY SMTT(20), <1>1, <1>inv DEF Detach, Unregister, TreeTypeOK
<1>5. \A q \in Obj : Registered(q)' <=> (Registered(q) /\ idOf[q] # i)
  BY <1>3, <1>4, <1>inv, SMTT(60) DEF Registered, TreeTypeOK
<1>6. Links' /\ UniqueIds'
  <2> HIDE DEF o, p, i
  <2>1. /\ idOf'[Root] = RootId /\ parent'[Root] = None
        /\ \A q \in Obj \ {Root} : Made(q)' =>
             /\ parent'[q] \in Obj /\ Made(parent[q])'
             /\ depth'[q] = depth'[parent'[q]] + 1
    BY Zenon, <1>3, <1>inv DEF Links, Made
  <2>2. \A q \in Obj, j \in Id : children'[q][j] # None =>
          idOf'[children'[q][j]] = j /\ parent'[children'[q][j]] = q
    BY <1>3, <1>4, <1>inv DEF Links
  <2>3. \A j \in Id : agents'[j] # None => idOf'[agents'[j]] = j
    BY Zenon, <1>3, <1>4, <1>inv DEF Links
  <2>4. UniqueIds'
    BY Zenon, <1>3, <1>inv DEF UniqueIds, Made
  <2> QED BY Zenon, <2>1, <2>2, <2>3, <2>4 DEF Links, Made
<1>7. RegistryLinked'
  <2> SUFFICES ASSUME NEW q \in Obj \ {Root}
               PROVE  /\ Registered(q)' => Linked(q)'
                      /\ (~ReuseIds /\ Linked(q)') => Registered(q)'
    BY Zenon DEF RegistryLinked
  <2>1. ASSUME Registered(q)' PROVE Linked(q)'
    <3>1. Linked(q) /\ idOf[q] # i /\ idOf[q] \in Id /\ parent[q] \in Obj
      BY <2>1, <1>5, <1>inv DEF RegistryLinked, Registered, Linked, TreeTypeOK
    <3> QED BY Zenon, <3>1, <1>3, <1>4 DEF Linked
  <2>2. ASSUME ~ReuseIds, Linked(q)' PROVE Registered(q)'
    <3>1. idOf[q] \in Id /\ parent[q] \in Obj /\ children'[parent[q]][idOf[q]] = q
      BY Zenon, <2>2, <1>3, <1>inv DEF Linked, TreeTypeOK
    <3>2. children[parent[q]][idOf[q]] = q /\ ~(parent[q] = p /\ idOf[q] = i)
      BY SMTT(20), <3>1, <1>4
    <3>3. idOf[q] # i
      BY Zenon, <3>1, <3>2, <2>2, <1>1, <1>inv DEF UniqueIds, Made
    <3>4. Registered(q)
      BY Zenon, <3>1, <3>2, <2>2, <1>inv DEF Linked, RegistryLinked
    <3> QED BY Zenon, <3>3, <3>4, <1>5
  <2> QED BY Zenon, <2>1, <2>2
<1>8. ASSUME NEW u \in Task, u # t PROVE Chain(u)' /\ NoneMissed(u)'
  <2>1. /\ pc'[u] = pc[u] /\ base'[u] = base[u] /\ top'[u] = top[u]
        /\ stack'[u] = stack[u] /\ todo'[u] = todo[u]
    BY SMTT(20), <1>8, <1>inv DEF Detach, Finish, TaskTypeOK
  <2> QED BY Zenon, <2>1, <1>3, <1>5, OtherTask
<1>9. Chain(t)' /\ NoneMissed(t)'
  <2>1. CASE o = base[t]
    <3>1. Finish(t, "deleted")
      BY Zenon, <2>1 DEF Detach
    <3> QED BY Zenon, <3>1, <1>3, <1>5, FinishStep
  <2>2. CASE o # base[t]
    <3>1. /\ pc'[t] = "walk" /\ top'[t] = p /\ stack'[t] = stack[t] \ {o}
          /\ base' = base /\ todo' = todo
      BY Zenon, <2>2, <1>inv DEF Detach, TaskTypeOK
    <3>2. /\ depth[o] = depth[p] + 1 /\ depth[p] \in Nat
      BY Zenon, <1>1, <2>2, <1>inv DEF Links, TreeTypeOK, Made
    <3>3. /\ base[t] \in stack[t]
          /\ \A x \in stack[t] :
               /\ Made(x) /\ (x # base[t] => x # Root /\ parent[x] \in stack[t])
               /\ depth[x] \in Nat /\ depth[x] <= depth[o]
               /\ \A y \in stack[t] : depth[x] = depth[y] => x = y
      <4>1. \A x \in stack[t] : depth[x] \in Nat
        BY Zenon, <1>inv DEF TreeTypeOK, TaskTypeOK
      <4>2. Chain(t) /\ pc[t] # "idle"
        BY Zenon, <1>1, <1>inv
      <4> QED BY Zenon, <4>1, <4>2 DEF Chain
    <3>4. \A x \in stack[t] \ {o} : depth[x] <= depth[p] /\ parent[x] # o
      <4> SUFFICES ASSUME NEW x \in stack[t] \ {o}
                   PROVE  depth[x] <= depth[p] /\ parent[x] # o
        BY Zenon
      <4>1. depth[x] # depth[o]
        BY Zenon, <3>3, <1>1
      <4>2. depth[x] <= depth[p]
        BY <4>1, <3>2, <3>3, SMTT(60)
      <4>3. x # Root => depth[x] = depth[parent[x]] + 1
        BY <3>3, <1>inv, SMTT(60) DEF Links, TaskTypeOK
      <4>4. parent[Root] = None
        BY Zenon, <1>inv DEF Links
      <4> QED BY <4>2, <4>3, <4>4, <3>2, <1>1
    <3>5. Chain(t)'
      <4>1. base'[t] \in stack'[t] /\ top'[t] \in stack'[t]
        BY <3>1, <3>2, <3>3, <1>1, <2>2, SMTT(60)
      <4> HIDE DEF o, p
      <4> QED BY Zenon, <4>1, <3>1, <3>3, <3>4, <1>3 DEF Chain, Made
    <3>6. NoneMissed(t)'
      BY Zenon, <3>1, <1>1, <1>3, <1>5, <1>inv DEF NoneMissed
    <3> QED BY Zenon, <3>5, <3>6
  <2> QED BY Zenon, <2>1, <2>2
<1>10. OrphansAreLate'
  <2> SUFFICES ASSUME ~ReuseIds, NEW q \in Obj \ {Root}, Registered(q), idOf[q] # i,
                      ~Registered(parent[q])', q \notin late
               PROVE  FALSE
    BY Zenon, <1>3, <1>5 DEF OrphansAreLate
  <2>1. Made(q) /\ parent[q] \in Obj /\ Made(parent[q]) /\ Registered(parent[q])
    BY Zenon, <1>inv DEF OrphansAreLate, Links, Registered, Made
  <2>2. parent[q] = o
    BY Zenon, <2>1, <1>1, <1>3, <1>5, <1>inv DEF UniqueIds, Made
  <2>3. q \in stack[t]
    BY Zenon, <2>2, <1>1, <1>inv DEF NoneMissed
  <2>4. depth[q] = depth[o] + 1 /\ depth[o] \in Nat
    BY <2>1, <2>2, <1>1, <1>inv, SMTT(60) DEF Links, TreeTypeOK
  <2> QED BY <2>3, <2>4, <1>1, <1>inv, SMTT(60) DEF Chain
<1> QED
  BY Zenon, <1>2, <1>6, <1>7, <1>8, <1>9, <1>10 DEF IInv

-----------------------------------------------------------------------------
\* The invariant is inductive.
LEMMA NextIInv == IInv /\ [Next]_vars => IInv'
<1> SUFFICES ASSUME IInv, [Next]_vars PROVE IInv'
  BY Zenon
<1>1. CASE CreateSome
  BY Zenon, <1>1, CreateStep DEF CreateSome
<1>2. CASE UpdateSome
  BY Zenon, <1>2, UpdateStep DEF UpdateSome
<1>3. ASSUME NEW t \in Task, DeleteStep(t) PROVE IInv'
  BY Zenon, <1>3, StartStep, LockedStep, DescendStep, AbortStep, HookStep, DetachStep
     DEF DeleteStep
<1>4. CASE UNCHANGED vars
  <2>1. UNCHANGED <<treeVars, late>> /\ UNCHANGED taskVars
    BY Zenon, <1>4 DEF vars
  <2>2. \A u \in Task : Chain(u)' /\ NoneMissed(u)'
    BY Zenon, <2>1, TreeFrame, OtherTask DEF treeVars, taskVars
  <2>3. TypeOK'
    BY Zenon, <2>1 DEF IInv, TypeOK, TreeTypeOK, TaskTypeOK, treeVars, taskVars
  <2> QED BY Zenon, <2>1, <2>2, <2>3, TreeFrame DEF IInv
<1> QED
  BY Zenon, <1>1, <1>2, <1>3, <1>4 DEF Next

\* The invariant holds in every state of every behaviour.
THEOREM Invariance == Spec => []IInv
  BY InitIInv, NextIInv, PTL DEF Spec

\* Every variable keeps its type through creation, update and cascade delete.
THEOREM TypeCorrect == Spec => []TypeOK
  BY Invariance, PTL DEF IInv

\* The flat registry and the tree of `_children` hold the same agents
\* (Kernel.register / unregister against Agent._children).
THEOREM RegistryAgrees == Spec => []RegistryLinked
  BY Invariance, PTL DEF IInv

\* Interleaved, aborted and cancelled cascades never remove an agent and leave
\* its child, unless the child was born under a dying parent.
THEOREM NoOrphans == Spec => []OrphansAreLate
  BY Invariance, PTL DEF IInv

-----------------------------------------------------------------------------
\* Every step keeps the names resolvable: creation sets the index, the alias and
\* the inbox together, Kernel.unregister drops the three together, and no other
\* step touches them.
LEMMA NamesStep == IInv /\ NamesResolve /\ [Next]_vars => NamesResolve'
<1> SUFFICES ASSUME IInv, NamesResolve, [Next]_vars PROVE NamesResolve'
  BY Zenon
<1>inv. TreeTypeOK /\ TaskTypeOK /\ \A u \in Task : Chain(u)
  BY Zenon DEF IInv, TypeOK
<1> USE TreeConstants
<1>1. ASSUME NEW p \in Obj, NEW o \in Obj, NEW i \in Id, NEW a \in Alias \cup {None},
             NEW b \in LockVals, Create(p, o, i, a, b)
      PROVE  NamesResolve'
  <2>1. /\ \A j \in Id : agents'[j] = IF j = i THEN o ELSE agents[j]
        /\ \A x \in Alias : wellKnown'[x] = IF x = a THEN i ELSE wellKnown[x]
        /\ inboxes' = inboxes \cup {i}
    BY <1>1, <1>inv DEF TreeTypeOK, Create, Construct, Register
  <2>2. ASSUME NEW x \in Alias, wellKnown'[x] # None PROVE agents'[wellKnown'[x]] # None
    <3>1. CASE x = a
      BY ZenonT(30), <3>1, <2>1
    <3>2. CASE x # a
      BY SMTT(20), <3>2, <2>1, <2>2, <1>inv DEF NamesResolve, TreeTypeOK
    <3> QED BY Zenon, <3>1, <3>2
  <2>3. \A j \in Id : agents'[j] # None <=> j \in inboxes'
    BY SMTT(20), <2>1 DEF NamesResolve
  <2> QED BY Zenon, <2>2, <2>3 DEF NamesResolve
<1>2. ASSUME NEW t \in Task, Detach(t) PROVE NamesResolve'
  <2>1. idOf[top[t]] \in Id
    BY <1>2, <1>inv DEF Detach, TreeTypeOK, TaskTypeOK, Chain, Made
  <2>2. PICK i \in Id : i = idOf[top[t]]
    BY Zenon, <2>1
  <2>3. Unregister(i)
    BY Zenon, <1>2, <2>2 DEF Detach
  <2>4. /\ \A j \in Id : agents'[j] = IF j = i THEN None ELSE agents[j]
        /\ \A x \in Alias : wellKnown'[x] = IF wellKnown[x] = i THEN None ELSE wellKnown[x]
        /\ inboxes' = inboxes \ {i}
    BY Zenon, <2>3, <1>inv DEF TreeTypeOK, Unregister
  <2> QED BY SMTT(20), <2>4, <1>inv DEF NamesResolve, TreeTypeOK
<1>3. ASSUME UNCHANGED <<agents, wellKnown, inboxes>> PROVE NamesResolve'
  BY ZenonT(30), <1>3 DEF NamesResolve
<1>4. CASE UpdateSome
  BY ZenonT(30), <1>4, <1>3 DEF UpdateSome, Update
<1>5. ASSUME NEW t \in Task, DeleteStep(t) PROVE NamesResolve'
  BY ZenonT(30), <1>5, <1>2, <1>3 DEF DeleteStep, DeleteStart, DeleteLocked, Descend, ChildVanished,
     OnDelete, CancelDelete, treeVars
<1>6. CASE UNCHANGED vars
  BY Zenon, <1>6, <1>3 DEF vars, treeVars
<1> QED
  BY Zenon, <1>1, <1>4, <1>5, <1>6 DEF Next, CreateSome

\* Every alias and every registered id leads to a live agent with an inbox, for
\* any number of agents and aliases, ids re-used or not (Kernel.register,
\* Kernel.unregister).
THEOREM NamesAlwaysResolve == Spec => []NamesResolve
<1>1. Init => NamesResolve
  BY TreeConstants DEF Init, NamesResolve
<1> QED
  BY <1>1, NamesStep, Invariance, PTL DEF Spec

-----------------------------------------------------------------------------
\* What a delete was called on stays below its base: every set that has the base
\* and, with an agent, the doomed agents whose parent it is, has them all.
Below(t) ==
  \A S \in SUBSET Obj :
    (base[t] \in S /\ \A x \in doomed[t] : parent[x] \in S => x \in S) => doomed[t] \subseteq S

\* The strengthening of DeletedMeansGone: the offspring of a late agent is late,
\* the agents of a call exist since the call, and a delete that still runs has not
\* answered and knows its subtree.
GoneInv ==
  /\ \A q \in late : Made(q)
  /\ \A q \in Obj : (Made(q) /\ parent[q] \in late) => q \in late
  /\ \A t \in Task : \A x \in doomed[t] : Made(x)
  /\ \A t \in Task : pc[t] # "idle" => result[t] # "deleted" /\ Below(t)
  /\ DeletedMeansGone

\* The agents below o all exist, and following `parent` from any of them leads
\* to o (Agent._children against Agent.parent).
LEMMA SubtreeBelow ==
  ASSUME IInv, NEW o \in Obj, Made(o)
  PROVE  /\ \A x \in Subtree(o) : Made(x)
         /\ \A S \in SUBSET Obj :
              (o \in S /\ \A x \in Subtree(o) : parent[x] \in S => x \in S) => Subtree(o) \subseteq S
<1>inv. TreeTypeOK /\ Links
  BY Zenon DEF IInv, TypeOK
<1> USE TreeConstants
<1>1. \A p \in Obj : \A c \in ChildrenOf(p) : c \in Obj /\ Made(c) /\ parent[c] = p
  BY <1>inv DEF ChildrenOf, TreeTypeOK, Links, Made
<1>2. \A S \in SUBSET Obj :
        (o \in S /\ \A p \in S : ChildrenOf(p) \subseteq S) => Subtree(o) \subseteq S
  BY Zenon DEF Subtree
<1>3. \A x \in Subtree(o) : Made(x)
  <2>1. PICK M \in SUBSET Obj : M = {x \in Obj : Made(x)}
    BY ZenonT(30)
  <2>2. o \in M /\ \A p \in M : ChildrenOf(p) \subseteq M
    BY Zenon, <2>1, <1>1
  <2> QED BY Zenon, <2>1, <2>2, <1>2
<1>4. o \in Subtree(o) /\ \A p \in Subtree(o) : p \in Obj /\ ChildrenOf(p) \subseteq Subtree(o)
  BY Zenon, <1>1 DEF Subtree
<1>5. ASSUME NEW S \in SUBSET Obj, o \in S,
             \A x \in Subtree(o) : parent[x] \in S => x \in S
      PROVE  Subtree(o) \subseteq S
  <2>1. PICK M \in SUBSET Obj : M = S \cap Subtree(o)
    BY ZenonT(30)
  <2>2. o \in M /\ \A p \in M : ChildrenOf(p) \subseteq M
    BY Zenon, <2>1, <1>1, <1>4, <1>5
  <2> QED BY Zenon, <2>1, <2>2, <1>2
<1> QED BY Zenon, <1>3, <1>5

\* A step that leaves the agents, the calls and their answers alone, or registers
\* none of the agents that exist, preserves the strengthening.
LEMMA GoneFrame ==
  ASSUME IInv, GoneInv, NEW t \in Task,
         UNCHANGED <<idOf, parent, late, doomed>>,
         \A u \in Task \ {t} : pc'[u] = pc[u] /\ base'[u] = base[u] /\ result'[u] = result[u],
         \A q \in Obj : Registered(q)' => Registered(q),
         pc'[t] # "idle" => result'[t] # "deleted" /\ pc[t] # "idle" /\ base'[t] = base[t],
         (result'[t] = "deleted" /\ ~ReuseIds) => \A o \in doomed[t] \ late : ~Registered(o)'
  PROVE  GoneInv'
<1>1. /\ \A q \in late' : Made(q)'
      /\ \A q \in Obj : (Made(q)' /\ parent'[q] \in late') => q \in late'
  BY ZenonT(30) DEF GoneInv, Made
<1>2. \A u \in Task : \A x \in doomed'[u] : Made(x)'
  BY Zenon DEF GoneInv, Made
<1>3. \A u \in Task : pc'[u] # "idle" => result'[u] # "deleted" /\ base'[u] = base[u] /\ Below(u)
  BY Zenon DEF GoneInv
<1>4. \A u \in Task : base'[u] = base[u] => (Below(u)' <=> Below(u))
  BY Zenon DEF Below
<1>5. doomed \in [Task -> SUBSET Obj]
  BY Zenon DEF IInv, TypeOK, TaskTypeOK
<1>6. DeletedMeansGone'
  <2> SUFFICES ASSUME ~ReuseIds, NEW u \in Task, result'[u] = "deleted",
                      NEW o \in doomed[u] \ late
               PROVE  ~Registered(o)'
    BY ZenonT(30) DEF DeletedMeansGone
  <2>1. CASE u = t
    BY ZenonT(30), <2>1
  <2>2. CASE u # t
    BY Zenon, <2>2, <1>5 DEF GoneInv, DeletedMeansGone
  <2> QED BY ZenonT(30), <2>1, <2>2
<1> QED
  BY Zenon, <1>1, <1>2, <1>3, <1>4, <1>6 DEF GoneInv

\* Agent.create: the new instance is in no earlier call, and below a late agent
\* it is late.
LEMMA GoneCreate ==
  ASSUME IInv, GoneInv, NEW p \in Obj, NEW o \in Obj, NEW i \in Id,
         NEW a \in Alias \cup {None}, NEW b \in LockVals, Create(p, o, i, a, b)
  PROVE  GoneInv'
<1>inv. TreeTypeOK /\ TaskTypeOK /\ Links
  BY Zenon DEF IInv, TypeOK
<1> USE TreeConstants
<1>1. /\ Made(p) /\ ~Made(o) /\ o # Root /\ agents[i] = None
      /\ UNCHANGED <<pc, base, result, doomed>>
      /\ late \subseteq late' /\ late' \subseteq late \cup {o}
      /\ p \in late => o \in late'
  BY Zenon, <1>inv DEF Links, Create, Made, taskVars
<1>2. /\ \A q \in Obj \ {o} : idOf'[q] = idOf[q] /\ parent'[q] = parent[q]
      /\ idOf'[o] = i /\ parent'[o] = p
  BY Zenon, <1>inv DEF TreeTypeOK, Create, Construct
<1>3. \A j \in Id : agents'[j] = IF j = i THEN o ELSE agents[j]
  BY Zenon, <1>inv DEF TreeTypeOK, Create, Construct, Register
<1>4. \A t \in Task : \A x \in doomed[t] : x \in Obj \ {o} /\ Made(x)
  BY ZenonT(30), <1>1, <1>inv DEF GoneInv, TaskTypeOK
<1>5. ASSUME NEW q \in Obj, Made(q)', parent'[q] \in late' PROVE q \in late'
  <2>1. CASE q = o
    BY Zenon, <2>1, <1>1, <1>2, <1>5
  <2>2. CASE q # o
    <3>1. Made(q) /\ parent'[q] = parent[q]
      BY Zenon, <2>2, <1>2, <1>5 DEF Made
    <3>2. parent[q] # o
      BY <3>1, <1>1, <1>inv DEF Links
    <3> QED BY Zenon, <3>1, <3>2, <1>1, <1>5 DEF GoneInv
  <2> QED BY Zenon, <2>1, <2>2
<1>6. /\ \A t \in Task : \A x \in doomed'[t] : Made(x)'
      /\ \A q \in late' : Made(q)'
  BY ZenonT(30), <1>1, <1>2, <1>4, <1>inv DEF Made, GoneInv, TaskTypeOK
<1>7. \A t \in Task : Below(t) => Below(t)'
  BY ZenonT(30), <1>1, <1>2, <1>4 DEF Below
<1>8. DeletedMeansGone'
  <2> SUFFICES ASSUME ~ReuseIds, NEW t \in Task, result[t] = "deleted",
                      NEW x \in doomed[t] \ late, Registered(x)'
               PROVE  FALSE
    BY ZenonT(30), <1>1 DEF DeletedMeansGone
  <2>1. x \in Obj \ {o} /\ Made(x) /\ idOf'[x] = idOf[x] /\ idOf[x] \in Id
    BY <1>2, <1>4, <1>inv DEF Made, TreeTypeOK
  <2>2. Registered(x)
    BY ZenonT(30), <2>1, <1>3 DEF Registered
  <2> QED BY ZenonT(30), <2>2 DEF GoneInv, DeletedMeansGone
<1> QED
  BY Zenon, <1>1, <1>5, <1>6, <1>7, <1>8 DEF GoneInv

\* Agent.delete starts: the call is on the subtree of its base.
LEMMA GoneStart ==
  ASSUME IInv, GoneInv, NEW t \in Task, NEW i \in Id, DeleteStart(t, i)
  PROVE  GoneInv'
<1>inv. TreeTypeOK /\ TaskTypeOK /\ Links
  BY Zenon DEF IInv, TypeOK
<1> USE TreeConstants
<1>1. PICK o \in Obj : o = agents[i]
  BY Zenon, <1>inv DEF DeleteStart, TreeTypeOK
<1>2. Made(o)
  BY SMTT(20), <1>1, <1>inv DEF DeleteStart, Links, Made
<1>3. /\ UNCHANGED <<idOf, parent, agents, late>>
      /\ pc' = [pc EXCEPT ![t] = "walk"] /\ base' = [base EXCEPT ![t] = o]
      /\ doomed' = [doomed EXCEPT ![t] = Subtree(o)] /\ result' = [result EXCEPT ![t] = "none"]
  BY Zenon, <1>1 DEF DeleteStart, treeVars
<1>4. /\ \A u \in Task \ {t} : /\ pc'[u] = pc[u] /\ base'[u] = base[u]
                               /\ doomed'[u] = doomed[u] /\ result'[u] = result[u]
      /\ base'[t] = o /\ doomed'[t] = Subtree(o) /\ result'[t] = "none"
  BY Zenon, <1>3, <1>inv DEF TaskTypeOK
<1>5. /\ \A q \in late' : Made(q)'
      /\ \A q \in Obj : (Made(q)' /\ parent'[q] \in late') => q \in late'
  BY ZenonT(30), <1>3 DEF GoneInv, Made
<1>6. \A u \in Task : \A x \in doomed'[u] : Made(x)'
  BY SMTT(20), <1>2, <1>3, <1>4, SubtreeBelow DEF GoneInv, Made
<1>7. Below(t)'
  BY SMTT(20), <1>2, <1>3, <1>4, SubtreeBelow DEF Below
<1>8. \A u \in Task \ {t} : Below(u) => Below(u)'
  BY Zenon, <1>3, <1>4 DEF Below
<1>9. DeletedMeansGone'
  BY SMTT(20), <1>3, <1>4 DEF GoneInv, DeletedMeansGone, Registered
<1> QED
  BY ZenonT(30), <1>4, <1>5, <1>6, <1>7, <1>8, <1>9 DEF GoneInv

\* The hook is over.  When the base itself goes, the doomed agents that are late or
\* no longer registered hold the base and, by OrphansAreLate in the new state, with
\* an agent its doomed children: they are all of them.
LEMMA GoneDetach ==
  ASSUME IInv, GoneInv, IInv', NEW t \in Task, Detach(t)
  PROVE  GoneInv'
<1>inv. TreeTypeOK /\ TaskTypeOK /\ Links /\ Chain(t)
  BY Zenon DEF IInv, TypeOK
<1> USE TreeConstants
<1>1. pc[t] = "hook" /\ top[t] \in Obj /\ idOf[top[t]] \in Id
  BY <1>inv DEF Detach, TreeTypeOK, TaskTypeOK, Chain, Made
<1>2. PICK o \in Obj, i \in Id : o = top[t] /\ i = idOf[o]
  BY Zenon, <1>1
<1>3. UNCHANGED <<idOf, parent, late, doomed>> /\ Unregister(i)
  BY Zenon, <1>2 DEF Detach
<1>4. /\ \A q \in Obj : Registered(q)' => Registered(q)
      /\ ~Registered(o)'
  BY Zenon, <1>2, <1>3, <1>inv DEF Unregister, Registered, TreeTypeOK
<1>5. \A u \in Task \ {t} : pc'[u] = pc[u] /\ base'[u] = base[u] /\ result'[u] = result[u]
  BY SMTT(20), <1>inv DEF Detach, Finish, TaskTypeOK
<1>6. CASE o # base[t]
  <2>1. base' = base /\ result' = result
    BY Zenon, <1>2, <1>6 DEF Detach
  <2>2. result[t] # "deleted"
    BY Zenon, <1>1 DEF GoneInv
  <2> QED BY Zenon, <2>1, <2>2, <1>1, <1>3, <1>4, <1>5, GoneFrame
<1>7. CASE o = base[t]
  <2>1. pc'[t] = "idle"
    BY <1>2, <1>7, <1>inv DEF Detach, Finish, TaskTypeOK
  <2>2. ASSUME ~ReuseIds PROVE \A x \in doomed[t] \ late : ~Registered(x)'
    <3>1. PICK S \in SUBSET Obj : S = {x \in Obj : x \in late \/ ~Registered(x)'}
      BY ZenonT(30)
    <3>2. base[t] \in S
      BY Zenon, <3>1, <1>4, <1>7
    <3>3. ASSUME NEW x \in doomed[t], parent[x] \in S PROVE x \in S
      <4>1. x \in Obj /\ Made(x) /\ x # Root
        BY ZenonT(30), <3>1, <3>3, <1>inv DEF GoneInv, TaskTypeOK, Links
      <4>2. parent[x] \in late => x \in late
        BY ZenonT(30), <4>1 DEF GoneInv
      <4>3. ~Registered(parent[x])' => (Registered(x)' => x \in late)
        BY ZenonT(30), <4>1, <2>2, <1>3 DEF IInv, OrphansAreLate
      <4> QED BY ZenonT(30), <4>1, <4>2, <4>3, <3>1, <3>3, <1>3 DEF Registered
    <3>4. Below(t)
      BY ZenonT(30), <1>1 DEF GoneInv
    <3>5. doomed[t] \subseteq S
      BY ZenonT(30), <3>2, <3>3, <3>4 DEF Below
    <3> QED BY Zenon, <3>1, <3>5
  <2> QED BY ZenonT(30), <2>1, <2>2, <1>3, <1>4, <1>5, GoneFrame
<1> QED BY Zenon, <1>6, <1>7

\* No delete has been called in the initial state.
LEMMA InitGone == Init => GoneInv
  BY Zenon, TreeConstants DEF Init, GoneInv, DeletedMeansGone

\* Every step preserves the strengthening.
LEMMA GoneStep == IInv /\ GoneInv /\ [Next]_vars => GoneInv'
<1> SUFFICES ASSUME IInv, GoneInv, [Next]_vars PROVE GoneInv'
  BY Zenon
<1>inv. TaskTypeOK /\ \A u \in Task : doomed[u] \in SUBSET Obj
  BY Zenon DEF IInv, TypeOK, TaskTypeOK
<1>1. ASSUME UNCHANGED <<idOf, parent, agents, late, doomed, pc, base, result>> PROVE GoneInv'
  BY Zenon, <1>1 DEF GoneInv, Made, Below, DeletedMeansGone, Registered
<1>2. CASE CreateSome
  BY Zenon, <1>2, GoneCreate DEF CreateSome
<1>3. CASE UpdateSome
  BY Zenon, <1>3, <1>1 DEF UpdateSome, Update, taskVars
<1>4. ASSUME NEW t \in Task, NEW i \in Id, DeleteLocked(t, i) PROVE GoneInv'
  <2>1. /\ pc[t] = "idle" /\ result' = [result EXCEPT ![t] = "locked"]
        /\ UNCHANGED <<idOf, parent, agents, late, doomed, pc, base>>
    BY Zenon, <1>4 DEF DeleteLocked, treeVars
  <2>2. result'[t] = "locked" /\ \A u \in Task \ {t} : result'[u] = result[u]
    BY Zenon, <2>1, <1>inv DEF TaskTypeOK
  <2>3. \A q \in Obj : Registered(q)' => Registered(q)
    BY Zenon, <2>1 DEF Registered
  <2> QED BY Zenon, <2>1, <2>2, <2>3, GoneFrame
<1>5. ASSUME NEW t \in Task, NEW i \in Id, Descend(t, i) PROVE GoneInv'
  BY Zenon, <1>5, <1>1 DEF Descend, treeVars
<1>6. ASSUME NEW t \in Task, (\E i \in Id : ChildVanished(t, i)) \/ CancelDelete(t)
      PROVE  GoneInv'
  <2>1. PICK r \in {"raised", "cancelled"} : Finish(t, r)
    BY Zenon, <1>6 DEF ChildVanished, CancelDelete
  <2>2. UNCHANGED <<idOf, parent, agents, late, doomed>>
    BY Zenon, <1>6 DEF ChildVanished, CancelDelete, treeVars
  <2>3. /\ pc'[t] = "idle" /\ result'[t] # "deleted"
        /\ \A u \in Task \ {t} : pc'[u] = pc[u] /\ base'[u] = base[u] /\ result'[u] = result[u]
    BY Zenon, <2>1, <1>inv DEF Finish, TaskTypeOK
  <2>4. \A q \in Obj : Registered(q)' => Registered(q)
    BY Zenon, <2>2 DEF Registered
  <2> QED BY Zenon, <2>2, <2>3, <2>4, GoneFrame
<1>7. ASSUME NEW t \in Task, OnDelete(t) PROVE GoneInv'
  <2>1. /\ pc[t] = "walk" /\ pc' = [pc EXCEPT ![t] = "hook"]
        /\ UNCHANGED <<idOf, parent, agents, late, doomed, base, result>>
    BY ZenonT(30), <1>7 DEF OnDelete, treeVars
  <2>2. pc'[t] = "hook" /\ \A u \in Task \ {t} : pc'[u] = pc[u]
    BY Zenon, <2>1, <1>inv DEF TaskTypeOK
  <2>3. result[t] # "deleted"
    BY ZenonT(30), <2>1 DEF GoneInv
  <2>4. \A q \in Obj : Registered(q)' => Registered(q)
    BY Zenon, <2>1 DEF Registered
  <2> QED BY ZenonT(30), <2>1, <2>2, <2>3, <2>4, GoneFrame
<1>8. ASSUME NEW t \in Task, Detach(t) PROVE GoneInv'
  BY Zenon, <1>8, GoneDetach, DetachStep
<1>9. CASE UNCHANGED vars
  BY Zenon, <1>9, <1>1 DEF vars, treeVars, taskVars
<1>10. ASSUME NEW t \in Task, DeleteStep(t) PROVE GoneInv'
  BY Zenon, <1>10, <1>4, <1>5, <1>6, <1>7, <1>8, GoneStart DEF DeleteStep
<1> QED
  BY Zenon, <1>2, <1>3, <1>9, <1>10 DEF Next

\* {deleted: true} means that every agent of the subtree at the call has left the
\* registry, late births apart, whatever deletes overlap, abort or are cancelled
\* (Agent.delete, _cascade_delete).
THEOREM DeleteIsTrue == Spec => []DeletedMeansGone
<1>1. GoneInv => DeletedMeansGone
  BY Zenon DEF GoneInv
<1> QED
  BY <1>1, InitGone, GoneStep, Invariance, PTL DEF Spec

-----------------------------------------------------------------------------
\* An id that names one instance names the one that CHOOSE finds.
LEMMA NamedOne ==
  ASSUME NEW f, NEW o \in Obj, \A q \in Obj : f[q] = f[o] => q = o
  PROVE  (CHOOSE q \in Obj : f[q] = f[o]) = o
  BY Zenon

\* Where ids are minted, the mapped parent of an agent's id is the id of its
\* parent (Agent.parent_id).
LEMMA ParentIds ==
  ASSUME IInv, ~ReuseIds, NEW o \in Obj, Made(o)
  PROVE  /\ ObjOf(idOf[o]) = o
         /\ ParentId(idOf[o]) = IF parent[o] = None THEN None ELSE idOf[parent[o]]
<1>1. \A q \in Obj : idOf[q] = idOf[o] => q = o
  BY Zenon DEF IInv, UniqueIds
<1>2. ObjOf(idOf[o]) = o
  BY Zenon, <1>1, NamedOne DEF ObjOf
<1>3. idOf[o] \in UsedIds
  BY Zenon DEF UsedIds, Made
<1> QED BY Zenon, <1>2, <1>3 DEF ParentId

\* Agent.create is AddAgent.
LEMMA CreateAdds ==
  ASSUME IInv, GoneInv, ~ReuseIds, NEW p \in Obj, NEW o \in Obj, NEW i \in Id,
         NEW a \in Alias \cup {None}, NEW b \in LockVals, Create(p, o, i, a, b)
  PROVE  Abstract!AddAgent(idOf[p], i)
<1>inv. TreeTypeOK /\ TaskTypeOK /\ Links /\ UniqueIds
  BY Zenon DEF IInv, TypeOK
<1> USE TreeConstants
<1>1. /\ Made(p) /\ ~Made(o) /\ o # Root /\ p # o /\ agents[i] = None
      /\ \A q \in Obj : idOf[q] # i
      /\ late' = IF Dying(p) \/ p \in late THEN late \cup {o} ELSE late
  BY ZenonT(30), <1>inv DEF Links, Create, Made
<1>2. /\ \A q \in Obj \ {o} : idOf'[q] = idOf[q] /\ parent'[q] = parent[q]
      /\ idOf'[o] = i /\ parent'[o] = p /\ idOf'[p] = idOf[p] /\ idOf[p] \in Id
  BY Zenon, <1>1, <1>inv DEF TreeTypeOK, Create, Construct, Made
<1>3. \A j \in Id : agents'[j] = IF j = i THEN o ELSE agents[j]
  BY Zenon, <1>inv DEF TreeTypeOK, Create, Construct, Register
<1>4. {j \in Id : agents'[j] # None} = {j \in Id : agents[j] # None} \cup {i}
  BY Zenon, <1>3
<1>5. UsedIds' = UsedIds \cup {i} /\ idOf[p] \in UsedIds /\ i \notin UsedIds
  BY <1>1, <1>2 DEF UsedIds, Made
<1>6. [j \in Id |-> ParentId(j)]' = [[j \in Id |-> ParentId(j)] EXCEPT ![i] = idOf[p]]
  <2>1. ParentId(i)' = idOf[p]
    <3>1. \A q \in Obj : idOf'[q] = idOf'[o] => q = o
      BY Zenon, <1>1, <1>2
    <3>2. (CHOOSE q \in Obj : idOf'[q] = i) = o
      BY Zenon, <3>1, <1>2, NamedOne
    <3> QED BY ZenonT(30), <3>2, <1>2, <1>5 DEF ParentId, ObjOf
  <2>2. ASSUME NEW j \in Id \ {i} PROVE ParentId(j)' = ParentId(j)
    <3>1. CASE j \notin UsedIds
      BY Zenon, <3>1, <2>2, <1>5 DEF ParentId
    <3>2. CASE j \in UsedIds
      <4>1. PICK q \in Obj : Made(q) /\ idOf[q] = j
        BY Zenon, <3>2 DEF UsedIds, Made
      <4>2. q # o /\ idOf'[q] = j /\ parent'[q] = parent[q]
        BY ZenonT(30), <4>1, <1>1, <1>2
      <4>3. \A x \in Obj : idOf'[x] = idOf'[q] => x = q
        BY ZenonT(30), <4>1, <4>2, <2>2, <1>2, <1>inv DEF UniqueIds
      <4>4. (CHOOSE x \in Obj : idOf'[x] = j) = q
        BY Zenon, <4>2, <4>3, NamedOne
      <4>5. ParentId(j)' = IF parent[q] = None THEN None ELSE idOf'[parent[q]]
        BY ZenonT(30), <4>2, <4>4, <3>2, <1>5 DEF ParentId, ObjOf
      <4>6. parent[q] = None \/ parent[q] \in Obj \ {o}
        BY ZenonT(30), <4>1, <1>1, <1>inv DEF Links
      <4> QED BY ZenonT(30), <4>1, <4>5, <4>6, <1>2, ParentIds
    <3> QED BY Zenon, <3>1, <3>2
  <2> QED BY ZenonT(30), <2>1, <2>2
<1>7. /\ Dying(p) \/ p \in late => {idOf'[q] : q \in late'} = {idOf[q] : q \in late} \cup {i}
      /\ ~(Dying(p) \/ p \in late) => {idOf'[q] : q \in late'} = {idOf[q] : q \in late}
  <2>1. \A q \in late : q \in Obj \ {o}
    BY ZenonT(30), <1>1, <1>inv DEF GoneInv, TaskTypeOK
  <2>2. \A q \in late : idOf'[q] = idOf[q]
    BY Zenon, <2>1, <1>2
  <2>3. CASE Dying(p) \/ p \in late
    <3>1. late' = late \cup {o}
      BY ZenonT(30), <2>3, <1>1
    <3>2. \A j : j \in {idOf'[q] : q \in late'} <=> j \in {idOf[q] : q \in late} \cup {i}
      BY <3>1, <2>2, <1>2
    <3> QED BY Zenon, <3>2, <2>3
  <2>4. CASE ~(Dying(p) \/ p \in late)
    <3>1. late' = late
      BY Zenon, <2>4, <1>1
    <3> QED BY <3>1, <2>2, <2>4, ZenonT(30)
  <2> QED BY ZenonT(30), <2>3, <2>4
<1>8. ASSUME idOf[p] \notin {j \in Id : agents[j] # None} \/ idOf[p] \in {idOf[q] : q \in late}
      PROVE  Dying(p) \/ p \in late
  <2>1. CASE agents[idOf[p]] = None
    BY Zenon, <2>1 DEF Dying, Registered
  <2>2. CASE idOf[p] \in {idOf[q] : q \in late}
    BY SMTT(20), <2>2, <1>1, <1>inv DEF UniqueIds, TaskTypeOK
  <2> QED BY Zenon, <2>1, <2>2, <1>2, <1>8
<1> QED
  BY ZenonT(30), <1>1, <1>4, <1>5, <1>6, <1>7, <1>8 DEF Abstract!AddAgent

\* The end of a hook is RemoveAgent, or nothing to the observers when another
\* cascade has removed the agent before.
LEMMA DetachRemoves ==
  ASSUME IInv, IInv', ~ReuseIds, NEW t \in Task, Detach(t)
  PROVE  (\E i \in Id : Abstract!RemoveAgent(i)) \/ UNCHANGED Abstract!liveVars
<1>inv. TreeTypeOK /\ TaskTypeOK /\ Links /\ UniqueIds /\ Chain(t)
  BY Zenon DEF IInv, TypeOK
<1> USE TreeConstants
<1>1. top[t] \in Obj /\ idOf[top[t]] \in Id
  BY <1>inv DEF Detach, TreeTypeOK, TaskTypeOK, Chain, Made
<1>2. PICK o \in Obj, i \in Id : o = top[t] /\ i = idOf[o]
  BY ZenonT(30), <1>1
<1>3. UNCHANGED <<idOf, parent, late>> /\ Unregister(i) /\ Made(o)
  BY Zenon, <1>2 DEF Detach, Made
<1>4. \A j \in Id : agents'[j] = IF j = i THEN None ELSE agents[j]
  BY Zenon, <1>3, <1>inv DEF Unregister, TreeTypeOK
<1>5. /\ UsedIds' = UsedIds /\ [j \in Id |-> ParentId(j)]' = [j \in Id |-> ParentId(j)]
      /\ {idOf[q] : q \in late}' = {idOf[q] : q \in late}
  BY <1>3 DEF UsedIds, ParentId, ObjOf
<1>6. CASE agents[i] = None
  <2>1. {j \in Id : agents'[j] # None} = {j \in Id : agents[j] # None}
    BY Zenon, <1>4, <1>6
  <2> QED BY ZenonT(30), <2>1, <1>5 DEF Abstract!liveVars
<1>7. CASE agents[i] # None
  <2>1. {j \in Id : agents'[j] # None} = {j \in Id : agents[j] # None} \ {i}
    BY Zenon, <1>4
  <2>2. ASSUME NEW j \in Id, agents[j] # None, ParentId(j) = i
        PROVE  j \in {idOf[q] : q \in late}
    <3>1. PICK q \in Obj : q = agents[j] /\ idOf[q] = j /\ Made(q)
      BY <2>2, <1>inv DEF TreeTypeOK, Links, Made
    <3>2. parent[q] # None /\ idOf[parent[q]] = i
      BY ZenonT(30), <3>1, <2>2, ParentIds
    <3>3. q # Root /\ parent[q] \in Obj /\ depth[q] = depth[parent[q]] + 1
      BY ZenonT(30), <3>1, <3>2, <1>inv DEF Links
    <3>4. parent[q] = o
      BY ZenonT(30), <3>2, <3>3, <1>2, <1>3, <1>inv DEF UniqueIds
    <3>5. q # o
      BY <3>3, <3>4, <1>inv DEF TreeTypeOK
    <3>6. j # i
      BY ZenonT(30), <3>1, <3>5, <1>2, <1>3, <1>inv DEF UniqueIds
    <3>7. Registered(q)' /\ ~Registered(o)'
      BY ZenonT(30), <3>1, <3>6, <1>2, <1>3, <1>4 DEF Registered
    <3>8. parent'[q] = o
      BY Zenon, <3>4, <1>3
    <3>9. q \in late'
      BY ZenonT(30), <3>3, <3>7, <3>8 DEF IInv, OrphansAreLate
    <3> QED BY Zenon, <3>1, <3>9, <1>3
  <2>3. Abstract!RemoveAgent(i)
    BY ZenonT(30), <2>1, <2>2, <1>5, <1>7 DEF Abstract!RemoveAgent
  <2> QED BY Zenon, <2>3
<1> QED BY Zenon, <1>6, <1>7

\* Every step of the tree is a step of LiveTree or changes nothing its observers
\* see.
LEMMA StepRefines ==
  ~ReuseIds => (IInv /\ GoneInv /\ [Next]_vars => [Abstract!LiveNext]_(Abstract!liveVars))
<1> SUFFICES ASSUME ~ReuseIds, IInv, GoneInv, [Next]_vars
             PROVE  Abstract!LiveNext \/ UNCHANGED Abstract!liveVars
  BY Zenon
<1>1. ASSUME UNCHANGED <<agents, idOf, parent, late>> PROVE UNCHANGED Abstract!liveVars
  <2>1. /\ UsedIds' = UsedIds
        /\ {idOf[o] : o \in late}' = {idOf[o] : o \in late}
        /\ {i \in Id : agents[i] # None}' = {i \in Id : agents[i] # None}
    BY Zenon, <1>1 DEF UsedIds
  <2>2. \A i \in Id : ParentId(i)' = ParentId(i)
    BY <1>1, <2>1 DEF ParentId, ObjOf
  <2> QED BY Zenon, <2>1, <2>2 DEF Abstract!liveVars
<1>2. CASE CreateSome
  <2>1. PICK p, o \in Obj, i \in Id, a \in Alias \cup {None}, b \in LockVals : Create(p, o, i, a, b)
    BY Zenon, <1>2 DEF CreateSome
  <2>2. idOf[p] \in Id
    BY Zenon, <2>1 DEF Create, IInv, TypeOK, TreeTypeOK
  <2>3. Abstract!AddAgent(idOf[p], i)
    BY Zenon, <2>1, CreateAdds
  <2> QED BY Zenon, <2>2, <2>3 DEF Abstract!LiveNext
<1>3. CASE UpdateSome
  BY Zenon, <1>3, <1>1 DEF UpdateSome, Update
<1>4. ASSUME NEW t \in Task, Detach(t)
      PROVE  Abstract!LiveNext \/ UNCHANGED Abstract!liveVars
  BY Zenon, <1>4, DetachStep, DetachRemoves DEF Abstract!LiveNext
<1>5. ASSUME NEW t \in Task, DeleteStep(t)
      PROVE  Abstract!LiveNext \/ UNCHANGED Abstract!liveVars
  BY ZenonT(30), <1>5, <1>4, <1>1 DEF DeleteStep, DeleteStart, DeleteLocked, Descend, ChildVanished,
     OnDelete, CancelDelete, treeVars
<1>6. CASE UNCHANGED vars
  BY Zenon, <1>6, <1>1 DEF vars, treeVars
<1> QED
  BY Zenon, <1>2, <1>3, <1>5, <1>6 DEF Next

\* The tree starts as LiveTree does, with its root alone.
LEMMA InitRefines == Init => Abstract!LiveInit
<1> SUFFICES ASSUME Init PROVE Abstract!LiveInit
  BY Zenon
<1> USE TreeConstants
<1>1. UsedIds = {RootId} /\ {i \in Id : agents[i] # None} = {RootId}
  BY ZenonT(30) DEF Init, UsedIds
<1>2. idOf[Root] = RootId
  BY Zenon DEF Init
<1>3. ObjOf(RootId) \in Obj
  BY ZenonT(30), <1>2 DEF ObjOf
<1>4. \A i \in Id : ParentId(i) = None
  BY Zenon, <1>1, <1>3 DEF Init, ParentId
<1>5. {idOf[o] : o \in late} = {}
  BY Zenon DEF Init
<1> QED
  BY Zenon, <1>1, <1>4, <1>5 DEF Abstract!LiveInit

\* Where ids are minted, the agent tree implements LiveTree for any number of
\* agents and deleting tasks: agents come one at a time, and _cascade_delete
\* takes an agent out of the registry only when none but late children are left.
THEOREM TreeImplementsLiveTree == ~ReuseIds => (Spec => ImplementsLiveTree)
<1> SUFFICES ASSUME ~ReuseIds PROVE Spec => ImplementsLiveTree
  BY Zenon
<1>1. IInv /\ GoneInv /\ [Next]_vars => [Abstract!LiveNext]_(Abstract!liveVars)
  BY Zenon, StepRefines
<1> QED
  BY <1>1, InitGone, GoneStep, InitRefines, Invariance, PTL DEF Spec, ImplementsLiveTree, Abstract!LiveSpec
=============================================================================
