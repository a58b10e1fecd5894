----------------------------- MODULE WebKernel -----------------------------
(***************************************************************************)
(* The browser kernel of src/ts/src/kernel/kernel.ts with the sockets its  *)
(* bridge keeps (WsBridge.conns of transport/bridge.ts).  The page boots   *)
(* once: it loads the snapshot the host answers, or seeds a root, and then *)
(* taps its own state stream (main.ts).  From then on members are added    *)
(* and removed, and views are mounted on and unmounted from the agents     *)
(* they front, through the Host facade of bundles/host.ts.                 *)
(***************************************************************************)
EXTENDS WebTree

CONSTANTS Id,          \* every agent id, of the page or of the host
          RootId, RootBundle,   \* the root main.ts seeds
          OwnReadme,   \* agents whose record carries a readme
          LoaderId,    \* Kernel.persistenceProvider
          Control,     \* controlEndpoint
          Backends,    \* agents of the host; never in this tree
          View, AiView,   \* members that mount a view; chat views also want lifecycle
          Snapshots    \* what load_tree may answer, re-rooted

VARIABLES tree,        \* Kernel.agents
          booted,      \* main.ts has loaded or seeded, and the taps are in place
          gone,        \* ids that Kernel.remove took out
          watchers,    \* Kernel.watchers; a missing entry is the empty set
          inboxes,     \* Kernel.inboxes: the views whose listener is in the list
          conns,       \* keys of WsBridge.conns
          lifecycle,   \* per endpoint: views in the lifecycle set of the present Conn
          mounted      \* the agent each view fronts, None when it is not mounted

kernelVars == <<tree, booted, gone, watchers, inboxes, conns, lifecycle, mounted>>
socketVars == <<conns, lifecycle>>

Init ==
  /\ tree = EmptyTree /\ booted = FALSE /\ gone = {}
  /\ watchers = [i \in Id |-> {}] /\ inboxes = [i \in Id |-> {}]
  /\ conns = {Control} /\ lifecycle = [i \in Id |-> {}]
  /\ mounted = [v \in View |-> None]

-----------------------------------------------------------------------------
\* The tree.

\* main.ts: `load_tree` answered recs.  An empty answer seeds the root; one that
\* validateRecords refuses throws before anything is touched, and the page ends there.
Boot(recs) ==
  /\ ~booted
  /\ recs = {} \/ Valid(recs)
  /\ tree' = IF recs = {} THEN RegisterIn(EmptyTree, RootId, None, RootBundle) ELSE Load(recs)
  /\ booted' = TRUE
  /\ watchers' = [i \in Id |-> {}] /\ inboxes' = [i \in Id |-> {}]
  /\ UNCHANGED <<gone, mounted>> /\ UNCHANGED socketVars

RootOf(t) == {x \in DOMAIN t : t[x].parent = None}

\* Kernel.register of a member under `rootId ?? selfId` (the canvas), with the `added`
\* it publishes.  Ids are minted.
AddMember(id, hm) ==
  /\ booted /\ id \in Id \ (DOMAIN tree \cup gone \cup Backends \cup {RootId, Control})
  /\ \E p \in (IF RootOf(tree) = {} THEN {RootId} ELSE RootOf(tree)) :
       tree' = RegisterIn(tree, id, p, hm)
  /\ UNCHANGED <<booted, gone, watchers, inboxes, mounted>> /\ UNCHANGED socketVars

\* Kernel.remove: the subtree goes, with its inboxes and its watchers.
RemoveMember(id) ==
  LET out == Range(Removes(tree, id))
      without(f) == [i \in Id |-> IF i \in out THEN {} ELSE f[i]]
  IN  /\ booted /\ id \in DOMAIN tree /\ tree[id].parent # None
      /\ tree' = RemoveFrom(tree, id)
      /\ gone' = gone \cup out
      /\ watchers' = without(watchers) /\ inboxes' = without(inboxes)
      /\ UNCHANGED <<booted, mounted>> /\ UNCHANGED socketVars

-----------------------------------------------------------------------------
\* Calls: what Kernel.send does with one, none of which changes the tree.

\* Kernel.resolve
Resolve(target) ==
  IF target = "kernel" /\ RootOf(tree) # {} THEN CHOOSE r \in RootOf(tree) : TRUE ELSE target

reflectIdentity(id) ==
  [id |-> id, parent_id |-> tree[id].parent, handler_module |-> tree[id].hm,
   isRoot |-> tree[id].parent = None]

\* flag: what is not a string is not given.
flag(v, fallback) == IF v = None THEN fallback ELSE v

With(obj, cond, key, value) == IF cond THEN obj @@ (key :> value) ELSE obj

BundleReadme(id) == IF tree[id].hm \in Bundles THEN "bundle" ELSE None

\* applyReflectFlags
applyReflectFlags(id, payload, obj) ==
  LET root    == With(obj, tree[id].parent = None, "persistence", LoaderId)
      kind    == flag(payload.tree, "all")
      nested  == With(root, kind = "all", "tree", treeNode(tree, id))
      listed  == With(nested, kind = "ids", "ids", descendantIds(tree, id))
      bundles == With(listed, flag(payload.bundles, "none") # "none", "bundles", Bundles)
  IN  With(bundles, payload.readme, "readme",
           IF id \in OwnReadme THEN "own" ELSE BundleReadme(id))

\* Kernel.send: who answers, and what, when that is the kernel itself.
Send(target, verb, payload) ==
  LET id == Resolve(target) IN
  CASE id \notin DOMAIN tree -> [by |-> "host", id |-> id]
    [] verb = "reflect" /\ id \in DOMAIN tree ->
         [by |-> "kernel", reply |-> applyReflectFlags(id, payload, reflectIdentity(id))]
    [] OTHER -> [by |-> IF Handled(tree, id) THEN "handler" ELSE "bare", id |-> id]

-----------------------------------------------------------------------------
\* Watches and sockets.

\* `local === undefined || local.handler === null`
Remote(id) == ~Handled(tree, id)

\* Kernel.emit: how often one event of id reaches the listener of view v: through the
\* inbox of id, and through the inbox of each watcher of id.
Delivered(id, v) ==
  Cardinality({w \in watchers[id] : v \in inboxes[w]}) + (IF v \in inboxes[id] THEN 1 ELSE 0)

\* Kernel.watch for a view, with WsBridge.watchRemote.
Watched(v, src) ==
  /\ watchers' = [watchers EXCEPT ![src] = @ \cup {v}]
  /\ conns' = IF Remote(src) /\ watchers[src] = {} THEN conns \cup {src} ELSE conns

\* Kernel.onInbox, and the function it returns.
OnInbox(v, src) == inboxes' = [inboxes EXCEPT ![src] = @ \cup {v}]
OffInbox(v, src) == inboxes' = [inboxes EXCEPT ![src] = @ \ {v}]

\* A terminal or html view is mounted: Host.on watches and listens.
Mount(v, src) ==
  /\ booted /\ v \notin AiView /\ mounted[v] = None
  /\ src \in Backends \cup DOMAIN tree \cup gone
  /\ Watched(v, src)
  /\ OnInbox(v, src)
  /\ mounted' = [mounted EXCEPT ![v] = src]
  /\ UNCHANGED <<tree, booted, gone, lifecycle>>

\* An ai view is mounted: it also asks WsBridge.onLifecycle, which dials.
MountWithLifecycle(v, src) ==
  /\ booted /\ v \in AiView /\ mounted[v] = None /\ src \in Backends
  /\ watchers' = [watchers EXCEPT ![src] = @ \cup {v}]
  /\ conns' = conns \cup {src}
  /\ lifecycle' = [lifecycle EXCEPT ![src] = @ \cup {v}]
  /\ OnInbox(v, src)
  /\ mounted' = [mounted EXCEPT ![v] = src]
  /\ UNCHANGED <<tree, booted, gone>>

\* WsBridge.unwatchRemote: close and forget the socket, unless it is the control one.
Closes(src) == src # Control /\ src \in conns

\* Mutant: anyone who leaves closes the socket.
AnyWatcher(v, src) == v \in watchers[src] /\ Remote(src)

\* Kernel.unwatch was left with no watcher of a remote agent.
LastWatcher(v, src) == v \in watchers[src] /\ watchers[src] = {v} /\ Remote(src)

\* The view is unmounted: its listeners go, then Host.unwatch.
Unmount(v) ==
  LET src    == mounted[v]
      closes == LastWatcher(v, src) /\ Closes(src)
  IN  /\ src # None
      /\ mounted' = [mounted EXCEPT ![v] = None]
      /\ OffInbox(v, src)
      /\ watchers' = [watchers EXCEPT ![src] = @ \ {v}]
      /\ conns' = IF closes THEN conns \ {src} ELSE conns
      /\ lifecycle' = [lifecycle EXCEPT ![src] = IF closes THEN {} ELSE @ \ {v}]
      /\ UNCHANGED <<tree, booted, gone>>

Next ==
  \/ \E recs \in Snapshots : Boot(recs)
  \/ \E id \in Id, hm \in Bundles \cup {None} : AddMember(id, hm)
  \/ \E id \in Id : RemoveMember(id)
  \/ \E v \in View, src \in Id : Mount(v, src) \/ MountWithLifecycle(v, src)
  \/ \E v \in View : Unmount(v)

-----------------------------------------------------------------------------
\* A mounted view hears its agent, and nothing is held open for a view that left.  An
\* event of the agent reaches the view once (unless the agent watches itself), a socket
\* to a remote agent is dialled, and a chat view's lifecycle listener is on that very
\* socket, whoever else mounted on or left the same agent meanwhile.  Apart from the
\* control one, a socket is kept only for a mounted view, or for an agent that was
\* removed while it was watched: Kernel.remove drops the watchers and never tells the
\* bridge.  (kernel.ts:127 remove, :333 emit, :353 watch, :365 unwatch, host.ts:53)
Served ==
  /\ \A v \in View : LET s == mounted[v] IN
       s # None /\ s \notin gone =>
         /\ s \in watchers[s] \/ Delivered(s, v) = 1
         /\ v \in watchers[s]
         /\ Remote(s) => s \in conns
         /\ v \in AiView => v \in lifecycle[s]
  /\ \A s \in conns \ {Control} : s \in gone \/ \E v \in View : mounted[v] = s

\* What the live tree would save can be loaded again and gives the same tree, unless
\* the root itself was left out at boot, when new members have no parent in the tree.
\* (kernel.ts:142 save, :159 load)
Reloadable ==
  RootOf(tree) # {} => Valid(Save(tree)) /\ Load(Save(tree)) = tree

RECURSIVE Preorder(_)
Preorder(node) ==
  <<node.id>> \o FlattenSeq([i \in 1..Len(node.children) |-> Preorder(node.children[i])])

ChainUp(id) ==
  {x \in DOMAIN tree : \A up \in SUBSET DOMAIN tree :
     (id \in up /\ \A y \in up : tree[y].parent \in DOMAIN tree => tree[y].parent \in up)
       => x \in up}

Asked(kind) == [tree |-> kind, bundles |-> None, readme |-> FALSE]

\* Whatever was added and removed, a reflect of any agent lists exactly the agents whose
\* chain of parents meets it, each once and after its parent, nested and flat alike; a
\* reflect of `kernel` lists the whole tree and is the only one to name the loader;
\* and no id it lists is forwarded to the host when it is called.
\* (kernel.ts:212 resolve, :223 send, reflect.ts:45, :119, :135)
ReflectExact ==
  /\ \A x \in DOMAIN tree :
       LET all == Send(x, "reflect", Asked(None)).reply
           ids == Send(x, "reflect", Asked("ids")).reply.ids
       IN  /\ Preorder(all.tree) = ids
           /\ Range(ids) = {y \in DOMAIN tree : x \in ChainUp(y)}
           /\ Len(ids) = Cardinality(Range(ids))
           /\ \A i, j \in 1..Len(ids) : tree[ids[j]].parent = ids[i] => i < j
           /\ ("persistence" \in DOMAIN all) <=> (RootOf(tree) = {x})
           /\ \A i \in 1..Len(ids) : Send(ids[i], "write", Asked(None)).by # "host"
  /\ RootOf(tree) # {} =>
       Range(Send("kernel", "reflect", Asked("ids")).reply.ids) = DOMAIN tree

AncestorOrSelf(recs, r) ==
  {s \in recs : \A top \in SUBSET recs :
     (r \in top /\ \A x \in top, y \in recs : x.parent = y.id => y \in top) => s \in top}

\* The tree is whole: it survives a save and a load, and `reflect` tells exactly what is
\* in it (kernel.ts:142-209, reflect.ts:45-141).
TreeWhole == Reloadable /\ ReflectExact

\* Weak load: of a valid snapshot exactly those records become agents that have no
\* unknown bundle on the way to the root, themselves included.  (kernel.ts:183 build)
WeakLoadExact ==
  [][~booted /\ booted' => \A recs \in Snapshots \ {{}} : Boot(recs) =>
       DOMAIN tree' = {r.id : r \in {q \in recs :
                         \A s \in AncestorOrSelf(recs, q) : s.hm \in Bundles \cup {None}}}]_kernelVars
=============================================================================
