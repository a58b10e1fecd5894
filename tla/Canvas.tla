------------------------------- MODULE Canvas -------------------------------
(***************************************************************************)
(* The canvas view-agent, bundles/canvas/canvas.ts and gl_host.ts: frames  *)
(* for the members of the local tree.  Every change of the tree starts     *)
(* another refresh(), which runs to its next await and then alternates     *)
(* with the others: a job is a refresh that has not ended.  `live` holds   *)
(* the mounted views that nobody has unmounted.  A record is its lock and  *)
(* its position; a member is drawn inline (a frame with a view) or, if it  *)
(* is in GL, by the GL host.  Zoom, pan and the camera are in Stage.      *)
(***************************************************************************)
EXTENDS Naturals, Sequences, FiniteSets, FiniteSetsExt, SequencesExt

CONSTANTS Term,        \* members a double click makes, with a host backend each
          GL,          \* members drawn by the GL host
          NJobs,       \* refreshes under way at the same time
          MaxChanges,  \* changes of the tree
          MaxActs,     \* GL source changes, reloads and drags
          None

Member == Term \cup GL
Job == 1..NJobs

VARIABLES children,    \* root.children, in order
          rec,         \* the record of each member
          frames,      \* frames: the frame of each member
          live,        \* mounted views
          job,         \* the refreshes
          reloading,   \* members whose reload is mounting
          drag,        \* the member being dragged
          glHost,      \* the GL host canvas.ts holds
          gl,          \* of each GL host: its views, and each member's groups in its scene
          updates,     \* updateView calls that wait for the source
          spawn, up, deleting,   \* double clicks; backends on the host; delete_agent calls
          orphan,      \* ghost: backends a lost call has left behind
          solo,        \* ghost: the last refresh ran to its end and met no other
          overlapped, reloaded,  \* ghosts: refreshes met; something was reloaded
          changes, acts           \* bounds

treeVars == <<children, rec, changes>>
frameVars == <<frames, live, job, solo, overlapped>>
glVars == <<glHost, gl>>
hostVars == <<spawn, up, deleting, orphan>>
uiVars == <<reloading, reloaded, drag, updates, acts>>
canvasVars == <<treeVars, frameVars, glVars, hostVars, uiVars>>

NewRec == [lock |-> FALSE, x |-> 0]
Host == 1..NJobs
Idle == [at |-> "idle", todo |-> <<>>, seen |-> {}, seenGl |-> {}, makes |-> FALSE, solo |-> FALSE]
InTree(m) == m \in ToSet(children)
Index(m) == CHOOSE i \in DOMAIN children : children[i] = m

-----------------------------------------------------------------------------
\* refresh().

\* The members of a snapshot that come before the first one without a frame.
Known(todo, fr) ==
  IF \A i \in DOMAIN todo : fr[todo[i].m] # None THEN Len(todo)
  ELSE Min({i \in DOMAIN todo : fr[todo[i].m] = None}) - 1

\* Mutant: the record of a frame that is there already is not replaced.
KeepRec(f, r) == f

\* existing.rec = rec, and applyRectFromRec.
TakeRec(f, r) == [f EXCEPT !.rec = r, !.x = r.x]

\* The frames after the loop has passed the first n members of a snapshot.
Updated(todo, n, fr) ==
  [m \in Member |->
    IF \E i \in 1..n : todo[i].m = m
    THEN TakeRec(fr[m], todo[CHOOSE i \in 1..n : todo[i].m = m].rec) ELSE fr[m]]

\* The views removeFrame unmounts.
Unmounted(fr, gone) == {fr[m].view : m \in {m \in gone : fr[m] # None}}

\* teardown: the groups of these views leave the scene.
teardown(g, gone) ==
  [views  |-> g.views \ gone,
   groups |-> [m \in GL |-> IF m \in gone \cap g.views THEN g.groups[m] - 1 ELSE g.groups[m]]]

\* prune.
prune(g, keep) == teardown(g, GL \ keep)

\* mountSource.
mountSource(g, m) == [views |-> g.views \cup {m}, groups |-> [g.groups EXCEPT ![m] = @ + 1]]

\* A refresh with snapshot and sights j goes on to its next await: over the members
\* that have a frame, then to the mount or the probe of the next one.  fr are the
\* frames it finds, js the other jobs.
Advance(r, j, js, fr) ==
  LET n == Known(j.todo, fr)
      rest == SubSeq(j.todo, n + 1, Len(j.todo))
  IN  /\ rest # <<>>
      /\ frames' = Updated(j.todo, n, fr)
      /\ job' = [js EXCEPT ![r] =
           [j EXCEPT !.todo = rest, !.seen = @ \cup {j.todo[i].m : i \in 1..n},
                     !.at = IF Head(rest).m \in GL THEN "probe" ELSE "mount"]]
      /\ UNCHANGED solo

\* Or every member is done: what the refresh has not seen is removed and pruned.
Finish(r, j, js, fr) ==
  LET n    == Known(j.todo, fr)
      gone == Member \ (j.seen \cup {j.todo[i].m : i \in 1..n})
  IN  /\ n = Len(j.todo)
      /\ frames' = [m \in Member |-> IF m \in gone THEN None ELSE Updated(j.todo, n, fr)[m]]
      /\ job' = [js EXCEPT ![r] = Idle]
      /\ solo' = j.solo

\* The members a refresh removes on its way: all it has not seen, if it ends.
Removed(j, fr) ==
  LET n == Known(j.todo, fr)
  IN  IF n < Len(j.todo) THEN {} ELSE Member \ (j.seen \cup {j.todo[i].m : i \in 1..n})

\* Its sync part as a whole, with the views lv and the GL hosts g it finds.
Run(r, j, js, fr, lv, g) ==
  /\ Advance(r, j, js, fr) \/ Finish(r, j, js, fr)
  /\ live' = lv \ Unmounted(fr, Removed(j, fr))
  /\ gl' = IF Known(j.todo, fr) = Len(j.todo) /\ glHost' # None
           THEN [g EXCEPT ![glHost'] = prune(@, j.seenGl)] ELSE g

\* A change of the tree to (ch, rc): the state subscriber starts a refresh, which
\* runs to its first await before the change returns.
Changed(ch, rc) ==
  LET idle == {q \in Job : job[q] = Idle}
      r == Min(idle)
      j == [Idle EXCEPT !.todo = [i \in DOMAIN ch |-> [m |-> ch[i], rec |-> rc[ch[i]]]],
                        !.solo = (idle = Job)]
  IN  /\ changes < MaxChanges /\ idle # {}
      /\ changes' = changes + 1
      /\ children' = ch /\ rec' = rc
      /\ overlapped' = (overlapped \/ idle # Job)
      /\ UNCHANGED glHost
      /\ Run(r, j, [q \in Job |-> [job[q] EXCEPT !.solo = FALSE]], frames, live, gl)

\* An instance number no view has.
FreshView == Min({v \in 1..(2 * NJobs + 2 * Cardinality(Member) + MaxActs + 2) :
                    /\ v \notin live
                    /\ \A m \in Member : frames[m] # None => v \notin {frames[m].view, frames[m].orig}})

\* What is left of a job after the member at its head.
Behind(j) == [j EXCEPT !.todo = Tail(@)]

\* The mount mountInline awaits returns: frames.set, then the loop goes on.
MountDone(r) ==
  LET j == job[r]
      m == Head(j.todo).m
      v == FreshView
  IN  /\ j.at = "mount"
      /\ UNCHANGED <<treeVars, hostVars, uiVars, overlapped, glHost>>
      /\ Run(r, [Behind(j) EXCEPT !.seen = @ \cup {m}], job,
             [frames EXCEPT ![m] = [rec |-> Head(j.todo).rec, x |-> Head(j.todo).rec.x,
                                    view |-> v, orig |-> v]],
             live \cup {v}, gl)

\* It rejects (its calls to the host do, on a disconnect): the refresh ends there,
\* before it has removed anything.
MountFails(r) ==
  /\ job[r].at = "mount"
  /\ job' = [job EXCEPT ![r] = Idle]
  /\ solo' = FALSE
  /\ UNCHANGED <<treeVars, hostVars, uiVars, glVars, frames, live, overlapped>>

\* The probe of a GL member answers with a source: ensureGlHost, which makes a host
\* if there is none at this moment.
ProbeGl(r) ==
  /\ job[r].at = "probe"
  /\ job' = [job EXCEPT ![r].at = "glhost", ![r].makes = (glHost = None)]
  /\ UNCHANGED <<treeVars, hostVars, uiVars, glVars, frames, live, solo, overlapped>>

\* It does not answer, or not with a source (the member is gone, the host is away).
ProbeNone(r) ==
  /\ job[r].at = "probe"
  /\ UNCHANGED <<treeVars, hostVars, uiVars, overlapped, glHost>>
  /\ Run(r, Behind(job[r]), job, frames, live, gl)

\* installView: a source that raises leaves nothing behind.
installView(g, m) == IF m \in g.views THEN {g} ELSE {g, mountSource(g, m)}

\* The GL host is there.
GlHostReady(r) ==
  LET j == job[r]
      m == Head(j.todo).m
      h == IF ~j.makes THEN glHost ELSE IF glHost = None THEN 1 ELSE glHost + 1
  IN  /\ j.at = "glhost"
      /\ glHost' = h
      /\ UNCHANGED <<treeVars, hostVars, uiVars, overlapped>>
      /\ \E g \in installView(gl[h], m) :
           Run(r, [Behind(j) EXCEPT !.seenGl = @ \cup {m}], job, frames, live, [gl EXCEPT ![h] = g])

-----------------------------------------------------------------------------
\* GL sources.

\* gl_source_changed of a view: updateView asks for the source.
UpdateView(h, m) ==
  /\ m \in gl[h].views /\ <<h, m>> \notin updates /\ acts < MaxActs
  /\ acts' = acts + 1 /\ updates' = updates \cup {<<h, m>>}
  /\ UNCHANGED <<treeVars, frameVars, glVars, hostVars, reloading, reloaded, drag>>

\* Mutant: the old view is not torn down.
SwappedOver(g, m) == {mountSource(g, m)}

\* teardown and mountSource; the source may raise.
Swapped(g, m) == {teardown(g, {m}), mountSource(teardown(g, {m}), m)}

\* The source has come, or none.
UpdateDone(h, m) ==
  /\ <<h, m>> \in updates
  /\ updates' = updates \ {<<h, m>>}
  /\ \E g \in Swapped(gl[h], m) \cup {gl[h]} : gl' = [gl EXCEPT ![h] = g]
  /\ UNCHANGED <<treeVars, frameVars, hostVars, glHost, reloading, reloaded, drag, acts>>

-----------------------------------------------------------------------------
\* The user.

\* Where a member can be clicked: its frame, or a shell whose view is still mounting.
\* The record a click goes by is the frame's if there is one.
ClickRecs(m) ==
  IF frames[m] # None THEN {frames[m].rec}
  ELSE {Head(job[r].todo).rec : r \in {r \in Job : job[r].at = "mount" /\ Head(job[r].todo).m = m}}

\* kernel.updateMeta and kernel.remove of a member that is gone do nothing.
Unaltered == UNCHANGED <<treeVars, frameVars, glVars>>

\* The lock of a frame.
ToggleLock(m) ==
  /\ \E r \in ClickRecs(m) :
       IF InTree(m) THEN Changed(children, [rec EXCEPT ![m].lock = ~r.lock]) ELSE Unaltered
  /\ UNCHANGED <<hostVars, uiVars>>

\* The close button: the backend it spawned, then the member.
Close(m) ==
  /\ \E r \in ClickRecs(m) : ~r.lock
  /\ deleting' = deleting \cup ({m} \cap Term)
  /\ IF InTree(m) THEN Changed(RemoveAt(children, Index(m)), rec) ELSE Unaltered
  /\ UNCHANGED <<uiVars, spawn, up, orphan>>

\* reload: the view the frame was made with is unmounted and another one mounts.
Reload(m) ==
  /\ frames[m] # None /\ m \notin reloading /\ acts < MaxActs
  /\ acts' = acts + 1
  /\ live' = live \ {frames[m].orig}
  /\ reloading' = reloading \cup {m} /\ reloaded' = TRUE
  /\ UNCHANGED <<treeVars, glVars, hostVars, frames, job, solo, overlapped, drag, updates>>

\* The new view belongs to the frame the member has now.
ReloadDone(m) ==
  LET v == FreshView IN
  /\ m \in reloading /\ reloading' = reloading \ {m}
  /\ live' = live \cup {v}
  /\ frames' = IF frames[m] = None THEN frames ELSE [frames EXCEPT ![m].view = v]
  /\ UNCHANGED <<treeVars, glVars, hostVars, job, solo, overlapped, reloaded, drag, updates, acts>>

\* startDrag, and a move of the pointer: the element of the frame is moved.
DragMove(m) ==
  /\ frames[m] # None /\ drag = None /\ acts < MaxActs
  /\ acts' = acts + 1
  /\ drag' = [m |-> m, el |-> frames[m].orig]
  /\ frames' = [frames EXCEPT ![m].x = 1 - frames[m].rec.x]
  /\ UNCHANGED <<treeVars, glVars, hostVars, live, job, solo, overlapped, reloading, reloaded, updates>>

\* mouseup: persistRect of where the element is; one that is no longer the frame's
\* has kept some position.
DragEnd(m) ==
  /\ drag # None /\ drag.m = m /\ drag' = None
  /\ \E x \in IF frames[m] # None /\ frames[m].orig = drag.el THEN {frames[m].x} ELSE {0, 1} :
       IF InTree(m) THEN Changed(children, [rec EXCEPT ![m].x = x]) ELSE Unaltered
  /\ UNCHANGED <<hostVars, reloading, reloaded, updates, acts>>

\* A program registers a content member.
AddMember(m) ==
  /\ m \in GL /\ ~InTree(m)
  /\ Changed(Append(children, m), [rec EXCEPT ![m] = NewRec])
  /\ UNCHANGED <<hostVars, uiVars>>

-----------------------------------------------------------------------------
\* Terminals and their backends on the host.

\* dblclick: the catalog, then create_agent.
Spawn(m) ==
  /\ spawn[m] = "idle" /\ spawn' = [spawn EXCEPT ![m] = "asked"]
  /\ UNCHANGED <<treeVars, frameVars, glVars, uiVars, up, deleting, orphan>>

HostCreates(m) ==
  /\ spawn[m] = "asked" /\ spawn' = [spawn EXCEPT ![m] = "made"]
  /\ up' = up \cup {m}
  /\ UNCHANGED <<treeVars, frameVars, glVars, uiVars, deleting, orphan>>

\* A disconnect: the call rejects, whether or not the host has created the backend.
SpawnLost(m) ==
  /\ spawn[m] \in {"asked", "made"}
  /\ spawn' = [spawn EXCEPT ![m] = "over"]
  /\ orphan' = orphan \cup ({m} \cap up)
  /\ UNCHANGED <<treeVars, frameVars, glVars, uiVars, up, deleting>>

\* Mutant: the member is registered before the host has made its backend.
Early(m) == spawn[m] \in {"asked", "made"}

\* When the member of a double click is registered.
Created(m) == spawn[m] = "made"

\* The id is back: kernel.register.
SpawnDone(m) ==
  /\ Created(m) /\ spawn' = [spawn EXCEPT ![m] = "over"]
  /\ Changed(Append(children, m), [rec EXCEPT ![m] = NewRec])
  /\ UNCHANGED <<uiVars, up, deleting, orphan>>

\* delete_agent reaches the host.
HostDeletes(m) ==
  /\ m \in deleting /\ deleting' = deleting \ {m}
  /\ up' = up \ {m}
  /\ UNCHANGED <<treeVars, frameVars, glVars, uiVars, spawn, orphan>>

\* Or it does not; nobody waits for it.
DeleteLost(m) ==
  /\ m \in deleting /\ deleting' = deleting \ {m}
  /\ orphan' = orphan \cup {m}
  /\ UNCHANGED <<treeVars, frameVars, glVars, uiVars, spawn, up>>

\* mountCanvas on a hydrated tree, in its first refresh.
Init ==
  /\ children \in {<<>>} \cup {<<m>> : m \in Member} \cup {<<m, n>> : m \in Term, n \in GL}
  /\ rec = [m \in Member |-> NewRec]
  /\ frames = [m \in Member |-> None] /\ live = {}
  /\ job = [r \in Job |->
       IF r # 1 \/ children = <<>> THEN Idle
       ELSE [Idle EXCEPT !.at = IF children[1] \in GL THEN "probe" ELSE "mount", !.solo = TRUE,
               !.todo = [i \in DOMAIN children |-> [m |-> children[i], rec |-> NewRec]]]]
  /\ glHost = None
  /\ gl = [h \in Host |-> [views |-> {}, groups |-> [m \in GL |-> 0]]]
  /\ up = ToSet(children) \cap Term
  /\ spawn = [m \in Term |-> IF m \in up THEN "over" ELSE "idle"]
  /\ solo = TRUE /\ overlapped = FALSE /\ changes = 0 /\ acts = 0
  /\ reloading = {} /\ reloaded = FALSE /\ drag = None /\ updates = {}
  /\ deleting = {} /\ orphan = {}

Next ==
  \/ \E r \in Job : MountDone(r) \/ MountFails(r) \/ ProbeGl(r) \/ ProbeNone(r) \/ GlHostReady(r)
  \/ \E m \in GL : AddMember(m) \/ \E h \in Host : UpdateView(h, m) \/ UpdateDone(h, m)
  \/ \E m \in Member : \/ ToggleLock(m) \/ Close(m) \/ Reload(m) \/ ReloadDone(m)
                       \/ DragMove(m) \/ DragEnd(m)
  \/ \E m \in Term : \/ Spawn(m) \/ HostCreates(m) \/ SpawnLost(m) \/ SpawnDone(m)
                     \/ HostDeletes(m) \/ DeleteLost(m)

Spec == Init /\ [][Next]_canvasVars

-----------------------------------------------------------------------------
\* Properties.

\* After a refresh that ran to its end and met no other one, and until the next, the frames
\* are those of the members in the tree, each with the member's present record and, unless it
\* is being dragged, in its place (canvas.ts:407-465).  Overlapping refreshes give no
\* such guarantee: the older one removes what only the newer one has seen.
Converged ==
  solo /\ (\A r \in Job : job[r] = Idle) =>
    /\ {m \in Member : frames[m] # None} = ToSet(children) \ GL
    /\ \A m \in ToSet(children) \ GL :
         /\ frames[m].rec = rec[m]
         /\ (drag # None /\ drag.m = m) \/ frames[m].x = rec[m].x

\* As long as no refreshes have overlapped and nothing was reloaded, every mounted
\* view belongs to a frame, and every frame's view is mounted (mountInline and
\* removeFrame, canvas.ts:338-393).
NoLeak ==
  ~overlapped /\ ~reloaded => live = {frames[m].view : m \in {m \in Member : frames[m] # None}}

\* A terminal in the tree has its backend on the host, and a backend without a
\* terminal is being made or deleted, or a lost call has left it behind (the pair of
\* canvas.ts:313-329 and 473-509).
BackendPaired ==
  \A m \in Term :
    /\ InTree(m) => m \in up
    /\ m \in up /\ ~InTree(m) => spawn[m] = "made" \/ m \in deleting \cup orphan

\* In every GL host a member has one group in the scene if it has a view and none
\* else, whatever updates, refreshes and failing sources do (gl_host.ts:119-224).
OneGroup ==
  \A h \in Host, m \in GL : gl[h].groups[m] = IF m \in gl[h].views THEN 1 ELSE 0

\* Nothing is mounted or drawn that no frame or view owns, and nothing that is owned is
\* missing (canvas.ts:338-393, gl_host.ts:119-224).
MountsOwned == NoLeak /\ OneGroup
=============================================================================
