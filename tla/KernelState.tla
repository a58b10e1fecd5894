---------------------------- MODULE KernelState ----------------------------
(***************************************************************************)
(* The root loader `kernel_state`: it follows the live tree through the    *)
(* state stream, queues what changed and flushes the queue, through a      *)
(* `file_bridge` child, to one agent.json per agent under .fantastic; the  *)
(* next boot reads the tree back (kernel_state/tools.py, Kernel.load,      *)
(* validate_records, main._bootstrap).                                     *)
(*                                                                         *)
(* The file verbs never suspend, so a flush runs without interleaving      *)
(* inside the process; but it is a series of file operations, and the      *)
(* process may die between any two of them.                                *)
(*                                                                         *)
(* A record is its parent (its place on disk) and one `meta` field with a  *)
(* value of Val, or absent (None).  On a store the field is the gate: a    *)
(* store that carries Open lets the file verbs through.                    *)
(***************************************************************************)
EXTENDS LiveTree, Sequences, SequencesExt

CONSTANTS Stores,      \* ids of file_bridge agents rooted at .fantastic
          Val, Open,
          StoreMeta,   \* the gate a store is created with
          Updatable,   \* ids that update_agent is called on
          MaxCrashes,  \* bound on crashes
          Weak,        \* ids whose bundle a runtime may lack
          Torn         \* the contents of a file that was truncated and not written

ASSUME StateConstants ==
  /\ Stores \subseteq Id /\ Open \in Val /\ None \notin Val
  /\ Torn \notin Val /\ Torn # None

VARIABLES
  meta,     \* the live agents' meta field
  dir,      \* Agent._root_path, relative to .fantastic
  disk,     \* agent.json files: directory -> meta field, or Torn
  persist,  \* _FlushLoop._persist
  forget,   \* _FlushLoop._forget: id -> directory
  paths,    \* _FlushLoop._paths:  id -> directory
  wake,     \* _FlushLoop._wake
  flush,    \* the flush in progress: phase, ids and directories left, body
  mode,     \* the process: "up", "stop" (final flush), "down", "refused"
  clean,    \* ghost: the process went down by a clean shutdown
  skipped,  \* ghost: directories the last load left out, no agent above deleted since
  safe,     \* ghost: ids on disk after a completed flush, not deleted since
  crashes

queueVars == <<persist, forget, paths, wake>>
kvars == <<liveVars, meta, dir, disk, queueVars, flush, mode, clean, skipped, safe, crashes>>

Idle == [phase |-> "idle", ids |-> {}, dirs |-> {}, body |-> None]
Empty == [i \in {} |-> <<>>]
Dir  == Seq(Id)

TypeOK ==
  /\ live \subseteq Id /\ used \subseteq Id /\ parentOf \in [Id -> Id \cup {None}]
  /\ meta \in [Id -> Val \cup {None}]
  /\ \A i \in Id : dir[i] \in Dir
  /\ \A d \in DOMAIN disk : d \in Dir /\ disk[d] \in Val \cup {None, Torn}
  /\ persist \subseteq live
  /\ DOMAIN forget \subseteq Id \ live /\ DOMAIN paths = IF mode = "up" THEN live ELSE {}
  /\ wake \in BOOLEAN /\ clean \in BOOLEAN
  /\ flush.phase \in {"idle", "work", "body"}
  /\ mode \in {"up", "stop", "down", "refused"}
  /\ \A d \in skipped : d \in Dir
  /\ safe \subseteq Id /\ crashes \in 0..MaxCrashes

-----------------------------------------------------------------------------
\* read_tree and _walk: a record is found if its file and those of all its
\* ancestors exist and parse.
Found == {d \in DOMAIN disk : \A n \in 0..Len(d) :
            SubSeq(d, 1, n) \in DOMAIN disk /\ disk[SubSeq(d, 1, n)] # Torn}

IdAt(d) == IF d = <<>> THEN RootId ELSE Last(d)

\* Kernel.load: a record whose bundle is not importable is skipped with its
\* whole subtree.
Loaded(absent) == {d \in Found : \A n \in 1..Len(d) : d[n] \notin absent}

\* validate_records
Valid(dirs) == \A d, e \in dirs : IdAt(d) = IdAt(e) => d = e

\* The tree as (directory, meta) pairs: live, and as a boot would read it.
LiveRecords == {<<dir[i], meta[i]>> : i \in live}
Restored    == {<<d, disk[d]>> : d \in Found \ skipped}

\* _find_store: a file_bridge child of the root.
StoresFound == {s \in Stores \cap live : parentOf[s] = RootId}

\* file_bridge's gate: sealed unless the record opens it.
Gate(s) == meta[s] = Open

Write(d, v) == [e \in DOMAIN disk \cup {d} |-> IF e = d THEN v ELSE disk[e]]
Without(f, S) == [x \in DOMAIN f \ S |-> f[x]]
With(f, x, v) == [y \in DOMAIN f \cup {x} |-> IF y = x THEN v ELSE f[y]]

Init ==
  /\ LiveInit
  /\ meta = [i \in Id |-> None]
  /\ dir = [i \in Id |-> <<>>]
  /\ disk = With(Empty, <<>>, None)
  /\ persist = {} /\ forget = Empty /\ paths = With(Empty, RootId, <<>>)
  /\ wake = FALSE /\ flush = Idle
  /\ mode = "up" /\ clean = FALSE
  /\ skipped = {} /\ safe = {} /\ crashes = 0

-----------------------------------------------------------------------------
\* Mutant: the flush task is not woken.
OnChangedNoWake(i) ==
  /\ paths' = With(paths, i, dir'[i])
  /\ persist' = persist \cup {i}
  /\ forget' = Without(forget, {i})
  /\ UNCHANGED wake

\* _FlushLoop._on_state, kinds "added" and "updated".
OnChanged(i) ==
  /\ paths' = With(paths, i, dir'[i])
  /\ persist' = persist \cup {i}
  /\ forget' = Without(forget, {i})
  /\ wake' = TRUE

\* _FlushLoop._on_state, kind "removed".
OnRemoved(i) ==
  /\ paths' = Without(paths, {i})
  /\ IF i \in DOMAIN paths
     THEN /\ forget' = With(forget, i, paths[i])
          /\ persist' = persist \ {i}
          /\ wake' = TRUE
     ELSE UNCHANGED <<forget, persist, wake>>

\* Other coroutines run while the process is up and no flush is in progress.
Running == mode = "up" /\ flush.phase = "idle"

Create(p, i) ==
  /\ Running
  /\ p \in live
  /\ AddAgent(p, i) /\ late' = late
  /\ dir' = [dir EXCEPT ![i] = Append(dir[p], i)]
  /\ meta' = [meta EXCEPT ![i] = IF i \in Stores THEN StoreMeta ELSE None]
  /\ OnChanged(i)
  /\ skipped' = skipped \ {dir'[i]}
  /\ UNCHANGED <<disk, flush, mode, clean, safe, crashes>>

Update(i, v) ==
  /\ Running
  /\ i \in live \cap Updatable
  /\ meta' = [meta EXCEPT ![i] = v]
  /\ UNCHANGED <<liveVars, dir>>
  /\ OnChanged(i)
  /\ UNCHANGED <<disk, flush, mode, clean, skipped, safe, crashes>>

Delete(i) ==
  /\ Running
  /\ i # RootId
  /\ RemoveAgent(i)
  /\ OnRemoved(i)
  /\ safe' = {j \in safe : ~IsPrefix(dir[i], dir[j])}
  /\ skipped' = {d \in skipped : ~IsPrefix(dir[i], d)}
  /\ UNCHANGED <<meta, dir, disk, flush, mode, clean, crashes>>

-----------------------------------------------------------------------------
\* _FlushLoop._run and aflush up to the first write.  No store: the queue is
\* kept.  `stop` makes the same call once more.
FlushNoStore ==
  /\ Running /\ wake
  /\ StoresFound = {}
  /\ wake' = FALSE
  /\ UNCHANGED <<liveVars, meta, dir, disk, persist, forget, paths, flush, mode, clean,
                 skipped, safe, crashes>>

\* Mutant: directories that belong to no live agent are swept.
TakeQueueSweep ==
  /\ flush' = [phase |-> "work", ids |-> persist, body |-> None,
               dirs |-> DOMAIN disk \ {dir[i] : i \in live}]
  /\ persist' = {} /\ forget' = Empty

\* list(self._persist), dict(self._forget), both cleared
TakeQueue ==
  /\ flush' = [phase |-> "work", ids |-> persist, body |-> None,
               dirs |-> {forget[i] : i \in DOMAIN forget}]
  /\ persist' = {} /\ forget' = Empty

FlushBegin ==
  /\ Running /\ wake
  /\ StoresFound # {}
  /\ TakeQueue
  /\ wake' = FALSE
  /\ UNCHANGED <<liveVars, meta, dir, disk, paths, mode, clean, skipped, safe, crashes>>

\* on_shutdown -> _FlushLoop.stop: unsubscribe, cancel the loop, flush once more.
Stop ==
  /\ Running
  /\ mode' = "stop"
  /\ IF StoresFound = {} THEN flush' = [Idle EXCEPT !.phase = "work"] /\ UNCHANGED <<persist, forget>>
                         ELSE TakeQueue
  /\ paths' = Empty /\ wake' = FALSE
  /\ UNCHANGED <<liveVars, meta, dir, disk, clean, skipped, safe, crashes>>

\* Mutant: record.update(existing).
OverlayOldWins(old, v) == IF old \in {None, Torn} THEN v ELSE old

\* existing.update(record)
Overlay(old, v) == IF v = None /\ old # Torn THEN old ELSE v

\* _persist_via_store up to the truncation in fs.write_chunk; a sealed store
\* refuses the verbs and nothing lands.
PersistOpen(i, s) ==
  LET d == dir[i]
      old == IF d \in DOMAIN disk THEN disk[d] ELSE None IN
  /\ flush.phase = "work" /\ i \in flush.ids
  /\ s \in StoresFound
  /\ IF Gate(s)
     THEN /\ disk' = Write(d, Torn)
          /\ flush' = [flush EXCEPT !.phase = "body", !.body = <<i, Overlay(old, meta[i])>>]
     ELSE /\ flush' = [flush EXCEPT !.ids = @ \ {i}]
          /\ UNCHANGED disk
  /\ UNCHANGED <<liveVars, meta, dir, queueVars, mode, clean, skipped, safe, crashes>>

\* The body of the file.
PersistBody ==
  /\ flush.phase = "body"
  /\ disk' = Write(dir[flush.body[1]], flush.body[2])
  /\ flush' = [flush EXCEPT !.phase = "work", !.ids = @ \ {flush.body[1]}, !.body = None]
  /\ UNCHANGED <<liveVars, meta, dir, queueVars, mode, clean, skipped, safe, crashes>>

\* _forget_via_store, one file of the recursive delete at a time; never the root.
ForgetFile(d, e, s) ==
  /\ flush.phase = "work" /\ flush.ids = {} /\ d \in flush.dirs
  /\ s \in StoresFound /\ Gate(s)
  /\ d # <<>> /\ e \in DOMAIN disk /\ IsPrefix(d, e)
  /\ disk' = Without(disk, {e})
  /\ UNCHANGED <<liveVars, meta, dir, queueVars, flush, mode, clean, skipped, safe, crashes>>

ForgetDone(d, s) ==
  /\ flush.phase = "work" /\ flush.ids = {} /\ d \in flush.dirs
  /\ s \in StoresFound
  /\ \/ ~Gate(s) \/ d = <<>>
     \/ \A e \in DOMAIN disk : ~IsPrefix(d, e)
  /\ flush' = [flush EXCEPT !.dirs = @ \ {d}]
  /\ UNCHANGED <<liveVars, meta, dir, disk, queueVars, mode, clean, skipped, safe, crashes>>

FlushEnd ==
  /\ flush.phase = "work" /\ flush.ids = {} /\ flush.dirs = {}
  /\ flush' = Idle
  /\ mode' = IF mode = "stop" THEN "down" ELSE mode
  /\ clean' = (mode = "stop")
  /\ safe' = IF \E s \in StoresFound : Gate(s) THEN safe \cup (live \ {RootId}) ELSE safe
  /\ UNCHANGED <<liveVars, meta, dir, disk, queueVars, skipped, crashes>>

-----------------------------------------------------------------------------
\* The process dies; what it had in memory is gone.
Crash ==
  /\ mode \in {"up", "stop"}
  /\ crashes < MaxCrashes
  /\ crashes' = crashes + 1
  /\ mode' = "down" /\ clean' = FALSE
  /\ flush' = Idle
  /\ persist' = {} /\ forget' = Empty /\ paths' = Empty /\ wake' = FALSE
  /\ UNCHANGED <<liveVars, meta, dir, disk, skipped, safe>>

\* main._bootstrap: read the tree, or seed the root if there is none to read;
\* validate, load, and boot the root loader, which caches the paths.
Boot(absent) ==
  /\ mode = "down"
  /\ clean' = FALSE
  /\ persist' = {} /\ forget' = Empty /\ wake' = FALSE
  /\ LET seeded == Found = {}
         on     == IF seeded THEN {<<>>} ELSE Loaded(absent)
         found  == {IdAt(d) : d \in on}
         at(i)  == CHOOSE d \in on : IdAt(d) = i IN
     IF ~seeded /\ ~Valid(Found)
     THEN /\ mode' = "refused"
          /\ UNCHANGED <<live, parentOf, meta, dir, disk, paths, skipped>>
     ELSE /\ mode' = "up"
          /\ live' = found
          /\ parentOf' = [i \in Id |-> IF i \in found \ {RootId} THEN IdAt(Front(at(i)))
                                                                ELSE None]
          /\ dir' = [i \in Id |-> IF i \in found THEN at(i) ELSE dir[i]]
          /\ meta' = [i \in Id |-> IF i \notin found \/ seeded THEN None ELSE disk[at(i)]]
          /\ paths' = [i \in found |-> at(i)]
          /\ skipped' = (IF seeded THEN DOMAIN disk ELSE Found) \ on
          /\ disk' = IF seeded THEN Write(<<>>, None) ELSE disk
  /\ UNCHANGED <<used, late, flush, safe, crashes>>

-----------------------------------------------------------------------------
FlushStep ==
  \/ FlushNoStore \/ FlushBegin
  \/ \E i \in Id, s \in Stores : PersistOpen(i, s)
  \/ PersistBody
  \/ \E d \in flush.dirs, s \in Stores : ForgetDone(d, s) \/ \E e \in DOMAIN disk : ForgetFile(d, e, s)
  \/ FlushEnd

Next ==
  \/ \E p, i \in Id : Create(p, i)
  \/ \E i \in Id : Delete(i) \/ \E v \in Val : Update(i, v)
  \/ FlushStep
  \/ Stop \/ Crash
  \/ \E absent \in SUBSET Weak : Boot(absent)

\* The flush task runs whenever it is woken and the loop is free.
Fairness == WF_kvars(FlushStep)

Spec == Init /\ [][Next]_kvars /\ Fairness

-----------------------------------------------------------------------------
\* Whenever nothing is queued and the store is open, and after every clean shutdown, a
\* boot would read back exactly the live tree, place by place and field by field: what
\* _on_state queues and aflush writes and removes add up to the tree, also after crashes
\* and after loads that skipped agents (tools.py:335 _on_state, :365 aflush, :388 "a
\* clean shutdown loses nothing").
RoundTrip ==
  (/\ (Running /\ ~wake) \/ (mode = "down" /\ clean)
   /\ \E s \in StoresFound : Gate(s)) => Restored = LiveRecords

FlushedStays ==
  \A i \in safe : \/ dir[i] \in Found
                  \/ \E n \in 0..Len(dir[i]) :
                       LET d == SubSeq(dir[i], 1, n) IN d \in DOMAIN disk /\ disk[d] = Torn

SkippedUntouched ==
  \A d \in skipped \cap DOMAIN disk : d \in DOMAIN disk' /\ disk'[d] = disk[d]

\* What is on disk stays there until somebody deletes it.  An agent that was once
\* flushed is there for the next boot, or its own file or an ancestor's was torn by a
\* crash; and the file of an agent that Kernel.load skipped is neither changed nor
\* removed by anything the process does later, as long as no agent above it is deleted
\* (_kernel.py:306 load, tools.py:365 aflush).  (Nothing is flushed at the start, so
\* that the state after each step says it of all.)
DiskKept == [][FlushedStays' /\ SkippedUntouched]_kvars

\* While a store is there, a queued change is taken up by a flush, or the
\* process goes down.
QueueDrains ==
  \A i \in Id : (i \in persist /\ StoresFound # {} /\ mode = "up")
                  ~> (i \notin persist \/ StoresFound = {} \/ mode # "up")
=============================================================================
