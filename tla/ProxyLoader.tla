---------------------------- MODULE ProxyLoader ----------------------------
(***************************************************************************)
(* bundles/loader/proxy_loader.ts: the page's tree is written back to the  *)
(* host's web_loader (a kernel_state) over the bridge, one record per      *)
(* call, while the tree goes on changing, the connection drops, the host   *)
(* refuses a write and the page is reloaded.                               *)
(*                                                                         *)
(* A flush suspends at each call, so flushes overlap.  A call made while   *)
(* the socket is down is parked on Conn.ready with the record it was given *)
(* and leaves at the reconnect; a drop rejects every call that has left,   *)
(* answered or not.  Calls leave and are handled in order.  A record is    *)
(* its version; members live below the root, as the canvas makes them.     *)
(***************************************************************************)
EXTENDS Naturals, Sequences, FiniteSets

CONSTANTS Member, Root, Absent,
          Flush,       \* slots for flushes that overlap
          MaxVersion,  \* changes of one record
          MaxFaults    \* drops, refused writes and page reloads

\* A page has finitely many members.
ASSUME LoaderAssumption ==
  /\ Root \notin Member /\ Absent \notin Nat
  /\ \A S \in SUBSET Member : Cardinality(S) \in Nat

VARIABLES live,          \* Kernel.agents: version of each record, Absent if not there
          minted,        \* members that were ever made
          dirtyPersist, dirtyForget,  \* ids in insertion order
          timer,         \* the debounce timer is armed
          flush,         \* per slot: the ids left of both lists, and whether it runs
          wire,          \* calls, in the order they were made
          answered,      \* slots whose call the host has handled
          up,            \* Conn.connected
          store,         \* agent.json files below web_loader
          faults,        \* how many faults there were
          lost           \* ghost: ids of calls that failed or were never made

loaderVars == <<live, minted, dirtyPersist, dirtyForget, timer, flush, wire, answered,
                up, store, faults, lost>>
dirtyVars  == <<dirtyPersist, dirtyForget, timer>>

Record == Member \cup {Root}
Nothing == [i \in Record |-> Absent]
Idle == [on |-> FALSE, persist |-> <<>>, forget |-> <<>>]

In(s) == {s[k] : k \in DOMAIN s}

AddId(s, i) == IF i \in In(s) THEN s ELSE Append(s, i)

DropId(s, i) ==
  LET k == CHOOSE k \in DOMAIN s : s[k] = i
  IN  IF i \in In(s) THEN SubSeq(s, 1, k - 1) \o SubSeq(s, k + 1, Len(s)) ELSE s

\* loadTree: a record is read only if every directory above it has an agent.json.
Readable(s) == IF s[Root] = Absent THEN Nothing ELSE s

\* main.ts on a fresh page: load or seed; then start() queues every agent, the members
\* in the order the host has listed them in.
Opened(s) == IF Readable(s)[Root] = Absent THEN [Nothing EXCEPT ![Root] = 1] ELSE s

Listings(S) == {q \in [1..Cardinality(S) -> S] : In(q) = S}
Queued(t) == {<<Root>> \o q : q \in Listings({m \in Member : t[m] # Absent})}

LoaderInit ==
  /\ store = Nothing /\ live = Opened(store) /\ minted = {}
  /\ dirtyPersist \in Queued(live) /\ dirtyForget = <<>> /\ timer = TRUE
  /\ flush = [f \in Flush |-> Idle] /\ wire = <<>> /\ answered = {}
  /\ up = TRUE /\ faults = 0 /\ lost = {}

-----------------------------------------------------------------------------
\* Changes of the tree, with ProxyLoader.onState and schedule.

\* Mutant: a flush that runs is thought to take the change with it.
OnChangedLazy(i) ==
  /\ dirtyPersist' = AddId(dirtyPersist, i) /\ dirtyForget' = DropId(dirtyForget, i)
  /\ timer' = (timer \/ \A f \in Flush : ~flush[f].on)

OnChanged(i) ==
  /\ dirtyPersist' = AddId(dirtyPersist, i) /\ dirtyForget' = DropId(dirtyForget, i)
  /\ timer' = TRUE

\* Mutant: what is still queued is thought never to have been written.
OnRemovedNets(i) ==
  /\ dirtyForget' = IF i \in In(dirtyPersist) THEN dirtyForget ELSE AddId(dirtyForget, i)
  /\ dirtyPersist' = DropId(dirtyPersist, i) /\ timer' = TRUE

OnRemoved(i) ==
  /\ dirtyPersist' = DropId(dirtyPersist, i) /\ dirtyForget' = AddId(dirtyForget, i)
  /\ timer' = TRUE

Changes == UNCHANGED <<flush, wire, answered, up, store, faults, lost>>

RegisterMember(m) ==
  /\ m \in Member \ minted
  /\ live' = [live EXCEPT ![m] = 1] /\ minted' = minted \cup {m}
  /\ OnChanged(m) /\ Changes

UpdateMeta(i) ==
  /\ i \in Member /\ live[i] # Absent /\ live[i] < MaxVersion
  /\ live' = [live EXCEPT ![i] = @ + 1] /\ UNCHANGED minted
  /\ OnChanged(i) /\ Changes

DropMember(m) ==
  /\ m \in Member /\ live[m] # Absent
  /\ live' = [live EXCEPT ![m] = Absent] /\ UNCHANGED minted
  /\ OnRemoved(m) /\ Changes

-----------------------------------------------------------------------------
\* Flushes.

Calls(f, i, v) == wire' = Append(wire, [by |-> f, id |-> i, val |-> v, sent |-> up])
Stays(f, p, q) == flush' = [flush EXCEPT ![f] = [on |-> TRUE, persist |-> p, forget |-> q]]
Ends(f) == flush' = [flush EXCEPT ![f] = Idle] /\ UNCHANGED wire

\* Mutant: the agents are not looked up again.
GoesBlind(f, persist, forget) ==
  \/ persist # <<>> /\ Calls(f, Head(persist), 1) /\ Stays(f, Tail(persist), forget)
  \/ persist = <<>> /\ forget # <<>> /\ Calls(f, Head(forget), Absent)
     /\ Stays(f, <<>>, Tail(forget))
  \/ persist = <<>> /\ forget = <<>> /\ Ends(f)

\* A flush runs to its next call: an agent that is gone is skipped, and the record is
\* the one of this moment.
Goes(f, persist, forget) ==
  LET here == {k \in DOMAIN persist : live[persist[k]] # Absent}
  IN  \/ \E k \in here : /\ \A l \in here : k <= l
                         /\ Calls(f, persist[k], live[persist[k]])
                         /\ Stays(f, SubSeq(persist, k + 1, Len(persist)), forget)
      \/ here = {} /\ forget # <<>> /\ Calls(f, Head(forget), Absent)
         /\ Stays(f, <<>>, Tail(forget))
      \/ here = {} /\ forget = <<>> /\ Ends(f)

\* The timer fires: flush() takes both lists.
Fires(f) ==
  /\ timer /\ ~flush[f].on
  /\ dirtyPersist' = <<>> /\ dirtyForget' = <<>> /\ timer' = FALSE
  /\ Goes(f, dirtyPersist, dirtyForget)
  /\ UNCHANGED <<live, minted, answered, up, store, faults, lost>>

\* The reply of its call reaches flush f.
Resumes(f) ==
  /\ f \in answered
  /\ answered' = answered \ {f}
  /\ Goes(f, flush[f].persist, flush[f].forget)
  /\ UNCHANGED <<live, minted, up, store, faults, lost>> /\ UNCHANGED dirtyVars

-----------------------------------------------------------------------------
\* The host, and what goes wrong.

\* persist_record writes the file, forget_record removes the directory.
HostHandles ==
  /\ wire # <<>> /\ Head(wire).sent
  /\ store' = [store EXCEPT ![Head(wire).id] = Head(wire).val]
  /\ wire' = Tail(wire)
  /\ answered' = answered \cup {Head(wire).by}
  /\ lost' = lost \ {Head(wire).id}
  /\ UNCHANGED <<live, minted, flush, up, faults>> /\ UNCHANGED dirtyVars

\* `void this.flush()` rejects: the calls it had left to make are not queued again.
Abandoned(F) ==
  {i \in Record : \E f \in F : \/ live[i] # Absent /\ i \in In(flush[f].persist)
                              \/ i \in In(flush[f].forget)}
Ended(F) == [f \in Flush |-> IF f \in F THEN Idle ELSE flush[f]]

\* The handler raises: an `error` frame.
HostFails ==
  LET op == Head(wire) IN
  /\ wire # <<>> /\ op.sent /\ faults < MaxFaults
  /\ wire' = Tail(wire) /\ faults' = faults + 1
  /\ flush' = Ended({op.by}) /\ lost' = lost \cup {op.id} \cup Abandoned({op.by})
  /\ UNCHANGED <<live, minted, answered, up, store>> /\ UNCHANGED dirtyVars

\* onclose: rejectAll.
Drop ==
  LET made == {op \in In(wire) : op.sent}
      cut  == answered \cup {op.by : op \in made}
  IN  /\ up /\ faults < MaxFaults
      /\ up' = FALSE /\ faults' = faults + 1
      /\ wire' = <<>> /\ answered' = {}
      /\ flush' = Ended(cut)
      /\ lost' = lost \cup {op.id : op \in made} \cup Abandoned(cut)
      /\ UNCHANGED <<live, minted, store>> /\ UNCHANGED dirtyVars

\* onopen: `ready` resolves and the parked calls leave.
Reconnect ==
  /\ ~up /\ up' = TRUE
  /\ wire' = [k \in 1..Len(wire) |-> [wire[k] EXCEPT !.sent = TRUE]]
  /\ UNCHANGED <<live, minted, flush, answered, store, faults, lost>> /\ UNCHANGED dirtyVars

\* The page is closed and opened again.
Reload ==
  /\ faults < MaxFaults /\ faults' = faults + 1
  /\ live' = Opened(store)
  /\ dirtyPersist' \in Queued(live') /\ dirtyForget' = <<>> /\ timer' = TRUE
  /\ flush' = [f \in Flush |-> Idle] /\ wire' = <<>> /\ answered' = {} /\ up' = TRUE
  /\ lost' = {i \in Member : store[i] # live'[i]}
  /\ UNCHANGED <<minted, store>>

LoaderNext ==
  \/ \E i \in Record : RegisterMember(i) \/ UpdateMeta(i) \/ DropMember(i)
  \/ \E f \in Flush : Fires(f) \/ Resumes(f)
  \/ HostHandles \/ HostFails \/ Drop \/ Reconnect \/ Reload

LoaderSpec == LoaderInit /\ [][LoaderNext]_loaderVars

-----------------------------------------------------------------------------
Quiet == ~timer /\ \A f \in Flush : ~flush[f].on

\* When nothing is queued and no flush runs, the host's records are the page's, but for
\* the records of calls that failed: flushes that overlap a change, a removal or each
\* other never leave a difference behind.  (proxy_loader.ts:107 onState, :132 flush)
SyncedButLost == Quiet => \A i \in Record \ lost : store[i] = live[i]

Forgetting(i) ==
  \/ i \in In(dirtyForget) \/ \E f \in Flush : i \in In(flush[f].forget)
  \/ \E op \in In(wire) : op.id = i /\ op.val = Absent

\* Nothing goes back: a record on the host is never replaced by an older one, and no
\* record is written of an agent that is gone unless its removal is on the way.
\* (proxy_loader.ts:138: the record is read when its call is made)
NeverStale ==
  [][\A i \in Record : store'[i] \notin {Absent, store[i]} =>
       IF store[i] = Absent THEN live[i] # Absent \/ Forgetting(i) ELSE store'[i] > store[i]]_loaderVars

\* A change reaches the host in the end, unless its call failed or the agent changed
\* again: no flush waits for ever and no change stays queued, whatever drops.
\* (proxy_loader.ts:123 schedule, :132 flush)
Drains ==
  \A i \in Record : store[i] # live[i] ~> store[i] = live[i] \/ i \in lost
=============================================================================
