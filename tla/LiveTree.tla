------------------------------ MODULE LiveTree ------------------------------
(***************************************************************************)
(* What the agent tree promises to the rest of the kernel: which ids are   *)
(* alive and under which parent each was created.  Agents come one at a    *)
(* time, and an agent goes only when all its children are gone, except for *)
(* children that were born while it was being deleted.                     *)
(*                                                                         *)
(* AgentTree implements this specification; the components that follow the *)
(* tree through the `added` and `removed` events of the state stream are   *)
(* specified on top of it (KernelState).                                   *)
(***************************************************************************)
CONSTANTS Id, RootId, None,
          ReuseIds   \* may a caller pass an id that was used before?

VARIABLES live,      \* keys of ctx.agents
          parentOf,  \* Agent.parent_id
          used,      \* every id that was ever given to an agent
          late       \* ids created under a parent that was dying or gone

liveVars == <<live, parentOf, used, late>>

LiveInit ==
  /\ live = {RootId}
  /\ parentOf = [i \in Id |-> None]
  /\ used = {RootId}
  /\ late = {}

\* Agent.create below p.
AddAgent(p, i) ==
  /\ p \in used /\ i \notin live
  /\ ReuseIds \/ i \notin used
  /\ live' = live \cup {i}
  /\ parentOf' = [parentOf EXCEPT ![i] = p]
  /\ used' = used \cup {i}
  /\ late' \in {late, late \cup {i}}
  /\ (p \notin live \/ p \in late) => i \in late'

\* The `removed` step of _cascade_delete.
RemoveAgent(i) ==
  /\ i \in live
  /\ \A j \in live : parentOf[j] = i => j \in late
  /\ live' = live \ {i}
  /\ UNCHANGED <<parentOf, used, late>>

LiveNext == \E i \in Id : RemoveAgent(i) \/ \E p \in Id : AddAgent(p, i)

LiveSpec == LiveInit /\ [][LiveNext]_liveVars
=============================================================================
