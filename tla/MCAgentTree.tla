---------------------------- MODULE MCAgentTree ----------------------------
(***************************************************************************)
(* Two agents and ids that are used again.  As soon as there is an alias   *)
(* or a delete lock, never both at a time, agents are created under few    *)
(* ids only.                                                               *)
(***************************************************************************)
EXTENDS AgentTree

CONSTANTS Lockable,  \* the agents that may be locked
          FewIds     \* the ids beside aliases and locks

Within ==
  /\ \A o \in Obj \ Lockable : ~deleteLock[o]
  /\ (\A o \in Obj : ~deleteLock[o]) \/ (\A o \in Obj : aliasOf[o] = None)
  /\ \/ \A o \in Obj : ~deleteLock[o] /\ aliasOf[o] = None
     \/ \A i \in Id \ FewIds : agents[i] = None

NamesNext ==
  \/ (CreateSome \/ UpdateSome) /\ Within'
  \/ \E t \in Task : DeleteStep(t)

NamesSpec == Init /\ [][NamesNext]_vars /\ Fairness
=============================================================================
