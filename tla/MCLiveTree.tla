----------------------------- MODULE MCLiveTree -----------------------------
(***************************************************************************)
(* Root and three agents, two deleting tasks; AgentTree implements         *)
(* LiveTree.                                                               *)
(***************************************************************************)
EXTENDS AgentTree, TLC

Symmetry == Permutations(Obj \ {Root}) \cup Permutations(Id \ {RootId})
              \cup Permutations(Task)
=============================================================================
