---------------------------- MODULE MCWebKernel ----------------------------
(***************************************************************************)
(* The page's kernel and its loader.  The loader takes a record to be its  *)
(* version, so the two share no state: a behaviour is of one of them, and  *)
(* the other stands still.                                                 *)
(*                                                                         *)
(* For the kernel: a root, a member and an agent below it that the host    *)
(* may send, one member made on the page, one agent of the host.           *)
(***************************************************************************)
EXTENDS WebKernel, ProxyLoader

VARIABLE part

MCRecords ==
  [id : {"canvas"}, parent : {None}, hm : {"view", "alien"}] \cup
  [id : {"a"}, parent : {"canvas", None}, hm : {None, "view", "alien"}] \cup
  [id : {"n"}, parent : {"a", "m"}, hm : {None, "alien"}]

MCBefore == [canvas |-> 3, a |-> 1, n |-> 5, m |-> 4, b |-> 2, ctl |-> 6]

MCSnapshots == {recs \in SUBSET MCRecords : Cardinality(recs) <= 3}

\* The loader after the first flush of a page without members.
AtRest ==
  /\ live = [Nothing EXCEPT ![Root] = 1] /\ store = live /\ minted = {}
  /\ dirtyPersist = <<>> /\ dirtyForget = <<>> /\ timer = FALSE
  /\ flush = [f \in Flush |-> Idle] /\ wire = <<>> /\ answered = {}
  /\ up = TRUE /\ faults = 0 /\ lost = {}

MCInit ==
  /\ Init
  /\ \/ part = "kernel" /\ AtRest
     \/ part = "loader" /\ LoaderInit

MCNext ==
  /\ \/ part = "kernel" /\ Next /\ UNCHANGED loaderVars
     \/ part = "loader" /\ LoaderNext /\ UNCHANGED kernelVars
  /\ UNCHANGED part

\* Timers fire, promises that are settled resume, the host handles what it is sent,
\* and the client redials for ever.
Fairness ==
  /\ WF_loaderVars(part = "loader" /\ \E f \in Flush : Fires(f))
  /\ \A f \in Flush : WF_loaderVars(part = "loader" /\ Resumes(f))
  /\ WF_loaderVars(part = "loader" /\ HostHandles)
  /\ WF_loaderVars(part = "loader" /\ Reconnect)

MCSpec == MCInit /\ [][MCNext]_<<part, kernelVars, loaderVars>> /\ Fairness
=============================================================================
