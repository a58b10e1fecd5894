------------------------------ MODULE WebTree ------------------------------
(***************************************************************************)
(* The agent tree of the browser kernel (src/ts/src/kernel) as a value,    *)
(* with the operations of kernel.ts that change or read it.  A tree is a   *)
(* function whose domain is the keys of Kernel.agents; an agent keeps its  *)
(* parentId, its handlerModule and the keys of its `children` map.         *)
(* A snapshot is a set of records; two records with one id are the         *)
(* duplicate that validateRecords looks for.                               *)
(***************************************************************************)
EXTENDS Integers, FiniteSets, SequencesExt

CONSTANTS None,      \* null: no parent, no handler module
          Bundles,   \* keys of Kernel.handlers: bundles this runtime can run
          Before     \* the order of ids as strings, as a number for each id

Agent(p, hm) == [parent |-> p, hm |-> hm, kids |-> {}]

EmptyTree == [x \in {} |-> Agent(None, None)]

Handled(t, id) == id \in DOMAIN t /\ t[id].hm \in Bundles

\* Kernel.register: a parent that is not in the tree is not linked.
RegisterIn(t, id, p, hm) ==
  [x \in DOMAIN t \cup {id} |->
     IF x = id THEN Agent(p, hm)
     ELSE IF x = p THEN [t[x] EXCEPT !.kids = @ \cup {id}] ELSE t[x]]

RECURSIVE Removes(_, _)
\* The ids Kernel.remove takes out, in the order of its `removed` events.
Removes(t, id) ==
  IF id \notin DOMAIN t THEN <<>>
  ELSE FlattenSeq([i \in 1..Cardinality(t[id].kids) |->
                     Removes(t, SetToSeq(t[id].kids)[i])]) \o <<id>>

\* Mutant: only the agent itself is taken out.
RemoveOne(t, id) == [x \in DOMAIN t \ {id} |-> [t[x] EXCEPT !.kids = @ \ {id}]]

\* Kernel.remove.
RemoveFrom(t, id) ==
  LET gone == Range(Removes(t, id))
  IN  [x \in DOMAIN t \ gone |-> [t[x] EXCEPT !.kids = @ \ gone]]

sortedChildren(t, id) == SetToSortSeq(t[id].kids, LAMBDA a, b : Before[a] < Before[b])

RECURSIVE descendantIds(_, _)
\* reflect with tree = ids.
descendantIds(t, id) ==
  <<id>> \o FlattenSeq([i \in 1..Len(sortedChildren(t, id)) |->
                          descendantIds(t, sortedChildren(t, id)[i])])

RECURSIVE treeNode(_, _)
\* reflect with tree = all.
treeNode(t, id) ==
  [id |-> id, parent_id |-> t[id].parent, handler_module |-> t[id].hm,
   children |-> [i \in 1..Len(sortedChildren(t, id)) |->
                   treeNode(t, sortedChildren(t, id)[i])]]

\* Kernel.save: Agent.record of every agent.
Save(t) == {[id |-> x, parent |-> t[x].parent, hm |-> t[x].hm] : x \in DOMAIN t}

Roots(recs) == {r \in recs : r.parent = None}

\* validateRecords does not throw.
Valid(recs) ==
  /\ \A r, s \in recs : r.id = s.id => r = s
  /\ Cardinality(Roots(recs)) = 1
  /\ \A r \in recs : r.parent # None => \E s \in recs : s.id = r.parent

RECURSIVE BuiltThrough(_, _)
\* Mutant: the record is skipped, its children are not.
BuiltThrough(recs, r) ==
  (IF r.hm # None /\ r.hm \notin Bundles THEN {} ELSE {r})
    \cup UNION {BuiltThrough(recs, c) : c \in {x \in recs : x.parent = r.id}}

RECURSIVE Built(_, _)
\* The records `build` makes agents of, from r down: an unknown bundle ends the branch.
Built(recs, r) ==
  IF r.hm # None /\ r.hm \notin Bundles THEN {}
  ELSE {r} \cup UNION {Built(recs, c) : c \in {x \in recs : x.parent = r.id}}

\* Kernel.load of a snapshot that is valid.
Load(recs) ==
  LET built == UNION {Built(recs, r) : r \in Roots(recs)}
      rec(x) == CHOOSE r \in built : r.id = x
  IN  [x \in {r.id : r \in built} |->
         [Agent(rec(x).parent, rec(x).hm) EXCEPT
            !.kids = {r.id : r \in {q \in built : q.parent = x}}]]
=============================================================================
