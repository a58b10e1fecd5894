---------------------------- MODULE AiSendProofs ----------------------------
(***************************************************************************)
(* The bookkeeping of the AI backends' `send` holds together for any       *)
(* backends, calls and call depth: the inductive invariant behind          *)
(* Supervised, and its proof.                                              *)
(***************************************************************************)
EXTENDS AiSend, SequenceTheorems, TLAPS

\* A call that was not made is nowhere; one that was made has its backend.
Fresh ==
  \A c \in Call :
    /\ pc[c] = "new" => at[c] = None /\ by[c] = None /\ chain[c] = {} /\ task[c] = "none"
    /\ pc[c] # "new" => at[c] \in Backend

\* Who runs holds the lock of its backend, and nobody else does.
LockIsRunner ==
  /\ \A b \in Backend : holder[b] # None => pc[holder[b]] = "run" /\ at[holder[b]] = b
  /\ \A c \in Call : pc[c] = "run" => holder[at[c]] = c

\* The waiters of a lock are the calls that wait for it, each once.
Line ==
  /\ waiters \in [Backend -> Seq(Call)]
  /\ \A b \in Backend : \A i \in 1..Len(waiters[b]) :
       /\ pc[waiters[b][i]] = "wait" /\ at[waiters[b][i]] = b
       /\ \A j \in 1..Len(waiters[b]) : waiters[b][i] = waiters[b][j] => i = j
  /\ \A c \in Call : pc[c] = "wait" => \E i \in 1..Len(waiters[at[c]]) : waiters[at[c]][i] = c

\* A call's chain is its caller's, with the caller's backend, and a call that waits is
\* for a backend outside it.
Chains ==
  \A c \in Call :
    /\ by[c] = None => chain[c] = {}
    /\ by[c] # None => pc[by[c]] # "new" /\ chain[c] = chain[by[c]] \cup {at[by[c]]}
    /\ pc[c] = "wait" => at[c] \notin chain[c]

\* A batch of tool calls is started by a generation that waits for them.
Batch == turn # None => task[turn] = "tool"

\* The inductive invariant.
IInv ==
  /\ TypeOK /\ StatusIsHolder /\ OneSupervised
  /\ Fresh /\ LockIsRunner /\ Line /\ Chains /\ Batch

-----------------------------------------------------------------------------
\* No call waits for a lock that a call of its own chain holds: a chain's calls are all
\* at backends of the chain, and the recursion guard refused those.
LEMMA ChainsNeverWait == IInv => NoSelfWait
<1> SUFFICES ASSUME IInv, NEW c \in Call, pc[c] = "wait", holder[at[c]] \in Above(c)
             PROVE  FALSE
  BY Zenon DEF NoSelfWait
<1> DEFINE S == {d \in Call : at[d] \in chain[c] /\ chain[d] \subseteq chain[c]}
           h == holder[at[c]]
<1>1. ({by[c]} \cup {by[e] : e \in S}) \ {None} \subseteq S
  <2>1. ASSUME NEW e \in Call, by[e] # None, chain[e] \subseteq chain[c]
        PROVE  by[e] \in S
    BY <2>1 DEF IInv, TypeOK, Chains
  <2> QED BY Zenon, <2>1
<1>2. h \in S
  BY ZenonT(30), <1>1 DEF Above
<1>3. at[c] \in Backend /\ h # None
  BY Zenon, <1>2, AiConstants DEF IInv, Fresh
<1>4. at[h] = at[c]
  BY Zenon, <1>3 DEF IInv, LockIsRunner
<1> QED
  BY Zenon, <1>2, <1>4 DEF IInv, Chains

-----------------------------------------------------------------------------
\* Nothing was sent.
LEMMA InitIInv == Init => IInv
<1> SUFFICES ASSUME Init PROVE IInv
  BY Zenon
<1> USE AiConstants
<1>1. TypeOK
  BY DEF Init, TypeOK
<1>2. StatusIsHolder /\ OneSupervised /\ Fresh /\ LockIsRunner /\ Chains /\ Batch
  BY Zenon DEF Init, StatusIsHolder, OneSupervised, Fresh, LockIsRunner, Chains, Batch
<1>3. Line
  BY DEF Init, Line
<1> QED
  BY Zenon, <1>1, <1>2, <1>3 DEF IInv

\* The line at a lock stays as it is while nobody joins or leaves it.
LEMMA LineKept ==
  ASSUME IInv, UNCHANGED waiters,
         \A d \in Call : /\ pc'[d] = "wait" <=> pc[d] = "wait"
                         /\ pc[d] = "wait" => at'[d] = at[d]
  PROVE  Line'
<1>1. \A b \in Backend : \A i \in 1..Len(waiters[b]) : waiters[b][i] \in Call
  BY DEF IInv, Line
<1>2. Line /\ waiters' = waiters
  BY Zenon DEF IInv
<1> QED
  BY <1>1, <1>2 DEF Line

\* A batch is through (_run).
LEMMA ToolsDoneStep ==
  ASSUME IInv, NEW p \in Call, ToolsDone(p)
  PROVE  IInv'
<1> USE AiConstants
<1>1. TypeOK'
  BY Zenon DEF IInv, TypeOK, ToolsDone, callVars, lockVars
<1>2. (StatusIsHolder /\ OneSupervised /\ Fresh /\ LockIsRunner /\ Chains /\ Batch)'
  BY DEF IInv, TypeOK, StatusIsHolder, OneSupervised, Fresh, LockIsRunner, Chains, Batch, ToolsDone,
         callVars, lockVars
<1>3. Line'
  BY DEF IInv, Line, ToolsDone, callVars
<1> QED
  BY Zenon, <1>1, <1>2, <1>3 DEF IInv

\* `interrupt` cancels the task of the call with the lock (_interrupt).
LEMMA InterruptStep ==
  ASSUME IInv, NEW b \in Backend, Interrupt(b)
  PROVE  IInv'
<1> USE AiConstants
<1>1. TypeOK'
  BY Zenon DEF IInv, TypeOK, Interrupt, CancelTask, Live, callVars, lockVars
<1>2. (StatusIsHolder /\ OneSupervised /\ Fresh /\ LockIsRunner /\ Chains /\ Batch)'
  BY DEF IInv, TypeOK, StatusIsHolder, OneSupervised, Fresh, LockIsRunner, Chains, Batch, Interrupt,
         CancelTask, Live, callVars, lockVars
<1>3. Line'
  BY DEF IInv, Line, Interrupt, callVars
<1> QED
  BY Zenon, <1>1, <1>2, <1>3 DEF IInv

\* A generation ends, and with it the call that waits for it (_run, the `finally` of _send).
LEMMA TaskEndStep ==
  ASSUME IInv, NEW c \in Call, TaskEnd(c)
  PROVE  IInv'
<1> USE AiConstants
<1>1. CASE pc[c] = "run"
  <2>0. /\ pc' = [pc EXCEPT ![c] = "done"] /\ task' = [task EXCEPT ![c] = "ended"] /\ turn = None
        /\ holder' = [holder EXCEPT ![at[c]] = None] /\ UNCHANGED <<at, by, chain, waiters, turn>>
    BY Zenon, <1>1 DEF TaskEnd, Leave, callVars
  <2>1. TypeOK'
    <3>1. {d \in Call : pc'[d] = "wait"} = {d \in Call : pc[d] = "wait"}
      BY ZenonT(30), <1>1 DEF IInv, TypeOK, TaskEnd, Leave
    <3> QED BY SMTT(20), <1>1, <3>1 DEF IInv, TypeOK, TaskEnd, Leave, callVars
  <2>2. (StatusIsHolder /\ OneSupervised /\ Fresh)'
    BY <1>1 DEF IInv, TypeOK, StatusIsHolder, OneSupervised, Fresh, LockIsRunner, TaskEnd, Leave, callVars
  <2>3. (LockIsRunner /\ Chains /\ Batch)'
    BY <1>1, <2>0 DEF IInv, TypeOK, Fresh, LockIsRunner, Chains, Batch
  <2>4. Line'
    <3>1. \A d \in Call : pc'[d] = "wait" <=> pc[d] = "wait"
      BY Zenon, <1>1, <2>0 DEF IInv, TypeOK
    <3> QED BY Zenon, <2>0, <3>1, LineKept
  <2> QED BY Zenon, <2>1, <2>2, <2>3, <2>4 DEF IInv
<1>2. CASE pc[c] # "run"
  <2>1. TypeOK'
    BY <1>2 DEF IInv, TypeOK, TaskEnd, callVars, lockVars
  <2>2. (StatusIsHolder /\ OneSupervised /\ Fresh)'
    BY <1>2 DEF IInv, TypeOK, StatusIsHolder, OneSupervised, Fresh, TaskEnd, callVars, lockVars
  <2>3. (LockIsRunner /\ Chains /\ Batch)'
    BY <1>2 DEF IInv, TypeOK, LockIsRunner, Chains, Batch, TaskEnd, callVars, lockVars
  <2>4. Line'
    BY <1>2 DEF IInv, Line, TaskEnd, callVars
  <2> QED BY Zenon, <2>1, <2>2, <2>3, <2>4 DEF IInv
<1> QED
  BY Zenon, <1>1, <1>2

\* The time limit ends the call and cancels its task (wait_for in _send).
LEMMA TimeoutStep ==
  ASSUME IInv, NEW c \in Call, Timeout(c)
  PROVE  IInv'
<1> USE AiConstants
<1>1. TypeOK'
  <2>1. \A d \in Call : pc[d] = "wait" <=> pc'[d] = "wait"
    BY Zenon DEF IInv, TypeOK, Timeout, Leave
  <2> QED BY ZenonT(30), <2>1 DEF IInv, TypeOK, Timeout, CancelTask, Live, Leave, callVars
<1>2. (StatusIsHolder /\ OneSupervised /\ Fresh)'
  BY DEF IInv, TypeOK, StatusIsHolder, OneSupervised, Fresh, LockIsRunner, Timeout, CancelTask, Live,
         Leave, callVars
<1>3. (LockIsRunner /\ Chains /\ Batch)'
  BY DEF IInv, TypeOK, Fresh, LockIsRunner, Chains, Batch, Timeout, CancelTask, Live, Leave, callVars
<1>4. Line'
  <2>1. \A d \in Call : pc'[d] = "wait" <=> pc[d] = "wait"
    BY Zenon DEF IInv, TypeOK, Timeout, Leave
  <2> QED BY Zenon, <2>1, LineKept DEF Timeout, callVars
<1> QED
  BY Zenon, <1>1, <1>2, <1>3, <1>4 DEF IInv

-----------------------------------------------------------------------------
\* A sequence is a sequence of whatever all its elements are.
LEMMA SeqNarrowed ==
  ASSUME NEW S, NEW R, NEW s \in Seq(S), \A i \in 1..Len(s) : s[i] \in R
  PROVE  s \in Seq(R)
  OBVIOUS

\* What is left of a sequence when one element is taken out of it.
LEMMA RemoveAtIs ==
  ASSUME NEW S, NEW s \in Seq(S), NEW k \in 1..Len(s)
  PROVE  /\ RemoveAt(s, k) \in Seq(S) /\ Len(RemoveAt(s, k)) = Len(s) - 1
         /\ \A j \in 1..(Len(s) - 1) : RemoveAt(s, k)[j] = IF j < k THEN s[j] ELSE s[j + 1]
<1> DEFINE u == SubSeq(s, 1, k - 1)
           v == SubSeq(s, k + 1, Len(s))
<1>1. u \in Seq(S) /\ Len(u) = k - 1 /\ \A j \in 1..(k - 1) : u[j] = s[j]
  BY SubSeqProperties
<1>2. v \in Seq(S) /\ Len(v) = Len(s) - k /\ \A j \in 1..(Len(s) - k) : v[j] = s[k + j]
  BY SubSeqProperties
<1> HIDE DEF u, v
<1>3. /\ u \o v \in Seq(S) /\ Len(u \o v) = Len(u) + Len(v)
      /\ \A j \in 1..(Len(u) + Len(v)) : (u \o v)[j] = IF j <= Len(u) THEN u[j] ELSE v[j - Len(u)]
  BY ZenonT(30), <1>1, <1>2, ConcatProperties
<1>4. RemoveAt(s, k) = u \o v
  BY Zenon DEF RemoveAt, u, v
<1>5. Len(s) \in Nat /\ k \in Nat /\ Len(u) + Len(v) = Len(s) - 1
  BY <1>1, <1>2
<1>6. ASSUME NEW j \in 1..(Len(s) - 1) PROVE (u \o v)[j] = IF j < k THEN s[j] ELSE s[j + 1]
  <2>1. CASE j < k
    BY <1>1, <1>3, <1>5, <2>1
  <2>2. CASE ~(j < k)
    <3>1. (u \o v)[j] = v[j - (k - 1)] /\ j - (k - 1) \in 1..(Len(s) - k)
      BY SMTT(20), <1>1, <1>3, <1>5, <2>2
    <3>2. v[j - (k - 1)] = s[k + (j - (k - 1))] /\ k + (j - (k - 1)) = j + 1
      BY SMTT(20), <1>2, <1>5, <3>1
    <3> QED BY Zenon, <2>2, <3>1, <3>2
  <2> QED BY ZenonT(30), <2>1, <2>2
<1> QED
  BY Zenon, <1>3, <1>4, <1>5, <1>6

\* A call leaves the line at its lock, wherever it stood.
LEMMA LineLess ==
  ASSUME IInv, NEW c \in Call, pc[c] = "wait", NEW x, x # "wait", pc' = [pc EXCEPT ![c] = x],
         NEW b \in Backend, at[c] = b, UNCHANGED at,
         NEW k \in 1..Len(waiters[b]), waiters[b][k] = c,
         NEW s \in Seq(Call), waiters' = [waiters EXCEPT ![b] = s], Len(s) = Len(waiters[b]) - 1,
         \A j \in 1..(Len(waiters[b]) - 1) : s[j] = IF j < k THEN waiters[b][j] ELSE waiters[b][j + 1]
  PROVE  /\ Line'
         /\ \A e \in Backend : waiters'[e] \in Seq({d \in Call : pc'[d] = "wait"})
<1> DEFINE w == waiters[b]
<1>1. w \in Seq(Call) /\ Len(w) \in Nat /\ waiters'[b] = s
  BY DEF IInv, Line
<1>2. waiters' \in [Backend -> Seq(Call)] /\ \A e \in Backend \ {b} : waiters'[e] = waiters[e]
  BY DEF IInv, Line
<1>3. \A i, j \in 1..Len(w) : w[i] = w[j] => i = j
  BY DEF IInv, Line
<1>4. \A j \in 1..Len(s) : \E i \in (1..Len(w)) \ {k} : s[j] = w[i] /\ (i = IF j < k THEN j ELSE j + 1)
  BY SMTT(20), <1>1
<1>5. \A j \in 1..Len(s) : s[j] \in Call \ {c} /\ pc[s[j]] = "wait" /\ at[s[j]] = b
  <2> TAKE j \in 1..Len(s)
  <2>1. PICK i \in (1..Len(w)) \ {k} : s[j] = w[i]
    BY ZenonT(30), <1>4
  <2>2. w[i] # c /\ w[i] \in Call
    BY <1>1, <1>3
  <2> QED BY SMTT(20), <2>1, <2>2 DEF IInv, Line
<1>6. \A i, j \in 1..Len(s) : s[i] = s[j] => i = j
  <2> TAKE i, j \in 1..Len(s)
  <2> HAVE s[i] = s[j]
  <2>1. PICK p \in (1..Len(w)) \ {k} : s[i] = w[p] /\ (p = IF i < k THEN i ELSE i + 1)
    BY Zenon, <1>4
  <2>2. PICK q \in (1..Len(w)) \ {k} : s[j] = w[q] /\ (q = IF j < k THEN j ELSE j + 1)
    BY Zenon, <1>4
  <2>3. p = q
    BY ZenonT(30), <1>3, <2>1, <2>2
  <2> QED BY <1>1, <2>1, <2>2, <2>3
<1> HIDE DEF w
<1>7. ASSUME NEW e \in Backend, NEW i \in 1..Len(waiters'[e])
      PROVE  /\ pc'[waiters'[e][i]] = "wait" /\ at'[waiters'[e][i]] = e
             /\ \A j \in 1..Len(waiters'[e]) : waiters'[e][i] = waiters'[e][j] => i = j
  <2>1. CASE e = b
    <3>1. i \in 1..Len(s)
      BY Zenon, <1>1, <1>7, <2>1
    <3>2. pc'[s[i]] = "wait" /\ at'[s[i]] = b
      BY Zenon, <1>5, <3>1 DEF IInv, TypeOK
    <3> QED BY SMTT(20), <1>1, <1>6, <2>1, <3>1, <3>2
  <2>2. CASE e # b
    <3>1. waiters'[e] = waiters[e] /\ waiters[e] \in Seq(Call) /\ waiters[e][i] \in Call
      BY <1>2, <1>7, <2>2 DEF IInv, Line
    <3>2. pc[waiters[e][i]] = "wait" /\ at[waiters[e][i]] = e
      BY <1>7, <3>1 DEF IInv, Line
    <3>3. \A j \in 1..Len(waiters[e]) : waiters[e][i] = waiters[e][j] => i = j
      BY Zenon, <1>7, <3>1 DEF IInv, Line
    <3> QED BY Zenon, <2>2, <3>1, <3>2, <3>3 DEF IInv, TypeOK
  <2> QED BY Zenon, <2>1, <2>2
<1>8. ASSUME NEW d \in Call, pc'[d] = "wait"
      PROVE  \E i \in 1..Len(waiters'[at'[d]]) : waiters'[at'[d]][i] = d
  <2>1. pc[d] = "wait" /\ d # c /\ at[d] \in Backend
    BY Zenon, <1>8 DEF IInv, TypeOK, Fresh
  <2>2. PICK i \in 1..Len(waiters[at[d]]) : waiters[at[d]][i] = d
    BY Zenon, <2>1 DEF IInv, Line
  <2>3. CASE at[d] = b
    <3>1. i \in (1..Len(w)) \ {k} /\ w[i] = d
      BY Zenon, <2>1, <2>2, <2>3 DEF w
    <3>2. CASE i < k
      BY SMTT(20), <1>1, <2>3, <3>1, <3>2 DEF w
    <3>3. CASE i > k
      <4>1. i - 1 \in 1..Len(s) /\ s[i - 1] = d
        BY <1>1, <3>1, <3>3 DEF w
      <4> QED BY Zenon, <1>1, <2>3, <4>1
    <3> QED BY <1>1, <3>1, <3>2, <3>3
  <2>4. CASE at[d] # b
    BY Zenon, <1>2, <2>1, <2>2, <2>4
  <2> QED BY Zenon, <2>3, <2>4
<1>9. Line'
  BY ZenonT(30), <1>2, <1>7, <1>8 DEF Line
<1>10. ASSUME NEW e \in Backend PROVE waiters'[e] \in Seq({d \in Call : pc'[d] = "wait"})
  <2>1. waiters'[e] \in Seq(Call) /\ \A i \in 1..Len(waiters'[e]) : pc'[waiters'[e][i]] = "wait"
    BY <1>2, <1>7
  <2>2. \A i \in 1..Len(waiters'[e]) : waiters'[e][i] \in {d \in Call : pc'[d] = "wait"}
    BY Zenon, <2>1, ElementOfSeq
  <2> QED BY Zenon, <2>1, <2>2, SeqNarrowed
<1> QED
  BY ZenonT(30), <1>9, <1>10

\* A call joins the end of the line at its lock.
LEMMA LineMore ==
  ASSUME IInv, NEW c \in Call, pc[c] = "new", pc' = [pc EXCEPT ![c] = "wait"],
         NEW b \in Backend, at' = [at EXCEPT ![c] = b],
         waiters' = [waiters EXCEPT ![b] = Append(@, c)]
  PROVE  /\ Line'
         /\ \A e \in Backend : waiters'[e] \in Seq({d \in Call : pc'[d] = "wait"})
<1> DEFINE w == waiters[b]
           s == Append(w, c)
<1>1. w \in Seq(Call) /\ Len(w) \in Nat
  BY DEF IInv, Line
<1>2. /\ s \in Seq(Call) /\ Len(s) = Len(w) + 1 /\ s[Len(w) + 1] = c
      /\ \A i \in 1..Len(w) : s[i] = w[i]
  BY <1>1, AppendProperties
<1>3. \A e \in Backend : \A i \in 1..Len(waiters[e]) :
        waiters[e][i] \in Call \ {c} /\ pc[waiters[e][i]] = "wait" /\ at[waiters[e][i]] = e
  BY DEF IInv, Line
<1>4. /\ waiters' \in [Backend -> Seq(Call)] /\ waiters'[b] = s
      /\ \A e \in Backend \ {b} : waiters'[e] = waiters[e]
  BY <1>2 DEF IInv, Line
<1>5. \A i \in 1..Len(s) : pc'[s[i]] = "wait" /\ at'[s[i]] = b
  <2> TAKE i \in 1..Len(s)
  <2>1. CASE i = Len(w) + 1
    BY SMTT(20), <1>2, <2>1 DEF IInv, TypeOK
  <2>2. CASE i \in 1..Len(w)
    <3>1. s[i] \in Call \ {c} /\ pc[s[i]] = "wait" /\ at[s[i]] = b
      BY <1>2, <1>3, <2>2
    <3> HIDE DEF s
    <3> QED BY Zenon, <3>1 DEF IInv, TypeOK
  <2> QED BY <1>1, <1>2, <2>1, <2>2
<1>6. \A i, j \in 1..Len(s) : s[i] = s[j] => i = j
  <2>1. \A i, j \in 1..Len(w) : w[i] = w[j] => i = j
    BY Zenon DEF IInv, Line
  <2>2. \A i \in 1..Len(w) : w[i] # c
    BY <1>3
  <2> HIDE DEF s, w
  <2>3. \A i \in 1..Len(s) : i = Len(w) + 1 \/ i \in 1..Len(w)
    BY SMTT(20), <1>1, <1>2
  <2> QED BY <1>2, <2>1, <2>2, <2>3
<1> HIDE DEF s, w
<1>7. ASSUME NEW e \in Backend, NEW i \in 1..Len(waiters'[e])
      PROVE  /\ pc'[waiters'[e][i]] = "wait" /\ at'[waiters'[e][i]] = e
             /\ \A j \in 1..Len(waiters'[e]) : waiters'[e][i] = waiters'[e][j] => i = j
  <2>1. CASE e = b
    <3>1. waiters'[e] = s /\ i \in 1..Len(s)
      BY Zenon, <1>4, <1>7, <2>1
    <3>2. pc'[s[i]] = "wait" /\ at'[s[i]] = b
      BY Zenon, <1>5, <3>1
    <3>3. \A j \in 1..Len(s) : s[i] = s[j] => i = j
      BY Zenon, <1>6, <3>1
    <3> QED BY Zenon, <2>1, <3>1, <3>2, <3>3
  <2>2. CASE e # b
    <3>1. waiters'[e] = waiters[e] /\ i \in 1..Len(waiters[e])
      BY Zenon, <1>4, <1>7, <2>2
    <3>2. waiters[e][i] \in Call \ {c} /\ pc[waiters[e][i]] = "wait" /\ at[waiters[e][i]] = e
      BY Zenon, <1>3, <3>1
    <3>3. \A j \in 1..Len(waiters[e]) : waiters[e][i] = waiters[e][j] => i = j
      BY Zenon, <3>1 DEF IInv, Line
    <3> QED BY Zenon, <3>1, <3>2, <3>3 DEF IInv, TypeOK
  <2> QED BY Zenon, <2>1, <2>2
<1>8. ASSUME NEW d \in Call, pc'[d] = "wait"
      PROVE  \E i \in 1..Len(waiters'[at'[d]]) : waiters'[at'[d]][i] = d
  <2>1. CASE d = c
    <3>1. at'[c] = b /\ Len(s) \in 1..Len(s) /\ s[Len(s)] = c
      BY SMTT(20), <1>1, <1>2 DEF IInv, TypeOK
    <3> QED BY SMTT(20), <1>4, <2>1, <3>1
  <2>2. CASE d # c
    <3>1. pc[d] = "wait" /\ at'[d] = at[d] /\ at[d] \in Backend
      BY Zenon, <1>8, <2>2 DEF IInv, TypeOK, Fresh
    <3>2. PICK i \in 1..Len(waiters[at[d]]) : waiters[at[d]][i] = d
      BY Zenon, <3>1 DEF IInv, Line
    <3>3. CASE at[d] = b
      <4>1. i \in 1..Len(s) /\ s[i] = d
        BY <1>1, <1>2, <3>2, <3>3 DEF w
      <4> QED BY ZenonT(30), <1>4, <3>1, <3>3, <4>1
    <3>4. CASE at[d] # b
      BY Zenon, <1>4, <3>1, <3>2, <3>4
    <3> QED BY Zenon, <3>3, <3>4
  <2> QED BY Zenon, <2>1, <2>2
<1>9. Line'
  BY ZenonT(30), <1>4, <1>7, <1>8 DEF Line
<1>10. ASSUME NEW e \in Backend PROVE waiters'[e] \in Seq({d \in Call : pc'[d] = "wait"})
  <2>1. waiters'[e] \in Seq(Call) /\ \A i \in 1..Len(waiters'[e]) : pc'[waiters'[e][i]] = "wait"
    BY <1>4, <1>7
  <2>2. \A i \in 1..Len(waiters'[e]) : waiters'[e][i] \in {d \in Call : pc'[d] = "wait"}
    BY Zenon, <2>1, ElementOfSeq
  <2> QED BY ZenonT(30), <2>1, <2>2, SeqNarrowed
<1> QED
  BY Zenon, <1>9, <1>10

\* The lock goes to the first waiter (async with lock).
LEMMA AcquireStep ==
  ASSUME IInv, NEW c \in Call, Acquire(c)
  PROVE  IInv'
<1> USE AiConstants
<1> PICK b \in Backend : b = at[c]
  BY Zenon DEF IInv, Fresh, Acquire
<1>1. /\ pc[c] = "wait" /\ holder[b] = None /\ Head(waiters[b]) = c /\ turn = None
      /\ waiters[b] \in Seq(Call) /\ Len(waiters[b]) >= 1
      /\ pc' = [pc EXCEPT ![c] = "run"]
      /\ waiters' = [waiters EXCEPT ![b] = Tail(waiters[b])]
      /\ queue' = [queue EXCEPT ![b] = @ \ {c}]
      /\ holder' = [holder EXCEPT ![b] = c] /\ current' = [current EXCEPT ![b] = c]
      /\ tasks' = [tasks EXCEPT ![b] = c] /\ task' = [task EXCEPT ![c] = "gen"]
      /\ UNCHANGED <<at, by, chain, turn, cut>>
  BY DEF IInv, Line, Acquire, Hold, callVars
<1>2. /\ waiters[b][1] = c /\ Len(Tail(waiters[b])) = Len(waiters[b]) - 1 /\ Tail(waiters[b]) \in Seq(Call)
      /\ \A i \in 1..(Len(waiters[b]) - 1) : Tail(waiters[b])[i] = waiters[b][i + 1]
      /\ 1 \in 1..Len(waiters[b])
  BY SMTT(20), <1>1
<1>3. Line' /\ \A e \in Backend : waiters'[e] \in Seq({d \in Call : pc'[d] = "wait"})
  <2>1. \A j \in 1..(Len(waiters[b]) - 1) :
          Tail(waiters[b])[j] = IF j < 1 THEN waiters[b][j] ELSE waiters[b][j + 1]
    BY <1>1, <1>2
  <2> QED BY ZenonT(30), <1>1, <1>2, <2>1, LineLess
<1>4. TypeOK'
  BY Zenon, <1>1, <1>3 DEF IInv, TypeOK
<1>5. (StatusIsHolder /\ OneSupervised /\ Fresh)'
  BY SMTT(20), <1>1 DEF IInv, TypeOK, StatusIsHolder, OneSupervised, Fresh
<1>6. (LockIsRunner /\ Chains /\ Batch)'
  BY SMTT(20), <1>1 DEF IInv, TypeOK, Fresh, LockIsRunner, Chains, Batch
<1> QED
  BY Zenon, <1>3, <1>4, <1>5, <1>6 DEF IInv

\* A cancelled call leaves the line, or leaves the lock with its task still going
\* (CancelledError in _send).
LEMMA CancelledStep ==
  ASSUME IInv, NEW c \in Call, Cancelled(c)
  PROVE  IInv'
<1> USE AiConstants
<1>0. turn = None /\ UNCHANGED <<at, by, chain, task, queue, turn>>
  BY Zenon DEF Cancelled, callVars
<1>1. CASE pc[c] = "wait"
  <2>1. /\ pc' = [pc EXCEPT ![c] = "done"] /\ DropWaiter(c)
        /\ UNCHANGED <<holder, current, tasks, cut>>
    BY Zenon, <1>1 DEF Cancelled, lockVars
  <2> PICK b \in Backend : b = at[c]
    BY Zenon, <1>1 DEF IInv, Fresh
  <2>2. PICK k \in DOMAIN waiters[b] :
          waiters[b][k] = c /\ waiters' = [waiters EXCEPT ![b] = RemoveAt(waiters[b], k)]
    BY ZenonT(30), <2>1 DEF DropWaiter
  <2>3. waiters[b] \in Seq(Call) /\ k \in 1..Len(waiters[b])
    BY <2>2 DEF IInv, Line
  <2>4. Line' /\ \A e \in Backend : waiters'[e] \in Seq({d \in Call : pc'[d] = "wait"})
    <3> DEFINE s == RemoveAt(waiters[b], k)
    <3>1. /\ s \in Seq(Call) /\ Len(s) = Len(waiters[b]) - 1
          /\ \A j \in 1..(Len(waiters[b]) - 1) : s[j] = IF j < k THEN waiters[b][j] ELSE waiters[b][j + 1]
      BY ZenonT(30), <2>3, RemoveAtIs
    <3>2. waiters' = [waiters EXCEPT ![b] = s] /\ waiters[b][k] = c
      BY Zenon, <2>2
    <3>3. at[c] = b /\ UNCHANGED at /\ "done" # "wait" /\ k \in 1..Len(waiters[b])
      BY Zenon, <1>0, <2>3
    <3> HIDE DEF s
    <3> QED BY ZenonT(30), <1>1, <2>1, <3>1, <3>2, <3>3, LineLess
  <2>5. TypeOK'
    BY ZenonT(30), <1>0, <2>1, <2>4 DEF IInv, TypeOK
  <2>6. (StatusIsHolder /\ OneSupervised /\ Fresh)'
    BY <1>0, <1>1, <2>1 DEF IInv, TypeOK, StatusIsHolder, OneSupervised, Fresh
  <2>7. (LockIsRunner /\ Chains /\ Batch)'
    BY SMTT(20), <1>0, <1>1, <2>1 DEF IInv, TypeOK, LockIsRunner, Chains, Batch
  <2> QED BY Zenon, <2>4, <2>5, <2>6, <2>7 DEF IInv
<1>2. CASE pc[c] = "run"
  <2> PICK b \in Backend : b = at[c]
    BY Zenon, <1>2 DEF IInv, Fresh
  <2>1. /\ pc' = [pc EXCEPT ![c] = "done"] /\ holder' = [holder EXCEPT ![b] = None]
        /\ current' = [current EXCEPT ![b] = None] /\ tasks' = [tasks EXCEPT ![b] = None]
        /\ cut' = cut \cup {c} /\ UNCHANGED waiters /\ holder[b] = c
    BY Zenon, <1>2 DEF IInv, LockIsRunner, Cancelled, Leave
  <2>2. \A d \in Call : pc'[d] = "wait" <=> pc[d] = "wait"
    BY Zenon, <1>2, <2>1 DEF IInv, TypeOK
  <2>3. TypeOK'
    <3>1. {d \in Call : pc'[d] = "wait"} = {d \in Call : pc[d] = "wait"}
      BY ZenonT(30), <2>2
    <3> QED BY ZenonT(30), <1>0, <2>1, <3>1 DEF IInv, TypeOK
  <2>4. Line'
    BY Zenon, <1>0, <2>1, <2>2, LineKept
  <2>5. (StatusIsHolder /\ OneSupervised /\ Fresh)'
    BY SMTT(20), <1>0, <1>2, <2>1 DEF IInv, TypeOK, StatusIsHolder, OneSupervised, Fresh
  <2>6. (LockIsRunner /\ Chains /\ Batch)'
    BY SMTT(20), <1>0, <1>2, <2>1 DEF IInv, TypeOK, Fresh, LockIsRunner, Chains, Batch
  <2> QED BY Zenon, <2>3, <2>4, <2>5, <2>6 DEF IInv
<1> QED
  BY Zenon, <1>1, <1>2 DEF Cancelled

-----------------------------------------------------------------------------
\* What a send does with its task: it begins, or not, and a generation that made it waits.
TaskOf(c) ==
  /\ task' \in [Call -> {"none", "gen", "tool", "cancel", "ended"}]
  /\ task'[c] = Begun(c)
  /\ \A d \in Call \ {c} : task'[d] = task[d] \/ (task'[d] = "tool" /\ task[d] \in {"gen", "tool"})
  /\ turn' \in Call \cup {None} /\ Batch' /\ UNCHANGED cut

\* The generation that makes a send was started before.
Making(p, c) == p # None => p # c /\ pc[p] # "new"

\* A send is refused, or it waits, last in line, or it has the lock at once (_send);
\* p is the generation that made it.
LEMMA SendStep ==
  ASSUME IInv, NEW c \in Call, NEW b \in Backend, NEW p \in Call \cup {None},
         Making(p, c), Send(c, b, p), TaskOf(c)
  PROVE  IInv'
<1>0. /\ task' \in [Call -> {"none", "gen", "tool", "cancel", "ended"}] /\ task'[c] = Begun(c)
      /\ \A d \in Call \ {c} : task'[d] = task[d] \/ (task'[d] = "tool" /\ task[d] \in {"gen", "tool"})
      /\ turn' \in Call \cup {None} /\ Batch' /\ UNCHANGED cut
      /\ p # None => p # c /\ pc[p] # "new"
  BY Zenon DEF TaskOf, Making
<1> USE <1>0
<1> USE AiConstants
<1> DEFINE st == IF p = None THEN {} ELSE chain[p] \cup {at[p]}
<1>1. /\ pc[c] = "new" /\ at' = [at EXCEPT ![c] = b] /\ by' = [by EXCEPT ![c] = p]
      /\ chain' = [chain EXCEPT ![c] = st]
  BY Zenon DEF Send
<1>2. st \in SUBSET Backend
  BY DEF IInv, TypeOK, Fresh
<1>3. \A d \in Call : by[d] # c
  BY Zenon, <1>1 DEF IInv, Chains
<1>4. \A e \in Backend : \A i \in 1..Len(waiters[e]) : waiters[e][i] \in Call \ {c}
  BY SMTT(20), <1>1 DEF IInv, Line
<1>5. \A e \in Backend : holder[e] # c
  BY <1>1 DEF IInv, LockIsRunner
<1> HIDE DEF st
<1>6. ASSUME NEW x \in {"done", "run", "wait"}, pc' = [pc EXCEPT ![c] = x], x = "wait" => b \notin st
      PROVE  Chains'
  <2>1. \A d \in Call \ {c} : at'[d] = at[d] /\ by'[d] = by[d] /\ chain'[d] = chain[d] /\ pc'[d] = pc[d]
    BY Zenon, <1>1, <1>6 DEF IInv, TypeOK
  <2>2. at'[c] = b /\ by'[c] = p /\ chain'[c] = st /\ pc'[c] = x
    BY Zenon, <1>1, <1>6 DEF IInv, TypeOK
  <2>3. ASSUME NEW d \in Call
        PROVE  /\ by'[d] = None => chain'[d] = {}
               /\ by'[d] # None => pc'[by'[d]] # "new" /\ chain'[d] = chain'[by'[d]] \cup {at'[by'[d]]}
               /\ pc'[d] = "wait" => at'[d] \notin chain'[d]
    <3>1. CASE d = c
      <4>1. CASE p = None
        BY Zenon, <1>6, <2>2, <3>1, <4>1 DEF st
      <4>2. CASE p \in Call
        <5>1. /\ p \in Call \ {c} /\ pc'[p] # "new"
              /\ st = chain'[p] \cup {at'[p]}
          BY Zenon, <2>1, <4>2 DEF st
        <5> QED BY Zenon, <1>6, <2>2, <3>1, <4>2, <5>1
      <4> QED BY Zenon, <4>1, <4>2
    <3>2. CASE d # c
      <4>1. by[d] \in (Call \ {c}) \cup {None}
        BY Zenon, <1>3 DEF IInv, TypeOK
      <4>2. /\ by[d] = None => chain[d] = {}
            /\ by[d] # None => pc[by[d]] # "new" /\ chain[d] = chain[by[d]] \cup {at[by[d]]}
            /\ pc[d] = "wait" => at[d] \notin chain[d]
        BY Zenon DEF IInv, Chains
      <4>3. CASE by[d] = None
        BY Zenon, <2>1, <3>2, <4>2, <4>3
      <4>4. CASE by[d] \in Call \ {c}
        BY ZenonT(30), <2>1, <3>2, <4>2, <4>4
      <4> QED BY Zenon, <4>1, <4>3, <4>4
    <3> QED BY Zenon, <3>1, <3>2
  <2> QED BY ZenonT(30), <2>3 DEF Chains
<1>7. CASE pc' = [pc EXCEPT ![c] = "done"] /\ UNCHANGED <<lockVars, waiters, queue>>
  <2>1. Begun(c) = "none" /\ UNCHANGED <<holder, current, tasks, waiters, queue>>
    BY Zenon, <1>7 DEF IInv, TypeOK, Begun, lockVars
  <2>2. TypeOK'
    <3>1. {d \in Call : pc'[d] = "wait"} = {d \in Call : pc[d] = "wait"}
      BY Zenon, <1>1, <1>7 DEF IInv, TypeOK
    <3> QED BY SMTT(20), <1>1, <1>2, <1>7, <2>1, <3>1 DEF IInv, TypeOK
  <2>3. (StatusIsHolder /\ OneSupervised /\ Fresh)'
    BY SMTT(20), <1>1, <1>7, <2>1 DEF IInv, TypeOK, StatusIsHolder, OneSupervised, Fresh
  <2>4. LockIsRunner'
    BY SMTT(20), <1>1, <1>5, <1>7, <2>1 DEF IInv, TypeOK, Fresh, LockIsRunner
  <2>5. Line'
    <3>1. \A d \in Call : /\ pc'[d] = "wait" <=> pc[d] = "wait"
                          /\ pc[d] = "wait" => at'[d] = at[d]
      BY Zenon, <1>1, <1>7 DEF IInv, TypeOK
    <3> QED BY Zenon, <1>7, <3>1, LineKept
  <2>6. Chains'
    BY Zenon, <1>6, <1>7
  <2> QED BY Zenon, <2>2, <2>3, <2>4, <2>5, <2>6 DEF IInv
<1>8. CASE /\ holder[b] = None
           /\ pc' = [pc EXCEPT ![c] = "run"] /\ Hold(c, b) /\ UNCHANGED <<waiters, queue>>
  <2>1. /\ Begun(c) = "gen" /\ holder' = [holder EXCEPT ![b] = c]
        /\ current' = [current EXCEPT ![b] = c] /\ tasks' = [tasks EXCEPT ![b] = c]
    BY Zenon, <1>8 DEF IInv, TypeOK, Begun, Hold
  <2>2. TypeOK'
    <3>1. {d \in Call : pc'[d] = "wait"} = {d \in Call : pc[d] = "wait"}
      BY Zenon, <1>1, <1>8 DEF IInv, TypeOK
    <3> QED BY ZenonT(30), <1>1, <1>2, <1>8, <2>1, <3>1 DEF IInv, TypeOK
  <2>3. (StatusIsHolder /\ OneSupervised /\ Fresh)'
    BY <1>1, <1>8, <2>1 DEF IInv, TypeOK, StatusIsHolder, OneSupervised, Fresh
  <2>4. LockIsRunner'
    BY <1>1, <1>5, <1>8, <2>1 DEF IInv, TypeOK, Fresh, LockIsRunner
  <2>5. Line'
    <3>1. \A d \in Call : /\ pc'[d] = "wait" <=> pc[d] = "wait"
                          /\ pc[d] = "wait" => at'[d] = at[d]
      BY SMTT(20), <1>1, <1>8 DEF IInv, TypeOK
    <3> QED BY Zenon, <1>8, <3>1, LineKept
  <2>6. Chains'
    BY Zenon, <1>6, <1>8
  <2> QED BY Zenon, <2>2, <2>3, <2>4, <2>5, <2>6 DEF IInv
<1>9. CASE /\ ~Refused(b, st) /\ pc' = [pc EXCEPT ![c] = "wait"]
           /\ waiters' = [waiters EXCEPT ![b] = Append(@, c)]
           /\ queue' = [queue EXCEPT ![b] = @ \cup {c}] /\ UNCHANGED lockVars
  <2>1. Begun(c) = "none" /\ UNCHANGED <<holder, current, tasks>> /\ b \notin st
    BY Zenon, <1>9 DEF IInv, TypeOK, Begun, lockVars, Refused
  <2>2. Line' /\ \A e \in Backend : waiters'[e] \in Seq({d \in Call : pc'[d] = "wait"})
    BY ZenonT(30), <1>1, <1>4, <1>9, LineMore DEF IInv
  <2>3. TypeOK'
    BY SMTT(20), <1>1, <1>2, <1>9, <2>1, <2>2 DEF IInv, TypeOK
  <2>4. (StatusIsHolder /\ OneSupervised /\ Fresh)'
    BY SMTT(20), <1>1, <1>9, <2>1 DEF IInv, TypeOK, StatusIsHolder, OneSupervised, Fresh
  <2>5. LockIsRunner'
    BY <1>1, <1>5, <1>9, <2>1 DEF IInv, TypeOK, Fresh, LockIsRunner
  <2>6. Chains'
    BY Zenon, <1>6, <1>9, <2>1
  <2> QED BY Zenon, <2>2, <2>3, <2>4, <2>5, <2>6 DEF IInv
<1> QED
  BY Zenon, <1>7, <1>8, <1>9 DEF Send, st

\* A send from outside (_send).
LEMMA UserSendStep ==
  ASSUME IInv, NEW c \in Call, NEW b \in Backend, UserSend(c, b)
  PROVE  IInv'
<1>1. turn = None /\ Send(c, b, None) /\ task' = [task EXCEPT ![c] = Begun(c)] /\ UNCHANGED <<turn, cut>>
  BY Zenon DEF UserSend
<1>2. TaskOf(c)
  BY Zenon, <1>1 DEF IInv, TypeOK, Begun, Batch, TaskOf
<1>3. Making(None, c)
  BY Zenon DEF Making
<1> QED
  BY Zenon, <1>1, <1>2, <1>3, SendStep

\* A send that a generation makes as a tool call (_run, _send).
LEMMA ToolSendStep ==
  ASSUME IInv, NEW p \in Call, NEW c \in Call, NEW b \in Backend, ToolSend(p, c, b)
  PROVE  IInv'
<1> USE AiConstants
<1>1. /\ task[p] \in {"gen", "tool"} /\ Send(c, b, p) /\ UNCHANGED cut
      /\ task' = [task EXCEPT ![p] = "tool", ![c] = Begun(c)]
      /\ turn' \in {None, p}
  BY Zenon DEF IInv, Batch, ToolSend
<1>2. pc[c] = "new" /\ pc[p] # "new" /\ p # c
  BY Zenon, <1>1 DEF IInv, Fresh, Send
<1>3. TaskOf(c)
  BY Zenon, <1>1, <1>2 DEF IInv, TypeOK, Begun, Batch, TaskOf
<1>4. Making(p, c)
  BY Zenon, <1>2 DEF Making
<1> QED
  BY Zenon, <1>1, <1>3, <1>4, SendStep

\* No step of `send`, its task, `interrupt` or a cancellation breaks the invariant.
LEMMA NextIInv == IInv /\ [Next]_vars => IInv'
<1> SUFFICES ASSUME IInv, [Next]_vars PROVE IInv'
  BY Zenon
<1>1. CASE UNCHANGED vars
  BY SMTT(20), <1>1 DEF IInv, TypeOK, StatusIsHolder, OneSupervised, Fresh, LockIsRunner, Line, Chains, Batch,
              vars, callVars, lockVars
<1>2. CASE \E c \in Call : Step(c) \/ TaskEnd(c) \/ Timeout(c) \/ Disconnect(c)
  BY ZenonT(30), <1>2, AcquireStep, ToolsDoneStep, CancelledStep, TaskEndStep, TimeoutStep
     DEF Step, KidCancelled, Disconnect
<1>3. CASE \E c \in Call, b \in Backend : UserSend(c, b) \/ \E p \in Call : ToolSend(p, c, b)
  BY Zenon, <1>3, UserSendStep, ToolSendStep
<1>4. CASE \E b \in Backend : Interrupt(b)
  BY Zenon, <1>4, InterruptStep
<1> QED
  BY Zenon, <1>1, <1>2, <1>3, <1>4 DEF Next

\* The strengthening is an invariant of any number of backends and calls (_send and what
\* it suspends on).
THEOREM AiSendInvariant == Spec => []IInv
<1> QED
  BY InitIInv, NextIInv, PTL DEF Spec

\* `status` and `interrupt` act on the call with the lock, nothing generates without the
\* lock unless its caller was cancelled behind the shield, and no chain of calls waits for
\* itself, for any backends, calls and MAX_CALL_DEPTH (_send, _set_current, _interrupt).
THEOREM SendsSupervised == Spec => []Supervised
<1>1. IInv => Supervised
  BY Zenon, ChainsNeverWait DEF IInv, Supervised
<1> QED
  BY <1>1, AiSendInvariant, PTL
=============================================================================
