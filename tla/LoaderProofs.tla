---------------------------- MODULE LoaderProofs ----------------------------
(***************************************************************************)
(* The write-back of the page's tree (ProxyLoader): what the page holds    *)
(* and the host does not is always on its way, unless a call about it      *)
(* failed, and no record of the host goes back to an older version.        *)
(***************************************************************************)
EXTENDS ProxyLoader, Integers, TLAPS

-----------------------------------------------------------------------------
Version == Nat \cup {Absent}
Op == [by : Flush, id : Record, val : Version, sent : BOOLEAN]

LoaderType ==
  /\ live \in [Record -> Version] /\ store \in [Record -> Version]
  /\ minted \subseteq Member /\ lost \subseteq Record /\ answered \subseteq Flush
  /\ timer \in BOOLEAN /\ up \in BOOLEAN
  /\ dirtyPersist \in Seq(Record) /\ dirtyForget \in Seq(Record)
  /\ flush \in [Flush -> [on : BOOLEAN, persist : Seq(Record), forget : Seq(Record)]]
  /\ wire \in Seq(Op)

\* A flush that runs has one call open at most, and it is on the wire or answered; what is
\* queued has a timer.
Flushes ==
  /\ ~timer => dirtyPersist = <<>> /\ dirtyForget = <<>>
  /\ \A f \in Flush : ~flush[f].on => flush[f].persist = <<>> /\ flush[f].forget = <<>>
  /\ \A f \in answered : flush[f].on
  /\ \A k \in DOMAIN wire :
       /\ flush[wire[k].by].on /\ wire[k].by \notin answered /\ wire[k].sent = up
       /\ \A l \in DOMAIN wire : wire[k].by = wire[l].by => k = l

\* What waits to be forgotten is gone, and an id is never made again.
Removals ==
  /\ live[Root] # Absent
  /\ \A i \in Record : i \in In(dirtyForget) => live[i] = Absent /\ i \in minted
  /\ \A f \in Flush, i \in Record :
       i \in In(flush[f].forget) => live[i] = Absent /\ i \in minted
  /\ \A i \in Member : live[i] # Absent \/ store[i] # Absent => i \in minted
  /\ \A k \in DOMAIN wire : wire[k].val # Absent => wire[k].id \in minted \cup {Root}

\* Versions rise: from the host's record through the calls on the wire to the page's.
Older(a, b) == a # Absent /\ b # Absent => a <= b
Rising ==
  /\ \A i \in Record : Older(store[i], live[i])
  /\ \A k \in DOMAIN wire :
       /\ Older(store[wire[k].id], wire[k].val) /\ Older(wire[k].val, live[wire[k].id])
       /\ \A l \in DOMAIN wire : k < l /\ wire[k].id = wire[l].id => Older(wire[k].val, wire[l].val)

\* Do these lists hold the call that record i needs as it is now?
Listed(persist, forget, i) ==
  IF live[i] = Absent THEN i \in In(forget) ELSE i \in In(persist)
Dirty(i) == Listed(dirtyPersist, dirtyForget, i)
Pends(f, i) == Listed(flush[f].persist, flush[f].forget, i)

\* A call on the wire takes the present record, or what follows it will: a queued change,
\* a later call, or a flush whose own call is not before it.  Were the flush's call before
\* it, a refusal of that call would be forgotten when this one is handled.
Followed(k) ==
  LET i == wire[k].id IN
  \/ wire[k].val = live[i] \/ Dirty(i)
  \/ \E l \in DOMAIN wire : k < l /\ wire[l].id = i /\ wire[l].val = live[i]
  \/ \E f \in Flush : Pends(f, i) /\ \A l \in DOMAIN wire : wire[l].by = f => k < l

\* A record without a call on the wire is the host's, or will be, or is lost.
Kept(i) ==
  \/ i \in lost \/ store[i] = live[i] \/ Dirty(i) \/ \E f \in Flush : Pends(f, i)
  \/ \E k \in DOMAIN wire : wire[k].id = i

Tracked == (\A k \in DOMAIN wire : Followed(k)) /\ \A i \in Record : Kept(i)

\* The inductive invariant of the loader.
LoaderInv == LoaderType /\ Flushes /\ Removals /\ Rising /\ Tracked

\* The lists of ids.
LEMMA InIs ==
  /\ In(<<>>) = {}
  /\ \A S : \A s \in Seq(S) : In(s) \subseteq S
BY DEF In

\* A queue with an id added holds that id too (Set.add of proxy_loader.ts).
LEMMA AddIdIs ==
  ASSUME NEW S, NEW s \in Seq(S), NEW i \in S
  PROVE  AddId(s, i) \in Seq(S) /\ In(AddId(s, i)) = In(s) \cup {i}
<1>1. CASE i \in In(s) BY Zenon, <1>1 DEF AddId
<1>2. CASE i \notin In(s)
  <2>1. /\ AddId(s, i) = Append(s, i) /\ Len(s) \in Nat /\ DOMAIN s = 1..Len(s)
        /\ DOMAIN Append(s, i) = 1..(Len(s) + 1) /\ Append(s, i)[Len(s) + 1] = i
        /\ \A k \in 1..Len(s) : Append(s, i)[k] = s[k]
    BY <1>2 DEF AddId
  <2>2. QED BY <2>1 DEF In
<1>3. QED BY Zenon, <1>1, <1>2

\* A queue with an id dropped holds all the others (Set.delete).
LEMMA DropIdIs ==
  ASSUME NEW S, NEW s \in Seq(S), NEW i \in S
  PROVE  /\ DropId(s, i) \in Seq(S)
         /\ In(DropId(s, i)) \subseteq In(s) /\ In(s) \ {i} \subseteq In(DropId(s, i))
<1>1. CASE i \notin In(s) BY Zenon, <1>1 DEF DropId
<1>2. CASE i \in In(s)
  <2>1. PICK k \in DOMAIN s : /\ s[k] = i
                              /\ DropId(s, i) = SubSeq(s, 1, k - 1) \o SubSeq(s, k + 1, Len(s))
    BY Zenon, <1>2 DEF In, DropId
  <2>2. PICK t : t = DropId(s, i) BY Zenon
  <2>3. /\ Len(s) \in Nat /\ DOMAIN s = 1..Len(s) /\ k \in 1..Len(s)
        /\ t \in Seq(S) /\ Len(t) = Len(s) - 1 /\ DOMAIN t = 1..(Len(s) - 1)
        /\ \A l \in 1..(Len(s) - 1) : t[l] = IF l < k THEN s[l] ELSE s[l + 1]
    <3>0. Len(s) \in Nat /\ DOMAIN s = 1..Len(s) /\ k \in 1..Len(s) OBVIOUS
    <3>1. PICK u : u = SubSeq(s, 1, k - 1) BY Zenon
    <3>2. PICK v : v = SubSeq(s, k + 1, Len(s)) BY Zenon
    <3>3. u \in Seq(S) /\ Len(u) = k - 1 /\ \A l \in 1..(k - 1) : u[l] = s[l] BY <3>0, <3>1
    <3>4. v \in Seq(S) /\ Len(v) = Len(s) - k /\ \A l \in 1..(Len(s) - k) : v[l] = s[k + l]
      BY <3>0, <3>2
    <3>5. t = u \o v BY Zenon, <2>1, <2>2, <3>1, <3>2
    <3>6. t \in Seq(S) /\ Len(t) = Len(s) - 1
      <4>0. u \in Seq(S) /\ v \in Seq(S) BY Zenon, <3>3, <3>4
      <4>1. u \o v \in Seq(S) BY <4>0
      <4>2. Len(u \o v) = Len(u) + Len(v) BY <4>0
      <4>3. QED BY <3>0, <3>3, <3>4, <3>5, <4>1, <4>2
    <3>7. \A l \in 1..(Len(s) - 1) : t[l] = IF l < k THEN u[l] ELSE v[l - (k - 1)]
      BY SMTT(20), <3>0, <3>3, <3>4, <3>5
    <3>8. \A l \in 1..(Len(s) - 1) :
            ~(l < k) => l - (k - 1) \in 1..(Len(s) - k) /\ k + (l - (k - 1)) = l + 1
      BY <3>0
    <3>9. \A l \in 1..(Len(s) - 1) : t[l] = IF l < k THEN s[l] ELSE s[l + 1]
      <4>1. SUFFICES ASSUME NEW l \in 1..(Len(s) - 1) PROVE t[l] = IF l < k THEN s[l] ELSE s[l + 1]
        BY Zenon
      <4>2. CASE l < k BY <3>0, <3>3, <3>7, <4>2
      <4>3. CASE ~(l < k)
        <5>1. t[l] = v[l - (k - 1)] BY Zenon, <3>7, <4>3
        <5>2. v[l - (k - 1)] = s[k + (l - (k - 1))] BY Zenon, <3>4, <3>8, <4>3
        <5>3. QED BY Zenon, <3>8, <4>3, <5>1, <5>2
      <4>4. QED BY Zenon, <4>2, <4>3
    <3>10. DOMAIN t = 1..(Len(s) - 1) BY <3>6
    <3>11. QED BY Zenon, <3>0, <3>6, <3>9, <3>10
  <2>4. \A l \in DOMAIN t : t[l] \in In(s)
    <3>1. \A l \in DOMAIN t : l \in DOMAIN s /\ l + 1 \in DOMAIN s BY <2>3
    <3>2. QED BY Zenon, <2>3, <3>1 DEF In
  <2>5. ASSUME NEW l \in DOMAIN s, s[l] # i PROVE s[l] \in In(t)
    <3>1. CASE l < k BY <2>3, <3>1 DEF In
    <3>2. CASE k < l
      <4>1. l - 1 \in DOMAIN t /\ t[l - 1] = s[l] BY <2>3, <3>2
      <4>2. QED BY Zenon, <4>1 DEF In
    <3>3. QED BY <2>1, <2>3, <2>5, <3>1, <3>2
  <2>6. QED BY <2>2, <2>3, <2>4, <2>5 DEF In
<1>3. QED BY Zenon, <1>1, <1>2

\* The head of a queue and the rest of it hold what the queue holds.
LEMMA TailIn ==
  ASSUME NEW S, NEW s \in Seq(S), s # <<>>
  PROVE  Tail(s) \in Seq(S) /\ Head(s) \in S /\ In(s) = {Head(s)} \cup In(Tail(s))
<1>1. /\ Len(s) \in Nat \ {0} /\ DOMAIN s = 1..Len(s) /\ Head(s) = s[1]
      /\ Tail(s) \in Seq(S) /\ DOMAIN Tail(s) = 1..(Len(s) - 1)
      /\ \A k \in 1..(Len(s) - 1) : Tail(s)[k] = s[k + 1]
  OBVIOUS
<1>2. \A k \in DOMAIN s : k = 1 \/ (k - 1 \in DOMAIN Tail(s) /\ Tail(s)[k - 1] = s[k]) BY <1>1
<1>3. \A k \in DOMAIN Tail(s) : k + 1 \in DOMAIN s BY <1>1
<1>4. 1 \in DOMAIN s BY <1>1
<1>5. In(s) \subseteq {Head(s)} \cup In(Tail(s)) BY <1>1, <1>2 DEF In
<1>6. {Head(s)} \cup In(Tail(s)) \subseteq In(s) BY Zenon, <1>1, <1>3, <1>4 DEF In
<1>7. QED BY <1>1, <1>4, <1>5, <1>6

\* What comes after a place of a queue is in the rest behind that place.
LEMMA RestIn ==
  ASSUME NEW S, NEW s \in Seq(S), NEW k \in DOMAIN s
  PROVE  /\ SubSeq(s, k + 1, Len(s)) \in Seq(S)
         /\ \A l \in DOMAIN s : k < l => s[l] \in In(SubSeq(s, k + 1, Len(s)))
<1>1. PICK t : t = SubSeq(s, k + 1, Len(s)) BY Zenon
<1>2. /\ Len(s) \in Nat /\ DOMAIN s = 1..Len(s) /\ k \in 1..Len(s)
      /\ t \in Seq(S) /\ DOMAIN t = 1..(Len(s) - k)
      /\ \A l \in 1..(Len(s) - k) : t[l] = s[k + l]
  BY <1>1
<1>3. \A l \in DOMAIN s : k < l => l - k \in DOMAIN t /\ t[l - k] = s[l] BY SMTT(20), <1>2
<1>4. QED BY Zenon, <1>1, <1>2, <1>3 DEF In

\* start() queues every agent there is.
LEMMA QueuedIs ==
  ASSUME NEW t \in [Record -> Version], NEW d \in Queued(t)
  PROVE  d \in Seq(Record) /\ \A i \in Record : i = Root \/ t[i] # Absent => i \in In(d)
<1> DEFINE S == {m \in Member : t[m] # Absent}
<1>1. PICK q \in Listings(S) : d = <<Root>> \o q BY Zenon DEF Queued
<1>2. PICK n \in Nat : n = Cardinality(S) BY Zenon, LoaderAssumption
<1>3. q \in [1..n -> S] /\ In(q) = S BY Zenon, <1>1, <1>2 DEF Listings
<1>4. q \in Seq(Record) /\ Len(q) = n /\ DOMAIN q = 1..n BY <1>3 DEF Record
<1>5. <<Root>> \in Seq(Record) /\ Len(<<Root>>) = 1 BY DEF Record
<1>6. d \in Seq(Record) BY <1>1, <1>4, <1>5
<1>7. Len(d) = n + 1 BY <1>1, <1>4, <1>5
<1>8. d[1] = Root /\ \A k \in 1..n : d[k + 1] = q[k] BY <1>1, <1>4, <1>5
<1>9. 1 \in DOMAIN d /\ \A k \in 1..n : k + 1 \in DOMAIN d BY <1>6, <1>7
<1>10. Root \in In(d) BY Zenon, <1>8, <1>9 DEF In
<1>11. ASSUME NEW i \in Record, i # Root, t[i] # Absent PROVE i \in In(d)
  <2>1. i \in In(q) BY Zenon, <1>3, <1>11 DEF Record
  <2>2. PICK k \in 1..n : q[k] = i BY Zenon, <1>4, <2>1 DEF In
  <2>3. d[k + 1] = i /\ k + 1 \in DOMAIN d BY Zenon, <1>8, <1>9, <2>2
  <2>4. QED BY Zenon, <2>3 DEF In
<1>12. QED BY Zenon, <1>6, <1>10, <1>11

\* A host without records.
LEMMA NothingIs == Nothing \in [Record -> Version] /\ \A i \in Record : Nothing[i] = Absent
BY Zenon DEF Nothing, Version

\* A page opens with the host's tree, or with a root of its own.
LEMMA OpenedIs ==
  ASSUME NEW s \in [Record -> Version]
  PROVE  /\ Opened(s) \in [Record -> Version] /\ Opened(s)[Root] # Absent
         /\ \A i \in Record : Opened(s)[i] # Absent => Opened(s)[i] = s[i] \/ (i = Root /\ s[i] = Absent)
<1>1. Root \in Record /\ 1 \in Version /\ 1 # Absent BY LoaderAssumption DEF Record, Version
<1>2. CASE s[Root] = Absent
  <2>1. Opened(s) = [Nothing EXCEPT ![Root] = 1] BY Zenon, <1>1, <1>2, NothingIs DEF Opened, Readable
  <2>2. QED BY Zenon, <1>1, <1>2, <2>1, NothingIs
<1>3. CASE s[Root] # Absent
  <2>1. Opened(s) = s BY Zenon, <1>3 DEF Opened, Readable
  <2>2. QED BY Zenon, <1>3, <2>1
<1>4. QED BY Zenon, <1>2, <1>3

\* What a page that opens starts with.
Fresh ==
  /\ LoaderType
  /\ timer = TRUE /\ dirtyForget = <<>> /\ wire = <<>> /\ answered = {}
  /\ flush = [f \in Flush |-> Idle]
  /\ live[Root] # Absent
  /\ \A i \in Record : live[i] # Absent =>
       i \in In(dirtyPersist) /\ (live[i] = store[i] \/ (i = Root /\ store[i] = Absent))
  /\ \A i \in Member : store[i] # Absent => i \in minted
  /\ \A i \in Record : live[i] = Absent /\ store[i] # Absent => i \in lost

\* A page that has just loaded its tree is in order.
LEMMA FreshInv == Fresh => LoaderInv
<1> SUFFICES ASSUME Fresh PROVE LoaderInv BY Zenon
<1> USE DEF Fresh
<1>1. Flushes BY DEF Flushes, Idle
<1>2. In(<<>>) = {} /\ \A f \in Flush : flush[f].forget = <<>> BY Zenon, InIs DEF Idle
<1>3. Member \subseteq Record /\ Root \notin Member BY Zenon, LoaderAssumption DEF Record
<1>4. Removals BY <1>2, <1>3 DEF Removals
<1>5. Rising
  <2>1. \A i \in Record : store[i] \in Version BY Zenon DEF LoaderType
  <2>2. QED BY <2>1 DEF Rising, Older, Version
<1>6. \A i \in Record : Kept(i) BY Zenon DEF Kept, Dirty, Listed
<1>7. Tracked BY <1>6 DEF Tracked
<1>8. QED BY Zenon, <1>1, <1>4, <1>5, <1>7 DEF LoaderInv

\* The first page is fresh.
LEMMA LoaderStarts == LoaderInit => LoaderInv
<1> SUFFICES ASSUME LoaderInit PROVE Fresh BY Zenon, FreshInv
<1>1. store \in [Record -> Version] /\ \A i \in Record : store[i] = Absent BY Zenon, NothingIs DEF LoaderInit
<1>2. live \in [Record -> Version] /\ live[Root] # Absent
  BY Zenon, <1>1, OpenedIs DEF LoaderInit
<1>3. \A i \in Record : live[i] # Absent => live[i] = store[i] \/ (i = Root /\ store[i] = Absent)
  BY Zenon, <1>1, OpenedIs DEF LoaderInit
<1>4. dirtyPersist \in Seq(Record) /\ \A i \in Record : live[i] # Absent => i \in In(dirtyPersist)
  BY Zenon, <1>2, QueuedIs DEF LoaderInit
<1>5. flush \in [Flush -> [on : BOOLEAN, persist : Seq(Record), forget : Seq(Record)]]
  BY DEF LoaderInit, Idle
<1>6. LoaderType BY <1>1, <1>2, <1>4, <1>5 DEF LoaderInit, LoaderType
<1>7. QED BY Zenon, <1>1, <1>2, <1>3, <1>4, <1>6, LoaderAssumption DEF LoaderInit, Fresh, Record

\* The page is closed and opened again.
LEMMA ReloadStep == LoaderInv /\ Reload => LoaderInv'
<1> SUFFICES ASSUME LoaderInv, Reload PROVE Fresh' BY FreshInv, PTL
<1>1. store' = store /\ store \in [Record -> Version] BY Zenon DEF LoaderInv, LoaderType, Reload
<1>2. live' \in [Record -> Version] /\ live'[Root] # Absent
  BY Zenon, <1>1, OpenedIs DEF Reload
<1>3. \A i \in Record : live'[i] # Absent => live'[i] = store[i] \/ (i = Root /\ store[i] = Absent)
  BY Zenon, <1>1, OpenedIs DEF Reload
<1>4. dirtyPersist' \in Seq(Record) /\ \A i \in Record : live'[i] # Absent => i \in In(dirtyPersist')
  BY Zenon, <1>2, QueuedIs DEF Reload
<1>5. flush' \in [Flush -> [on : BOOLEAN, persist : Seq(Record), forget : Seq(Record)]]
  BY DEF Reload, Idle
<1>6. LoaderType' BY <1>1, <1>2, <1>4, <1>5 DEF LoaderInv, Reload, LoaderType, Record
<1>7. \A i \in Member : store[i] # Absent => i \in minted BY Zenon DEF LoaderInv, Removals
<1>8. \A i \in Record : live'[i] = Absent /\ store[i] # Absent => i \in lost'
  BY Zenon, <1>2, LoaderAssumption DEF Reload, Record
<1>9. QED BY Zenon, <1>1, <1>2, <1>3, <1>4, <1>6, <1>7, <1>8 DEF Reload, Fresh

\* The calls on the wire have their type.
LEMMA WireIs ==
  ASSUME LoaderType, NEW k \in DOMAIN wire
  PROVE  /\ wire[k] \in Op /\ wire[k].id \in Record /\ wire[k].by \in Flush
         /\ wire[k].val \in Version /\ live[wire[k].id] \in Version /\ store[wire[k].id] \in Version
<1>1. wire \in Seq(Op) BY Zenon DEF LoaderType
<1>2. wire[k] \in Op BY <1>1
<1>3. wire[k].id \in Record /\ wire[k].by \in Flush /\ wire[k].val \in Version BY Zenon, <1>2 DEF Op
<1>4. QED BY Zenon, <1>2, <1>3 DEF LoaderType

\* A change of the tree, of record r: it is queued as it is now, and what else was queued
\* stays queued.
LEMMA ChangeTracks ==
  ASSUME LoaderInv, NEW r \in Record, UNCHANGED <<flush, wire, store, lost>>,
         \A i \in Record : i # r => live'[i] = live[i],
         Dirty(r)', \A i \in Record : i # r /\ Dirty(i) => Dirty(i)'
  PROVE  Tracked'
<1>1. Tracked /\ LoaderType BY Zenon DEF LoaderInv
<1>2. \A k \in DOMAIN wire : wire[k].id \in Record BY Zenon, <1>1, WireIs
<1>3. \A i \in Record, f \in Flush : i # r => (Pends(f, i)' <=> Pends(f, i)) BY Zenon DEF Pends, Listed
<1>4. ASSUME NEW k \in DOMAIN wire PROVE Followed(k)'
  <2>1. Followed(k) BY Zenon, <1>1 DEF Tracked
  <2>2. CASE wire[k].id = r BY Zenon, <2>2 DEF Followed
  <2>3. CASE wire[k].id # r BY <1>2, <1>3, <2>1, <2>3 DEF Followed
  <2>4. QED BY Zenon, <2>2, <2>3
<1>5. ASSUME NEW i \in Record PROVE Kept(i)'
  <2>1. Kept(i) BY Zenon, <1>1 DEF Tracked
  <2>2. CASE i = r BY Zenon, <2>2 DEF Kept
  <2>3. CASE i # r BY Zenon, <1>3, <2>1, <2>3 DEF Kept
  <2>4. QED BY Zenon, <2>2, <2>3
<1>6. QED BY Zenon, <1>4, <1>5 DEF Tracked

\* onState of a new or changed agent: the change is queued and the timer runs.
LEMMA PersistStep ==
  ASSUME LoaderInv, NEW r \in Record, RegisterMember(r) \/ UpdateMeta(r)
  PROVE  LoaderInv'
<1> USE DEF Changes
<1>0. /\ LoaderType /\ Flushes /\ Removals /\ Rising
      /\ r \in Member /\ UNCHANGED <<flush, wire, answered, up, store, faults, lost>>
  BY Zenon DEF LoaderInv, RegisterMember, UpdateMeta
<1>1. PICK v \in Nat : /\ live' = [live EXCEPT ![r] = v] /\ Older(live[r], v)
                       /\ RegisterMember(r) => live[r] = Absent /\ store[r] = Absent
  <2>1. CASE RegisterMember(r)
    <3>1. live[r] = Absent /\ store[r] = Absent BY Zenon, <1>0, <2>1 DEF RegisterMember, Removals
    <3>2. QED BY Zenon, <2>1, <3>1 DEF RegisterMember, Older
  <2>2. CASE UpdateMeta(r) /\ ~RegisterMember(r)
    <3>1. live[r] \in Nat BY Zenon, <1>0, <2>2 DEF UpdateMeta, LoaderType, Version
    <3>2. live[r] + 1 \in Nat /\ live' = [live EXCEPT ![r] = live[r] + 1] BY <2>2, <3>1 DEF UpdateMeta
    <3>3. Older(live[r], live[r] + 1) BY <3>1 DEF Older
    <3>4. QED BY Zenon, <2>2, <3>2, <3>3
  <2>3. QED BY Zenon, <2>1, <2>2
<1>2. /\ minted' \subseteq Member /\ minted \subseteq minted' /\ r \in minted'
      /\ RegisterMember(r) => r \notin minted
  <2>1. CASE RegisterMember(r) BY Zenon, <1>0, <2>1 DEF RegisterMember, LoaderType
  <2>2. CASE UpdateMeta(r)
    <3>1. r \in minted BY Zenon, <1>0, <2>2 DEF UpdateMeta, Removals
    <3>2. QED BY Zenon, <1>0, <2>2, <3>1 DEF UpdateMeta, LoaderType, RegisterMember
  <2>3. QED BY Zenon, <2>1, <2>2
<1>3. OnChanged(r) BY Zenon DEF RegisterMember, UpdateMeta
<1>4. /\ dirtyPersist' \in Seq(Record) /\ In(dirtyPersist') = In(dirtyPersist) \cup {r}
      /\ dirtyForget' \in Seq(Record) /\ In(dirtyForget') \subseteq In(dirtyForget)
      /\ In(dirtyForget) \ {r} \subseteq In(dirtyForget')
      /\ timer' = TRUE
  <2>1. dirtyPersist \in Seq(Record) /\ dirtyForget \in Seq(Record) BY Zenon, <1>0 DEF LoaderType
  <2>2. dirtyPersist' \in Seq(Record) /\ In(dirtyPersist') = In(dirtyPersist) \cup {r}
    BY <1>3, <2>1, AddIdIs DEF OnChanged
  <2>3. /\ dirtyForget' \in Seq(Record) /\ In(dirtyForget') \subseteq In(dirtyForget)
        /\ In(dirtyForget) \ {r} \subseteq In(dirtyForget')
    BY Zenon, <1>3, <2>1, DropIdIs DEF OnChanged
  <2>4. QED BY Zenon, <1>3, <2>2, <2>3 DEF OnChanged
<1>5. /\ live' \in [Record -> Version] /\ live'[r] = v /\ v # Absent
      /\ \A i \in Record : i # r => live'[i] = live[i]
  BY Zenon, <1>0, <1>1, LoaderAssumption DEF LoaderType, Version
<1>6. LoaderType' BY Zenon, <1>0, <1>2, <1>4, <1>5 DEF LoaderType
<1>7. Flushes' BY Zenon, <1>0, <1>4 DEF Flushes
<1>8. Removals'
  <2>1. live'[Root] # Absent BY Zenon, <1>0, <1>5, LoaderAssumption DEF Removals, Record
  <2>2. \A i \in Record : i \in In(dirtyForget) \/ (\E f \in Flush : i \in In(flush[f].forget)) => i # r
    <3>1. ~(r \in In(dirtyForget) \/ \E f \in Flush : r \in In(flush[f].forget))
      BY Zenon, <1>0, <1>2 DEF Removals, UpdateMeta
    <3>2. QED BY Zenon, <3>1
  <2>3. \A i \in Record : i \in In(dirtyForget') => live'[i] = Absent /\ i \in minted'
    BY Zenon, <1>0, <1>2, <1>4, <1>5, <2>2 DEF Removals
  <2>4. \A f \in Flush, i \in Record : i \in In(flush[f].forget) => live'[i] = Absent /\ i \in minted'
    BY Zenon, <1>0, <1>2, <1>5, <2>2 DEF Removals
  <2>5. \A i \in Member : live'[i] # Absent \/ store[i] # Absent => i \in minted'
    BY Zenon, <1>0, <1>2, <1>5 DEF Removals, Record
  <2>6. QED BY Zenon, <1>0, <1>2, <2>1, <2>3, <2>4, <2>5 DEF Removals
<1>9. Rising'
  <2>1. ASSUME NEW i \in Record PROVE Older(store[i], live'[i])
    <3>1. Older(store[i], live[i]) /\ store[i] \in Version /\ live[i] \in Version
      BY Zenon, <1>0 DEF Rising, LoaderType
    <3>2. CASE i = r BY <1>0, <1>1, <1>5, <3>1, <3>2 DEF Older, Version, UpdateMeta
    <3>3. CASE i # r BY Zenon, <1>5, <3>1, <3>3
    <3>4. QED BY Zenon, <3>2, <3>3
  <2>2. ASSUME NEW k \in DOMAIN wire PROVE Older(wire[k].val, live'[wire[k].id])
    <3>1. /\ Older(wire[k].val, live[wire[k].id]) /\ wire[k].val \in Version
          /\ wire[k].id \in Record /\ live[wire[k].id] \in Version
      BY Zenon, <1>0, WireIs DEF Rising
    <3>2. CASE wire[k].id = r
      <4>1. RegisterMember(r) => wire[k].val = Absent
        BY Zenon, <1>0, <1>2, <3>2, LoaderAssumption DEF Removals
      <4>2. QED BY <1>0, <1>1, <1>5, <3>1, <3>2, <4>1 DEF Older, Version, UpdateMeta
    <3>3. CASE wire[k].id # r BY Zenon, <1>5, <3>1, <3>3
    <3>4. QED BY Zenon, <3>2, <3>3
  <2>3. QED BY Zenon, <1>0, <2>1, <2>2 DEF Rising
<1>10. Tracked'
  <2>1. Dirty(r)' BY Zenon, <1>4, <1>5 DEF Dirty, Listed
  <2>2. \A i \in Record : i # r /\ Dirty(i) => Dirty(i)' BY Zenon, <1>4, <1>5 DEF Dirty, Listed
  <2>3. QED BY Zenon, <1>0, <1>5, <2>1, <2>2, ChangeTracks
<1>11. QED BY Zenon, <1>6, <1>7, <1>8, <1>9, <1>10 DEF LoaderInv

\* onState of a removed agent: it leaves the one queue for the other.
LEMMA ForgetStep ==
  ASSUME LoaderInv, NEW r \in Record, DropMember(r)
  PROVE  LoaderInv'
<1> USE DEF Changes
<1>0. /\ LoaderType /\ Flushes /\ Removals /\ Rising
      /\ r \in Member /\ live[r] # Absent /\ live' = [live EXCEPT ![r] = Absent]
      /\ UNCHANGED <<minted, flush, wire, answered, up, store, faults, lost>>
  BY Zenon DEF LoaderInv, DropMember
<1>1. r \in minted BY Zenon, <1>0 DEF Removals
<1>2. OnRemoved(r) BY Zenon DEF DropMember
<1>3. /\ dirtyForget' \in Seq(Record) /\ In(dirtyForget') = In(dirtyForget) \cup {r}
      /\ dirtyPersist' \in Seq(Record) /\ In(dirtyPersist) \ {r} \subseteq In(dirtyPersist')
      /\ timer' = TRUE
  <2>1. dirtyPersist \in Seq(Record) /\ dirtyForget \in Seq(Record) BY Zenon, <1>0 DEF LoaderType
  <2>2. dirtyForget' \in Seq(Record) /\ In(dirtyForget') = In(dirtyForget) \cup {r}
    BY <1>2, <2>1, AddIdIs DEF OnRemoved
  <2>3. dirtyPersist' \in Seq(Record) /\ In(dirtyPersist) \ {r} \subseteq In(dirtyPersist')
    BY Zenon, <1>2, <2>1, DropIdIs DEF OnRemoved
  <2>4. QED BY Zenon, <1>2, <2>2, <2>3 DEF OnRemoved
<1>4. /\ live' \in [Record -> Version] /\ live'[r] = Absent
      /\ \A i \in Record : i # r => live'[i] = live[i]
  BY Zenon, <1>0 DEF LoaderType, Version
<1>5. LoaderType' BY Zenon, <1>0, <1>3, <1>4 DEF LoaderType
<1>6. Flushes' BY Zenon, <1>0, <1>3 DEF Flushes
<1>7. Removals'
  <2>1. live'[Root] # Absent BY Zenon, <1>0, <1>4, LoaderAssumption DEF Removals, Record
  <2>2. \A i \in Record : i \in In(dirtyForget') => live'[i] = Absent /\ i \in minted
    BY Zenon, <1>0, <1>1, <1>3, <1>4 DEF Removals
  <2>3. \A f \in Flush, i \in Record : i \in In(flush[f].forget) => live'[i] = Absent /\ i \in minted
    BY Zenon, <1>0, <1>4 DEF Removals
  <2>4. \A i \in Member : live'[i] # Absent \/ store[i] # Absent => i \in minted
    BY Zenon, <1>0, <1>4 DEF Removals, Record
  <2>5. QED BY Zenon, <1>0, <2>1, <2>2, <2>3, <2>4 DEF Removals
<1>8. Rising'
  <2>1. \A k \in DOMAIN wire : wire[k].id \in Record BY Zenon, <1>0, WireIs
  <2>2. QED BY <1>0, <1>4, <2>1 DEF Rising, Older
<1>9. Tracked'
  <2>1. Dirty(r)' BY Zenon, <1>3, <1>4 DEF Dirty, Listed
  <2>2. \A i \in Record : i # r /\ Dirty(i) => Dirty(i)' BY Zenon, <1>3, <1>4 DEF Dirty, Listed
  <2>3. QED BY Zenon, <1>0, <1>4, <2>1, <2>2, ChangeTracks
<1>10. QED BY Zenon, <1>5, <1>6, <1>7, <1>8, <1>9 DEF LoaderInv

\* A flush goes on: it makes a call with the present record and keeps what is left, or it
\* ends with nothing left that a record needs.
FlushCalls(f, p, q) ==
  \E op \in Op, p2 \in Seq(Record), q2 \in Seq(Record) :
    /\ op.by = f /\ op.val = live[op.id] /\ op.sent = up /\ wire' = Append(wire, op)
    /\ flush' = [flush EXCEPT ![f] = [on |-> TRUE, persist |-> p2, forget |-> q2]]
    /\ In(q2) \subseteq In(q)
    /\ \A i \in Record : Listed(p, q, i) => i = op.id \/ Listed(p2, q2, i)

FlushEnds(f, p, q) ==
  wire' = wire /\ flush' = [flush EXCEPT ![f] = Idle] /\ \A i \in Record : ~Listed(p, q, i)

\* How far a flush runs: to its next call, or to its end when nothing is left.
LEMMA GoesIs ==
  ASSUME LoaderType, NEW f \in Flush, NEW p \in Seq(Record), NEW q \in Seq(Record), Goes(f, p, q),
         \A i \in In(q) : live[i] = Absent
  PROVE  FlushCalls(f, p, q) \/ FlushEnds(f, p, q)
<1> DEFINE here == {k \in DOMAIN p : live[p[k]] # Absent}
           O(i, v) == [by |-> f, id |-> i, val |-> v, sent |-> up]
<1>0. \A i \in Record, v \in Version : O(i, v) \in Op BY Zenon DEF LoaderType, Op
<1>1. ASSUME NEW k \in here, \A l \in here : k <= l,
             Calls(f, p[k], live[p[k]]), Stays(f, SubSeq(p, k + 1, Len(p)), q)
      PROVE  FlushCalls(f, p, q)
  <2>1. p[k] \in Record /\ live[p[k]] \in Version BY DEF LoaderType
  <2>2. PICK op \in Op : op = O(p[k], live[p[k]]) BY Zenon, <1>0, <2>1
  <2>3. op.by = f /\ op.id = p[k] /\ op.val = live[op.id] /\ op.sent = up /\ wire' = Append(wire, op)
    BY Zenon, <1>1, <2>2 DEF Calls
  <2>4. PICK p2 \in Seq(Record) : p2 = SubSeq(p, k + 1, Len(p)) BY Zenon, RestIn
  <2>5. \A l \in DOMAIN p : k < l => p[l] \in In(p2) BY Zenon, <2>4, RestIn
  <2>6. ASSUME NEW i \in Record, Listed(p, q, i), i # op.id PROVE Listed(p2, q, i)
    <3>1. CASE live[i] = Absent BY Zenon, <2>6, <3>1 DEF Listed
    <3>2. CASE live[i] # Absent
      <4>1. PICK l \in DOMAIN p : p[l] = i BY Zenon, <2>6, <3>2 DEF Listed, In
      <4>2. l \in here /\ l # k BY Zenon, <2>3, <2>6, <3>2, <4>1
      <4>3. k <= l /\ k \in Int /\ l \in Int BY <1>1, <4>2
      <4>4. k < l BY <4>2, <4>3
      <4>5. QED BY Zenon, <2>5, <3>2, <4>1, <4>4 DEF Listed
    <3>3. QED BY Zenon, <3>1, <3>2
  <2>7. flush' = [flush EXCEPT ![f] = [on |-> TRUE, persist |-> p2, forget |-> q]]
    BY Zenon, <1>1, <2>4 DEF Stays
  <2>8. QED BY Zenon, <2>3, <2>6, <2>7 DEF FlushCalls
<1>2. ASSUME here = {} PROVE \A i \in Record : Listed(p, q, i) => i \in In(q)
  BY Zenon, <1>2 DEF Listed, In
<1>3. ASSUME here = {}, q # <<>>, Calls(f, Head(q), Absent), Stays(f, <<>>, Tail(q))
      PROVE  FlushCalls(f, p, q)
  <2>1. Tail(q) \in Seq(Record) /\ Head(q) \in Record /\ In(q) = {Head(q)} \cup In(Tail(q))
    BY Zenon, <1>3, TailIn
  <2>2. live[Head(q)] = Absent BY Zenon, <2>1
  <2>3. PICK op \in Op : op = O(Head(q), Absent) BY Zenon, <1>0, <2>1 DEF Version
  <2>4. /\ op.by = f /\ op.id = Head(q) /\ op.val = live[op.id] /\ op.sent = up
        /\ wire' = Append(wire, op)
    BY Zenon, <1>3, <2>2, <2>3 DEF Calls
  <2>5. \A i \in Record : Listed(p, q, i) => i = op.id \/ Listed(<<>>, Tail(q), i)
    BY Zenon, <1>2, <1>3, <2>1, <2>4 DEF Listed
  <2>6. flush' = [flush EXCEPT ![f] = [on |-> TRUE, persist |-> <<>>, forget |-> Tail(q)]]
    BY Zenon, <1>3 DEF Stays
  <2>7. <<>> \in Seq(Record) OBVIOUS
  <2>8. QED BY Zenon, <2>1, <2>4, <2>5, <2>6, <2>7 DEF FlushCalls
<1>4. ASSUME here = {}, q = <<>>, Ends(f)
      PROVE  FlushEnds(f, p, q)
  BY Zenon, <1>2, <1>4, InIs DEF Ends, FlushEnds
<1>5. QED BY <1>1, <1>3, <1>4, Zenon DEF Goes

\* What a flush does to the queues and the wire keeps the invariant, if its lists hold what
\* the queues or the flush lose.
LEMMA GoesStep ==
  ASSUME LoaderInv, NEW f \in Flush, NEW p \in Seq(Record), NEW q \in Seq(Record), Goes(f, p, q),
         UNCHANGED <<live, minted, up, store, lost>>,
         answered' = answered \ {f}, timer' \in BOOLEAN,
         dirtyPersist' \in Seq(Record), dirtyForget' \in Seq(Record),
         ~timer' => dirtyPersist' = <<>> /\ dirtyForget' = <<>>,
         In(dirtyForget') \subseteq In(dirtyForget),
         \A i \in In(q) : i \in Record /\ live[i] = Absent /\ i \in minted,
         \A k \in DOMAIN wire : wire[k].by # f,
         \A i \in Record : Dirty(i) \/ Pends(f, i) => Dirty(i)' \/ Listed(p, q, i)
  PROVE  LoaderInv'
<1>0. LoaderType /\ Flushes /\ Removals /\ Rising /\ Tracked BY Zenon DEF LoaderInv
<1>1. \A i \in Record : Listed(p, q, i)' <=> Listed(p, q, i) BY Zenon DEF Listed
<1>2. \A g \in Flush, i \in Record : g # f => (Pends(g, i)' <=> Pends(g, i))
  <2>1. \A g \in Flush : g # f => flush'[g] = flush[g] BY Zenon, <1>0 DEF Goes, Stays, Ends, LoaderType
  <2>2. QED BY Zenon, <2>1 DEF Pends, Listed
<1>3. CASE FlushCalls(f, p, q)
  <2>1. PICK op \in Op, p2 \in Seq(Record), q2 \in Seq(Record) :
             /\ op.by = f /\ op.val = live[op.id] /\ op.sent = up /\ wire' = Append(wire, op)
             /\ flush' = [flush EXCEPT ![f] = [on |-> TRUE, persist |-> p2, forget |-> q2]]
             /\ In(q2) \subseteq In(q)
             /\ \A i \in Record : Listed(p, q, i) => i = op.id \/ Listed(p2, q2, i)
    BY Zenon, <1>3 DEF FlushCalls
  <2>2. op.id \in Record /\ op.val \in Version BY Zenon DEF Op
  <2>n. PICK n : n = Len(wire) + 1 BY Zenon
  <2>3. /\ wire \in Seq(Op) /\ Len(wire) \in Nat /\ DOMAIN wire = 1..Len(wire)
        /\ wire' \in Seq(Op) /\ DOMAIN wire' = 1..n /\ wire'[n] = op
        /\ \A k \in DOMAIN wire : wire'[k] = wire[k]
    BY <1>0, <2>1, <2>n DEF LoaderType
  <2>4. \A k \in DOMAIN wire' : k \in DOMAIN wire \/ k = n BY <2>3, <2>n
  <2>5. \A k \in DOMAIN wire : k < n /\ k \in DOMAIN wire' BY <2>3, <2>n
  <2>6. n \in DOMAIN wire' BY <2>3, <2>n
  <2>7. /\ flush' \in [Flush -> [on : BOOLEAN, persist : Seq(Record), forget : Seq(Record)]]
        /\ flush'[f].on /\ flush'[f].persist = p2 /\ flush'[f].forget = q2
        /\ \A g \in Flush : g # f => flush'[g] = flush[g]
    BY Zenon, <1>0, <2>1 DEF LoaderType
  <2>8. LoaderType' BY Zenon, <1>0, <2>3, <2>7 DEF LoaderType
  <2>9. Flushes'
    <3>1. \A g \in Flush : ~flush'[g].on => flush'[g].persist = <<>> /\ flush'[g].forget = <<>>
      BY Zenon, <1>0, <2>7 DEF Flushes
    <3>2. \A g \in answered' : flush'[g].on BY Zenon, <1>0, <2>7 DEF Flushes, LoaderType
    <3>3. ASSUME NEW k \in DOMAIN wire'
          PROVE  /\ flush'[wire'[k].by].on /\ wire'[k].by \notin answered'
                 /\ \A l \in DOMAIN wire' : wire'[k].by = wire'[l].by => k = l
      <4>1. CASE k = n BY <2>1, <2>3, <2>4, <2>7, <4>1
      <4>2. CASE k \in DOMAIN wire
        <5>1. wire[k].by \in Flush /\ wire[k].by # f BY Zenon, <1>0, <4>2, WireIs
        <5>2. QED BY <1>0, <2>1, <2>3, <2>4, <2>7, <4>2, <5>1 DEF Flushes
      <4>3. QED BY Zenon, <2>4, <4>1, <4>2
    <3>4. \A k \in DOMAIN wire' : wire'[k].sent = up
      BY <1>0, <2>1, <2>3, <2>4 DEF Flushes
    <3>5. QED BY Zenon, <3>1, <3>2, <3>3, <3>4 DEF Flushes
  <2>10. Removals'
    <3>1. \A g \in Flush, i \in Record :
            i \in In(flush'[g].forget) => live[i] = Absent /\ i \in minted
      BY <1>0, <2>1, <2>7 DEF Removals
    <3>2. \A k \in DOMAIN wire' : wire'[k].val # Absent => wire'[k].id \in minted \cup {Root}
      <4>1. op.val # Absent => op.id \in minted \cup {Root}
        BY Zenon, <1>0, <2>1, <2>2 DEF Removals, Record
      <4>2. QED BY Zenon, <1>0, <2>3, <2>4, <4>1 DEF Removals
    <3>3. QED BY Zenon, <1>0, <3>1, <3>2 DEF Removals
  <2>11. Rising'
    <3>1. Older(op.val, op.val) BY <2>2 DEF Older, Version
    <3>2. \A k \in DOMAIN wire' : /\ Older(store[wire'[k].id], wire'[k].val)
                                  /\ Older(wire'[k].val, live[wire'[k].id])
      BY <1>0, <2>1, <2>2, <2>3, <2>4, <3>1 DEF Rising
    <3>3. ASSUME NEW k \in DOMAIN wire', NEW l \in DOMAIN wire', k < l, wire'[k].id = wire'[l].id
          PROVE  Older(wire'[k].val, wire'[l].val)
      <4>1. k \in DOMAIN wire BY <2>3, <2>n, <3>3
      <4>2. CASE l = n BY <1>0, <2>1, <2>3, <3>3, <4>1, <4>2 DEF Rising
      <4>3. CASE l \in DOMAIN wire BY Zenon, <1>0, <2>3, <3>3, <4>1, <4>3 DEF Rising
      <4>4. QED BY Zenon, <2>4, <4>2, <4>3
    <3>4. QED BY Zenon, <1>0, <3>2, <3>3 DEF Rising
  <2>12. Tracked'
    <3>1. \A i \in Record : Listed(p, q, i) => i = op.id \/ Pends(f, i)'
      BY Zenon, <2>1, <2>7 DEF Pends, Listed
    <3>2. \A k \in DOMAIN wire : \A l \in DOMAIN wire' : wire'[l].by = f => k < l
      BY Zenon, <2>3, <2>4, <2>5
    <3>3. ASSUME NEW k \in DOMAIN wire PROVE Followed(k)'
      <4>0. PICK i : i = wire[k].id BY Zenon
      <4>1. i \in Record /\ Followed(k) /\ wire'[k] = wire[k] BY Zenon, <1>0, <2>3, <4>0, WireIs DEF Tracked
      <4>2. CASE wire[k].val = live[i] BY Zenon, <4>0, <4>1, <4>2 DEF Followed
      <4>3. CASE \E l \in DOMAIN wire : k < l /\ wire[l].id = i /\ wire[l].val = live[i]
        <5>1. PICK l \in DOMAIN wire : k < l /\ wire[l].id = i /\ wire[l].val = live[i] BY Zenon, <4>3
        <5>2. l \in DOMAIN wire' /\ wire'[l] = wire[l] /\ live' = live BY Zenon, <2>3, <2>5
        <5>3. QED BY <4>0, <4>1, <5>1, <5>2 DEF Followed
      <4>4. ASSUME Dirty(i) \/ Pends(f, i) PROVE Followed(k)'
        <5>1. Dirty(i)' \/ i = op.id \/ Pends(f, i)' BY Zenon, <3>1, <4>1, <4>4
        <5>2. CASE i = op.id
          <6>1. k < n /\ n \in DOMAIN wire' /\ wire'[n].id = i /\ wire'[n].val = live'[i]
            BY Zenon, <2>1, <2>3, <2>5, <2>6, <5>2
          <6>2. QED BY Zenon, <4>0, <4>1, <6>1 DEF Followed
        <5>3. CASE Pends(f, i)' BY Zenon, <3>2, <4>0, <4>1, <5>3 DEF Followed
        <5>4. CASE Dirty(i)' BY Zenon, <4>0, <4>1, <5>4 DEF Followed
        <5>5. QED BY Zenon, <5>1, <5>2, <5>3, <5>4
      <4>5. ASSUME NEW g \in Flush, g # f, Pends(g, i), \A l \in DOMAIN wire : wire[l].by = g => k < l
            PROVE  Followed(k)'
        <5>1. \A l \in DOMAIN wire' : wire'[l].by = g => k < l BY Zenon, <2>1, <2>3, <2>4, <4>5
        <5>2. Pends(g, i)' BY Zenon, <1>2, <4>1, <4>5
        <5>3. QED BY Zenon, <4>0, <4>1, <5>1, <5>2 DEF Followed
      <4>6. QED BY Zenon, <4>0, <4>1, <4>2, <4>3, <4>4, <4>5 DEF Followed
    <3>4. Followed(n)' BY Zenon, <2>1, <2>3 DEF Followed
    <3>5. ASSUME NEW i \in Record PROVE Kept(i)'
      <4>1. Kept(i) BY Zenon, <1>0 DEF Tracked
      <4>2. CASE i \in lost \/ store[i] = live[i] BY Zenon, <4>2 DEF Kept
      <4>3. CASE \E k \in DOMAIN wire : wire[k].id = i BY Zenon, <2>3, <2>5, <4>3 DEF Kept
      <4>4. ASSUME Dirty(i) \/ Pends(f, i) PROVE Kept(i)'
        BY Zenon, <2>3, <2>6, <3>1, <4>4 DEF Kept
      <4>5. ASSUME NEW g \in Flush, g # f, Pends(g, i) PROVE Kept(i)' BY Zenon, <1>2, <4>5 DEF Kept
      <4>6. QED BY Zenon, <4>1, <4>2, <4>3, <4>4, <4>5 DEF Kept
    <3>6. QED BY Zenon, <2>4, <3>3, <3>4, <3>5 DEF Tracked
  <2>13. QED BY Zenon, <2>8, <2>9, <2>10, <2>11, <2>12 DEF LoaderInv
<1>4. CASE FlushEnds(f, p, q)
  <2> USE <1>4 DEF FlushEnds
  <2>1. /\ flush' \in [Flush -> [on : BOOLEAN, persist : Seq(Record), forget : Seq(Record)]]
        /\ flush'[f] = Idle /\ \A g \in Flush : g # f => flush'[g] = flush[g]
    BY <1>0, <1>4 DEF LoaderType, Idle
  <2>2. LoaderType' BY Zenon, <1>0, <1>4, <2>1 DEF LoaderType
  <2>3. Flushes'
    <3>1. \A k \in DOMAIN wire : wire[k].by \in Flush BY Zenon, <1>0, WireIs
    <3>2. QED BY <1>0, <1>4, <2>1, <3>1 DEF Flushes, Idle, LoaderType
  <2>4. Removals' BY <1>0, <1>4, <2>1, InIs DEF Removals, Idle
  <2>5. Rising' BY Zenon, <1>0, <1>4 DEF Rising
  <2>6. Tracked'
    <3>1. \A i \in Record : Dirty(i) \/ Pends(f, i) => Dirty(i)' BY Zenon, <1>4
    <3>2. ASSUME NEW k \in DOMAIN wire PROVE Followed(k)'
      <4>1. wire[k].id \in Record /\ Followed(k) BY Zenon, <1>0, WireIs DEF Tracked
      <4>2. QED BY <1>2, <1>4, <3>1, <4>1 DEF Followed
    <3>3. ASSUME NEW i \in Record PROVE Kept(i)'
      <4>1. Kept(i) BY Zenon, <1>0 DEF Tracked
      <4>2. QED BY Zenon, <1>2, <1>4, <3>1, <4>1 DEF Kept
    <3>4. QED BY Zenon, <1>4, <3>2, <3>3 DEF Tracked
  <2>7. QED BY Zenon, <2>2, <2>3, <2>4, <2>5, <2>6 DEF LoaderInv
<1>5. \A i \in In(q) : live[i] = Absent BY Zenon
<1>6. QED BY <1>0, <1>3, <1>4, <1>5, GoesIs, Zenon

\* The timer fires: a new flush takes the queues.
LEMMA FiresStep == ASSUME LoaderInv, NEW f \in Flush, Fires(f) PROVE LoaderInv'
<1>0. LoaderType /\ Flushes /\ Removals BY Zenon DEF LoaderInv
<1>1. /\ ~flush[f].on /\ Goes(f, dirtyPersist, dirtyForget)
      /\ dirtyPersist' = <<>> /\ dirtyForget' = <<>> /\ timer' = FALSE
      /\ UNCHANGED <<live, minted, answered, up, store, lost>>
  BY Zenon DEF Fires
<1>2. dirtyPersist \in Seq(Record) /\ dirtyForget \in Seq(Record) /\ <<>> \in Seq(Record)
  BY <1>0 DEF LoaderType
<1>3. f \notin answered /\ \A k \in DOMAIN wire : wire[k].by # f BY Zenon, <1>0, <1>1 DEF Flushes
<1>4. flush[f].persist = <<>> /\ flush[f].forget = <<>> BY Zenon, <1>0, <1>1 DEF Flushes
<1>5. \A i \in Record : ~Pends(f, i) BY Zenon, <1>4, InIs DEF Pends, Listed
<1>6. \A i \in In(dirtyForget) : i \in Record /\ live[i] = Absent /\ i \in minted
  BY Zenon, <1>0, <1>2, InIs DEF Removals
<1>7. \A i \in Record : Dirty(i) => Listed(dirtyPersist, dirtyForget, i) BY Zenon DEF Dirty
<1>8. In(dirtyForget') \subseteq In(dirtyForget) BY Zenon, <1>1, InIs
<1>9. answered' = answered \ {f} BY Zenon, <1>1, <1>3
<1>10. QED BY Zenon, <1>1, <1>2, <1>3, <1>5, <1>6, <1>7, <1>8, <1>9, GoesStep

\* A flush goes on after the answer to its call.
LEMMA ResumesStep == ASSUME LoaderInv, NEW f \in Flush, Resumes(f) PROVE LoaderInv'
<1>0. LoaderType /\ Flushes /\ Removals BY Zenon DEF LoaderInv
<1>1. /\ f \in answered /\ answered' = answered \ {f} /\ Goes(f, flush[f].persist, flush[f].forget)
      /\ UNCHANGED <<live, minted, up, store, lost, dirtyPersist, dirtyForget, timer>>
  BY Zenon DEF Resumes, dirtyVars
<1>2. /\ dirtyPersist \in Seq(Record) /\ dirtyForget \in Seq(Record) /\ timer \in BOOLEAN
      /\ flush[f].persist \in Seq(Record) /\ flush[f].forget \in Seq(Record)
  BY Zenon, <1>0 DEF LoaderType
<1>3. \A k \in DOMAIN wire : wire[k].by # f BY Zenon, <1>0, <1>1 DEF Flushes
<1>4. \A i \in In(flush[f].forget) : i \in Record /\ live[i] = Absent /\ i \in minted
  BY Zenon, <1>0, <1>2, InIs DEF Removals
<1>5. \A i \in Record : Pends(f, i) => Listed(flush[f].persist, flush[f].forget, i) BY Zenon DEF Pends
<1>6. \A i \in Record : Dirty(i) => Dirty(i)' BY Zenon, <1>1 DEF Dirty, Listed
<1>7. ~timer' => dirtyPersist' = <<>> /\ dirtyForget' = <<>> BY Zenon, <1>0, <1>1 DEF Flushes
<1>8. QED BY Zenon, <1>1, <1>2, <1>3, <1>4, <1>5, <1>6, <1>7, GoesStep

\* The oldest call leaves the wire.
LEMMA WireLess ==
  ASSUME LoaderType, wire # <<>>, wire' = Tail(wire)
  PROVE  /\ 1 \in DOMAIN wire /\ Head(wire) = wire[1] /\ wire' \in Seq(Op)
         /\ \A k \in DOMAIN wire' : k + 1 \in DOMAIN wire /\ wire'[k] = wire[k + 1] /\ k \in Nat \ {0}
         /\ \A k \in DOMAIN wire : k \in Nat /\
              (k = 1 \/ (k - 1 \in DOMAIN wire' /\ wire'[k - 1] = wire[k] /\ (k - 1) + 1 = k /\ 1 < k))
<1>1. wire \in Seq(Op) BY Zenon DEF LoaderType
<1>2. /\ Len(wire) \in Nat \ {0} /\ DOMAIN wire = 1..Len(wire) /\ Head(wire) = wire[1]
      /\ wire' \in Seq(Op) /\ DOMAIN wire' = 1..(Len(wire) - 1)
      /\ \A k \in 1..(Len(wire) - 1) : wire'[k] = wire[k + 1]
  BY <1>1
<1>3. QED BY <1>2

\* persist_record and forget_record: the call that is handled brings the host's record to
\* where the next one takes it on.
LEMMA HandlesStep == LoaderInv /\ HostHandles => LoaderInv'
<1> SUFFICES ASSUME LoaderInv, HostHandles PROVE LoaderInv' BY Zenon
<1>0. /\ LoaderType /\ Flushes /\ Removals /\ Rising /\ Tracked
      /\ wire # <<>> /\ wire' = Tail(wire)
      /\ UNCHANGED <<live, minted, flush, up, dirtyPersist, dirtyForget, timer>>
  BY Zenon DEF LoaderInv, HostHandles, dirtyVars
<1>1. PICK op : op = wire[1] BY Zenon
<1>2. /\ 1 \in DOMAIN wire /\ Head(wire) = op /\ op.id \in Record /\ op.by \in Flush /\ op.val \in Version
      /\ wire' \in Seq(Op)
  BY Zenon, <1>0, <1>1, WireLess, WireIs
<1>3. /\ store' = [store EXCEPT ![op.id] = op.val] /\ answered' = answered \cup {op.by}
      /\ lost' = lost \ {op.id}
  BY Zenon, <1>2 DEF HostHandles
<1>4. /\ store' \in [Record -> Version] /\ store'[op.id] = op.val
      /\ \A i \in Record : i # op.id => store'[i] = store[i]
  BY Zenon, <1>0, <1>2, <1>3 DEF LoaderType
<1>5. \A k \in DOMAIN wire' : k + 1 \in DOMAIN wire /\ wire'[k] = wire[k + 1] /\ k \in Nat \ {0}
  BY Zenon, <1>0, WireLess
<1>6. \A k \in DOMAIN wire : k \in Nat /\
        (k = 1 \/ (k - 1 \in DOMAIN wire' /\ wire'[k - 1] = wire[k] /\ (k - 1) + 1 = k /\ 1 < k))
  BY Zenon, <1>0, WireLess
<1>7. LoaderType' BY Zenon, <1>0, <1>2, <1>3, <1>4 DEF LoaderType
<1>8. Flushes'
  <2>1. flush[op.by].on BY Zenon, <1>0, <1>1, <1>2 DEF Flushes
  <2>2. ASSUME NEW k \in DOMAIN wire'
        PROVE  /\ flush[wire'[k].by].on /\ wire'[k].by \notin answered' /\ wire'[k].sent = up
               /\ \A l \in DOMAIN wire' : wire'[k].by = wire'[l].by => k = l
    <3>1. k + 1 \in DOMAIN wire /\ wire'[k] = wire[k + 1] /\ k \in Nat /\ k + 1 # 1
          /\ \A l \in DOMAIN wire' : l + 1 \in DOMAIN wire /\ wire'[l] = wire[l + 1] /\ l \in Nat
      BY <1>2, <1>5, <2>2
    <3>2. wire[k + 1].by # op.by BY Zenon, <1>0, <1>1, <1>2, <3>1 DEF Flushes
    <3>3. \A l \in DOMAIN wire' : wire'[k].by = wire'[l].by => k + 1 = l + 1 BY <1>0, <3>1 DEF Flushes
    <3>4. QED BY <1>0, <1>3, <3>1, <3>2, <3>3 DEF Flushes
  <2>3. \A g \in answered' : flush[g].on BY Zenon, <1>0, <1>3, <2>1 DEF Flushes
  <2>4. QED BY Zenon, <1>0, <2>2, <2>3 DEF Flushes
<1>9. Removals'
  <2>1. \A k \in DOMAIN wire' : wire'[k].val # Absent => wire'[k].id \in minted \cup {Root}
    BY <1>0, <1>5 DEF Removals
  <2>2. \A i \in Member : store'[i] # Absent => i \in minted
    <3>1. op.val # Absent => op.id \in minted \cup {Root} BY Zenon, <1>0, <1>1, <1>2 DEF Removals
    <3>2. QED BY Zenon, <1>0, <1>4, <3>1, LoaderAssumption DEF Removals, Record
  <2>3. QED BY Zenon, <1>0, <2>1, <2>2 DEF Removals
<1>10. Rising'
  <2>1. \A i \in Record : Older(store'[i], live[i])
    BY Zenon, <1>0, <1>1, <1>2, <1>4 DEF Rising
  <2>2. ASSUME NEW k \in DOMAIN wire'
        PROVE  Older(store'[wire'[k].id], wire'[k].val) /\ Older(wire'[k].val, live[wire'[k].id])
    <3>1. k + 1 \in DOMAIN wire /\ wire'[k] = wire[k + 1] /\ 1 < k + 1 BY <1>5, <2>2
    <3>2. wire[k + 1].id \in Record BY Zenon, <1>0, <3>1, WireIs
    <3>3. CASE wire[k + 1].id = op.id BY <1>0, <1>1, <1>2, <1>4, <3>1, <3>3 DEF Rising
    <3>4. CASE wire[k + 1].id # op.id BY Zenon, <1>0, <1>4, <3>1, <3>2, <3>4 DEF Rising
    <3>5. QED BY Zenon, <3>3, <3>4
  <2>3. ASSUME NEW k \in DOMAIN wire', NEW l \in DOMAIN wire', k < l, wire'[k].id = wire'[l].id
        PROVE  Older(wire'[k].val, wire'[l].val)
    <3>1. /\ k + 1 \in DOMAIN wire /\ wire'[k] = wire[k + 1]
          /\ l + 1 \in DOMAIN wire /\ wire'[l] = wire[l + 1] /\ k + 1 < l + 1
      BY <1>5, <2>3
    <3>2. QED BY Zenon, <1>0, <2>3, <3>1 DEF Rising
  <2>4. QED BY Zenon, <1>0, <2>1, <2>2, <2>3 DEF Rising
<1>11. Tracked'
  <2>1. \A i \in Record : (Dirty(i)' <=> Dirty(i)) /\ \A f \in Flush : Pends(f, i)' <=> Pends(f, i)
    BY Zenon, <1>0 DEF Dirty, Pends, Listed
  <2>2. ASSUME NEW k \in DOMAIN wire' PROVE Followed(k)'
    <3>1. PICK n : n = k + 1 BY Zenon
    <3>2. n \in DOMAIN wire /\ wire'[k] = wire[n] /\ k \in Nat /\ n \in Nat /\ n # 1
      BY <1>5, <2>2, <3>1
    <3>3. PICK i \in Record : i = wire[n].id BY Zenon, <1>0, <3>2, WireIs
    <3>4. Followed(n) BY Zenon, <1>0, <3>2 DEF Tracked
    <3>5. CASE wire[n].val = live[i] \/ Dirty(i) BY Zenon, <1>0, <2>1, <3>2, <3>3, <3>5 DEF Followed
    <3>6. ASSUME NEW l \in DOMAIN wire, n < l, wire[l].id = i, wire[l].val = live[i] PROVE Followed(k)'
      <4>1. l - 1 \in DOMAIN wire' /\ wire'[l - 1] = wire[l] /\ k < l - 1 BY <1>6, <3>1, <3>2, <3>6
      <4>2. QED BY <1>0, <3>2, <3>3, <3>6, <4>1 DEF Followed
    <3>7. ASSUME NEW f \in Flush, Pends(f, i), \A l \in DOMAIN wire : wire[l].by = f => n < l
          PROVE  Followed(k)'
      <4>1. \A l \in DOMAIN wire' : wire'[l].by = f => k < l BY <1>5, <3>1, <3>2, <3>7
      <4>2. QED BY Zenon, <2>1, <3>2, <3>3, <3>7, <4>1 DEF Followed
    <3>8. QED BY Zenon, <3>3, <3>4, <3>5, <3>6, <3>7 DEF Followed
  <2>3. ASSUME NEW i \in Record PROVE Kept(i)'
    <3>1. CASE \E k \in DOMAIN wire : k # 1 /\ wire[k].id = i BY Zenon, <1>6, <3>1 DEF Kept
    <3>2. CASE i = op.id /\ ~\E k \in DOMAIN wire : k # 1 /\ wire[k].id = i
      <4>1. Followed(1) BY Zenon, <1>0, <1>2 DEF Tracked
      <4>2. ~\E l \in DOMAIN wire : 1 < l /\ wire[l].id = i BY <3>2
      <4>3. op.val = live[i] \/ Dirty(i) \/ \E f \in Flush : Pends(f, i)
        BY Zenon, <1>1, <3>2, <4>1, <4>2 DEF Followed
      <4>4. QED BY Zenon, <1>0, <1>4, <2>1, <3>2, <4>3 DEF Kept
    <3>3. CASE i # op.id /\ ~\E k \in DOMAIN wire : k # 1 /\ wire[k].id = i
      <4>1. Kept(i) BY Zenon, <1>0 DEF Tracked
      <4>2. ~\E k \in DOMAIN wire : wire[k].id = i BY Zenon, <1>1, <3>3
      <4>3. QED BY Zenon, <1>0, <1>3, <1>4, <2>1, <3>3, <4>1, <4>2 DEF Kept
    <3>4. QED BY Zenon, <3>1, <3>2, <3>3
  <2>4. QED BY Zenon, <2>2, <2>3 DEF Tracked
<1>12. QED BY Zenon, <1>7, <1>8, <1>9, <1>10, <1>11 DEF LoaderInv

\* The flushes of F end; the others go on.
LEMMA EndedIs ==
  ASSUME LoaderType, Flushes, NEW F \in SUBSET Flush, flush' = Ended(F), live' = live
  PROVE  /\ flush' \in [Flush -> [on : BOOLEAN, persist : Seq(Record), forget : Seq(Record)]]
         /\ \A f \in Flush : f \notin F => flush'[f] = flush[f]
         /\ \A f \in Flush : ~flush'[f].on => flush'[f].persist = <<>> /\ flush'[f].forget = <<>>
         /\ \A f \in Flush : In(flush'[f].forget) \subseteq In(flush[f].forget)
         /\ \A f \in Flush \ F, i \in Record : Pends(f, i)' <=> Pends(f, i)
         /\ \A f \in F, i \in Record : Pends(f, i) => i \in Abandoned(F)
         /\ Abandoned(F) \subseteq Record
<1>1. Idle \in [on : BOOLEAN, persist : Seq(Record), forget : Seq(Record)] BY DEF Idle
<1>2. \A f \in Flush : flush'[f] = IF f \in F THEN Idle ELSE flush[f] BY Zenon DEF Ended
<1>3. flush' \in [Flush -> [on : BOOLEAN, persist : Seq(Record), forget : Seq(Record)]]
  BY Zenon, <1>1 DEF Ended, LoaderType
<1>4. Idle.persist = <<>> /\ Idle.forget = <<>> /\ In(Idle.forget) = {} BY Zenon, InIs DEF Idle
<1>5. \A f \in Flush : ~flush'[f].on => flush'[f].persist = <<>> /\ flush'[f].forget = <<>>
  BY Zenon, <1>2, <1>4 DEF Flushes
<1>6. \A f \in Flush : In(flush'[f].forget) \subseteq In(flush[f].forget) BY Zenon, <1>2, <1>4
<1>7. \A f \in Flush \ F, i \in Record : Pends(f, i)' <=> Pends(f, i) BY Zenon, <1>2 DEF Pends, Listed
<1>8. \A f \in F, i \in Record : Pends(f, i) => i \in Abandoned(F) BY Zenon DEF Pends, Listed, Abandoned
<1>9. Abandoned(F) \subseteq Record BY Zenon DEF Abandoned
<1>10. QED BY Zenon, <1>2, <1>3, <1>5, <1>6, <1>7, <1>8, <1>9

\* An error frame: the flush that made the call ends.
LEMMA FailsStep == LoaderInv /\ HostFails => LoaderInv'
<1> SUFFICES ASSUME LoaderInv, HostFails PROVE LoaderInv' BY Zenon
<1>0. /\ LoaderType /\ Flushes /\ Removals /\ Rising /\ Tracked
      /\ wire # <<>> /\ wire' = Tail(wire)
      /\ UNCHANGED <<live, minted, answered, up, store, dirtyPersist, dirtyForget, timer>>
  BY Zenon DEF LoaderInv, HostFails, dirtyVars
<1>1. PICK op : op = wire[1] BY Zenon
<1>2. 1 \in DOMAIN wire /\ Head(wire) = op /\ op.id \in Record /\ op.by \in Flush /\ wire' \in Seq(Op)
  BY Zenon, <1>0, <1>1, WireLess, WireIs
<1>3. flush' = Ended({op.by}) /\ lost' = lost \cup {op.id} \cup Abandoned({op.by})
  BY Zenon, <1>2 DEF HostFails
<1>4. /\ flush' \in [Flush -> [on : BOOLEAN, persist : Seq(Record), forget : Seq(Record)]]
      /\ \A f \in Flush : f # op.by => flush'[f] = flush[f]
      /\ \A f \in Flush : ~flush'[f].on => flush'[f].persist = <<>> /\ flush'[f].forget = <<>>
      /\ \A f \in Flush : In(flush'[f].forget) \subseteq In(flush[f].forget)
      /\ \A f \in Flush, i \in Record : f # op.by => (Pends(f, i)' <=> Pends(f, i))
      /\ \A i \in Record : Pends(op.by, i) => i \in Abandoned({op.by})
      /\ Abandoned({op.by}) \subseteq Record
  <2>1. {op.by} \in SUBSET Flush BY Zenon, <1>2
  <2>2. QED BY Zenon, <1>0, <1>3, <2>1, EndedIs
<1>5. \A k \in DOMAIN wire' : k + 1 \in DOMAIN wire /\ wire'[k] = wire[k + 1] /\ k \in Nat \ {0}
  BY Zenon, <1>0, WireLess
<1>6. \A k \in DOMAIN wire : k \in Nat /\
        (k = 1 \/ (k - 1 \in DOMAIN wire' /\ wire'[k - 1] = wire[k] /\ (k - 1) + 1 = k /\ 1 < k))
  BY Zenon, <1>0, WireLess
<1>7. LoaderType' BY Zenon, <1>0, <1>2, <1>3, <1>4 DEF LoaderType
<1>8. Flushes'
  <2>1. op.by \notin answered BY Zenon, <1>0, <1>1, <1>2 DEF Flushes
  <2>2. ASSUME NEW k \in DOMAIN wire'
        PROVE  /\ flush'[wire'[k].by].on /\ wire'[k].by \notin answered' /\ wire'[k].sent = up
               /\ \A l \in DOMAIN wire' : wire'[k].by = wire'[l].by => k = l
    <3>1. k + 1 \in DOMAIN wire /\ wire'[k] = wire[k + 1] /\ k \in Nat /\ k + 1 # 1
          /\ \A l \in DOMAIN wire' : l + 1 \in DOMAIN wire /\ wire'[l] = wire[l + 1] /\ l \in Nat
      BY <1>2, <1>5, <2>2
    <3>2. wire[k + 1].by # op.by BY Zenon, <1>0, <1>1, <1>2, <3>1 DEF Flushes
    <3>3. wire[k + 1].by \in Flush BY Zenon, <1>0, <3>1, WireIs
    <3>4. \A l \in DOMAIN wire' : wire'[k].by = wire'[l].by => k + 1 = l + 1 BY <1>0, <3>1 DEF Flushes
    <3>5. QED BY <1>0, <1>4, <3>1, <3>2, <3>3, <3>4 DEF Flushes
  <2>3. \A g \in answered' : flush'[g].on BY Zenon, <1>0, <1>4, <2>1 DEF Flushes, LoaderType
  <2>4. QED BY Zenon, <1>0, <1>4, <2>2, <2>3 DEF Flushes
<1>9. Removals'
  <2>1. \A k \in DOMAIN wire' : wire'[k].val # Absent => wire'[k].id \in minted \cup {Root}
    BY <1>0, <1>5 DEF Removals
  <2>2. \A f \in Flush, i \in Record : i \in In(flush'[f].forget) => live[i] = Absent /\ i \in minted
    BY Zenon, <1>0, <1>4 DEF Removals
  <2>3. QED BY Zenon, <1>0, <2>1, <2>2 DEF Removals
<1>10. Rising'
  <2>1. \A k \in DOMAIN wire' :
          Older(store[wire'[k].id], wire'[k].val) /\ Older(wire'[k].val, live[wire'[k].id])
    BY Zenon, <1>0, <1>5 DEF Rising
  <2>2. ASSUME NEW k \in DOMAIN wire', NEW l \in DOMAIN wire', k < l, wire'[k].id = wire'[l].id
        PROVE  Older(wire'[k].val, wire'[l].val)
    <3>1. /\ k + 1 \in DOMAIN wire /\ wire'[k] = wire[k + 1]
          /\ l + 1 \in DOMAIN wire /\ wire'[l] = wire[l + 1] /\ k + 1 < l + 1
      BY <1>5, <2>2
    <3>2. QED BY Zenon, <1>0, <2>2, <3>1 DEF Rising
  <2>3. QED BY Zenon, <1>0, <2>1, <2>2 DEF Rising
<1>11. Tracked'
  <2>1. \A i \in Record : Dirty(i)' <=> Dirty(i) BY Zenon, <1>0 DEF Dirty, Listed
  <2>2. ASSUME NEW k \in DOMAIN wire' PROVE Followed(k)'
    <3>1. PICK n : n = k + 1 BY Zenon
    <3>2. n \in DOMAIN wire /\ wire'[k] = wire[n] /\ k \in Nat /\ n \in Nat /\ 1 < n
      BY <1>5, <2>2, <3>1
    <3>3. PICK i \in Record : i = wire[n].id BY Zenon, <1>0, <3>2, WireIs
    <3>4. Followed(n) BY Zenon, <1>0, <3>2 DEF Tracked
    <3>5. CASE wire[n].val = live[i] \/ Dirty(i) BY Zenon, <1>0, <2>1, <3>2, <3>3, <3>5 DEF Followed
    <3>6. ASSUME NEW l \in DOMAIN wire, n < l, wire[l].id = i, wire[l].val = live[i] PROVE Followed(k)'
      <4>1. l - 1 \in DOMAIN wire' /\ wire'[l - 1] = wire[l] /\ k < l - 1 BY <1>6, <3>1, <3>2, <3>6
      <4>2. QED BY SMTT(20), <1>0, <3>2, <3>3, <3>6, <4>1 DEF Followed
    <3>7. ASSUME NEW f \in Flush, Pends(f, i), \A l \in DOMAIN wire : wire[l].by = f => n < l
          PROVE  Followed(k)'
      <4>1. \A l \in DOMAIN wire' : wire'[l].by = f => k < l BY <1>5, <3>1, <3>2, <3>7
      <4>2. f # op.by BY <1>1, <1>2, <3>2, <3>7
      <4>3. QED BY Zenon, <1>4, <3>2, <3>3, <3>7, <4>1, <4>2 DEF Followed
    <3>8. QED BY Zenon, <3>3, <3>4, <3>5, <3>6, <3>7 DEF Followed
  <2>3. ASSUME NEW i \in Record PROVE Kept(i)'
    <3>1. CASE i \in lost' BY Zenon, <3>1 DEF Kept
    <3>2. CASE i \notin lost'
      <4>1. Kept(i) /\ i \notin lost /\ i # op.id /\ ~Pends(op.by, i)
        BY Zenon, <1>0, <1>3, <1>4, <3>2 DEF Tracked
      <4>2. CASE \E k \in DOMAIN wire : wire[k].id = i BY <1>1, <1>6, <4>1, <4>2 DEF Kept
      <4>3. CASE ~\E k \in DOMAIN wire : wire[k].id = i BY Zenon, <1>0, <1>4, <2>1, <4>1, <4>3 DEF Kept
      <4>4. QED BY Zenon, <4>2, <4>3
    <3>3. QED BY Zenon, <3>1, <3>2
  <2>4. QED BY Zenon, <2>2, <2>3 DEF Tracked
<1>12. QED BY Zenon, <1>7, <1>8, <1>9, <1>10, <1>11 DEF LoaderInv

\* onclose: every call that has left is rejected, and its flush ends.
LEMMA DropStep == LoaderInv /\ Drop => LoaderInv'
<1> SUFFICES ASSUME LoaderInv, Drop PROVE LoaderInv' BY Zenon
<1>0. /\ LoaderType /\ Flushes /\ Removals /\ Rising /\ Tracked
      /\ up /\ up' = FALSE /\ wire' = <<>> /\ answered' = {}
      /\ UNCHANGED <<live, minted, store, dirtyPersist, dirtyForget, timer>>
  BY Zenon DEF LoaderInv, Drop, dirtyVars
<1>1. PICK made : made = {op \in In(wire) : op.sent} BY Zenon
<1>2. PICK cut : cut = answered \cup {op.by : op \in made} BY Zenon
<1>3. flush' = Ended(cut) /\ lost' = lost \cup {op.id : op \in made} \cup Abandoned(cut)
  BY Zenon, <1>1, <1>2 DEF Drop
<1>4. \A k \in DOMAIN wire : wire[k] \in made BY Zenon, <1>0, <1>1 DEF Flushes, In
<1>5. \A op \in made : op.id \in Record /\ op.by \in Flush BY Zenon, <1>0, <1>1, WireIs DEF In
<1>6. cut \in SUBSET Flush BY Zenon, <1>0, <1>2, <1>5 DEF LoaderType
<1>7. /\ flush' \in [Flush -> [on : BOOLEAN, persist : Seq(Record), forget : Seq(Record)]]
      /\ \A f \in Flush : ~flush'[f].on => flush'[f].persist = <<>> /\ flush'[f].forget = <<>>
      /\ \A f \in Flush : In(flush'[f].forget) \subseteq In(flush[f].forget)
      /\ \A f \in Flush \ cut, i \in Record : Pends(f, i)' <=> Pends(f, i)
      /\ \A f \in cut, i \in Record : Pends(f, i) => i \in Abandoned(cut)
      /\ Abandoned(cut) \subseteq Record
  BY Zenon, <1>0, <1>3, <1>6, EndedIs
<1>8. <<>> \in Seq(Op) /\ DOMAIN wire' = {} BY <1>0
<1>9. lost' \subseteq Record BY <1>0, <1>3, <1>5, <1>7 DEF LoaderType
<1>10. LoaderType' BY Zenon, <1>0, <1>7, <1>8, <1>9 DEF LoaderType
<1>11. Flushes' BY Zenon, <1>0, <1>7, <1>8 DEF Flushes
<1>12. Removals' BY Zenon, <1>0, <1>7, <1>8 DEF Removals
<1>13. Rising' BY Zenon, <1>0, <1>8 DEF Rising
<1>14. ASSUME NEW i \in Record PROVE Kept(i)'
  <2>1. CASE i \in lost' BY Zenon, <2>1 DEF Kept
  <2>2. CASE i \notin lost'
    <3>1. Kept(i) /\ i \notin lost /\ \A f \in cut : ~Pends(f, i) BY Zenon, <1>0, <1>3, <1>7, <2>2 DEF Tracked
    <3>2. ~\E k \in DOMAIN wire : wire[k].id = i BY Zenon, <1>3, <1>4, <2>2
    <3>3. Dirty(i)' <=> Dirty(i) BY Zenon, <1>0 DEF Dirty, Listed
    <3>4. QED BY Zenon, <1>0, <1>7, <3>1, <3>2, <3>3 DEF Kept
  <2>3. QED BY Zenon, <2>1, <2>2
<1>15. Tracked' BY Zenon, <1>8, <1>14 DEF Tracked
<1>16. QED BY Zenon, <1>10, <1>11, <1>12, <1>13, <1>15 DEF LoaderInv

\* onopen: the parked calls leave as they were made.
LEMMA ReconnectStep == LoaderInv /\ Reconnect => LoaderInv'
<1> SUFFICES ASSUME LoaderInv, Reconnect PROVE LoaderInv' BY Zenon
<1>0. /\ LoaderType /\ Flushes /\ Removals /\ Rising /\ Tracked /\ up' = TRUE
      /\ UNCHANGED <<live, minted, flush, answered, store, lost, dirtyPersist, dirtyForget, timer>>
  BY Zenon DEF LoaderInv, Reconnect, dirtyVars
<1>1. wire' = [k \in 1..Len(wire) |-> [wire[k] EXCEPT !.sent = TRUE]] BY Zenon DEF Reconnect
<1>2. wire \in Seq(Op) /\ Len(wire) \in Nat /\ DOMAIN wire = 1..Len(wire) BY <1>0 DEF LoaderType
<1>3. DOMAIN wire' = DOMAIN wire BY Zenon, <1>1, <1>2
<1>4. ASSUME NEW k \in DOMAIN wire
      PROVE  /\ wire'[k] \in Op /\ wire'[k].by = wire[k].by /\ wire'[k].id = wire[k].id
             /\ wire'[k].val = wire[k].val /\ wire'[k].sent = TRUE
  <2>1. wire[k] \in Op /\ wire'[k] = [wire[k] EXCEPT !.sent = TRUE] BY Zenon, <1>0, <1>1, <1>2, WireIs
  <2>2. QED BY Zenon, <2>1 DEF Op
<1>5. wire' \in Seq(Op)
  <2>1. wire' \in [1..Len(wire) -> Op] BY Zenon, <1>1, <1>2, <1>4
  <2>2. QED BY <1>2, <2>1
<1>6. LoaderType' BY Zenon, <1>0, <1>5 DEF LoaderType
<1>7. Flushes' BY ZenonT(30), <1>0, <1>3, <1>4 DEF Flushes
<1>8. Removals' BY Zenon, <1>0, <1>3, <1>4 DEF Removals
<1>9. Rising' BY Zenon, <1>0, <1>3, <1>4 DEF Rising
<1>10. \A i \in Record : (Dirty(i)' <=> Dirty(i)) /\ \A f \in Flush : Pends(f, i)' <=> Pends(f, i)
  BY Zenon, <1>0 DEF Dirty, Pends, Listed
<1>11. ASSUME NEW k \in DOMAIN wire PROVE Followed(k)'
  <2>1. Followed(k) /\ wire[k].id \in Record BY Zenon, <1>0, WireIs DEF Tracked
  <2>2. CASE wire[k].val = live[wire[k].id] \/ Dirty(wire[k].id)
    BY Zenon, <1>0, <1>4, <1>10, <2>1, <2>2 DEF Followed
  <2>3. ASSUME NEW l \in DOMAIN wire, k < l, wire[l].id = wire[k].id, wire[l].val = live[wire[k].id]
        PROVE  Followed(k)'
    BY Zenon, <1>0, <1>3, <1>4, <2>3 DEF Followed
  <2>4. ASSUME NEW f \in Flush, Pends(f, wire[k].id), \A l \in DOMAIN wire : wire[l].by = f => k < l
        PROVE  Followed(k)'
    <3>1. PICK i \in Record : i = wire[k].id BY Zenon, <2>1
    <3>2. wire'[k].id = i /\ Pends(f, i)' BY Zenon, <1>4, <1>10, <2>4, <3>1
    <3>3. \A l \in DOMAIN wire' : wire'[l].by = f => k < l BY Zenon, <1>3, <1>4, <2>4
    <3>4. QED BY Zenon, <3>2, <3>3 DEF Followed
  <2>5. QED BY Zenon, <2>1, <2>2, <2>3, <2>4 DEF Followed
<1>12. ASSUME NEW i \in Record PROVE Kept(i)'
  <2>1. Kept(i) BY Zenon, <1>0 DEF Tracked
  <2>2. QED BY Zenon, <1>0, <1>3, <1>4, <1>10, <2>1 DEF Kept
<1>13. Tracked' BY Zenon, <1>3, <1>11, <1>12 DEF Tracked
<1>14. QED BY Zenon, <1>6, <1>7, <1>8, <1>9, <1>13 DEF LoaderInv

\* A step that leaves the loader alone.
LEMMA LoaderStands == LoaderInv /\ UNCHANGED loaderVars => LoaderInv'
<1> SUFFICES ASSUME LoaderInv, UNCHANGED loaderVars PROVE LoaderInv' BY Zenon
<1>1. /\ live' = live /\ minted' = minted /\ dirtyPersist' = dirtyPersist /\ dirtyForget' = dirtyForget
      /\ timer' = timer /\ flush' = flush /\ wire' = wire /\ answered' = answered /\ up' = up
      /\ store' = store /\ lost' = lost
  BY Zenon DEF loaderVars
<1>2. LoaderType' /\ Flushes' /\ Removals' /\ Rising'
  BY SMTT(20), <1>1 DEF LoaderInv, LoaderType, Flushes, Removals, Rising
<1>3. Tracked'
  BY <1>1 DEF LoaderInv, Tracked, Followed, Kept, Dirty, Pends, Listed
<1>4. QED BY Zenon, <1>2, <1>3 DEF LoaderInv

\* Whatever the order in which the tree changes, flushes run, calls are handled, refused or
\* cut off and the page is opened again, every record that is not the host's is queued, in a
\* flush, on the wire or known to be lost.  (proxy_loader.ts onState, schedule, flush)
THEOREM LoaderInvariant == LoaderSpec => []LoaderInv
<1>1. LoaderInv /\ LoaderNext => LoaderInv'
  <2> SUFFICES ASSUME LoaderInv, LoaderNext PROVE LoaderInv' BY Zenon
  <2>1. ASSUME NEW i \in Record, RegisterMember(i) \/ UpdateMeta(i) PROVE LoaderInv' BY Zenon, <2>1, PersistStep
  <2>2. ASSUME NEW i \in Record, DropMember(i) PROVE LoaderInv' BY Zenon, <2>2, ForgetStep
  <2>3. ASSUME NEW f \in Flush, Fires(f) PROVE LoaderInv' BY Zenon, <2>3, FiresStep
  <2>4. ASSUME NEW f \in Flush, Resumes(f) PROVE LoaderInv' BY Zenon, <2>4, ResumesStep
  <2>5. QED BY Zenon, <2>1, <2>2, <2>3, <2>4, HandlesStep, FailsStep, DropStep, ReconnectStep, ReloadStep
           DEF LoaderNext
<1>2. QED BY <1>1, LoaderStarts, LoaderStands, PTL DEF LoaderSpec

\* When nothing is queued and no flush runs, the host's records are the page's, but for those
\* of calls that failed: for any number of members, flushes, changes and faults.
\* (proxy_loader.ts onState, flush)
THEOREM LoaderStaysSynced == LoaderSpec => []SyncedButLost
<1>1. LoaderInv => SyncedButLost
  <2>1. SUFFICES ASSUME LoaderInv, Quiet, NEW i \in Record, i \notin lost PROVE store[i] = live[i]
    BY Zenon DEF SyncedButLost
  <2>2. LoaderType /\ Flushes /\ Kept(i) BY Zenon, <2>1 DEF LoaderInv, Tracked
  <2>3. dirtyPersist = <<>> /\ dirtyForget = <<>>
        /\ \A f \in Flush : flush[f].persist = <<>> /\ flush[f].forget = <<>>
    BY Zenon, <2>1, <2>2 DEF Quiet, Flushes
  <2>4. ~Dirty(i) /\ \A f \in Flush : ~Pends(f, i) BY Zenon, <2>3, InIs DEF Dirty, Pends, Listed
  <2>5. \A k \in DOMAIN wire : FALSE BY Zenon, <2>1, <2>2, WireIs DEF Quiet, Flushes
  <2>6. QED BY Zenon, <2>1, <2>2, <2>4, <2>5 DEF Kept
<1>2. QED BY <1>1, LoaderInvariant, PTL

\* A record on the host is never replaced by an older one, and a record of an agent that is
\* gone is written only while its removal is on the way.  (proxy_loader.ts flush: the record
\* is read when its call is made)
THEOREM LoaderNeverGoesBack == LoaderSpec => NeverStale
<1> DEFINE Onward ==
      \A i \in Record : store'[i] \notin {Absent, store[i]} =>
        IF store[i] = Absent THEN live[i] # Absent \/ Forgetting(i) ELSE store'[i] > store[i]
<1>1. ASSUME LoaderInv, HostHandles, NEW i \in Record, store'[i] \notin {Absent, store[i]}
      PROVE  IF store[i] = Absent THEN live[i] # Absent \/ Forgetting(i) ELSE store'[i] > store[i]
  <2>1. LoaderType /\ Rising /\ Tracked /\ Removals BY Zenon, <1>1 DEF LoaderInv
  <2>2. PICK op : op = wire[1] BY Zenon
  <2>3. /\ 1 \in DOMAIN wire /\ Head(wire) = op /\ op.id \in Record /\ op.val \in Version
    BY Zenon, <1>1, <2>1, <2>2, WireLess, WireIs DEF HostHandles
  <2>4. store' = [store EXCEPT ![op.id] = op.val] BY Zenon, <1>1, <2>3 DEF HostHandles
  <2>5. op.id = i /\ store'[i] = op.val /\ op.val # Absent /\ op.val # store[i] /\ store[i] \in Version
    BY Zenon, <1>1, <2>1, <2>3, <2>4 DEF LoaderType
  <2>6. CASE store[i] # Absent
    <3>1. store[i] \in Nat /\ op.val \in Nat BY Zenon, <2>3, <2>5, <2>6 DEF Version
    <3>2. store[i] <= op.val BY Zenon, <2>1, <2>2, <2>3, <2>5, <2>6 DEF Rising, Older
    <3>3. QED BY <2>5, <2>6, <3>1, <3>2
  <2>7. CASE store[i] = Absent /\ live[i] = Absent
    <3>1. Followed(1) BY Zenon, <2>1, <2>3 DEF Tracked
    <3>2. \/ i \in In(dirtyForget) \/ \E f \in Flush : i \in In(flush[f].forget)
          \/ \E l \in DOMAIN wire : wire[l].id = i /\ wire[l].val = Absent
      BY Zenon, <2>2, <2>5, <2>7, <3>1 DEF Followed, Dirty, Pends, Listed
    <3>3. QED BY Zenon, <2>7, <3>2 DEF Forgetting, In
  <2>8. QED BY Zenon, <2>6, <2>7
<1>2. ASSUME LoaderNext \/ UNCHANGED loaderVars, ~HostHandles PROVE store' = store
  BY Zenon, <1>2 DEF LoaderNext, loaderVars, RegisterMember, UpdateMeta, DropMember, Changes, Fires, Resumes,
              HostFails, Drop, Reconnect, Reload
<1>3. LoaderInv /\ [LoaderNext]_loaderVars => [Onward]_loaderVars
  <2>1. CASE HostHandles BY Zenon, <1>1, <2>1
  <2>2. CASE ~HostHandles BY Zenon, <1>2, <2>2
  <2>3. QED BY Zenon, <2>1, <2>2
<1>4. QED BY <1>3, LoaderInvariant, PTL DEF LoaderSpec, NeverStale

=============================================================================
