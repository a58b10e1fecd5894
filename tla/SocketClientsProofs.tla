------------------------ MODULE SocketClientsProofs ------------------------
(***************************************************************************)
(* The two clients of a socket keep their books: first the one of a served *)
(* page, which also stays current; then the one of the browser kernel; and *)
(* what both keep.  For any number of calls, sockets, handlers, changes,   *)
(* drops and reloads.                                                      *)
(***************************************************************************)
EXTENDS SocketClients, PageTransport, TLAPS

-----------------------------------------------------------------------------
\* The client of a served page.

FrameTypes == {"reply", "error", "reload_html", "state_snapshot", "state_event"}
Subjects == PgCalls \cup Nat \cup {Nothing}

PageType ==
  /\ pgPhase \in {"dialing", "open", "backoff"}
  /\ pgNextId \in Nat
  /\ pgCall \in [PgCalls -> [at : {"free", "sent", "answered", "rejected", "gone"}, got : Subjects]]
  /\ pgSeen \in [PgSubscribers -> Subjects] /\ pgHandlers \in SUBSET PgSubscribers
  /\ pgWatching \in SUBSET PgSources
  /\ pgHost \in [subs : Nat, watch : SUBSET PgSources, asked : SUBSET [id : Nat, of : PgCalls]]
  /\ pgFrames \in Seq([type : FrameTypes, id : Nat, of : Subjects])
  /\ pgState \in Nat

\* The pending map, as in the kernel's client.
PageEntries ==
  /\ pgPending = [i \in DOMAIN pgPending |-> pgPending[i]]
  /\ \A i \in DOMAIN pgPending :
       /\ i \in Nat /\ i < pgNextId /\ pgPending[i] \in PgCalls
       /\ pgCall[pgPending[i]].at = "sent"
       /\ \A j \in DOMAIN pgPending : pgPending[i] = pgPending[j] => i = j
  /\ \A c \in PgCalls : pgCall[c].at = "sent" => \E i \in DOMAIN pgPending : pgPending[i] = c

\* A request and a reply under way carry the id of their call.
Match(id, of) == id < pgNextId /\ (id \in DOMAIN pgPending => pgPending[id] = of)
PageAsked ==
  /\ \A q \in pgHost.asked : Match(q.id, q.of)
  /\ \A k \in DOMAIN pgFrames : pgFrames[k].type = "reply" => Match(pgFrames[k].id, pgFrames[k].of)

\* A page without an open socket has nothing at the host and nothing under way.
Down == pgPhase # "open" => pgHost = NoClient /\ pgFrames = <<>> /\ DOMAIN pgPending = {}

IsState(k) == pgFrames[k].type \in {"state_snapshot", "state_event"}

\* A document that is not current has a reload under way, or missed a change.
BodyComes ==
  pgMissed \/ pgShown = pgBody \/ \E k \in DOMAIN pgFrames : pgFrames[k].type = "reload_html"

\* The last state under way to the handlers is the present one; if none is, they have
\* it, or nothing yet.
StateComes ==
  pgPhase = "open" /\ pgHandlers # {} =>
    \/ \E k \in DOMAIN pgFrames :
         /\ IsState(k) /\ pgFrames[k].of = pgState
         /\ \A j \in DOMAIN pgFrames : j > k => ~IsState(j)
    \/ /\ \A k \in DOMAIN pgFrames : ~IsState(k)
       /\ \A h \in pgHandlers : pgSeen[h] \in {Nothing, pgState}

ToldOpen == pgPhase = "open" => pgTold = "connected"

PageInv ==
  /\ PageType /\ PageEntries /\ PageAsked /\ Down /\ PageRightReply /\ PageHostAgrees
  /\ BodyComes /\ StateComes /\ ToldOpen

-----------------------------------------------------------------------------
\* The client of a page: facts that its steps share.

PgFrame == [type : FrameTypes, id : Nat, of : Subjects]
PgClient == [subs : Nat, watch : SUBSET PgSources, asked : SUBSET [id : Nat, of : PgCalls]]
PgCallRec == [at : {"free", "sent", "answered", "rejected", "gone"}, got : Subjects]

\* What Append and Tail do to the places of a sequence.
LEMMA AppendIs ==
  ASSUME NEW S, NEW s \in Seq(S), NEW f \in S
  PROVE  /\ Append(s, f) \in Seq(S)
         /\ DOMAIN s = 1..Len(s) /\ DOMAIN Append(s, f) = 1..(Len(s) + 1) /\ Len(s) \in Nat
         /\ \A k \in 1..Len(s) : Append(s, f)[k] = s[k]
         /\ Append(s, f)[Len(s) + 1] = f
  OBVIOUS

\* What Tail does to a sequence.
LEMMA TailIs ==
  ASSUME NEW S, NEW s \in Seq(S), s # <<>>
  PROVE  /\ Tail(s) \in Seq(S) /\ Head(s) = s[1] /\ s[1] \in S
         /\ DOMAIN s = 1..Len(s) /\ DOMAIN Tail(s) = 1..(Len(s) - 1) /\ Len(s) \in Nat \ {0}
         /\ \A k \in 1..(Len(s) - 1) : Tail(s)[k] = s[k + 1]
  OBVIOUS

\* Every frame under way is a frame.
LEMMA FramesAre ==
  PageType => pgFrames \in Seq(PgFrame) /\ \A k \in DOMAIN pgFrames : pgFrames[k] \in PgFrame
<1>1. ASSUME NEW S, NEW s \in Seq(S) PROVE \A k \in DOMAIN s : s[k] \in S
  BY <1>1
<1> QED BY ZenonT(30), <1>1 DEF PageType, PgFrame

\* The calls, the pending map and the ids of a document.
PageBooks == PageEntries /\ PageRightReply
\* What is said to and by the host.
PageNews == PageAsked /\ Down /\ PageHostAgrees /\ BodyComes /\ StateComes /\ ToldOpen

\* The invariant in three parts.
LEMMA PageParts == PageInv <=> PageType /\ PageBooks /\ PageNews
  BY Zenon DEF PageInv, PageBooks, PageNews

\* A step that leaves calls and ids alone keeps the books.
LEMMA PageBooksKept ==
  ASSUME PageBooks, UNCHANGED <<pgNextId, pgPending, pgCall>>
  PROVE  PageBooks'
<1>1. PageEntries'
  BY DEF PageBooks, PageEntries
<1>2. PageRightReply'
  BY Zenon DEF PageBooks, PageRightReply
<1> QED BY Zenon, <1>1, <1>2 DEF PageBooks

\* A document whose calls have all been ended has empty books.
LEMMA PageBooksEnded ==
  ASSUME PageType, PageBooks, NEW how \in {"rejected", "gone"}, pgPending' = NoCalls,
         pgCall' = Ended(how)
  PROVE  PageBooks' /\ pgCall' \in [PgCalls -> PgCallRec] /\ DOMAIN pgPending' = {}
<1>1. DOMAIN NoCalls = {} /\ NoCalls = [i \in DOMAIN NoCalls |-> NoCalls[i]]
  BY Zenon DEF NoCalls
<1>2. ASSUME NEW c \in PgCalls
      PROVE  /\ pgCall'[c] \in PgCallRec /\ pgCall'[c].at # "sent"
             /\ pgCall'[c].at = "answered" => pgCall[c].at = "answered"
             /\ pgCall'[c].got = pgCall[c].got
  <2>1. pgCall[c] \in PgCallRec
    BY Zenon DEF PageType, PgCallRec
  <2>2. pgCall'[c] = IF pgCall[c].at = "sent" THEN [pgCall[c] EXCEPT !.at = how] ELSE pgCall[c]
    BY Zenon DEF Ended
  <2> QED BY Zenon, <2>1, <2>2 DEF PgCallRec
<1>3. pgCall' \in [PgCalls -> PgCallRec]
  <2>1. pgCall' = [c \in PgCalls |-> pgCall'[c]]
    BY Zenon DEF Ended
  <2> QED BY Zenon, <2>1, <1>2
<1>4. PageEntries'
  BY Zenon, <1>1, <1>2 DEF PageEntries
<1>5. PageRightReply'
  BY Zenon, <1>2 DEF PageBooks, PageRightReply
<1> QED BY Zenon, <1>1, <1>3, <1>4, <1>5 DEF PageBooks

\* A page without a connection: nothing is under way, and the page is told so.
LEMMA PageNewsDown ==
  ASSUME pgPhase' # "open", pgHost' = NoClient, pgFrames' = <<>>, DOMAIN pgPending' = {},
         pgMissed' \/ pgShown' = pgBody'
  PROVE  PageNews' /\ pgHost' \in PgClient /\ pgFrames' \in Seq(PgFrame)
<1>1. pgHost'.asked = {} /\ pgHost' \in PgClient
  BY Zenon DEF NoClient, PgClient
<1>2. PageAsked' /\ Down'
  BY <1>1 DEF PageAsked, Down
<1>3. PageHostAgrees' /\ BodyComes' /\ StateComes' /\ ToldOpen'
  BY Zenon DEF PageHostAgrees, BodyComes, StateComes, ToldOpen
<1> QED BY <1>1, <1>2, <1>3 DEF PageNews

\* onopen: what is replayed is what is wanted, and a snapshot comes to the handlers.
LEMMA PageOpensStep ==
  ASSUME PageInv, PageOpens
  PROVE  PageInv'
<1>inv. PageType /\ PageBooks /\ PageNews
  BY Zenon, PageParts
<1>0. /\ pgPhase # "open" /\ pgPhase' = "open" /\ pgTold' = "connected" /\ pgHost' = Replays
      /\ pgFrames' = IF Replays.subs = 1 THEN <<Snapshot>> ELSE <<>>
      /\ UNCHANGED <<pgNextId, pgPending, pgCall, pgHandlers, pgSeen, pgWatching,
                     pgShown, pgBody, pgState, pgMissed>>
  BY Zenon DEF PageOpens, fireLifecycle, callState, standing, content
<1>1. /\ Replays \in PgClient /\ Replays.asked = {} /\ Replays.watch = pgWatching
      /\ Replays.subs = IF pgHandlers # {} THEN 1 ELSE 0
  BY Zenon, <1>inv DEF Replays, PgClient, PageType
<1>2. Snapshot \in PgFrame /\ Snapshot.type = "state_snapshot" /\ Snapshot.of = pgState
  BY Zenon, <1>inv DEF Snapshot, Frame, PgFrame, FrameTypes, Subjects, PageType
<1>3. /\ pgFrames' \in Seq(PgFrame)
      /\ pgHandlers # {} => /\ DOMAIN pgFrames' = {1} /\ pgFrames'[1] = Snapshot
      /\ pgHandlers = {} => DOMAIN pgFrames' = {}
  BY <1>0, <1>1, <1>2
<1>4. PageType'
  BY Zenon, <1>0, <1>1, <1>3, <1>inv DEF PageType, PgClient, PgFrame
<1>5. PageBooks'
  BY Zenon, <1>0, <1>inv, PageBooksKept
<1>6. \A k \in DOMAIN pgFrames' : pgFrames'[k] = Snapshot /\ k = 1
  BY Zenon, <1>3
<1>7. PageAsked' /\ Down' /\ PageHostAgrees' /\ ToldOpen'
  BY Zenon, <1>0, <1>1, <1>2, <1>6 DEF PageAsked, Down, PageHostAgrees, ToldOpen
<1>8. BodyComes'
  BY <1>0, <1>inv DEF BodyComes, PageNews, Down
<1>9. StateComes'
  <2> SUFFICES ASSUME pgHandlers # {}
               PROVE  \E k \in DOMAIN pgFrames' :
                        /\ IsState(k)' /\ pgFrames'[k].of = pgState'
                        /\ \A j \in DOMAIN pgFrames' : j > k => ~IsState(j)'
    BY Zenon, <1>0 DEF StateComes
  <2> QED BY <1>0, <1>2, <1>3 DEF IsState
<1> QED BY Zenon, <1>4, <1>5, <1>7, <1>8, <1>9 DEF PageInv, PageBooks

\* onclose: the waiting calls are rejected, and a reload that was under way is missed.
LEMMA PageClosesStep ==
  ASSUME PageInv, PageCloses
  PROVE  PageInv'
<1>inv. PageType /\ PageBooks /\ PageNews
  BY Zenon, PageParts
<1>0. /\ pgPhase' = "backoff" /\ pgPending' = NoCalls /\ pgCall' = Ended("rejected")
      /\ pgHost' = NoClient /\ pgFrames' = <<>>
      /\ pgMissed' = (pgMissed \/ \E i \in DOMAIN pgFrames : pgFrames[i].type = "reload_html")
      /\ UNCHANGED <<pgNextId, pgHandlers, pgSeen, pgWatching, pgShown, pgBody, pgState>>
  BY Zenon DEF PageCloses, rejectAllPending, standing
<1>1. PageBooks' /\ pgCall' \in [PgCalls -> PgCallRec] /\ DOMAIN pgPending' = {}
  BY Zenon, <1>0, <1>inv, PageBooksEnded
<1>2. pgMissed' \/ pgShown' = pgBody'
  BY ZenonT(30), <1>0, <1>inv DEF PageNews, BodyComes
<1>3. PageNews' /\ pgHost' \in PgClient /\ pgFrames' \in Seq(PgFrame)
  BY Zenon, <1>0, <1>1, <1>2, PageNewsDown
<1>4. PageType'
  BY Zenon, <1>0, <1>1, <1>3, <1>inv DEF PageType, PgCallRec, PgClient, PgFrame
<1> QED BY Zenon, <1>1, <1>3, <1>4 DEF PageInv, PageBooks, PageNews

\* The timer of the next dial.
LEMMA PageRedialsStep ==
  ASSUME PageInv, PageRedials
  PROVE  PageInv'
<1>inv. PageType /\ PageBooks /\ PageNews
  BY Zenon, PageParts
<1>0. /\ pgPhase = "backoff" /\ pgPhase' = "dialing"
      /\ UNCHANGED <<pgNextId, pgPending, pgCall, pgHandlers, pgSeen, pgWatching, pgHost,
                     pgFrames, pgShown, pgBody, pgState, pgMissed>>
  BY Zenon DEF PageRedials, callState, standing, content
<1>1. PageBooks'
  BY Zenon, <1>0, <1>inv, PageBooksKept
<1>2. /\ pgHost = NoClient /\ pgFrames = <<>> /\ DOMAIN pgPending = {}
      /\ pgMissed \/ pgShown = pgBody
  BY <1>0, <1>inv DEF PageNews, Down, BodyComes
<1>3. PageNews'
  BY Zenon, <1>0, <1>2, PageNewsDown
<1>4. PageType'
  BY Zenon, <1>0, <1>inv DEF PageType
<1> QED BY Zenon, <1>1, <1>3, <1>4 DEF PageInv, PageBooks, PageNews

\* call: an id of its own while the socket is open, refused else.
LEMMA PageCallsStep ==
  ASSUME PageInv, NEW c \in PgCalls, PageCalls(c)
  PROVE  PageInv'
<1>inv. PageType /\ PageBooks /\ PageNews
  BY Zenon, PageParts
<1>0. /\ pgCall[c].at = "free"
      /\ UNCHANGED <<pgPhase, pgTold, pgHandlers, pgSeen, pgWatching, pgFrames, pgShown, pgBody,
                     pgState, pgMissed>>
  BY Zenon DEF PageCalls, socketState, standing, content
<1>1. PICK at \in {"sent", "rejected"} :
        /\ pgCall' = [pgCall EXCEPT ![c].at = at]
        /\ at = "sent" <=> pgPhase = "open"
  BY Zenon DEF PageCalls
<1>2. /\ pgCall' \in [PgCalls -> PgCallRec] /\ pgCall'[c].at = at
      /\ \A x \in PgCalls : x # c => pgCall'[x] = pgCall[x]
  <2>1. PICK r : r = [pgCall[c] EXCEPT !.at = at]
    BY ZenonT(30)
  <2>2. pgCall[c] \in PgCallRec
    BY Zenon, <1>inv DEF PageType, PgCallRec
  <2>3. r \in PgCallRec /\ r.at = at
    BY Zenon, <2>1, <2>2 DEF PgCallRec
  <2>4. pgCall' = [pgCall EXCEPT ![c] = r]
    BY Zenon, <2>1, <1>1
  <2> QED BY Zenon, <2>3, <2>4, <1>inv DEF PageType, PgCallRec
<1>3. PageRightReply'
  BY Zenon, <1>1, <1>2, <1>inv DEF PageBooks, PageRightReply
<1>4. CASE pgPhase # "open"
  <2>1. UNCHANGED <<pgNextId, pgPending, pgHost>> /\ at = "rejected"
    BY Zenon, <1>1, <1>4 DEF PageCalls
  <2>2. PageType'
    BY Zenon, <2>1, <1>0, <1>2, <1>inv DEF PageType, PgCallRec
  <2>3. PageEntries'
    <3>1. \A i \in DOMAIN pgPending : pgPending[i] \in PgCalls /\ pgPending[i] # c
      BY Zenon, <1>0, <1>inv DEF PageBooks, PageEntries
    <3> QED BY <3>1, <2>1, <1>2, <1>inv DEF PageBooks, PageEntries
  <2>4. PageNews'
    <3>1. /\ pgHost = NoClient /\ pgFrames = <<>> /\ DOMAIN pgPending = {}
          /\ pgMissed \/ pgShown = pgBody
      BY <1>4, <1>inv DEF PageNews, Down, BodyComes
    <3> QED BY Zenon, <3>1, <2>1, <1>0, <1>4, PageNewsDown
  <2> QED BY Zenon, <2>2, <2>3, <2>4, <1>3 DEF PageInv, PageNews
<1>5. CASE pgPhase = "open"
  <2>0. PICK q : q = [id |-> pgNextId, of |-> c]
    BY ZenonT(30)
  <2> DEFINE m == [i \in DOMAIN pgPending \cup {pgNextId} |->
                     IF i = pgNextId THEN c ELSE pgPending[i]]
  <2>1. /\ pgNextId' = pgNextId + 1 /\ pgPending' = m /\ at = "sent"
        /\ pgHost' = [pgHost EXCEPT !.asked = @ \cup {q}]
    BY Zenon, <2>0, <1>1, <1>5 DEF PageCalls, SendFrame
  <2>2. /\ pgNextId \in Nat /\ pgNextId \notin DOMAIN pgPending
        /\ q \in [id : Nat, of : PgCalls] /\ q.id = pgNextId /\ q.of = c
    BY <2>0, <1>inv DEF PageType, PageBooks, PageEntries
  <2>3. /\ DOMAIN m = DOMAIN pgPending \cup {pgNextId} /\ m = [i \in DOMAIN m |-> m[i]]
        /\ m[pgNextId] = c /\ \A i \in DOMAIN pgPending : m[i] = pgPending[i]
    BY Zenon, <2>2
  <2> HIDE DEF m
  <2>4. /\ pgHost' \in PgClient /\ pgHost'.subs = pgHost.subs /\ pgHost'.watch = pgHost.watch
        /\ pgHost'.asked = pgHost.asked \cup {q}
    BY ZenonT(30), <2>1, <2>2, <1>inv DEF PgClient, PageType
  <2>5. PageType'
    <3>1. pgNextId' \in Nat
      BY <2>1, <2>2
    <3> QED BY Zenon, <3>1, <2>4, <1>0, <1>2, <1>inv DEF PageType, PgCallRec, PgClient
  <2>6. \A i \in DOMAIN pgPending : /\ i \in Nat /\ i < pgNextId /\ pgPending[i] \in PgCalls
                                    /\ pgPending[i] # c /\ pgCall[pgPending[i]].at = "sent"
    BY Zenon, <1>0, <1>inv DEF PageBooks, PageEntries
  <2>7. PageEntries'
    <3>1. \A i \in DOMAIN m : i \in Nat /\ i < pgNextId + 1 /\ m[i] \in PgCalls
      BY <2>2, <2>3, <2>6
    <3>2. \A i \in DOMAIN m : pgCall'[m[i]].at = "sent"
      BY <2>1, <2>3, <2>6, <1>2
    <3>3. \A i, j \in DOMAIN m : m[i] = m[j] => i = j
      BY <2>3, <2>6, <1>inv DEF PageBooks, PageEntries
    <3>4. \A x \in PgCalls : pgCall'[x].at = "sent" => \E i \in DOMAIN m : m[i] = x
      BY <2>3, <1>2, <1>inv DEF PageBooks, PageEntries
    <3> QED BY <3>1, <3>2, <3>3, <3>4, <2>1, <2>3 DEF PageEntries
  <2>8. PageAsked'
    <3>1. ASSUME NEW id \in Nat, NEW of, Match(id, of) PROVE Match(id, of)'
      BY <3>1, <2>1, <2>2, <2>3 DEF Match
    <3>2. Match(q.id, q.of)'
      BY <2>1, <2>2, <2>3 DEF Match
    <3>3. \A r \in pgHost.asked : r.id \in Nat /\ Match(r.id, r.of)
      BY Zenon, <1>inv DEF PageNews, PageAsked, PageType
    <3>4. \A k \in DOMAIN pgFrames : /\ pgFrames[k].id \in Nat
                                     /\ pgFrames[k].type = "reply" => Match(pgFrames[k].id, pgFrames[k].of)
      BY Zenon, <1>inv, FramesAre DEF PageNews, PageAsked, PgFrame
    <3>5. \A r \in pgHost'.asked : Match(r.id, r.of)'
      BY Zenon, <3>1, <3>2, <3>3, <2>4
    <3>6. \A k \in DOMAIN pgFrames' :
            pgFrames'[k].type = "reply" => Match(pgFrames[k].id, pgFrames[k].of)'
      BY Zenon, <3>1, <3>4, <1>0
    <3> QED BY Zenon, <3>5, <3>6 DEF PageAsked
  <2>9. Down' /\ PageHostAgrees' /\ BodyComes' /\ ToldOpen'
    BY Zenon, <2>4, <1>0, <1>5, <1>inv DEF PageNews, Down, PageHostAgrees, BodyComes, ToldOpen
  <2>10. StateComes'
    BY Zenon, <1>0, <1>inv DEF PageNews, StateComes, IsState
  <2> QED BY Zenon, <2>5, <2>7, <2>8, <2>9, <2>10, <1>3 DEF PageInv
<1> QED BY Zenon, <1>4, <1>5

\* watch and unwatch: the host hears of it while the socket is open.
LEMMA PageWatchesStep ==
  ASSUME PageInv, NEW s \in PgSources, PageWatches(s) \/ PageUnwatches(s)
  PROVE  PageInv'
<1>inv. PageType /\ PageBooks /\ PageNews
  BY Zenon, PageParts
<1>0. UNCHANGED <<pgPhase, pgTold, pgNextId, pgPending, pgCall, pgHandlers, pgSeen, pgFrames,
                  pgShown, pgBody, pgState, pgMissed>>
  BY Zenon DEF PageWatches, PageUnwatches, socketState, callState, content
<1>1. /\ pgWatching' \in SUBSET PgSources
      /\ pgHost' \in PgClient /\ pgHost'.subs = pgHost.subs /\ pgHost'.asked = pgHost.asked
      /\ pgPhase = "open" => pgHost'.watch = pgWatching'
      /\ pgPhase # "open" => pgHost' = pgHost
  <2>1. pgHost \in PgClient /\ pgWatching \in SUBSET PgSources
        /\ (pgPhase = "open" => pgHost.watch = pgWatching)
    BY Zenon, <1>inv DEF PageType, PgClient, PageNews, PageHostAgrees
  <2>2. PICK w \in SUBSET PgSources :
          pgWatching' = w /\ (pgPhase = "open" => pgHost' = [pgHost EXCEPT !.watch = w])
          /\ (pgPhase # "open" => pgHost' = pgHost)
    <3>1. CASE PageWatches(s)
      <4>1. pgWatching' = pgWatching \cup {s} /\ SendFrame([pgHost EXCEPT !.watch = @ \cup {s}])
        BY Zenon, <3>1 DEF PageWatches
      <4> QED BY Zenon, <4>1, <2>1 DEF SendFrame
    <3>2. CASE PageUnwatches(s)
      <4>1. pgWatching' = pgWatching \ {s} /\ SendFrame([pgHost EXCEPT !.watch = @ \ {s}])
        BY Zenon, <3>2 DEF PageUnwatches
      <4> QED BY Zenon, <4>1, <2>1 DEF SendFrame
    <3> QED BY Zenon, <3>1, <3>2
  <2> QED BY Zenon, <2>1, <2>2 DEF PgClient
<1>2. PageType'
  BY Zenon, <1>0, <1>1, <1>inv DEF PageType, PgClient
<1>3. PageBooks'
  BY Zenon, <1>0, <1>inv, PageBooksKept
<1>4. PageAsked' /\ Down'
  BY Zenon, <1>0, <1>1, <1>inv DEF PageNews, PageAsked, Match, Down
<1>5. PageHostAgrees' /\ BodyComes' /\ StateComes' /\ ToldOpen'
  BY ZenonT(30), <1>0, <1>1, <1>inv DEF PageNews, PageHostAgrees, BodyComes, StateComes, IsState, ToldOpen
<1> QED BY Zenon, <1>2, <1>3, <1>4, <1>5 DEF PageInv, PageBooks

\* The state news under a new frame: one with the present state settles it, one that is no
\* state frame changes nothing.
LEMMA StateAppended ==
  ASSUME PageType, NEW f \in PgFrame, pgFrames' = Append(pgFrames, f),
         \/ f.type \in {"state_snapshot", "state_event"} /\ f.of = pgState'
         \/ /\ f.type \notin {"state_snapshot", "state_event"} /\ StateComes
            /\ UNCHANGED <<pgPhase, pgHandlers, pgSeen, pgState>>
  PROVE  StateComes'
<1>1. /\ DOMAIN pgFrames = 1..Len(pgFrames) /\ DOMAIN pgFrames' = 1..(Len(pgFrames) + 1)
      /\ Len(pgFrames) \in Nat
      /\ \A k \in 1..Len(pgFrames) : pgFrames'[k] = pgFrames[k]
      /\ pgFrames'[Len(pgFrames) + 1] = f
  BY FramesAre, AppendIs
<1>2. PICK n \in Nat : n = Len(pgFrames)
  BY ZenonT(30), <1>1
<1>3. CASE f.type \in {"state_snapshot", "state_event"} /\ f.of = pgState'
  <2>1. n + 1 \in DOMAIN pgFrames' /\ \A j \in DOMAIN pgFrames' : ~(j > n + 1)
    BY <1>1, <1>2
  <2>2. IsState(n + 1)' /\ pgFrames'[n + 1].of = pgState'
    BY Zenon, <1>1, <1>2, <1>3 DEF IsState
  <2> QED BY Zenon, <2>1, <2>2 DEF StateComes
<1>4. CASE /\ f.type \notin {"state_snapshot", "state_event"} /\ StateComes
           /\ UNCHANGED <<pgPhase, pgHandlers, pgSeen, pgState>>
  <2>1. /\ \A k \in DOMAIN pgFrames : k \in DOMAIN pgFrames' /\ pgFrames'[k] = pgFrames[k]
        /\ \A k \in DOMAIN pgFrames : IsState(k)' <=> IsState(k)
        /\ \A k \in DOMAIN pgFrames' : IsState(k)' => k \in DOMAIN pgFrames
    BY <1>1, <1>4 DEF IsState
  <2> QED BY Zenon, <2>1, <1>4 DEF StateComes
<1> QED BY Zenon, <1>3, <1>4

\* The other news under a new frame.
LEMMA FrameAppended ==
  ASSUME PageInv, NEW f \in PgFrame, pgFrames' = Append(pgFrames, f),
         f.type = "reply" => Match(f.id, f.of),
         UNCHANGED <<pgNextId, pgPending, pgPhase, pgTold>>, pgPhase = "open",
         pgHost'.asked \subseteq pgHost.asked
  PROVE  /\ pgFrames' \in Seq(PgFrame) /\ PageAsked' /\ Down' /\ ToldOpen'
         /\ \A k \in DOMAIN pgFrames : k \in DOMAIN pgFrames' /\ pgFrames'[k] = pgFrames[k]
         /\ \E k \in DOMAIN pgFrames' : pgFrames'[k] = f
<1>inv. PageType /\ PageAsked /\ ToldOpen
  BY Zenon DEF PageInv
<1>1. /\ DOMAIN pgFrames = 1..Len(pgFrames) /\ DOMAIN pgFrames' = 1..(Len(pgFrames) + 1)
      /\ Len(pgFrames) \in Nat
      /\ \A k \in 1..Len(pgFrames) : pgFrames'[k] = pgFrames[k]
      /\ pgFrames'[Len(pgFrames) + 1] = f /\ pgFrames' \in Seq(PgFrame)
  BY <1>inv, FramesAre, AppendIs
<1>2. /\ \A k \in DOMAIN pgFrames : k \in DOMAIN pgFrames' /\ pgFrames'[k] = pgFrames[k]
      /\ \E k \in DOMAIN pgFrames' : pgFrames'[k] = f
      /\ \A k \in DOMAIN pgFrames' : k \in DOMAIN pgFrames \/ pgFrames'[k] = f
  BY <1>1
<1>3. PageAsked'
  BY <1>2, <1>inv DEF PageAsked, Match
<1> QED BY Zenon, <1>1, <1>2, <1>3, <1>inv DEF Down, ToldOpen

\* subscribeState: the first handler on an open socket asks for the stream, and a snapshot
\* comes; a later one has been given nothing.
LEMMA PageSubscribesStep ==
  ASSUME PageInv, NEW h \in PgSubscribers, PageSubscribes(h)
  PROVE  PageInv'
<1>inv. PageType /\ PageBooks /\ PageNews
  BY Zenon, PageParts
<1>0. /\ pgHandlers' = pgHandlers \cup {h} /\ pgSeen' = [pgSeen EXCEPT ![h] = Nothing]
      /\ UNCHANGED <<pgPhase, pgTold, pgNextId, pgPending, pgCall, pgWatching, pgShown, pgBody,
                     pgState, pgMissed>>
  BY Zenon DEF PageSubscribes, socketState, callState, content
<1>1. /\ pgHandlers' \in SUBSET PgSubscribers /\ pgSeen' \in [PgSubscribers -> Subjects]
      /\ pgSeen'[h] = Nothing /\ \A g \in PgSubscribers : g # h => pgSeen'[g] = pgSeen[g]
  BY Zenon, <1>0, <1>inv DEF PageType, Subjects
<1>2. PageBooks'
  BY Zenon, <1>0, <1>inv, PageBooksKept
<1>3. CASE /\ pgHandlers = {} /\ pgPhase = "open"
           /\ SendFrame([pgHost EXCEPT !.subs = @ + 1])
           /\ pgFrames' = Append(pgFrames, Snapshot)
  <2>1. Snapshot \in PgFrame /\ Snapshot.type = "state_snapshot" /\ Snapshot.of = pgState
    BY Zenon, <1>inv DEF Snapshot, Frame, PgFrame, FrameTypes, Subjects, PageType
  <2>2. /\ pgHost' \in PgClient /\ pgHost'.subs = pgHost.subs + 1
        /\ pgHost'.watch = pgHost.watch /\ pgHost'.asked = pgHost.asked
    <3>1. pgHost \in PgClient /\ pgHost.subs \in Nat
      BY Zenon, <1>inv DEF PageType, PgClient
    <3>2. PICK g : g = [pgHost EXCEPT !.subs = @ + 1]
      BY ZenonT(30)
    <3>3. /\ g \in PgClient /\ g.subs = pgHost.subs + 1
          /\ g.watch = pgHost.watch /\ g.asked = pgHost.asked
      BY <3>1, <3>2 DEF PgClient
    <3> QED BY Zenon, <3>2, <3>3, <1>3 DEF SendFrame
  <2>3. /\ pgFrames' \in Seq(PgFrame) /\ PageAsked' /\ Down' /\ ToldOpen'
        /\ \A k \in DOMAIN pgFrames : k \in DOMAIN pgFrames' /\ pgFrames'[k] = pgFrames[k]
    BY Zenon, <2>1, <2>2, <1>0, <1>3, FrameAppended
  <2>4. StateComes'
    BY Zenon, <2>1, <1>0, <1>3, <1>inv, StateAppended
  <2>5. PageHostAgrees'
    BY SMTT(20), <2>2, <1>0, <1>3, <1>inv DEF PageNews, PageHostAgrees
  <2>6. BodyComes'
    BY Zenon, <2>3, <1>0, <1>inv DEF PageNews, BodyComes
  <2>7. PageType'
    BY ZenonT(30), <2>2, <2>3, <1>0, <1>1, <1>inv DEF PageType, PgClient, PgFrame
  <2> QED BY ZenonT(30), <2>3, <2>4, <2>5, <2>6, <2>7, <1>2 DEF PageInv, PageBooks
<1>4. CASE (pgHandlers # {} \/ pgPhase # "open") /\ UNCHANGED <<pgHost, pgFrames>>
  <2>1. PageType'
    BY Zenon, <1>0, <1>1, <1>4, <1>inv DEF PageType
  <2>2. PageAsked' /\ Down' /\ PageHostAgrees' /\ BodyComes' /\ ToldOpen'
    BY Zenon, <1>0, <1>4, <1>inv DEF PageNews, PageAsked, Match, Down, PageHostAgrees, BodyComes, ToldOpen
  <2>3. StateComes'
    <3> SUFFICES ASSUME pgPhase = "open"
                 PROVE  StateComes'
      BY Zenon, <1>0 DEF StateComes
    <3>1. \A k : IsState(k)' <=> IsState(k)
      BY Zenon, <1>4 DEF IsState
    <3>2. \A g \in pgHandlers' : pgSeen'[g] = Nothing \/ (g \in pgHandlers /\ pgSeen'[g] = pgSeen[g])
      BY Zenon, <1>0, <1>1
    <3> QED BY ZenonT(30), <3>1, <3>2, <1>0, <1>4, <1>inv DEF PageNews, StateComes
  <2> QED BY Zenon, <2>1, <2>2, <2>3, <1>2 DEF PageInv, PageBooks
<1> QED BY Zenon, <1>3, <1>4 DEF PageSubscribes

\* The last handler to go ends the stream.
LEMMA PageUnsubscribesStep ==
  ASSUME PageInv, NEW h \in PgSubscribers, PageUnsubscribes(h)
  PROVE  PageInv'
<1>inv. PageType /\ PageBooks /\ PageNews
  BY Zenon, PageParts
<1>0. /\ h \in pgHandlers /\ pgHandlers' = pgHandlers \ {h}
      /\ UNCHANGED <<pgPhase, pgTold, pgNextId, pgPending, pgCall, pgSeen, pgWatching, pgFrames,
                     pgShown, pgBody, pgState, pgMissed>>
  BY Zenon DEF PageUnsubscribes, socketState, callState, content
<1>1. /\ pgHost' \in PgClient /\ pgHost'.watch = pgHost.watch /\ pgHost'.asked = pgHost.asked
      /\ pgPhase = "open" /\ pgHandlers = {h} => pgHost'.subs = 0
      /\ pgHandlers # {h} => pgHost'.subs = pgHost.subs
      /\ pgPhase # "open" => pgHost' = pgHost
  <2>1. pgHost \in PgClient
    BY Zenon, <1>inv DEF PageType, PgClient
  <2>2. PICK g : g = [pgHost EXCEPT !.subs = 0]
    BY ZenonT(30)
  <2>3. g \in PgClient /\ g.watch = pgHost.watch /\ g.asked = pgHost.asked /\ g.subs = 0
    BY Zenon, <2>1, <2>2 DEF PgClient
  <2>4. pgHost' = IF pgHandlers = {h} /\ pgPhase = "open" THEN g ELSE pgHost
    BY Zenon, <2>2 DEF PageUnsubscribes, SendFrame
  <2> QED BY Zenon, <2>1, <2>3, <2>4
<1>2. PageType'
  BY Zenon, <1>0, <1>1, <1>inv DEF PageType, PgClient
<1>3. PageBooks'
  BY Zenon, <1>0, <1>inv, PageBooksKept
<1>4. PageAsked' /\ Down' /\ BodyComes' /\ ToldOpen'
  BY Zenon, <1>0, <1>1, <1>inv DEF PageNews, PageAsked, Match, Down, BodyComes, ToldOpen
<1>5. PageHostAgrees'
  BY Zenon, <1>0, <1>1, <1>inv DEF PageNews, PageHostAgrees
<1>6. StateComes'
  BY Zenon, <1>0, <1>inv DEF PageNews, StateComes, IsState
<1> QED BY Zenon, <1>2, <1>3, <1>4, <1>5, <1>6 DEF PageInv, PageBooks

\* The host: an answer carries the id of its request, a change of the body brings a reload,
\* and a change of the state goes to a page that has a handler.
LEMMA HostAnswersStep ==
  ASSUME PageInv, NEW q \in pgHost.asked, HostAnswers(q)
  PROVE  PageInv'
<1>inv. PageType /\ PageBooks /\ PageNews
  BY Zenon, PageParts
<1>0. /\ pgHost' = [pgHost EXCEPT !.asked = @ \ {q}]
      /\ UNCHANGED <<pgPhase, pgTold, pgNextId, pgPending, pgCall, pgHandlers, pgSeen, pgWatching,
                     pgShown, pgBody, pgState, pgMissed>>
  BY Zenon DEF HostAnswers, socketState, callState, standing, content
<1>1. PICK type \in {"reply", "error"} : pgFrames' = Append(pgFrames, Frame(type, q.id, q.of))
  BY Zenon DEF HostAnswers
<1>2. PICK f : f = Frame(type, q.id, q.of)
  BY Zenon
<1>3. /\ f \in PgFrame /\ f.type = type /\ Match(f.id, f.of)
  <2>1. q.id \in Nat /\ q.of \in PgCalls /\ Match(q.id, q.of)
    BY ZenonT(30), <1>inv DEF PageType, PageNews, PageAsked
  <2> QED BY ZenonT(30), <2>1, <1>2 DEF Frame, PgFrame, FrameTypes, Subjects
<1>4. /\ pgHost' \in PgClient /\ pgHost'.subs = pgHost.subs /\ pgHost'.watch = pgHost.watch
      /\ pgHost'.asked \subseteq pgHost.asked
  <2>1. pgHost \in PgClient
    BY Zenon, <1>inv DEF PageType, PgClient
  <2> QED BY Zenon, <2>1, <1>0 DEF PgClient
<1>5. pgPhase = "open"
  BY <1>inv DEF PageNews, Down, NoClient
<1>6. /\ pgFrames' \in Seq(PgFrame) /\ PageAsked' /\ Down' /\ ToldOpen'
      /\ \A k \in DOMAIN pgFrames : k \in DOMAIN pgFrames' /\ pgFrames'[k] = pgFrames[k]
  BY Zenon, <1>0, <1>1, <1>2, <1>3, <1>4, <1>5, FrameAppended
<1>7. StateComes'
  BY Zenon, <1>0, <1>1, <1>2, <1>3, <1>inv, StateAppended DEF PageNews
<1>8. PageHostAgrees' /\ BodyComes'
  BY Zenon, <1>0, <1>4, <1>6, <1>inv DEF PageNews, PageHostAgrees, BodyComes
<1>9. PageType'
  BY ZenonT(30), <1>0, <1>4, <1>6, <1>inv DEF PageType, PgClient, PgFrame
<1>10. PageBooks'
  BY Zenon, <1>0, <1>inv, PageBooksKept
<1> QED BY ZenonT(30), <1>6, <1>7, <1>8, <1>9, <1>10 DEF PageInv, PageBooks

\* A new body: a reload is under way to an open page, and is missed by any other.
LEMMA BodyChangesStep ==
  ASSUME PageInv, BodyChanges
  PROVE  PageInv'
<1>inv. PageType /\ PageBooks /\ PageNews
  BY Zenon, PageParts
<1>0. UNCHANGED <<pgPhase, pgTold, pgNextId, pgPending, pgCall, pgHandlers, pgSeen, pgWatching,
                  pgHost, pgState>>
  BY Zenon DEF BodyChanges, socketState, callState, standing
<1>1. PageBooks'
  BY Zenon, <1>0, <1>inv, PageBooksKept
<1>2. CASE pgPhase = "open"
  <2>0. PICK f : f = Frame("reload_html", 0, Nothing)
    BY Zenon
  <2>1. pgFrames' = Append(pgFrames, f) /\ f \in PgFrame /\ f.type = "reload_html"
    BY Zenon, <2>0, <1>2 DEF BodyChanges, Frame, PgFrame, FrameTypes, Subjects
  <2>2. /\ pgFrames' \in Seq(PgFrame) /\ PageAsked' /\ Down' /\ ToldOpen'
        /\ \E k \in DOMAIN pgFrames' : pgFrames'[k] = f
    BY ZenonT(30), <2>1, <1>0, <1>2, FrameAppended
  <2>3. StateComes'
    BY Zenon, <2>1, <1>0, <1>inv, StateAppended DEF PageNews
  <2>4. PageHostAgrees' /\ BodyComes'
    BY Zenon, <2>1, <2>2, <1>0, <1>inv DEF PageNews, PageHostAgrees, BodyComes
  <2>5. PageType'
    BY Zenon, <2>2, <1>0, <1>inv DEF PageType, PgFrame
  <2> QED BY Zenon, <2>2, <2>3, <2>4, <2>5, <1>1 DEF PageInv, PageBooks
<1>3. CASE pgPhase # "open"
  <2>1. pgFrames' = pgFrames /\ pgMissed'
    BY ZenonT(30), <1>3 DEF BodyChanges
  <2>2. pgHost = NoClient /\ pgFrames = <<>> /\ DOMAIN pgPending = {}
    BY Zenon, <1>3, <1>inv DEF PageNews, Down
  <2>3. PageNews'
    BY Zenon, <2>1, <2>2, <1>0, <1>3, PageNewsDown
  <2>4. PageType'
    BY Zenon, <2>1, <1>0, <1>inv DEF PageType
  <2> QED BY Zenon, <2>3, <2>4, <1>1 DEF PageInv, PageBooks, PageNews
<1> QED BY Zenon, <1>2, <1>3

\* A new state goes to a page with a handler; a page without one wants none.
LEMMA StateChangesStep ==
  ASSUME PageInv, StateChanges
  PROVE  PageInv'
<1>inv. PageType /\ PageBooks /\ PageNews
  BY Zenon, PageParts
<1>0. /\ UNCHANGED <<pgPhase, pgTold, pgNextId, pgPending, pgCall, pgHandlers, pgSeen, pgWatching,
                     pgHost, pgShown, pgBody, pgMissed>>
      /\ pgState' \in Nat
  BY <1>inv DEF StateChanges, socketState, callState, standing, PageType
<1>1. PageBooks'
  BY Zenon, <1>0, <1>inv, PageBooksKept
<1>2. CASE pgHost.subs > 0
  <2>0. PICK f : f = Frame("state_event", 0, pgState')
    BY Zenon
  <2>1. /\ pgFrames' = Append(pgFrames, f) /\ f \in PgFrame
        /\ f.type = "state_event" /\ f.of = pgState'
    BY Zenon, <2>0, <1>0, <1>2 DEF StateChanges, Frame, PgFrame, FrameTypes, Subjects
  <2>2. pgPhase = "open"
    BY <1>2, <1>inv DEF PageNews, Down, NoClient
  <2>3. /\ pgFrames' \in Seq(PgFrame) /\ PageAsked' /\ Down' /\ ToldOpen'
        /\ \A k \in DOMAIN pgFrames : k \in DOMAIN pgFrames' /\ pgFrames'[k] = pgFrames[k]
    BY ZenonT(30), <2>1, <2>2, <1>0, FrameAppended
  <2>4. StateComes'
    BY Zenon, <2>1, <1>inv, StateAppended
  <2>5. PageHostAgrees' /\ BodyComes'
    BY ZenonT(30), <2>3, <1>0, <1>inv DEF PageNews, PageHostAgrees, BodyComes
  <2>6. PageType'
    BY Zenon, <2>3, <1>0, <1>inv DEF PageType, PgFrame
  <2> QED BY Zenon, <2>3, <2>4, <2>5, <2>6, <1>1 DEF PageInv, PageBooks
<1>3. CASE ~(pgHost.subs > 0)
  <2>1. pgFrames' = pgFrames
    BY Zenon, <1>3 DEF StateChanges
  <2>2. PageAsked' /\ Down' /\ PageHostAgrees' /\ BodyComes' /\ ToldOpen'
    BY Zenon, <2>1, <1>0, <1>inv DEF PageNews, PageAsked, Match, Down, PageHostAgrees, BodyComes, ToldOpen
  <2>3. StateComes'
    BY <1>0, <1>3, <1>inv DEF PageNews, PageHostAgrees, StateComes
  <2>4. PageType'
    BY Zenon, <2>1, <1>0, <1>inv DEF PageType
  <2> QED BY Zenon, <2>2, <2>3, <2>4, <1>1 DEF PageInv, PageBooks
<1> QED BY Zenon, <1>2, <1>3

\* A frame other than a reload is taken off the connection.
LEMMA FrameTaken ==
  ASSUME PageInv, pgFrames # <<>>, pgFrames' = Tail(pgFrames), Head(pgFrames).type # "reload_html",
         UNCHANGED <<pgPhase, pgTold, pgNextId, pgHandlers, pgWatching, pgHost, pgShown, pgBody,
                     pgMissed>>,
         \A i \in DOMAIN pgPending' : i \in DOMAIN pgPending /\ pgPending'[i] = pgPending[i]
  PROVE  /\ pgFrames' \in Seq(PgFrame)
         /\ PageAsked' /\ Down' /\ PageHostAgrees' /\ BodyComes' /\ ToldOpen'
<1>inv. PageType /\ PageNews
  BY Zenon, PageParts
<1>1. /\ pgFrames' \in Seq(PgFrame) /\ Head(pgFrames) = pgFrames[1]
      /\ DOMAIN pgFrames = 1..Len(pgFrames) /\ DOMAIN pgFrames' = 1..(Len(pgFrames) - 1)
      /\ Len(pgFrames) \in Nat \ {0}
      /\ \A k \in 1..(Len(pgFrames) - 1) : pgFrames'[k] = pgFrames[k + 1]
  BY Zenon, <1>inv, FramesAre, TailIs
<1>2. /\ \A k \in DOMAIN pgFrames' : k + 1 \in DOMAIN pgFrames /\ pgFrames'[k] = pgFrames[k + 1]
      /\ \A k \in DOMAIN pgFrames : k # 1 => k - 1 \in DOMAIN pgFrames' /\ pgFrames'[k - 1] = pgFrames[k]
  BY <1>1
<1>3. PageAsked'
  <2>1. \A id, of : Match(id, of) => Match(id, of)'
    BY Zenon DEF Match
  <2>2. \A k \in DOMAIN pgFrames' :
          pgFrames'[k].type = "reply" => Match(pgFrames'[k].id, pgFrames'[k].of)
    BY <1>2, <1>inv DEF PageNews, PageAsked
  <2>3. \A q \in pgHost'.asked : Match(q.id, q.of)'
    BY Zenon, <2>1, <1>inv DEF PageNews, PageAsked
  <2>4. \A k \in DOMAIN pgFrames' :
          pgFrames'[k].type = "reply" => Match(pgFrames[k].id, pgFrames[k].of)'
    BY Zenon, <2>2, <1>inv DEF Match
  <2> QED BY Zenon, <2>3, <2>4 DEF PageAsked
<1>4. BodyComes'
  BY ZenonT(30), <1>1, <1>2, <1>inv DEF PageNews, BodyComes
<1>5. Down' /\ PageHostAgrees' /\ ToldOpen'
  BY Zenon, <1>inv DEF PageNews, Down, PageHostAgrees, ToldOpen
<1> QED BY Zenon, <1>1, <1>3, <1>4, <1>5

\* The last state under way, once it is taken, is what the handlers have.
LEMMA StateTaken ==
  ASSUME PageType, StateComes, pgFrames # <<>>, pgFrames' = Tail(pgFrames),
         UNCHANGED <<pgPhase, pgHandlers, pgState>>,
         IF Head(pgFrames).type \in {"state_snapshot", "state_event"}
         THEN \A h \in pgHandlers : pgSeen'[h] = Head(pgFrames).of
         ELSE pgSeen' = pgSeen
  PROVE  StateComes'
<1>1. /\ Head(pgFrames) = pgFrames[1]
      /\ DOMAIN pgFrames = 1..Len(pgFrames) /\ DOMAIN pgFrames' = 1..(Len(pgFrames) - 1)
      /\ Len(pgFrames) \in Nat \ {0}
      /\ \A k \in 1..(Len(pgFrames) - 1) : pgFrames'[k] = pgFrames[k + 1]
  BY Zenon, FramesAre, TailIs
<1>2. /\ \A k \in DOMAIN pgFrames' : k \in Nat /\ k >= 1 /\ k + 1 \in DOMAIN pgFrames
                                     /\ pgFrames'[k] = pgFrames[k + 1]
      /\ \A k \in DOMAIN pgFrames : k \in Nat /\ (k # 1 => k - 1 \in DOMAIN pgFrames'
                                                          /\ pgFrames'[k - 1] = pgFrames[k])
      /\ 1 \in DOMAIN pgFrames
  BY <1>1
<1>3. /\ \A k \in DOMAIN pgFrames' : IsState(k)' <=> IsState(k + 1)
      /\ \A k \in DOMAIN pgFrames : k # 1 => (IsState(k - 1)' <=> IsState(k))
      /\ IsState(1) <=> Head(pgFrames).type \in {"state_snapshot", "state_event"}
  BY Zenon, <1>1, <1>2 DEF IsState
<1> SUFFICES ASSUME pgPhase = "open", pgHandlers # {}
             PROVE  StateComes'
  BY Zenon DEF StateComes
<1>4. CASE /\ \A k \in DOMAIN pgFrames : ~IsState(k)
           /\ \A h \in pgHandlers : pgSeen[h] \in {Nothing, pgState}
  BY Zenon, <1>2, <1>3, <1>4 DEF StateComes
<1>5. ASSUME NEW k \in DOMAIN pgFrames, IsState(k), pgFrames[k].of = pgState,
             \A j \in DOMAIN pgFrames : j > k => ~IsState(j)
      PROVE  StateComes'
  <2>1. CASE k = 1
    <3>1. \A j \in DOMAIN pgFrames' : ~IsState(j)'
      BY <2>1, <1>2, <1>3, <1>5
    <3>2. \A h \in pgHandlers' : pgSeen'[h] = pgState'
      BY Zenon, <2>1, <1>1, <1>3, <1>5
    <3> QED BY Zenon, <3>1, <3>2 DEF StateComes
  <2>2. CASE k # 1
    <3>1. k - 1 \in DOMAIN pgFrames' /\ IsState(k - 1)' /\ pgFrames'[k - 1].of = pgState'
      BY Zenon, <2>2, <1>2, <1>3, <1>5
    <3>2. \A j \in DOMAIN pgFrames' : j > k - 1 => ~IsState(j)'
      <4> TAKE j \in DOMAIN pgFrames'
      <4> HAVE j > k - 1
      <4>1. j + 1 \in DOMAIN pgFrames /\ j + 1 > k
        BY <1>2
      <4> QED BY Zenon, <4>1, <1>3, <1>5
    <3> QED BY Zenon, <3>1, <3>2 DEF StateComes
  <2> QED BY Zenon, <2>1, <2>2
<1> QED BY Zenon, <1>4, <1>5 DEF StateComes

\* location.reload: a new document, with the body of that moment.
LEMMA ReloadsStep ==
  ASSUME PageInv, Reloads
  PROVE  PageInv'
<1>inv. PageType /\ PageBooks
  BY Zenon, PageParts
<1>0. /\ pgPhase' = "dialing" /\ pgNextId' = 1 /\ pgPending' = NoCalls /\ pgCall' = Ended("gone")
      /\ pgHandlers' = {} /\ pgSeen' = [h \in PgSubscribers |-> Nothing] /\ pgWatching' = {}
      /\ pgHost' = NoClient /\ pgFrames' = <<>> /\ pgShown' = pgBody'
      /\ pgState' = pgState
  BY Zenon DEF Reloads
<1>1. PageBooks' /\ pgCall' \in [PgCalls -> PgCallRec] /\ DOMAIN pgPending' = {}
  BY Zenon, <1>0, <1>inv, PageBooksEnded
<1>2. PageNews' /\ pgHost' \in PgClient /\ pgFrames' \in Seq(PgFrame)
  BY Zenon, <1>0, <1>1, PageNewsDown
<1>3. pgSeen' \in [PgSubscribers -> Subjects]
  BY Zenon, <1>0 DEF Subjects
<1>4. PageType'
  BY Zenon, <1>0, <1>1, <1>2, <1>3, <1>inv DEF PageType, PgCallRec, PgClient, PgFrame
<1> QED BY Zenon, <1>1, <1>2, <1>4 DEF PageInv, PageBooks, PageNews

\* A reply: its entry goes, and the call that entry names, which is the one asked about, has it.
LEMMA ReplyBooks ==
  ASSUME PageInv, NEW f \in PgFrame, Match(f.id, f.of), GetsReply(f)
  PROVE  /\ PageBooks' /\ pgCall' \in [PgCalls -> PgCallRec]
         /\ \A i \in DOMAIN pgPending' : i \in DOMAIN pgPending /\ pgPending'[i] = pgPending[i]
<1>inv. PageType /\ PageBooks
  BY Zenon, PageParts
<1>0. PICK d : d = f.id
  BY Zenon
<1>1. /\ DOMAIN pgPending' = DOMAIN pgPending \ {d}
      /\ \A i \in DOMAIN pgPending \ {d} : pgPending'[i] = pgPending[i]
      /\ pgPending' = [i \in DOMAIN pgPending' |-> pgPending'[i]]
      /\ pgNextId' = pgNextId
  BY Zenon, <1>0 DEF GetsReply
<1>2. CASE d \notin DOMAIN pgPending
  <2>1. pgCall' = pgCall /\ DOMAIN pgPending' = DOMAIN pgPending
    BY Zenon, <1>0, <1>1, <1>2 DEF GetsReply
  <2>2. PageEntries'
    BY <2>1, <1>1, <1>inv DEF PageBooks, PageEntries
  <2>3. PageRightReply'
    BY Zenon, <2>1, <1>inv DEF PageBooks, PageRightReply
  <2> QED BY Zenon, <2>1, <2>2, <2>3, <1>1, <1>inv DEF PageBooks, PageType, PgCallRec
<1>3. CASE d \in DOMAIN pgPending
  <2>1. PICK c \in PgCalls : c = pgPending[d]
    BY Zenon, <1>3, <1>inv DEF PageBooks, PageEntries
  <2>2. PICK r : r = [at |-> "answered", got |-> f.of]
    BY ZenonT(30)
  <2>3. r \in PgCallRec /\ r.at = "answered" /\ r.got = c
    BY Zenon, <2>1, <2>2, <1>0, <1>3 DEF Match, PgCallRec, PgFrame, Subjects
  <2>4. pgCall' = [pgCall EXCEPT ![c] = r]
    BY Zenon, <2>1, <2>2, <1>0, <1>3 DEF GetsReply
  <2>5. /\ pgCall' \in [PgCalls -> PgCallRec] /\ pgCall'[c] = r
        /\ \A x \in PgCalls : x # c => pgCall'[x] = pgCall[x]
    BY Zenon, <2>3, <2>4, <1>inv DEF PageType, PgCallRec
  <2>6. PageRightReply'
    BY Zenon, <2>3, <2>5, <1>inv DEF PageBooks, PageRightReply
  <2>7. \A i \in DOMAIN pgPending' :
          /\ i \in Nat /\ i < pgNextId /\ pgPending'[i] \in PgCalls /\ pgPending'[i] # c
          /\ pgCall'[pgPending'[i]].at = "sent"
    BY <2>1, <2>5, <1>1, <1>3, <1>inv DEF PageBooks, PageEntries
  <2>8. \A i, j \in DOMAIN pgPending' : pgPending'[i] = pgPending'[j] => i = j
    BY Zenon, <1>1, <1>inv DEF PageBooks, PageEntries
  <2>9. \A x \in PgCalls : pgCall'[x].at = "sent" => \E i \in DOMAIN pgPending' : pgPending'[i] = x
    BY <2>1, <2>3, <2>5, <1>1, <1>inv DEF PageBooks, PageEntries
  <2>10. PageEntries'
    BY Zenon, <2>7, <2>8, <2>9, <1>1 DEF PageEntries
  <2> QED BY Zenon, <2>5, <2>6, <2>10, <1>1 DEF PageBooks
<1> QED BY ZenonT(30), <1>2, <1>3

\* onmessage: a reload begins a new document; any other frame is taken.
LEMMA OnMessageStep ==
  ASSUME PageInv, OnMessage
  PROVE  PageInv'
<1>inv. PageType /\ PageBooks /\ PageNews
  BY Zenon, PageParts
<1>1. CASE Reloads
  BY Zenon, <1>1, ReloadsStep
<1>2. PICK f : f = Head(pgFrames)
  BY Zenon
<1>3. pgFrames # <<>> /\ f \in PgFrame /\ f = pgFrames[1] /\ 1 \in DOMAIN pgFrames
  BY <1>2, <1>inv, FramesAre, TailIs DEF OnMessage
<1>4. CASE f.type = "reply" /\ GetsReply(f) /\ pgFrames' = Tail(pgFrames)
  <2>0. UNCHANGED <<pgPhase, pgTold, pgNextId, pgHandlers, pgSeen, pgWatching, pgHost, pgShown,
                    pgBody, pgState, pgMissed>>
    BY Zenon, <1>4 DEF GetsReply, socketState, standing, content
  <2>1. Match(f.id, f.of)
    BY Zenon, <1>3, <1>4, <1>inv DEF PageNews, PageAsked
  <2>2. /\ PageBooks' /\ pgCall' \in [PgCalls -> PgCallRec]
        /\ \A i \in DOMAIN pgPending' : i \in DOMAIN pgPending /\ pgPending'[i] = pgPending[i]
    BY Zenon, <2>1, <1>3, <1>4, ReplyBooks
  <2>3. /\ pgFrames' \in Seq(PgFrame)
        /\ PageAsked' /\ Down' /\ PageHostAgrees' /\ BodyComes' /\ ToldOpen'
    BY Zenon, <2>0, <2>2, <1>2, <1>3, <1>4, FrameTaken
  <2>4. StateComes'
    BY Zenon, <2>0, <1>2, <1>3, <1>4, <1>inv, StateTaken DEF PageNews
  <2>5. PageType'
    BY ZenonT(30), <2>0, <2>2, <2>3, <1>inv DEF PageType, PgCallRec, PgFrame
  <2> QED BY Zenon, <2>2, <2>3, <2>4, <2>5 DEF PageInv, PageBooks
<1>5. CASE f.type = "error" /\ GetsError(f) /\ pgFrames' = Tail(pgFrames)
  <2>0. UNCHANGED <<pgPhase, pgTold, pgNextId, pgPending, pgCall, pgHandlers, pgSeen, pgWatching,
                    pgHost, pgShown, pgBody, pgState, pgMissed>>
    BY Zenon, <1>5 DEF GetsError, socketState, standing, content
  <2>1. PageBooks'
    BY Zenon, <2>0, <1>inv, PageBooksKept
  <2>2. /\ pgFrames' \in Seq(PgFrame)
        /\ PageAsked' /\ Down' /\ PageHostAgrees' /\ BodyComes' /\ ToldOpen'
    BY Zenon, <2>0, <1>2, <1>3, <1>5, FrameTaken
  <2>3. StateComes'
    BY Zenon, <2>0, <1>2, <1>3, <1>5, <1>inv, StateTaken DEF PageNews
  <2>4. PageType'
    BY Zenon, <2>0, <2>2, <1>inv DEF PageType, PgFrame
  <2> QED BY Zenon, <2>1, <2>2, <2>3, <2>4 DEF PageInv, PageBooks
<1>6. CASE /\ f.type \in {"state_snapshot", "state_event"} /\ GetsState(f)
           /\ pgFrames' = Tail(pgFrames)
  <2>0. UNCHANGED <<pgPhase, pgTold, pgNextId, pgPending, pgCall, pgHandlers, pgWatching,
                    pgHost, pgShown, pgBody, pgState, pgMissed>>
    BY Zenon, <1>6 DEF GetsState, socketState, callState, content
  <2>1. PageBooks'
    BY Zenon, <2>0, <1>inv, PageBooksKept
  <2>2. /\ pgFrames' \in Seq(PgFrame)
        /\ PageAsked' /\ Down' /\ PageHostAgrees' /\ BodyComes' /\ ToldOpen'
    BY Zenon, <2>0, <1>2, <1>3, <1>6, FrameTaken
  <2>3. /\ pgSeen' \in [PgSubscribers -> Subjects]
        /\ \A h \in pgHandlers : pgSeen'[h] = f.of
    BY ZenonT(30), <1>3, <1>6, <1>inv DEF GetsState, PageType, PgFrame
  <2>4. StateComes'
    BY Zenon, <2>0, <2>3, <1>2, <1>3, <1>6, <1>inv, StateTaken DEF PageNews
  <2>5. PageType'
    BY Zenon, <2>0, <2>2, <2>3, <1>inv DEF PageType, PgFrame
  <2> QED BY Zenon, <2>1, <2>2, <2>4, <2>5 DEF PageInv, PageBooks
<1> QED BY Zenon, <1>1, <1>2, <1>4, <1>5, <1>6 DEF OnMessage

\* A document that has just begun to dial.
LEMMA InitPage == PageInit => PageInv
<1> SUFFICES ASSUME PageInit PROVE PageInv
  BY Zenon
<1>1. /\ pgPhase = "dialing" /\ pgNextId = 1 /\ pgPending = NoCalls
      /\ pgCall = [c \in PgCalls |-> [at |-> "free", got |-> Nothing]]
      /\ pgHandlers = {} /\ pgSeen = [h \in PgSubscribers |-> Nothing] /\ pgWatching = {}
      /\ pgHost = NoClient /\ pgFrames = <<>> /\ pgShown = pgBody /\ pgState = 0
  BY Zenon DEF PageInit, NewPage
<1>2. DOMAIN pgPending = {} /\ pgPending = [i \in DOMAIN pgPending |-> pgPending[i]]
  BY Zenon, <1>1 DEF NoCalls
<1>3. pgHost \in PgClient /\ pgHost.asked = {}
  BY Zenon, <1>1 DEF NoClient, PgClient
<1>4. PageType
  BY <1>1, <1>3 DEF PageType, PgClient, Subjects
<1>5. PageEntries /\ PageRightReply
  BY Zenon, <1>1, <1>2 DEF PageEntries, PageRightReply
<1>6. PageAsked /\ Down
  BY SMTT(20), <1>1, <1>2, <1>3 DEF PageAsked, Down
<1>7. PageHostAgrees /\ BodyComes /\ StateComes /\ ToldOpen
  BY Zenon, <1>1 DEF PageHostAgrees, BodyComes, StateComes, ToldOpen
<1> QED BY Zenon, <1>4, <1>5, <1>6, <1>7 DEF PageInv

\* Every step of the page or its host keeps the invariant.
LEMMA NextPage == PageInv /\ [PageNext]_pageVars => PageInv'
<1> SUFFICES ASSUME PageInv, [PageNext]_pageVars PROVE PageInv'
  BY Zenon
<1>1. CASE PageOpens \/ PageCloses \/ PageRedials
  BY Zenon, <1>1, PageOpensStep, PageClosesStep, PageRedialsStep
<1>2. CASE OnMessage
  BY Zenon, <1>2, OnMessageStep
<1>3. CASE HostAnswersAny \/ BodyChanges \/ StateChanges
  BY Zenon, <1>3, HostAnswersStep, BodyChangesStep, StateChangesStep DEF HostAnswersAny
<1>4. CASE \E c \in PgCalls : PageCalls(c)
  BY Zenon, <1>4, PageCallsStep
<1>5. CASE \E s \in PgSources : PageWatches(s) \/ PageUnwatches(s)
  BY Zenon, <1>5, PageWatchesStep
<1>6. CASE \E h \in PgSubscribers : PageSubscribes(h) \/ PageUnsubscribes(h)
  BY Zenon, <1>6, PageSubscribesStep, PageUnsubscribesStep
<1>7. CASE UNCHANGED pageVars
  <2>0. UNCHANGED <<pgPhase, pgTold, pgNextId, pgPending, pgCall, pgHandlers, pgSeen, pgWatching,
                    pgHost, pgFrames, pgShown, pgBody, pgState, pgMissed>>
    BY Zenon, <1>7 DEF pageVars
  <2>1. PageType'
    BY Zenon, <2>0 DEF PageInv, PageType
  <2>2. PageBooks'
    BY Zenon, <2>0, PageParts, PageBooksKept
  <2>3. PageAsked' /\ Down' /\ PageHostAgrees' /\ BodyComes' /\ ToldOpen'
    BY ZenonT(30), <2>0 DEF PageInv, PageAsked, Match, Down, PageHostAgrees, BodyComes, ToldOpen
  <2>4. StateComes'
    BY ZenonT(30), <2>0 DEF PageInv, StateComes, IsState
  <2> QED BY Zenon, <2>1, <2>2, <2>3, <2>4 DEF PageInv, PageBooks
<1> QED BY Zenon, <1>1, <1>2, <1>3, <1>4, <1>5, <1>6, <1>7 DEF PageNext

\* The invariant of a page's client holds in every state, over drops, redials and reloads.
THEOREM PageInvariant == PageSpec => []PageInv
  BY InitPage, NextPage, PTL DEF PageSpec

\* It says what the runs check.
LEMMA PagePromises == PageInv => PageRightReply /\ PagePendingExact /\ PageHostAgrees /\ PageCurrent
<1> SUFFICES ASSUME PageInv PROVE PagePendingExact /\ PageCurrent
  BY Zenon DEF PageInv
<1>1. \A c \in PgCalls : pgCall[c].at = "sent" => c \in {pgPending[i] : i \in DOMAIN pgPending}
  BY DEF PageInv, PageEntries
<1>2. \A i \in DOMAIN pgPending : pgPending[i] \in {c \in PgCalls : pgCall[c].at = "sent"}
  BY Zenon DEF PageInv, PageEntries
<1>3. {c \in PgCalls : pgCall[c].at = "sent"} = {pgPending[i] : i \in DOMAIN pgPending}
  BY Zenon, <1>1, <1>2
<1>4. /\ \A i, j \in DOMAIN pgPending : pgPending[i] = pgPending[j] => i = j
      /\ DOMAIN pgPending # {} => pgPhase = "open"
  BY Zenon DEF PageInv, PageEntries, Down
<1>5. PagePendingExact
  BY Zenon, <1>3, <1>4 DEF PagePendingExact
<1>6. PageCurrent
  <2> SUFFICES ASSUME pgPhase = "open", pgFrames = <<>>
               PROVE  /\ pgMissed \/ pgShown = pgBody
                      /\ \A h \in pgHandlers : pgSeen[h] \in {Nothing, pgState}
                      /\ pgTold = "connected"
    BY Zenon DEF PageCurrent
  <2>1. DOMAIN pgFrames = {}
    OBVIOUS
  <2> QED BY ZenonT(30), <2>1 DEF PageInv, BodyComes, StateComes, ToldOpen
<1> QED BY Zenon, <1>5, <1>6

\* A page that has read all its frames shows the present body, unless a change met no open
\* socket, and its handlers have the present state (transport.js:174-205, :346-348).
THEOREM PageStaysCurrent == PageSpec => []PageCurrent
  BY PageInvariant, PagePromises, PTL

-----------------------------------------------------------------------------
\* The client of the browser kernel.


Phases == {"unused", "dialing", "open", "backoff", "closing", "closed"}
CallStates == {"free", "parked", "woken", "sent", "answered", "failed", "stranded"}

\* The variables that no entry of a pending map depends on have their types.
ClientType ==
  /\ conns \in [Endpoint -> Conn \cup {None}]
  /\ phase \in [Conn -> Phases]
  /\ nextId \in [Conn -> Nat]
  /\ call \in [Call -> [at : CallStates, on : Conn \cup {None}, got : Call \cup {None}]]
  /\ host \in [Conn -> [subs : Nat, asked : SUBSET [id : Nat, of : Call]]]

\* Every pending map goes from ids given out before to calls.
PendingType ==
  /\ pending = [o \in Conn |-> pending[o]]
  /\ \A o \in Conn :
       /\ pending[o] = [i \in DOMAIN pending[o] |-> pending[o][i]]
       /\ \A i \in DOMAIN pending[o] : i \in Nat /\ i < nextId[o] /\ pending[o][i] \in Call

\* An entry is a call that waits on this Conn, and no other entry has it; every call
\* that waits has an entry; a Conn that is not up has none.
Entries ==
  /\ \A o \in Conn : \A i \in DOMAIN pending[o] :
       /\ call[pending[o][i]].at = "sent" /\ call[pending[o][i]].on = o
       /\ \A j \in DOMAIN pending[o] : pending[o][i] = pending[o][j] => i = j
       /\ phase[o] \in {"open", "closing"}
  /\ \A c \in Call : call[c].at = "sent" =>
       \E i \in DOMAIN pending[call[c].on] : pending[call[c].on][i] = c

\* A call that has begun is bound to a Conn.
Bound == \A c \in Call : call[c].at \in {"parked", "woken", "sent"} => call[c].on \in Conn

\* What the host has been asked on a connection is what the pending map says of that
\* id, and no later id equals it.
Asked ==
  \A o \in Conn : \A q \in host[o].asked :
    /\ q.id < nextId[o]
    /\ q.id \in DOMAIN pending[o] => pending[o][q.id] = q.of

\* A subscriber has brought up the control Conn, and that one stays.
ControlUp == handlers # {} => conns[Control] # None

ClientInv ==
  /\ ClientType /\ PendingType /\ Entries /\ Bound /\ Asked
  /\ RightReply /\ HostAgrees /\ ControlUp

-----------------------------------------------------------------------------
\* The client of the browser kernel: facts that its steps share.

\* None is no connection.
LEMMA NoneIsNoConn == None \notin Conn
  BY ClientConstants DEF Conn

\* What the books say about calls, pending maps and requests.
Books == PendingType /\ Entries /\ Bound /\ Asked /\ RightReply
Hosts == HostAgrees /\ ControlUp

\* The invariant in three parts, kept by different lemmas.
LEMMA ClientParts == ClientInv <=> ClientType /\ Books /\ Hosts
  BY Zenon DEF ClientInv, Books, Hosts

\* Moving the calls of a Conn touches nothing but their state.
LEMMA MovedIs ==
  ASSUME ClientType, NEW o \in Conn, NEW from, NEW to \in CallStates,
         call' = Moved(o, from, to)
  PROVE  /\ call' \in [Call -> [at : CallStates, on : Conn \cup {None}, got : Call \cup {None}]]
         /\ \A c \in Call :
              /\ call'[c].on = call[c].on /\ call'[c].got = call[c].got
              /\ call'[c].at = IF call[c].on = o /\ call[c].at \in from THEN to ELSE call[c].at
<1>1. ASSUME NEW c \in Call
      PROVE  /\ call'[c] \in [at : CallStates, on : Conn \cup {None}, got : Call \cup {None}]
             /\ call'[c].on = call[c].on /\ call'[c].got = call[c].got
             /\ call'[c].at = IF call[c].on = o /\ call[c].at \in from THEN to ELSE call[c].at
  <2>1. call[c] \in [at : CallStates, on : Conn \cup {None}, got : Call \cup {None}]
    BY Zenon DEF ClientType
  <2>2. call'[c] = IF call[c].on = o /\ call[c].at \in from
                   THEN [call[c] EXCEPT !.at = to] ELSE call[c]
    BY Zenon DEF Moved
  <2> QED BY Zenon, <2>1, <2>2
<1>2. call' = [c \in Call |-> call'[c]]
  BY Zenon DEF Moved
<1> QED BY Zenon, <1>1, <1>2

\* A step that leaves the pending maps alone keeps the books, if the calls that wait and
\* the ones answered are the same, and no Conn that is up goes down.
LEMMA BooksKept ==
  ASSUME Books, UNCHANGED <<pending, nextId>>,
         \A c \in Call : /\ call'[c].at = "sent" <=> call[c].at = "sent"
                         /\ call[c].at = "sent" => call'[c].on = call[c].on
                         /\ call'[c].at = "answered" => call[c].at = "answered"
                         /\ call'[c].got = call[c].got
                         /\ call'[c].at \in {"parked", "woken"} => call'[c].on \in Conn,
         \A o \in Conn : phase[o] \in {"open", "closing"} => phase'[o] \in {"open", "closing"},
         \A o \in Conn : host'[o].asked \subseteq host[o].asked
  PROVE  Books'
<1>1. PendingType'
  BY Zenon DEF Books, PendingType
<1>2. \A o \in Conn : \A i \in DOMAIN pending[o] : pending[o][i] \in Call
  BY Zenon DEF Books, PendingType
<1>3. Entries'
  BY <1>2 DEF Books, Entries
<1>4. Bound'
  BY Zenon DEF Books, Bound
<1>5. Asked' /\ RightReply'
  BY Zenon DEF Books, Asked, RightReply
<1> QED BY Zenon, <1>1, <1>3, <1>4, <1>5 DEF Books

\* rejectAll leaves no entry and no waiting call on the Conn.
LEMMA BooksRejected ==
  ASSUME ClientType, Books, NEW o \in Conn, RejectAll(o), nextId' = nextId,
         \A p \in Conn \ {o} : phase'[p] = phase[p],
         \A p \in Conn : host'[p].asked \subseteq host[p].asked
  PROVE  /\ Books'
         /\ call' \in [Call -> [at : CallStates, on : Conn \cup {None}, got : Call \cup {None}]]
<1>0. "failed" \in CallStates
  BY Zenon DEF CallStates
<1>1. /\ call' \in [Call -> [at : CallStates, on : Conn \cup {None}, got : Call \cup {None}]]
      /\ \A c \in Call :
           /\ call'[c].on = call[c].on /\ call'[c].got = call[c].got
           /\ call'[c].at = IF call[c].on = o /\ call[c].at \in {"sent"} THEN "failed"
                            ELSE call[c].at
  BY <1>0, MovedIs DEF RejectAll
<1>2. /\ pending' = [p \in Conn |-> IF p = o THEN NoMap ELSE pending[p]]
      /\ DOMAIN NoMap = {}
  BY Zenon DEF RejectAll, Books, PendingType, NoMap
<1>3. PendingType'
  BY ZenonT(30), <1>2 DEF Books, PendingType, NoMap
<1>4. \A p \in Conn : pending'[p] = IF p = o THEN NoMap ELSE pending[p]
  BY Zenon, <1>2
<1>5. Entries'
  <2>1. ASSUME NEW p \in Conn, NEW i \in DOMAIN pending'[p]
        PROVE  /\ call'[pending'[p][i]].at = "sent" /\ call'[pending'[p][i]].on = p
               /\ \A j \in DOMAIN pending'[p] : pending'[p][i] = pending'[p][j] => i = j
               /\ phase'[p] \in {"open", "closing"}
    <3>1. p # o /\ pending'[p] = pending[p] /\ pending[p][i] \in Call
      BY Zenon, <1>2, <1>4 DEF Books, PendingType
    <3> QED BY <3>1, <1>1 DEF Books, Entries
  <2>2. ASSUME NEW c \in Call, call'[c].at = "sent"
        PROVE  \E i \in DOMAIN pending'[call'[c].on] : pending'[call'[c].on][i] = c
    <3>1. call[c].at = "sent" /\ call[c].on # o /\ call'[c].on = call[c].on
      BY Zenon, <2>2, <1>1
    <3>2. call[c].on \in Conn
      BY Zenon, <3>1 DEF Books, Bound
    <3> QED BY <3>1, <3>2, <1>4 DEF Books, Entries
  <2> QED BY Zenon, <2>1, <2>2 DEF Entries
<1>6. Bound'
  BY Zenon, <1>1 DEF Books, Bound
<1>7. Asked'
  BY Zenon, <1>2, <1>4 DEF Books, Asked
<1>8. RightReply'
  BY Zenon, <1>1 DEF Books, RightReply
<1> QED BY Zenon, <1>1, <1>3, <1>5, <1>6, <1>7, <1>8 DEF Books

-----------------------------------------------------------------------------
\* The client of the browser kernel: its steps.

\* connFor finds the Conn of the endpoint or dials an unused one.
LEMMA ConnForIs ==
  ASSUME ClientType, NEW e \in Endpoint, NEW o \in Conn, ConnFor(e, o)
  PROVE  /\ conns' \in [Endpoint -> Conn \cup {None}] /\ phase' \in [Conn -> Phases]
         /\ conns'[e] = o
         /\ \A p \in Conn : \/ phase'[p] = phase[p]
                            \/ phase[p] = "unused" /\ phase'[p] = "dialing"
         /\ \/ conns'[Control] = conns[Control]
            \/ conns[Control] = None /\ conns'[Control] \in Conn /\ phase[conns'[Control]] = "unused"
<1> USE ClientConstants DEF Phases
<1>1. CASE o = conns[e] /\ UNCHANGED <<conns, phase>>
  BY Zenon, <1>1 DEF ClientType
<1>2. CASE conns[e] = None /\ Dialled(e, o)
  BY Zenon, <1>2 DEF ClientType, Dialled
<1> QED BY Zenon, <1>1, <1>2 DEF ConnFor

\* A Conn that is dialled holds nothing yet.
LEMMA DialKeeps ==
  ASSUME ClientInv, NEW e \in Endpoint, NEW o \in Conn, ConnFor(e, o), handlers' = handlers,
         UNCHANGED host
  PROVE  Hosts'
<1>1. ClientType /\ HostAgrees /\ ControlUp
  BY Zenon DEF ClientInv
<1>2. /\ \A p \in Conn : phase'[p] = "open" => phase[p] = "open"
      /\ \A p \in Conn : phase[p] = "open" => (p = conns'[Control] <=> p = conns[Control])
      /\ conns[Control] # None => conns'[Control] # None
  BY <1>1, ConnForIs, NoneIsNoConn DEF Phases
<1> QED BY Zenon, <1>1, <1>2 DEF Hosts, HostAgrees, ControlUp

\* watch_remote: a dial, where the endpoint has no socket yet.
LEMMA WatchRemoteStep ==
  ASSUME ClientInv, NEW e \in Endpoint, WatchRemote(e)
  PROVE  ClientInv'
<1>inv. ClientType /\ Books /\ Hosts
  BY Zenon, ClientParts
<1>1. PICK o \in Conn : ConnFor(e, o)
  BY Zenon DEF WatchRemote
<1>2. UNCHANGED <<nextId, pending, call, handlers, host>>
  BY Zenon DEF WatchRemote
<1>3. ClientType'
  BY Zenon, <1>1, <1>2, <1>inv, ConnForIs DEF ClientType
<1>4. Hosts'
  BY Zenon, <1>1, <1>2, DialKeeps
<1>5. \A p \in Conn : phase[p] \in {"open", "closing"} => phase'[p] \in {"open", "closing"}
  BY Zenon, <1>1, <1>inv, ConnForIs
<1>6. \A c \in Call : call[c].at \in {"parked", "woken"} => call[c].on \in Conn
  BY Zenon, <1>inv DEF Books, Bound
<1>7. Books'
  BY Zenon, <1>2, <1>5, <1>6, <1>inv, BooksKept
<1> QED BY Zenon, <1>3, <1>4, <1>7 DEF ClientInv, Books, Hosts

\* onopen: what is replayed is what is wanted.
LEMMA OpenStep ==
  ASSUME ClientInv, NEW o \in Conn, Open(o)
  PROVE  ClientInv'
<1>inv. ClientType /\ Books /\ Hosts
  BY Zenon, ClientParts
<1>0. /\ phase[o] = "dialing" /\ phase' = [phase EXCEPT ![o] = "open"]
      /\ host' = [host EXCEPT ![o] = Replayed(o)]
      /\ call' = Moved(o, {"parked"}, "woken")
      /\ UNCHANGED <<conns, nextId, pending, handlers>>
  BY Zenon DEF Open
<1>1. /\ call' \in [Call -> [at : CallStates, on : Conn \cup {None}, got : Call \cup {None}]]
      /\ \A c \in Call :
           /\ call'[c].on = call[c].on /\ call'[c].got = call[c].got
           /\ call'[c].at = IF call[c].on = o /\ call[c].at \in {"parked"} THEN "woken"
                            ELSE call[c].at
  <2>1. "woken" \in CallStates
    BY Zenon DEF CallStates
  <2> QED BY <2>1, <1>0, <1>inv, MovedIs
<1>2. /\ Replayed(o) \in [subs : Nat, asked : SUBSET [id : Nat, of : Call]]
      /\ Replayed(o).subs = IF o = conns[Control] /\ handlers # {} THEN 1 ELSE 0
      /\ Replayed(o).asked = {}
  BY Zenon DEF Replayed
<1>3. /\ \A p \in Conn : phase'[p] = IF p = o THEN "open" ELSE phase[p]
      /\ \A p \in Conn : host'[p] = IF p = o THEN Replayed(o) ELSE host[p]
  BY Zenon, <1>0, <1>inv DEF ClientType
<1>4. ClientType'
  BY Zenon, <1>0, <1>1, <1>2, <1>inv DEF ClientType, Phases
<1>5. Hosts'
  BY SMTT(20), <1>0, <1>2, <1>3, <1>inv DEF Hosts, HostAgrees, ControlUp
<1>6. Books'
  <2>1. \A p \in Conn : host'[p].asked \subseteq host[p].asked
    BY Zenon, <1>2, <1>3
  <2>2. \A c \in Call : call'[c].at \in {"parked", "woken"} => call'[c].on \in Conn
    BY Zenon, <1>1, <1>inv DEF Books, Bound
  <2>3. \A p \in Conn : phase[p] \in {"open", "closing"} => phase'[p] \in {"open", "closing"}
    BY Zenon, <1>3
  <2>4. \A c \in Call : /\ call'[c].at = "sent" <=> call[c].at = "sent"
                        /\ call[c].at = "sent" => call'[c].on = call[c].on
                        /\ call'[c].at = "answered" => call[c].at = "answered"
                        /\ call'[c].got = call[c].got
    BY Zenon, <1>1
  <2> QED BY Zenon, <2>1, <2>2, <2>3, <2>4, <1>0, <1>inv, BooksKept
<1> QED BY Zenon, <1>4, <1>5, <1>6 DEF ClientInv, Books, Hosts

\* onclose of an open socket, unwatchRemote of one, and the onclose that follows: the
\* waiting calls are rejected.
LEMMA DropStep ==
  ASSUME ClientInv, NEW o \in Conn,
         Drop(o) \/ CloseEvent(o) \/ (\E e \in Endpoint : o = conns[e] /\ UnwatchOpen(e))
  PROVE  ClientInv'
<1>inv. ClientType /\ Books /\ Hosts
  BY Zenon, ClientParts
<1>0. /\ \E ph \in {"backoff", "closed", "closing"} : phase' = [phase EXCEPT ![o] = ph]
      /\ RejectAll(o) /\ UNCHANGED <<nextId, handlers>>
      /\ host' = [host EXCEPT ![o] = Nobody] \/ host' = host
  BY Zenon DEF Drop, CloseEvent, UnwatchOpen
<1>1. conns' \in [Endpoint -> Conn \cup {None}] /\ conns'[Control] = conns[Control]
  BY Zenon, ClientConstants, <1>inv DEF Drop, CloseEvent, UnwatchOpen, ClientType
<1>2. /\ \A p \in Conn : p # o => phase'[p] = phase[p] /\ host'[p] = host[p]
      /\ phase'[o] \in {"backoff", "closed", "closing"}
      /\ phase' \in [Conn -> Phases]
  BY Zenon, <1>0, <1>inv DEF ClientType, Phases
<1>3. /\ Nobody \in [subs : Nat, asked : SUBSET [id : Nat, of : Call]] /\ Nobody.asked = {}
      /\ host'[o] = Nobody \/ host'[o] = host[o]
  BY ZenonT(30), <1>0, <1>inv DEF Nobody, ClientType
<1>4. host' \in [Conn -> [subs : Nat, asked : SUBSET [id : Nat, of : Call]]]
  BY Zenon, <1>0, <1>3, <1>inv DEF ClientType
<1>5. /\ Books'
      /\ call' \in [Call -> [at : CallStates, on : Conn \cup {None}, got : Call \cup {None}]]
  <2>1. \A p \in Conn : host'[p].asked \subseteq host[p].asked
    BY Zenon, <1>2, <1>3
  <2> QED BY Zenon, <2>1, <1>0, <1>2, <1>inv, BooksRejected
<1>6. ClientType'
  BY Zenon, <1>0, <1>1, <1>2, <1>4, <1>5, <1>inv DEF ClientType
<1>7. Hosts'
  BY <1>0, <1>1, <1>2, <1>inv DEF Hosts, HostAgrees, ControlUp
<1> QED BY Zenon, <1>5, <1>6, <1>7 DEF ClientInv, Books, Hosts

\* A dial that fails, the timer of the next, and unwatchRemote before the socket is
\* open: no call waits on such a Conn.
LEMMA UnopenedStep ==
  ASSUME ClientInv, NEW o \in Conn,
         DialFails(o) \/ Redial(o) \/ (\E e \in Endpoint : o = conns[e] /\ UnwatchUnopened(e))
  PROVE  ClientInv'
<1>inv. ClientType /\ Books /\ Hosts
  BY Zenon, ClientParts
<1>0. /\ \E ph \in {"backoff", "closed", "dialing"} : phase' = [phase EXCEPT ![o] = ph]
      /\ phase[o] \in {"dialing", "backoff"}
      /\ UNCHANGED <<nextId, pending, handlers, host>>
      /\ call' = call \/ call' = Moved(o, {"parked"}, "stranded")
  BY Zenon DEF DialFails, Redial, UnwatchUnopened
<1>1. conns' \in [Endpoint -> Conn \cup {None}] /\ conns'[Control] = conns[Control]
  BY Zenon, ClientConstants, <1>inv DEF DialFails, Redial, UnwatchUnopened, ClientType
<1>2. /\ \A p \in Conn : p # o => phase'[p] = phase[p]
      /\ phase'[o] \in {"backoff", "closed", "dialing"}
      /\ phase' \in [Conn -> Phases]
  BY SMTT(20), <1>0, <1>inv DEF ClientType, Phases
<1>3. /\ call' \in [Call -> [at : CallStates, on : Conn \cup {None}, got : Call \cup {None}]]
      /\ \A c \in Call :
           /\ call'[c].on = call[c].on /\ call'[c].got = call[c].got
           /\ call'[c].at = call[c].at \/ (call'[c].at = "stranded" /\ call[c].at = "parked")
  <2>1. "stranded" \in CallStates
    BY Zenon DEF CallStates
  <2>2. CASE call' = call
    <3>1. call' \in [Call -> [at : CallStates, on : Conn \cup {None}, got : Call \cup {None}]]
      BY Zenon, <2>2, <1>inv DEF ClientType
    <3> QED BY <3>1, <2>2, Zenon
  <2>3. CASE call' = Moved(o, {"parked"}, "stranded")
    <3>1. /\ call' \in [Call -> [at : CallStates, on : Conn \cup {None}, got : Call \cup {None}]]
          /\ \A c \in Call :
               /\ call'[c].on = call[c].on /\ call'[c].got = call[c].got
               /\ call'[c].at = IF call[c].on = o /\ call[c].at \in {"parked"}
                                THEN "stranded" ELSE call[c].at
      BY SMTT(20), <2>1, <2>3, <1>inv, MovedIs
    <3> QED BY Zenon, <3>1
  <2> QED BY Zenon, <2>2, <2>3, <1>0
<1>4. ClientType'
  BY Zenon, <1>0, <1>1, <1>2, <1>3, <1>inv DEF ClientType
<1>5. Hosts'
  BY Zenon, <1>0, <1>1, <1>2, <1>inv DEF Hosts, HostAgrees, ControlUp
<1>6. Books'
  <2>1. \A c \in Call : call'[c].at \in {"parked", "woken"} => call'[c].on \in Conn
    BY <1>3, <1>inv DEF Books, Bound
  <2>2. \A p \in Conn : phase[p] \in {"open", "closing"} => phase'[p] \in {"open", "closing"}
    BY Zenon, <1>0, <1>2
  <2>3. \A c \in Call : /\ call'[c].at = "sent" <=> call[c].at = "sent"
                        /\ call[c].at = "sent" => call'[c].on = call[c].on
                        /\ call'[c].at = "answered" => call[c].at = "answered"
                        /\ call'[c].got = call[c].got
    BY Zenon, <1>3
  <2> QED BY Zenon, <2>1, <2>2, <2>3, <1>0, <1>inv, BooksKept
<1> QED BY Zenon, <1>4, <1>5, <1>6 DEF ClientInv, Books, Hosts

\* forward: the call waits for `ready`, or goes on at once.
LEMMA ForwardStep ==
  ASSUME ClientInv, NEW c \in Call, NEW e \in Endpoint, Forward(c, e)
  PROVE  ClientInv'
<1>inv. ClientType /\ Books /\ Hosts
  BY Zenon, ClientParts
<1>1. PICK o \in Conn :
        /\ IF conns[e] # None THEN ConnFor(e, o) ELSE ConnFor(Control, o)
        /\ call' = [call EXCEPT ![c].at = IF phase[o] = "open" THEN "woken" ELSE "parked",
                                 ![c].on = o]
  BY ZenonT(30) DEF Forward
<1>2. PICK d \in Endpoint : ConnFor(d, o)
  BY Zenon, <1>1, ClientConstants
<1>3. UNCHANGED <<nextId, pending, handlers, host>> /\ call[c].at = "free"
  BY Zenon DEF Forward
<1>4. PICK to \in {"woken", "parked"} : to = IF phase[o] = "open" THEN "woken" ELSE "parked"
  BY Zenon
<1>5. call' = [call EXCEPT ![c] = [call[c] EXCEPT !.at = to, !.on = o]]
  BY ZenonT(30), <1>1, <1>4, <1>inv DEF ClientType
<1>6. /\ call' \in [Call -> [at : CallStates, on : Conn \cup {None}, got : Call \cup {None}]]
      /\ \A x \in Call : x # c => call'[x] = call[x]
      /\ call'[c].at = to /\ call'[c].on = o /\ call'[c].got = call[c].got
  BY ZenonT(30), <1>5, <1>inv DEF ClientType, CallStates
<1>7. ClientType'
  BY Zenon, <1>2, <1>3, <1>6, <1>inv, ConnForIs DEF ClientType
<1>8. Hosts'
  BY Zenon, <1>2, <1>3, DialKeeps
<1>9. Books'
  <2>1. \A p \in Conn : phase[p] \in {"open", "closing"} => phase'[p] \in {"open", "closing"}
    BY Zenon, <1>2, <1>inv, ConnForIs
  <2>2. \A x \in Call : call'[x].at \in {"parked", "woken"} => call'[x].on \in Conn
    BY Zenon, <1>6, <1>inv DEF Books, Bound
  <2>3. \A x \in Call : /\ call'[x].at = "sent" <=> call[x].at = "sent"
                        /\ call[x].at = "sent" => call'[x].on = call[x].on
                        /\ call'[x].at = "answered" => call[x].at = "answered"
                        /\ call'[x].got = call[x].got
    BY Zenon, <1>3, <1>6
  <2> QED BY Zenon, <2>1, <2>2, <2>3, <1>3, <1>inv, BooksKept
<1> QED BY Zenon, <1>7, <1>8, <1>9 DEF ClientInv, Books, Hosts

\* Conn.call goes on, and the socket is up: the call gets an id of its own.
LEMMA SendsStep ==
  ASSUME ClientInv, NEW c \in Call, NEW o \in Conn, call[c].at = "woken", call[c].on = o,
         phase[o] \in {"open", "closing"}, Sends(c, o), UNCHANGED <<conns, phase, handlers>>
  PROVE  ClientInv'
<1>inv. ClientType /\ Books /\ Hosts
  BY Zenon, ClientParts
<1> DEFINE i == nextId[o]
           m == [j \in DOMAIN pending[o] \cup {i} |-> IF j = i THEN c ELSE pending[o][j]]
           q == [id |-> i, of |-> c]
<1>1. /\ nextId' = [nextId EXCEPT ![o] = i + 1]
      /\ pending' = [pending EXCEPT ![o] = m]
      /\ call' = [call EXCEPT ![c] = [call[c] EXCEPT !.at = "sent", !.on = o]]
  BY ZenonT(30), <1>inv DEF Sends, FreshId, ClientType
<1>2. host' = IF phase[o] = "open" THEN [host EXCEPT ![o] = [host[o] EXCEPT !.asked = @ \cup {q}]]
              ELSE host
  BY Zenon, <1>inv DEF Sends, FreshId, ClientType
<1>3. i \in Nat /\ i \notin DOMAIN pending[o] /\ DOMAIN m = DOMAIN pending[o] \cup {i}
      /\ q \in [id : Nat, of : Call] /\ q.id = i /\ q.of = c
  BY <1>inv DEF ClientType, Books, PendingType
<1>4. /\ \A p \in Conn : pending'[p] = IF p = o THEN m ELSE pending[p]
      /\ \A p \in Conn : nextId'[p] = IF p = o THEN i + 1 ELSE nextId[p]
      /\ pending' = [p \in Conn |-> pending'[p]]
      /\ nextId' \in [Conn -> Nat]
  <2> HIDE DEF m
  <2> QED BY SMTT(20), <1>1, <1>3, <1>inv DEF Books, PendingType, ClientType
<1>5. /\ call' \in [Call -> [at : CallStates, on : Conn \cup {None}, got : Call \cup {None}]]
      /\ \A x \in Call : x # c => call'[x] = call[x]
      /\ call'[c].at = "sent" /\ call'[c].on = o
  BY ZenonT(30), <1>1, <1>inv DEF ClientType, CallStates
<1>6. /\ host' \in [Conn -> [subs : Nat, asked : SUBSET [id : Nat, of : Call]]]
      /\ \A p \in Conn : /\ host'[p].subs = host[p].subs
                         /\ host'[p].asked \subseteq host[p].asked \cup {q}
                         /\ p # o => host'[p] = host[p]
  <2>0. host[o] \in [subs : Nat, asked : SUBSET [id : Nat, of : Call]]
    BY Zenon, <1>inv DEF ClientType
  <2> HIDE DEF q
  <2>1. PICK h : h = [host[o] EXCEPT !.asked = @ \cup {q}]
    BY ZenonT(30)
  <2>2. h \in [subs : Nat, asked : SUBSET [id : Nat, of : Call]] /\ h.subs = host[o].subs
        /\ h.asked = host[o].asked \cup {q}
    BY Zenon, <2>0, <2>1, <1>3
  <2>3. host' = [host EXCEPT ![o] = h] \/ host' = host
    BY Zenon, <2>1, <1>2
  <2> QED BY <2>2, <2>3, <1>inv DEF ClientType
<1>7. ClientType'
  BY Zenon, <1>4, <1>5, <1>6, <1>inv DEF ClientType
<1>8. Hosts'
  BY Zenon, <1>6, <1>inv DEF Hosts, HostAgrees, ControlUp
<1>9. \A j \in DOMAIN m : m[j] = IF j = i THEN c ELSE pending[o][j]
  BY Zenon, <1>3
<1>10. \A p \in Conn : \A j \in DOMAIN pending[p] : pending[p][j] \in Call /\ pending[p][j] # c
  BY SMTT(20), <1>inv DEF Books, Entries, PendingType
<1>11. m = [j \in DOMAIN m |-> m[j]]
  BY Zenon
<1> HIDE DEF m, i, q
<1>12. PendingType'
  <2>1. ASSUME NEW p \in Conn
        PROVE  /\ pending'[p] = [j \in DOMAIN pending'[p] |-> pending'[p][j]]
               /\ \A j \in DOMAIN pending'[p] :
                    j \in Nat /\ j < nextId'[p] /\ pending'[p][j] \in Call
    <3>1. CASE p # o
      BY SMTT(20), <3>1, <1>4, <1>inv DEF Books, PendingType
    <3>2. CASE p = o
      <4>1. \A j \in DOMAIN pending[o] : j \in Nat /\ j < i /\ pending[o][j] \in Call
        BY Zenon, <1>inv DEF Books, PendingType, i
      <4> QED BY <4>1, <3>2, <1>3, <1>4, <1>9, <1>11
    <3> QED BY Zenon, <3>1, <3>2
  <2> QED BY Zenon, <2>1, <1>4 DEF PendingType
<1>13. Entries'
  <2>1. ASSUME NEW p \in Conn, NEW j \in DOMAIN pending'[p]
        PROVE  /\ call'[pending'[p][j]].at = "sent" /\ call'[pending'[p][j]].on = p
               /\ \A k \in DOMAIN pending'[p] : pending'[p][j] = pending'[p][k] => j = k
               /\ phase'[p] \in {"open", "closing"}
    <3>1. CASE p # o
      BY SMTT(20), <3>1, <2>1, <1>4, <1>5, <1>10, <1>inv DEF Books, Entries
    <3>2. CASE p = o
      <4>1. pending'[p] = m /\ phase'[p] \in {"open", "closing"}
        BY Zenon, <3>2, <1>4
      <4>2. CASE j = i
        BY SMTT(20), <4>1, <4>2, <3>2, <1>3, <1>5, <1>9, <1>10
      <4>3. CASE j # i
        <5>1. j \in DOMAIN pending[o] /\ m[j] = pending[o][j]
          BY Zenon, <4>1, <4>3, <2>1, <1>3, <1>9
        <5> QED BY SMTT(20), <5>1, <4>1, <3>2, <1>3, <1>5, <1>9, <1>10, <1>inv DEF Books, Entries
      <4> QED BY Zenon, <4>2, <4>3
    <3> QED BY Zenon, <3>1, <3>2
  <2>2. ASSUME NEW x \in Call, call'[x].at = "sent"
        PROVE  \E j \in DOMAIN pending'[call'[x].on] : pending'[call'[x].on][j] = x
    <3>1. CASE x = c
      BY SMTT(20), <3>1, <1>3, <1>4, <1>5, <1>9
    <3>2. CASE x # c
      <4>1. call'[x] = call[x] /\ call[x].on \in Conn
        BY ZenonT(30), <3>2, <2>2, <1>5, <1>inv DEF Books, Bound
      <4>2. PICK j \in DOMAIN pending[call[x].on] : pending[call[x].on][j] = x
        BY SMTT(20), <4>1, <2>2, <1>inv DEF Books, Entries
      <4>3. j \in DOMAIN pending'[call[x].on] /\ pending'[call[x].on][j] = x
        BY SMTT(20), <4>1, <4>2, <1>3, <1>4, <1>9
      <4> QED BY Zenon, <4>1, <4>3
    <3> QED BY Zenon, <3>1, <3>2
  <2> QED BY Zenon, <2>1, <2>2 DEF Entries
<1>14. Bound' /\ RightReply'
  BY Zenon, <1>5, <1>inv DEF Books, Bound, RightReply
<1>15. Asked'
  <2> SUFFICES ASSUME NEW p \in Conn, NEW r \in host'[p].asked
               PROVE  /\ r.id < nextId'[p]
                      /\ r.id \in DOMAIN pending'[p] => pending'[p][r.id] = r.of
    BY Zenon DEF Asked
  <2>1. CASE p # o
    BY SMTT(20), <2>1, <1>4, <1>6, <1>inv DEF Books, Asked
  <2>2. CASE p = o /\ r = q
    BY SMTT(20), <2>2, <1>3, <1>4, <1>9
  <2>3. CASE p = o /\ r # q
    <3>1. r \in host[o].asked /\ r.id \in Nat /\ r.id < i
          /\ (r.id \in DOMAIN pending[o] => pending[o][r.id] = r.of)
      BY <2>3, <1>6, <1>inv DEF Books, Asked, ClientType, i
    <3> QED BY SMTT(20), <3>1, <2>3, <1>3, <1>4, <1>9
  <2> QED BY Zenon, <2>1, <2>2, <2>3
<1> QED BY Zenon, <1>7, <1>8, <1>12, <1>13, <1>14, <1>15 DEF ClientInv, Hosts

\* The rest of Conn.call: it sends, or finds the socket down and fails.
LEMMA ProceedStep ==
  ASSUME ClientInv, NEW c \in Call, Proceed(c)
  PROVE  ClientInv'
<1>inv. ClientType /\ Books /\ Hosts
  BY Zenon, ClientParts
<1>1. PICK o \in Conn : o = call[c].on
  BY Zenon, <1>inv DEF Proceed, Books, Bound
<1>2. call[c].at = "woken" /\ UNCHANGED <<conns, phase, handlers>>
  BY Zenon DEF Proceed
<1>3. CASE phase[o] \in {"open", "closing"} /\ Sends(c, o)
  BY Zenon, <1>1, <1>2, <1>3, SendsStep
<1>4. CASE call' = [call EXCEPT ![c].at = "failed"] /\ UNCHANGED <<nextId, pending, host>>
  <2>1. /\ call' \in [Call -> [at : CallStates, on : Conn \cup {None}, got : Call \cup {None}]]
        /\ \A x \in Call : x # c => call'[x] = call[x]
        /\ call'[c].at = "failed" /\ call'[c].on = call[c].on /\ call'[c].got = call[c].got
    BY ZenonT(30), <1>4, <1>inv DEF ClientType, CallStates
  <2>2. ClientType'
    BY Zenon, <2>1, <1>2, <1>4, <1>inv DEF ClientType
  <2>3. Hosts'
    BY Zenon, <1>2, <1>4, <1>inv DEF Hosts, HostAgrees, ControlUp
  <2>4. \A x \in Call : /\ call'[x].at = "sent" <=> call[x].at = "sent"
                        /\ call[x].at = "sent" => call'[x].on = call[x].on
                        /\ call'[x].at = "answered" => call[x].at = "answered"
                        /\ call'[x].got = call[x].got
    BY Zenon, <2>1, <1>2
  <2>5. \A x \in Call : call'[x].at \in {"parked", "woken"} => call'[x].on \in Conn
    BY Zenon, <2>1, <1>inv DEF Books, Bound
  <2>6. Books'
    BY Zenon, <2>4, <2>5, <1>2, <1>4, <1>inv, BooksKept
  <2> QED BY Zenon, <2>2, <2>3, <2>6 DEF ClientInv, Books, Hosts
<1> QED BY Zenon, <1>1, <1>3, <1>4 DEF Proceed

\* onMessage of an answer: what it names is what was asked.
LEMMA AnsweredStep ==
  ASSUME ClientInv, NEW o \in Conn, Answered(o)
  PROVE  ClientInv'
<1>inv. ClientType /\ Books /\ Hosts
  BY Zenon, ClientParts
<1>1. PICK q \in host[o].asked : Reply(o, q) \/ Error(o, q)
  BY Zenon DEF Answered
<1>2. PICK how \in {"answered", "failed"}, got \in {q.of, None} :
        Settles(o, q.id, how, got) /\ (how = "answered" => got = q.of)
  BY Zenon, <1>1 DEF Reply, Error
<1>3. /\ host' = [host EXCEPT ![o].asked = @ \ {q}] /\ UNCHANGED <<conns, phase, nextId, handlers>>
      /\ q.id \in Nat /\ q.of \in Call
  BY <1>1, <1>inv DEF Reply, Error, ClientType
<1>4. PICK i \in Nat : i = q.id
  BY Zenon, <1>3
<1> DEFINE m == [j \in DOMAIN pending[o] \ {i} |-> pending[o][j]]
<1>5. /\ \A p \in Conn : pending'[p] = IF p = o THEN m ELSE pending[p]
      /\ pending' = [p \in Conn |-> pending'[p]]
      /\ DOMAIN m = DOMAIN pending[o] \ {i} /\ m = [j \in DOMAIN m |-> m[j]]
      /\ \A j \in DOMAIN m : m[j] = pending[o][j]
  <2>1. pending' = [pending EXCEPT ![o] = m]
    BY Zenon, <1>2, <1>4 DEF Settles
  <2>2. DOMAIN m = DOMAIN pending[o] \ {i} /\ m = [j \in DOMAIN m |-> m[j]]
        /\ \A j \in DOMAIN m : m[j] = pending[o][j]
    BY Zenon
  <2> HIDE DEF m
  <2> QED BY Zenon, <2>1, <2>2, <1>inv DEF Books, PendingType
<1> HIDE DEF m
<1>6. /\ host' \in [Conn -> [subs : Nat, asked : SUBSET [id : Nat, of : Call]]]
      /\ \A p \in Conn : host'[p].subs = host[p].subs /\ host'[p].asked \subseteq host[p].asked
  BY <1>3, <1>inv DEF ClientType
<1>7. \A p \in Conn : \A j \in DOMAIN pending[p] : pending[p][j] \in Call
  BY Zenon, <1>inv DEF Books, PendingType
<1>8. /\ call' \in [Call -> [at : CallStates, on : Conn \cup {None}, got : Call \cup {None}]]
      /\ \A x \in Call : \/ call'[x] = call[x] /\ ~(i \in DOMAIN pending[o] /\ x = pending[o][i])
                         \/ /\ i \in DOMAIN pending[o] /\ x = pending[o][i]
                            /\ call'[x].at = how /\ call'[x].got = got
  <2>1. CASE i \notin DOMAIN pending[o]
    <3>1. call' = call
      BY Zenon, <2>1, <1>2, <1>4 DEF Settles
    <3> QED BY Zenon, <3>1, <2>1, <1>inv DEF ClientType
  <2>2. CASE i \in DOMAIN pending[o]
    <3>1. PICK c \in Call : c = pending[o][i]
      BY Zenon, <2>2, <1>7
    <3>2. call' = [call EXCEPT ![c].at = how, ![c].got = got]
      BY Zenon, <2>2, <3>1, <1>2, <1>4 DEF Settles
    <3>3. call' = [call EXCEPT ![c] = [call[c] EXCEPT !.at = how, !.got = got]]
      BY ZenonT(30), <3>2, <1>inv DEF ClientType
    <3>a. PICK r : r = [call[c] EXCEPT !.at = how, !.got = got]
      BY Zenon
    <3>b. call[c] \in [at : CallStates, on : Conn \cup {None}, got : Call \cup {None}]
          /\ how \in CallStates /\ got \in Call \cup {None}
      BY Zenon, <1>2, <1>3, <1>inv DEF ClientType, CallStates
    <3>c. r \in [at : CallStates, on : Conn \cup {None}, got : Call \cup {None}]
          /\ r.at = how /\ r.got = got
      BY ZenonT(30), <3>a, <3>b
    <3>4. /\ call' \in [Call -> [at : CallStates, on : Conn \cup {None}, got : Call \cup {None}]]
          /\ \A x \in Call : x # c => call'[x] = call[x]
          /\ call'[c].at = how /\ call'[c].got = got
      BY Zenon, <3>3, <3>a, <3>c, <1>inv DEF ClientType
    <3> QED BY Zenon, <3>1, <3>4, <2>2
  <2> QED BY Zenon, <2>1, <2>2
<1>9. ClientType'
  BY Zenon, <1>3, <1>6, <1>8, <1>inv DEF ClientType
<1>10. Hosts'
  BY Zenon, <1>3, <1>6, <1>inv DEF Hosts, HostAgrees, ControlUp
<1>11. PendingType'
  BY SMTT(20), <1>3, <1>5, <1>inv DEF Books, PendingType
<1>12. Entries'
  <2>1. ASSUME NEW p \in Conn, NEW j \in DOMAIN pending'[p]
        PROVE  /\ call'[pending'[p][j]].at = "sent" /\ call'[pending'[p][j]].on = p
               /\ \A k \in DOMAIN pending'[p] : pending'[p][j] = pending'[p][k] => j = k
               /\ phase'[p] \in {"open", "closing"}
    <3>1. /\ j \in DOMAIN pending[p] /\ pending'[p][j] = pending[p][j]
          /\ p = o => j # i
          /\ \A k \in DOMAIN pending'[p] : k \in DOMAIN pending[p] /\ pending'[p][k] = pending[p][k]
      BY Zenon, <2>1, <1>5
    <3>2. PICK x \in Call : x = pending[p][j]
      BY ZenonT(30), <3>1, <1>7
    <3>3. call[x].at = "sent" /\ call[x].on = p
      BY SMTT(20), <3>1, <3>2, <1>inv DEF Books, Entries
    <3>4. ~(i \in DOMAIN pending[o] /\ x = pending[o][i])
      BY SMTT(20), <3>1, <3>2, <3>3, <1>inv DEF Books, Entries
    <3>5. call'[x] = call[x]
      BY Zenon, <3>4, <1>8
    <3> QED BY SMTT(20), <3>1, <3>2, <3>3, <3>5, <1>3, <1>inv DEF Books, Entries
  <2>2. ASSUME NEW x \in Call, call'[x].at = "sent"
        PROVE  \E j \in DOMAIN pending'[call'[x].on] : pending'[call'[x].on][j] = x
    <3>1. call'[x] = call[x] /\ ~(i \in DOMAIN pending[o] /\ x = pending[o][i])
      BY Zenon, <2>2, <1>2, <1>8
    <3>2. call[x].on \in Conn
      BY Zenon, <3>1, <2>2, <1>inv DEF Books, Bound
    <3>3. PICK j \in DOMAIN pending[call[x].on] : pending[call[x].on][j] = x
      BY Zenon, <3>1, <2>2, <1>inv DEF Books, Entries
    <3>4. j \in DOMAIN pending'[call[x].on] /\ pending'[call[x].on][j] = x
      BY Zenon, <3>1, <3>2, <3>3, <1>5
    <3> QED BY Zenon, <3>1, <3>4
  <2> QED BY Zenon, <2>1, <2>2 DEF Entries
<1>13. Bound'
  BY Zenon, <1>2, <1>8, <1>inv DEF Books, Bound
<1>14. RightReply'
  <2>1. i \in DOMAIN pending[o] => pending[o][i] = q.of
    BY Zenon, <1>1, <1>4, <1>inv DEF Books, Asked
  <2> QED BY Zenon, <2>1, <1>2, <1>8, <1>inv DEF Books, RightReply
<1>15. Asked'
  BY <1>3, <1>5, <1>6, <1>inv DEF Books, Asked
<1> QED BY Zenon, <1>9, <1>10, <1>11, <1>12, <1>13, <1>14, <1>15 DEF ClientInv, Hosts

\* subscribeState: the first subscriber adds the one subscription, or finds the socket
\* down, and onopen will send it.
LEMMA SubscribeStep ==
  ASSUME ClientInv, NEW h \in Handler, SubscribeState(h)
  PROVE  ClientInv'
<1>inv. ClientType /\ Books /\ Hosts
  BY Zenon, ClientParts
<1> USE ClientConstants
<1>1. PICK o \in Conn : ConnFor(Control, o) /\ SetWantsState(o, TRUE)
  BY ZenonT(30) DEF SubscribeState
<1>2. handlers' = handlers \cup {h} /\ UNCHANGED <<nextId, pending, call>>
  BY Zenon DEF SubscribeState
<1>3. /\ conns' \in [Endpoint -> Conn \cup {None}] /\ phase' \in [Conn -> Phases]
      /\ conns'[Control] = o /\ conns[Control] \in {o, None}
      /\ \A p \in Conn : \/ phase'[p] = phase[p]
                         \/ phase[p] = "unused" /\ phase'[p] = "dialing"
  BY Zenon, <1>1, <1>inv, ConnForIs, NoneIsNoConn DEF ConnFor
<1>4. /\ host' \in [Conn -> [subs : Nat, asked : SUBSET [id : Nat, of : Call]]]
      /\ \A p \in Conn : host'[p].asked = host[p].asked /\ (p # o => host'[p].subs = host[p].subs)
      /\ host'[o].subs = IF handlers = {} /\ phase[o] = "open" THEN host[o].subs + 1
                         ELSE host[o].subs
  <2>1. host[o] \in [subs : Nat, asked : SUBSET [id : Nat, of : Call]]
    BY Zenon, <1>inv DEF ClientType
  <2>2. PICK g : g = [host[o] EXCEPT !.subs = @ + 1]
    BY ZenonT(30)
  <2>3. /\ g \in [subs : Nat, asked : SUBSET [id : Nat, of : Call]] /\ g.asked = host[o].asked
        /\ g.subs = host[o].subs + 1
    BY <2>1, <2>2
  <2>4. host' = IF handlers = {} /\ phase[o] = "open" THEN [host EXCEPT ![o] = g] ELSE host
    BY Zenon, <2>2, <1>1 DEF SetWantsState, Tells
  <2> QED BY Zenon, <2>3, <2>4, <1>inv DEF ClientType
<1>5. ClientType'
  BY Zenon, <1>2, <1>3, <1>4, <1>inv DEF ClientType
<1>6. ControlUp'
  BY Zenon, <1>3, NoneIsNoConn DEF ControlUp
<1>7. HostAgrees'
  <2> SUFFICES ASSUME NEW p \in Conn, phase'[p] = "open"
               PROVE  host'[p].subs = IF p = o THEN 1 ELSE 0
    BY Zenon, <1>2, <1>3 DEF HostAgrees
  <2>1. phase[p] = "open"
    BY Zenon, <1>3
  <2>2. host[p].subs = IF p = conns[Control] /\ handlers # {} THEN 1 ELSE 0
    BY Zenon, <2>1, <1>inv DEF Hosts, HostAgrees
  <2>3. handlers # {} => conns[Control] = o
    BY Zenon, <1>3, <1>inv DEF Hosts, ControlUp
  <2> QED BY SMTT(20), <2>1, <2>2, <2>3, <1>3, <1>4, NoneIsNoConn
<1>8. Books'
  <2>1. \A p \in Conn : phase[p] \in {"open", "closing"} => phase'[p] \in {"open", "closing"}
    BY Zenon, <1>3
  <2>2. \A x \in Call : call'[x].at \in {"parked", "woken"} => call'[x].on \in Conn
    BY Zenon, <1>2, <1>inv DEF Books, Bound
  <2> QED BY ZenonT(30), <2>1, <2>2, <1>2, <1>4, <1>inv, BooksKept
<1> QED BY Zenon, <1>5, <1>6, <1>7, <1>8 DEF ClientInv, Books

\* The last subscriber leaves: the host is told, or has nothing.
LEMMA UnsubscribeStep ==
  ASSUME ClientInv, NEW h \in Handler, UnsubscribeState(h)
  PROVE  ClientInv'
<1>inv. ClientType /\ Books /\ Hosts
  BY Zenon, ClientParts
<1> USE ClientConstants
<1>1. PICK o \in Conn : o = conns[Control]
  BY Zenon, <1>inv DEF UnsubscribeState, Hosts, ControlUp, ClientType
<1>2. /\ h \in handlers /\ handlers' = handlers \ {h}
      /\ UNCHANGED <<conns, phase, nextId, pending, call>>
  BY Zenon DEF UnsubscribeState
<1>3. /\ host' \in [Conn -> [subs : Nat, asked : SUBSET [id : Nat, of : Call]]]
      /\ \A p \in Conn : host'[p].asked = host[p].asked /\ (p # o => host'[p].subs = host[p].subs)
      /\ host'[o].subs = IF handlers = {h} /\ phase[o] = "open" THEN 0 ELSE host[o].subs
  <2>1. host[o] \in [subs : Nat, asked : SUBSET [id : Nat, of : Call]]
    BY Zenon, <1>inv DEF ClientType
  <2>2. PICK g : g = [host[o] EXCEPT !.subs = 0]
    BY ZenonT(30)
  <2>3. /\ g \in [subs : Nat, asked : SUBSET [id : Nat, of : Call]] /\ g.asked = host[o].asked
        /\ g.subs = 0
    BY Zenon, <2>1, <2>2
  <2>4. host' = IF handlers = {h} /\ phase[o] = "open" THEN [host EXCEPT ![o] = g] ELSE host
    BY Zenon, <2>2, <1>1, <1>2 DEF UnsubscribeState, SetWantsState, Tells
  <2> QED BY Zenon, <2>3, <2>4, <1>inv DEF ClientType
<1>4. ClientType'
  BY Zenon, <1>2, <1>3, <1>inv DEF ClientType
<1>5. Hosts'
  BY SMTT(20), <1>1, <1>2, <1>3, <1>inv, NoneIsNoConn DEF Hosts, HostAgrees, ControlUp
<1>6. Books'
  <2>1. \A x \in Call : call'[x].at \in {"parked", "woken"} => call'[x].on \in Conn
    BY Zenon, <1>2, <1>inv DEF Books, Bound
  <2> QED BY Zenon, <2>1, <1>2, <1>3, <1>inv, BooksKept
<1> QED BY Zenon, <1>4, <1>5, <1>6 DEF ClientInv, Books, Hosts

\* Nothing is connected, called or wanted at first.
LEMMA InitClient == Init => ClientInv
<1> SUFFICES ASSUME Init PROVE ClientInv
  BY Zenon
<1> USE ClientConstants
<1>1. DOMAIN NoMap = {} /\ NoMap = [i \in DOMAIN NoMap |-> NoMap[i]]
  BY Zenon DEF NoMap
<1>2. ClientType
  BY Zenon DEF Init, ClientType, Phases, CallStates, Free, Nobody
<1>3. PendingType /\ Entries /\ Asked
  BY Zenon, <1>1 DEF Init, PendingType, Entries, Asked, Free, Nobody
<1>4. Bound /\ RightReply /\ HostAgrees /\ ControlUp
  BY Zenon DEF Init, Bound, RightReply, HostAgrees, ControlUp, Free, Nobody
<1> QED BY Zenon, <1>2, <1>3, <1>4 DEF ClientInv

\* Every step of the client keeps the invariant.
LEMMA NextClient == ClientInv /\ [Next]_clientVars => ClientInv'
<1> SUFFICES ASSUME ClientInv, [Next]_clientVars PROVE ClientInv'
  BY Zenon
<1>1. ASSUME NEW e \in Endpoint, WatchRemote(e) \/ UnwatchOpen(e) \/ UnwatchUnopened(e)
      PROVE  ClientInv'
  <2>1. UnwatchOpen(e) \/ UnwatchUnopened(e) => conns[e] \in Conn
    BY Zenon DEF UnwatchOpen, UnwatchUnopened, ClientInv, ClientType
  <2> QED BY Zenon, <2>1, <1>1, WatchRemoteStep, DropStep, UnopenedStep
<1>2. ASSUME NEW o \in Conn, \/ Open(o) \/ Drop(o) \/ DialFails(o) \/ Redial(o) \/ CloseEvent(o)
                             \/ Answered(o)
      PROVE  ClientInv'
  BY Zenon, <1>2, OpenStep, DropStep, UnopenedStep, AnsweredStep
<1>3. ASSUME NEW c \in Call, Proceed(c) \/ \E e \in Endpoint : Forward(c, e) PROVE ClientInv'
  BY Zenon, <1>3, ProceedStep, ForwardStep
<1>4. ASSUME NEW h \in Handler, SubscribeState(h) \/ UnsubscribeState(h) PROVE ClientInv'
  BY Zenon, <1>4, SubscribeStep, UnsubscribeStep
<1>5. CASE UNCHANGED clientVars
  <2>1. UNCHANGED <<conns, phase, nextId, pending, call, handlers, host>>
    BY Zenon, <1>5 DEF clientVars
  <2>2. ClientType' /\ PendingType' /\ Entries'
    <3>1. ClientType' /\ PendingType'
      BY <2>1, Zenon DEF ClientInv, ClientType, PendingType
    <3>2. Entries
      BY Zenon DEF ClientInv
    <3>3. Entries'
      BY SMTT(20), <2>1, <3>2 DEF Entries
    <3> QED BY Zenon, <3>1, <3>3
  <2>3. Bound' /\ Asked' /\ RightReply' /\ HostAgrees' /\ ControlUp'
    BY Zenon, <2>1 DEF ClientInv, Bound, Asked, RightReply, HostAgrees, ControlUp
  <2> QED BY Zenon, <2>2, <2>3 DEF ClientInv
<1> QED
  BY Zenon, <1>1, <1>2, <1>3, <1>4, <1>5 DEF Next

\* The invariant of the kernel's client holds in every state.
THEOREM ClientInvariant == Spec => []ClientInv
  BY InitClient, NextClient, PTL DEF Spec

\* It says what the runs check.
LEMMA ClientPromises == ClientInv => RightReply /\ PendingExact /\ HostAgrees
<1> SUFFICES ASSUME ClientInv PROVE PendingExact
  BY Zenon DEF ClientInv
<1> SUFFICES ASSUME NEW o \in Conn
             PROVE  /\ Waiting(o) = {pending[o][i] : i \in DOMAIN pending[o]}
                    /\ \A i, j \in DOMAIN pending[o] : pending[o][i] = pending[o][j] => i = j
                    /\ DOMAIN pending[o] # {} => phase[o] \in {"open", "closing"}
  BY Zenon DEF PendingExact
<1>1. \A c \in Waiting(o) : c \in {pending[o][i] : i \in DOMAIN pending[o]}
  BY SMTT(20) DEF ClientInv, Entries, Waiting
<1>2. \A i \in DOMAIN pending[o] : pending[o][i] \in Waiting(o)
  BY Zenon DEF ClientInv, Entries, PendingType, Waiting
<1>3. /\ \A i, j \in DOMAIN pending[o] : pending[o][i] = pending[o][j] => i = j
      /\ DOMAIN pending[o] # {} => phase[o] \in {"open", "closing"}
  BY Zenon DEF ClientInv, Entries
<1> QED BY <1>1, <1>2, <1>3

-----------------------------------------------------------------------------
\* A call resolves with the answer to its own request, and exactly the calls that wait have
\* an entry: on every socket of the browser kernel and in a page, whatever is dropped,
\* redialled or reloaded in between (bridge.ts:137-193, transport.js:163-237).
THEOREM EveryCallExact == Spec /\ PageSpec => []CallsExact
<1>1. ClientInv /\ PageInv => CallsExact
  BY Zenon, ClientPromises, PagePromises DEF CallsExact, OwnReply, NoEntryLeft
<1> QED BY <1>1, ClientInvariant, PageInvariant, PTL

\* An open socket finds at the host exactly the subscriptions its client wants, the first
\* time and after every reconnect (bridge.ts:96-101, transport.js:174-185).
THEOREM HostAlwaysKnows == Spec /\ PageSpec => []HostKnows
<1>1. ClientInv /\ PageInv => HostKnows
  BY Zenon, ClientPromises, PagePromises DEF HostKnows
<1> QED BY <1>1, ClientInvariant, PageInvariant, PTL
=============================================================================
