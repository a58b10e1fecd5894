---------------------------- MODULE PanelProofs ----------------------------
(***************************************************************************)
(* Proofs about two components of the page that share no state: the canvas *)
(* as a stage (Stage) and the HTML panel (HtmlView).  Each has an          *)
(* inductive invariant of its own, and the property the runs check follows *)
(* from it.                                                                *)
(***************************************************************************)
EXTENDS HtmlView, Stage, TLAPS

-----------------------------------------------------------------------------
\* The stage.

\* The inductive invariant of the stage: what is drawn, and a zoom and a target that stay
\* between the limits.
StageInv ==
  /\ StageLocked
  /\ DOMAIN gesture = Gestures
  /\ zoom \in ZoomMin..ZoomMax /\ targetZ \in ZoomMin..ZoomMax

\* A frame of the zoom ends nearer to the target, and not beyond it.
LEMMA NextZoomNears ==
  ASSUME NEW z \in Nat, NEW t \in Nat, z # t
  PROVE  /\ NextZoom(z, t) \in Nat
         /\ Distance(NextZoom(z, t), t) < Distance(z, t)
         /\ z < t => z <= NextZoom(z, t) /\ NextZoom(z, t) <= t
         /\ t < z => t <= NextZoom(z, t) /\ NextZoom(z, t) <= z
<1>1. PICK d \in Int : d = (t - z) * 72 OBVIOUS
<1>2. PICK e \in Int : e = d \div 100 OBVIOUS
<1>3. 100 * e <= d /\ d < 100 * e + 100 BY <1>2
<1>4. NextZoom(z, t) = IF Distance(t, z + e) < 5 THEN t ELSE z + e
  BY <1>1, <1>2 DEF NextZoom
<1>5. QED BY <1>1, <1>3, <1>4 DEF Distance

\* The stage starts with what the page shows.
LEMMA StageStarts == StageInit => StageInv
BY StageAssumption DEF StageInit, StageInv, StageLocked, Off, Gestures, Unit

\* The wheel moves the target, between the limits.
LEMMA WheelStep == StageInv /\ wheel => StageInv'
<1> SUFFICES ASSUME StageInv, wheel PROVE StageInv' BY Zenon
<1>1. PICK factor \in {95, 105} :
        targetZ' = AtLeast(ZoomMin, AtMost(ZoomMax, (targetZ * factor) \div 100))
  BY Zenon DEF wheel
<1>2. (targetZ * factor) \div 100 \in Int BY StageAssumption DEF StageInv
<1>3. targetZ' \in ZoomMin..ZoomMax
  BY <1>1, <1>2, StageAssumption DEF AtLeast, AtMost, Unit
<1>4. QED BY <1>3 DEF StageInv, StageLocked, wheel, glOf, frameOf, Camera

\* A frame of the zoom.
LEMMA TickStep == StageInv /\ tick => StageInv'
<1> SUFFICES ASSUME StageInv, tick PROVE StageInv' BY Zenon
<1>1. zoom' \in ZoomMin..ZoomMax
  BY NextZoomNears, StageAssumption DEF StageInv, tick
<1>2. StageLocked'
  BY Zenon DEF StageInv, StageLocked, tick, applyView, frameOf
<1>3. QED BY Zenon, <1>1, <1>2 DEF StageInv, tick

\* A button goes down or up.
LEMMA GestureStep ==
  StageInv /\ (PanDown \/ startDrag \/ startResize \/ mouseup) => StageInv'
<1> SUFFICES ASSUME StageInv PROVE PanDown \/ startDrag \/ startResize \/ mouseup => StageInv'
  BY Zenon
<1> USE DEF StageInv, StageLocked, viewOf, glOf, frameOf, Camera, Gestures, Off
<1>1. PanDown => StageInv' BY Zenon DEF PanDown
<1>2. startDrag => StageInv' BY Zenon DEF startDrag
<1>3. startResize => StageInv' BY Zenon DEF startResize
<1>4. mouseup => StageInv' BY Zenon DEF mouseup
<1>5. QED BY Zenon, <1>1, <1>2, <1>3, <1>4

\* The pointer moves, and with it what is held.
LEMMA MoveStep == ASSUME StageInv, NEW p \in Spots, mousemove(p) PROVE StageInv'
<1> USE DEF StageInv, StageLocked
<1>1. /\ DOMAIN gesture' = Gestures
      /\ gesture'["move"] = gesture["move"] /\ gesture'["size"] = gesture["size"]
  BY Zenon DEF mousemove, Engages, Gestures
<1>2. /\ ~gesture["move"].on => rect'.x = rect.x
      /\ ~gesture["size"].on => rect'.w = rect.w
  BY Zenon DEF mousemove
<1>3. transform' = [z |-> zoom', ox |-> offset']
  BY Zenon DEF mousemove, applyView
<1>4. camera' # NoGl => camera' = Camera(zoom', offset', window') /\ rendered' = window'
  BY Zenon DEF mousemove, applyView
<1>5. QED BY Zenon, <1>1, <1>2, <1>3, <1>4 DEF mousemove

\* The record moves, the GL host comes up, the window is resized.
LEMMA OthersStep ==
  ASSUME StageInv, RecordMoved \/ GlReady \/ \E w \in Widths : resize(w)
  PROVE  StageInv'
<1> USE DEF StageInv, StageLocked, viewOf, glOf, frameOf
<1>1. RecordMoved => StageInv' BY Zenon DEF RecordMoved, Camera
<1>2. GlReady => StageInv' BY Zenon DEF GlReady
<1>3. ASSUME NEW w \in Widths, resize(w) PROVE StageInv' BY Zenon, <1>3 DEF resize, applyView
<1>4. QED BY Zenon, <1>1, <1>2, <1>3

\* A step that leaves the stage alone.
LEMMA StageStands == StageInv /\ UNCHANGED stageVars => StageInv'
BY Zenon DEF StageInv, StageLocked, stageVars, viewOf, glOf, frameOf, Camera

\* The invariant of the stage holds for every order of wheel turns, frames, gestures and
\* resizes (canvas.ts, the listeners of mountCanvas).
THEOREM StageInvariant == StageSpec => []StageInv
<1>1. StageInv /\ [StageNext]_stageVars => StageInv'
  BY Zenon, WheelStep, TickStep, GestureStep, MoveStep, OthersStep, StageStands DEF StageNext
<1>2. QED BY <1>1, StageStarts, PTL DEF StageSpec

\* The world and the GL camera are drawn with the present zoom, offset and window, a frame
\* at rest is where its record says, and each frame of the zoom comes nearer to its target
\* (applyView and tick, canvas.ts:89-135), for every range of zooms and every window.
THEOREM StageStaysTrue == StageSpec => []StageTrue
<1>1. StageInv => StageTrue
  BY NextZoomNears, StageAssumption DEF StageInv, StageTrue, ZoomNears
<1>2. QED BY <1>1, StageInvariant, PTL

-----------------------------------------------------------------------------
\* The HTML panel.

UpPost == [op : {"send", "watch", "unwatch"}, rid : Nat, what : HtmlSend \cup HtmlSrc]
DownPost == [op : {"reply", "event"}, rid : Nat, what : HtmlSend \cup HtmlSrc]
HtmlDocument == [live : BOOLEAN, body : Nat, rid : Nat, pending : SUBSET (Nat \X HtmlSend),
                 watchers : SUBSET HtmlSrc]

HtmlType ==
  /\ htmlMeta \in Nat /\ htmlSrcdoc \in Nat
  /\ htmlState \in {"off", "up", "gone"}
  /\ htmlDoc \in HtmlDocument
  /\ htmlUp \in Seq(UpPost) /\ htmlDown \in Seq(DownPost)
  /\ \A i \in DOMAIN htmlUp :
       htmlUp[i].what \in (IF htmlUp[i].op = "send" THEN HtmlSend ELSE HtmlSrc)
  /\ htmlCalls \subseteq Nat \X HtmlSend
  /\ htmlOffs \subseteq HtmlSrc

\* A watch of the document's is served, or will be by what is on the way.
WillWatch(src) ==
  \/ \E i \in DOMAIN htmlUp :
       /\ htmlUp[i].op = "watch" /\ htmlUp[i].what = src
       /\ \A j \in DOMAIN htmlUp : i < j => ~(htmlUp[j].op = "unwatch" /\ htmlUp[j].what = src)
  \/ /\ src \in htmlOffs
     /\ \A j \in DOMAIN htmlUp : ~(htmlUp[j].op = "unwatch" /\ htmlUp[j].what = src)

HtmlWatches ==
  /\ htmlWatch = htmlOffs /\ htmlInbox = htmlOffs
  /\ \A src \in htmlDoc.watchers : WillWatch(src)

\* Where a send may be: on the way to the relay, at the kernel, on the way back.
SendAt(i) == i \in DOMAIN htmlUp /\ htmlUp[i].op = "send"
ReplyAt(i) == i \in DOMAIN htmlDown /\ htmlDown[i].op = "reply"

\* While no document was replaced with a send open, each send on its way is one that the
\* document has pending, and it is in one place only: so none is left when the last
\* promise resolves, and the next document may count from 1 again.
HtmlSends ==
  /\ \A p, q \in htmlDoc.pending : p[1] = q[1] => p = q
  /\ \A p \in htmlDoc.pending : p[1] <= htmlDoc.rid
  /\ htmlCalls \subseteq htmlDoc.pending
  /\ \A i \in DOMAIN htmlUp : SendAt(i) =>
       /\ <<htmlUp[i].rid, htmlUp[i].what>> \in htmlDoc.pending \ htmlCalls
       /\ \A j \in DOMAIN htmlUp : SendAt(j) /\ htmlUp[i].rid = htmlUp[j].rid => i = j
  /\ \A i \in DOMAIN htmlDown : ReplyAt(i) =>
       /\ <<htmlDown[i].rid, htmlDown[i].what>> \in htmlDoc.pending \ htmlCalls
       /\ \A j \in DOMAIN htmlDown : ReplyAt(j) /\ htmlDown[i].rid = htmlDown[j].rid => i = j
       /\ \A j \in DOMAIN htmlUp : SendAt(j) => htmlDown[i].rid # htmlUp[j].rid

HtmlShows ==
  htmlState = "up" => /\ ~htmlBare => htmlSrcdoc = htmlMeta
                      /\ ~htmlNav => htmlDoc.body = htmlSrcdoc

\* The inductive invariant of the panel.
HtmlInv ==
  /\ HtmlType /\ HtmlWatches /\ HtmlShows
  /\ htmlState # "up" => htmlUp = <<>> /\ htmlDown = <<>> /\ htmlOffs = {}
  /\ htmlState = "up" /\ ~htmlCrossed => HtmlSends
  /\ htmlState = "off" => htmlCalls = {} /\ htmlDoc.pending = {}
  /\ AnswersOwn

\* A view without a document, and a new document: nothing is pending, nothing watched.
LEMMA DocumentIs ==
  /\ \A b \in Nat : /\ Document(b) \in HtmlDocument /\ Document(b).body = b
                    /\ Document(b).watchers = {} /\ Document(b).pending = {}
  /\ NoDocument \in HtmlDocument /\ NoDocument.watchers = {} /\ NoDocument.pending = {}
BY Zenon DEF NoDocument, Document, HtmlDocument

\* Before the panel is mounted there is no document.
LEMMA HtmlStarts == HtmlInit => HtmlInv
<1> SUFFICES ASSUME HtmlInit PROVE HtmlInv BY Zenon
<1>1. HtmlType BY DocumentIs DEF HtmlInit, HtmlType
<1>2. htmlDoc.watchers = {} /\ htmlDoc.pending = {} BY Zenon, DocumentIs DEF HtmlInit
<1>3. QED BY Zenon, <1>1, <1>2 DEF HtmlInit, HtmlInv, HtmlWatches, HtmlShows, AnswersOwn

\* What the invariant says is about fewer variables than there are.
LEMMA WatchesStand ==
  ASSUME HtmlWatches, UNCHANGED <<htmlUp, htmlOffs, htmlWatch, htmlInbox>>,
         htmlDoc'.watchers \subseteq htmlDoc.watchers
  PROVE  HtmlWatches'
BY DEF HtmlWatches, WillWatch

\* The same, for the sends.
LEMMA SendsStand ==
  ASSUME HtmlSends, UNCHANGED <<htmlUp, htmlDown, htmlCalls>>,
         htmlDoc'.pending = htmlDoc.pending, htmlDoc'.rid = htmlDoc.rid
  PROVE  HtmlSends'
BY DEF HtmlSends, SendAt, ReplyAt

\* The HTML of the record changes, or the panel is mounted: the document stays.
LEMMA BodyStep == HtmlInv /\ (HtmlMount \/ SetHtml \/ UpdateHtml) => HtmlInv'
<1> SUFFICES ASSUME HtmlInv, HtmlMount \/ SetHtml \/ UpdateHtml PROVE HtmlInv' BY Zenon
<1> USE DEF HtmlMount, SetHtml, UpdateHtml, set_html, render, htmlRelay, htmlPage
<1>1. HtmlType' BY DEF HtmlInv, HtmlType
<1>2. /\ UNCHANGED <<htmlDoc, htmlUp, htmlDown, htmlOffs, htmlWatch, htmlInbox, htmlCalls>>
      /\ UNCHANGED <<htmlGot, htmlCrossed>>
  BY Zenon
<1>3. HtmlWatches' BY Zenon, <1>2, WatchesStand DEF HtmlInv
<1>4. HtmlShows' BY Zenon DEF HtmlInv, HtmlShows
<1>5. htmlState' = "up" /\ ~htmlCrossed' => HtmlSends'
  <2>1. CASE htmlState = "up" BY Zenon, <1>2, <2>1, SendsStand DEF HtmlInv
  <2>2. CASE htmlState # "up"
    <3>1. htmlState' = "up" => htmlState = "off" BY Zenon, <2>2
    <3>2. QED BY <1>2, <2>2, <3>1 DEF HtmlInv, HtmlSends, SendAt, ReplyAt
  <2>3. QED BY Zenon, <2>1, <2>2
<1>6. AnswersOwn' BY Zenon, <1>2 DEF HtmlInv, AnswersOwn
<1>7. /\ htmlState' # "up" => htmlUp' = <<>> /\ htmlDown' = <<>> /\ htmlOffs' = {}
      /\ htmlState' = "off" => htmlCalls' = {} /\ htmlDoc'.pending = {}
  BY Zenon, <1>2 DEF HtmlInv, HtmlType
<1>8. QED BY Zenon, <1>1, <1>3, <1>4, <1>5, <1>6, <1>7 DEF HtmlInv

\* The panel goes, and its document with it.
LEMMA UnmountStep == HtmlInv /\ HtmlUnmount => HtmlInv'
<1> SUFFICES ASSUME HtmlInv, HtmlUnmount PROVE HtmlInv' BY Zenon
<1>1. htmlDoc' = NoDocument /\ htmlDoc'.watchers = {} /\ NoDocument \in HtmlDocument
  BY Zenon, DocumentIs DEF HtmlUnmount
<1>2. HtmlType' BY <1>1 DEF HtmlInv, HtmlType, HtmlUnmount
<1>3. HtmlWatches' BY Zenon, <1>1 DEF HtmlInv, HtmlWatches, HtmlUnmount
<1>4. QED BY Zenon, <1>2, <1>3 DEF HtmlInv, HtmlUnmount, HtmlShows, AnswersOwn, htmlGhosts

\* The iframe loads the new document: no watch or send of the old one is left in it.
LEMMA NavigatedStep == HtmlInv /\ Navigated => HtmlInv'
<1> SUFFICES ASSUME HtmlInv, Navigated PROVE HtmlInv' BY Zenon
<1>1. /\ htmlDoc' \in HtmlDocument /\ htmlDoc'.watchers = {} /\ htmlDoc'.pending = {}
      /\ htmlDoc'.body = htmlSrcdoc
  BY Zenon, DocumentIs DEF HtmlInv, HtmlType, Navigated
<1>2. HtmlType' BY <1>1 DEF HtmlInv, HtmlType, Navigated, htmlRelay
<1>3. HtmlWatches' BY Zenon, <1>1, WatchesStand DEF HtmlInv, Navigated, htmlRelay
<1>4. HtmlShows' BY Zenon, <1>1 DEF HtmlInv, HtmlShows, Navigated
<1>5. ~htmlCrossed' => HtmlSends'
  <2>1. SUFFICES ASSUME ~htmlCrossed' PROVE HtmlSends' BY Zenon
  <2>2. ~htmlCrossed /\ htmlDoc.pending = {} BY <2>1, Zenon DEF Navigated
  <2>3. HtmlSends BY Zenon, <2>2 DEF HtmlInv, Navigated
  <2>4. htmlCalls' = {} /\ \A i \in DOMAIN htmlUp : ~SendAt(i)
    BY Zenon, <2>2, <2>3 DEF HtmlSends, Navigated, htmlRelay
  <2>5. htmlUp' = htmlUp /\ htmlDown' = <<>> BY Zenon DEF Navigated
  <2>6. QED BY <1>1, <2>4, <2>5 DEF HtmlSends, SendAt, ReplyAt
<1>6. QED BY Zenon, <1>2, <1>3, <1>4, <1>5 DEF HtmlInv, Navigated, AnswersOwn, htmlRelay

\* fantastic.send: the number is new, and so is the entry of `pending`.
LEMMA DocSendStep == ASSUME HtmlInv, NEW c \in HtmlSend, DocSend(c) PROVE HtmlInv'
<1> DEFINE id == htmlDoc.rid + 1
<1>0. htmlState = "up" /\ HtmlType BY Zenon DEF DocSend, MayPost, HtmlInv
<1>1. PICK d : d = htmlDoc' BY Zenon
<1>2. /\ d \in HtmlDocument /\ d.rid = id /\ d.body = htmlDoc.body
      /\ d.watchers = htmlDoc.watchers
      /\ d.pending = {p \in htmlDoc.pending : p[1] # id} \cup {<<id, c>>}
  <2>1. htmlDoc \in HtmlDocument /\ id \in Nat BY <1>0 DEF HtmlType, HtmlDocument
  <2>2. d = [htmlDoc EXCEPT !.rid = id,
                            !.pending = {p \in htmlDoc.pending : p[1] # id} \cup {<<id, c>>}]
    BY Zenon, <1>1, <2>1 DEF DocSend, NextRid, HtmlDocument
  <2>3. {p \in htmlDoc.pending : p[1] # id} \cup {<<id, c>>} \in SUBSET (Nat \X HtmlSend)
    BY <2>1 DEF HtmlDocument
  <2>4. QED BY Zenon, <2>1, <2>2, <2>3 DEF HtmlDocument
<1>3. /\ htmlUp' = Append(htmlUp, Post("send", id, c)) /\ Post("send", id, c) \in UpPost
      /\ htmlUp \in Seq(UpPost) /\ id \in Nat
  BY <1>0 DEF DocSend, NextRid, HtmlType, HtmlDocument, Post, UpPost
<1>4. HtmlType'
  BY <1>0, <1>1, <1>2, <1>3 DEF DocSend, HtmlType, htmlRelay, htmlPage, Post
<1>5. HtmlWatches'
  <2>1. SUFFICES ASSUME NEW src \in htmlDoc.watchers PROVE WillWatch(src)'
    BY Zenon, <1>1, <1>2 DEF HtmlWatches, HtmlInv, DocSend, htmlRelay
  <2>2. WillWatch(src) BY Zenon DEF HtmlInv, HtmlWatches
  <2>3. QED BY SMTT(20), <1>3, <2>2 DEF WillWatch, DocSend, htmlRelay, Post
<1>6. HtmlShows' BY Zenon, <1>1, <1>2 DEF HtmlInv, HtmlShows, DocSend, htmlPage, htmlGhosts
<1>7. ~htmlCrossed' => HtmlSends'
  <2>1. SUFFICES ASSUME HtmlSends PROVE HtmlSends' BY Zenon, <1>0 DEF HtmlInv, DocSend, htmlGhosts
  <2>2. d.pending = htmlDoc.pending \cup {<<id, c>>}
    BY <1>0, <1>2, <2>1 DEF HtmlSends, HtmlType, HtmlDocument
  <2>3. /\ Len(htmlUp) \in Nat /\ DOMAIN htmlUp = 1..Len(htmlUp)
        /\ DOMAIN htmlUp' = 1..(Len(htmlUp) + 1)
        /\ \A i \in 1..Len(htmlUp) : htmlUp'[i] = htmlUp[i] /\ (SendAt(i)' <=> SendAt(i))
        /\ htmlUp'[Len(htmlUp) + 1].rid = id /\ htmlUp'[Len(htmlUp) + 1].what = c
    BY <1>3 DEF Post, SendAt
  <2>4. UNCHANGED <<htmlDown, htmlCalls>> /\ \A i : ReplyAt(i)' <=> ReplyAt(i)
    BY Zenon DEF DocSend, htmlRelay, ReplyAt
  <2>5. \A p \in htmlDoc.pending : p[1] \in Nat /\ p[1] <= htmlDoc.rid
    BY Zenon, <1>0, <2>1 DEF HtmlSends, HtmlType, HtmlDocument
  <2>6. /\ \A p, q \in d.pending : p[1] = q[1] => p = q
        /\ \A p \in d.pending : p[1] <= id
        /\ htmlCalls \subseteq d.pending
    BY SMTT(20), <1>0, <2>1, <2>2, <2>5 DEF HtmlSends, HtmlType, HtmlDocument
  <2>7. \A i \in 1..Len(htmlUp) : SendAt(i) =>
          <<htmlUp[i].rid, htmlUp[i].what>> \in htmlDoc.pending \ htmlCalls /\ htmlUp[i].rid # id
    BY <1>0, <2>1, <2>3, <2>5 DEF HtmlSends, HtmlType, HtmlDocument
  <2>8. \A i \in DOMAIN htmlDown : ReplyAt(i) =>
          <<htmlDown[i].rid, htmlDown[i].what>> \in htmlDoc.pending \ htmlCalls /\ htmlDown[i].rid # id
    BY <1>0, <2>1, <2>5 DEF HtmlSends, HtmlType, HtmlDocument
  <2>9. <<id, c>> \notin htmlCalls BY <1>0, <2>1, <2>5 DEF HtmlSends, HtmlType, HtmlDocument
  <2>10. \A i \in DOMAIN htmlUp' : SendAt(i)' =>
           /\ <<htmlUp'[i].rid, htmlUp'[i].what>> \in d.pending \ htmlCalls
           /\ \A j \in DOMAIN htmlUp' : SendAt(j)' /\ htmlUp'[i].rid = htmlUp'[j].rid => i = j
    <3>1. \A i \in DOMAIN htmlUp' : SendAt(i)' =>
            <<htmlUp'[i].rid, htmlUp'[i].what>> \in d.pending \ htmlCalls
      BY <2>2, <2>3, <2>7, <2>9
    <3>2. \A i, j \in DOMAIN htmlUp' :
            SendAt(i)' /\ SendAt(j)' /\ htmlUp'[i].rid = htmlUp'[j].rid => i = j
      <4>1. \A i, j \in DOMAIN htmlUp : SendAt(i) /\ SendAt(j) /\ htmlUp[i].rid = htmlUp[j].rid => i = j
        BY Zenon, <2>1 DEF HtmlSends
      <4>2. \A i \in DOMAIN htmlUp' : i \in 1..Len(htmlUp) \/ i = Len(htmlUp) + 1 BY <2>3
      <4>3. QED BY Zenon, <2>3, <2>7, <4>1, <4>2
    <3>3. QED BY Zenon, <3>1, <3>2
  <2>11. \A i \in DOMAIN htmlDown : ReplyAt(i) =>
           /\ <<htmlDown[i].rid, htmlDown[i].what>> \in d.pending \ htmlCalls
           /\ \A j \in DOMAIN htmlUp' : SendAt(j)' => htmlDown[i].rid # htmlUp'[j].rid
    BY <2>1, <2>2, <2>3, <2>8 DEF HtmlSends
  <2>12. QED BY <1>1, <1>2, <2>1, <2>4, <2>6, <2>10, <2>11 DEF HtmlSends
<1>8. QED BY Zenon, <1>0, <1>4, <1>5, <1>6, <1>7 DEF HtmlInv, DocSend, AnswersOwn, htmlPage, htmlGhosts

\* fantastic.watch and its undoing post a message that the relay will take in order.
LEMMA DocWatchStep ==
  ASSUME HtmlInv, NEW s \in HtmlSrc, DocWatch(s) \/ DocUnwatch(s)
  PROVE  HtmlInv'
<1>0. htmlState = "up" /\ HtmlType BY Zenon DEF DocWatch, DocUnwatch, MayPost, HtmlInv
<1>1. PICK d : d = htmlDoc' BY Zenon
<1>2. PICK m : \/ DocWatch(s) /\ m = Post("watch", 0, s)
               \/ DocUnwatch(s) /\ m = Post("unwatch", 0, s)
  BY Zenon
<1>3. /\ d \in HtmlDocument /\ d.rid = htmlDoc.rid /\ d.body = htmlDoc.body
      /\ d.pending = htmlDoc.pending
      /\ d.watchers = IF m.op = "watch" THEN htmlDoc.watchers \cup {s}
                      ELSE htmlDoc.watchers \ {s}
  <2>1. htmlDoc \in HtmlDocument BY Zenon, <1>0 DEF HtmlType
  <2>2. CASE DocWatch(s) /\ m = Post("watch", 0, s)
    <3>1. d = [htmlDoc EXCEPT !.watchers = htmlDoc.watchers \cup {s}] /\ m.op = "watch"
      BY Zenon, <1>1, <2>2 DEF DocWatch, Post
    <3>2. QED BY Zenon, <2>1, <3>1 DEF HtmlDocument
  <2>3. CASE DocUnwatch(s) /\ m = Post("unwatch", 0, s)
    <3>1. d = [htmlDoc EXCEPT !.watchers = htmlDoc.watchers \ {s}] /\ m.op = "unwatch"
      BY Zenon, <1>1, <2>3 DEF DocUnwatch, Post
    <3>2. QED BY Zenon, <2>1, <3>1 DEF HtmlDocument
  <2>4. QED BY Zenon, <1>2, <2>2, <2>3
<1>4. /\ htmlUp' = Append(htmlUp, m) /\ htmlUp \in Seq(UpPost)
      /\ m \in UpPost /\ m.op \in {"watch", "unwatch"} /\ m.what = s
  BY <1>0, <1>2 DEF DocWatch, DocUnwatch, HtmlType, Post, UpPost
<1>5. UNCHANGED <<htmlMeta, htmlDown, htmlOffs, htmlWatch, htmlInbox, htmlCalls, htmlSrcdoc,
                  htmlNav, htmlState, htmlGot, htmlCrossed, htmlBare>>
  BY Zenon, <1>2 DEF DocWatch, DocUnwatch, htmlRelay, htmlPage, htmlGhosts
<1>6. HtmlType' BY <1>0, <1>1, <1>3, <1>4, <1>5 DEF HtmlType
<1>7. /\ Len(htmlUp) \in Nat /\ DOMAIN htmlUp = 1..Len(htmlUp)
      /\ DOMAIN htmlUp' = 1..(Len(htmlUp) + 1) /\ htmlUp'[Len(htmlUp) + 1] = m
      /\ \A i \in 1..Len(htmlUp) : htmlUp'[i] = htmlUp[i]
  BY <1>4
<1>8. HtmlWatches'
  <2>1. SUFFICES ASSUME NEW src \in d.watchers PROVE WillWatch(src)'
    BY Zenon, <1>1, <1>5 DEF HtmlWatches, HtmlInv
  <2>2. CASE src = s
    <3>1. m.op = "watch" BY Zenon, <1>3, <2>2
    <3>2. QED BY <1>4, <1>7, <2>2, <3>1 DEF WillWatch
  <2>3. CASE src # s
    <3>1. WillWatch(src) BY Zenon, <1>3, <2>3 DEF HtmlInv, HtmlWatches
    <3>2. QED BY <1>4, <1>5, <1>7, <2>3, <3>1 DEF WillWatch
  <2>4. QED BY Zenon, <2>2, <2>3
<1>9. HtmlShows' BY Zenon, <1>1, <1>3, <1>5 DEF HtmlInv, HtmlShows
<1>10. ~htmlCrossed' => HtmlSends'
  <2>1. SUFFICES ASSUME HtmlSends PROVE HtmlSends' BY Zenon, <1>0, <1>5 DEF HtmlInv
  <2>2. \A i \in DOMAIN htmlUp' : SendAt(i)' => SendAt(i) /\ i \in DOMAIN htmlUp /\ htmlUp'[i] = htmlUp[i]
    BY <1>4, <1>7 DEF SendAt
  <2>3. QED BY <1>1, <1>3, <1>5, <2>1, <2>2 DEF HtmlSends, ReplyAt
<1>11. QED BY Zenon, <1>0, <1>5, <1>6, <1>8, <1>9, <1>10 DEF HtmlInv, AnswersOwn

\* The connector's listener: a reply finds the one promise of its number, and that is the
\* send it answers.
LEMMA DocReceiveStep == HtmlInv /\ DocReceive => HtmlInv'
<1> SUFFICES ASSUME HtmlInv, DocReceive PROVE HtmlInv' BY Zenon
<1> DEFINE m == Head(htmlDown)
           hit == {p \in htmlDoc.pending : m.op = "reply" /\ p[1] = m.rid}
<1>0. htmlState = "up" /\ HtmlType /\ htmlDown # <<>> BY Zenon DEF DocReceive, HtmlInv
<1>1. PICK d : d = htmlDoc' BY Zenon
<1>2. /\ d \in HtmlDocument /\ d.rid = htmlDoc.rid /\ d.body = htmlDoc.body
      /\ d.pending = htmlDoc.pending \ hit /\ d.watchers = htmlDoc.watchers
  BY Zenon, <1>0, <1>1 DEF DocReceive, HtmlType, HtmlDocument
<1>3. /\ htmlDown' = Tail(htmlDown) /\ m \in DownPost /\ m = htmlDown[1]
      /\ Len(htmlDown) \in Nat \ {0} /\ DOMAIN htmlDown = 1..Len(htmlDown)
      /\ htmlDown' \in Seq(DownPost) /\ DOMAIN htmlDown' = 1..(Len(htmlDown) - 1)
      /\ \A i \in DOMAIN htmlDown' : htmlDown'[i] = htmlDown[i + 1] /\ i + 1 \in DOMAIN htmlDown
  BY <1>0 DEF DocReceive, HtmlType
<1>4. UNCHANGED <<htmlMeta, htmlUp, htmlOffs, htmlWatch, htmlInbox, htmlCalls, htmlSrcdoc,
                  htmlNav, htmlState, htmlCrossed, htmlBare>>
  BY Zenon DEF DocReceive, htmlRelay, htmlPage
<1>5. HtmlType' BY Zenon, <1>0, <1>1, <1>2, <1>3, <1>4 DEF HtmlType
<1>6. HtmlWatches' BY Zenon, <1>1, <1>2, <1>4, WatchesStand DEF HtmlInv
<1>7. HtmlShows' BY ZenonT(30), <1>1, <1>2, <1>4 DEF HtmlInv, HtmlShows
<1>8. ~htmlCrossed' => HtmlSends' /\ AnswersOwn'
  <2>1. SUFFICES ASSUME HtmlSends, AnswersOwn, ~htmlCrossed PROVE HtmlSends' /\ AnswersOwn'
    BY Zenon, <1>0, <1>4 DEF HtmlInv
  <2>2. m.op = "reply" => <<m.rid, m.what>> \in htmlDoc.pending \ htmlCalls
    BY <1>3, <2>1 DEF HtmlSends, ReplyAt
  <2>3. hit = IF m.op = "reply" THEN {<<m.rid, m.what>>} ELSE {}
    BY <2>1, <2>2 DEF HtmlSends
  <2>4. AnswersOwn' BY <2>1, <2>3 DEF AnswersOwn, DocReceive
  <2>5. \A i \in DOMAIN htmlUp : SendAt(i) => <<htmlUp[i].rid, htmlUp[i].what>> \notin hit
    BY <1>3, <2>1, <2>3 DEF HtmlSends, ReplyAt
  <2>6. \A i \in DOMAIN htmlDown' : ReplyAt(i)' =>
          ReplyAt(i + 1) /\ <<htmlDown'[i].rid, htmlDown'[i].what>> \notin hit
    BY SMTT(20), <1>3, <2>1, <2>3 DEF HtmlSends, ReplyAt
  <2>7. \A i \in DOMAIN htmlUp : SendAt(i)' <=> SendAt(i) BY Zenon, <1>4 DEF SendAt
  <2>8. htmlCalls \subseteq d.pending BY Zenon, <1>2, <2>1, <2>2, <2>3 DEF HtmlSends
  <2>9. \A i \in DOMAIN htmlUp' : SendAt(i)' =>
          /\ <<htmlUp'[i].rid, htmlUp'[i].what>> \in d.pending \ htmlCalls
          /\ \A j \in DOMAIN htmlUp' : SendAt(j)' /\ htmlUp'[i].rid = htmlUp'[j].rid => i = j
    BY Zenon, <1>2, <1>4, <2>1, <2>5, <2>7 DEF HtmlSends
  <2>10. \A i \in DOMAIN htmlDown' : ReplyAt(i)' =>
          /\ <<htmlDown'[i].rid, htmlDown'[i].what>> \in d.pending \ htmlCalls
          /\ \A j \in DOMAIN htmlDown' : ReplyAt(j)' /\ htmlDown'[i].rid = htmlDown'[j].rid => i = j
          /\ \A j \in DOMAIN htmlUp : SendAt(j) => htmlDown'[i].rid # htmlUp[j].rid
    <3>1. SUFFICES ASSUME NEW i \in DOMAIN htmlDown', ReplyAt(i)'
                   PROVE  /\ <<htmlDown'[i].rid, htmlDown'[i].what>> \in d.pending \ htmlCalls
                          /\ \A j \in DOMAIN htmlDown' :
                               ReplyAt(j)' /\ htmlDown'[i].rid = htmlDown'[j].rid => i = j
                          /\ \A j \in DOMAIN htmlUp : SendAt(j) => htmlDown'[i].rid # htmlUp[j].rid
      BY Zenon
    <3>2. ReplyAt(i + 1) /\ i + 1 \in DOMAIN htmlDown /\ htmlDown'[i] = htmlDown[i + 1]
      BY Zenon, <1>3, <2>6, <3>1
    <3>3. <<htmlDown'[i].rid, htmlDown'[i].what>> \in d.pending \ htmlCalls
      BY Zenon, <1>2, <2>1, <2>6, <3>1, <3>2 DEF HtmlSends
    <3>4. ASSUME NEW j \in DOMAIN htmlDown', ReplyAt(j)', htmlDown'[i].rid = htmlDown'[j].rid
          PROVE  i = j
      <4>1. ReplyAt(j + 1) /\ j + 1 \in DOMAIN htmlDown /\ htmlDown'[j] = htmlDown[j + 1]
        BY Zenon, <1>3, <2>6, <3>4
      <4>2. i + 1 = j + 1 BY Zenon, <2>1, <3>2, <3>4, <4>1 DEF HtmlSends
      <4>3. QED BY <1>3, <4>2
    <3>5. QED BY Zenon, <2>1, <3>2, <3>3, <3>4 DEF HtmlSends
  <2>11. QED BY <1>1, <1>2, <1>4, <2>1, <2>4, <2>7, <2>8, <2>9, <2>10 DEF HtmlSends
<1>9. QED BY Zenon, <1>0, <1>4, <1>5, <1>6, <1>7, <1>8 DEF HtmlInv, AnswersOwn

\* onMsg takes the oldest message.  A watch or an unwatch leaves the three registers alike,
\* and the document's watches as good as they were.
LEMMA RelayStep == HtmlInv /\ Relay => HtmlInv'
<1> SUFFICES ASSUME HtmlInv, Relay PROVE HtmlInv' BY Zenon
<1> DEFINE m == Head(htmlUp)
<1>0. htmlState = "up" /\ HtmlType /\ htmlUp # <<>> BY Zenon DEF Relay, HtmlInv
<1>1. /\ htmlUp' = Tail(htmlUp) /\ m = htmlUp[1] /\ m \in UpPost
      /\ Len(htmlUp) \in Nat \ {0} /\ DOMAIN htmlUp = 1..Len(htmlUp)
      /\ htmlUp' \in Seq(UpPost) /\ DOMAIN htmlUp' = 1..(Len(htmlUp) - 1)
      /\ \A i \in DOMAIN htmlUp' : htmlUp'[i] = htmlUp[i + 1] /\ i + 1 \in DOMAIN htmlUp
      /\ \A i \in DOMAIN htmlUp : i # 1 => i - 1 \in DOMAIN htmlUp' /\ htmlUp'[i - 1] = htmlUp[i]
  BY <1>0 DEF Relay, HtmlType
<1>2. UNCHANGED <<htmlMeta, htmlDoc, htmlDown, htmlSrcdoc, htmlNav, htmlState, htmlGot,
                  htmlCrossed, htmlBare>>
  BY Zenon DEF Relay, htmlPage, htmlGhosts
<1>3. m.what \in (IF m.op = "send" THEN HtmlSend ELSE HtmlSrc) BY <1>0, <1>1 DEF HtmlType
<1>4. htmlCalls' = IF m.op = "send" THEN htmlCalls \cup {<<m.rid, m.what>>} ELSE htmlCalls
  BY Zenon DEF Relay
<1>5. /\ htmlWatch' = htmlOffs' /\ htmlInbox' = htmlOffs'
      /\ htmlOffs' = CASE m.op = "send" -> htmlOffs
                       [] m.op = "watch" -> htmlOffs \cup {m.what}
                       [] m.op = "unwatch" -> htmlOffs \ {m.what}
  <2>1. htmlWatch = htmlOffs /\ htmlInbox = htmlOffs BY Zenon DEF HtmlInv, HtmlWatches
  <2>2. CASE m.op = "send" BY Zenon, <2>1, <2>2 DEF Relay
  <2>3. CASE m.op = "watch" BY Zenon, <2>1, <2>3 DEF Relay, Watch
  <2>4. CASE m.op = "unwatch" BY Zenon, <2>1, <2>4 DEF Relay, Unwatch
  <2>5. QED BY Zenon, <1>1, <2>2, <2>3, <2>4 DEF UpPost
<1>6. HtmlType'
  <2>1. htmlCalls' \subseteq Nat \X HtmlSend BY <1>0, <1>1, <1>3, <1>4 DEF HtmlType, UpPost
  <2>2. htmlOffs' \subseteq HtmlSrc BY Zenon, <1>0, <1>1, <1>3, <1>5 DEF HtmlType, UpPost
  <2>3. QED BY <1>0, <1>1, <1>2, <2>1, <2>2 DEF HtmlType
<1>7. HtmlWatches'
  <2>1. SUFFICES ASSUME NEW src \in htmlDoc.watchers PROVE WillWatch(src)'
    BY Zenon, <1>2, <1>5 DEF HtmlWatches
  <2> DEFINE un(q, j) == q[j].op = "unwatch" /\ q[j].what = src
  <2>2. CASE \E i \in DOMAIN htmlUp :
               /\ htmlUp[i].op = "watch" /\ htmlUp[i].what = src
               /\ \A j \in DOMAIN htmlUp : i < j => ~un(htmlUp, j)
    <3>1. PICK i \in DOMAIN htmlUp : /\ htmlUp[i].op = "watch" /\ htmlUp[i].what = src
                                    /\ \A j \in DOMAIN htmlUp : i < j => ~un(htmlUp, j)
      BY Zenon, <2>2
    <3>2. CASE i = 1
      <4>1. src \in htmlOffs' BY Zenon, <1>1, <1>5, <3>1, <3>2
      <4>2. \A j \in DOMAIN htmlUp' : ~un(htmlUp', j) BY <1>1, <3>1, <3>2
      <4>3. QED BY Zenon, <4>1, <4>2 DEF WillWatch
    <3>3. CASE i # 1
      <4>1. i - 1 \in DOMAIN htmlUp' /\ htmlUp'[i - 1] = htmlUp[i] BY Zenon, <1>1, <3>3
      <4>2. \A j \in DOMAIN htmlUp' : i - 1 < j => ~un(htmlUp', j) BY <1>1, <3>1
      <4>3. QED BY Zenon, <3>1, <4>1, <4>2 DEF WillWatch
    <3>4. QED BY Zenon, <3>2, <3>3
  <2>3. CASE src \in htmlOffs /\ \A j \in DOMAIN htmlUp : ~un(htmlUp, j)
    <3>1. src \in htmlOffs' BY <1>1, <1>5, <2>3 DEF UpPost
    <3>2. \A j \in DOMAIN htmlUp' : ~un(htmlUp', j) BY <1>1, <2>3
    <3>3. QED BY Zenon, <3>1, <3>2 DEF WillWatch
  <2>4. WillWatch(src) BY Zenon DEF HtmlInv, HtmlWatches
  <2>5. QED BY Zenon, <2>2, <2>3, <2>4 DEF WillWatch
<1>8. HtmlShows' BY Zenon, <1>2 DEF HtmlInv, HtmlShows
<1>9. ~htmlCrossed' => HtmlSends'
  <2>1. SUFFICES ASSUME HtmlSends PROVE HtmlSends' BY Zenon, <1>0, <1>2 DEF HtmlInv
  <2>2. m.op = "send" => /\ SendAt(1) /\ <<m.rid, m.what>> \in htmlDoc.pending
                         /\ \A i \in DOMAIN htmlUp : SendAt(i) /\ htmlUp[i].rid = m.rid => i = 1
                         /\ \A i \in DOMAIN htmlDown : ReplyAt(i) => htmlDown[i].rid # m.rid
    <3>1. SUFFICES ASSUME m.op = "send"
                   PROVE  /\ SendAt(1) /\ <<m.rid, m.what>> \in htmlDoc.pending
                          /\ \A i \in DOMAIN htmlUp : SendAt(i) /\ htmlUp[i].rid = m.rid => i = 1
                          /\ \A i \in DOMAIN htmlDown : ReplyAt(i) => htmlDown[i].rid # m.rid
      BY Zenon
    <3>2. SendAt(1) /\ 1 \in DOMAIN htmlUp /\ m = htmlUp[1] BY <1>1, <3>1 DEF SendAt
    <3> HIDE DEF m
    <3>3. QED BY Zenon, <2>1, <3>2 DEF HtmlSends
  <2>3. htmlCalls' \subseteq htmlDoc.pending BY Zenon, <1>4, <2>1, <2>2 DEF HtmlSends
  <2>4. \A i \in DOMAIN htmlUp' : SendAt(i)' => SendAt(i + 1) BY Zenon, <1>1 DEF SendAt
  <2>5. ASSUME NEW i \in DOMAIN htmlUp', SendAt(i)'
        PROVE  /\ <<htmlUp'[i].rid, htmlUp'[i].what>> \in htmlDoc.pending \ htmlCalls'
               /\ \A j \in DOMAIN htmlUp' : SendAt(j)' /\ htmlUp'[i].rid = htmlUp'[j].rid => i = j
    <3>1. SendAt(i + 1) /\ i + 1 \in DOMAIN htmlUp /\ htmlUp'[i] = htmlUp[i + 1] /\ i + 1 # 1
      BY <1>1, <2>4, <2>5
    <3>2. <<htmlUp'[i].rid, htmlUp'[i].what>> \in htmlDoc.pending \ htmlCalls'
      BY Zenon, <1>4, <2>1, <2>2, <3>1 DEF HtmlSends
    <3>3. ASSUME NEW j \in DOMAIN htmlUp', SendAt(j)', htmlUp'[i].rid = htmlUp'[j].rid PROVE i = j
      <4>1. SendAt(j + 1) /\ j + 1 \in DOMAIN htmlUp /\ htmlUp'[j] = htmlUp[j + 1]
        BY Zenon, <1>1, <2>4, <3>3
      <4>2. i + 1 = j + 1 BY Zenon, <2>1, <3>1, <3>3, <4>1 DEF HtmlSends
      <4>3. QED BY <1>1, <4>2
    <3>4. QED BY Zenon, <3>2, <3>3
  <2>6. \A i : ReplyAt(i)' <=> ReplyAt(i) BY Zenon, <1>2 DEF ReplyAt
  <2>7. \A i \in DOMAIN htmlDown : ReplyAt(i) =>
          /\ <<htmlDown[i].rid, htmlDown[i].what>> \in htmlDoc.pending \ htmlCalls'
          /\ \A j \in DOMAIN htmlUp' : SendAt(j)' => htmlDown[i].rid # htmlUp'[j].rid
    BY <1>1, <1>4, <2>1, <2>2, <2>4 DEF HtmlSends
  <2>8. QED BY Zenon, <1>2, <2>1, <2>3, <2>5, <2>6, <2>7 DEF HtmlSends
<1>10. QED BY Zenon, <1>0, <1>2, <1>6, <1>7, <1>8, <1>9 DEF HtmlInv, AnswersOwn

\* kernel.send resolves or rejects: the answer goes to the document, if there is a view.
LEMMA AnswerStep ==
  ASSUME HtmlInv, NEW x \in htmlCalls, Answered(x) \/ AnswerFails(x)
  PROVE  HtmlInv'
<1>0. HtmlType /\ x \in Nat \X HtmlSend BY Zenon DEF HtmlInv, HtmlType
<1>1. /\ UNCHANGED <<htmlMeta, htmlDoc, htmlUp, htmlOffs, htmlWatch, htmlInbox, htmlSrcdoc, htmlNav,
                     htmlState, htmlGot, htmlCrossed, htmlBare>>
      /\ htmlCalls' = htmlCalls \ {x}
  BY Zenon DEF Answered, AnswerFails, htmlPage, htmlGhosts
<1>2. \/ htmlDown' = htmlDown
      \/ htmlState = "up" /\ htmlDown' = Append(htmlDown, Post("reply", x[1], x[2]))
  BY Zenon DEF Answered, AnswerFails, toIframe
<1>3. Post("reply", x[1], x[2]) \in DownPost BY Zenon, <1>0 DEF Post, DownPost
<1>4. htmlDown \in Seq(DownPost) /\ htmlDown' \in Seq(DownPost) 
  <2>1. htmlDown \in Seq(DownPost) BY Zenon, <1>0 DEF HtmlType
  <2>2. CASE htmlDown' = htmlDown BY Zenon, <2>1, <2>2
  <2>3. CASE htmlDown' = Append(htmlDown, Post("reply", x[1], x[2])) BY <1>3, <2>1, <2>3
  <2>4. QED BY Zenon, <1>2, <2>1, <2>2, <2>3
<1>5. HtmlType' BY Zenon, <1>0, <1>1, <1>4 DEF HtmlType
<1>6. HtmlWatches' BY Zenon, <1>1, WatchesStand DEF HtmlInv
<1>7. HtmlShows' BY Zenon, <1>1 DEF HtmlInv, HtmlShows
<1>8. htmlState' = "up" /\ ~htmlCrossed' => HtmlSends'
  <2>1. SUFFICES ASSUME HtmlSends PROVE HtmlSends' BY Zenon, <1>1 DEF HtmlInv
  <2>2. /\ x \in htmlDoc.pending /\ x = <<x[1], x[2]>>
        /\ \A i \in DOMAIN htmlUp : SendAt(i) => htmlUp[i].rid # x[1]
        /\ \A i \in DOMAIN htmlDown : ReplyAt(i) => htmlDown[i].rid # x[1]
    <3>1. x \in htmlDoc.pending /\ x = <<x[1], x[2]>> BY <1>0, <2>1 DEF HtmlSends
    <3>2. \A r, c : <<r, c>> \in htmlDoc.pending \ htmlCalls => r # x[1]
      <4>1. SUFFICES ASSUME NEW r, NEW c, <<r, c>> \in htmlDoc.pending, r = x[1]
                     PROVE  <<r, c>> \in htmlCalls
        BY Zenon
      <4>2. <<r, c>>[1] = x[1] BY Zenon, <4>1
      <4>3. <<r, c>> = x BY Zenon, <2>1, <3>1, <4>1, <4>2 DEF HtmlSends
      <4>4. QED BY Zenon, <4>3
    <3>3. QED BY Zenon, <2>1, <3>1, <3>2 DEF HtmlSends
  <2>3. \A i : SendAt(i)' <=> SendAt(i) BY Zenon, <1>1 DEF SendAt
  <2>4. CASE htmlDown' = htmlDown BY <1>1, <2>1, <2>4 DEF HtmlSends, SendAt, ReplyAt
  <2>5. CASE htmlDown' = Append(htmlDown, Post("reply", x[1], x[2]))
    <3>1. /\ Len(htmlDown) \in Nat /\ DOMAIN htmlDown = 1..Len(htmlDown)
          /\ DOMAIN htmlDown' = 1..(Len(htmlDown) + 1)
          /\ \A i \in 1..Len(htmlDown) : htmlDown'[i] = htmlDown[i] /\ (ReplyAt(i)' <=> ReplyAt(i))
          /\ htmlDown'[Len(htmlDown) + 1].rid = x[1] /\ htmlDown'[Len(htmlDown) + 1].what = x[2]
      BY SMTT(20), <1>4, <2>5 DEF Post, ReplyAt
    <3>2. \A i \in DOMAIN htmlDown' : i \in 1..Len(htmlDown) \/ i = Len(htmlDown) + 1 BY <3>1
    <3>3. \A i, j \in DOMAIN htmlDown :
            ReplyAt(i) /\ ReplyAt(j) /\ htmlDown[i].rid = htmlDown[j].rid => i = j
      BY Zenon, <2>1 DEF HtmlSends
    <3>4. \A i, j \in DOMAIN htmlDown' :
            ReplyAt(i)' /\ ReplyAt(j)' /\ htmlDown'[i].rid = htmlDown'[j].rid => i = j
      BY <2>2, <3>1, <3>2, <3>3
    <3>5. \A i \in DOMAIN htmlDown' : ReplyAt(i)' =>
            /\ <<htmlDown'[i].rid, htmlDown'[i].what>> \in htmlDoc.pending \ htmlCalls'
            /\ \A j \in DOMAIN htmlUp : SendAt(j) => htmlDown'[i].rid # htmlUp[j].rid
      BY <1>1, <2>1, <2>2, <3>1, <3>2 DEF HtmlSends
    <3>6. \A i \in DOMAIN htmlUp : SendAt(i) =>
            /\ <<htmlUp[i].rid, htmlUp[i].what>> \in htmlDoc.pending \ htmlCalls'
            /\ \A j \in DOMAIN htmlUp : SendAt(j) /\ htmlUp[i].rid = htmlUp[j].rid => i = j
      BY Zenon, <1>1, <2>1 DEF HtmlSends
    <3>7. htmlCalls' \subseteq htmlDoc.pending BY Zenon, <1>1, <2>1 DEF HtmlSends
    <3>8. QED BY Zenon, <1>1, <2>1, <2>3, <3>4, <3>5, <3>6, <3>7 DEF HtmlSends
  <2>6. QED BY Zenon, <1>2, <2>4, <2>5
<1>9. QED BY Zenon, <1>1, <1>2, <1>5, <1>6, <1>7, <1>8 DEF HtmlInv, AnswersOwn

\* An event of a watched agent is posted to the document, if there is a view.
LEMMA EmitsStep == ASSUME HtmlInv, NEW s \in HtmlSrc, WatchedEmits(s) PROVE HtmlInv'
<1>0. HtmlType BY Zenon DEF HtmlInv
<1>1. UNCHANGED <<htmlMeta, htmlDoc, htmlUp, htmlOffs, htmlWatch, htmlInbox, htmlCalls, htmlSrcdoc,
                  htmlNav, htmlState, htmlGot, htmlCrossed, htmlBare>>
  BY Zenon DEF WatchedEmits, htmlRelay, htmlPage, htmlGhosts
<1>2. PICK m \in DownPost : /\ m.op = "event"
                            /\ htmlDown' = IF htmlState = "up" THEN Append(htmlDown, m) ELSE htmlDown
  <2>1. Post("event", 0, s) \in DownPost /\ Post("event", 0, s).op = "event" BY Zenon DEF Post, DownPost
  <2>2. QED BY Zenon, <2>1 DEF WatchedEmits, toIframe
<1>3. htmlDown \in Seq(DownPost) /\ htmlDown' \in Seq(DownPost) BY <1>0, <1>2 DEF HtmlType
<1>4. HtmlType' BY Zenon, <1>0, <1>1, <1>3 DEF HtmlType
<1>5. HtmlWatches' BY Zenon, <1>1, WatchesStand DEF HtmlInv
<1>6. HtmlShows' BY ZenonT(30), <1>1 DEF HtmlInv, HtmlShows
<1>7. htmlState' = "up" /\ ~htmlCrossed' => HtmlSends'
  <2>1. SUFFICES ASSUME HtmlSends PROVE HtmlSends' BY Zenon, <1>1 DEF HtmlInv
  <2>2. \A i \in DOMAIN htmlDown' :
          ReplyAt(i)' => ReplyAt(i) /\ i \in DOMAIN htmlDown /\ htmlDown'[i] = htmlDown[i]
    BY <1>2, <1>3 DEF ReplyAt
  <2>3. QED BY <1>1, <2>1, <2>2 DEF HtmlSends, SendAt
<1>8. QED BY Zenon, <1>1, <1>2, <1>4, <1>5, <1>6, <1>7 DEF HtmlInv, AnswersOwn

\* A step that leaves the panel alone.
LEMMA HtmlStands == HtmlInv /\ UNCHANGED htmlVars => HtmlInv'
<1> SUFFICES ASSUME HtmlInv, UNCHANGED htmlVars PROVE HtmlInv' BY Zenon
<1> USE DEF htmlVars, htmlRelay, htmlPage, htmlGhosts
<1>1. HtmlType' /\ HtmlShows' /\ AnswersOwn' BY Zenon DEF HtmlInv, HtmlType, HtmlShows, AnswersOwn
<1>2. HtmlWatches' BY Zenon, WatchesStand DEF HtmlInv
<1>3. HtmlSends => HtmlSends' BY Zenon, SendsStand
<1>4. QED BY Zenon, <1>1, <1>2, <1>3 DEF HtmlInv

\* The invariant of the panel, over every order of what the document posts, the relay and
\* the kernel do, and the replacements of the document (html_view.ts, connector.ts).
THEOREM HtmlInvariant == HtmlSpec => []HtmlInv
<1>1. HtmlInv /\ [HtmlNext]_htmlVars => HtmlInv'
  <2>1. SUFFICES ASSUME HtmlInv, HtmlNext PROVE HtmlInv' BY Zenon, HtmlStands
  <2>2. CASE HtmlMount \/ SetHtml \/ UpdateHtml BY Zenon, <2>1, <2>2, BodyStep
  <2>3. CASE HtmlUnmount \/ Navigated \/ DocReceive \/ Relay
    BY Zenon, <2>1, <2>3, UnmountStep, NavigatedStep, DocReceiveStep, RelayStep
  <2>4. CASE \E c \in HtmlSend : DocSend(c) BY Zenon, <2>1, <2>4, DocSendStep
  <2>5. CASE \E src \in HtmlSrc : DocWatch(src) \/ DocUnwatch(src) \/ WatchedEmits(src)
    BY Zenon, <2>1, <2>5, DocWatchStep, EmitsStep
  <2>6. CASE \E x \in htmlCalls : Answered(x) \/ AnswerFails(x) BY Zenon, <2>1, <2>6, AnswerStep
  <2>7. QED BY Zenon, <2>1, <2>2, <2>3, <2>4, <2>5, <2>6 DEF HtmlNext
<1>2. QED BY <1>1, HtmlStarts, PTL DEF HtmlSpec

\* Whatever the document, the relay and the kernel do in whatever order, a send gets its own
\* answer unless a document was replaced with a send open, the kernel watches what the
\* document listens to once its posts are in and nothing after unmount, and the panel
\* shows the body of its record (html_view.ts:33-113, connector.ts:18-49): for any number of
\* sends, sources, bodies and messages on the way.
THEOREM PanelStaysServed == HtmlSpec => []PanelServed
<1>1. HtmlInv => PanelServed
  <2>1. SUFFICES ASSUME HtmlInv PROVE PanelServed BY Zenon
  <2>2. htmlUp = <<>> => htmlDoc.watchers \subseteq htmlWatch \cap htmlInbox
    BY <2>1 DEF HtmlInv, HtmlWatches, WillWatch
  <2>3. htmlState = "gone" => htmlWatch = {} /\ htmlInbox = {} BY Zenon, <2>1 DEF HtmlInv, HtmlWatches
  <2>4. QED BY Zenon, <2>1, <2>2, <2>3 DEF HtmlInv, PanelServed, WatchServed, ShowsBody, HtmlShows
<1>2. QED BY <1>1, HtmlInvariant, PTL

=============================================================================
