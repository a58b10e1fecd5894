------------------------------ MODULE HtmlView ------------------------------
(***************************************************************************)
(* An HTML panel: the agent that holds its body (html_agent.ts), the view  *)
(* that shows it in an iframe and relays for it (html_view.ts), and the    *)
(* connector inside the document (connector.ts).  postMessage keeps order  *)
(* in each direction.  A new srcdoc replaces the document some time later: *)
(* what was posted to the old document is then lost, what it had posted    *)
(* itself still arrives, and its window passes for the new one's.          *)
(***************************************************************************)
EXTENDS Naturals, Sequences, FiniteSets

CONSTANTS HtmlSrc,     \* agents a document may watch
          HtmlSend,    \* the sends documents make
          MaxHtml,     \* bodies the agent is given
          MaxUp, MaxDown   \* messages on the way from and to the document

VARIABLES htmlMeta,    \* meta.html
          htmlSrcdoc,  \* the body last rendered
          htmlNav,     \* has the document yet to be replaced?
          htmlDoc,     \* body, rid, pending and watchers of the document
          htmlUp, htmlDown,  \* messages to the relay and to the document
          htmlOffs,    \* keys of watchOffs
          htmlWatch,   \* sources the kernel has this agent as a watcher of
          htmlInbox,   \* sources with a listener of the relay's (kernel.onInbox)
          htmlCalls,   \* kernel.send promises that are open
          htmlState,   \* "off", "up" or "gone"
          htmlGot,     \* ghost: what each send resolved with
          htmlCrossed, \* ghost: was a document replaced with a send open?
          htmlBare     \* ghost: was meta.html changed other than by set_html?

htmlRelay == <<htmlOffs, htmlWatch, htmlInbox, htmlCalls>>
htmlPage == <<htmlSrcdoc, htmlNav, htmlState>>
htmlGhosts == <<htmlGot, htmlCrossed, htmlBare>>
htmlVars == <<htmlMeta, htmlDoc, htmlUp, htmlDown, htmlRelay, htmlPage, htmlGhosts>>

NoAnswer == "none"
Document(body) == [live |-> TRUE, body |-> body, rid |-> 0, pending |-> {}, watchers |-> {}]
NoDocument == [Document(0) EXCEPT !.live = FALSE]
MayPost == htmlState = "up" /\ htmlDoc.live /\ Len(htmlUp) < MaxUp
Post(op, rid, what) == [op |-> op, rid |-> rid, what |-> what]

HtmlInit ==
  /\ htmlMeta = 0 /\ htmlSrcdoc = 0 /\ htmlNav = FALSE /\ htmlDoc = NoDocument
  /\ htmlUp = <<>> /\ htmlDown = <<>>
  /\ htmlOffs = {} /\ htmlWatch = {} /\ htmlInbox = {} /\ htmlCalls = {}
  /\ htmlState = "off"
  /\ htmlGot = [c \in HtmlSend |-> NoAnswer] /\ htmlCrossed = FALSE /\ htmlBare = FALSE

-----------------------------------------------------------------------------
\* The view and the agent.

\* render.
render(body) == htmlSrcdoc' = body /\ htmlNav' = TRUE

\* mount.
HtmlMount ==
  /\ htmlState = "off" /\ htmlState' = "up"
  /\ render(htmlMeta) /\ htmlBare' = FALSE
  /\ UNCHANGED <<htmlMeta, htmlDoc, htmlUp, htmlDown, htmlRelay, htmlGot, htmlCrossed>>

\* set_html: the record, then reload_html, which the view hears at once.
set_html(body) ==
  /\ htmlMeta' = body
  /\ IF htmlState = "up" THEN render(body) ELSE UNCHANGED <<htmlSrcdoc, htmlNav>>

SetHtml ==
  /\ htmlMeta < MaxHtml
  /\ set_html(htmlMeta + 1) /\ htmlBare' = FALSE
  /\ UNCHANGED <<htmlDoc, htmlUp, htmlDown, htmlRelay, htmlState, htmlGot, htmlCrossed>>

\* update_agent, or a record that comes from the host: no reload.
UpdateHtml ==
  /\ htmlMeta < MaxHtml
  /\ htmlMeta' = htmlMeta + 1 /\ htmlBare' = TRUE
  /\ UNCHANGED <<htmlDoc, htmlUp, htmlDown, htmlRelay, htmlPage, htmlGot, htmlCrossed>>

\* unmount: every function of watchOffs runs.
HtmlUnmount ==
  /\ htmlState = "up" /\ htmlState' = "gone"
  /\ htmlWatch' = htmlWatch \ htmlOffs /\ htmlInbox' = htmlInbox \ htmlOffs
  /\ htmlOffs' = {} /\ htmlUp' = <<>> /\ htmlDown' = <<>> /\ htmlDoc' = NoDocument
  /\ UNCHANGED <<htmlMeta, htmlSrcdoc, htmlNav, htmlCalls, htmlGhosts>>

\* The browser replaces the document.
Navigated ==
  /\ htmlState = "up" /\ htmlNav /\ htmlNav' = FALSE
  /\ htmlDoc' = Document(htmlSrcdoc) /\ htmlDown' = <<>>
  /\ htmlCrossed' = (htmlCrossed \/ htmlDoc.pending # {})
  /\ UNCHANGED <<htmlMeta, htmlUp, htmlRelay, htmlSrcdoc, htmlState, htmlGot, htmlBare>>

-----------------------------------------------------------------------------
\* The document.

Unsent == {c \in HtmlSend : htmlGot[c] = NoAnswer
             /\ c \notin {p[2] : p \in htmlDoc.pending} \cup {x[2] : x \in htmlCalls}
             /\ \A i \in DOMAIN htmlUp : htmlUp[i].what # c}

\* ++rid.
NextRid == htmlDoc.rid + 1

\* fantastic.send.
DocSend(c) ==
  LET id == NextRid IN
  /\ MayPost /\ c \in Unsent
  /\ htmlDoc' = [htmlDoc EXCEPT !.rid = id,
                   !.pending = {p \in @ : p[1] # id} \cup {<<id, c>>}]
  /\ htmlUp' = Append(htmlUp, Post("send", id, c))
  /\ UNCHANGED <<htmlMeta, htmlDown, htmlRelay, htmlPage, htmlGhosts>>

\* fantastic.watch, for the first callback of a source; and its last one taken back.
DocWatch(src) ==
  /\ MayPost /\ src \notin htmlDoc.watchers
  /\ htmlDoc' = [htmlDoc EXCEPT !.watchers = @ \cup {src}]
  /\ htmlUp' = Append(htmlUp, Post("watch", 0, src))
  /\ UNCHANGED <<htmlMeta, htmlDown, htmlRelay, htmlPage, htmlGhosts>>

DocUnwatch(src) ==
  /\ MayPost /\ src \in htmlDoc.watchers
  /\ htmlDoc' = [htmlDoc EXCEPT !.watchers = @ \ {src}]
  /\ htmlUp' = Append(htmlUp, Post("unwatch", 0, src))
  /\ UNCHANGED <<htmlMeta, htmlDown, htmlRelay, htmlPage, htmlGhosts>>

\* The connector's message listener.  An event reaches the callbacks of its source.
DocReceive ==
  LET m == Head(htmlDown)
      hit == {p \in htmlDoc.pending : m.op = "reply" /\ p[1] = m.rid}
  IN  /\ htmlDown # <<>> /\ htmlDown' = Tail(htmlDown)
      /\ htmlDoc' = [htmlDoc EXCEPT !.pending = @ \ hit]
      /\ htmlGot' = [c \in HtmlSend |-> IF \E p \in hit : p[2] = c THEN m.what ELSE htmlGot[c]]
      /\ UNCHANGED <<htmlMeta, htmlUp, htmlRelay, htmlPage, htmlCrossed, htmlBare>>

-----------------------------------------------------------------------------
\* The relay.

\* toIframe.
toIframe(m) == htmlDown' = IF htmlState = "up" THEN Append(htmlDown, m) ELSE htmlDown

\* Mutant: the entry of watchOffs stays.
UnwatchKeeps(src) ==
  /\ htmlWatch' = htmlWatch \ {src} /\ htmlInbox' = htmlInbox \ {src}
  /\ UNCHANGED htmlOffs

\* onMsg, `unwatch`.
Unwatch(src) ==
  /\ htmlWatch' = IF src \in htmlOffs THEN htmlWatch \ {src} ELSE htmlWatch
  /\ htmlInbox' = IF src \in htmlOffs THEN htmlInbox \ {src} ELSE htmlInbox
  /\ htmlOffs' = htmlOffs \ {src}

\* onMsg, `watch`.
Watch(src) ==
  IF src \in htmlOffs THEN UNCHANGED <<htmlOffs, htmlWatch, htmlInbox>>
  ELSE /\ htmlOffs' = htmlOffs \cup {src} /\ htmlWatch' = htmlWatch \cup {src}
       /\ htmlInbox' = htmlInbox \cup {src}

\* onMsg.
Relay ==
  LET m == Head(htmlUp) IN
  /\ htmlUp # <<>> /\ htmlUp' = Tail(htmlUp)
  /\ \/ m.op = "send" /\ htmlCalls' = htmlCalls \cup {<<m.rid, m.what>>}
        /\ UNCHANGED <<htmlOffs, htmlWatch, htmlInbox>>
     \/ m.op = "watch" /\ Watch(m.what) /\ UNCHANGED htmlCalls
     \/ m.op = "unwatch" /\ Unwatch(m.what) /\ UNCHANGED htmlCalls
  /\ UNCHANGED <<htmlMeta, htmlDoc, htmlDown, htmlPage, htmlGhosts>>

\* kernel.send resolves, in any order.
Answered(x) ==
  /\ x \in htmlCalls /\ htmlCalls' = htmlCalls \ {x}
  /\ toIframe(Post("reply", x[1], x[2]))
  /\ UNCHANGED <<htmlMeta, htmlDoc, htmlUp, htmlOffs, htmlWatch, htmlInbox, htmlPage, htmlGhosts>>

\* It rejects: the document is not told.
AnswerFails(x) ==
  /\ x \in htmlCalls /\ htmlCalls' = htmlCalls \ {x}
  /\ UNCHANGED <<htmlMeta, htmlDoc, htmlUp, htmlDown, htmlOffs, htmlWatch, htmlInbox, htmlPage, htmlGhosts>>

\* A watched agent emits.
WatchedEmits(src) ==
  /\ src \in htmlInbox /\ Len(htmlDown) < MaxDown
  /\ toIframe(Post("event", 0, src))
  /\ UNCHANGED <<htmlMeta, htmlDoc, htmlUp, htmlRelay, htmlPage, htmlGhosts>>

HtmlNext ==
  \/ HtmlMount \/ SetHtml \/ UpdateHtml \/ HtmlUnmount \/ Navigated \/ DocReceive \/ Relay
  \/ \E c \in HtmlSend : DocSend(c)
  \/ \E src \in HtmlSrc : DocWatch(src) \/ DocUnwatch(src) \/ WatchedEmits(src)
  \/ \E x \in htmlCalls : Answered(x) \/ AnswerFails(x)

HtmlSpec == HtmlInit /\ [][HtmlNext]_htmlVars

-----------------------------------------------------------------------------
\* Properties.

\* A send of a panel resolves with the answer to that send, in whatever order the
\* kernel answers (connector.ts:26-28, html_view.ts:71-75).  Not so once a document was
\* replaced with a send open: the new one counts from 1 again, and an answer to the old
\* one may meet a send of its own.
AnswersOwn == ~htmlCrossed => \A c \in HtmlSend : htmlGot[c] \in {NoAnswer, c}

\* When all that documents have posted is in, the kernel watches for the panel every
\* source its document has a callback for, across replaced documents whose watches and
\* unwatches arrive late; and after unmount it watches none (html_view.ts:84-101, 106-112).
WatchServed ==
  /\ htmlUp = <<>> => htmlDoc.watchers \subseteq htmlWatch \cap htmlInbox
  /\ htmlState = "gone" => htmlWatch = {} /\ htmlInbox = {}

\* Once it is loaded, the panel shows the body of the record, for several set_html in a
\* row too (html_agent.ts:24-28, html_view.ts:52-55), if only set_html changes it.
ShowsBody == htmlState = "up" /\ ~htmlNav /\ ~htmlBare => htmlDoc.body = htmlMeta

\* The panel is served: its sends get their own answers, the kernel watches for it what
\* its document listens to, and it shows the body of its record (html_view.ts:33-113,
\* connector.ts:18-49, html_agent.ts:14-29).
PanelServed == AnswersOwn /\ WatchServed /\ ShowsBody
=============================================================================
