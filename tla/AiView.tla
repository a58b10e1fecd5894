------------------------------- MODULE AiView -------------------------------
(***************************************************************************)
(* The chat view, bundles/ai_view/ai_view.ts, over the backend it fronts   *)
(* (ai_core/core.py): one generation at a time, first come first served.   *)
(* The view's calls and the backend's events share one socket, so both     *)
(* arrive in order; a disconnect loses what is on the way.  A send stands  *)
(* for its text and for its send_id.  The view learns the id only from     *)
(* events, and binds it to its oldest unbound bubble.                      *)
(***************************************************************************)
EXTENDS Naturals, Sequences, FiniteSets, SequencesExt

CONSTANTS Mine,      \* sends of this view, or of the page before a reload
          Twin,      \* sends under the same client id from another tab
          Other,     \* sends of other clients
          AiCall,    \* tool calls of one generation
          AiBudgets  \* bounds: the sends, the cuts (disconnects, redials that fail and
                     \* unmounts), the tool calls of each generation, the interrupts

VARIABLES aiMode,      \* "boot" until the status snapshot is in, then "up"; "stub", "gone"
          aiLink,      \* is the socket open?
          aiOut,       \* `send` and `interrupt` calls on the way or waiting for the socket
          aiStream,    \* events on the way to the view
          aiQueued,    \* queuedBubbles in queuedOrder: key and text
          aiLocal,     \* localPending
          aiInflight,  \* the generation on display
          aiPhase,     \* the phase pill
          aiButton,    \* what the button says
          aiQueue, aiCurrent,  \* the backend: _queue and _current
          aiTools, aiLastTool, \* the calls of the current generation, and its last_tool
          aiNew,       \* sends nobody has made yet
          aiMisled, aiHung, aiLeft   \* ghosts (see the properties); what is left of the bounds

viewVars == <<aiMode, aiQueued, aiLocal, aiInflight, aiPhase, aiButton>>
wireVars == <<aiLink, aiOut, aiStream>>
toolVars == <<aiTools, aiLastTool>>
backVars == <<aiQueue, aiCurrent, toolVars>>
aiGhosts == <<aiMisled, aiHung, aiLeft>>
aiVars == <<viewVars, wireVars, backVars, aiGhosts, aiNew>>

Ours == Mine \cup Twin            \* what the view takes for its own
NoSend == "none"
NoBlocks == [c \in AiCall |-> "none"]
NoTools == [c \in AiCall |-> "none"]
Inflight(s, text) == [id |-> s, text |-> text, tokens |-> {}, blocks |-> NoBlocks]
Nothing == Inflight(NoSend, NoSend)
Ev(e, s) == [e |-> e, s |-> s, pending |-> <<>>, call |-> NoSend, replied |-> FALSE]
Listening == aiMode \in {"boot", "up"}

\* mount binds to a backend that may be busy with what an earlier page has sent.
AiInit ==
  /\ aiLeft \in AiBudgets
  /\ \E cur \in Mine \cup Other \cup {NoSend}, q \in {<<>>} \cup {<<s>> : s \in Mine} :
       /\ cur = NoSend => q = <<>>
       /\ q # <<>> => q[1] # cur
       /\ aiCurrent = cur /\ aiQueue = q
       /\ {cur} \cup ToSet(q) \subseteq aiLeft.sends \cup {NoSend}
       /\ aiNew = aiLeft.sends \ ({cur} \cup ToSet(q))
  /\ aiMode = "boot" /\ aiLink = TRUE /\ aiOut = <<>> /\ aiStream = <<>>
  /\ aiQueued = <<>> /\ aiLocal = <<>> /\ aiInflight = Nothing /\ aiPhase = "idle"
  /\ aiButton = "send" /\ aiTools = NoTools /\ aiLastTool = NoSend
  /\ aiMisled = FALSE /\ aiHung = FALSE

-----------------------------------------------------------------------------
\* The view's bubbles.

BubbleAt(q, k) == {i \in DOMAIN q : q[i].key = k}
LocalKey(s) == <<"local", s>>
IdKey(s) == <<"id", s>>

\* refreshBusy.
Busy(queued, inflight) == IF inflight # Nothing \/ queued # <<>> THEN "stop" ELSE "send"

\* setPhase: a phase other than idle keeps the elapsed timer running.
setPhase(p) == aiPhase' = p

\* Mutant: an id that is bound already takes another bubble.
BindAgain(q, l, s) ==
  IF l = <<>> THEN [q |-> q, l |-> l]
  ELSE [q |-> [i \in DOMAIN q |-> IF q[i].key = LocalKey(Head(l)) THEN [q[i] EXCEPT !.key = IdKey(s)]
                                  ELSE q[i]],
        l |-> Tail(l)]

\* bindNextLocalToSendId.
Bind(q, l, s) ==
  IF BubbleAt(q, IdKey(s)) # {} \/ l = <<>> THEN [q |-> q, l |-> l]
  ELSE [q |-> [i \in DOMAIN q |-> IF q[i].key = LocalKey(Head(l)) THEN [q[i] EXCEPT !.key = IdKey(s)]
                                  ELSE q[i]],
        l |-> Tail(l)]

\* promoteToInflight.
Promote(s) ==
  LET b == Bind(aiQueued, aiLocal, s)
      at == BubbleAt(b.q, IdKey(s))
  IN  /\ aiLocal' = b.l
      /\ aiQueued' = SelectSeq(b.q, LAMBDA x : x.key # IdKey(s))
      /\ aiInflight' = Inflight(s, IF at = {} THEN NoSend ELSE b.q[CHOOSE i \in at : TRUE].text)
      /\ aiButton' = Busy(aiQueued', aiInflight')

\* makeToolBlock, for a call that has none yet.
Made(b) == IF b = "none" THEN "pending" ELSE b

\* fillToolReply: a block is pending until its reply fills it; one that is no longer in
\* the bubble is filled out of sight.
Filled(b, replied) == IF replied /\ b = "pending" THEN "filled" ELSE b

\* Mutant: a block that exists is made anew.
RemakesBlock(f, c, replied) ==
  [f EXCEPT !.blocks[c] = IF replied THEN "none" ELSE "pending"]

\* handleToolCall.
ToolBlock(f, c, replied) == [f EXCEPT !.blocks[c] = Filled(Made(@), replied)]

-----------------------------------------------------------------------------
\* Events.

\* `queued`, and `status` with phase queued.
OnQueued(s) ==
  LET b == Bind(aiQueued, aiLocal, s) IN
  /\ aiQueued' = b.q /\ aiLocal' = b.l /\ setPhase("queued")
  /\ UNCHANGED <<aiMode, aiInflight, aiButton>>

\* `status` with phase thinking or streaming.
OnRunning(s) ==
  /\ IF aiInflight.id = s THEN UNCHANGED <<aiQueued, aiLocal, aiInflight, aiButton>>
     ELSE Promote(s)
  /\ setPhase("running")
  /\ UNCHANGED aiMode

\* `status` with phase tool_calling: the call goes to whatever is in flight.
OnTool(ev) ==
  /\ aiInflight' = IF aiInflight = Nothing THEN aiInflight
                   ELSE ToolBlock(aiInflight, ev.call, ev.replied)
  /\ setPhase("running")
  /\ UNCHANGED <<aiMode, aiQueued, aiLocal, aiButton>>

\* `token` carries no send_id: it goes to whatever is in flight.  The text replaces all
\* that the bubble holds, tool blocks included.
OnToken(s) ==
  /\ aiInflight' = IF aiInflight = Nothing THEN aiInflight
                   ELSE [aiInflight EXCEPT !.tokens = @ \cup {s},
                           !.blocks = [c \in AiCall |-> IF @[c] = "none" THEN "none" ELSE "wiped"]]
  /\ UNCHANGED <<aiMode, aiQueued, aiLocal, aiPhase, aiButton>>

\* Mutant: `done` leaves the generation on display.
OnDoneKeeps(s) == setPhase("idle") /\ UNCHANGED <<aiMode, aiQueued, aiLocal, aiInflight, aiButton>>

\* `status` with phase done, then `done`.
OnDone(s) ==
  /\ aiInflight' = Nothing /\ setPhase("idle")
  /\ aiButton' = Busy(aiQueued, aiInflight')
  /\ UNCHANGED <<aiMode, aiQueued, aiLocal>>

\* `context` with phase too_small.
OnTooSmall(s) ==
  /\ setPhase("idle") /\ aiButton' = Busy(aiQueued, aiInflight)
  /\ UNCHANGED <<aiMode, aiQueued, aiLocal, aiInflight>>

\* The queued bubbles of a snapshot.
SnapQueued(ev) == [i \in DOMAIN ev.pending |-> [key |-> IdKey(ev.pending[i]), text |-> ev.pending[i]]]

\* The reply of `status`: what is in flight and what waits, if it is ours.
OnSnapshot(ev) ==
  /\ aiMode' = "up"
  /\ IF ev.s = NoSend THEN UNCHANGED <<aiInflight, aiPhase>>
     ELSE /\ aiInflight' = LET f == Inflight(ev.s, ev.s) IN
                           IF ev.call = NoSend THEN f ELSE ToolBlock(f, ev.call, ev.replied)
          /\ setPhase("running")
  /\ aiQueued' = aiQueued \o SnapQueued(ev)
  /\ aiButton' = Busy(aiQueued', aiInflight')
  /\ UNCHANGED aiLocal

Handle(ev) ==
  \/ ev.e = "queued" /\ OnQueued(ev.s)
  \/ ev.e = "running" /\ OnRunning(ev.s)
  \/ ev.e = "tool" /\ OnTool(ev)
  \/ ev.e = "token" /\ OnToken(ev.s)
  \/ ev.e = "done" /\ OnDone(ev.s)
  \/ ev.e = "too_small" /\ OnTooSmall(ev.s)
  \/ ev.e = "snapshot" /\ OnSnapshot(ev)

\* onMessage, in order.
AiReceive ==
  /\ aiStream # <<>>
  /\ aiStream' = Tail(aiStream)
  /\ Handle(Head(aiStream))
  /\ UNCHANGED <<aiLink, aiOut, backVars, aiGhosts, aiNew>>

-----------------------------------------------------------------------------
\* The user, and the socket.

\* submit.  Its catch has nothing to undo: a call rejects when the socket drops.
Submit(s) ==
  /\ aiMode = "up" /\ s \in Mine \cap aiNew
  /\ aiNew' = aiNew \ {s}
  /\ aiQueued' = Append(aiQueued, [key |-> LocalKey(s), text |-> s])
  /\ aiLocal' = Append(aiLocal, s)
  /\ aiOut' = Append(aiOut, s)
  /\ aiButton' = Busy(aiQueued', aiInflight)
  /\ UNCHANGED <<aiMode, aiInflight, aiPhase, aiLink, aiStream, backVars, aiGhosts>>

\* interrupt, from the button or from Esc: it names no send.
Interrupt ==
  /\ aiMode = "up" /\ aiInflight # Nothing
  /\ aiLink /\ aiLeft.stops > 0
  /\ aiLeft' = [aiLeft EXCEPT !.stops = @ - 1]
  /\ aiOut' = Append(aiOut, "interrupt")
  /\ UNCHANGED <<viewVars, aiLink, aiStream, backVars, aiMisled, aiHung, aiNew>>

\* unmount: every listener and the bubbles go, calls on the way do not.
AiUnmount ==
  /\ aiMode \in {"up", "stub"} /\ aiLeft.cuts > 0
  /\ aiLeft' = [aiLeft EXCEPT !.cuts = @ - 1]
  /\ aiMode' = "gone" /\ aiStream' = <<>>
  /\ aiQueued' = <<>> /\ aiLocal' = <<>> /\ aiInflight' = Nothing
  /\ setPhase("idle") /\ aiButton' = "send"
  /\ UNCHANGED <<aiLink, aiOut, backVars, aiMisled, aiHung, aiNew>>

\* mountStub: nothing is listened to.
mountStub == aiMode' = "stub"

\* mount again, by the record's mode: a snapshot makes good what the last view got wrong.
AiMount ==
  /\ aiMode = "gone"
  /\ aiMode' = "boot" \/ mountStub
  /\ aiMisled' = FALSE /\ aiHung' = FALSE
  /\ UNCHANGED <<aiQueued, aiLocal, aiInflight, aiPhase, aiButton, wireVars, backVars, aiLeft, aiNew>>

\* onLifecycle "disconnected": every bubble that waits and the generation on display
\* go.  What the backend still has of ours will meet no bubble of its own.
Disconnect ==
  /\ aiLink /\ aiMode # "boot" /\ aiLeft.cuts > 0
  /\ aiLeft' = [aiLeft EXCEPT !.cuts = @ - 1]
  /\ aiLink' = FALSE /\ aiOut' = <<>> /\ aiStream' = <<>>
  /\ aiQueued' = <<>> /\ aiLocal' = <<>> /\ aiInflight' = Nothing /\ setPhase("idle")
  /\ aiButton' = Busy(aiQueued', aiInflight')
  /\ aiHung' = FALSE
  /\ aiMisled' = ((ToSet(aiQueue) \cup {aiCurrent}) \cap Ours # {})
  /\ UNCHANGED <<aiMode, backVars, aiNew>>

\* The redial: calls made meanwhile go out.
Connect ==
  /\ ~aiLink /\ aiLink' = TRUE
  /\ setPhase("idle")
  /\ UNCHANGED <<aiMode, aiQueued, aiLocal, aiInflight, aiButton, aiOut, aiStream, backVars, aiGhosts, aiNew>>

\* The redial fails: the calls made meanwhile stay without an end (bridge.ts, arm).
RedialFails ==
  /\ ~aiLink /\ aiOut # <<>> /\ aiLeft.cuts > 0
  /\ aiLeft' = [aiLeft EXCEPT !.cuts = @ - 1]
  /\ aiOut' = <<>> /\ aiHung' = TRUE /\ aiMisled' = TRUE
  /\ UNCHANGED <<viewVars, aiLink, aiStream, backVars, aiNew>>

-----------------------------------------------------------------------------
\* The backend.

\* An event for our client id, if anyone hears it.
Tell(ev) == aiStream' = IF aiLink /\ Listening /\ ev.s \in Ours THEN Append(aiStream, ev) ELSE aiStream

\* _send up to the lock: running, or behind another one.  Between a release of the lock
\* and its next holder it does not look held, and nobody is told of the wait.
Arrives(s) ==
  /\ \/ /\ aiCurrent = NoSend /\ aiQueue = <<>>
        /\ aiCurrent' = s /\ UNCHANGED aiQueue
        /\ Tell(Ev("running", s))
     \/ /\ aiCurrent # NoSend \/ aiQueue # <<>>
        /\ aiQueue' = Append(aiQueue, s) /\ UNCHANGED aiCurrent
        /\ IF aiCurrent = NoSend THEN UNCHANGED aiStream ELSE Tell(Ev("queued", s))

SendArrives ==
  /\ aiLink /\ aiOut # <<>> /\ Head(aiOut) # "interrupt"
  /\ aiOut' = Tail(aiOut)
  /\ Arrives(Head(aiOut))
  /\ aiMisled' = (aiMisled \/ (aiCurrent = NoSend /\ aiQueue # <<>>))
  /\ UNCHANGED <<viewVars, aiLink, toolVars, aiHung, aiLeft, aiNew>>

\* _send answers with an error and tells no one else: the view does not look.
SendRefused ==
  /\ aiLink /\ aiOut # <<>> /\ Head(aiOut) # "interrupt"
  /\ aiOut' = Tail(aiOut)
  /\ aiHung' = TRUE /\ aiMisled' = TRUE
  /\ UNCHANGED <<viewVars, aiLink, aiStream, backVars, aiLeft, aiNew>>

\* A send of another client or of another tab.
ElsewhereSends(s) ==
  /\ s \in (Twin \cup Other) \cap aiNew
  /\ aiNew' = aiNew \ {s}
  /\ Arrives(s)
  /\ aiMisled' = (aiMisled \/ s \in Twin)
  /\ UNCHANGED <<viewVars, aiLink, aiOut, toolVars, aiHung, aiLeft>>

\* The lock passes on.
NextRuns ==
  /\ aiCurrent = NoSend /\ aiQueue # <<>>
  /\ aiCurrent' = Head(aiQueue) /\ aiQueue' = Tail(aiQueue)
  /\ Tell(Ev("running", Head(aiQueue)))
  /\ UNCHANGED <<viewVars, aiLink, aiOut, toolVars, aiGhosts, aiNew>>

\* The phase is told again: `streaming` before the first token of a step, `thinking`
\* before the next step.  (Bound: with nothing else on the way.)
Streams ==
  /\ aiCurrent \in Ours /\ aiStream = <<>>
  /\ Tell(Ev("running", aiCurrent))
  /\ UNCHANGED <<viewVars, aiLink, aiOut, backVars, aiGhosts, aiNew>>

\* A token of the model.  (Bound: one on the way at a time.)
Token ==
  /\ aiCurrent \in Ours /\ \A i \in DOMAIN aiStream : aiStream[i].e # "token"
  /\ Tell(Ev("token", aiCurrent))
  /\ UNCHANGED <<viewVars, aiLink, aiOut, backVars, aiGhosts, aiNew>>

\* _exec_one: the calls of a generation run side by side, each told of when it starts
\* and when its reply is there.
ToolCalls(c) ==
  /\ aiCurrent \in Ours /\ c \in aiLeft.calls /\ aiTools[c] = "none"
  /\ aiTools' = [aiTools EXCEPT ![c] = "called"] /\ aiLastTool' = c
  /\ Tell([Ev("tool", aiCurrent) EXCEPT !.call = c])
  /\ UNCHANGED <<viewVars, aiLink, aiOut, aiQueue, aiCurrent, aiGhosts, aiNew>>

ToolReplies(c) ==
  /\ aiTools[c] = "called"
  /\ aiTools' = [aiTools EXCEPT ![c] = "replied"] /\ aiLastTool' = c
  /\ Tell([Ev("tool", aiCurrent) EXCEPT !.call = c, !.replied = TRUE])
  /\ UNCHANGED <<viewVars, aiLink, aiOut, aiQueue, aiCurrent, aiGhosts, aiNew>>

\* The current generation is over.
Over == aiCurrent' = NoSend /\ aiTools' = NoTools /\ aiLastTool' = NoSend

\* A generation ends: by itself, by the time limit, by an error.
Ends ==
  /\ aiCurrent # NoSend /\ Over
  /\ Tell(Ev("done", aiCurrent))
  /\ UNCHANGED <<viewVars, aiLink, aiOut, aiQueue, aiGhosts, aiNew>>

\* _interrupt: it cancels whatever runs now.
InterruptArrives ==
  /\ aiLink /\ aiOut # <<>> /\ Head(aiOut) = "interrupt"
  /\ aiOut' = Tail(aiOut)
  /\ Over /\ Tell(Ev("done", aiCurrent))
  /\ UNCHANGED <<viewVars, aiLink, aiQueue, aiGhosts, aiNew>>

\* It does not fit the context window, and no `done` is sent.
TooSmall ==
  /\ aiCurrent \in Ours /\ aiTools = NoTools /\ Over
  /\ Tell(Ev("too_small", aiCurrent))
  /\ aiHung' = (aiHung \/ (aiLink /\ Listening))
  /\ UNCHANGED <<viewVars, aiLink, aiOut, aiQueue, aiMisled, aiLeft, aiNew>>

\* `status`, asked for by mount.
Snapshot ==
  /\ aiMode = "boot" /\ aiLink /\ aiOut = <<>>
  /\ \A i \in DOMAIN aiStream : aiStream[i].e # "snapshot"
  /\ aiStream' = Append(aiStream, [e |-> "snapshot",
                                   s |-> IF aiCurrent \in Ours THEN aiCurrent ELSE NoSend,
                                   call |-> aiLastTool,
                                   replied |-> aiLastTool # NoSend /\ aiTools[aiLastTool] = "replied",
                                   pending |-> SelectSeq(aiQueue, LAMBDA s : s \in Ours)])
  /\ UNCHANGED <<viewVars, aiLink, aiOut, backVars, aiGhosts, aiNew>>

AiNext ==
  \/ AiReceive \/ Disconnect \/ Connect \/ RedialFails
  \/ SendArrives \/ SendRefused \/ NextRuns \/ Streams \/ Token \/ Ends \/ TooSmall \/ Snapshot
  \/ Interrupt \/ InterruptArrives \/ AiUnmount \/ AiMount
  \/ \E c \in AiCall : ToolCalls(c) \/ ToolReplies(c)
  \/ \E s \in Mine : Submit(s)
  \/ \E s \in Twin \cup Other : ElsewhereSends(s)

-----------------------------------------------------------------------------
\* Properties.

\* The generation on display has the bubble of its own send and only its own tokens,
\* although tokens name no send and bubbles are bound by order (ai_view.ts:235-339):
\* after a reload, behind other clients, for several sends at once.  Not so once
\* another tab sends under the same client id, a send is refused, stranded or too large,
\* a disconnect leaves a send of ours at the backend, or one waits unannounced (Arrives).
RightBubble ==
  aiMode = "up" /\ aiInflight # Nothing /\ ~aiMisled /\ ~aiHung =>
    aiInflight.text = aiInflight.id /\ aiInflight.tokens \subseteq {aiInflight.id}

\* When the backend has nothing of ours and no message is on the way, no bubble
\* waits, nothing is on display, the pill is idle and the button says "send" (refreshBusy
\* and setPhase, ai_view.ts:175-200).  Not so after a send that was refused, stranded or too large:
\* they end without `done`.
QuietIsIdle ==
  (/\ aiMode = "up" /\ aiOut = <<>> /\ aiStream = <<>> /\ ~aiHung
   /\ (ToSet(aiQueue) \cup {aiCurrent}) \cap Ours = {})
  => aiQueued = <<>> /\ aiInflight = Nothing /\ aiPhase = "idle" /\ aiButton = "send"

\* Tool calls run side by side and their events name no send; yet once the events are
\* in, the block of each call of the generation on display is as far as the call, and the
\* last call has a block, also after a reload (handleToolCall, ai_view.ts:274-285 and
\* 372-378).  A block that a later token wiped out of the bubble stays out.
ToolBlocks ==
  (/\ aiMode = "up" /\ aiLink /\ aiStream = <<>> /\ ~aiMisled /\ ~aiHung
   /\ aiInflight # Nothing /\ aiInflight.id = aiCurrent)
  => \A c \in AiCall :
       LET b == aiInflight.blocks[c] IN
       /\ b # "wiped" => b \in {"none", IF aiTools[c] = "called" THEN "pending" ELSE "filled"}
       /\ aiTools[c] = "none" \/ c = aiLastTool => (b = "none" <=> aiTools[c] = "none")
=============================================================================
