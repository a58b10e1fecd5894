---------------------------- MODULE TerminalView ----------------------------
(***************************************************************************)
(* The terminal view, bundles/terminal_view/terminal_view.ts, over the     *)
(* terminal backend (terminal_backend/tools.py).  The backend counts the   *)
(* characters it has emitted and no view has acknowledged, and stops       *)
(* reading the PTY above HighWatermark; a view acknowledges in units of    *)
(* AckSize what xterm has parsed.  A view has a socket of its own: its     *)
(* calls arrive in order, and so do the frames to it.  An `output` event   *)
(* is a task of its own, so a reply may overtake it.                       *)
(***************************************************************************)
EXTENDS Naturals, Sequences, FiniteSets, FiniteSetsExt

CONSTANTS View,
          AckSize, LowWatermark, HighWatermark,  \* 5000, 5000 and 100000 in the code
          Chunks,        \* what one read may give: <<code points, UTF-16 units>>
          FitDelay,      \* ticks from the observer's callback to the fit
          TermBudgets    \* bounds: how often each input happens, a record for each mix

ASSUME TermAssumption ==
  /\ {AckSize, LowWatermark, HighWatermark, FitDelay} \subseteq Nat \ {0}
  /\ AckSize <= LowWatermark
  /\ \A c \in Chunks : c[1] \in Nat /\ c[2] \in Nat /\ c[1] <= c[2]

VARIABLES termPty,      \* _procs[id]: running?, size, unacked, paused, scrollback
          termShell,    \* is a `shell` call waiting for its token?
          termEmits,    \* emit tasks that have not run
          termView,     \* per view (see NewView)
          termNth,      \* chunks read so far
          termLeft,     \* what the bounds leave
          termSound,    \* ghost: views that have missed nothing since the count was cleared
          termWhole,    \* ghost: views that have missed nothing since they mounted
          termMounted,  \* ghost: views ever mounted
          termRespawned \* ghost: has the shell been restarted?

termGhosts == <<termSound, termWhole, termMounted, termRespawned>>
termHost == <<termPty, termShell, termEmits, termNth>>
termVars == <<termHost, termView, termLeft, termGhosts>>

\* _spawn: the size comes from the record (0).
Spawned == [up |-> TRUE, size |-> 0, unacked |-> 0, paused |-> FALSE, scroll |-> {}]
NoPty == [Spawned EXCEPT !.up = FALSE]

\* A view before it mounts: its xterm has the default size (0), its frame some other.
\* `age` counts the ticks since xterm's size and the frame's differ.
NewView == [st |-> "off", link |-> TRUE, wire |-> <<>>, calls |-> <<>>, unsent |-> 0,
            seen |-> {}, last |-> 0, term |-> 0, frame |-> 1, timer |-> 0, raf |-> FALSE, age |-> 0]

TermInit ==
  /\ termPty \in {NoPty, Spawned} /\ termShell = FALSE /\ termEmits = <<>> /\ termNth = 0
  /\ termView = [v \in View |-> NewView]
  /\ termLeft \in TermBudgets
  /\ termSound = {} /\ termWhole = {} /\ termMounted = {} /\ termRespawned = FALSE

Spend(what) == termLeft[what] > 0 /\ termLeft' = [termLeft EXCEPT ![what] = @ - 1]
Set(v, r) == termView' = [termView EXCEPT ![v] = r]
Call(c, n, w) == [c |-> c, n |-> n, awaited |-> w]
Frame(e, c, ids) == [e |-> e, chunk |-> c, ids |-> ids]
Event(c) == Frame("output", c, {})
Reply(ids) == Frame("reply", [id |-> 0, units |-> 0], ids)

\* Mutant: mount watches after the replay.
ReachedLate == {v \in View : termView[v].st \in {"up", "failed"} /\ termView[v].link}

\* The views that hear `output`: host.on comes before `boot` in mount, and a mount that
\* fails does not take it back.
Reached == {v \in View : termView[v].st # "off" /\ termView[v].link}

-----------------------------------------------------------------------------
\* The view.

\* Mutant: the loop of ackChars stops one short.
AcksOver(total) == IF total = 0 THEN 0 ELSE (total - 1) \div AckSize

\* ackChars: how many acks a backlog of characters makes.
Acks(total) == total \div AckSize

ackChars(x, n) ==
  LET total == x.unsent + n
      k == Acks(total)
  IN  [x EXCEPT !.unsent = total - k * AckSize,
                !.calls = @ \o [i \in 1..k |-> Call("ack", AckSize, FALSE)]]

\* tightFit: xterm takes the frame's size, and onResize tells the backend.
tightFit(x) ==
  IF x.term = x.frame THEN [x EXCEPT !.age = 0]
  ELSE [x EXCEPT !.term = x.frame, !.age = 0,
                 !.calls = Append(@, Call("resize", x.frame, FALSE))]

\* mount up to the first await: listeners, fit, `boot`.
TermMount(v) ==
  LET x == tightFit(termView[v]) IN
  /\ termView[v].st = "off" /\ termView[v].link
  /\ Spend("mounts")
  /\ Set(v, [x EXCEPT !.st = "boot", !.calls = Append(@, Call("boot", 0, TRUE))])
  /\ termWhole' = termWhole \cup {v} /\ termMounted' = termMounted \cup {v}
  /\ UNCHANGED <<termHost, termSound, termRespawned>>

\* The rest of mount, await by await: boot, resize, replay.  The replay is not acked.
NextStep(x, ids) ==
  CASE x.st = "boot" -> [x EXCEPT !.st = "resize", !.calls = Append(@, Call("resize", x.term, TRUE))]
    [] x.st = "resize" -> [x EXCEPT !.st = "replay", !.calls = Append(@, Call("output", 0, TRUE))]
    [] x.st = "replay" -> [x EXCEPT !.st = "up", !.seen = @ \cup ids,
                                    !.last = IF ids = {} THEN @ ELSE Max(ids)]

\* The listener of `output`: xterm parses the chunk, then it is acknowledged.
OnOutput(x, c) == ackChars([x EXCEPT !.seen = @ \cup {c.id}, !.last = c.id], c.units)

TermReceive(v) ==
  LET x == termView[v]
      f == Head(x.wire)
      y == [x EXCEPT !.wire = Tail(@)]
  IN  /\ x.wire # <<>>
      /\ Set(v, IF f.e = "output" THEN OnOutput(y, f.chunk) ELSE NextStep(y, f.ids))
      /\ UNCHANGED <<termHost, termLeft, termGhosts>>

\* unmount.  The calls it has made are still on their way.
TermUnmount(v) ==
  /\ termView[v].st = "up"
  /\ Set(v, [NewView EXCEPT !.calls = termView[v].calls, !.link = termView[v].link])
  /\ termSound' = termSound \ {v} /\ termWhole' = termWhole \ {v}
  /\ UNCHANGED <<termHost, termLeft, termMounted, termRespawned>>

-----------------------------------------------------------------------------
\* The size of the frame.

\* The ResizeObserver's callback.
Observed(x) == IF x.timer > 0 THEN x ELSE [x EXCEPT !.timer = FitDelay]

\* The user resizes the frame.
FrameResized(v) ==
  /\ termView[v].st # "off"
  /\ Spend("sizes")
  /\ \E n \in {1, 2} \ {termView[v].frame} : Set(v, Observed([termView[v] EXCEPT !.frame = n]))
  /\ UNCHANGED <<termHost, termGhosts>>

\* The renderer's churn wakes the observer with no change of size.
Churn(v) ==
  /\ termView[v].st # "off" /\ termLeft.sizes > 0
  /\ Set(v, Observed(termView[v]))
  /\ UNCHANGED <<termHost, termLeft, termGhosts>>

\* Time passes: a timer that elapses asks for an animation frame, which comes within
\* the tick after it.
Tick(v) ==
  LET x == termView[v] IN
  /\ x.timer > 0 /\ ~x.raf
  /\ Set(v, [x EXCEPT !.timer = @ - 1, !.raf = (x.timer = 1),
                      !.age = IF x.term = x.frame THEN 0 ELSE @ + 1])
  /\ UNCHANGED <<termHost, termLeft, termGhosts>>

AnimationFrame(v) ==
  /\ termView[v].raf
  /\ Set(v, tightFit([termView[v] EXCEPT !.raf = FALSE]))
  /\ UNCHANGED <<termHost, termLeft, termGhosts>>

-----------------------------------------------------------------------------
\* The backend.

\* _clear_flow_control.
Clear == termSound' = Reached
Cleared(p) == [p EXCEPT !.unacked = 0, !.paused = FALSE]

\* _on_readable: the PTY gives a chunk.
Readable ==
  \E c \in Chunks :
    LET n == termPty.unacked + c[1]
        id == termNth + 1 IN
    /\ termPty.up /\ ~termPty.paused
    /\ Spend("chunks")
    /\ termNth' = id
    /\ termEmits' = Append(termEmits, [id |-> id, units |-> c[2]])
    /\ termPty' = [termPty EXCEPT !.scroll = @ \cup {id}, !.unacked = n,
                                  !.paused = ~termShell /\ n > HighWatermark]
    /\ UNCHANGED <<termShell, termView, termGhosts>>

\* An emit task runs: the event goes to every socket that watches.
Emitted ==
  /\ termEmits # <<>>
  /\ termEmits' = Tail(termEmits)
  /\ termView' = [v \in View |-> IF v \in Reached
                                 THEN [termView[v] EXCEPT !.wire = Append(@, Event(Head(termEmits)))]
                                 ELSE termView[v]]
  /\ UNCHANGED <<termPty, termShell, termNth, termLeft, termGhosts>>

\* _boot, _resize, _ack: what they make of the PTY.
_boot(p) == Cleared(IF p.up THEN p ELSE Spawned)
_resize(p, n) == IF p.up THEN [p EXCEPT !.size = n] ELSE p
_ack(p, n) ==
  LET left == IF p.unacked > n THEN p.unacked - n ELSE 0 IN
  IF p.up THEN [p EXCEPT !.unacked = left, !.paused = @ /\ left >= LowWatermark] ELSE p

\* A call arrives; one that mount awaits is answered.
HostCall(v) ==
  LET x == termView[v]
      c == Head(x.calls)
      y == [x EXCEPT !.calls = Tail(@),
                     !.wire = IF c.awaited /\ x.st # "off"
                              THEN Append(@, Reply(IF c.c = "output" THEN termPty.scroll ELSE {}))
                              ELSE @]
  IN  /\ x.link /\ x.calls # <<>>
      /\ Set(v, y)
      /\ termPty' = CASE c.c = "boot" -> _boot(termPty)
                      [] c.c = "resize" -> _resize(termPty, c.n)
                      [] c.c = "ack" -> _ack(termPty, c.n)
                      [] OTHER -> termPty
      /\ IF c.c = "boot" THEN Clear ELSE UNCHANGED termSound
      /\ UNCHANGED <<termShell, termEmits, termNth, termLeft, termWhole, termMounted, termRespawned>>

\* _shell: the count is cleared on the way in and on the way out.
ShellCall ==
  /\ termPty.up /\ ~termShell
  /\ Spend("shells")
  /\ termShell' = TRUE /\ termPty' = Cleared(termPty) /\ Clear
  /\ UNCHANGED <<termEmits, termNth, termView, termWhole, termMounted, termRespawned>>

ShellReturns ==
  /\ termShell /\ termShell' = FALSE
  /\ IF termPty.up THEN termPty' = Cleared(termPty) /\ Clear ELSE UNCHANGED <<termPty, termSound>>
  /\ UNCHANGED <<termEmits, termNth, termView, termLeft, termWhole, termMounted, termRespawned>>

\* _restart, and the child's exit (_on_readable at EOF).
PtyRestarts ==
  /\ Spend("restarts")
  /\ termPty' = Spawned /\ Clear /\ termRespawned' = TRUE
  /\ UNCHANGED <<termShell, termEmits, termNth, termView, termWhole, termMounted>>

PtyExits ==
  /\ termPty.up /\ ~termPty.paused
  /\ Spend("restarts")
  /\ termPty' = NoPty /\ termRespawned' = TRUE
  /\ UNCHANGED <<termShell, termEmits, termNth, termView, termSound, termWhole, termMounted>>

-----------------------------------------------------------------------------
\* The socket.

\* It drops: what is on the way is lost, and a mount that waits for a reply fails.
TermDrop(v) ==
  LET x == termView[v] IN
  /\ x.link /\ x.st # "off"
  /\ Spend("cuts")
  /\ Set(v, [x EXCEPT !.link = FALSE, !.wire = <<>>, !.calls = <<>>,
                      !.st = IF @ = "up" THEN "up" ELSE "failed"])
  /\ termSound' = termSound \ {v} /\ termWhole' = termWhole \ {v}
  /\ UNCHANGED <<termHost, termMounted, termRespawned>>

TermRedial(v) ==
  /\ ~termView[v].link
  /\ Set(v, [termView[v] EXCEPT !.link = TRUE])
  /\ UNCHANGED <<termHost, termLeft, termGhosts>>

TermNext ==
  \/ Readable \/ Emitted \/ ShellCall \/ ShellReturns \/ PtyRestarts \/ PtyExits
  \/ \E v \in View : \/ TermMount(v) \/ TermReceive(v) \/ TermUnmount(v) \/ HostCall(v)
                     \/ FrameResized(v) \/ Churn(v) \/ Tick(v) \/ AnimationFrame(v)
                     \/ TermDrop(v) \/ TermRedial(v)

-----------------------------------------------------------------------------
\* Properties.

Still(v) == termView[v].wire = <<>> /\ termView[v].calls = <<>>
Quiet == termEmits = <<>> /\ \A v \in View : Still(v)

\* Once every view has parsed what it was sent and its acks are in, the PTY is read
\* again, if one view at least has listened without a loss since the count was last
\* cleared.  What a view keeps back is below LOW_WATERMARK by one character
\* (terminal_view.ts:88-94, tools.py:357-367): with several views, views that come and
\* go, `shell` calls and characters that count twice in UTF-16.
NeverStuck == Quiet /\ termSound # {} => ~termPty.paused

\* A view that has lost no frame shows, once nothing is on its way, all of the
\* scrollback, and the newest chunk last: nothing falls between the replay and the
\* live stream (terminal_view.ts:96-100, 178-184).
ScreenCurrent ==
  \A v \in termWhole : termView[v].st = "up" /\ Quiet =>
    /\ termPty.scroll \subseteq termView[v].seen
    /\ termPty.scroll # {} => termView[v].last = Max(termPty.scroll)

\* The PTY of a single view has the size of its xterm once its calls are in, although
\* `resize` is refused before `boot` (terminal_view.ts:178-182) and only a restart,
\* which takes the size of the record, undoes it.
SizeAgrees ==
  \A v \in termWhole : termMounted = {v} /\ termView[v].st = "up" /\ Still(v) /\ ~termRespawned =>
    termPty.size = termView[v].term

\* xterm has the frame's size within the debounce and one frame, however often the
\* observer is woken (terminal_view.ts:160-175).
FitOnTime == \A v \in View : termView[v].age <= FitDelay

\* The terminal on the page is the one on the host: what is in the scrollback is on
\* screen, both have one size, and a new size of the frame is taken on within the
\* debounce (terminal_view.ts:82-184, tools.py:336, :409).
ScreenTrue == ScreenCurrent /\ SizeAgrees /\ FitOnTime
=============================================================================
