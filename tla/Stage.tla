-------------------------------- MODULE Stage --------------------------------
(***************************************************************************)
(* The canvas as a stage, bundles/canvas/canvas.ts: zoom and pan of the    *)
(* world, the camera of the GL host that follows them (gl_host.ts), and    *)
(* the pointer gestures that move and size a frame.  One axis of two, and  *)
(* one frame.  Zooms are in units of 1/Unit and lengths in whole pixels,   *)
(* where the code has floats: the quotients are rounded down.              *)
(***************************************************************************)
EXTENDS Integers, FiniteSets

CONSTANTS ZoomMin, ZoomMax,     \* in units
          MinWidth,             \* of a frame
          Spots,                \* where the pointer may be
          Widths,               \* of the window
          StageBudgets          \* bounds: turns of the wheel, gestures, and changes of
                                \* the window or, by others, of the record

VARIABLES zoom, targetZ, offset,   \* view.z, targetZ, view.ox
          transform,               \* style.transform of the world
          window,                  \* innerWidth
          camera, rendered,        \* of the GL host, once there is one: camera and size
          pointer, gesture,        \* the pointer, and the gestures under way
          rect, saved,             \* the frame: the style of its element, its record
          left                     \* what is left of the bounds

viewOf == <<zoom, targetZ, offset>>
glOf == <<camera, rendered>>
frameOf == <<rect, saved>>
stageVars == <<viewOf, transform, window, glOf, pointer, gesture, frameOf, left>>

Unit == 10000

ASSUME StageAssumption == {ZoomMin, ZoomMax} \subseteq Nat /\ ZoomMin <= Unit /\ Unit <= ZoomMax

NoGl == [zoom |-> 0, look |-> 0]
\* A use of a bound.
Spend(b) == left[b] > 0 /\ left' = [left EXCEPT ![b] = @ - 1]

Off == [on |-> FALSE, from |-> 0, origin |-> 0, engaged |-> FALSE]
Gestures == {"pan", "move", "size"}

\* applyCamera: it looks at the world point in the middle of the window.
Camera(z, ox, w) == [zoom |-> z, look |-> ((w \div 2 - ox) * Unit) \div z - w \div 2]

\* Mutant: the camera is left behind.
WorldOnly(z, ox, w) == transform' = [z |-> z, ox |-> ox] /\ UNCHANGED camera

\* applyView.
applyView(z, ox, w) ==
  /\ transform' = [z |-> z, ox |-> ox]
  /\ camera' = IF camera = NoGl THEN NoGl ELSE Camera(z, ox, w)

StageInit ==
  /\ zoom = Unit /\ targetZ = Unit /\ offset = 0
  /\ transform = [z |-> Unit, ox |-> 0]
  /\ window \in Widths /\ camera = NoGl /\ rendered = 0
  /\ pointer \in Spots /\ gesture = [g \in Gestures |-> Off]
  /\ rect = [x |-> 40, w |-> 480] /\ saved = rect
  /\ left \in StageBudgets

-----------------------------------------------------------------------------
\* Zoom.

AtMost(a, b) == IF a < b THEN a ELSE b
AtLeast(a, b) == IF a > b THEN a ELSE b
Distance(a, b) == IF a > b THEN a - b ELSE b - a

\* A turn of the wheel outside the frames.
wheel ==
  /\ Spend("wheels")
  /\ \E factor \in {95, 105} :
       targetZ' = AtLeast(ZoomMin, AtMost(ZoomMax, (targetZ * factor) \div 100))
  /\ UNCHANGED <<zoom, offset, transform, window, glOf, pointer, gesture, frameOf>>

\* The zoom after a frame: ZOOM_LERP of the way, and the rest if it is small.
NextZoom(z, t) ==
  LET n == z + ((t - z) * 72) \div 100
  IN  IF Distance(t, n) < 5 THEN t ELSE n

\* tick, about the middle of the window.
tick ==
  LET z  == NextZoom(zoom, targetZ)
      cx == window \div 2
      ox == cx - ((cx - offset) * z) \div zoom
  IN  /\ zoom # targetZ
      /\ zoom' = z /\ offset' = ox
      /\ applyView(z, ox, window)
      /\ UNCHANGED <<targetZ, window, rendered, pointer, gesture, frameOf, left>>

-----------------------------------------------------------------------------
\* Gestures.  Any number may be under way, one for each button and listener.

\* mousedown on the canvas: a pan, engaged at once with the middle button.
PanDown ==
  /\ ~gesture["pan"].on /\ Spend("downs")
  /\ \E middle \in BOOLEAN :
       gesture' = [gesture EXCEPT !["pan"] =
                     [on |-> TRUE, from |-> pointer, origin |-> offset, engaged |-> middle]]
  /\ UNCHANGED <<viewOf, transform, window, glOf, pointer, frameOf>>

\* startDrag.
startDrag ==
  /\ ~gesture["move"].on /\ Spend("downs")
  /\ gesture' = [gesture EXCEPT !["move"] =
                   [on |-> TRUE, from |-> pointer, origin |-> rect.x, engaged |-> TRUE]]
  /\ UNCHANGED <<viewOf, transform, window, glOf, pointer, frameOf>>

\* startResize.
startResize ==
  /\ ~gesture["size"].on /\ Spend("downs")
  /\ gesture' = [gesture EXCEPT !["size"] =
                   [on |-> TRUE, from |-> pointer, origin |-> rect.w, engaged |-> TRUE]]
  /\ UNCHANGED <<viewOf, transform, window, glOf, pointer, frameOf>>

\* A pan engages after more than four pixels.
Engages(p) ==
  [gesture EXCEPT !["pan"].engaged = @ \/ (gesture["pan"].on /\ Distance(p, gesture["pan"].from) > 4)]

\* What a gesture makes of its origin: pixels of the screen, in the world's scale.
Dragged(g, p) == gesture[g].origin + ((p - gesture[g].from) * Unit) \div zoom

\* mousemove: the listeners of every gesture.
mousemove(p) ==
  LET pans == Engages(p)["pan"].engaged
      ox   == IF pans THEN gesture["pan"].origin + p - gesture["pan"].from ELSE offset
  IN  /\ p # pointer /\ pointer' = p
      /\ gesture' = Engages(p)
      /\ offset' = ox
      /\ IF pans THEN applyView(zoom, ox, window) ELSE UNCHANGED <<transform, camera>>
      /\ rect' = [x |-> IF gesture["move"].on THEN Dragged("move", p) ELSE rect.x,
                  w |-> IF gesture["size"].on THEN AtLeast(MinWidth, Dragged("size", p)) ELSE rect.w]
      /\ UNCHANGED <<zoom, targetZ, window, rendered, saved, left>>

\* mouseup ends them all: persistRect of what they have changed, and the refresh it
\* starts puts the frame where its record says.
mouseup ==
  /\ \E g \in Gestures : gesture[g].on
  /\ gesture' = [g \in Gestures |-> Off]
  /\ saved' = [x |-> IF gesture["move"].on THEN rect.x ELSE saved.x,
               w |-> IF gesture["size"].on THEN rect.w ELSE saved.w]
  /\ rect' = saved'
  /\ UNCHANGED <<viewOf, transform, window, glOf, pointer, left>>

\* Another program moves the frame: the refresh applies its record, gesture or not.
RecordMoved ==
  /\ Spend("changes")
  /\ saved' = [saved EXCEPT !.x = @ + 100]
  /\ rect' = saved'
  /\ UNCHANGED <<viewOf, transform, window, glOf, pointer, gesture>>

-----------------------------------------------------------------------------
\* The window, and the GL host.

resize(w) ==
  /\ w # window /\ window' = w
  /\ Spend("changes")
  /\ rendered' = IF camera = NoGl THEN rendered ELSE w
  /\ applyView(zoom, offset, w)
  /\ UNCHANGED <<viewOf, pointer, gesture, frameOf>>

\* createGlHost is ready: it reads the view as it is by then.
GlReady ==
  /\ camera = NoGl
  /\ camera' = Camera(zoom, offset, window) /\ rendered' = window
  /\ UNCHANGED <<viewOf, transform, window, pointer, gesture, frameOf, left>>

StageNext ==
  \/ wheel \/ tick \/ PanDown \/ startDrag \/ startResize \/ mouseup \/ RecordMoved \/ GlReady
  \/ \E p \in Spots : mousemove(p)
  \/ \E w \in Widths : resize(w)

StageSpec == StageInit /\ [][StageNext]_stageVars

-----------------------------------------------------------------------------
\* Properties.

\* Whatever gestures, zoom frames and resizes come in whatever order, the world is drawn
\* with the present zoom and offset, the GL camera looks at the world point in the middle
\* of the present window at the same zoom ("GL camera locked", canvas.ts:89-120), and a
\* frame nobody has hold of is where its record says.
StageLocked ==
  /\ transform = [z |-> zoom, ox |-> offset]
  /\ camera # NoGl => camera = Camera(zoom, offset, window) /\ rendered = window
  /\ ~gesture["move"].on => rect.x = saved.x
  /\ ~gesture["size"].on => rect.w = saved.w

\* Until the zoom has reached its target, the next frame brings it nearer, wherever the
\* wheel has moved the target meanwhile: the frames come to an end (tick, canvas.ts:122-135).
ZoomNears ==
  /\ zoom # targetZ => Distance(NextZoom(zoom, targetZ), targetZ) < Distance(zoom, targetZ)
  /\ zoom \in ZoomMin..ZoomMax

\* The stage shows what its variables say, and its zoom comes to rest where the wheel has
\* put it (canvas.ts:89-178, gl_host.ts:163-178).
StageTrue == StageLocked /\ ZoomNears
=============================================================================
