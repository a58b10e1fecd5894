---------------------------- MODULE ChromeDriver ----------------------------
(***************************************************************************)
(* The browser driver of the integration tests, py_ts/_chrome.ts: it       *)
(* launches Chrome, speaks to it over one socket with numbered commands,   *)
(* keeps a map of the page's execution contexts from its events, and       *)
(* evaluates in the iframes until something comes of it or time is up.     *)
(* An answer comes when its evaluation ends, in any order; events stay in  *)
(* theirs.  A context is its number and its frame; an evaluation gives 0   *)
(* (null, or an error) or where it ran.                                    *)
(***************************************************************************)
EXTENDS Naturals, Sequences, FiniteSets, SequencesExt

CONSTANTS CrTask,       \* evaluations that a test awaits side by side
          CrFrames,     \* the frames of the page, "main" among them
          MaxContexts,  \* bound: execution contexts ever made
          MaxIds        \* bound: commands ever sent

VARIABLES crAt, crStep,   \* how far the driver is; the command of launch it waits for
          crProc, crDir,  \* is Chrome running?  is its directory there?
          crSocket,       \* is the socket open?
          crNext, crPending,   \* msgId; pending: who waits for a number
          crContexts,     \* contexts: the driver's map
          crTask,         \* the evaluations
          crOut, crIn,    \* commands to Chrome, and what it has sent
          crEnabled, crLive, crMade   \* Chrome: Runtime is enabled; its contexts, how many ever

driver == <<crAt, crStep, crProc, crDir, crSocket>>
commands == <<crNext, crPending, crOut>>
chrome == <<crEnabled, crLive, crMade>>
crVars == <<driver, commands, crContexts, crTask, crIn, chrome>>

\* The commands of launch, in order.
Steps == <<"createTarget", "attachToTarget", "Page.enable", "Runtime.enable", "Page.getFrameTree">>
Unused == [state |-> "off", todo |-> <<>>, late |-> FALSE, got |-> <<>>]
Context(c, f) == [c |-> c, frame |-> f]

\* launch has spawned Chrome ("off": in a behaviour of something else).
DriverInit(at) ==
  /\ crAt = at /\ crStep = 0 /\ crProc = (at = "spawned") /\ crDir = crProc /\ crSocket = FALSE
  /\ crNext = 0 /\ crPending = {} /\ crOut = <<>> /\ crIn = <<>> /\ crContexts = {}
  /\ crTask = [t \in CrTask |-> Unused]
  /\ crEnabled = FALSE /\ crMade = 1 /\ crLive = {Context(1, "main")}

\* send and rawSend, with what is pending otherwise: a number of its own.
Command(pending, who, method, context) ==
  /\ crNext < MaxIds /\ crNext' = crNext + 1
  /\ crPending' = pending \cup {[id |-> crNext + 1, who |-> who, context |-> context]}
  /\ crOut' = Append(crOut, [id |-> crNext + 1, method |-> method, context |-> context])

NoCommand(pending) == crPending' = pending /\ UNCHANGED <<crNext, crOut>>

-----------------------------------------------------------------------------
\* launch and close.

\* The port file is there and the socket opens: the first command.
Dials ==
  /\ crAt = "spawned" /\ crProc
  /\ crAt' = "launching" /\ crStep' = 1 /\ crSocket' = TRUE
  /\ Command({}, "launch", Steps[1], 0)
  /\ UNCHANGED <<crProc, crDir, crContexts, crTask, crIn, chrome>>

\* It never appears: Chrome is killed and its directory removed.
NoEndpoint ==
  /\ crAt = "spawned"
  /\ crAt' = "failed" /\ crProc' = FALSE /\ crDir' = FALSE
  /\ UNCHANGED <<crStep, crSocket, commands, crContexts, crTask, crIn, chrome>>

\* The socket fails: launch throws, and Chrome and its directory stay.
SocketError ==
  /\ crAt = "spawned" /\ crAt' = "thrown"
  /\ UNCHANGED <<crStep, crProc, crDir, crSocket, commands, crContexts, crTask, crIn, chrome>>

\* close.
DriverCloses ==
  /\ crAt = "ready"
  /\ crAt' = "closed" /\ crProc' = FALSE /\ crDir' = FALSE
  /\ crSocket' = FALSE /\ crOut' = <<>> /\ crIn' = <<>>
  /\ UNCHANGED <<crStep, crNext, crPending, crContexts, crTask, chrome>>

\* Chrome dies.  Nobody listens for the end of the socket: what waits goes on waiting.
ChromeDies ==
  /\ crProc /\ crSocket
  /\ crProc' = FALSE /\ crSocket' = FALSE /\ crOut' = <<>> /\ crIn' = <<>>
  /\ UNCHANGED <<crAt, crStep, crDir, crNext, crPending, crContexts, crTask, chrome>>

-----------------------------------------------------------------------------
\* Evaluations.

\* subframeContextIds, in the order of the map.
subframeContextIds ==
  SetToSortSeq({x.c : x \in {x \in crContexts : x.frame # "main"}}, LAMBDA a, b : a < b)

\* The loop over the contexts goes on: the next evaluation, or none is left to ask.
Turn(t, task, pending) ==
  IF task.todo = <<>>
  THEN /\ crTask' = [crTask EXCEPT ![t] = [task EXCEPT !.state = "sleeps"]]
       /\ NoCommand(pending)
  ELSE /\ crTask' = [crTask EXCEPT ![t] = [task EXCEPT !.state = "asked", !.todo = Tail(@)]]
       /\ Command(pending, t, "evaluate", Head(task.todo))

\* evalInAnyIframe starts, or has slept and has time left.
Wakes(t) ==
  /\ crAt = "ready" /\ crSocket
  /\ crTask[t].state = "off" \/ (crTask[t].state = "sleeps" /\ ~crTask[t].late)
  /\ Turn(t, [crTask[t] EXCEPT !.todo = subframeContextIds], crPending)
  /\ UNCHANGED <<driver, crContexts, crIn, chrome>>

\* Its time is up, which it finds out only between two turns.
TimeIsUp(t) ==
  /\ crTask[t].state \in {"asked", "sleeps"} /\ ~crTask[t].late
  /\ crTask' = [crTask EXCEPT ![t].late = TRUE]
  /\ UNCHANGED <<driver, commands, crContexts, crIn, chrome>>

\* It returns null.
GivesUp(t) ==
  /\ crTask[t].state = "sleeps" /\ crTask[t].late
  /\ crTask' = [crTask EXCEPT ![t].state = "null"]
  /\ UNCHANGED <<driver, commands, crContexts, crIn, chrome>>

\* evalInContext returns or throws.
Evaluated(p, value, pending) ==
  IF value = 0 THEN Turn(p.who, crTask[p.who], pending)
  ELSE /\ crTask' = [crTask EXCEPT ![p.who].state = "done", ![p.who].got = <<p.context, value>>]
       /\ NoCommand(pending)

-----------------------------------------------------------------------------
\* onMessage.

\* Mutant: whoever waits longest gets the answer.
Longest(m) == {p \in crPending : \A q \in crPending : p.id <= q.id}

\* The entry an answer is for.
AnswerFor(m) == {p \in crPending : p.id = m.id}

\* launch has its answer: the next command, or the driver is ready.
Launched(pending) ==
  /\ IF crStep = Len(Steps)
     THEN crAt' = "ready" /\ NoCommand(pending) /\ UNCHANGED crStep
     ELSE /\ crStep' = crStep + 1 /\ UNCHANGED crAt
          /\ Command(pending, "launch", Steps[crStep + 1], 0)
  /\ UNCHANGED crTask

\* An answer: its entry goes, and whoever waits for it goes on.
OnAnswer(m) ==
  /\ \E p \in AnswerFor(m) :
       IF p.who = "launch" THEN Launched(crPending \ {p})
       ELSE Evaluated(p, m.value, crPending \ {p}) /\ UNCHANGED <<crAt, crStep>>
  /\ UNCHANGED crContexts

\* An event about contexts.
OnContext(m) ==
  /\ crContexts' = CASE m.method = "created" -> crContexts \cup {m.context}
                     [] m.method = "destroyed" -> crContexts \ {m.context}
                     [] m.method = "cleared" -> {}
  /\ UNCHANGED <<crAt, crStep, commands, crTask>>

DriverReceives ==
  /\ crIn # <<>> /\ crIn' = Tail(crIn)
  /\ LET m == Head(crIn) IN IF m.id > 0 THEN OnAnswer(m) ELSE OnContext(m)
  /\ UNCHANGED <<crProc, crDir, crSocket, chrome>>

-----------------------------------------------------------------------------
\* Chrome.

Answer(i, v) == [id |-> i, value |-> v, method |-> "answer", context |-> Context(0, "main")]
Event(e, x) == [id |-> 0, value |-> 0, method |-> e, context |-> x]
Reported(e, x) == IF crEnabled THEN Append(crIn, Event(e, x)) ELSE crIn

\* Runtime.enable reports the contexts there are; an evaluation finds something or not,
\* and its context may be gone.
ChromeAnswers(i) ==
  LET q == crOut[i] IN
  /\ crSocket /\ crOut' = RemoveAt(crOut, i)
  /\ crEnabled' = (crEnabled \/ q.method = "Runtime.enable")
  /\ \E v \in {0} \cup ({q.context} \cap {x.c : x \in crLive}) :
       crIn' = (IF q.method # "Runtime.enable" THEN crIn
                ELSE crIn \o [k \in 1..Cardinality(crLive) |->
                                Event("created", SetToSortSeq(crLive, LAMBDA a, b : a.c < b.c)[k])])
               \o <<Answer(q.id, v)>>
  /\ UNCHANGED <<driver, crNext, crPending, crContexts, crTask, crLive, crMade>>

\* A frame gets a context; a frame goes; the page navigates.
ContextMade(f) ==
  LET x == Context(crMade + 1, f) IN
  /\ crSocket /\ crMade < MaxContexts /\ crMade' = crMade + 1
  /\ \A y \in crLive : y.frame # f
  /\ crLive' = crLive \cup {x} /\ crIn' = Reported("created", x)
  /\ UNCHANGED <<driver, commands, crContexts, crTask, crEnabled>>

ContextGone(x) ==
  /\ crSocket /\ x \in crLive /\ x.frame # "main"
  /\ crLive' = crLive \ {x} /\ crIn' = Reported("destroyed", x)
  /\ UNCHANGED <<driver, commands, crContexts, crTask, crEnabled, crMade>>

Navigates ==
  /\ crSocket /\ crMade < MaxContexts
  /\ crLive' = {} /\ crLive # {} /\ crIn' = Reported("cleared", Context(0, "main"))
  /\ UNCHANGED <<driver, commands, crContexts, crTask, crEnabled, crMade>>

DriverNext ==
  \/ Dials \/ NoEndpoint \/ SocketError \/ DriverCloses \/ ChromeDies
  \/ DriverReceives \/ Navigates
  \/ \E i \in DOMAIN crOut : ChromeAnswers(i)
  \/ \E t \in CrTask : Wakes(t) \/ TimeIsUp(t) \/ GivesUp(t)
  \/ \E f \in CrFrames : ContextMade(f)
  \/ \E x \in crLive : ContextGone(x)

-----------------------------------------------------------------------------
\* Properties.

\* The map of contexts is Chrome's once its events are in, whatever frames came and went
\* meanwhile; an evaluation has a value only from the context it asked, however many run
\* side by side; it gives up only when its time is up; and a number is pending exactly
\* while its command or its answer is on the way, unless Chrome has died (_chrome.ts:128-200
\* and 226-271).
DriverTrue ==
  /\ crEnabled /\ crIn = <<>> /\ crSocket => crContexts = crLive
  /\ \A t \in CrTask :
       /\ crTask[t].got # <<>> => crTask[t].got[1] = crTask[t].got[2]
       /\ crTask[t].state = "null" => crTask[t].late
  /\ crSocket => {p.id : p \in crPending} =
                 {crOut[i].id : i \in DOMAIN crOut} \cup ({crIn[i].id : i \in DOMAIN crIn} \ {0})
=============================================================================
