----------------------------- MODULE Scheduler -----------------------------
(***************************************************************************)
(* The `scheduler` bundle (scheduler/tools.py): one tick loop, verbs that  *)
(* run between its awaits, an in-process cache of the schedules and the    *)
(* sidecar schedules.json behind it.                                       *)
(*                                                                         *)
(* The only await that really suspends is the send to the target of a      *)
(* schedule; loads and saves go through kernel_state to a file bridge      *)
(* without suspending.  The store may be absent or sealed at any time.     *)
(***************************************************************************)
EXTENDS Integers, FiniteSets

CONSTANTS Sch,       \* schedule ids, minted
          Caller,    \* coroutines that call tick_now
          None,
          MaxRuns,   \* bound on fires per schedule
          Restarts,  \* bound on process restarts
          StoreMoves \* bound on how often the store is sealed or opened

ASSUME SchedulerConstants ==
  /\ MaxRuns \in Nat /\ Restarts \in Nat /\ StoreMoves \in Nat
  /\ None \notin Sch /\ IsFiniteSet(Caller)

VARIABLES
  store,     \* the store answers
  moves,     \* how often it was sealed or opened, a first absence included
  disk,      \* schedules.json: schedule -> [paused, runs]
  loaded,    \* sid in _cache
  cache,     \* the ids in _cache[sid]
  paused,    \* the `paused` field of each schedule object
  runs,      \* its run_count
  due,       \* now >= next_run
  minted,    \* ghost: ids handed out
  dropped,   \* ghost: ids unscheduled
  all,       \* the scheduler's own record: paused
  tick,      \* the tick loop
  call,      \* what each tick_now caller is firing, or None
  started,   \* ghost: sends begun per schedule since the last load
  dirty,     \* ghost: a load or save failed and no save has succeeded since
  extra,     \* ghost: fires of the tick loop after the schedule was unscheduled
  restarts

vars == <<store, moves, disk, loaded, cache, paused, runs, due, minted, dropped, all, tick, call,
          started, dirty, extra, restarts>>

Top == [pc |-> "top", rec |-> FALSE, todo |-> {}, ready |-> {}, cur |-> None]

TypeOK ==
  /\ store \in BOOLEAN /\ moves \in 0..StoreMoves /\ loaded \in BOOLEAN /\ all \in BOOLEAN /\ dirty \in BOOLEAN
  /\ DOMAIN disk \subseteq Sch
  /\ \A s \in DOMAIN disk : disk[s] \in [paused : BOOLEAN, runs : 0..MaxRuns]
  /\ cache \subseteq Sch /\ minted \subseteq Sch /\ dropped \subseteq minted
  /\ paused \in [Sch -> BOOLEAN] /\ runs \in [Sch -> 0..MaxRuns] /\ due \in [Sch -> BOOLEAN]
  /\ tick \in [pc : {"none", "top", "sleep", "scan", "fire"}, rec : BOOLEAN,
               todo : SUBSET Sch, ready : SUBSET Sch, cur : Sch \cup {None}]
  /\ call \in [Caller -> Sch \cup {None}]
  /\ started \in [Sch -> 0..MaxRuns] /\ extra \in [Sch -> Nat] /\ restarts \in 0..Restarts

Init ==
  /\ moves \in {0, 1} \cap 0..StoreMoves /\ store = (moves = 0)
  /\ disk = [s \in {} |-> None]
  /\ loaded = FALSE /\ cache = {}
  /\ paused = [s \in Sch |-> FALSE] /\ runs = [s \in Sch |-> 0]
  /\ due = [s \in Sch |-> FALSE]
  /\ minted = {} /\ dropped = {} /\ all = FALSE
  /\ tick = [Top EXCEPT !.pc = "none"]
  /\ call = [c \in Caller |-> None]
  /\ started = [s \in Sch |-> 0]
  /\ dirty = FALSE /\ extra = [s \in Sch |-> 0] /\ restarts = 0

-----------------------------------------------------------------------------
\* Other coroutines run only while the tick loop sleeps or awaits a target.
Free == tick.pc \in {"none", "sleep", "fire"}

\* The schedule objects as they stand in memory.
Records(C, pa, ru) == [s \in C |-> [paused |-> pa[s], runs |-> ru[s]]]

\* _load: the cache, or the sidecar read once; a store that does not answer
\* reads as no schedules, and that is cached too.
LoadAs(C, pa, ru) ==
  IF loaded
  THEN C = cache /\ pa = paused /\ ru = runs
  ELSE /\ C = IF store THEN DOMAIN disk ELSE {}
       /\ pa = [s \in Sch |-> IF s \in C THEN disk[s].paused ELSE FALSE]
       /\ ru = [s \in Sch |-> IF s \in C THEN disk[s].runs ELSE 0]

\* _save: all of the cache, or an error.
Save(C, pa, ru) ==
  IF store THEN disk' = Records(C, pa, ru) /\ dirty' = FALSE
           ELSE UNCHANGED disk /\ dirty' = TRUE

\* The clock passes a schedule's next_run.
Elapse(s) ==
  /\ Free
  /\ loaded /\ s \in minted /\ ~due[s] /\ started[s] < MaxRuns
  /\ due' = [due EXCEPT ![s] = TRUE]
  /\ UNCHANGED <<store, moves, disk, loaded, cache, paused, runs, minted, dropped, all, tick, call,
                 started, dirty, extra, restarts>>

\* What a load makes of the ghost counter: it counts from the stored run_count.
Since(ru) == IF loaded THEN started ELSE ru

\* A load on its own (list, pause or unschedule of an unknown id).
Load ==
  /\ Free
  /\ ~loaded
  /\ loaded' = TRUE
  /\ LoadAs(cache', paused', runs')
  /\ started' = runs'
  /\ dirty' = ~store
  /\ UNCHANGED <<store, moves, disk, due, minted, dropped, all, tick, call, extra, restarts>>

\* _schedule; a failed save takes the new schedule out of the cache again.
Schedule(s) ==
  /\ Free
  /\ loaded
  /\ s \notin minted
  /\ minted' = minted \cup {s}
  /\ IF store
     THEN /\ cache' = cache \cup {s}
          /\ Save(cache', paused, runs)
     ELSE UNCHANGED <<cache, disk, dirty>>
  /\ UNCHANGED <<store, moves, loaded, paused, runs, due, dropped, all, tick, call, started, extra, restarts>>

\* _unschedule: the cache first, then the save, whatever that answers.
Unschedule(s) ==
  /\ Free
  /\ loaded
  /\ s \in cache
  /\ cache' = cache \ {s}
  /\ dropped' = dropped \cup {s}
  /\ Save(cache', paused, runs)
  /\ UNCHANGED <<store, moves, loaded, paused, runs, due, minted, all, tick, call, started, extra, restarts>>

\* _pause and _resume of one schedule.
PauseOne(s, b) ==
  /\ Free
  /\ loaded
  /\ s \in cache
  /\ paused' = [paused EXCEPT ![s] = b]
  /\ Save(cache, paused', runs)
  /\ UNCHANGED <<store, moves, loaded, cache, runs, due, minted, dropped, all, tick, call, started,
                 extra, restarts>>

\* _pause and _resume of the scheduler: kernel.update of its own record.
PauseAll(b) ==
  /\ Free
  /\ all # b
  /\ all' = b
  /\ UNCHANGED <<store, moves, disk, loaded, cache, paused, runs, due, minted, dropped, tick, call,
                 started, dirty, extra, restarts>>

\* _fire up to the send.
Start(s) ==
  started' = [started EXCEPT ![s] = @ + 1]

\* Mutant: the fire and its caller both bump run_count.
CountTwice(s) == runs' = [runs EXCEPT ![s] = @ + 2]

\* The send returned or raised: run_count is bumped.
Count(s) == runs' = [runs EXCEPT ![s] = @ + 1]

-----------------------------------------------------------------------------
\* _tick_now: fire outside the tick loop, whatever `paused` and next_run say.
TickNow(c, s) ==
  /\ Free
  /\ loaded /\ call[c] = None
  /\ s \in cache
  /\ started[s] < (IF due[s] THEN MaxRuns - 1 ELSE MaxRuns)
  /\ Start(s)
  /\ call' = [call EXCEPT ![c] = s]
  /\ UNCHANGED <<store, moves, disk, loaded, cache, paused, runs, due, minted, dropped, all, tick,
                 dirty, extra, restarts>>

TickNowDone(c) ==
  /\ Free
  /\ call[c] # None
  /\ Count(call[c])
  /\ Save(cache, paused, runs')
  /\ call' = [call EXCEPT ![c] = None]
  /\ UNCHANGED <<store, moves, loaded, cache, paused, due, minted, dropped, all, tick, started,
                 extra, restarts>>

\* _boot: one tick loop.
Boot ==
  /\ tick.pc = "none"
  /\ tick' = Top
  /\ UNCHANGED <<store, moves, disk, loaded, cache, paused, runs, due, minted, dropped, all, call,
                 started, dirty, extra, restarts>>

\* _tick_loop: the record is read before the sleep ...
TickSleep ==
  /\ tick.pc = "top"
  /\ tick' = [tick EXCEPT !.pc = "sleep", !.rec = all]
  /\ UNCHANGED <<store, moves, disk, loaded, cache, paused, runs, due, minted, dropped, all, call,
                 started, dirty, extra, restarts>>

\* ... and looked at after it; then a snapshot of the schedules and the time.
TickScan ==
  /\ tick.pc = "sleep"
  /\ IF tick.rec
     THEN /\ tick' = Top
          /\ UNCHANGED <<loaded, cache, paused, runs, started, dirty>>
     ELSE /\ loaded' = TRUE
          /\ LoadAs(cache', paused', runs')
          /\ started' = Since(runs')
          /\ dirty' = IF loaded THEN dirty ELSE ~store
          /\ tick' = [tick EXCEPT !.pc = "scan", !.todo = cache', !.ready = {s \in Sch : due[s]}]
  /\ UNCHANGED <<store, moves, disk, due, minted, dropped, all, call, extra, restarts>>

TickSkip(s) ==
  /\ tick.pc = "scan" /\ s \in tick.todo
  /\ paused[s] \/ s \notin tick.ready
  /\ tick' = [tick EXCEPT !.todo = @ \ {s}]
  /\ UNCHANGED <<store, moves, disk, loaded, cache, paused, runs, due, minted, dropped, all, call,
                 started, dirty, extra, restarts>>

TickFire(s) ==
  /\ tick.pc = "scan" /\ s \in tick.todo
  /\ ~paused[s] /\ s \in tick.ready
  /\ Start(s)
  /\ extra' = [extra EXCEPT ![s] = IF s \in dropped THEN @ + 1 ELSE @]
  /\ tick' = [tick EXCEPT !.pc = "fire", !.todo = @ \ {s}, !.cur = s]
  /\ UNCHANGED <<store, moves, disk, loaded, cache, paused, runs, due, minted, dropped, all, call,
                 dirty, restarts>>

TickDone ==
  /\ tick.pc = "fire"
  /\ Count(tick.cur)
  /\ due' = [due EXCEPT ![tick.cur] = FALSE]
  /\ Save(cache, paused, runs')
  /\ tick' = [tick EXCEPT !.pc = "scan", !.cur = None]
  /\ UNCHANGED <<store, moves, loaded, cache, paused, minted, dropped, all, call, started, extra, restarts>>

\* Mutant: an exception ends the pass and the loop is left where it was.
TickAgainStuck ==
  /\ tick.pc = "scan" /\ tick.todo = {}
  /\ UNCHANGED vars

TickAgain ==
  /\ tick.pc = "scan" /\ tick.todo = {}
  /\ tick' = Top
  /\ UNCHANGED <<store, moves, disk, loaded, cache, paused, runs, due, minted, dropped, all, call,
                 started, dirty, extra, restarts>>

-----------------------------------------------------------------------------
\* The store is sealed, opened, removed or wired by someone else.
StoreMove ==
  /\ Free
  /\ moves < StoreMoves /\ moves' = moves + 1
  /\ store' = ~store
  /\ UNCHANGED <<disk, loaded, cache, paused, runs, due, minted, dropped, all, tick, call,
                 started, dirty, extra, restarts>>

\* The process ends, at any point, and a new one starts.  Its clock may have
\* passed any next_run.
Restart ==
  /\ restarts < Restarts
  /\ restarts' = restarts + 1
  /\ loaded' = FALSE /\ cache' = {}
  /\ paused' = [s \in Sch |-> FALSE] /\ runs' = [s \in Sch |-> 0]
  /\ due' \in [Sch -> BOOLEAN] /\ \A s \in Sch : due'[s] => (s \in DOMAIN disk /\ disk[s].runs < MaxRuns)
  /\ tick' = [Top EXCEPT !.pc = "none"]
  /\ call' = [c \in Caller |-> None]
  /\ started' = [s \in Sch |-> 0]
  /\ UNCHANGED <<store, moves, disk, minted, dropped, all, dirty, extra>>

TickStep ==
  \/ TickSleep \/ TickScan \/ TickDone \/ TickAgain
  \/ \E s \in Sch : TickSkip(s) \/ TickFire(s)

Next ==
  \/ Load \/ Boot \/ TickStep \/ StoreMove \/ Restart
  \/ \E s \in Sch : Elapse(s) \/ Schedule(s) \/ Unschedule(s)
  \/ \E s \in Sch, b \in BOOLEAN : PauseOne(s, b)
  \/ \E b \in BOOLEAN : PauseAll(b)
  \/ \E c \in Caller : TickNowDone(c) \/ \E s \in Sch : TickNow(c, s)

\* The tick loop runs on; a send to a target returns.
Fairness == WF_vars(TickStep)

Spec == Init /\ [][Next]_vars /\ Fairness

-----------------------------------------------------------------------------
\* The tick_now calls that are firing s.
Out(s) == {c \in Caller : call[c] = s}

\* run_count is the number of fires that came back: started fires are counted
\* or still out, also when the tick loop and tick_now fire one schedule at
\* the same time (_tick_loop, _tick_now).
RunCount ==
  loaded => \A s \in Sch :
    started[s] = runs[s] + (IF tick.cur = s THEN 1 ELSE 0) + Cardinality(Out(s))

\* Unless the store failed, the sidecar holds exactly the schedules in memory with
\* their fields: no verb and no fire forgets to save (_save and its callers).
DiskTracks == (loaded /\ ~dirty) => disk = Records(cache, paused, runs)

\* With the store always there, a schedule that was accepted and not
\* unscheduled is on disk, whatever restarts happen (_schedule, _save).
Accepted == moves = 0 => minted \ dropped \subseteq DOMAIN disk

\* After `unschedule` the tick loop fires the schedule at most once more, from
\* the snapshot of the pass that is under way (a failed save may bring it back
\* with the next process).
OnceMore == moves = 0 => \A s \in Sch : extra[s] <= 1

\* What the scheduler keeps of its schedules is right: it counts the fires that came
\* back, the sidecar agrees with it, nothing accepted is missing, and what was
\* unscheduled fires at most once more (tools.py:77 _load, :130 _tick_loop, _tick_now,
\* _schedule, _unschedule).
Accountable == TypeOK /\ RunCount /\ DiskTracks /\ Accepted /\ OnceMore

\* A due schedule fires in the end, or is paused or unscheduled, or the loop
\* is stopped: no schedule can keep the loop from getting to another (as long
\* as targets answer).
DueFires ==
  \A s \in Sch : (due[s] /\ s \in cache /\ tick.pc # "none") ~>
    (~due[s] \/ s \notin cache \/ paused[s] \/ all \/ tick.pc = "none")

\* scheduler/tools.py: `pause` without an id pauses the whole scheduler: from
\* then on the tick loop begins no fire until `resume`.
PausedQuiet == [][(all /\ all') => ~ (tick.pc = "scan" /\ tick'.pc = "fire")]_vars

\* scheduler/tools.py: a failed write is surfaced, not lost.  A schedule on
\* disk goes only when it is unscheduled.
NotLost == [][\A s \in DOMAIN disk : s \in DOMAIN disk' \/ s \in dropped']_vars
=============================================================================
