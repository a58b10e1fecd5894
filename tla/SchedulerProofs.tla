-------------------------- MODULE SchedulerProofs --------------------------
(***************************************************************************)
(* The scheduler's accounts are right for any schedules, callers, bounds   *)
(* and store: the inductive invariant behind Accountable, and its proof.   *)
(***************************************************************************)
EXTENDS Scheduler, FiniteSetTheorems, TLAPS

\* The sidecar is a function; schedules come from the counter and from nowhere else.
Sidecar ==
  /\ disk \in [DOMAIN disk -> [paused : BOOLEAN, runs : 0..MaxRuns]]
  /\ cache \cup DOMAIN disk \subseteq minted

\* A store that was always there never failed, and what was unscheduled is gone
\* from the cache and from disk.
StoreThere ==
  moves = 0 => store /\ ~dirty /\ (cache \cup DOMAIN disk) \cap dropped = {}

\* Nothing fires before the first load, and the loop keeps its snapshot only during
\* a pass.
Phases ==
  /\ ~loaded => /\ cache = {} /\ tick.pc \in {"none", "top", "sleep"}
                /\ \A c \in Caller : call[c] = None
  /\ tick.pc = "fire" <=> tick.cur # None
  /\ tick.pc \notin {"scan", "fire"} => tick.todo = {}

\* A schedule that is due may still be started, unless the loop is firing it; what the
\* pass has left to fire is due.
DueMayFire ==
  \A s \in Sch :
    /\ due[s] => IF loaded THEN s = tick.cur \/ started[s] < MaxRuns
                 ELSE s \in DOMAIN disk /\ disk[s].runs < MaxRuns
    /\ s \in tick.todo \cap tick.ready => due[s] /\ s # tick.cur

\* The fire after `unschedule` is over with this pass.
ExtraSpent ==
  moves = 0 => \A s \in Sch : extra[s] > 0 => s \in dropped /\ s \notin tick.todo

\* The inductive invariant.
IInv ==
  /\ TypeOK /\ RunCount /\ DiskTracks /\ Accepted /\ OnceMore
  /\ Sidecar /\ StoreThere /\ Phases /\ DueMayFire /\ ExtraSpent

Stored == [paused : BOOLEAN, runs : 0..MaxRuns]

\* A save writes a well formed sidecar, or leaves the old one and is remembered.
LEMMA SaveWrites ==
  ASSUME disk \in [DOMAIN disk -> Stored], DOMAIN disk \subseteq Sch,
         NEW C \in SUBSET Sch, NEW pa \in [Sch -> BOOLEAN], NEW ru \in [Sch -> 0..MaxRuns],
         store \in BOOLEAN, Save(C, pa, ru)
  PROVE  /\ disk' \in [DOMAIN disk' -> Stored]
         /\ DOMAIN disk' = IF store THEN C ELSE DOMAIN disk
         /\ disk' = IF store THEN Records(C, pa, ru) ELSE disk
         /\ dirty' = ~store
<1>1. CASE store
  <2>1. disk' = Records(C, pa, ru) /\ dirty' = FALSE
    BY Zenon, <1>1 DEF Save
  <2>2. \A s \in C : [paused |-> pa[s], runs |-> ru[s]] \in Stored
    BY Zenon DEF Stored
  <2>3. Records(C, pa, ru) \in [C -> Stored]
    BY Zenon, <2>2 DEF Records
  <2> QED BY ZenonT(30), <1>1, <2>1, <2>3
<1>2. CASE ~store
  BY ZenonT(30), <1>2 DEF Save, Records, Stored
<1> QED
  BY Zenon, <1>1, <1>2

-----------------------------------------------------------------------------
\* A fresh scheduler: no schedules, no loop.
LEMMA InitIInv == Init => IInv
<1> SUFFICES ASSUME Init PROVE IInv
  BY Zenon
<1> USE SchedulerConstants
<1>1. /\ tick = [pc |-> "none", rec |-> FALSE, todo |-> {}, ready |-> {}, cur |-> None]
      /\ DOMAIN disk = {} /\ disk = [s \in {} |-> None] /\ moves \in 0..StoreMoves
      /\ store \in BOOLEAN
  BY ZenonT(30) DEF Init, Top
<1>2. TypeOK
  <2>1. tick \in [pc : {"none", "top", "sleep", "scan", "fire"}, rec : BOOLEAN,
                  todo : SUBSET Sch, ready : SUBSET Sch, cur : Sch \cup {None}]
    BY Zenon, <1>1
  <2>2. /\ DOMAIN disk \subseteq Sch
        /\ \A s \in DOMAIN disk : disk[s] \in [paused : BOOLEAN, runs : 0..MaxRuns]
    BY Zenon, <1>1
  <2>3. /\ paused \in [Sch -> BOOLEAN] /\ runs \in [Sch -> 0..MaxRuns] /\ due \in [Sch -> BOOLEAN]
        /\ call \in [Caller -> Sch \cup {None}] /\ started \in [Sch -> 0..MaxRuns]
        /\ extra \in [Sch -> Nat]
    BY DEF Init
  <2>4. loaded \in BOOLEAN /\ all \in BOOLEAN /\ dirty \in BOOLEAN
    BY ZenonT(30) DEF Init
  <2>5. restarts \in 0..Restarts /\ cache \subseteq Sch /\ minted \subseteq Sch /\ dropped \subseteq minted
    BY DEF Init
  <2> QED BY Zenon, <1>1, <2>1, <2>2, <2>3, <2>4, <2>5 DEF TypeOK
<1>3. Sidecar /\ StoreThere
  BY ZenonT(30), <1>1 DEF Init, Sidecar, StoreThere
<1>4. Phases /\ DueMayFire /\ ExtraSpent
  BY <1>1 DEF Init, Phases, DueMayFire, ExtraSpent
<1>5. RunCount /\ DiskTracks /\ Accepted /\ OnceMore
  BY DEF Init, RunCount, DiskTracks, Accepted, OnceMore
<1> QED
  BY Zenon, <1>2, <1>3, <1>4, <1>5 DEF IInv

\* The clock makes a schedule due (next_run, tools.py _tick_loop).
LEMMA ElapseStep ==
  ASSUME IInv, NEW s \in Sch, Elapse(s)
  PROVE  IInv'
<1> USE SchedulerConstants
<1>1. TypeOK'
  BY Zenon DEF IInv, TypeOK, DueMayFire, Phases, Sidecar, Elapse, Free
<1>2. RunCount' /\ OnceMore'
  BY DEF IInv, TypeOK, RunCount, Out, Phases, OnceMore, ExtraSpent, Elapse, Free
<1>3. DiskTracks' /\ Accepted' /\ Sidecar' /\ StoreThere'
  BY Zenon DEF IInv, TypeOK, DiskTracks, Accepted, StoreThere, Sidecar, Phases, Elapse, Free
<1>4. Phases' /\ DueMayFire' /\ ExtraSpent'
  BY Zenon DEF IInv, TypeOK, Phases, DueMayFire, ExtraSpent, Elapse, Free
<1> QED
  BY Zenon, <1>1, <1>2, <1>3, <1>4 DEF IInv

\* Pausing or resuming the scheduler itself touches its own record only (_pause, _resume).
LEMMA PauseAllStep ==
  ASSUME IInv, NEW b \in BOOLEAN, PauseAll(b)
  PROVE  IInv'
<1> USE SchedulerConstants
<1>1. TypeOK'
  BY Zenon DEF IInv, TypeOK, DueMayFire, Phases, Sidecar, PauseAll, Free
<1>2. RunCount' /\ OnceMore'
  BY DEF IInv, TypeOK, RunCount, Out, Phases, OnceMore, ExtraSpent, PauseAll, Free
<1>3. DiskTracks' /\ Accepted' /\ Sidecar' /\ StoreThere'
  BY Zenon DEF IInv, TypeOK, DiskTracks, Accepted, StoreThere, Sidecar, Phases, PauseAll, Free
<1>4. Phases' /\ DueMayFire' /\ ExtraSpent'
  BY Zenon DEF IInv, TypeOK, Phases, DueMayFire, ExtraSpent, PauseAll, Free
<1> QED
  BY Zenon, <1>1, <1>2, <1>3, <1>4 DEF IInv

\* _boot starts the loop with an empty snapshot.
LEMMA BootStep ==
  ASSUME IInv, Boot
  PROVE  IInv'
<1> USE SchedulerConstants
<1>1. TypeOK'
  BY Zenon DEF IInv, TypeOK, DueMayFire, Phases, Sidecar, Boot, Top
<1>2. RunCount' /\ OnceMore'
  BY DEF IInv, TypeOK, RunCount, Out, Phases, OnceMore, ExtraSpent, Boot, Top
<1>3. DiskTracks' /\ Accepted' /\ Sidecar' /\ StoreThere'
  BY Zenon DEF IInv, TypeOK, DiskTracks, Accepted, StoreThere, Sidecar, Phases, Boot, Top
<1>4. Phases' /\ DueMayFire' /\ ExtraSpent'
  BY Zenon DEF IInv, TypeOK, Phases, DueMayFire, ExtraSpent, Boot, Top
<1> QED
  BY Zenon, <1>1, <1>2, <1>3, <1>4 DEF IInv

\* The loop reads its record and sleeps (_tick_loop).
LEMMA TickSleepStep ==
  ASSUME IInv, TickSleep
  PROVE  IInv'
<1> USE SchedulerConstants
<1>1. TypeOK'
  BY ZenonT(30) DEF IInv, TypeOK, DueMayFire, Phases, Sidecar, TickSleep
<1>2. RunCount' /\ OnceMore'
  BY DEF IInv, TypeOK, RunCount, Out, Phases, OnceMore, ExtraSpent, TickSleep
<1>3. DiskTracks' /\ Accepted' /\ Sidecar' /\ StoreThere'
  BY Zenon DEF IInv, TypeOK, DiskTracks, Accepted, StoreThere, Sidecar, Phases, TickSleep
<1>4. Phases' /\ DueMayFire' /\ ExtraSpent'
  BY Zenon DEF IInv, TypeOK, Phases, DueMayFire, ExtraSpent, TickSleep
<1> QED
  BY Zenon, <1>1, <1>2, <1>3, <1>4 DEF IInv

\* A paused schedule, or one that is not due, leaves the snapshot unfired (_tick_loop).
LEMMA TickSkipStep ==
  ASSUME IInv, NEW s \in Sch, TickSkip(s)
  PROVE  IInv'
<1> USE SchedulerConstants
<1>1. TypeOK'
  BY Zenon DEF IInv, TypeOK, DueMayFire, Phases, Sidecar, TickSkip
<1>2. RunCount' /\ OnceMore'
  BY DEF IInv, TypeOK, RunCount, Out, Phases, OnceMore, ExtraSpent, TickSkip
<1>3. DiskTracks' /\ Accepted' /\ Sidecar' /\ StoreThere'
  BY Zenon DEF IInv, TypeOK, DiskTracks, Accepted, StoreThere, Sidecar, Phases, TickSkip
<1>4. Phases' /\ DueMayFire' /\ ExtraSpent'
  BY Zenon DEF IInv, TypeOK, Phases, DueMayFire, ExtraSpent, TickSkip
<1> QED
  BY Zenon, <1>1, <1>2, <1>3, <1>4 DEF IInv

\* The pass is over (_tick_loop).
LEMMA TickAgainStep ==
  ASSUME IInv, TickAgain
  PROVE  IInv'
<1> USE SchedulerConstants
<1>1. TypeOK'
  BY Zenon DEF IInv, TypeOK, DueMayFire, Phases, Sidecar, TickAgain, Top
<1>2. RunCount' /\ OnceMore'
  BY DEF IInv, TypeOK, RunCount, Out, Phases, OnceMore, ExtraSpent, TickAgain, Top
<1>3. DiskTracks' /\ Accepted' /\ Sidecar' /\ StoreThere'
  BY Zenon DEF IInv, TypeOK, DiskTracks, Accepted, StoreThere, Sidecar, Phases, TickAgain, Top
<1>4. Phases' /\ DueMayFire' /\ ExtraSpent'
  BY Zenon DEF IInv, TypeOK, Phases, DueMayFire, ExtraSpent, TickAgain, Top
<1> QED
  BY Zenon, <1>1, <1>2, <1>3, <1>4 DEF IInv

\* The store comes or goes: from then on it was not always there (_load, _save).
LEMMA StoreMoveStep ==
  ASSUME IInv, StoreMove
  PROVE  IInv'
<1> USE SchedulerConstants
<1>1. TypeOK'
  BY DEF IInv, TypeOK, DueMayFire, Phases, Sidecar, StoreMove, Free
<1>2. RunCount' /\ OnceMore'
  BY DEF IInv, TypeOK, RunCount, Out, Phases, OnceMore, ExtraSpent, StoreMove, Free
<1>3. DiskTracks' /\ Accepted' /\ Sidecar' /\ StoreThere'
  BY DEF IInv, TypeOK, DiskTracks, Accepted, StoreThere, Sidecar, Phases, StoreMove, Free
<1>4. Phases' /\ DueMayFire' /\ ExtraSpent'
  BY DEF IInv, TypeOK, Phases, DueMayFire, ExtraSpent, StoreMove, Free
<1> QED
  BY Zenon, <1>1, <1>2, <1>3, <1>4 DEF IInv

\* The loop begins a fire of a due schedule of its snapshot (_tick_loop, _fire).
LEMMA TickFireStep ==
  ASSUME IInv, NEW s \in Sch, TickFire(s)
  PROVE  IInv'
<1> USE SchedulerConstants
<1>1. /\ s \in tick.todo /\ s \in tick.ready /\ tick.cur = None /\ due[s] /\ loaded
      /\ started[s] < MaxRuns /\ tick' = [tick EXCEPT !.pc = "fire", !.todo = @ \ {s}, !.cur = s]
      /\ started' = [started EXCEPT ![s] = @ + 1]
  BY Zenon DEF TickFire, Start, IInv, TypeOK, Phases, DueMayFire
<1>2. TypeOK'
  <2>1. started' \in [Sch -> 0..MaxRuns] /\ extra' \in [Sch -> Nat]
    BY <1>1 DEF IInv, TypeOK, TickFire
  <2>2. tick' \in [pc : {"none", "top", "sleep", "scan", "fire"}, rec : BOOLEAN,
                   todo : SUBSET Sch, ready : SUBSET Sch, cur : Sch \cup {None}]
    BY ZenonT(30), <1>1 DEF IInv, TypeOK
  <2> QED BY Zenon, <2>1, <2>2 DEF IInv, TypeOK, TickFire
<1>3. RunCount'
  <2>1. \A q \in Sch : Out(q)' = Out(q) /\ Cardinality(Out(q)) \in Nat
    BY Zenon, FS_Subset, FS_CardinalityType DEF TickFire, Out
  <2> QED BY <1>1, <2>1 DEF IInv, TypeOK, RunCount, TickFire
<1>4. OnceMore' /\ ExtraSpent'
  BY <1>1 DEF IInv, TypeOK, OnceMore, ExtraSpent, TickFire
<1>5. DiskTracks' /\ Accepted' /\ Sidecar' /\ StoreThere'
  BY Zenon DEF IInv, TypeOK, DiskTracks, Accepted, StoreThere, Sidecar, TickFire
<1>6. Phases' /\ DueMayFire'
  BY <1>1 DEF IInv, TypeOK, Phases, DueMayFire, TickFire
<1> QED
  BY Zenon, <1>2, <1>3, <1>4, <1>5, <1>6 DEF IInv

\* A new schedule is kept only if it was saved.
LEMMA ScheduleStep ==
  ASSUME IInv, NEW s \in Sch, Schedule(s)
  PROVE  IInv'
<1> USE SchedulerConstants
<1>0. TypeOK /\ Sidecar
  BY Zenon DEF IInv
<1>1. CASE ~store
  <2>1. TypeOK'
    BY Zenon, <1>0, <1>1 DEF Schedule, TypeOK
  <2>2. (RunCount /\ OnceMore /\ Phases /\ DueMayFire /\ ExtraSpent)'
    BY <1>1 DEF IInv, Schedule, TypeOK, RunCount, Out, OnceMore, Phases, DueMayFire, ExtraSpent
  <2>3. (DiskTracks /\ Accepted /\ Sidecar /\ StoreThere)'
    BY Zenon, <1>1 DEF IInv, Schedule, TypeOK, DiskTracks, Records, Accepted, Sidecar, StoreThere
  <2> QED BY Zenon, <2>1, <2>2, <2>3 DEF IInv
<1>2. CASE store
  <2>1. /\ disk' \in [DOMAIN disk' -> Stored] /\ DOMAIN disk' = cache \cup {s}
        /\ disk' = Records(cache', paused', runs') /\ dirty' = FALSE
    BY ZenonT(30), <1>0, <1>2, SaveWrites DEF Schedule, TypeOK, Sidecar, Stored
  <2>2. TypeOK'
    BY ZenonT(30), <1>0, <1>2, <2>1 DEF Schedule, TypeOK, Stored
  <2>3. (RunCount /\ OnceMore /\ Phases /\ DueMayFire /\ ExtraSpent)'
    BY <1>2 DEF IInv, Schedule, TypeOK, RunCount, Out, OnceMore, Phases, DueMayFire, ExtraSpent
  <2>4. moves = 0 => minted \ dropped \subseteq cache
    BY Zenon DEF IInv, Accepted, StoreThere, DiskTracks, Records, Schedule
  <2>5. (DiskTracks /\ Accepted /\ Sidecar /\ StoreThere)'
    BY <1>0, <1>2, <2>1, <2>4 DEF IInv, Schedule, TypeOK, DiskTracks, Accepted, Sidecar, StoreThere, Stored
  <2> QED BY Zenon, <2>2, <2>3, <2>5 DEF IInv
<1> QED
  BY Zenon, <1>1, <1>2

\* The cache comes first, then the save, whatever that answers.
LEMMA UnscheduleStep ==
  ASSUME IInv, NEW s \in Sch, Unschedule(s)
  PROVE  IInv'
<1> USE SchedulerConstants
<1>0. TypeOK /\ Sidecar
  BY Zenon DEF IInv
<1>1. /\ disk' \in [DOMAIN disk' -> Stored]
      /\ DOMAIN disk' = IF store THEN cache' ELSE DOMAIN disk
      /\ disk' = IF store THEN Records(cache', paused', runs') ELSE disk
      /\ dirty' = ~store
  BY ZenonT(30), <1>0, SaveWrites DEF Unschedule, TypeOK, Sidecar, Stored
<1>2. TypeOK'
  BY ZenonT(30), <1>0, <1>1 DEF Unschedule, TypeOK, Sidecar, Stored
<1>3. (RunCount /\ OnceMore /\ Phases /\ DueMayFire /\ ExtraSpent)'
  BY DEF IInv, Unschedule, TypeOK, RunCount, Out, OnceMore, Phases, DueMayFire, ExtraSpent
<1>4. moves = 0 => minted \ dropped \subseteq cache
  BY Zenon DEF IInv, Accepted, StoreThere, DiskTracks, Records, Unschedule
<1>5. (DiskTracks /\ Accepted /\ Sidecar /\ StoreThere)'
  BY ZenonT(30), <1>0, <1>1, <1>4
     DEF IInv, Unschedule, TypeOK, DiskTracks, Accepted, Sidecar, StoreThere, Stored
<1> QED
  BY Zenon, <1>2, <1>3, <1>5 DEF IInv

\* Pausing one schedule saves the new field with the rest (_pause, _resume).
LEMMA PauseOneStep ==
  ASSUME IInv, NEW s \in Sch, NEW b \in BOOLEAN, PauseOne(s, b)
  PROVE  IInv'
<1> USE SchedulerConstants
<1>0. TypeOK /\ Sidecar /\ paused' \in [Sch -> BOOLEAN]
  BY Zenon DEF IInv, TypeOK, PauseOne
<1>1. /\ disk' \in [DOMAIN disk' -> Stored]
      /\ DOMAIN disk' = IF store THEN cache ELSE DOMAIN disk
      /\ disk' = IF store THEN Records(cache', paused', runs') ELSE disk
      /\ dirty' = ~store
  BY ZenonT(30), <1>0, SaveWrites DEF PauseOne, TypeOK, Sidecar, Stored
<1>2. TypeOK'
  BY ZenonT(30), <1>0, <1>1 DEF PauseOne, TypeOK, Sidecar, Stored
<1>3. (RunCount /\ OnceMore /\ Phases /\ DueMayFire /\ ExtraSpent)'
  BY DEF IInv, PauseOne, TypeOK, RunCount, Out, OnceMore, Phases, DueMayFire, ExtraSpent
<1>4. moves = 0 => minted \ dropped \subseteq cache
  BY Zenon DEF IInv, Accepted, StoreThere, DiskTracks, Records, PauseOne
<1>5. (DiskTracks /\ Accepted /\ Sidecar /\ StoreThere)'
  BY ZenonT(30), <1>0, <1>1, <1>4 DEF IInv, PauseOne, TypeOK, DiskTracks, Accepted, Sidecar, StoreThere, Stored
<1> QED
  BY Zenon, <1>2, <1>3, <1>5 DEF IInv

-----------------------------------------------------------------------------
\* What a load makes of cache, fields and run counts is well formed, comes from disk,
\* and agrees with it when the store answers.
LEMMA LoadedFrom ==
  ASSUME IInv, ~loaded, LoadAs(cache', paused', runs')
  PROVE  /\ cache' \subseteq DOMAIN disk /\ cache' \subseteq Sch
         /\ paused' \in [Sch -> BOOLEAN] /\ runs' \in [Sch -> 0..MaxRuns]
         /\ store => disk = Records(cache', paused', runs')
         /\ \A s \in Sch : s \in DOMAIN disk /\ disk[s].runs < MaxRuns => runs'[s] < MaxRuns
<1> USE SchedulerConstants
<1>1. /\ cache' = IF store THEN DOMAIN disk ELSE {}
      /\ paused' = [s \in Sch |-> IF s \in cache' THEN disk[s].paused ELSE FALSE]
      /\ runs' = [s \in Sch |-> IF s \in cache' THEN disk[s].runs ELSE 0]
  BY ZenonT(30) DEF LoadAs
<1>2. \A s \in DOMAIN disk : /\ s \in Sch /\ disk[s].paused \in BOOLEAN /\ disk[s].runs \in 0..MaxRuns
                             /\ disk[s] = [paused |-> disk[s].paused, runs |-> disk[s].runs]
  BY Zenon DEF IInv, TypeOK
<1>3. cache' \subseteq DOMAIN disk /\ cache' \subseteq Sch
  BY Zenon, <1>1, <1>2
<1>4. paused' \in [Sch -> BOOLEAN]
  BY ZenonT(30), <1>1, <1>2, <1>3
<1>5. runs' \in [Sch -> 0..MaxRuns]
  BY <1>1, <1>2, <1>3
<1>6. ASSUME store PROVE disk = Records(cache', paused', runs')
  <2>1. \A s \in DOMAIN disk : [paused |-> paused'[s], runs |-> runs'[s]] = disk[s]
    BY Zenon, <1>1, <1>2, <1>6
  <2>2. disk = [s \in DOMAIN disk |-> disk[s]]
    BY Zenon DEF IInv, Sidecar
  <2> QED BY ZenonT(30), <1>1, <1>6, <2>1, <2>2 DEF Records
<1>7. \A s \in Sch : s \in DOMAIN disk /\ disk[s].runs < MaxRuns => runs'[s] < MaxRuns
  BY <1>1, <1>2
<1> QED
  BY Zenon, <1>3, <1>4, <1>5, <1>6, <1>7

\* A load on its own reads the sidecar once (_load).
LEMMA LoadStep ==
  ASSUME IInv, Load
  PROVE  IInv'
<1> USE SchedulerConstants
<1>1. /\ cache' \subseteq DOMAIN disk /\ cache' \subseteq Sch
      /\ paused' \in [Sch -> BOOLEAN] /\ runs' \in [Sch -> 0..MaxRuns]
      /\ store => disk = Records(cache', paused', runs')
      /\ \A s \in Sch : s \in DOMAIN disk /\ disk[s].runs < MaxRuns => runs'[s] < MaxRuns
  BY Zenon, LoadedFrom DEF Load
<1>2. tick.cur = None /\ \A s \in Sch : Cardinality(Out(s)') = 0
  BY Zenon, FS_EmptySet DEF IInv, Phases, Load, Out
<1>3. TypeOK'
  BY Zenon, <1>1 DEF IInv, TypeOK, Load
<1>4. RunCount' /\ OnceMore'
  BY SMTT(20), <1>1, <1>2 DEF IInv, TypeOK, RunCount, OnceMore, Load
<1>5. DiskTracks' /\ Accepted' /\ Sidecar' /\ StoreThere'
  BY ZenonT(30), <1>1 DEF IInv, TypeOK, DiskTracks, Accepted, Sidecar, StoreThere, Load
<1>6. Phases' /\ DueMayFire' /\ ExtraSpent'
  BY Zenon, <1>1 DEF IInv, TypeOK, Phases, DueMayFire, ExtraSpent, Load
<1> QED
  BY Zenon, <1>3, <1>4, <1>5, <1>6 DEF IInv

\* The loop wakes: it stops at a paused record, or loads and takes its snapshot (_tick_loop).
LEMMA TickScanStep ==
  ASSUME IInv, TickScan
  PROVE  IInv'
<1> USE SchedulerConstants
<1>0. TypeOK /\ tick.cur = None
  BY Zenon DEF IInv, Phases, TickScan
<1>1. CASE tick.rec
  <2>1. TypeOK'
    <3>1. Top \in [pc : {"none", "top", "sleep", "scan", "fire"}, rec : BOOLEAN,
                  todo : SUBSET Sch, ready : SUBSET Sch, cur : Sch \cup {None}]
      BY Zenon DEF Top
    <3> QED BY Zenon, <1>0, <1>1, <3>1 DEF TypeOK, TickScan
  <2>2. RunCount' /\ OnceMore'
    BY <1>0, <1>1 DEF IInv, TypeOK, RunCount, OnceMore, Out, TickScan, Top
  <2>3. DiskTracks' /\ Accepted' /\ Sidecar' /\ StoreThere'
    BY Zenon, <1>1 DEF IInv, TypeOK, DiskTracks, Records, Accepted, Sidecar, StoreThere, TickScan
  <2>4. Phases' /\ DueMayFire' /\ ExtraSpent'
    BY <1>0, <1>1 DEF IInv, TypeOK, Phases, DueMayFire, ExtraSpent, TickScan, Top
  <2> QED BY Zenon, <2>1, <2>2, <2>3, <2>4 DEF IInv
<1>2. CASE ~tick.rec /\ loaded
  <2>1. /\ UNCHANGED <<loaded, cache, paused, runs, started, dirty>>
        /\ tick' = [tick EXCEPT !.pc = "scan", !.todo = cache, !.ready = {s \in Sch : due[s]}]
    BY Zenon, <1>0, <1>2 DEF TickScan, LoadAs, Since, TypeOK
  <2>2. TypeOK'
    BY ZenonT(30), <1>0, <2>1 DEF TypeOK, TickScan
  <2>3. RunCount' /\ OnceMore'
    BY <1>0, <2>1 DEF IInv, TypeOK, RunCount, OnceMore, Out, TickScan
  <2>4. DiskTracks' /\ Accepted' /\ Sidecar' /\ StoreThere'
    BY SMTT(20), <2>1 DEF IInv, TypeOK, DiskTracks, Records, Accepted, Sidecar, StoreThere, TickScan
  <2>5. Phases' /\ DueMayFire'
    BY Zenon, <1>0, <1>2, <2>1 DEF IInv, TypeOK, Phases, DueMayFire, TickScan
  <2>6. ExtraSpent'
    BY Zenon, <1>0, <2>1 DEF IInv, TypeOK, ExtraSpent, StoreThere, TickScan
  <2> QED BY Zenon, <2>2, <2>3, <2>4, <2>5, <2>6 DEF IInv
<1>3. CASE ~tick.rec /\ ~loaded
  <2>1. /\ cache' \subseteq DOMAIN disk /\ cache' \subseteq Sch
        /\ paused' \in [Sch -> BOOLEAN] /\ runs' \in [Sch -> 0..MaxRuns]
        /\ store => disk = Records(cache', paused', runs')
        /\ \A s \in Sch : s \in DOMAIN disk /\ disk[s].runs < MaxRuns => runs'[s] < MaxRuns
    BY Zenon, <1>3, LoadedFrom DEF TickScan
  <2>2. /\ loaded' = TRUE /\ started' = runs' /\ dirty' = ~store
        /\ tick' = [tick EXCEPT !.pc = "scan", !.todo = cache', !.ready = {s \in Sch : due[s]}]
    BY Zenon, <1>3 DEF TickScan, Since
  <2>3. \A s \in Sch : Cardinality(Out(s)') = 0
    BY Zenon, <1>3, FS_EmptySet DEF IInv, Phases, TickScan, Out
  <2>4. TypeOK'
    BY ZenonT(30), <1>0, <2>1, <2>2 DEF TypeOK, TickScan
  <2>5. RunCount' /\ OnceMore'
    BY SMTT(20), <1>0, <2>1, <2>2, <2>3 DEF IInv, TypeOK, RunCount, OnceMore, TickScan
  <2>6. DiskTracks' /\ Accepted' /\ Sidecar' /\ StoreThere'
    BY ZenonT(30), <1>0, <2>1, <2>2 DEF IInv, TypeOK, DiskTracks, Accepted, Sidecar, StoreThere, TickScan
  <2>7. Phases' /\ DueMayFire'
    BY Zenon, <1>0, <1>3, <2>1, <2>2 DEF IInv, TypeOK, Phases, DueMayFire, TickScan
  <2>8. ExtraSpent'
    BY Zenon, <1>0, <2>1, <2>2 DEF IInv, TypeOK, ExtraSpent, StoreThere, TickScan
  <2> QED BY Zenon, <2>4, <2>5, <2>6, <2>7, <2>8 DEF IInv
<1> QED
  BY Zenon, <1>1, <1>2, <1>3

-----------------------------------------------------------------------------
\* tick_now begins a fire: one more call is out.
LEMMA TickNowStep ==
  ASSUME IInv, NEW c \in Caller, NEW s \in Sch, TickNow(c, s)
  PROVE  IInv'
<1> USE SchedulerConstants
<1>1. started[s] < MaxRuns /\ started' = [started EXCEPT ![s] = @ + 1]
  BY SMTT(20) DEF IInv, TypeOK, TickNow, Start
<1>2. TypeOK'
  BY SMTT(20), <1>1 DEF IInv, TypeOK, TickNow
<1>3. RunCount'
  <2>1. \A q \in Sch : IsFiniteSet(Out(q)) /\ Cardinality(Out(q)) \in Nat
    BY Zenon, FS_Subset, FS_CardinalityType DEF Out
  <2>2. Out(s)' = Out(s) \cup {c} /\ c \notin Out(s) /\ \A q \in Sch \ {s} : Out(q)' = Out(q)
    BY DEF IInv, TypeOK, TickNow, Out
  <2>3. Cardinality(Out(s)') = Cardinality(Out(s)) + 1
    BY ZenonT(30), <2>1, <2>2, FS_AddElement
  <2>4. \A q \in Sch : started'[q] = runs[q] + (IF tick.cur = q THEN 1 ELSE 0) + Cardinality(Out(q)')
    <3> TAKE q \in Sch
    <3>1. started[q] = runs[q] + (IF tick.cur = q THEN 1 ELSE 0) + Cardinality(Out(q))
      BY Zenon DEF IInv, RunCount, TickNow
    <3>2. CASE q = s
      BY <1>1, <2>1, <2>3, <3>1, <3>2 DEF IInv, TypeOK
    <3>3. CASE q # s
      BY Zenon, <1>1, <2>2, <3>1, <3>3 DEF IInv, TypeOK
    <3> QED BY Zenon, <3>2, <3>3
  <2> QED BY Zenon, <2>4 DEF RunCount, TickNow
<1>4. DiskTracks' /\ Accepted' /\ Sidecar' /\ StoreThere' /\ OnceMore'
  BY Zenon DEF IInv, TypeOK, DiskTracks, Records, Accepted, Sidecar, StoreThere, OnceMore, TickNow
<1>5. Phases' /\ DueMayFire' /\ ExtraSpent'
  BY <1>1 DEF IInv, TypeOK, Phases, DueMayFire, ExtraSpent, TickNow
<1> QED
  BY Zenon, <1>2, <1>3, <1>4, <1>5 DEF IInv

\* The send of tick_now came back: the call is in no longer, its run is counted and saved.
LEMMA TickNowDoneStep ==
  ASSUME IInv, NEW c \in Caller, TickNowDone(c)
  PROVE  IInv'
<1> USE SchedulerConstants
<1> PICK s \in Sch : s = call[c]
  BY Zenon DEF IInv, TypeOK, TickNowDone
<1>0. TypeOK /\ Sidecar /\ loaded /\ runs' = [runs EXCEPT ![s] = @ + 1]
  BY Zenon DEF IInv, TypeOK, Phases, TickNowDone, Count
<1>1. \A q \in Sch : IsFiniteSet(Out(q)) /\ Cardinality(Out(q)) \in Nat
  BY Zenon, FS_Subset, FS_CardinalityType DEF Out
<1>2. Out(s)' = Out(s) \ {c} /\ c \in Out(s) /\ \A q \in Sch \ {s} : Out(q)' = Out(q)
  BY Zenon, <1>0 DEF TypeOK, TickNowDone, Out
<1>3. Cardinality(Out(s)') = Cardinality(Out(s)) - 1 /\ IsFiniteSet(Out(s)')
  BY <1>0, <1>1, <1>2, FS_RemoveElement
<1>4. Cardinality(Out(s)') \in Nat
  BY Zenon, <1>3, FS_CardinalityType
<1>5. runs[s] < MaxRuns /\ runs' \in [Sch -> 0..MaxRuns]
  BY SMTT(20), <1>0, <1>1, <1>3, <1>4 DEF IInv, TypeOK, RunCount
<1>6. /\ disk' \in [DOMAIN disk' -> Stored]
      /\ DOMAIN disk' = IF store THEN cache ELSE DOMAIN disk
      /\ disk' = IF store THEN Records(cache', paused', runs') ELSE disk
      /\ dirty' = ~store
  BY ZenonT(30), <1>0, <1>5, SaveWrites DEF TickNowDone, TypeOK, Sidecar, Stored
<1>7. TypeOK'
  BY ZenonT(30), <1>0, <1>5, <1>6 DEF TickNowDone, TypeOK, Sidecar, Stored
<1>8. RunCount'
  <2>1. \A q \in Sch : started[q] = runs'[q] + (IF tick.cur = q THEN 1 ELSE 0) + Cardinality(Out(q)')
    <3> TAKE q \in Sch
    <3>1. started[q] = runs[q] + (IF tick.cur = q THEN 1 ELSE 0) + Cardinality(Out(q))
      BY Zenon, <1>0 DEF IInv, RunCount
    <3>2. CASE q = s
      BY SMTT(20), <1>0, <1>1, <1>3, <3>1, <3>2 DEF TypeOK
    <3>3. CASE q # s
      BY Zenon, <1>0, <1>2, <3>1, <3>3 DEF TypeOK
    <3> QED BY Zenon, <3>2, <3>3
  <2> QED BY Zenon, <2>1 DEF RunCount, TickNowDone
<1>9. moves = 0 => minted \ dropped \subseteq cache
  BY Zenon, <1>0 DEF IInv, Accepted, StoreThere, DiskTracks, Records
<1>10. (DiskTracks /\ Accepted /\ Sidecar /\ StoreThere)'
  BY ZenonT(30), <1>0, <1>6, <1>9
     DEF IInv, TickNowDone, TypeOK, DiskTracks, Accepted, Sidecar, StoreThere, Stored
<1>11. (OnceMore /\ Phases /\ DueMayFire /\ ExtraSpent)'
  BY Zenon, <1>0 DEF IInv, TypeOK, OnceMore, Phases, DueMayFire, ExtraSpent, TickNowDone
<1> QED
  BY Zenon, <1>7, <1>8, <1>10, <1>11 DEF IInv

\* The send of the tick loop came back: the run is counted and saved, the next one timed.
LEMMA TickDoneStep ==
  ASSUME IInv, TickDone
  PROVE  IInv'
<1> USE SchedulerConstants
<1> DEFINE s == tick.cur
<1>0. TypeOK /\ Sidecar /\ loaded /\ s \in Sch /\ runs' = [runs EXCEPT ![s] = @ + 1]
  BY Zenon DEF IInv, TypeOK, Phases, TickDone, Count
<1> HIDE DEF s
<1>1. \A q \in Sch : Out(q)' = Out(q) /\ Cardinality(Out(q)) \in Nat
  BY Zenon, FS_Subset, FS_CardinalityType DEF Out, TickDone
<1>2. runs[s] < MaxRuns /\ runs' \in [Sch -> 0..MaxRuns]
  BY <1>0, <1>1 DEF IInv, TypeOK, RunCount, s
<1>3. /\ disk' \in [DOMAIN disk' -> Stored]
      /\ DOMAIN disk' = IF store THEN cache ELSE DOMAIN disk
      /\ disk' = IF store THEN Records(cache', paused', runs') ELSE disk
      /\ dirty' = ~store
  BY ZenonT(30), <1>0, <1>2, SaveWrites DEF TickDone, TypeOK, Sidecar, Stored
<1>4. TypeOK'
  <2>1. tick' \in [pc : {"none", "top", "sleep", "scan", "fire"}, rec : BOOLEAN,
                   todo : SUBSET Sch, ready : SUBSET Sch, cur : Sch \cup {None}]
    BY ZenonT(30), <1>0 DEF TickDone, TypeOK
  <2> QED BY ZenonT(30), <1>0, <1>2, <1>3, <2>1 DEF TickDone, TypeOK, Sidecar, Stored
<1>5. RunCount'
  <2>1. \A q \in Sch : started[q] = runs'[q] + Cardinality(Out(q)')
    BY <1>0, <1>1 DEF IInv, TypeOK, RunCount, s
  <2>2. \A q \in Sch : tick'.cur # q
    BY Zenon, <1>0 DEF TickDone, TypeOK
  <2> QED BY SMTT(20), <1>0, <1>1, <1>2, <2>1, <2>2 DEF RunCount, TickDone
<1>6. moves = 0 => minted \ dropped \subseteq cache
  BY Zenon, <1>0 DEF IInv, Accepted, StoreThere, DiskTracks, Records
<1>7. (DiskTracks /\ Accepted /\ Sidecar /\ StoreThere)'
  BY ZenonT(30), <1>0, <1>3, <1>6 DEF IInv, TickDone, TypeOK, DiskTracks, Accepted, Sidecar, StoreThere, Stored
<1>8. (OnceMore /\ Phases /\ DueMayFire /\ ExtraSpent)'
  BY <1>0 DEF IInv, TypeOK, OnceMore, Phases, DueMayFire, ExtraSpent, TickDone, s
<1> QED
  BY Zenon, <1>4, <1>5, <1>7, <1>8 DEF IInv

\* A new process starts from the sidecar alone.
LEMMA RestartStep ==
  ASSUME IInv, Restart
  PROVE  IInv'
<1> USE SchedulerConstants
<1>1. tick' = [pc |-> "none", rec |-> FALSE, todo |-> {}, ready |-> {}, cur |-> None]
  BY ZenonT(30) DEF Restart, Top
<1>2. TypeOK'
  <2>1. tick' \in [pc : {"none", "top", "sleep", "scan", "fire"}, rec : BOOLEAN,
                   todo : SUBSET Sch, ready : SUBSET Sch, cur : Sch \cup {None}]
    BY Zenon, <1>1
  <2>2. /\ paused' \in [Sch -> BOOLEAN] /\ runs' \in [Sch -> 0..MaxRuns] /\ due' \in [Sch -> BOOLEAN]
        /\ call' \in [Caller -> Sch \cup {None}] /\ started' \in [Sch -> 0..MaxRuns]
    BY DEF Restart
  <2>3. loaded' \in BOOLEAN /\ cache' \subseteq Sch
    BY ZenonT(30) DEF Restart
  <2>4. restarts' \in 0..Restarts
    BY DEF Restart, IInv, TypeOK
  <2> QED BY Zenon, <2>1, <2>2, <2>3, <2>4 DEF IInv, TypeOK, Restart
<1>3. RunCount' /\ OnceMore' /\ DiskTracks' /\ Accepted'
  BY Zenon DEF IInv, RunCount, OnceMore, DiskTracks, Accepted, Restart
<1>4. Sidecar' /\ StoreThere'
  BY Zenon DEF IInv, Sidecar, StoreThere, Restart
<1>5. Phases' /\ DueMayFire' /\ ExtraSpent'
  BY <1>1 DEF IInv, TypeOK, Phases, DueMayFire, ExtraSpent, Restart
<1> QED
  BY Zenon, <1>2, <1>3, <1>4, <1>5 DEF IInv

\* No step of the scheduler breaks the invariant.
LEMMA NextIInv == IInv /\ [Next]_vars => IInv'
<1> SUFFICES ASSUME IInv, [Next]_vars PROVE IInv'
  BY Zenon
<1>1. CASE UNCHANGED vars
  BY <1>1 DEF IInv, TypeOK, RunCount, Out, DiskTracks, Records, Accepted, OnceMore,
              Sidecar, StoreThere, Phases, DueMayFire, ExtraSpent, vars
<1>2. CASE TickStep
  BY Zenon, <1>2, TickSleepStep, TickScanStep, TickDoneStep, TickAgainStep, TickSkipStep, TickFireStep
     DEF TickStep
<1>3. CASE Load \/ Boot \/ StoreMove \/ Restart
  BY Zenon, <1>3, LoadStep, BootStep, StoreMoveStep, RestartStep
<1>4. CASE \E s \in Sch : Elapse(s) \/ Schedule(s) \/ Unschedule(s)
  BY Zenon, <1>4, ElapseStep, ScheduleStep, UnscheduleStep
<1>5. CASE (\E s \in Sch, b \in BOOLEAN : PauseOne(s, b)) \/ \E b \in BOOLEAN : PauseAll(b)
  BY Zenon, <1>5, PauseOneStep, PauseAllStep
<1>6. CASE \E c \in Caller : TickNowDone(c) \/ \E s \in Sch : TickNow(c, s)
  BY Zenon, <1>6, TickNowStep, TickNowDoneStep
<1> QED
  BY Zenon, <1>1, <1>2, <1>3, <1>4, <1>5, <1>6 DEF Next

\* The strengthening is an invariant of the scheduler, for any schedules, callers and
\* bounds (tools.py: the tick loop, the verbs, _load and _save).
THEOREM SchedulerInvariant == Spec => []IInv
<1> QED
  BY InitIInv, NextIInv, PTL DEF Spec

\* The scheduler's accounts are right: run_count is the fires that came back, the sidecar
\* agrees with the cache unless the store failed, an accepted schedule is on disk, and an
\* unscheduled one fires at most once more (_fire, _save, _schedule, _unschedule).
THEOREM SchedulerAccountable == Spec => []Accountable
<1>1. IInv => Accountable
  BY Zenon DEF IInv, Accountable
<1> QED
  BY <1>1, SchedulerInvariant, PTL
=============================================================================
