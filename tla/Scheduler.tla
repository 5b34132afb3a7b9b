------------------------------ MODULE Scheduler ------------------------------
(***************************************************************************)
(* backend/src/scheduler/scheduler.ts: createScheduler, the loop that      *)
(* decides which strategy ticks when.  What a tick does is Tick.           *)
(*                                                                         *)
(* One event loop: a function runs to its next await undisturbed, and the  *)
(* continuations a settled promise releases (microtasks) all run before    *)
(* the next timer, I/O completion or outside call (macrotask).  A run is   *)
(* one runTick, identified by its position in runs; its stage names the    *)
(* continuation it is waiting for:                                         *)
(*                                                                         *)
(*   queued -> handed -> running -> settled -> released -> reported -> done*)
(***************************************************************************)
EXTENDS Integers, Sequences, FiniteSets

CONSTANTS
  Strategies,
  Concurrency,  \* slots in the pool
  Callers,      \* calls of tickOnce, one each
  MaxCycles     \* bound: cycles begun

ASSUME ConcurrencyAssumption == Concurrency \in Nat \ {0}
ASSUME MaxCyclesAssumption == MaxCycles \in Nat

VARIABLES
  running,
  pending,     \* strategies whose staggered timer is set
  cycleTimer,  \* the timer of the next cycle is set
  inFlight,    \* Map: strategy -> run
  active,      \* the pool's count
  waiting,     \* the pool's queue of runs
  runs,
  call,        \* what each tickOnce call is waiting for
  stopping,    \* a stop() has not returned
  drain,       \* the runs it is waiting for
  cycles       \* cycles begun (bound)

loop == <<running, pending, cycleTimer, cycles>>
pool == <<active, waiting>>
stop == <<stopping, drain>>
vars == <<loop, pool, inFlight, runs, call, stop>>

Init ==
  /\ running = FALSE
  /\ pending = {}
  /\ cycleTimer = FALSE
  /\ inFlight = <<>>
  /\ active = 0
  /\ waiting = <<>>
  /\ runs = <<>>
  /\ call = [c \in Callers |-> [stage |-> "idle"]]
  /\ stopping = FALSE
  /\ drain = {}
  /\ cycles = 0

at(stages) == {r \in DOMAIN runs : runs[r].stage \in stages}
setStage(r, stage) == [runs EXCEPT ![r].stage = stage]

without(f, k) == [x \in DOMAIN f \ {k} |-> f[x]]
with(f, k, v) == [x \in DOMAIN f \cup {k} |-> IF x = k THEN v ELSE f[x]]

isDone(r) == runs[r].stage = "done"
drained == stopping /\ \A r \in drain : isDone(r)

\* No continuation is ready: the event loop may take its next macrotask.
Quiet ==
  /\ at({"handed", "settled", "released", "reported"}) = {}
  /\ \A c \in Callers : call[c].stage = "waiting" => ~isDone(call[c].run)
  /\ ~drained

-----------------------------------------------------------------------------
(***************************************************************************)
(* tick: one run of a strategy that has none in flight.  A free slot of    *)
(* the pool starts it at once, in the same turn; else it queues.           *)
(***************************************************************************)
tick(s) ==
  LET r == Len(runs) + 1 IN
  /\ inFlight' = with(inFlight, s, r)
  /\ IF active >= Concurrency
     THEN /\ runs' = Append(runs, [strategy |-> s, stage |-> "queued"])
          /\ waiting' = Append(waiting, r)
          /\ UNCHANGED active
     ELSE /\ runs' = Append(runs, [strategy |-> s, stage |-> "running"])
          /\ active' = active + 1
          /\ UNCHANGED waiting

\* runTick ends, well or badly: catch turns a rejection into an outcome.
Settle(r) ==
  /\ Quiet
  /\ runs[r].stage = "running"
  /\ runs' = setStage(r, "settled")
  /\ UNCHANGED <<loop, pool, inFlight, call, stop>>

\* Variants: a slot that is freed and handed on, and one that is only freed.
ReleaseTwice(r) ==
  /\ runs[r].stage = "settled"
  /\ active' = active - 1
  /\ IF waiting = <<>>
     THEN runs' = setStage(r, "released") /\ UNCHANGED waiting
     ELSE /\ waiting' = Tail(waiting)
          /\ runs' = [setStage(r, "released") EXCEPT ![Head(waiting)].stage = "handed"]
  /\ UNCHANGED <<loop, inFlight, call, stop>>

ReleaseUnclaimed(r) ==
  /\ runs[r].stage = "settled"
  /\ active' = active - 1
  /\ runs' = setStage(r, "released")
  /\ UNCHANGED <<loop, waiting, inFlight, call, stop>>

\* The pool's finally: the slot goes straight to the next waiter.
Release(r) ==
  /\ runs[r].stage = "settled"
  /\ IF waiting = <<>>
     THEN /\ active' = active - 1
          /\ runs' = setStage(r, "released")
          /\ UNCHANGED waiting
     ELSE /\ waiting' = Tail(waiting)
          /\ runs' = [setStage(r, "released") EXCEPT ![Head(waiting)].stage = "handed"]
          /\ UNCHANGED active
  /\ UNCHANGED <<loop, inFlight, call, stop>>

StartHanded(r) ==
  /\ runs[r].stage = "handed"
  /\ runs' = setStage(r, "running")
  /\ UNCHANGED <<loop, pool, inFlight, call, stop>>

Report(r) ==
  /\ runs[r].stage = "released"
  /\ runs' = setStage(r, "reported")
  /\ UNCHANGED <<loop, pool, inFlight, call, stop>>

\* finally: the entry goes by strategy, whichever run it names.
Forget(r) ==
  /\ runs[r].stage = "reported"
  /\ runs' = setStage(r, "done")
  /\ inFlight' = without(inFlight, runs[r].strategy)
  /\ UNCHANGED <<loop, pool, call, stop>>

-----------------------------------------------------------------------------
(***************************************************************************)
(* The loop.  A cycle sets one timer for each live strategy and its own    *)
(* for the next; those of one cycle all come due before the next cycle.    *)
(* Which strategies are live is the database's answer, or none at all if   *)
(* the query throws.                                                       *)
(***************************************************************************)
cycle(live) ==
  /\ cycles < MaxCycles
  /\ cycles' = cycles + 1
  /\ pending' = pending \cup live
  /\ cycleTimer' = TRUE

Start(live) ==
  /\ Quiet
  /\ ~running
  /\ running' = TRUE
  /\ cycle(live)
  /\ UNCHANGED <<pool, inFlight, runs, call, stop>>

Cycle(live) ==
  /\ Quiet
  /\ running /\ cycleTimer
  /\ pending = {}
  /\ cycle(live)
  /\ UNCHANGED <<running, pool, inFlight, runs, call, stop>>

\* A strategy still in flight when its timer fires is skipped this cycle.
Fire(s) ==
  /\ Quiet
  /\ s \in pending
  /\ pending' = pending \ {s}
  /\ IF running /\ s \notin DOMAIN inFlight
     THEN tick(s)
     ELSE UNCHANGED <<pool, inFlight, runs>>
  /\ UNCHANGED <<running, cycleTimer, cycles, call, stop>>

\* Variant: only what is running is waited for, not what is queued.
StopForRunning ==
  /\ Quiet
  /\ ~stopping
  /\ stopping' = TRUE
  /\ running' = FALSE
  /\ cycleTimer' = FALSE
  /\ pending' = {}
  /\ drain' = at({"running"})
  /\ UNCHANGED <<cycles, pool, inFlight, runs, call>>

Stop ==
  /\ Quiet
  /\ ~stopping
  /\ stopping' = TRUE
  /\ running' = FALSE
  /\ cycleTimer' = FALSE
  /\ pending' = {}
  /\ drain' = {inFlight[s] : s \in DOMAIN inFlight}
  /\ UNCHANGED <<cycles, pool, inFlight, runs, call>>

Stopped ==
  /\ drained
  /\ stopping' = FALSE
  /\ drain' = {}
  /\ UNCHANGED <<loop, pool, inFlight, runs, call>>

-----------------------------------------------------------------------------
(***************************************************************************)
(* tickOnce: waits for the run in flight, if any, then ticks (or joins the *)
(* run that another waiter began in the meantime).                         *)
(***************************************************************************)
\* Variant: a call that waited ticks without looking again.
joinBlindly(c, s) ==
  /\ tick(s)
  /\ call' = [call EXCEPT ![c] = [@ EXCEPT !.stage = "joined", !.run = inFlight'[s]]]

join(c, s) ==
  IF s \in DOMAIN inFlight
  THEN /\ call' = [call EXCEPT ![c] = [@ EXCEPT !.stage = "joined", !.run = inFlight[s]]]
       /\ UNCHANGED <<pool, inFlight, runs>>
  ELSE /\ tick(s)
       /\ call' = [call EXCEPT ![c] = [@ EXCEPT !.stage = "joined", !.run = inFlight'[s]]]

\* Variant: a call that finds a run in flight is answered by it.
TickOnceShared(c, s) ==
  /\ Quiet
  /\ call[c].stage = "idle"
  /\ IF s \in DOMAIN inFlight THEN UNCHANGED <<pool, inFlight, runs>> ELSE tick(s)
  /\ call' = [call EXCEPT ![c] = [stage |-> "joined", strategy |-> s, run |-> inFlight'[s],
                                  after |-> Len(runs)]]
  /\ UNCHANGED <<loop, stop>>

\* after is the newest run when the call was made (history).
TickOnce(c, s) ==
  LET made(stage, r) ==
        [stage |-> stage, strategy |-> s, run |-> r, after |-> Len(runs)]
  IN
  /\ Quiet
  /\ call[c].stage = "idle"
  /\ IF s \in DOMAIN inFlight
     THEN /\ call' = [call EXCEPT ![c] = made("waiting", inFlight[s])]
          /\ UNCHANGED <<pool, inFlight, runs>>
     ELSE /\ tick(s)
          /\ call' = [call EXCEPT ![c] = made("joined", inFlight'[s])]
  /\ UNCHANGED <<loop, stop>>

TickAfterWait(c) ==
  /\ call[c].stage = "waiting"
  /\ isDone(call[c].run)
  /\ join(c, call[c].strategy)
  /\ UNCHANGED <<loop, stop>>

-----------------------------------------------------------------------------
Continuation ==
  \/ \E r \in DOMAIN runs : Release(r) \/ StartHanded(r) \/ Report(r) \/ Forget(r)
  \/ \E c \in Callers : TickAfterWait(c)
  \/ Stopped

Timer ==
  \/ \E s \in Strategies : Fire(s)
  \/ \E live \in SUBSET Strategies : Cycle(live)

Next ==
  \/ Continuation
  \/ Timer
  \/ \E r \in DOMAIN runs : Settle(r)
  \/ \E live \in SUBSET Strategies : Start(live)
  \/ Stop
  \/ \E c \in Callers, s \in Strategies : TickOnce(c, s)

Spec == Init /\ [][Next]_vars

MaxRuns == MaxCycles * Cardinality(Strategies) + Cardinality(Callers)

=============================================================================
