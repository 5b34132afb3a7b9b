------------------------------- MODULE Server -------------------------------
(***************************************************************************)
(* The processes that hold a scheduler, one scheduler each:                *)
(*   "server"   backend/src/index.ts and services.ts: boot listens,        *)
(*              connects to the chain and starts the loop; a signal, or an *)
(*              uncaught exception, stops it, closes the server and the    *)
(*              database and exits.  Either may come during the other.     *)
(*   "cli"      backend/src/scheduler/tick-once.ts: one tick after another *)
(*              of one strategy, and the loop never started.               *)
(*   "library"  whatever else holds a Scheduler (the seed, the tests): its *)
(*              interface, called in any order.                            *)
(***************************************************************************)
EXTENDS Scheduler

CONSTANTS
  Hosts,         \* the processes looked at
  LibraryCycles  \* bound: cycles of a "library" scheduler

ASSUME HostsAssumption == Hosts \subseteq {"server", "cli", "library"}
ASSUME LibraryCyclesAssumption == LibraryCycles \in 0 .. MaxCycles

VARIABLES
  host,
  boot,      \* listening -> connecting -> up, or failed
  services,  \* the singletons of getServices exist
  shutdown,  \* no -> stopping -> closing -> exited
  upFirst    \* the loop was up when the signal came (history)

process == <<host, boot, services, shutdown, upFirst>>
serverVars == <<vars, process>>

InitServer ==
  /\ Init
  /\ host \in Hosts
  /\ boot = IF host = "library" THEN "up" ELSE "listening"
  /\ services = (host = "library")
  /\ shutdown = "no"
  /\ upFirst = FALSE

Alive == shutdown # "exited"

-----------------------------------------------------------------------------
(***************************************************************************)
(* Boot.  A port that is taken ends the process; services that cannot be   *)
(* built, or a chain check that throws, leave an API without a loop.       *)
(***************************************************************************)
booting(stage) == host # "library" /\ Alive /\ boot = stage

ListenFails ==
  /\ booting("listening") /\ host = "server" /\ shutdown = "no"
  /\ shutdown' = "exited"
  /\ UNCHANGED <<vars, host, boot, services, upFirst>>

\* getServices builds the singletons, then connectChain is awaited; the command
\* line connects first and builds them when it needs the scheduler.
Connect ==
  /\ Quiet
  /\ booting("listening")
  /\ \/ boot' = "connecting" /\ services' = (host = "server")
     \/ boot' = "failed" /\ UNCHANGED services
  /\ UNCHANGED <<vars, host, shutdown, upFirst>>

\* A chain that is down is reported and changes nothing; the loop starts unless
\* it is disabled.
StartServices ==
  /\ booting("connecting") /\ host = "server"
  /\ boot' = "up"
  /\ \/ \E live \in SUBSET Strategies : Start(live)
     \/ Quiet /\ UNCHANGED vars
  /\ UNCHANGED <<host, services, shutdown, upFirst>>

ConnectThrows ==
  /\ Quiet
  /\ booting("connecting")
  /\ boot' = "failed"
  /\ UNCHANGED <<vars, host, services, shutdown, upFirst>>

-----------------------------------------------------------------------------
\* Before the services are built there is nothing to stop.
Shutdown ==
  /\ Quiet
  /\ host = "server" /\ shutdown = "no"
  /\ upFirst' = (boot = "up")
  /\ IF services THEN shutdown' = "stopping" /\ Stop
     ELSE shutdown' = "closing" /\ UNCHANGED vars
  /\ UNCHANGED <<host, boot, services>>

StopServices ==
  /\ shutdown = "stopping"
  /\ Stopped
  /\ shutdown' = "closing"
  /\ UNCHANGED <<host, boot, services, upFirst>>

\* app.close has settled: the database is closed and the process exits.
Exit ==
  /\ Quiet
  /\ shutdown = "closing"
  /\ shutdown' = "exited"
  /\ UNCHANGED <<vars, host, boot, services, upFirst>>

\* Nothing in the server calls tickOnce.
LoopStep ==
  \/ \E r \in DOMAIN runs :
       Settle(r) \/ Release(r) \/ StartHanded(r) \/ Report(r) \/ Forget(r)
  \/ Timer

Loop ==
  /\ host = "server" /\ Alive
  /\ LoopStep
  /\ UNCHANGED process

-----------------------------------------------------------------------------
(***************************************************************************)
(* tick-once: --repeat ticks of the strategy it was given, each awaited    *)
(* before the next; then, or when no strategy matches or the chain check   *)
(* threw, the database is closed.                                          *)
(***************************************************************************)
made == {c \in Callers : call[c].stage # "idle"}
awaited(c) == call[c].stage = "joined" /\ isDone(call[c].run)

Repeat ==
  /\ booting("connecting") /\ host = "cli"
  /\ \A c \in made : awaited(c)
  /\ services' = TRUE
  /\ \E c \in Callers \ made, s \in Strategies :
       /\ \A d \in made : call[d].strategy = s
       /\ TickOnce(c, s)
  /\ UNCHANGED <<host, boot, shutdown, upFirst>>

CliEnds ==
  /\ Quiet /\ Alive
  /\ host = "cli" /\ boot \in {"connecting", "failed"}
  /\ \A c \in made : awaited(c)
  /\ shutdown' = "exited"
  /\ UNCHANGED <<vars, host, boot, services, upFirst>>

CliLoop ==
  /\ host = "cli" /\ Alive
  /\ LoopStep
  /\ UNCHANGED process

Library ==
  /\ host = "library"
  /\ Next
  /\ cycles' <= LibraryCycles
  /\ UNCHANGED process

NextServer ==
  \/ ListenFails \/ Connect \/ StartServices \/ ConnectThrows
  \/ Shutdown \/ StopServices \/ Exit \/ Loop
  \/ Repeat \/ CliEnds \/ CliLoop
  \/ Library

SpecServer == InitServer /\ [][NextServer]_serverVars

\* Every tick ends, since each call it awaits times out, and the event loop
\* gets to every timer that is due and to every continuation.
LibraryStep(A) == host = "library" /\ A /\ cycles' <= LibraryCycles /\ UNCHANGED process

FairServer ==
  /\ SpecServer
  /\ WF_serverVars(StopServices)
  /\ WF_serverVars(Exit)
  /\ WF_serverVars(Loop)
  /\ WF_serverVars(CliLoop)
  /\ WF_serverVars(LibraryStep(Continuation))
  /\ WF_serverVars(LibraryStep(Timer))
  /\ \A r \in 1 .. MaxRuns :
       WF_serverVars(LibraryStep(r \in DOMAIN runs /\ Settle(r)))

-----------------------------------------------------------------------------
(***************************************************************************)
(* What the loop promises, in any host: bounded, never two ticks of one    *)
(* strategy, every call answered by a tick of its own.                     *)
(***************************************************************************)
Stages == {"queued", "handed", "running", "settled", "released", "reported", "done"}

SchedulerTypeOK ==
  /\ running \in BOOLEAN /\ cycleTimer \in BOOLEAN /\ stopping \in BOOLEAN
  /\ pending \subseteq Strategies
  /\ runs \in Seq([strategy : Strategies, stage : Stages])
  /\ DOMAIN inFlight \subseteq Strategies
  /\ \A s \in DOMAIN inFlight : inFlight[s] \in DOMAIN runs
  /\ active \in Nat
  /\ waiting \in Seq(DOMAIN runs)
  /\ drain \subseteq DOMAIN runs
  /\ \A c \in Callers : call[c].stage \in {"idle", "waiting", "joined"}
  /\ cycles \in 0 .. MaxCycles

Unfinished == at(Stages \ {"done"})
HoldingASlot == at({"handed", "running", "settled"})

(***************************************************************************)
(* At most Concurrency simulations run at once, also in the turns between  *)
(* one tick's end and the start of the next one in line; the pool's count  *)
(* is the number of slots in use; and first come is first served.          *)
(***************************************************************************)
NoOvertaking ==
  \A r, q \in DOMAIN runs : r < q /\ runs[r].stage = "queued" => runs[q].stage = "queued"

Bounded ==
  /\ active = Cardinality(HoldingASlot)
  /\ active <= Concurrency
  /\ NoOvertaking

(***************************************************************************)
(* One strategy never has two ticks at once, queued or running, however    *)
(* the timer and tickOnce overlap, and the map of ticks in flight names    *)
(* exactly the unfinished ones: finally forgets no run but its own.        *)
(***************************************************************************)
OneTickPerStrategy ==
  /\ \A r \in Unfinished :
       /\ runs[r].strategy \in DOMAIN inFlight
       /\ inFlight[runs[r].strategy] = r
  /\ \A s \in DOMAIN inFlight : inFlight[s] \in Unfinished /\ runs[inFlight[s]].strategy = s

(***************************************************************************)
(* The books of the loop, the pool's and the map's, always agree with what *)
(* is really running (scheduler.ts: bounded, one tick per strategy).       *)
(***************************************************************************)
TicksAreAccountedFor == Bounded /\ OneTickPerStrategy

(***************************************************************************)
(* Every call of tickOnce is answered, whatever queues in front of it, and *)
(* with a tick begun after the call, never with the one that was already   *)
(* in flight.                                                              *)
(***************************************************************************)
fresh(c) == call[c].run > call[c].after /\ runs[call[c].run].strategy = call[c].strategy

CallsReturn ==
  \A c \in Callers :
    call[c].stage # "idle" ~> call[c].stage = "joined" /\ fresh(c) /\ isDone(call[c].run)

-----------------------------------------------------------------------------
TypeOK ==
  /\ SchedulerTypeOK
  /\ host \in Hosts
  /\ boot \in {"listening", "connecting", "up", "failed"}
  /\ services \in BOOLEAN /\ upFirst \in BOOLEAN
  /\ shutdown \in {"no", "stopping", "closing", "exited"}

(***************************************************************************)
(* No process is left with a tick cut in half: a signal that finds the     *)
(* loop up lets every tick finish, queued ones included, and the command   *)
(* line closes its database with none begun and not ended.                 *)
(***************************************************************************)
CleanExitOnceUp ==
  /\ TypeOK
  /\ shutdown = "exited" /\ (upFirst \/ host = "cli") => Unfinished = {}

(***************************************************************************)
(* A signal always brings the process down, whatever was ticking.          *)
(***************************************************************************)
ExitsAfterASignal == shutdown # "no" ~> shutdown = "exited"

=============================================================================
