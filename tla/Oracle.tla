------------------------------- MODULE Oracle -------------------------------
(***************************************************************************)
(* backend/src/oracle: the seeded walk, persisted to price_ticks, which    *)
(* every process on the database advances and reads.                       *)
(*                                                                         *)
(* A process runs oracle code undisturbed, but each of its statements is a *)
(* transaction of its own, so another process may write between two of     *)
(* them.  The walk is a pure function of its step, so a row is its time    *)
(* and the step its prices are of: all symbols are written together.       *)
(* Times are whole intervals.                                              *)
(***************************************************************************)
EXTENDS Integers, Sequences, FiniteSets

CONSTANTS
  Processes,
  BackfillTicks,  \* DEFAULT_BACKFILL_TICKS
  HistoryLimit,   \* prior snapshots handed to a strategy
  MaxRows         \* bound: rows stored

ASSUME BackfillAssumption == BackfillTicks \in Nat \ {0}
ASSUME HistoryAssumption == HistoryLimit \in Nat \ {0}
ASSUME MaxRowsAssumption == MaxRows \in Nat

VARIABLES
  priceTicks,  \* the rows, oldest first
  walk,        \* the step of each process's cached PriceWalk, or NoWalk
  advancing    \* where each process is in tick(): its reads so far

oracleVars == <<priceTicks, walk, advancing>>

NoWalk == -1
Resting == [at |-> "rest", step |-> 0, t |-> 0]

storedSteps == Len(priceTicks)
times == {priceTicks[i].t : i \in DOMAIN priceTicks}

OracleInit ==
  /\ priceTicks = <<>>
  /\ walk = [p \in Processes |-> NoWalk]
  /\ advancing = [p \in Processes |-> Resting]

\* The event loop of p is not inside tick().
AtRest(p) == advancing[p].at = "rest"

\* Everything a process holds of the oracle is lost with it.
forgetOracle(p) ==
  /\ walk' = [walk EXCEPT ![p] = NoWalk]
  /\ advancing' = [advancing EXCEPT ![p] = Resting]

-----------------------------------------------------------------------------
(***************************************************************************)
(* ensureBackfilled: an empty table gets the first steps of the walk,      *)
(* ending now, in one transaction.  alignedNow is the clock's: any of a    *)
(* few neighbouring intervals.                                             *)
(***************************************************************************)
\* The walk only goes forward, from the step it stands at to the next one.
advance(w) == w + 1

\* A new walk's first steps.
walkSteps(count) == [i \in 1 .. count |-> i - 1]

backfill(now) ==
  [i \in 1 .. BackfillTicks |->
    [t |-> now - BackfillTicks + i, step |-> walkSteps(BackfillTicks)[i]]]

\* tick(), first statements: backfill unless there is history.
Begin(p) ==
  /\ advancing[p].at = "rest"
  /\ priceTicks # <<>>
  /\ storedSteps < MaxRows
  /\ advancing' = [advancing EXCEPT ![p].at = "count"]
  /\ UNCHANGED <<priceTicks, walk>>

\* Found empty; the insert of two processes at once is refused to one of them.
BeginEmpty(p) ==
  /\ advancing[p].at = "rest"
  /\ priceTicks = <<>>
  /\ advancing' = [advancing EXCEPT ![p].at = "backfill"]
  /\ UNCHANGED <<priceTicks, walk>>

Backfill(p, now) ==
  /\ advancing[p].at = "backfill"
  /\ \A i \in 1 .. BackfillTicks : now - BackfillTicks + i \notin times
  /\ priceTicks' = backfill(now)
  /\ walk' = [walk EXCEPT ![p] = NoWalk]
  /\ advancing' = [advancing EXCEPT ![p].at = "count"]

\* storedSteps(), then latestTimestamp(): two statements.
Count(p) ==
  /\ advancing[p].at = "count"
  /\ advancing' = [advancing EXCEPT ![p] =
       [at |-> "latest", step |-> storedSteps, t |-> 0]]
  /\ UNCHANGED <<priceTicks, walk>>

Latest(p) ==
  /\ advancing[p].at = "latest"
  /\ advancing' = [advancing EXCEPT ![p].at = "insert",
                                    ![p].t = priceTicks[storedSteps].t + 1]
  /\ UNCHANGED <<priceTicks, walk>>

\* Variant: the cached walk is kept when it already stands at the step.
walkPricesAtKept(w, step) == IF w > step THEN step ELSE IF w = step THEN step + 1 ELSE step

\* The step the walk yields: replayed from the start when the cache is past it,
\* and advanced at least once, until it is there.
walkPricesAt(w, step) ==
  LET from == IF w = NoWalk \/ w >= step THEN NoWalk ELSE w
  IN  IF advance(from) >= step THEN advance(from) ELSE step

\* One statement for all symbols; (symbol, t) is unique.  The walk has moved
\* by then, whether or not the rows go in.
Insert(p) ==
  LET yielded == walkPricesAt(walk[p], advancing[p].step) IN
  /\ advancing[p].at = "insert"
  /\ walk' = [walk EXCEPT ![p] = yielded]
  /\ advancing[p].t \notin times
  /\ priceTicks' = Append(priceTicks, [t |-> advancing[p].t, step |-> yielded])
  /\ advancing' = [advancing EXCEPT ![p] = Resting]

\* Refused by the index, or the database is locked: tick() throws.
InsertFails(p) ==
  /\ \/ /\ advancing[p].at = "insert"
        /\ walk' = [walk EXCEPT ![p] = walkPricesAt(walk[p], advancing[p].step)]
     \/ /\ advancing[p].at = "backfill"
        /\ UNCHANGED walk
  /\ advancing' = [advancing EXCEPT ![p] = Resting]
  /\ UNCHANGED priceTicks

-----------------------------------------------------------------------------
(***************************************************************************)
(* Reading.  The newest snapshot and, apart from it, the ones before it,   *)
(* oldest first, as many as the limit: what advance() returns, what        *)
(* snapshot() returns, and what GET /oracle/prices answers.                *)
(***************************************************************************)
\* seriesFor: the last limit rows.
seriesFor(limit) ==
  SubSeq(priceTicks, IF storedSteps > limit THEN storedSteps - limit + 1 ELSE 1, storedSteps)

last(s, n) == SubSeq(s, IF Len(s) > n THEN Len(s) - n + 1 ELSE 1, Len(s))

\* Variant: the newest counts towards the limit.
readShort(newest) ==
  LET Prior(r) == r.t < newest.t
  IN  [newest |-> newest, history |-> last(SelectSeq(seriesFor(HistoryLimit), Prior), HistoryLimit)]

before(newest) ==
  LET Prior(r) == r.t < newest.t
  IN  last(SelectSeq(seriesFor(HistoryLimit + 1), Prior), HistoryLimit)

read(newest) == [newest |-> newest, history |-> before(newest)]

current == read(priceTicks[storedSteps])

=============================================================================
