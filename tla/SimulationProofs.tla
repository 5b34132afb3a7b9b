-------------------------- MODULE SimulationProofs --------------------------
(***************************************************************************)
(* Proofs about the decisions: the series every process writes is one      *)
(* walk, the metadata of a workflow directory never vouches for files of   *)
(* another generation, and an execution is what it says it is.             *)
(***************************************************************************)
EXTENDS SimulationProperties, TLAPS

Row == [t : Nat, step : Nat]
newest == priceTicks[Len(priceTicks)]

-----------------------------------------------------------------------------
(***************************************************************************)
(* The inductive invariant, part by part.                                  *)
(*                                                                         *)
(* The series: it began with one process's backfill, whose clock was one   *)
(* of the few that processes starting together may show, and every row     *)
(* since is an interval after the one before it.  So an advance that read  *)
(* an older newest row meets the unique index.                             *)
(***************************************************************************)

SeriesTyped ==
  /\ priceTicks \in Seq(Row)
  /\ walk \in [Processes -> Nat \cup {NoWalk}]
  /\ advancing \in [Processes -> [at : {"rest", "backfill", "count", "latest", "insert"},
                                  step : Nat, t : Nat]]

OneWalk ==
  priceTicks # <<>> =>
    /\ Len(priceTicks) >= BackfillTicks
    /\ \E now \in Clock : priceTicks[1].t = now - BackfillTicks + 1
    /\ \A i \in 1 .. Len(priceTicks) : priceTicks[i].t = priceTicks[1].t + i - 1

Advances ==
  \A p \in Processes :
    /\ advancing[p].at \in {"count", "latest", "insert"} => priceTicks # <<>>
    /\ advancing[p].at = "insert" => /\ advancing[p].t > priceTicks[1].t
                                     /\ advancing[p].t <= newest.t + 1

SeriesInv == SeriesTyped /\ OneWalk /\ Advances

(***************************************************************************)
(* The jobs and the directories are what the steps update field by field.  *)
(***************************************************************************)
JobsShaped ==
  /\ job = [j \in Jobs |-> job[j]]
  /\ \A j \in Jobs : /\ DOMAIN job[j] = DOMAIN NoJob
                     /\ DOMAIN job[j].child = DOMAIN NoChild
                     /\ job[j].doing = "none" <=> job[j] = NoJob

DirsShaped ==
  /\ dir = [d \in Dirs |-> dir[d]]
  /\ \A d \in Dirs : /\ DOMAIN dir[d] = DOMAIN Absent
                     /\ dir[d].linked \in BOOLEAN
                     /\ dir[d].source \in Sources \cup {Null}

RowsTyped ==
  /\ sourceOf \in [Strategies -> Sources \cup {Null}]
  /\ checkedAs \in [Strategies -> Sources \cup {Null}]
  /\ held \in [Strategies -> Books]
  /\ execution = [s \in Strategies |-> execution[s]]
  /\ live \subseteq Strategies

Shaped == JobsShaped /\ DirsShaped /\ RowsTyped

(***************************************************************************)
(* What each job is about: a tick, the published source in the strategy's  *)
(* directory; a check, a draft that has no source published; a             *)
(* publication, the source that passed the checks.                         *)
(***************************************************************************)
Preparing == {"ensure", "config", "remove", "generate", "link", "secrets", "newConfig", "meta"}
Moving == {"open", "clear", "cleared", "rename", "unlink", "relink", "rehash", "goLive"}

ItsStages(doing) ==
  CASE doing = "tick"    -> Preparing \cup {"spawn", "running"}
    [] doing = "check"   -> Preparing \cup {"spawn", "running", "record", "passed"}
    [] doing = "publish" -> Preparing \cup Moving
    [] OTHER             -> {}

\* A job that is at work in a directory.
Working(j) == job[j].at \notin {"none", "oracle", "read"}

TickHas(j) ==
  LET J == job[j]
      s == j[3]
  IN
  j[1] = "tick" /\ J # NoJob =>
    /\ J.doing = "tick" /\ sourceOf[s] # Null
    /\ J.at \in {"oracle", "read"} \cup ItsStages("tick")
    /\ J.at \in {"oracle", "read"} => J.child.at = "none" /\ J.hash = Null
    /\ Working(j) => /\ J.dir = Live(s)
                     /\ J.source = sourceOf[s]
                     /\ J.config.tick = J.snapshot.newest.t
    /\ J.at # "oracle" =>
         /\ J.snapshot.newest \in Row
         /\ priceTicks # <<>> /\ J.snapshot.newest.t <= newest.t

RoutesHave(j) ==
  LET J == job[j]
      s == j[3]
  IN
  j[1] = "routes" /\ J # NoJob =>
    /\ J.source \in Sources
    /\ \/ /\ J.doing = "check" /\ J.dir = Draft(s)
          /\ sourceOf[s] = Null /\ checkedAs[s] = Null
       \/ /\ J.doing = "publish" /\ J.dir = Live(s)
          /\ sourceOf[s] = J.source /\ checkedAs[s] = J.source
    /\ J.at \in ItsStages(J.doing)

Published(s) ==
  /\ s \in live => sourceOf[s] # Null
  /\ sourceOf[s] # Null => checkedAs[s] = sourceOf[s]
  /\ execution[s] # Null => sourceOf[s] # Null

\* Two jobs at work in one directory have met there.
Together ==
  \A j, k \in Jobs : j # k /\ Working(j) /\ Working(k) /\ job[j].dir = job[k].dir => j \in crossed

(***************************************************************************)
(* What is on disk, and how far the job that writes it has come.  A draft  *)
(* has one job at a time.                                                  *)
(***************************************************************************)
Vouches(d, D) ==
  D.meta # Null => /\ D.source \in {Null, D.meta.source}
                   /\ D.meta.hash \in {Null, D.meta.source}
                   /\ d[1] = "submissions" \/ D.meta.alone => D.secrets \in {Null, D.meta.secrets}

OnDisk(s) ==
  /\ dir[Live(s)].source \in {Null, sourceOf[s]}
  /\ dir[Live(s)].meta # Null => sourceOf[s] # Null /\ dir[Live(s)].meta.source = sourceOf[s]
  /\ checkedAs[s] # Null => dir[Draft(s)].source \in {Null, checkedAs[s]}

(***************************************************************************)
(* J is job j; D its directory; E the draft's; C the jobs that met         *)
(* another.  What a job that met nobody finds is what it left.             *)
(***************************************************************************)
Fits(C, j, J, D, E) ==
  /\ J.hash \in {Null, J.source}
  /\ J.doing = "publish" /\ J.at = "ensure" /\ j \notin C =>
       D.meta = Null \/ D.source = Null \/ D.linked = FALSE
  /\ J.doing = "publish" /\ J.at = "config" => j \in C
  /\ J.at \in {"generate", "link", "secrets"} =>
       D.meta = Null \/ (~D.meta.alone /\ J.doing # "check")
  /\ J.at \in {"newConfig", "meta", "unlink", "relink", "rehash"} /\ j \notin C =>
       D.secrets \in {Null, J.ids}
  /\ J.doing = "check" /\ J.at \in {"config", "newConfig", "meta", "spawn", "running", "record"} =>
       D.secrets \in {Null, J.ids}
  /\ J.doing = "check" /\ J.at \in {"config", "link", "secrets", "newConfig", "meta", "spawn",
                                    "running", "record", "passed"} =>
       D.source \in {Null, J.source}
  /\ J.at \in {"clear", "cleared", "rename"} =>
       /\ E.secrets \in {Null, J.ids}
       /\ E.meta # Null => E.meta.source = J.source
  /\ J.at \in {"meta", "spawn"} /\ j \notin C => D.config \in {Null, J.config}
  /\ J.at = "running" /\ J.child.at = "compile" /\ j \notin C => D.config \in {Null, J.config}

FitsIn(j) == Working(j) => Fits(crossed, j, job[j], dir[job[j].dir], dir[Draft(j[3])])

\* What the child of job J was compiled from, and the prices it saw.
ChildFits(C, j, J) ==
  /\ J # NoJob /\ J.child.at \in {"fetch", "onTick", "report", "exited"} =>
       J.child.binary = J.source /\ (j \notin C => J.child.config = J.config)
  /\ J.doing = "tick" /\ J.child.at \in {"onTick", "report", "exited"} =>
       J.child.saw.newest.t >= J.snapshot.newest.t

Recorded(s) ==
  LET e == execution[s] IN
  e # Null => /\ e.binary = sourceOf[s]
              /\ e.alone \/ e.source = "local-fallback" => e.config.tick = e.tick.newest.t
              /\ e.saw.newest.t >= e.tick.newest.t
              /\ e.source = "local-fallback" => e.saw = e.tick

StrategyInv(s) == Published(s) /\ OnDisk(s) /\ Recorded(s)
JobInv(j) == TickHas(j) /\ RoutesHave(j) /\ FitsIn(j) /\ ChildFits(crossed, j, job[j])

Inv ==
  /\ SeriesInv
  /\ Shaped
  /\ Together
  /\ \A s \in Strategies : StrategyInv(s)
  /\ \A d \in Dirs : Vouches(d, dir[d])
  /\ \A j \in Jobs : JobInv(j)

-----------------------------------------------------------------------------
(***************************************************************************)
(* The series.                                                             *)
(***************************************************************************)
LEMMA Elements ==
  ASSUME NEW S, NEW s \in Seq(S)
  PROVE  /\ Len(s) \in Nat /\ DOMAIN s = 1 .. Len(s) /\ \A k \in 1 .. Len(s) : s[k] \in S
         /\ s # <<>> => Len(s) >= 1
  OBVIOUS

LEMMA Appended ==
  ASSUME NEW S, NEW s \in Seq(S), NEW e \in S
  PROVE  /\ Append(s, e) \in Seq(S) /\ Len(Append(s, e)) = Len(s) + 1
         /\ \A k \in 1 .. Len(s) : Append(s, e)[k] = s[k]
         /\ Append(s, e)[Len(s) + 1] = e
         /\ Append(s, e) # <<>>
  OBVIOUS

LEMMA Listed ==
  ASSUME NEW S, NEW n \in Nat, NEW f \in [1 .. n -> S]
  PROVE  f \in Seq(S) /\ Len(f) = n /\ (n > 0 => f # <<>>)
  OBVIOUS

LEMMA RowIs ==
  ASSUME NEW t \in Nat, NEW n \in Nat
  PROVE  [t |-> t, step |-> n] \in Row
  BY DEF Row

\* The walk yields the prices of the very step it is asked for.
LEMMA TheWalkYieldsTheStep ==
  ASSUME NEW w \in Nat \cup {NoWalk}, NEW n \in Nat
  PROVE  walkPricesAt(w, n) = n
  BY DEF walkPricesAt, advance, NoWalk

LEMMA Stands ==
  ASSUME SeriesInv, priceTicks # <<>>
  PROVE  /\ Len(priceTicks) \in Nat /\ Len(priceTicks) >= 1
         /\ priceTicks[1] \in Row /\ newest \in Row
         /\ priceTicks[1].t \in Nat /\ newest.t \in Nat
         /\ newest.t = priceTicks[1].t + Len(priceTicks) - 1
         /\ \A t \in Nat : t \in times <=> t >= priceTicks[1].t /\ t <= newest.t
  <1>1. Len(priceTicks) \in Nat /\ DOMAIN priceTicks = 1 .. Len(priceTicks) /\ Len(priceTicks) >= 1
        /\ \A k \in 1 .. Len(priceTicks) : priceTicks[k] \in Row
    BY Elements DEF SeriesInv, SeriesTyped
  <1>2. \A i \in 1 .. Len(priceTicks) : priceTicks[i].t = priceTicks[1].t + i - 1
    BY DEF SeriesInv, OneWalk
  <1>3. /\ priceTicks[1] \in Row /\ newest \in Row
        /\ priceTicks[1].t \in Nat /\ newest.t \in Nat
    BY <1>1 DEF newest, Row
  <1>4. newest.t = priceTicks[1].t + Len(priceTicks) - 1
    BY <1>1, <1>2, <1>3 DEF newest
  <1>5. ASSUME NEW t \in Nat, t \in times
        PROVE  t >= priceTicks[1].t /\ t <= newest.t
    BY <1>1, <1>2, <1>3, <1>4, <1>5 DEF times
  <1>6. ASSUME NEW t \in Nat, t >= priceTicks[1].t, t <= newest.t
        PROVE  t \in times
    <2>1. PICK i \in 1 .. Len(priceTicks) : i = t - priceTicks[1].t + 1
      BY <1>1, <1>3, <1>4, <1>6
    <2>2. priceTicks[i].t = t
      BY <2>1, <1>2, <1>3
    <2> QED
      BY <2>1, <2>2, <1>1 DEF times
  <1> QED
    BY <1>1, <1>3, <1>4, <1>5, <1>6

\* What a step of any process may do to the series.
Later ==
  /\ priceTicks # <<>> => priceTicks' # <<>> /\ newest.t <= newest'.t
  /\ keepsToTheWalk

LEMMA TheSeriesStays ==
  ASSUME SeriesInv, priceTicks' = priceTicks, walk' \in [Processes -> Nat \cup {NoWalk}],
         advancing' \in [Processes -> [at : {"rest", "backfill", "count", "latest", "insert"},
                                       step : Nat, t : Nat]],
         \A p \in Processes :
           \/ advancing'[p].at \in {"rest", "backfill"}
           \/ priceTicks # <<>> /\ advancing'[p].at \in {"count", "latest"}
           \/ advancing'[p] = advancing[p]
           \/ priceTicks # <<>> /\ advancing'[p].t = newest.t + 1
  PROVE  SeriesInv' /\ Later
  <1>1. SeriesTyped'
    BY DEF SeriesInv, SeriesTyped
  <1>2. OneWalk'
    BY DEF SeriesInv, OneWalk
  <1>3. newest' = newest
    BY DEF newest
  <1>4. ASSUME NEW p \in Processes
        PROVE  /\ advancing'[p].at \in {"count", "latest", "insert"} => priceTicks' # <<>>
               /\ advancing'[p].at = "insert" => /\ advancing'[p].t > priceTicks'[1].t
                                                 /\ advancing'[p].t <= newest'.t + 1
    BY <1>3, Stands DEF SeriesInv, Advances
  <1>5. Len(priceTicks) \in Nat /\ Len(priceTicks') # Len(priceTicks) + 1
    BY Elements DEF SeriesInv, SeriesTyped
  <1>6. priceTicks # <<>> => newest.t \in Nat
    BY Stands
  <1>7. Later
    BY <1>3, <1>5, <1>6 DEF Later, keepsToTheWalk
  <1> QED
    BY <1>1, <1>2, <1>4, <1>7 DEF SeriesInv, Advances

LEMMA BeginStep ==
  ASSUME SeriesInv, NEW p \in Processes, Begin(p) \/ BeginEmpty(p)
  PROVE  SeriesInv' /\ Later
  BY TheSeriesStays DEF SeriesInv, SeriesTyped, Begin, BeginEmpty

LEMMA CountStep ==
  ASSUME SeriesInv, NEW p \in Processes, Count(p)
  PROVE  SeriesInv' /\ Later
  <1>1. storedSteps \in Nat
    BY Elements DEF SeriesInv, SeriesTyped, storedSteps
  <1>2. priceTicks # <<>>
    BY DEF SeriesInv, Advances, Count
  <1> QED
    BY <1>1, <1>2, TheSeriesStays DEF SeriesInv, SeriesTyped, Count

LEMMA LatestStep ==
  ASSUME SeriesInv, NEW p \in Processes, Latest(p)
  PROVE  SeriesInv' /\ Later
  <1>1. priceTicks # <<>>
    BY DEF SeriesInv, Advances, Latest
  <1>2. PICK n \in Nat : n = newest.t + 1 /\ n = priceTicks[storedSteps].t + 1
    BY <1>1, Stands DEF newest, storedSteps
  <1>3. advancing' = [advancing EXCEPT ![p] = [advancing[p] EXCEPT !.at = "insert", !.t = n]]
    BY <1>2 DEF Latest, SeriesInv, SeriesTyped
  <1>4. advancing[p] \in [at : {"rest", "backfill", "count", "latest", "insert"}, step : Nat, t : Nat]
    BY DEF SeriesInv, SeriesTyped
  <1>5. [advancing[p] EXCEPT !.at = "insert", !.t = n]
          \in [at : {"rest", "backfill", "count", "latest", "insert"}, step : Nat, t : Nat]
    BY <1>4
  <1>6. advancing' \in [Processes -> [at : {"rest", "backfill", "count", "latest", "insert"},
                                      step : Nat, t : Nat]]
    BY <1>3, <1>5 DEF SeriesInv, SeriesTyped
  <1>7. \A q \in Processes : advancing'[q] = advancing[q] \/ advancing'[q].t = n
    BY <1>3, <1>4 DEF SeriesInv, SeriesTyped
  <1> QED
    BY <1>1, <1>2, <1>6, <1>7, TheSeriesStays DEF SeriesInv, SeriesTyped, Latest

LEMMA InsertFailsStep ==
  ASSUME SeriesInv, NEW p \in Processes, InsertFails(p)
  PROVE  SeriesInv' /\ Later
  <1>1. walk[p] \in Nat \cup {NoWalk} /\ advancing[p].step \in Nat
    BY DEF SeriesInv, SeriesTyped
  <1>2. walkPricesAt(walk[p], advancing[p].step) \in Nat
    BY <1>1, TheWalkYieldsTheStep
  <1>3. Resting \in [at : {"rest", "backfill", "count", "latest", "insert"}, step : Nat, t : Nat]
    BY DEF Resting
  <1> QED
    BY <1>2, <1>3, TheSeriesStays DEF SeriesInv, SeriesTyped, InsertFails, Resting

LEMMA ForgetStep ==
  ASSUME SeriesInv, NEW p \in Processes, forgetOracle(p), UNCHANGED priceTicks
  PROVE  SeriesInv' /\ Later
  <1>1. Resting \in [at : {"rest", "backfill", "count", "latest", "insert"}, step : Nat, t : Nat]
    BY DEF Resting
  <1> QED
    BY <1>1, TheSeriesStays DEF SeriesInv, SeriesTyped, forgetOracle, Resting

LEMMA ElsewhereStep ==
  ASSUME SeriesInv, UNCHANGED oracleVars
  PROVE  SeriesInv' /\ Later
  BY TheSeriesStays DEF SeriesInv, SeriesTyped, oracleVars

\* A clock that another process's backfill was not much before or after.
LEMMA BackfillsTheEmpty ==
  ASSUME SeriesInv, NEW p \in Processes, NEW now \in Clock, Backfill(p, now)
  PROVE  priceTicks = <<>>
  <1>1. SUFFICES ASSUME priceTicks # <<>> PROVE FALSE
    OBVIOUS
  <1>2. PICK then \in Clock : priceTicks[1].t = then - BackfillTicks + 1
    BY <1>1 DEF SeriesInv, OneWalk
  <1>3. /\ now \in Nat /\ then \in Nat /\ now >= BackfillTicks /\ BackfillTicks \in Nat \ {0}
        /\ now - then < BackfillTicks /\ then - now < BackfillTicks
    BY ClockAssumption, BackfillAssumption
  <1>4. newest.t >= then
    BY <1>1, <1>2, <1>3, Stands DEF SeriesInv, OneWalk
  <1>5. \A i \in 1 .. BackfillTicks : now - BackfillTicks + i \notin times
    BY DEF Backfill
  <1>6. CASE now <= then
    <2>1. now >= priceTicks[1].t /\ now <= newest.t
      BY <1>1, <1>2, <1>3, <1>4, <1>6, Stands
    <2>2. BackfillTicks \in 1 .. BackfillTicks /\ now - BackfillTicks + BackfillTicks = now
      BY <1>3
    <2>3. now \notin times
      BY <2>2, <1>5
    <2> QED
      BY <1>1, <1>3, <2>1, <2>3, Stands
  <1>7. CASE now > then
    <2>1. then >= priceTicks[1].t /\ then <= newest.t
      BY <1>1, <1>2, <1>3, <1>4, Stands
    <2>2. PICK i \in 1 .. BackfillTicks : i = then - now + BackfillTicks
      BY <1>3, <1>7
    <2>3. now - BackfillTicks + i = then
      BY <2>2, <1>3
    <2>4. then \notin times
      BY <2>3, <1>5
    <2> QED
      BY <1>1, <1>3, <2>1, <2>4, Stands
  <1> QED
    BY <1>3, <1>6, <1>7

LEMMA BackfillStep ==
  ASSUME SeriesInv, NEW p \in Processes, NEW now \in Clock, Backfill(p, now)
  PROVE  SeriesInv' /\ Later
  <1>1. priceTicks = <<>> /\ Len(priceTicks) = 0
    BY BackfillsTheEmpty
  <1>2. /\ now \in Nat /\ now >= BackfillTicks /\ BackfillTicks \in Nat /\ BackfillTicks >= 1
    BY ClockAssumption, BackfillAssumption
  <1>3. \A i \in 1 .. BackfillTicks :
          now - BackfillTicks + i \in Nat /\ i - 1 \in Nat
    BY <1>2
  <1>4. \A i \in 1 .. BackfillTicks : [t |-> now - BackfillTicks + i, step |-> i - 1] \in Row
    BY <1>3, RowIs
  <1>5. backfill(now) \in [1 .. BackfillTicks -> Row]
    BY <1>4 DEF backfill, walkSteps
  <1>6. priceTicks' \in Seq(Row) /\ Len(priceTicks') = BackfillTicks /\ priceTicks' # <<>>
    BY <1>2, <1>5, Listed DEF Backfill
  <1>7. \A i \in 1 .. Len(priceTicks') : priceTicks'[i].t = now - BackfillTicks + i
    BY <1>6 DEF Backfill, backfill, walkSteps
  <1>8. SeriesTyped'
    BY <1>6 DEF SeriesInv, SeriesTyped, Backfill
  <1>9. OneWalk'
    <2>1. priceTicks'[1].t = now - BackfillTicks + 1
      BY <1>2, <1>6, <1>7
    <2>2. \A i \in 1 .. Len(priceTicks') : priceTicks'[i].t = priceTicks'[1].t + i - 1
      BY <1>2, <1>7, <2>1
    <2> QED
      BY <1>2, <1>6, <2>1, <2>2 DEF OneWalk
  <1>10. \A q \in Processes : advancing'[q].at # "insert"
    BY <1>1 DEF SeriesInv, SeriesTyped, Advances, Backfill
  <1>11. Advances'
    BY <1>6, <1>10 DEF Advances
  <1>12. Later
    BY <1>1, <1>2, <1>6 DEF Later, keepsToTheWalk
  <1> QED
    BY <1>8, <1>9, <1>11, <1>12 DEF SeriesInv

LEMMA InsertStep ==
  ASSUME SeriesInv, NEW p \in Processes, Insert(p)
  PROVE  /\ SeriesInv' /\ Later
         /\ priceTicks' # <<>> /\ newest' \in Row
  <1>1. priceTicks # <<>> /\ advancing[p].at = "insert"
    BY DEF SeriesInv, Advances, Insert
  <1>2. /\ Len(priceTicks) \in Nat /\ Len(priceTicks) >= 1
        /\ priceTicks[1].t \in Nat /\ newest.t \in Nat
        /\ newest.t = priceTicks[1].t + Len(priceTicks) - 1
    BY <1>1, Stands
  <1>3. walk[p] \in Nat \cup {NoWalk} /\ advancing[p].step \in Nat /\ advancing[p].t \in Nat
    BY DEF SeriesInv, SeriesTyped
  <1>4. walkPricesAt(walk[p], advancing[p].step) = advancing[p].step
    BY <1>3, TheWalkYieldsTheStep
  <1>5. advancing[p].t = newest.t + 1
    <2>1. advancing[p].t > priceTicks[1].t /\ advancing[p].t <= newest.t + 1
      BY <1>1 DEF SeriesInv, Advances
    <2>2. ~(advancing[p].t <= newest.t)
      BY <1>1, <1>3, <2>1, <1>2, Stands DEF Insert
    <2> QED
      BY <2>1, <2>2, <1>2, <1>3
  <1> DEFINE row == [t |-> newest.t + 1, step |-> advancing[p].step]
  <1>6. row \in Row /\ row.t = newest.t + 1 /\ row.step = advancing[p].step
    BY <1>2, <1>3, RowIs
  <1>7. priceTicks' = Append(priceTicks, row)
    BY <1>4, <1>5 DEF Insert
  <1> HIDE DEF row
  <1>8. /\ priceTicks' \in Seq(Row) /\ Len(priceTicks') = Len(priceTicks) + 1
        /\ \A k \in 1 .. Len(priceTicks) : priceTicks'[k] = priceTicks[k]
        /\ priceTicks'[Len(priceTicks) + 1] = row
        /\ priceTicks' # <<>>
    BY <1>6, <1>7, Appended DEF SeriesInv, SeriesTyped
  <1>9. newest' = row /\ newest'.t = newest.t + 1
    BY <1>6, <1>8 DEF newest
  <1>10. SeriesTyped'
    <2>1. Resting \in [at : {"rest", "backfill", "count", "latest", "insert"}, step : Nat, t : Nat]
      BY DEF Resting
    <2> QED
      BY <1>3, <1>4, <1>8, <2>1 DEF SeriesInv, SeriesTyped, Insert
  <1>11. OneWalk'
    <2>1. priceTicks'[1] = priceTicks[1]
      BY <1>2, <1>8
    <2>2. \A i \in 1 .. Len(priceTicks) : priceTicks[i].t = priceTicks[1].t + i - 1
      BY <1>1 DEF SeriesInv, OneWalk
    <2>3. ASSUME NEW i \in 1 .. Len(priceTicks')
          PROVE  priceTicks'[i].t = priceTicks'[1].t + i - 1
      <3>1. CASE i \in 1 .. Len(priceTicks)
        BY <3>1, <1>8, <2>1, <2>2
      <3>2. CASE i = Len(priceTicks) + 1
        BY <3>2, <1>2, <1>6, <1>8, <2>1
      <3> QED
        BY <3>1, <3>2, <1>2, <1>8
    <2>4. Len(priceTicks') >= BackfillTicks
      BY <1>1, <1>2, <1>8, BackfillAssumption DEF SeriesInv, OneWalk
    <2> QED
      BY <1>1, <2>1, <2>3, <2>4 DEF SeriesInv, OneWalk
  <1>12. Advances'
    <2>1. ASSUME NEW q \in Processes, advancing'[q].at = "insert"
          PROVE  advancing'[q].t > priceTicks'[1].t /\ advancing'[q].t <= newest'.t + 1
      <3>1. q # p /\ advancing'[q] = advancing[q]
        BY <2>1 DEF SeriesInv, SeriesTyped, Insert, Resting
      <3>2. advancing[q].t \in Nat
        BY DEF SeriesInv, SeriesTyped
      <3>3. advancing[q].t > priceTicks[1].t /\ advancing[q].t <= newest.t + 1
        BY <2>1, <3>1 DEF SeriesInv, Advances
      <3>4. priceTicks'[1] = priceTicks[1]
        BY <1>2, <1>8
      <3> QED
        BY <3>1, <3>2, <3>3, <3>4, <1>2, <1>9
    <2> QED
      BY <2>1, <1>8 DEF Advances
  <1>13. Later
    <2>1. newest.t <= newest'.t
      BY <1>2, <1>9
    <2>2. advancing'[p].at = "rest"
      BY DEF SeriesInv, SeriesTyped, Insert, Resting
    <2>3. priceTicks'[Len(priceTicks')].t = priceTicks'[Len(priceTicks') - 1].t + 1
      BY <1>2, <1>6, <1>8 DEF newest
    <2>4. advancing[p].step = Len(priceTicks') - 1 => priceTicks'[Len(priceTicks')].step = Len(priceTicks') - 1
      BY <1>2, <1>6, <1>8
    <2> QED
      BY <1>1, <1>8, <2>1, <2>2, <2>3, <2>4 DEF Later, keepsToTheWalk
  <1> QED
    BY <1>6, <1>8, <1>9, <1>10, <1>11, <1>12, <1>13 DEF SeriesInv

-----------------------------------------------------------------------------
(***************************************************************************)
(* What a step leaves alone, forgets or loses is as good as it was.        *)
(***************************************************************************)
LEMMA Names ==
  ASSUME NEW s \in Strategies
  PROVE  /\ Routes(s) \in Jobs /\ Routes(s)[1] = "routes" /\ Routes(s)[2] = Server /\ Routes(s)[3] = s
         /\ Live(s) \in Dirs /\ Draft(s) \in Dirs /\ Live(s) # Draft(s)
         /\ Live(s)[1] = "strategies" /\ Draft(s)[1] = "submissions"
         /\ \A p \in Processes : /\ Tick(p, s) \in Jobs /\ Tick(p, s)[1] = "tick"
                                 /\ Tick(p, s)[2] = p /\ Tick(p, s)[3] = s
         /\ \A r \in Strategies : /\ Live(r) # Draft(s) /\ Draft(r) # Live(s)
                                  /\ r # s => Live(r) # Live(s) /\ Draft(r) # Draft(s)
  BY ServerAssumption DEF Tick, Routes, Live, Draft, Jobs, Dirs

LEMMA EveryJob ==
  ASSUME NEW j \in Jobs
  PROVE  /\ j[3] \in Strategies /\ process(j) \in Processes
         /\ \/ j[1] = "tick" /\ j = Tick(j[2], j[3])
            \/ j[1] = "routes" /\ j = Routes(j[3])
  BY ServerAssumption DEF Jobs, Tick, Routes, process

LEMMA EveryDir ==
  ASSUME NEW d \in Dirs
  PROVE  d[2] \in Strategies /\ (d = Live(d[2]) \/ d = Draft(d[2]))
  BY DEF Dirs, Live, Draft

LEMMA NothingThere ==
  /\ Absent.source = Null /\ Absent.secrets = Null /\ Absent.config = Null /\ Absent.meta = Null
  /\ Absent.linked = FALSE /\ DOMAIN Absent = {"source", "linked", "secrets", "config", "meta"}
  BY DEF Absent

LEMMA NobodyThere ==
  /\ NoJob.doing = "none" /\ NoJob.at = "none" /\ NoJob.child = NoChild /\ NoChild.at = "none"
  /\ NoJob.hash = Null
  /\ DOMAIN NoJob = {"doing", "at", "dir", "source", "ids", "config", "hash", "snapshot", "child"}
  /\ DOMAIN NoChild = {"at", "binary", "config", "secrets", "saw", "printed"}
  BY DEF NoJob, NoChild

LEMMA NobodyIsShaped ==
  /\ DOMAIN NoJob = DOMAIN NoJob /\ DOMAIN NoJob.child = DOMAIN NoChild
  /\ NoJob.doing = "none" <=> NoJob = NoJob
  BY NobodyThere

LEMMA NewestIsKept ==
  ASSUME SeriesInv, Later, SeriesInv', priceTicks # <<>>, NEW t \in Nat, t <= newest.t
  PROVE  priceTicks' # <<>> /\ t <= newest'.t
  <1>1. newest.t \in Nat
    BY Stands
  <1>2. priceTicks' # <<>> /\ newest.t <= newest'.t
    BY DEF Later
  <1>3. newest'.t \in Nat
    <2>1. priceTicks' \in Seq(Row)
      BY DEF SeriesInv, SeriesTyped
    <2>2. newest' \in Row
      BY <1>2, <2>1, Elements DEF newest
    <2> QED
      BY <2>2 DEF Row
  <1> QED
    BY <1>1, <1>2, <1>3

\* A job at work in a directory, and what it has at hand there.
LEMMA AtHand ==
  ASSUME Inv, NEW j \in Jobs, Working(j)
  PROVE  LET J == job[j]
             s == j[3]
             D == dir[J.dir]
         IN
         /\ J # NoJob /\ s \in Strategies /\ J.dir \in Dirs /\ J.dir \in {Live(s), Draft(s)}
         /\ Live(s) \in Dirs /\ Draft(s) \in Dirs /\ Live(s) # Draft(s)
         /\ J.source \in Sources /\ J.source # Null
         /\ J.at \in ItsStages(J.doing)
         /\ \/ J.doing = "tick" /\ j[1] = "tick" /\ J.dir = Live(s)
            \/ J.doing = "check" /\ j[1] = "routes" /\ J.dir = Draft(s)
            \/ J.doing = "publish" /\ j[1] = "routes" /\ J.dir = Live(s)
         /\ J.doing # "check" =>
              /\ sourceOf[s] = J.source
              /\ D.source \in {Null, J.source}
              /\ D.meta # Null => D.meta.source = J.source
         /\ J.doing = "check" => sourceOf[s] = Null /\ checkedAs[s] = Null
         /\ J.doing = "publish" => checkedAs[s] = J.source /\ dir[Draft(s)].source \in {Null, J.source}
         /\ Fits(crossed, j, J, D, dir[Draft(s)])
         /\ ChildFits(crossed, j, J)
         /\ Vouches(J.dir, D) /\ Vouches(Draft(s), dir[Draft(s)])
         /\ DOMAIN D = DOMAIN Absent /\ D.linked \in BOOLEAN
         /\ DOMAIN J = DOMAIN NoJob /\ DOMAIN J.child = DOMAIN NoChild
  <1> DEFINE J == job[j]
             s == j[3]
             D == dir[J.dir]
  <1>1. /\ s \in Strategies /\ StrategyInv(s) /\ JobInv(j)
        /\ \/ j[1] = "tick" /\ j[1] # "routes"
           \/ j[1] = "routes" /\ j[1] # "tick"
    BY EveryJob DEF Inv
  <1>2. J # NoJob
    BY NobodyThere DEF Working
  <1>3. /\ Live(s) \in Dirs /\ Draft(s) \in Dirs /\ Live(s) # Draft(s)
    BY <1>1, Names
  <1>4. sourceOf[s] \in Sources \cup {Null} /\ Null \notin Sources
    BY <1>1, SourcesAssumption DEF Inv, Shaped, RowsTyped
  <1>5. /\ J.source \in Sources /\ J.at \in ItsStages(J.doing)
        /\ \/ J.doing = "tick" /\ j[1] = "tick" /\ J.dir = Live(s) /\ sourceOf[s] = J.source
           \/ /\ J.doing = "check" /\ j[1] = "routes" /\ J.dir = Draft(s)
              /\ sourceOf[s] = Null /\ checkedAs[s] = Null
           \/ /\ J.doing = "publish" /\ j[1] = "routes" /\ J.dir = Live(s)
              /\ sourceOf[s] = J.source /\ checkedAs[s] = J.source
    <2>1. CASE j[1] = "tick"
      BY <1>1, <1>2, <1>4, <2>1 DEF JobInv, TickHas, Working
    <2>2. CASE j[1] = "routes"
      BY <1>1, <1>2, <2>2 DEF JobInv, RoutesHave
    <2> QED
      BY <1>1, <2>1, <2>2
  <1>6. /\ dir[Live(s)].source \in {Null, sourceOf[s]}
        /\ dir[Live(s)].meta # Null => dir[Live(s)].meta.source = sourceOf[s]
        /\ checkedAs[s] # Null => dir[Draft(s)].source \in {Null, checkedAs[s]}
    BY <1>1 DEF StrategyInv, OnDisk
  <1>7. Fits(crossed, j, J, D, dir[Draft(s)]) /\ ChildFits(crossed, j, J)
    BY <1>1 DEF JobInv, FitsIn
  <1>8. J.dir \in Dirs /\ Vouches(J.dir, D) /\ Vouches(Draft(s), dir[Draft(s)])
    BY <1>3, <1>5 DEF Inv
  <1>9. /\ DOMAIN D = DOMAIN Absent /\ D.linked \in BOOLEAN
        /\ DOMAIN J = DOMAIN NoJob /\ DOMAIN J.child = DOMAIN NoChild
    BY <1>8 DEF Inv, Shaped, DirsShaped, JobsShaped
  <1>10. J.source # Null
    BY <1>4, <1>5
  <1>11. J.doing # "check" =>
           /\ sourceOf[s] = J.source
           /\ D.source \in {Null, J.source}
           /\ D.meta # Null => D.meta.source = J.source
    BY <1>5, <1>6
  <1>12. J.doing = "publish" => checkedAs[s] = J.source /\ dir[Draft(s)].source \in {Null, J.source}
    BY <1>5, <1>6, <1>10
  <1>13. J.doing = "check" => sourceOf[s] = Null /\ checkedAs[s] = Null
    BY <1>5
  <1> QED
    BY <1>1, <1>2, <1>3, <1>5, <1>7, <1>8, <1>9, <1>10, <1>11, <1>12, <1>13

LEMMA SomeJob ==
  ASSUME NEW j \in Jobs, job[j].at # "none"
  PROVE  job[j] # NoJob
  BY NobodyThere

\* To have met somebody asks less of a directory.
LEMMA MeetingAsksLess ==
  ASSUME NEW C, NEW B, NEW j, NEW J, NEW D, NEW E, j \in C => j \in B
  PROVE  /\ Fits(C, j, J, D, E) => Fits(B, j, J, D, E)
         /\ ChildFits(C, j, J) => ChildFits(B, j, J)
  BY DEF Fits, ChildFits

\* And so does a directory that is gone.
LEMMA GoneIsFine ==
  ASSUME NEW C, NEW j, NEW J, NEW D, NEW E, NEW F \in {D, Absent}, NEW G \in {E, Absent},
         Fits(C, j, J, D, E)
  PROVE  Fits(C, j, J, F, G)
  BY NothingThere DEF Fits

LEMMA JobStays ==
  ASSUME Inv, SeriesInv', Later, NEW k \in Jobs, job'[k] \in {job[k], NoJob},
         k \in crossed => k \in crossed',
         sourceOf'[k[3]] = sourceOf[k[3]] \/ job'[k] = NoJob,
         checkedAs'[k[3]] = checkedAs[k[3]] \/ k[1] = "tick" \/ job'[k] = NoJob,
         Working(k) => /\ dir'[job[k].dir] \in {dir[job[k].dir], Absent}
                       /\ dir'[Draft(k[3])] \in {dir[Draft(k[3])], Absent}
  PROVE  JobInv(k)'
  <1>1. CASE job'[k] = NoJob
    BY <1>1, NobodyThere DEF JobInv, TickHas, RoutesHave, FitsIn, Working, ChildFits
  <1>2. CASE job'[k] = job[k] /\ job[k] # NoJob
    <2>1. JobInv(k)
      BY DEF Inv
    <2>2. Working(k)' <=> Working(k)
      BY <1>2 DEF Working
    <2>3. priceTicks # <<>> /\ job[k].snapshot.newest \in Row
            /\ job[k].snapshot.newest.t <= newest.t
          => priceTicks' # <<>> /\ job[k].snapshot.newest.t <= newest'.t
      BY NewestIsKept DEF Row, Inv
    <2>4. sourceOf'[k[3]] = sourceOf[k[3]] /\ (checkedAs'[k[3]] = checkedAs[k[3]] \/ k[1] = "tick")
      BY <1>2
    <2>5. TickHas(k)'
      BY <1>2, <2>1, <2>2, <2>3, <2>4 DEF JobInv, TickHas
    <2>6. RoutesHave(k)'
      BY <1>2, <2>1, <2>4 DEF JobInv, RoutesHave
    <2>7. FitsIn(k)'
      BY <1>2, <2>1, <2>2, MeetingAsksLess, GoneIsFine DEF JobInv, FitsIn
    <2>8. ChildFits(crossed, k, job[k])'
      BY <1>2, <2>1, MeetingAsksLess DEF JobInv
    <2> QED
      BY <2>5, <2>6, <2>7, <2>8 DEF JobInv
  <1> QED
    BY <1>1, <1>2

-----------------------------------------------------------------------------
(***************************************************************************)
(* Updating one job and one directory.                                     *)
(***************************************************************************)
LEMMA JobUpdate ==
  ASSUME JobsShaped, NEW j \in Jobs, NEW J, job' = [job EXCEPT ![j] = J],
         DOMAIN J = DOMAIN NoJob, DOMAIN J.child = DOMAIN NoChild, J.doing = "none" <=> J = NoJob
  PROVE  JobsShaped' /\ job'[j] = J /\ \A k \in Jobs \ {j} : job'[k] = job[k]
  BY DEF JobsShaped

LEMMA DirUpdate ==
  ASSUME DirsShaped, NEW d \in Dirs, NEW D, contents(d, D),
         DOMAIN D = DOMAIN Absent, D.linked \in BOOLEAN, D.source \in Sources \cup {Null}
  PROVE  DirsShaped' /\ dir'[d] = D /\ \A k \in Dirs \ {d} : dir'[k] = dir[k]
  BY DEF DirsShaped, contents

(***************************************************************************)
(* A job that goes on keeps what it was begun with; what it writes is its  *)
(* own directory, or, moving it, the draft's.  It meets the others there   *)
(* only where all of them are known to have met.                           *)
(***************************************************************************)
SameErrand(j) ==
  /\ job'[j].doing = job[j].doing
  /\ job'[j].dir = job[j].dir
  /\ job'[j].source = job[j].source
  /\ job'[j].config = job[j].config
  /\ job'[j].snapshot = job[j].snapshot

\* What job j leaves in a directory that held D.
Leaves(j, D, F) ==
  /\ F.source \in {D.source, job[j].source, Null}
  /\ job[j].doing # "check" /\ F.meta # Null => F.meta.source = job[j].source
  /\ F.meta \in {D.meta, Null} \/ (F.meta.alone => j \notin crossed)

LEMMA BothMet ==
  ASSUME Inv, NEW j \in Jobs, NEW k \in Jobs, j # k, Working(j), Working(k), job[j].dir = job[k].dir
  PROVE  j \in crossed /\ k \in crossed /\ job[k].doing # "check"
  <1>1. j \in crossed /\ k \in crossed
    BY DEF Inv, Together
  <1>2. ASSUME job[k].doing = "check" PROVE FALSE
    <2>1. /\ j[3] \in Strategies /\ k[3] \in Strategies
          /\ job[k].dir = Draft(k[3]) /\ k[1] = "routes"
          /\ \/ job[j].dir = Draft(j[3]) /\ j[1] = "routes"
             \/ job[j].dir = Live(j[3])
      BY <1>2, AtHand
    <2>2. job[j].dir = Draft(j[3]) /\ j[1] = "routes" /\ j[3] = k[3]
      BY <2>1, Names
    <2>3. j = Routes(j[3]) /\ k = Routes(k[3])
      BY <2>1, <2>2, EveryJob
    <2> QED
      BY <2>2, <2>3
  <1> QED
    BY <1>1, <1>2

LEMMA OthersGoOn ==
  ASSUME Inv, NEW j \in Jobs, Working(j), UNCHANGED <<oracleVars, rows>>,
         NEW F, Leaves(j, dir[job[j].dir], F), dir'[job[j].dir] = F,
         \A d \in Dirs \ {job[j].dir} :
           \/ dir'[d] = dir[d]
           \/ job[j].doing = "publish" /\ d = Draft(j[3]) /\ dir'[d] = Absent,
         NEW k \in Jobs \ {j}, job'[k] = job[k]
  PROVE  JobInv(k)'
  <1>1. SeriesInv' /\ Later
    BY ElsewhereStep DEF Inv
  <1>2. UNCHANGED <<sourceOf, checkedAs, crossed>>
    BY DEF rows
  <1>3. CASE ~Working(k)
    BY <1>1, <1>2, <1>3, JobStays
  <1>4. CASE Working(k) /\ job[k].dir # job[j].dir
    <2>1. \A d \in Dirs \ {job[j].dir} : dir'[d] \in {dir[d], Absent}
      OBVIOUS
    <2>2. job[k].dir \in Dirs /\ Draft(k[3]) \in Dirs
      BY <1>4, AtHand
    <2>3. CASE Draft(k[3]) # job[j].dir
      BY <1>1, <1>2, <1>4, <2>1, <2>2, <2>3, JobStays
    <2>4. CASE Draft(k[3]) = job[j].dir
      <3>1. /\ job[j].doing = "check" /\ j[1] = "routes" /\ j[3] = k[3]
            /\ j[3] \in Strategies /\ k[3] \in Strategies
        BY <1>4, <2>4, AtHand, Names, EveryJob
      <3>2. j = Routes(j[3]) /\ (k[1] = "routes" => k = Routes(k[3]))
        BY <3>1, EveryJob
      <3>3. k[1] # "routes"
        BY <3>1, <3>2
      <3>4. job[k].doing = "tick" /\ FitsIn(k)
        BY <1>4, <3>3, AtHand DEF Inv, JobInv
      <3>5. job[k].at \notin {"clear", "cleared", "rename"}
        BY <1>4, <3>4, AtHand DEF ItsStages, Preparing
      <3>6. dir'[job[k].dir] \in {dir[job[k].dir], Absent}
        BY <1>4, <2>1, <2>2
      <3>7. Working(k)' /\ dir'[job[k].dir] = dir[job[k].dir]
        BY <1>4, <2>2, <3>1 DEF Working
      <3>8. FitsIn(k)'
        BY <1>2, <1>4, <3>4, <3>5, <3>7 DEF FitsIn, Fits
      <3>9. TickHas(k)' /\ RoutesHave(k)' /\ ChildFits(crossed, k, job[k])'
        <4>1. JobInv(k) /\ UNCHANGED <<priceTicks, sourceOf, checkedAs, crossed>>
          BY <1>2 DEF Inv, oracleVars
        <4> QED
          BY <4>1, <3>7, <1>4 DEF JobInv, TickHas, RoutesHave, newest
      <3> QED
        BY <3>8, <3>9 DEF JobInv
    <2> QED
      BY <2>3, <2>4
  <1>5. CASE Working(k) /\ job[k].dir = job[j].dir
    <2>1. j \in crossed /\ k \in crossed /\ job[k].doing # "check" /\ job[j].doing # "check"
      BY <1>5, BothMet
    <2>2. /\ JobInv(k) /\ UNCHANGED <<priceTicks, sourceOf, checkedAs, crossed>>
          /\ Working(k)'
      BY <1>2, <1>5 DEF Inv, oracleVars, Working
    <2>3. TickHas(k)' /\ RoutesHave(k)' /\ ChildFits(crossed, k, job[k])'
      BY <2>2, <1>5 DEF JobInv, TickHas, RoutesHave, newest
    <2>4. F.meta = Null \/ F.meta = dir[job[j].dir].meta \/ ~F.meta.alone
      BY <2>1 DEF Leaves
    <2>5. FitsIn(k)'
      <3>1. Fits(crossed, k, job[k], dir[job[k].dir], dir[Draft(k[3])])
        BY <1>5, <2>2 DEF JobInv, FitsIn
      <3>2. Draft(k[3]) \in Dirs /\ Draft(k[3]) # job[j].dir
        BY <1>5, <2>1, AtHand
      <3>3. dir'[Draft(k[3])] \in {dir[Draft(k[3])], Absent}
        BY <3>2
      <3>4. Fits(crossed, k, job[k], F, dir'[Draft(k[3])])
        BY <1>5, <2>1, <2>4, <3>1, <3>3, NothingThere DEF Fits
      <3> QED
        BY <1>2, <1>5, <3>4 DEF FitsIn
    <2> QED
      BY <2>3, <2>5 DEF JobInv
  <1> QED
    BY <1>3, <1>4, <1>5

(***************************************************************************)
(* A job goes on: it changes itself and its directory, and still fits it.  *)
(***************************************************************************)
LEMMA JobGoesOn ==
  ASSUME Inv, NEW j \in Jobs, Working(j), SameErrand(j), job'[j].at \in ItsStages(job[j].doing),
         UNCHANGED <<oracleVars, rows>>,
         JobsShaped', DirsShaped', \A k \in Jobs \ {j} : job'[k] = job[k],
         NEW F, Leaves(j, dir[job[j].dir], F), dir'[job[j].dir] = F,
         \A d \in Dirs \ {job[j].dir} :
           \/ dir'[d] = dir[d]
           \/ job[j].doing = "publish" /\ d = Draft(j[3]) /\ dir'[d] = Absent,
         Fits(crossed, j, job'[j], F, dir'[Draft(j[3])]), ChildFits(crossed, j, job'[j]),
         Vouches(job[j].dir, F)
  PROVE  Inv'
  <1> DEFINE s == j[3]
  <1>1. /\ s = j[3] /\ s \in Strategies /\ job[j].dir \in Dirs /\ job[j].source # Null /\ job[j] # NoJob
        /\ Live(s) # Draft(s)
        /\ \/ job[j].doing = "tick" /\ j[1] = "tick" /\ job[j].dir = Live(s)
           \/ job[j].doing = "check" /\ j[1] = "routes" /\ job[j].dir = Draft(s)
           \/ job[j].doing = "publish" /\ j[1] = "routes" /\ job[j].dir = Live(s)
        /\ job[j].doing # "check" => sourceOf[s] = job[j].source
        /\ job[j].doing = "check" => checkedAs[s] = Null
    BY AtHand
  <1> HIDE DEF s
  <1>2. SeriesInv' /\ Later
    BY ElsewhereStep DEF Inv
  <1>3. Shaped'
    BY DEF Inv, Shaped, RowsTyped, rows
  <1>4. UNCHANGED <<priceTicks, sourceOf, checkedAs, live, execution, crossed>>
    BY DEF rows, oracleVars
  <1>5. Working(j)' /\ job'[j] # NoJob
    BY NobodyThere DEF ItsStages, Preparing, Moving, Working
  <1>6. Together'
    <2>1. \A k \in Jobs : (Working(k)' <=> Working(k)) /\ job'[k].dir = job[k].dir
      BY <1>5 DEF Working, SameErrand
    <2> QED
      BY <1>4, <2>1 DEF Inv, Together
  <1>7. ASSUME NEW r \in Strategies PROVE StrategyInv(r)'
    <2>1. StrategyInv(r) /\ Live(r) \in Dirs /\ Draft(r) \in Dirs /\ Live(r) # Draft(s)
      BY <1>1, Names DEF Inv
    <2>2. Published(r)' /\ Recorded(r)'
      BY <1>4, <2>1 DEF StrategyInv, Published, Recorded
    <2>3. CASE job[j].dir = Live(r)
      <3>1. r = s /\ job[j].doing # "check" /\ Draft(r) # job[j].dir
        BY <1>1, <2>3, Names
      <3>2. dir'[Draft(r)] \in {dir[Draft(r)], Absent}
        BY <2>1, <3>1
      <3>3. OnDisk(r)'
        BY <1>1, <1>4, <2>1, <2>3, <3>1, <3>2, NothingThere DEF StrategyInv, OnDisk, Leaves
      <3> QED
        BY <2>2, <3>3 DEF StrategyInv
    <2>4. CASE job[j].dir = Draft(r)
      <3>1. r = s /\ job[j].doing = "check" /\ Live(r) # job[j].dir
        BY <1>1, <2>4, Names
      <3>2. dir'[Live(r)] = dir[Live(r)]
        BY <2>1, <3>1
      <3>3. OnDisk(r)'
        BY <1>1, <1>4, <2>1, <3>1, <3>2 DEF StrategyInv, OnDisk
      <3> QED
        BY <2>2, <3>3 DEF StrategyInv
    <2>5. CASE job[j].dir \notin {Live(r), Draft(r)}
      <3>1. dir'[Live(r)] = dir[Live(r)]
        BY <1>1, <2>1, <2>5
      <3>2. dir'[Draft(r)] = dir[Draft(r)] \/ dir'[Draft(r)] = Absent
        BY <2>1, <2>5
      <3>3. OnDisk(r)'
        BY <1>4, <2>1, <3>1, <3>2, NothingThere DEF StrategyInv, OnDisk
      <3> QED
        BY <2>2, <3>3 DEF StrategyInv
    <2> QED
      BY <2>3, <2>4, <2>5
  <1>8. ASSUME NEW d \in Dirs PROVE Vouches(d, dir'[d])
    <2>1. Vouches(d, dir[d])
      BY DEF Inv
    <2>2. CASE d = job[j].dir
      BY <2>2
    <2>3. CASE d # job[j].dir
      <3>1. dir'[d] = dir[d] \/ dir'[d] = Absent
        BY <2>3
      <3> QED
        BY <2>1, <3>1, NothingThere DEF Vouches
    <2> QED
      BY <2>2, <2>3
  <1>9. \A k \in Jobs \ {j} : JobInv(k)'
    BY OthersGoOn
  <1>10. JobInv(j)'
    <2>1. JobInv(j)
      BY DEF Inv
    <2>2. job[j].at \notin {"oracle", "read"} /\ job'[j].at \notin {"oracle", "read"}
      BY <1>5 DEF Working
    <2>3. UNCHANGED newest
      BY <1>4 DEF newest
    <2>4. TickHas(j)'
      BY <1>1, <1>4, <1>5, <2>1, <2>2, <2>3 DEF JobInv, TickHas, SameErrand, Working
    <2>5. RoutesHave(j)'
      BY <1>1, <1>4, <2>1 DEF JobInv, RoutesHave, SameErrand
    <2>6. FitsIn(j)' /\ ChildFits(crossed, j, job[j])'
      BY <1>4 DEF FitsIn, SameErrand
    <2> QED
      BY <2>4, <2>5, <2>6 DEF JobInv
  <1> QED
    BY <1>2, <1>3, <1>6, <1>7, <1>8, <1>9, <1>10 DEF Inv

\* Job j goes to a stage, with these ids, this hash and this child.
Moved(j, at, ids, hash, child) ==
  /\ JobsShaped' /\ \A k \in Jobs \ {j} : job'[k] = job[k]
  /\ SameErrand(j)
  /\ job'[j].at = at /\ job'[j].ids = ids /\ job'[j].hash = hash /\ job'[j].child = child

LEMMA Goes ==
  ASSUME JobsShaped, NEW j \in Jobs, job[j] # NoJob, NEW at, goes(j, at)
  PROVE  Moved(j, at, job[j].ids, job[j].hash, job[j].child)
  <1> DEFINE J == [job[j] EXCEPT !.at = at]
  <1>1. job' = [job EXCEPT ![j] = J]
    BY DEF goes
  <1>2. DOMAIN job[j] = DOMAIN NoJob /\ DOMAIN job[j].child = DOMAIN NoChild
        /\ job[j].doing # "none"
    BY DEF JobsShaped
  <1>3. /\ DOMAIN J = DOMAIN NoJob /\ J.at = at
        /\ J.doing = job[j].doing /\ J.dir = job[j].dir /\ J.source = job[j].source
        /\ J.config = job[j].config /\ J.snapshot = job[j].snapshot
        /\ J.ids = job[j].ids /\ J.hash = job[j].hash /\ J.child = job[j].child
    BY <1>2, NobodyThere
  <1>4. J # NoJob
    BY <1>2, <1>3, NobodyThere
  <1> HIDE DEF J
  <1>5. JobsShaped' /\ job'[j] = J /\ \A k \in Jobs \ {j} : job'[k] = job[k]
    BY <1>1, <1>2, <1>3, <1>4, JobUpdate
  <1> QED
    BY <1>3, <1>5 DEF Moved, SameErrand

LEMMA GoesWithHash ==
  ASSUME JobsShaped, NEW j \in Jobs, job[j] # NoJob, NEW at, NEW hash,
         job' = [job EXCEPT ![j].at = at, ![j].hash = hash]
  PROVE  Moved(j, at, job[j].ids, hash, job[j].child)
  <1> DEFINE J == [job[j] EXCEPT !.at = at, !.hash = hash]
  <1>2. DOMAIN job[j] = DOMAIN NoJob /\ DOMAIN job[j].child = DOMAIN NoChild
        /\ job[j].doing # "none"
    BY DEF JobsShaped
  <1>1. job' = [job EXCEPT ![j] = J]
    BY DEF JobsShaped
  <1>3. /\ DOMAIN J = DOMAIN NoJob /\ J.at = at
        /\ J.doing = job[j].doing /\ J.dir = job[j].dir /\ J.source = job[j].source
        /\ J.config = job[j].config /\ J.snapshot = job[j].snapshot
        /\ J.ids = job[j].ids /\ J.hash = hash /\ J.child = job[j].child
    BY <1>2, NobodyThere
  <1>4. J # NoJob
    BY <1>2, <1>3, NobodyThere
  <1> HIDE DEF J
  <1>6. DOMAIN J.child = DOMAIN NoChild /\ J.doing # "none"
    BY <1>2, <1>3
  <1>5. JobsShaped' /\ job'[j] = J /\ \A k \in Jobs \ {j} : job'[k] = job[k]
    BY <1>1, <1>3, <1>4, <1>6, JobUpdate
  <1> QED
    BY <1>3, <1>5 DEF Moved, SameErrand

LEMMA GoesWithIds ==
  ASSUME JobsShaped, NEW j \in Jobs, job[j] # NoJob, NEW at, NEW ids,
         job' = [job EXCEPT ![j].at = at, ![j].ids = ids]
  PROVE  Moved(j, at, ids, job[j].hash, job[j].child)
  <1> DEFINE J == [job[j] EXCEPT !.at = at, !.ids = ids]
  <1>1. DOMAIN job[j] = DOMAIN NoJob /\ DOMAIN job[j].child = DOMAIN NoChild
        /\ job[j].doing # "none"
    BY DEF JobsShaped
  <1>2. job' = [job EXCEPT ![j] = J]
    BY DEF JobsShaped
  <1>3. /\ DOMAIN J = DOMAIN NoJob /\ J.at = at
        /\ J.doing = job[j].doing /\ J.dir = job[j].dir /\ J.source = job[j].source
        /\ J.config = job[j].config /\ J.snapshot = job[j].snapshot
        /\ J.ids = ids /\ J.hash = job[j].hash /\ J.child = job[j].child
    BY <1>1, NobodyThere
  <1>4. J # NoJob
    BY <1>1, <1>3, NobodyThere
  <1> HIDE DEF J
  <1>5. DOMAIN J.child = DOMAIN NoChild /\ J.doing # "none"
    BY <1>1, <1>3
  <1>6. JobsShaped' /\ job'[j] = J /\ \A k \in Jobs \ {j} : job'[k] = job[k]
    BY <1>2, <1>3, <1>4, <1>5, JobUpdate
  <1> QED
    BY <1>3, <1>6 DEF Moved, SameErrand

LEMMA GoesWithChild ==
  ASSUME JobsShaped, NEW j \in Jobs, job[j] # NoJob, NEW at, NEW child,
         DOMAIN child = DOMAIN NoChild,
         \/ job' = [job EXCEPT ![j].at = at, ![j].child = child]
         \/ at = job[j].at /\ job' = [job EXCEPT ![j].child = child]
  PROVE  Moved(j, at, job[j].ids, job[j].hash, child)
  <1> DEFINE J == [job[j] EXCEPT !.at = at, !.child = child]
             K == [job[j] EXCEPT !.child = child]
  <1>2. DOMAIN job[j] = DOMAIN NoJob /\ job[j].doing # "none"
    BY DEF JobsShaped
  <1>1. \/ job' = [job EXCEPT ![j] = J]
        \/ at = job[j].at /\ job' = [job EXCEPT ![j] = K]
    BY DEF JobsShaped
  <1>3. \A L \in {J, K} :
        /\ DOMAIN L = DOMAIN NoJob
        /\ L.doing = job[j].doing /\ L.dir = job[j].dir /\ L.source = job[j].source
        /\ L.config = job[j].config /\ L.snapshot = job[j].snapshot
        /\ L.ids = job[j].ids /\ L.hash = job[j].hash /\ L.child = child
    BY <1>2, NobodyThere
  <1>6. J.at = at /\ K.at = job[j].at
    BY <1>2, NobodyThere
  <1>4. \A L \in {J, K} : L # NoJob
    BY <1>2, <1>3, NobodyThere
  <1> HIDE DEF J, K
  <1>5. /\ JobsShaped' /\ job'[j] \in {J, K} /\ \A k \in Jobs \ {j} : job'[k] = job[k]
        /\ job'[j].at = at
    BY <1>1, <1>2, <1>3, <1>4, <1>6, JobUpdate
  <1> QED
    BY <1>3, <1>5 DEF Moved, SameErrand

LEMMA StagesOf ==
  ASSUME NEW j \in Jobs, job[j].doing \in {"tick", "check", "publish"}
  PROVE  /\ Preparing \subseteq ItsStages(job[j].doing)
         /\ afterEnsuring(j) \in ItsStages(job[j].doing) \cap {"spawn", "rehash"}
         /\ "spawn" \in ItsStages(job[j].doing) => "running" \in ItsStages(job[j].doing)
         /\ "running" \in ItsStages(job[j].doing) => job[j].doing # "publish"
         /\ job[j].doing = "check" => {"record", "passed"} \subseteq ItsStages(job[j].doing)
         /\ job[j].doing = "publish" => Moving \subseteq ItsStages(job[j].doing)
         /\ afterEnsuring(j) = "rehash" <=> job[j].doing = "publish"
  BY DEF ItsStages, Preparing, Moving, afterEnsuring

LEMMA MovesOnly ==
  ASSUME Inv, NEW j \in Jobs, Working(j),
         NEW at, NEW ids, NEW hash, NEW child, Moved(j, at, ids, hash, child),
         at \in ItsStages(job[j].doing), UNCHANGED <<oracleVars, dir, rows>>,
         Fits(crossed, j, job'[j], dir[job[j].dir], dir[Draft(j[3])]), ChildFits(crossed, j, job'[j])
  PROVE  Inv'
  <1>1. /\ Vouches(job[j].dir, dir[job[j].dir])
        /\ Leaves(j, dir[job[j].dir], dir[job[j].dir])
    BY AtHand DEF Leaves
  <1>2. DirsShaped'
    BY DEF Inv, Shaped, DirsShaped
  <1> QED
    BY <1>1, <1>2, JobGoesOn DEF Moved

LEMMA MovesAndWrites ==
  ASSUME Inv, NEW j \in Jobs, Working(j),
         NEW at, NEW ids, NEW hash, NEW child, Moved(j, at, ids, hash, child),
         at \in ItsStages(job[j].doing), UNCHANGED <<oracleVars, rows>>,
         NEW F, contents(job[j].dir, F), DOMAIN F = DOMAIN Absent, F.linked \in BOOLEAN,
         Leaves(j, dir[job[j].dir], F), at \notin {"clear", "cleared", "rename"},
         Fits(crossed, j, job'[j], F, F), ChildFits(crossed, j, job'[j]), Vouches(job[j].dir, F)
  PROVE  Inv'
  <1>1. /\ job[j].dir \in Dirs /\ job[j].source \in Sources
    BY AtHand
  <1>2. DirsShaped /\ F.source \in Sources \cup {Null}
    BY <1>1 DEF Inv, Shaped, DirsShaped, Leaves
  <1>3. /\ DirsShaped' /\ dir'[job[j].dir] = F
        /\ \A k \in Dirs \ {job[j].dir} : dir'[k] = dir[k]
    BY <1>1, <1>2, DirUpdate
  <1>4. Fits(crossed, j, job'[j], F, dir'[Draft(j[3])])
    BY DEF Fits, Moved
  <1> QED
    BY <1>3, <1>4, JobGoesOn DEF Moved

-----------------------------------------------------------------------------
(***************************************************************************)
(* ensureWorkflow.                                                         *)
(***************************************************************************)
LEMMA ReuseStep ==
  ASSUME Inv, NEW j \in Jobs, Reuse(j)
  PROVE  Inv'
  <1> DEFINE D == dir[job[j].dir]
  <1>1. job[j].at = "ensure" /\ Working(j) /\ job[j] # NoJob
    BY SomeJob DEF Reuse, runs, Working
  <1>2. /\ Vouches(job[j].dir, D) /\ ChildFits(crossed, j, job[j])
        /\ job[j].doing \in {"tick", "check", "publish"}
        /\ job[j].doing = "check" => job[j].dir = Draft(j[3]) /\ j[3] \in Strategies
        /\ Fits(crossed, j, job[j], D, dir[Draft(j[3])])
    BY <1>1, AtHand
  <1>3. /\ D.meta # Null /\ D.meta.source = job[j].source /\ D.meta.secrets = job[j].ids
        /\ D.source # Null /\ D.linked # FALSE
    BY DEF Reuse, reusable, intact
  <1>4. Moved(j, "config", job[j].ids, D.meta.hash, job[j].child)
    BY <1>1, GoesWithHash DEF Inv, Shaped, Reuse
  <1>5. job[j].doing = "check" => D.secrets \in {Null, job[j].ids} /\ D.source \in {Null, job[j].source}
    BY <1>2, <1>3, Names DEF Vouches
  <1>6. job[j].doing = "publish" => j \in crossed
    BY <1>1, <1>2, <1>3 DEF Fits
  <1>7. D.meta.hash \in {Null, job[j].source}
    BY <1>2, <1>3 DEF Vouches
  <1> HIDE DEF D
  <1>8. Fits(crossed, j, job'[j], D, dir[Draft(j[3])])
    BY <1>4, <1>5, <1>6, <1>7 DEF Fits, Moved, SameErrand
  <1>9. ChildFits(crossed, j, job'[j])
    BY <1>1, <1>2, <1>4 DEF ChildFits, Moved, SameErrand
  <1>10. "config" \in ItsStages(job[j].doing)
    BY <1>2, StagesOf DEF Preparing
  <1>11. UNCHANGED <<oracleVars, dir, rows>>
    BY DEF Reuse
  <1> QED
    BY <1>1, <1>4, <1>8, <1>9, <1>10, <1>11, MovesOnly DEF D

LEMMA RemainsOf ==
  ASSUME DirsShaped, NEW d \in Dirs, NEW left \in remains(d)
  PROVE  /\ DOMAIN left = DOMAIN Absent /\ left.linked \in BOOLEAN
         /\ left.source \in {dir[d].source, Null} /\ left.secrets \in {dir[d].secrets, Null}
         /\ left.meta \in {dir[d].meta, Null}
         /\ left.config \in {dir[d].config, Null}
  <1>1. PICK s \in {dir[d].source, Null}, ids \in {dir[d].secrets, Null}, m \in {dir[d].meta, Null} :
          left = [Absent EXCEPT !.source = s, !.linked = s # Null /\ dir[d].linked,
                    !.secrets = ids, !.config = IF ids = Null THEN Null ELSE dir[d].config,
                    !.meta = m]
    BY DEF remains
  <1>2. (s # Null /\ dir[d].linked) \in BOOLEAN
    OBVIOUS
  <1> DEFINE b == s # Null /\ dir[d].linked
  <1>3. b \in BOOLEAN
    BY <1>2
  <1>4. left = [Absent EXCEPT !.source = s, !.linked = b, !.secrets = ids,
                  !.config = IF ids = Null THEN Null ELSE dir[d].config, !.meta = m]
    BY <1>1
  <1> HIDE DEF b
  <1>5. /\ DOMAIN left = DOMAIN Absent /\ left.linked = b /\ left.source = s /\ left.secrets = ids
        /\ left.meta = m /\ left.config = IF ids = Null THEN Null ELSE dir[d].config
    BY <1>4, NothingThere
  <1> QED
    BY <1>3, <1>5

LEMMA RemainsLeft ==
  ASSUME Inv, NEW j \in Jobs, Working(j), NEW F \in remains(job[j].dir)
  PROVE  /\ DOMAIN F = DOMAIN Absent /\ F.linked \in BOOLEAN
         /\ Leaves(j, dir[job[j].dir], F) /\ Vouches(job[j].dir, F)
  <1> DEFINE D == dir[job[j].dir]
  <1>1. /\ job[j].dir \in Dirs /\ Vouches(job[j].dir, D)
        /\ job[j].doing # "check" /\ D.meta # Null => D.meta.source = job[j].source
    BY AtHand
  <1>2. /\ DOMAIN F = DOMAIN Absent /\ F.linked \in BOOLEAN
        /\ F.source \in {D.source, Null} /\ F.secrets \in {D.secrets, Null}
        /\ F.meta \in {D.meta, Null}
    BY <1>1, RemainsOf DEF Inv, Shaped
  <1> HIDE DEF D
  <1>3. Leaves(j, D, F)
    BY <1>1, <1>2 DEF Leaves
  <1>4. Vouches(job[j].dir, F)
    BY <1>1, <1>2 DEF Vouches
  <1> QED
    BY <1>2, <1>3, <1>4 DEF D

LEMMA RegenerateStep ==
  ASSUME Inv, NEW j \in Jobs, Regenerate(j)
  PROVE  Inv'
  <1> DEFINE D == dir[job[j].dir]
             hash == IF D.meta # Null /\ D.meta.source = job[j].source THEN D.meta.hash ELSE Null
  <1>1. job[j].at = "ensure" /\ Working(j) /\ job[j] # NoJob
    BY SomeJob DEF Regenerate, runs, Working
  <1>2. /\ Vouches(job[j].dir, D) /\ ChildFits(crossed, j, job[j])
        /\ job[j].doing \in {"tick", "check", "publish"}
    BY <1>1, AtHand
  <1>3. hash \in {Null, job[j].source}
    BY <1>2 DEF Vouches
  <1>4. Moved(j, "remove", job[j].ids, hash, job[j].child)
    BY <1>1, GoesWithHash DEF Inv, Shaped, Regenerate
  <1>5. PICK left \in remains(job[j].dir) : contents(job[j].dir, left)
    BY DEF Regenerate, remove
  <1>6. /\ DOMAIN left = DOMAIN Absent /\ left.linked \in BOOLEAN
        /\ Leaves(j, dir[job[j].dir], left) /\ Vouches(job[j].dir, left)
    BY <1>1, RemainsLeft
  <1> HIDE DEF hash, D
  <1>7. Fits(crossed, j, job'[j], left, left)
    BY <1>3, <1>4 DEF Fits, Moved, SameErrand
  <1>8. ChildFits(crossed, j, job'[j])
    BY <1>1, <1>2, <1>4 DEF ChildFits, Moved, SameErrand
  <1>9. "remove" \in ItsStages(job[j].doing)
    BY <1>2, StagesOf DEF Preparing
  <1>10. UNCHANGED <<oracleVars, rows>>
    BY DEF Regenerate
  <1> QED
    BY <1>1, <1>4, <1>5, <1>6, <1>7, <1>8, <1>9, <1>10, MovesAndWrites

LEMMA RemoveStep ==
  ASSUME Inv, NEW j \in Jobs, Remove(j)
  PROVE  Inv'
  <1>1. job[j].at = "remove" /\ Working(j) /\ job[j] # NoJob
    BY SomeJob DEF Remove, runs, Working
  <1>2. /\ ChildFits(crossed, j, job[j]) /\ job[j].doing \in {"tick", "check", "publish"}
        /\ Fits(crossed, j, job[j], dir[job[j].dir], dir[Draft(j[3])])
    BY <1>1, AtHand
  <1>3. Moved(j, "generate", job[j].ids, job[j].hash, job[j].child)
    BY <1>1, Goes DEF Inv, Shaped, Remove
  <1>4. contents(job[j].dir, Absent) /\ UNCHANGED <<oracleVars, rows>>
    BY DEF Remove, removed
  <1>5. /\ Leaves(j, dir[job[j].dir], Absent) /\ Vouches(job[j].dir, Absent)
        /\ DOMAIN Absent = DOMAIN Absent /\ Absent.linked \in BOOLEAN
    BY NothingThere DEF Leaves, Vouches
  <1>6. Fits(crossed, j, job'[j], Absent, Absent)
    BY <1>2, <1>3, NothingThere DEF Fits, Moved, SameErrand
  <1>7. ChildFits(crossed, j, job'[j])
    BY <1>1, <1>2, <1>3 DEF ChildFits, Moved, SameErrand
  <1>8. "generate" \in ItsStages(job[j].doing)
    BY <1>2, StagesOf DEF Preparing
  <1> QED
    BY <1>1, <1>3, <1>4, <1>5, <1>6, <1>7, <1>8, MovesAndWrites

\* A step that writes a file beside the metadata.
LEMMA WritesBeside ==
  ASSUME Inv, NEW j \in Jobs, Working(j), NEW at, at \in ItsStages(job[j].doing),
         Moved(j, at, job[j].ids, job[j].hash, job[j].child),
         at \notin {"clear", "cleared", "rename"}, UNCHANGED <<oracleVars, rows>>,
         NEW F, contents(job[j].dir, F), DOMAIN F = DOMAIN Absent, F.linked \in BOOLEAN,
         F.meta = dir[job[j].dir].meta, F.source \in {dir[job[j].dir].source, job[j].source},
         Fits(crossed, j, job'[j], F, F), Vouches(job[j].dir, F)
  PROVE  Inv'
  <1>1. /\ job[j] # NoJob /\ ChildFits(crossed, j, job[j])
        /\ job[j].doing # "check" /\ F.meta # Null => F.meta.source = job[j].source
    BY AtHand
  <1>2. Leaves(j, dir[job[j].dir], F)
    BY <1>1 DEF Leaves
  <1>3. ChildFits(crossed, j, job'[j])
    BY <1>1, NobodyThere DEF ChildFits, Moved, SameErrand
  <1> QED
    BY <1>2, <1>3, MovesAndWrites

LEMMA GenerateStep ==
  ASSUME Inv, NEW j \in Jobs, Generate(j)
  PROVE  Inv'
  <1> DEFINE E == dir[job[j].dir]
             F == [E EXCEPT !.source = job[j].source, !.config = DefaultConfig]
  <1>1. job[j].at = "generate" /\ Working(j) /\ job[j] # NoJob
    BY SomeJob DEF Generate, runs, Working
  <1>2. /\ job[j].doing \in {"tick", "check", "publish"}
        /\ Fits(crossed, j, job[j], E, dir[Draft(j[3])]) /\ Vouches(job[j].dir, E)
        /\ job[j].doing # "check" /\ E.meta # Null => E.meta.source = job[j].source
        /\ DOMAIN E = DOMAIN Absent /\ E.linked \in BOOLEAN
    BY <1>1, AtHand
  <1>3. Moved(j, "link", job[j].ids, job[j].hash, job[j].child)
    BY <1>1, Goes DEF Inv, Shaped, Generate
  <1>4. contents(job[j].dir, F) /\ UNCHANGED <<oracleVars, rows>>
    BY DEF Generate, generateWorkflow
  <1>5. /\ DOMAIN F = DOMAIN Absent /\ F.linked = E.linked /\ F.source = job[j].source
        /\ F.meta = E.meta /\ F.secrets = E.secrets
    BY <1>2, NothingThere
  <1> HIDE DEF F
  <1>6. Fits(crossed, j, job'[j], F, F)
    BY <1>1, <1>2, <1>3, <1>5 DEF Fits, Moved, SameErrand
  <1>7. Vouches(job[j].dir, F)
    BY <1>1, <1>2, <1>5 DEF Vouches, Fits
  <1>8. "link" \in ItsStages(job[j].doing)
    BY <1>2, StagesOf DEF Preparing
  <1> QED
    BY <1>1, <1>2, <1>3, <1>4, <1>5, <1>6, <1>7, <1>8, WritesBeside

LEMMA LinkStep ==
  ASSUME Inv, NEW j \in Jobs, Link(j)
  PROVE  Inv'
  <1> DEFINE E == dir[job[j].dir]
             F == [E EXCEPT !.linked = TRUE]
  <1>1. job[j].at = "link" /\ Working(j) /\ job[j] # NoJob
    BY SomeJob DEF Link, runs, Working
  <1>2. /\ job[j].doing \in {"tick", "check", "publish"}
        /\ Fits(crossed, j, job[j], E, dir[Draft(j[3])]) /\ Vouches(job[j].dir, E)
        /\ DOMAIN E = DOMAIN Absent /\ E.linked \in BOOLEAN
    BY <1>1, AtHand
  <1>3. Moved(j, "secrets", job[j].ids, job[j].hash, job[j].child)
    BY <1>1, Goes DEF Inv, Shaped, Link
  <1>4. contents(job[j].dir, F) /\ UNCHANGED <<oracleVars, rows>>
    BY DEF Link, linkNodeModules
  <1>5. /\ DOMAIN F = DOMAIN Absent /\ F.linked = TRUE /\ F.source = E.source
        /\ F.meta = E.meta /\ F.secrets = E.secrets
    BY <1>2, NothingThere
  <1> HIDE DEF F
  <1>6. Fits(crossed, j, job'[j], F, F)
    BY <1>1, <1>2, <1>3, <1>5 DEF Fits, Moved, SameErrand
  <1>7. Vouches(job[j].dir, F) /\ F.linked \in BOOLEAN
    BY <1>2, <1>5 DEF Vouches
  <1>8. "secrets" \in ItsStages(job[j].doing)
    BY <1>2, StagesOf DEF Preparing
  <1> QED
    BY <1>1, <1>2, <1>3, <1>4, <1>5, <1>6, <1>7, <1>8, WritesBeside

LEMMA ProvisionStep ==
  ASSUME Inv, NEW j \in Jobs, Provision(j)
  PROVE  Inv'
  <1> DEFINE E == dir[job[j].dir]
             F == [E EXCEPT !.secrets = job[j].ids]
  <1>1. job[j].at = "secrets" /\ Working(j) /\ job[j] # NoJob
    BY SomeJob DEF Provision, runs, Working
  <1>2. /\ job[j].doing \in {"tick", "check", "publish"}
        /\ Fits(crossed, j, job[j], E, dir[Draft(j[3])]) /\ Vouches(job[j].dir, E)
        /\ DOMAIN E = DOMAIN Absent /\ E.linked \in BOOLEAN
        /\ job[j].doing # "check" => job[j].dir = Live(j[3]) /\ j[3] \in Strategies
    BY <1>1, AtHand
  <1>3. Moved(j, "newConfig", job[j].ids, job[j].hash, job[j].child)
    BY <1>1, Goes DEF Inv, Shaped, Provision
  <1>4. contents(job[j].dir, F) /\ UNCHANGED <<oracleVars, rows>>
    BY DEF Provision, writeSecretsFiles
  <1>5. /\ DOMAIN F = DOMAIN Absent /\ F.linked = E.linked /\ F.source = E.source
        /\ F.meta = E.meta /\ F.secrets = job[j].ids
    BY <1>2, NothingThere
  <1> HIDE DEF F
  <1>6. Fits(crossed, j, job'[j], F, F)
    BY <1>1, <1>2, <1>3, <1>5 DEF Fits, Moved, SameErrand
  <1>7. E.meta = Null \/ (~E.meta.alone /\ job[j].dir = Live(j[3]) /\ j[3] \in Strategies)
    BY <1>1, <1>2 DEF Fits
  <1>8. E.meta = Null \/ (~E.meta.alone /\ job[j].dir[1] # "submissions")
    BY <1>7, Names
  <1>9. Vouches(job[j].dir, F)
    BY <1>2, <1>5, <1>8 DEF Vouches
  <1>10. "newConfig" \in ItsStages(job[j].doing)
    BY <1>2, StagesOf DEF Preparing
  <1> QED
    BY <1>1, <1>2, <1>3, <1>4, <1>5, <1>6, <1>9, <1>10, WritesBeside

\* A tick's config, into a directory that is reused or into one just made.
LEMMA ConfigStep ==
  ASSUME Inv, NEW j \in Jobs, ReuseConfig(j) \/ NewConfig(j)
  PROVE  Inv'
  <1> DEFINE E == dir[job[j].dir]
             F == [E EXCEPT !.config = job[j].config]
             next == IF job[j].at = "config" THEN afterEnsuring(j) ELSE "meta"
  <1>1. job[j].at \in {"config", "newConfig"} /\ Working(j) /\ job[j] # NoJob
    BY SomeJob DEF ReuseConfig, NewConfig, runs, Working
  <1>2. /\ job[j].doing \in {"tick", "check", "publish"}
        /\ Fits(crossed, j, job[j], E, dir[Draft(j[3])]) /\ Vouches(job[j].dir, E)
        /\ DOMAIN E = DOMAIN Absent /\ E.linked \in BOOLEAN
    BY <1>1, AtHand
  <1>3. goes(j, next)
    BY DEF ReuseConfig, NewConfig, runs
  <1>4. Moved(j, next, job[j].ids, job[j].hash, job[j].child)
    BY <1>1, <1>3, Goes DEF Inv, Shaped
  <1>5. contents(job[j].dir, F) /\ UNCHANGED <<oracleVars, rows>>
    BY DEF ReuseConfig, NewConfig, writeTickConfig
  <1>6. /\ DOMAIN F = DOMAIN Absent /\ F.linked = E.linked /\ F.source = E.source
        /\ F.meta = E.meta /\ F.secrets = E.secrets /\ F.config = job[j].config
    BY <1>2, NothingThere
  <1>7. /\ next \in ItsStages(job[j].doing) /\ next \in {"meta", "spawn", "rehash"}
        /\ next = "rehash" => job[j].at = "config" /\ job[j].doing = "publish"
        /\ next = "meta" => job[j].at = "newConfig"
    BY <1>1, <1>2, StagesOf DEF Preparing
  <1> HIDE DEF F, next
  <1>8. Fits(crossed, j, job'[j], F, F)
    BY <1>1, <1>2, <1>4, <1>6, <1>7 DEF Fits, Moved, SameErrand
  <1>9. Vouches(job[j].dir, F)
    BY <1>2, <1>6 DEF Vouches
  <1> QED
    BY <1>1, <1>2, <1>4, <1>5, <1>6, <1>7, <1>8, <1>9, WritesBeside

(***************************************************************************)
(* The metadata is what the job knows of its directory, whichever of its   *)
(* stages writes it.                                                       *)
(***************************************************************************)
LEMMA MetaIs ==
  ASSUME NEW source, NEW ids, NEW hash, NEW alone
  PROVE  /\ Meta(source, ids, hash, alone).source = source
         /\ Meta(source, ids, hash, alone).secrets = ids
         /\ Meta(source, ids, hash, alone).hash = hash
         /\ Meta(source, ids, hash, alone).alone = alone
  BY DEF Meta

LEMMA SomeTruth ==
  ASSUME NEW P \in BOOLEAN
  PROVE  \E b \in BOOLEAN : b = P
  OBVIOUS

LEMMA MetaStep ==
  ASSUME Inv, NEW j \in Jobs, NEW at, NEW next, NEW hash, WriteMeta(j, at, hash, next),
         \/ at = "meta" /\ hash = job[j].hash /\ next = afterEnsuring(j)
         \/ at = "record" /\ hash = job[j].hash /\ next = "passed"
         \/ at = "rehash" /\ hash = job[j].source /\ next = "goLive"
  PROVE  Inv'
  <1> DEFINE E == dir[job[j].dir]
  <1>1. job[j].at = at /\ Working(j) /\ job[j] # NoJob
    BY SomeJob DEF WriteMeta, runs, Working
  <1>2. /\ job[j].doing \in {"tick", "check", "publish"}
        /\ job[j].at \in ItsStages(job[j].doing)
        /\ Fits(crossed, j, job[j], E, dir[Draft(j[3])]) /\ Vouches(job[j].dir, E)
        /\ ChildFits(crossed, j, job[j])
        /\ DOMAIN E = DOMAIN Absent /\ E.linked \in BOOLEAN
        /\ job[j].doing # "check" => E.source \in {Null, job[j].source}
        /\ job[j].doing # "check" => job[j].dir = Live(j[3]) /\ j[3] \in Strategies
    BY <1>1, AtHand
  <1>3. UNCHANGED <<oracleVars, rows>>
    BY DEF WriteMeta
  <1>4. /\ at = "record" => job[j].doing = "check"
        /\ at = "rehash" => job[j].doing = "publish"
        /\ at \notin {"clear", "cleared", "rename"}
    BY <1>1, <1>2 DEF ItsStages, Preparing, Moving
  <1>5. CASE tearMeta(job[j].dir) /\ UNCHANGED job
    <2> DEFINE F == [E EXCEPT !.meta = Null]
    <2>1. contents(job[j].dir, F)
      BY <1>5 DEF tearMeta
    <2>2. /\ DOMAIN F = DOMAIN Absent /\ F.linked = E.linked /\ F.source = E.source
          /\ F.meta = Null /\ F.secrets = E.secrets /\ F.config = E.config
      BY <1>2, NothingThere
    <2> HIDE DEF F, E
    <2>3. JobsShaped' /\ job'[j] = job[j]
      BY <1>5 DEF Inv, Shaped, JobsShaped
    <2>4. Moved(j, at, job[j].ids, job[j].hash, job[j].child)
      BY <1>1, <1>5, <2>3 DEF Moved, SameErrand
    <2>5. Fits(crossed, j, job'[j], F, F)
      BY <1>1, <1>2, <1>4, <2>2, <2>3 DEF Fits
    <2>6. Vouches(job[j].dir, F) /\ Leaves(j, E, F)
      BY <2>2 DEF Vouches, Leaves
    <2>7. ChildFits(crossed, j, job'[j])
      BY <1>2, <2>3
    <2> QED
      BY <1>1, <1>2, <1>3, <1>4, <2>1, <2>2, <2>4, <2>5, <2>6, <2>7, MovesAndWrites DEF E
  <1>6. CASE writeMeta(job[j].dir, Meta(job[j].source, job[j].ids, hash, j \notin crossed)) /\ goes(j, next)
    <2>1. PICK b \in BOOLEAN : b = (j \notin crossed)
      <3>1. (j \notin crossed) \in BOOLEAN
        OBVIOUS
      <3> QED
        BY <3>1, SomeTruth, Zenon
    <2>2. writeMeta(job[j].dir, Meta(job[j].source, job[j].ids, hash, b)) /\ goes(j, next)
      BY <1>6, <2>1, Zenon
    <2>3. b <=> j \notin crossed
      BY <2>1, Zenon
    <2> DEFINE meta == Meta(job[j].source, job[j].ids, hash, b)
    <2>4. /\ meta.source = job[j].source /\ meta.secrets = job[j].ids /\ meta.hash = hash
           /\ meta.alone = b
      BY MetaIs
    <2> HIDE DEF meta
    <2> DEFINE F == [E EXCEPT !.meta = meta]
    <2>5. contents(job[j].dir, F)
      BY <2>2 DEF writeMeta, meta
    <2>6. /\ DOMAIN F = DOMAIN Absent /\ F.linked = E.linked /\ F.source = E.source
          /\ F.meta = meta /\ F.secrets = E.secrets /\ F.config = E.config
      BY <1>2, NothingThere
    <2> HIDE DEF F, E
    <2>7. Moved(j, next, job[j].ids, job[j].hash, job[j].child)
      BY <1>1, <2>2, Goes DEF Inv, Shaped
    <2>8. /\ next \in {"spawn", "rehash", "passed", "goLive"} /\ next \notin {"clear", "cleared", "rename"}
          /\ next = "spawn" => at = "meta"
          /\ next = "rehash" => at = "meta" /\ job[j].doing = "publish"
          /\ next = "goLive" => job[j].doing = "publish"
          /\ next = "passed" => job[j].doing = "check"
          /\ next \in ItsStages(job[j].doing)
      BY <1>2, <1>4, StagesOf DEF Moving
    <2>9. /\ E.source \in {Null, job[j].source} /\ hash \in {Null, job[j].source}
          /\ job[j].hash \in {Null, job[j].source}
          /\ job[j].doing = "check" \/ j \notin crossed => E.secrets \in {Null, job[j].ids}
          /\ at = "meta" /\ j \notin crossed => E.config \in {Null, job[j].config}
      BY <1>1, <1>2, <1>4 DEF Fits
    <2>10. Fits(crossed, j, job'[j], F, F)
      BY <2>6, <2>7, <2>8, <2>9 DEF Fits, Moved, SameErrand
    <2>11. job[j].doing = "check" \/ job[j].dir[1] # "submissions"
      BY <1>2, Names
    <2>12. Vouches(job[j].dir, F)
      BY <2>3, <2>6, <2>9, <2>11, <2>4 DEF Vouches
    <2>13. Leaves(j, E, F)
      BY <2>3, <2>6, <2>4 DEF Leaves
    <2>14. ChildFits(crossed, j, job'[j])
      BY <1>1, <1>2, <2>7, <2>8, NobodyThere DEF ChildFits, Moved, SameErrand
    <2> QED
      BY <1>1, <1>2, <1>3, <2>5, <2>6, <2>7, <2>8, <2>10, <2>12, <2>13, <2>14, MovesAndWrites DEF E
  <1> QED
    BY <1>5, <1>6 DEF WriteMeta

LEMMA EnsureStep ==
  ASSUME Inv, NEW j \in Jobs, Ensure(j)
  PROVE  Inv'
  BY ReuseStep, RegenerateStep, RemoveStep, GenerateStep, LinkStep, ProvisionStep, ConfigStep, MetaStep
  DEF Ensure

-----------------------------------------------------------------------------
(***************************************************************************)
(* The child.                                                              *)
(***************************************************************************)
LEMMA SpawnStep ==
  ASSUME Inv, NEW j \in Jobs, Spawn(j)
  PROVE  Inv'
  <1> DEFINE child == [NoChild EXCEPT !.at = "compile"]
  <1>1. job[j].at = "spawn" /\ job[j] # NoJob /\ Working(j)
    BY SomeJob DEF Spawn, runs, Working
  <1>2. /\ job[j].doing \in {"tick", "check", "publish"}
        /\ job[j].at \in ItsStages(job[j].doing)
        /\ Fits(crossed, j, job[j], dir[job[j].dir], dir[Draft(j[3])])
    BY <1>1, AtHand
  <1>3. DOMAIN child = DOMAIN NoChild /\ child.at = "compile"
    BY NobodyThere
  <1> HIDE DEF child
  <1>4. Moved(j, "running", job[j].ids, job[j].hash, child)
    BY <1>1, <1>3, GoesWithChild DEF Inv, Shaped, Spawn, child
  <1>5. Fits(crossed, j, job'[j], dir[job[j].dir], dir[Draft(j[3])])
    BY <1>1, <1>2, <1>3, <1>4 DEF Fits, Moved, SameErrand
  <1>6. ChildFits(crossed, j, job'[j])
    BY <1>3, <1>4 DEF ChildFits, Moved
  <1>7. "running" \in ItsStages(job[j].doing)
    BY <1>1, <1>2, StagesOf
  <1>8. UNCHANGED <<oracleVars, dir, rows>>
    BY DEF Spawn
  <1> QED
    BY <1>1, <1>4, <1>5, <1>6, <1>7, <1>8, MovesOnly

\* Whatever the child does, its directory stays, and so does its errand.
LEMMA ChildMoves ==
  ASSUME Inv, NEW j \in Jobs, job[j].at = "running",
         NEW child, DOMAIN child = DOMAIN NoChild, child.at # "compile",
         job' = [job EXCEPT ![j].child = child], UNCHANGED <<oracleVars, dir, rows>>,
         child.at \in {"fetch", "onTick", "report", "exited"} =>
           child.binary = job[j].source /\ (j \notin crossed => child.config = job[j].config),
         job[j].doing = "tick" /\ child.at \in {"onTick", "report", "exited"} =>
           child.saw.newest.t >= job[j].snapshot.newest.t
  PROVE  Inv'
  <1>1. job[j] # NoJob /\ Working(j)
    BY SomeJob DEF Working
  <1>2. /\ job[j].at \in ItsStages(job[j].doing)
        /\ Fits(crossed, j, job[j], dir[job[j].dir], dir[Draft(j[3])])
    BY <1>1, AtHand
  <1>3. Moved(j, "running", job[j].ids, job[j].hash, child)
    BY <1>1, GoesWithChild DEF Inv, Shaped
  <1>4. Fits(crossed, j, job'[j], dir[job[j].dir], dir[Draft(j[3])])
    BY <1>1, <1>2, <1>3 DEF Fits, Moved, SameErrand
  <1>5. ChildFits(crossed, j, job'[j])
    BY <1>3 DEF ChildFits, Moved, SameErrand
  <1> QED
    BY <1>1, <1>2, <1>3, <1>4, <1>5, MovesOnly

LEMMA ItsChild ==
  ASSUME Inv, NEW j \in Jobs
  PROVE  DOMAIN job[j].child = {"at", "binary", "config", "secrets", "saw", "printed"}
  BY NobodyThere DEF Inv, Shaped, JobsShaped

LEMMA CompileStep ==
  ASSUME Inv, NEW j \in Jobs, Compile(j)
  PROVE  Inv'
  <1> DEFINE found == dir[job[j].dir]
             next == IF job[j].doing = "check" THEN "exited" ELSE "fetch"
             child == [job[j].child EXCEPT !.at = next, !.binary = found.source,
                                           !.config = found.config, !.secrets = found.secrets]
  <1>1. /\ job[j].at = "running" /\ job[j] # NoJob /\ job[j].child.at = "compile"
        /\ Working(j)
    BY SomeJob DEF Compile, childStep, Working
  <1>2. /\ Fits(crossed, j, job[j], found, dir[Draft(j[3])])
        /\ job[j].doing # "check" => found.source \in {Null, job[j].source}
    BY <1>1, AtHand
  <1>3. found.source = job[j].source /\ (j \notin crossed => found.config = job[j].config)
    BY <1>1, <1>2 DEF Fits, Compile, intact
  <1>4. job' = [job EXCEPT ![j].child = child] /\ UNCHANGED <<oracleVars, dir, rows>>
    BY DEF Compile, childStep
  <1>5. /\ DOMAIN child = DOMAIN NoChild
        /\ child.at = next /\ child.binary = found.source /\ child.config = found.config
    BY ItsChild, NobodyThere
  <1>6. /\ next \in {"exited", "fetch"}
        /\ next = "exited" => job[j].doing # "tick"
    OBVIOUS
  <1> HIDE DEF child, next
  <1> QED
    BY <1>1, <1>3, <1>4, <1>5, <1>6, ChildMoves

LEMMA FetchStep ==
  ASSUME Inv, NEW j \in Jobs, Fetch(j)
  PROVE  Inv'
  <1> DEFINE child == [job[j].child EXCEPT !.at = "onTick", !.saw = current]
  <1>1. /\ job[j].at = "running" /\ job[j] # NoJob /\ job[j].child.at = "fetch"
        /\ Working(j)
    BY SomeJob DEF Fetch, childStep, Working
  <1>2. ChildFits(crossed, j, job[j])
    BY <1>1, AtHand
  <1>3. job' = [job EXCEPT ![j].child = child] /\ UNCHANGED <<oracleVars, dir, rows>>
    BY DEF Fetch, childStep
  <1>4. current.newest = newest
    BY DEF current, read, newest, storedSteps
  <1>5. /\ DOMAIN child = DOMAIN NoChild
        /\ child.at = "onTick" /\ child.binary = job[j].child.binary
        /\ child.config = job[j].child.config /\ child.saw = current
    BY ItsChild, NobodyThere
  <1>6. ASSUME job[j].doing = "tick" PROVE newest.t >= job[j].snapshot.newest.t
    <2>1. j[1] = "tick" /\ TickHas(j)
      BY <1>1, <1>6, AtHand DEF Inv, JobInv
    <2>2. /\ job[j].snapshot.newest \in Row
          /\ priceTicks # <<>> /\ job[j].snapshot.newest.t <= newest.t
      BY <1>1, <2>1 DEF TickHas
    <2>3. newest.t \in Nat
      BY <2>2, Stands DEF Inv
    <2> QED
      BY <2>2, <2>3 DEF Row
  <1> HIDE DEF child
  <1>7. child.binary = job[j].source /\ (j \notin crossed => child.config = job[j].config)
    BY <1>1, <1>2, <1>5 DEF ChildFits
  <1>8. job[j].doing = "tick" => child.saw.newest.t >= job[j].snapshot.newest.t
    BY <1>4, <1>5, <1>6
  <1> QED
    BY <1>1, <1>3, <1>5, <1>7, <1>8, ChildMoves

LEMMA OutputStep ==
  ASSUME Inv, NEW j \in Jobs, OnTick(j) \/ ReportDecision(j)
  PROVE  Inv'
  <1>1. /\ job[j].at = "running" /\ job[j] # NoJob /\ job[j].child.at \in {"onTick", "report"}
        /\ Working(j)
    BY SomeJob DEF OnTick, ReportDecision, childStep, Working
  <1>2. ChildFits(crossed, j, job[j])
    BY <1>1, AtHand
  <1>3. CASE OnTick(j)
    <2> DEFINE child == [job[j].child EXCEPT !.at = "report", !.printed = TRUE]
    <2>1. job' = [job EXCEPT ![j].child = child] /\ UNCHANGED <<oracleVars, dir, rows>>
      BY <1>3 DEF OnTick, childStep
    <2>2. /\ DOMAIN child = DOMAIN NoChild
          /\ child.at = "report" /\ child.binary = job[j].child.binary
          /\ child.config = job[j].child.config /\ child.saw = job[j].child.saw
      BY ItsChild, NobodyThere
    <2> HIDE DEF child
    <2> QED
      BY <1>1, <1>2, <2>1, <2>2, ChildMoves DEF ChildFits
  <1>4. CASE ReportDecision(j)
    <2> DEFINE child == [job[j].child EXCEPT !.at = "exited"]
    <2>1. job' = [job EXCEPT ![j].child = child] /\ UNCHANGED <<oracleVars, dir, rows>>
      BY <1>4 DEF ReportDecision, childStep
    <2>2. /\ DOMAIN child = DOMAIN NoChild
          /\ child.at = "exited" /\ child.binary = job[j].child.binary
          /\ child.config = job[j].child.config /\ child.saw = job[j].child.saw
      BY ItsChild, NobodyThere
    <2> HIDE DEF child
    <2> QED
      BY <1>1, <1>2, <2>1, <2>2, ChildMoves DEF ChildFits
  <1> QED
    BY <1>3, <1>4

\* What a child that failed or was killed has printed no longer counts.
LEMMA FailStep ==
  ASSUME Inv, NEW j \in Jobs, ChildFails(j) \/ TimesOut(j) \/ Closes(j)
  PROVE  Inv'
  <1>1. job[j].at = "running"
    BY DEF ChildFails, TimesOut, Closes, childStep, runs
  <1>2. \E child \in {Failed, Killed} : job' = [job EXCEPT ![j].child = child]
    BY DEF ChildFails, TimesOut, Closes, childStep
  <1>3. PICK child : child \in {Failed, Killed} /\ job' = [job EXCEPT ![j].child = child]
    BY <1>2
  <1>4. DOMAIN child = DOMAIN NoChild /\ child.at \in {"failed", "killed"}
    BY <1>3, NobodyThere DEF Failed, Killed
  <1>5. UNCHANGED <<oracleVars, dir, rows>>
    BY DEF ChildFails, TimesOut, Closes, childStep
  <1> QED
    BY <1>1, <1>3, <1>4, <1>5, ChildMoves

LEMMA ChildStep ==
  ASSUME Inv, NEW j \in Jobs, Child(j) \/ ChildFails(j) \/ TimesOut(j) \/ Closes(j)
  PROVE  Inv'
  BY CompileStep, FetchStep, OutputStep, FailStep DEF Child

-----------------------------------------------------------------------------
(***************************************************************************)
(* The draft: the checks go on, and the publication moves the directory.   *)
(***************************************************************************)
LEMMA CheckedStep ==
  ASSUME Inv, NEW s \in Strategies, Checked(s)
  PROVE  Inv'
  <1> DEFINE j == Routes(s)
             D == dir[job[j].dir]
  <1>1. /\ j \in Jobs /\ j[1] = "routes" /\ job[j].at = "running" /\ job[j] # NoJob
        /\ job[j].child.at = "exited" /\ Working(j)
    BY SomeJob, Names DEF Checked, runs, Working
  <1> HIDE DEF j
  <1>2. /\ job[j].doing = "check" /\ ChildFits(crossed, j, job[j])
        /\ Fits(crossed, j, job[j], D, dir[Draft(j[3])])
    <2>1. /\ job[j].doing \in {"check", "publish"} /\ job[j].at \in ItsStages(job[j].doing)
          /\ ChildFits(crossed, j, job[j]) /\ Fits(crossed, j, job[j], D, dir[Draft(j[3])])
      BY <1>1, AtHand
    <2>2. job[j].doing # "publish"
      BY <1>1, <2>1, StagesOf
    <2> QED
      BY <2>1, <2>2
  <1>3. Moved(j, "record", job[j].ids, job[j].child.binary, job[j].child)
    BY <1>1, GoesWithHash DEF Inv, Shaped, Checked, j
  <1>4. job[j].child.binary = job[j].source
    BY <1>1, <1>2 DEF ChildFits
  <1>5. Fits(crossed, j, job'[j], D, dir[Draft(j[3])])
    BY <1>1, <1>2, <1>3, <1>4 DEF Fits, Moved, SameErrand
  <1>6. ChildFits(crossed, j, job'[j])
    BY <1>1, <1>2, <1>3 DEF ChildFits, Moved, SameErrand
  <1>7. "record" \in ItsStages(job[j].doing)
    BY <1>1, <1>2, StagesOf
  <1>8. UNCHANGED <<oracleVars, dir, rows>>
    BY DEF Checked
  <1> QED
    BY <1>1, <1>3, <1>5, <1>6, <1>7, <1>8, MovesOnly

\* What a publication at one of the stages of the move has at hand.
LEMMA Publishing ==
  ASSUME Inv, NEW s \in Strategies, NEW at \in Moving, job[Routes(s)].at = at
  PROVE  LET j == Routes(s)
             J == job[j]
         IN
         /\ j \in Jobs /\ j[1] = "routes" /\ j[3] = s /\ J # NoJob /\ Working(j)
         /\ J.doing = "publish" /\ J.dir = Live(s) /\ J.source \in Sources
         /\ sourceOf[s] = J.source /\ checkedAs[s] = J.source
         /\ Live(s) \in Dirs /\ Draft(s) \in Dirs /\ Live(s) # Draft(s) /\ Draft(s)[1] = "submissions"
         /\ Fits(crossed, j, J, dir[Live(s)], dir[Draft(s)]) /\ ChildFits(crossed, j, J)
         /\ Vouches(Live(s), dir[Live(s)]) /\ Vouches(Draft(s), dir[Draft(s)])
         /\ dir[Live(s)].source \in {Null, J.source}
         /\ dir[Draft(s)].source \in {Null, J.source}
         /\ Moving \subseteq ItsStages(J.doing) /\ Preparing \subseteq ItsStages(J.doing)
  <1> DEFINE j == Routes(s)
             J == job[j]
  <1>1. /\ j \in Jobs /\ j[1] = "routes" /\ j[3] = s /\ J # NoJob /\ Working(j)
        /\ Live(s) \in Dirs /\ Draft(s) \in Dirs /\ Live(s) # Draft(s) /\ Draft(s)[1] = "submissions"
    BY SomeJob, Names DEF Working, Moving
  <1> HIDE DEF j
  <1>2. /\ J.at \in ItsStages(J.doing) /\ J.doing \in {"check", "publish"}
    BY <1>1, AtHand
  <1>3. J.doing = "publish"
    BY <1>1, <1>2 DEF ItsStages, Preparing, Moving, j
  <1>4. Moving \subseteq ItsStages(J.doing) /\ Preparing \subseteq ItsStages(J.doing)
    BY <1>1, <1>3, StagesOf
  <1> QED
    BY <1>1, <1>3, <1>4, AtHand DEF j

LEMMA OpenStep ==
  ASSUME Inv, NEW s \in Strategies, Open(s)
  PROVE  Inv'
  <1> DEFINE j == Routes(s)
             L == dir[Live(s)]
             E == dir[Draft(s)]
  <1>1. job[j].at = "open"
    BY DEF Open, runs
  <1>2. /\ j \in Jobs /\ j[3] = s /\ job[j] # NoJob /\ Working(j)
        /\ job[j].doing = "publish" /\ job[j].dir = Live(s) /\ E.source \in {Null, job[j].source}
        /\ ChildFits(crossed, j, job[j]) /\ Fits(crossed, j, job[j], L, E)
        /\ Draft(s)[1] = "submissions" /\ Vouches(Draft(s), E)
        /\ {"goLive", "clear", "ensure"} \subseteq ItsStages(job[j].doing)
    BY <1>1, Publishing DEF Moving, Preparing
  <1>3. L.linked \in BOOLEAN
    BY <1>2, AtHand
  <1>4. UNCHANGED <<oracleVars, dir, rows>>
    BY DEF Open
  <1>5. CASE goes(j, "goLive")
    <2>1. Moved(j, "goLive", job[j].ids, job[j].hash, job[j].child)
      BY <1>2, <1>5, Goes DEF Inv, Shaped
    <2> HIDE DEF j, L, E
    <2>2. Fits(crossed, j, job'[j], L, E) /\ ChildFits(crossed, j, job'[j])
      BY <1>1, <1>2, <2>1 DEF Fits, ChildFits, Moved, SameErrand
    <2> QED
      BY <1>2, <1>4, <2>1, <2>2, MovesOnly DEF L, E
  <1>6. CASE openable(Draft(s)) /\ job' = [job EXCEPT ![j].at = "clear", ![j].ids = E.meta.secrets]
    <2>1. E.secrets \in {Null, E.meta.secrets} /\ E.meta.source = job[j].source
      BY <1>2, <1>6 DEF openable, intact, Vouches
    <2>2. Moved(j, "clear", E.meta.secrets, job[j].hash, job[j].child)
      BY <1>2, <1>6, GoesWithIds DEF Inv, Shaped
    <2> HIDE DEF j, L, E
    <2>3. Fits(crossed, j, job'[j], L, E) /\ ChildFits(crossed, j, job'[j])
      BY <1>1, <1>2, <2>1, <2>2 DEF Fits, ChildFits, Moved, SameErrand
    <2> QED
      BY <1>2, <1>4, <2>2, <2>3, MovesOnly DEF L, E
  <1>7. CASE /\ ~openable(Live(s))
             /\ job' = [job EXCEPT ![j].at = "ensure",
                                   ![j].ids = discoverSecretIds(job[j].source, ProbeStep)]
    <2> DEFINE ids == discoverSecretIds(job[j].source, ProbeStep)
    <2>1. job' = [job EXCEPT ![j].at = "ensure", ![j].ids = ids]
      BY <1>7
    <2>2. L.meta = Null \/ L.source = Null \/ L.linked = FALSE
      BY <1>3, <1>7 DEF openable, intact
    <2> HIDE DEF ids
    <2>3. Moved(j, "ensure", ids, job[j].hash, job[j].child)
      BY <1>2, <2>1, GoesWithIds DEF Inv, Shaped
    <2> HIDE DEF j, L, E
    <2>4. Fits(crossed, j, job'[j], L, E) /\ ChildFits(crossed, j, job'[j])
      BY <1>1, <1>2, <2>2, <2>3 DEF Fits, ChildFits, Moved, SameErrand
    <2> QED
      BY <1>2, <1>4, <2>3, <2>4, MovesOnly DEF L, E
  <1> QED
    BY <1>5, <1>6, <1>7 DEF Open

LEMMA ClearStep ==
  ASSUME Inv, NEW s \in Strategies, Clear(s) \/ Cleared(s)
  PROVE  Inv'
  <1> DEFINE j == Routes(s)
             L == dir[Live(s)]
             E == dir[Draft(s)]
             next == IF job[j].at = "clear" THEN "cleared" ELSE "rename"
  <1>1. job[j].at \in {"clear", "cleared"}
    BY DEF Clear, Cleared, runs
  <1>2. /\ j \in Jobs /\ j[3] = s /\ job[j] # NoJob /\ Working(j)
        /\ job[j].doing = "publish" /\ job[j].dir = Live(s)
        /\ ChildFits(crossed, j, job[j]) /\ Fits(crossed, j, job[j], L, E)
        /\ Live(s) \in Dirs /\ Draft(s) \in Dirs /\ Live(s) # Draft(s)
        /\ job[j].source \in Sources
        /\ {"cleared", "rename"} \subseteq ItsStages(job[j].doing)
    BY <1>1, Publishing DEF Moving
  <1>3. UNCHANGED <<oracleVars, rows>>
    BY DEF Clear, Cleared
  <1>4. goes(j, next)
    BY <1>1 DEF Clear, Cleared, runs
  <1>5. PICK F : /\ contents(Live(s), F) /\ DOMAIN F = DOMAIN Absent /\ F.linked \in BOOLEAN
                 /\ Leaves(j, L, F) /\ Vouches(Live(s), F)
    <2>1. CASE Clear(s)
      BY <1>2, <2>1, RemainsLeft DEF Clear, remove
    <2>2. CASE Cleared(s)
      BY <2>2, NothingThere DEF Cleared, removed, Leaves, Vouches
    <2> QED
      BY <2>1, <2>2
  <1>6. L.source \in Sources \cup {Null}
    BY <1>2 DEF Inv, Shaped, DirsShaped
  <1>7. F.source \in Sources \cup {Null}
    BY <1>2, <1>5, <1>6 DEF Leaves
  <1>8. DirsShaped' /\ dir'[Live(s)] = F /\ \A d \in Dirs \ {Live(s)} : dir'[d] = dir[d]
    BY <1>2, <1>5, <1>7, DirUpdate DEF Inv, Shaped
  <1>9. Moved(j, next, job[j].ids, job[j].hash, job[j].child)
    BY <1>2, <1>4, Goes DEF Inv, Shaped
  <1>10. next \in {"cleared", "rename"}
    OBVIOUS
  <1> HIDE DEF j, L, next
  <1>11. dir'[Draft(s)] = E
    BY <1>2, <1>8
  <1> HIDE DEF E
  <1>12. Fits(crossed, j, job'[j], F, E) /\ ChildFits(crossed, j, job'[j])
    BY <1>1, <1>2, <1>9, <1>10 DEF Fits, ChildFits, Moved, SameErrand
  <1> QED
    BY <1>2, <1>3, <1>5, <1>8, <1>9, <1>10, <1>11, <1>12, JobGoesOn DEF Moved, L

LEMMA RenameStep ==
  ASSUME Inv, NEW s \in Strategies, Rename(s)
  PROVE  Inv'
  <1> DEFINE j == Routes(s)
             L == dir[Live(s)]
             E == dir[Draft(s)]
  <1>1. job[j].at = "rename"
    BY DEF Rename, runs
  <1>2. /\ j \in Jobs /\ j[3] = s /\ job[j] # NoJob /\ Working(j)
        /\ job[j].doing = "publish" /\ job[j].dir = Live(s)
        /\ ChildFits(crossed, j, job[j]) /\ Fits(crossed, j, job[j], L, E)
        /\ Vouches(Draft(s), E) /\ Draft(s)[1] = "submissions"
        /\ Live(s) \in Dirs /\ Draft(s) \in Dirs /\ Live(s) # Draft(s)
        /\ job[j].source \in Sources /\ E.source \in {Null, job[j].source}
        /\ "unlink" \in ItsStages(job[j].doing)
    BY <1>1, Publishing DEF Moving
  <1>3. UNCHANGED <<oracleVars, rows>>
    BY DEF Rename
  <1>4. DOMAIN E = DOMAIN Absent /\ E.linked \in BOOLEAN /\ E.source \in Sources \cup {Null}
    BY <1>2 DEF Inv, Shaped, DirsShaped
  <1>5. PICK b \in BOOLEAN : b = (j \notin crossed)
    <2>1. (j \notin crossed) \in BOOLEAN
      OBVIOUS
    <2> QED
      BY <2>1, SomeTruth, Zenon
  <1>6. b <=> j \notin crossed
    BY <1>5, Zenon
  <1> DEFINE meta == IF E.meta = Null THEN Null
                     ELSE Meta(E.meta.source, E.meta.secrets, E.meta.hash, b)
             F == [E EXCEPT !.meta = meta]
  <1>7. rename(Draft(s), Live(s),
               [E EXCEPT !.meta = IF @ = Null THEN Null
                                  ELSE Meta(@.source, @.secrets, @.hash, j \notin crossed)])
    BY DEF Rename
  <1>8. rename(Draft(s), Live(s),
               [E EXCEPT !.meta = IF @ = Null THEN Null
                                  ELSE Meta(@.source, @.secrets, @.hash, b)])
    BY <1>5, <1>7, Zenon
  <1>9. rename(Draft(s), Live(s), F)
    BY <1>8
  <1>10. meta # Null => /\ E.meta # Null /\ meta.source = E.meta.source
                        /\ meta.secrets = E.meta.secrets /\ meta.hash = E.meta.hash
                        /\ meta.alone = b
    BY MetaIs
  <1> HIDE DEF meta
  <1>11. /\ DOMAIN F = DOMAIN Absent /\ F.linked = E.linked /\ F.source = E.source
         /\ F.secrets = E.secrets /\ F.meta = meta
    BY <1>4, NothingThere
  <1> HIDE DEF F
  <1>12. /\ dir' = [dir EXCEPT ![Live(s)] = F, ![Draft(s)] = Absent]
    BY <1>9 DEF rename
  <1>13. /\ dir'[Live(s)] = F /\ dir'[Draft(s)] = Absent
         /\ \A d \in Dirs \ {Live(s), Draft(s)} : dir'[d] = dir[d]
         /\ dir' = [d \in Dirs |-> dir'[d]]
    BY <1>2, <1>12 DEF Inv, Shaped, DirsShaped
  <1>14. DirsShaped'
    BY <1>4, <1>11, <1>13, NothingThere DEF Inv, Shaped, DirsShaped
  <1>15. Moved(j, "unlink", job[j].ids, job[j].hash, job[j].child)
    BY <1>2, Goes DEF Inv, Shaped, Rename
  <1> HIDE DEF j, L, E
  <1>16. Leaves(j, L, F)
    BY <1>1, <1>2, <1>6, <1>10, <1>11 DEF Leaves, Fits
  <1>17. Vouches(Live(s), F)
    BY <1>2, <1>10, <1>11 DEF Vouches
  <1>18. Fits(crossed, j, job'[j], F, Absent) /\ ChildFits(crossed, j, job'[j])
    BY <1>1, <1>2, <1>11, <1>15, NothingThere DEF Fits, ChildFits, Moved, SameErrand
  <1> QED
    BY <1>2, <1>3, <1>13, <1>14, <1>15, <1>16, <1>17, <1>18, JobGoesOn DEF Moved, L

LEMMA RelinkStep ==
  ASSUME Inv, NEW s \in Strategies, Unlink(s) \/ Relink(s)
  PROVE  Inv'
  <1> DEFINE j == Routes(s)
             L == dir[Live(s)]
             next == IF job[j].at = "unlink" THEN "relink" ELSE "rehash"
  <1>1. job[j].at \in {"unlink", "relink"}
    BY DEF Unlink, Relink, runs
  <1>2. /\ j \in Jobs /\ j[3] = s /\ job[j] # NoJob /\ Working(j)
        /\ job[j].doing = "publish" /\ job[j].dir = Live(s)
        /\ Vouches(Live(s), L) /\ Fits(crossed, j, job[j], L, dir[Draft(s)])
        /\ Live(s) \in Dirs
        /\ {"relink", "rehash"} \subseteq ItsStages(job[j].doing)
    BY <1>1, Publishing DEF Moving
  <1>3. UNCHANGED <<oracleVars, rows>>
    BY DEF Unlink, Relink
  <1>4. DOMAIN L = DOMAIN Absent
    BY <1>2 DEF Inv, Shaped, DirsShaped
  <1>5. goes(j, next)
    BY <1>1 DEF Unlink, Relink, runs
  <1>6. PICK linked \in BOOLEAN : contents(Live(s), [L EXCEPT !.linked = linked])
    BY DEF Unlink, Relink, unlinkNodeModules, linkNodeModules
  <1> DEFINE F == [L EXCEPT !.linked = linked]
  <1>7. Moved(j, next, job[j].ids, job[j].hash, job[j].child)
    BY <1>2, <1>5, Goes DEF Inv, Shaped
  <1>8. next \in {"relink", "rehash"}
    OBVIOUS
  <1>9. contents(Live(s), F)
    BY <1>6
  <1> HIDE DEF j, L, next
  <1>10. /\ DOMAIN F = DOMAIN Absent /\ F.linked = linked /\ F.source = L.source
         /\ F.meta = L.meta /\ F.secrets = L.secrets
    BY <1>4, NothingThere
  <1> HIDE DEF F
  <1>11. Fits(crossed, j, job'[j], F, F)
    BY <1>1, <1>2, <1>7, <1>8, <1>10 DEF Fits, Moved, SameErrand
  <1>12. Vouches(Live(s), F)
    BY <1>2, <1>10 DEF Vouches
  <1> QED
    BY <1>2, <1>3, <1>6, <1>7, <1>8, <1>9, <1>10, <1>11, <1>12, WritesBeside DEF L

-----------------------------------------------------------------------------
(***************************************************************************)
(* What a step leaves alone, ends or loses.                                *)
(***************************************************************************)
LEMMA FilesLast ==
  ASSUME \A d \in Dirs : dir'[d] \in {dir[d], Absent},
         \A s \in Strategies : /\ StrategyInv(s)
                               /\ sourceOf'[s] = sourceOf[s] \/ sourceOf[s] = Null
                               /\ checkedAs'[s] = checkedAs[s] \/ checkedAs'[s] = Null,
         NEW r \in Strategies
  PROVE  OnDisk(r)'
  <1>1. Live(r) \in Dirs /\ Draft(r) \in Dirs
    BY Names
  <1>2. dir'[Live(r)] \in {dir[Live(r)], Absent} /\ dir'[Draft(r)] \in {dir[Draft(r)], Absent}
    BY <1>1
  <1> QED
    BY <1>2, NothingThere DEF StrategyInv, OnDisk

\* Jobs and files stay, or are gone; the rows stay, but for who met whom.
LEMMA OnlyEnds ==
  ASSUME Inv, SeriesInv', Later, UNCHANGED <<sourceOf, checkedAs, live, crossed>>, RowsTyped',
         \A s \in Strategies : Recorded(s)' /\ Published(s)',
         JobsShaped', DirsShaped',
         \A j \in Jobs : job'[j] \in {job[j], NoJob},
         \A d \in Dirs : dir'[d] \in {dir[d], Absent}
  PROVE  Inv'
  <1>1. Shaped'
    BY DEF Shaped
  <1>2. ASSUME NEW s \in Strategies
        PROVE  StrategyInv(s)'
    <2>1. OnDisk(s)'
      BY FilesLast DEF Inv
    <2> QED
      BY <2>1 DEF StrategyInv
  <1>3. ASSUME NEW d \in Dirs
        PROVE  Vouches(d, dir'[d])
    BY NothingThere DEF Inv, Vouches
  <1>4. ASSUME NEW j \in Jobs
        PROVE  JobInv(j)'
    <2>1. Working(j) => job[j].dir \in Dirs /\ Draft(j[3]) \in Dirs
      BY AtHand
    <2>2. Working(j) => /\ dir'[job[j].dir] \in {dir[job[j].dir], Absent}
                        /\ dir'[Draft(j[3])] \in {dir[Draft(j[3])], Absent}
      BY <2>1
    <2>3. job'[j] \in {job[j], NoJob}
      OBVIOUS
    <2> QED
      BY <2>2, <2>3, JobStays
  <1>5. Together'
    <2>1. \A j \in Jobs : Working(j)' => Working(j) /\ job'[j] = job[j]
      BY NobodyThere DEF Working
    <2> QED
      BY <2>1 DEF Inv, Together
  <1> QED
    BY <1>1, <1>2, <1>3, <1>4, <1>5 DEF Inv

LEMMA RowsStay ==
  ASSUME Inv, UNCHANGED rows
  PROVE  /\ UNCHANGED <<sourceOf, checkedAs, live, crossed>> /\ RowsTyped'
         /\ \A s \in Strategies : Recorded(s)' /\ Published(s)'
  BY DEF Inv, Shaped, RowsTyped, rows, StrategyInv, Recorded, Published

LEMMA EndStep ==
  ASSUME Inv, NEW j \in Jobs, ends(j), SeriesInv', Later, UNCHANGED <<dir, rows>>
  PROVE  Inv'
  <1>1. JobsShaped' /\ \A k \in Jobs : job'[k] \in {job[k], NoJob}
    BY NobodyIsShaped, JobUpdate DEF ends, Inv, Shaped
  <1>2. DirsShaped' /\ UNCHANGED rows /\ \A d \in Dirs : dir'[d] \in {dir[d], Absent}
    BY DEF Inv, Shaped, DirsShaped
  <1> QED
    BY <1>1, <1>2, RowsStay, OnlyEnds

LEMMA StutterStep ==
  ASSUME Inv, SeriesInv', Later, UNCHANGED <<dir, job, rows>>
  PROVE  Inv'
  <1>1. /\ JobsShaped' /\ DirsShaped' /\ UNCHANGED rows
        /\ \A k \in Jobs : job'[k] \in {job[k], NoJob}
        /\ \A d \in Dirs : dir'[d] \in {dir[d], Absent}
    BY DEF Inv, Shaped, DirsShaped, JobsShaped
  <1> QED
    BY <1>1, RowsStay, OnlyEnds

LEMMA OracleStepHolds ==
  ASSUME Inv, NEW p \in Processes, OracleStep(p)
  PROVE  Inv'
  <1>1. SeriesInv' /\ Later
    BY BackfillStep, CountStep, LatestStep DEF OracleStep, Inv
  <1>2. UNCHANGED <<dir, job, rows>>
    BY DEF OracleStep
  <1> QED
    BY <1>1, <1>2, StutterStep

LEMMA CrashStep ==
  ASSUME Inv, NEW p \in Processes, Crash(p)
  PROVE  Inv'
  <1>1. SeriesInv' /\ Later
    BY ForgetStep DEF Inv, Crash
  <1>2. JobsShaped' /\ \A k \in Jobs : job'[k] \in {job[k], NoJob}
    BY NobodyIsShaped DEF Inv, Shaped, JobsShaped, Crash
  <1>3. DirsShaped' /\ UNCHANGED rows /\ \A d \in Dirs : dir'[d] \in {dir[d], Absent}
    BY DEF Inv, Shaped, DirsShaped, Crash
  <1> QED
    BY <1>1, <1>2, <1>3, RowsStay, OnlyEnds

LEMMA LoseStep ==
  ASSUME Inv, NEW d \in Dirs, LoseDir(d)
  PROVE  Inv'
  <1>1. SeriesInv' /\ Later
    BY ElsewhereStep DEF Inv, LoseDir
  <1>2. DirsShaped' /\ \A k \in Dirs : dir'[k] \in {dir[k], Absent}
    BY NothingThere, DirUpdate DEF Inv, Shaped, LoseDir
  <1>3. JobsShaped' /\ UNCHANGED rows /\ \A k \in Jobs : job'[k] \in {job[k], NoJob}
    BY DEF Inv, Shaped, JobsShaped, LoseDir
  <1> QED
    BY <1>1, <1>2, <1>3, RowsStay, OnlyEnds

LEMMA EndsStep ==
  ASSUME Inv, NEW s \in Strategies,
         \/ CheckFails(s) \/ RoutesThrow(s)
         \/ \E p \in Processes : AdvanceFails(p, s)
  PROVE  Inv'
  <1>1. CASE CheckFails(s) \/ RoutesThrow(s)
    <2>1. ends(Routes(s)) /\ UNCHANGED <<oracleVars, dir, rows>>
      BY <1>1 DEF CheckFails, RoutesThrow
    <2>2. SeriesInv' /\ Later
      BY <2>1, ElsewhereStep DEF Inv
    <2> QED
      BY <2>1, <2>2, Names, EndStep
  <1>2. ASSUME NEW p \in Processes, AdvanceFails(p, s) PROVE Inv'
    <2>1. ends(Tick(p, s)) /\ UNCHANGED <<dir, rows>> /\ InsertFails(p)
      BY <1>2 DEF AdvanceFails
    <2>2. SeriesInv' /\ Later
      BY <2>1, InsertFailsStep DEF Inv
    <2> QED
      BY <2>1, <2>2, Names, EndStep
  <1> QED
    BY <1>1, <1>2

-----------------------------------------------------------------------------
(***************************************************************************)
(* A job begins in a directory, beside whoever is at work there, or ends   *)
(* in a row.                                                               *)
(***************************************************************************)

\* One job is replaced, and nothing on disk changes.
LEMMA OneJobMoves ==
  ASSUME Inv, SeriesInv', Later, NEW j \in Jobs, NEW J,
         job' = [job EXCEPT ![j] = J],
         DOMAIN J = DOMAIN NoJob, DOMAIN J.child = DOMAIN NoChild, J.doing = "none" <=> J = NoJob,
         UNCHANGED dir, RowsTyped',
         \A s \in Strategies : /\ StrategyInv(s)'
                               /\ sourceOf'[s] = sourceOf[s] \/ sourceOf[s] = Null
                               /\ checkedAs'[s] = checkedAs[s] \/ (j = Routes(s)),
         \A k \in Jobs \ {j} : k \in crossed => k \in crossed',
         Together', JobInv(j)',
         \A s \in Strategies : sourceOf'[s] = sourceOf[s] \/ j = Routes(s)
  PROVE  Inv'
  <1>1. JobsShaped' /\ job'[j] = J /\ \A k \in Jobs \ {j} : job'[k] = job[k]
    BY JobUpdate DEF Inv, Shaped
  <1>2. Shaped'
    BY <1>1 DEF Inv, Shaped, DirsShaped
  <1>3. ASSUME NEW k \in Jobs, k # j
        PROVE  JobInv(k)'
    <2>1. /\ k[3] \in Strategies
          /\ k[1] = "tick" \/ k = Routes(k[3])
      BY EveryJob
    <2>2. checkedAs'[k[3]] = checkedAs[k[3]] \/ k[1] = "tick"
      BY <1>3, <2>1
    <2>3. sourceOf'[k[3]] = sourceOf[k[3]] \/ job'[k] = NoJob
      <3>1. CASE sourceOf[k[3]] = Null /\ k[1] = "tick"
        BY <1>1, <1>3, <3>1 DEF Inv, JobInv, TickHas
      <3>2. CASE k = Routes(k[3])
        BY <1>3, <2>1, <3>2
      <3> QED
        BY <2>1, <3>1, <3>2
    <2>4. /\ job'[k] \in {job[k], NoJob} /\ (k \in crossed => k \in crossed')
          /\ Working(k) => /\ dir'[job[k].dir] \in {dir[job[k].dir], Absent}
                           /\ dir'[Draft(k[3])] \in {dir[Draft(k[3])], Absent}
      BY <1>1, <1>3
    <2> QED
      BY <2>2, <2>3, <2>4, JobStays
  <1>4. \A d \in Dirs : Vouches(d, dir'[d])
    BY DEF Inv
  <1> QED
    BY <1>2, <1>3, <1>4 DEF Inv

LEMMA StillTogether ==
  ASSUME Inv, NEW j \in Jobs, \A k \in Jobs \ {j} : job'[k] = job[k], ~Working(j)', UNCHANGED crossed
  PROVE  Together'
  BY DEF Inv, Together, Working

LEMMA NowTogether ==
  ASSUME Inv, NEW j \in Jobs, \A k \in Jobs \ {j} : job'[k] = job[k], NEW d, job'[j].dir = d,
         enters(j, d)
  PROVE  Together' /\ \A k \in Jobs \ {j} : k \in crossed => k \in crossed'
  <1> DEFINE others == {k \in Jobs \ {j} : job[k].dir = d}
  <1>1. crossed' = (crossed \ {j}) \cup (IF others = {} THEN {} ELSE others \cup {j})
    BY DEF enters
  <1>2. \A k \in Jobs \ {j} : k \in crossed => k \in crossed'
    BY <1>1
  <1>3. ASSUME NEW k \in Jobs, NEW m \in Jobs, k # m, Working(k)', Working(m)', job'[k].dir = job'[m].dir
        PROVE  k \in crossed'
    <2>1. CASE k = j
      <3>1. m \in others
        BY <1>3, <2>1
      <3> QED
        BY <1>1, <2>1, <3>1
    <2>2. CASE m = j
      <3>1. k \in others
        BY <1>3, <2>2
      <3> QED
        BY <1>1, <3>1
    <2>3. CASE k # j /\ m # j
      <3>1. k \in crossed
        BY <1>3, <2>3 DEF Inv, Together, Working
      <3> QED
        BY <2>3, <3>1, <1>2
    <2> QED
      BY <2>1, <2>2, <2>3
  <1> QED
    BY <1>2, <1>3 DEF Together

-----------------------------------------------------------------------------
(***************************************************************************)
(* A tick begins, learns its prices, goes to work and ends in an           *)
(* execution.                                                              *)
(***************************************************************************)
LEMMA TickMoves ==
  ASSUME Inv, SeriesInv', Later, NEW p \in Processes, NEW s \in Strategies, NEW J,
         job' = [job EXCEPT ![Tick(p, s)] = J],
         DOMAIN J = DOMAIN NoJob, DOMAIN J.child = DOMAIN NoChild, J.doing = "none" <=> J = NoJob,
         UNCHANGED <<dir, sourceOf, checkedAs, live>>, held' \in [Strategies -> Books],
         execution' = [r \in Strategies |-> execution'[r]],
         \A r \in Strategies \ {s} : execution'[r] = execution[r],
         execution'[s] # Null => sourceOf[s] # Null,
         \A k \in Jobs \ {Tick(p, s)} : k \in crossed => k \in crossed',
         Together', Recorded(s)', JobInv(Tick(p, s))'
  PROVE  Inv'
  <1>1. Tick(p, s) \in Jobs /\ Tick(p, s)[1] = "tick" /\ \A r \in Strategies : Routes(r)[1] = "routes"
    BY Names
  <1>2. RowsTyped'
    BY DEF Inv, Shaped, RowsTyped
  <1>3. ASSUME NEW r \in Strategies
        PROVE  StrategyInv(r)'
    <2>1. StrategyInv(r)
      BY DEF Inv
    <2>2. Recorded(r)'
      BY <2>1 DEF StrategyInv, Recorded
    <2>3. Published(r)' /\ OnDisk(r)'
      BY <2>1 DEF StrategyInv, Published, OnDisk
    <2> QED
      BY <2>2, <2>3 DEF StrategyInv
  <1> QED
    BY <1>1, <1>2, <1>3, OneJobMoves

\* What the tick of a strategy has, at any of its stages.
LEMMA Ticking ==
  ASSUME Inv, NEW p \in Processes, NEW s \in Strategies, job[Tick(p, s)] # NoJob
  PROVE  LET j == Tick(p, s)
             J == job[j]
         IN
         /\ j \in Jobs /\ j[1] = "tick" /\ j[3] = s /\ process(j) = p
         /\ J.doing = "tick" /\ TickHas(j) /\ sourceOf[s] # Null /\ sourceOf[s] \in Sources
         /\ J.hash \in {Null, J.source} \/ J.at \in {"oracle", "read"}
         /\ DOMAIN J = DOMAIN NoJob /\ DOMAIN J.child = DOMAIN NoChild
         /\ StrategyInv(s)
  <1> DEFINE j == Tick(p, s)
             J == job[j]
  <1>1. j \in Jobs /\ j[1] = "tick" /\ j[3] = s /\ process(j) = p
    BY Names DEF process
  <1>2. TickHas(j) /\ FitsIn(j)
    BY <1>1 DEF Inv, JobInv
  <1> HIDE DEF j
  <1>3. J.doing = "tick" /\ sourceOf[s] # Null
    BY <1>1, <1>2 DEF TickHas, j
  <1>4. J.at \notin {"oracle", "read"} => Working(j)
    BY <1>1, <1>2, <1>3 DEF TickHas, Working, ItsStages, Preparing, j
  <1>5. J.hash \in {Null, J.source} \/ J.at \in {"oracle", "read"}
    BY <1>2, <1>4 DEF FitsIn, Fits
  <1>6. /\ DOMAIN J = DOMAIN NoJob /\ DOMAIN J.child = DOMAIN NoChild
        /\ StrategyInv(s) /\ sourceOf[s] \in Sources
    BY <1>1, <1>3 DEF Inv, Shaped, JobsShaped, RowsTyped
  <1> QED
    BY <1>1, <1>2, <1>3, <1>5, <1>6 DEF j

LEMMA BeginTickStep ==
  ASSUME Inv, NEW p \in Processes, NEW s \in Strategies, BeginTick(p, s)
  PROVE  Inv'
  <1> DEFINE j == Tick(p, s)
             J == [job[j] EXCEPT !.doing = "tick", !.at = "oracle"]
  <1>1. j \in Jobs /\ j[1] = "tick" /\ j[3] = s /\ job[j] = NoJob
    BY Names DEF BeginTick
  <1>2. sourceOf[s] # Null /\ StrategyInv(s)
    BY DEF BeginTick, Inv, StrategyInv, Published
  <1>3. SeriesInv' /\ Later
    BY BeginStep DEF Inv, BeginTick
  <1>4. job' = [job EXCEPT ![j] = J]
    BY <1>1 DEF BeginTick, Inv, Shaped, JobsShaped
  <1>5. /\ DOMAIN J = DOMAIN NoJob /\ J.doing = "tick" /\ J.at = "oracle" /\ J.child = NoChild
        /\ J.hash = Null
    BY <1>1, NobodyThere
  <1>6. UNCHANGED <<dir, rows>>
    BY DEF BeginTick
  <1>7. UNCHANGED <<sourceOf, checkedAs, live, held, execution, crossed>>
    BY <1>6 DEF rows
  <1> HIDE DEF J, j
  <1>8. J # NoJob /\ J.child.at = "none"
    BY <1>5, NobodyThere
  <1>9. job'[j] = J /\ \A k \in Jobs \ {j} : job'[k] = job[k]
    BY <1>1, <1>4, <1>5, <1>8, JobUpdate DEF Inv, Shaped
  <1>10. ~Working(j)'
    BY <1>5, <1>9 DEF Working
  <1>11. Together'
    BY <1>1, <1>7, <1>9, <1>10, StillTogether
  <1>12. TickHas(j)' /\ RoutesHave(j)'
    BY <1>1, <1>2, <1>5, <1>7, <1>8, <1>9, <1>10 DEF TickHas, RoutesHave
  <1>13. FitsIn(j)' /\ ChildFits(crossed, j, job[j])'
    BY <1>8, <1>9, <1>10 DEF FitsIn, ChildFits
  <1>14. Recorded(s)' /\ JobInv(j)'
    BY <1>2, <1>7, <1>12, <1>13 DEF StrategyInv, Recorded, JobInv
  <1>15. held' \in [Strategies -> Books] /\ execution' = [r \in Strategies |-> execution'[r]]
    BY <1>7 DEF Inv, Shaped, RowsTyped
  <1> QED
    BY <1>2, <1>3, <1>4, <1>5, <1>6, <1>7, <1>8, <1>11, <1>14, <1>15, TickMoves DEF j

LEMMA AdvanceStep ==
  ASSUME Inv, NEW p \in Processes, NEW s \in Strategies, Advance(p, s)
  PROVE  Inv'
  <1> DEFINE j == Tick(p, s)
             snapshot == [newest |-> newest', history |-> <<>>]
             J == [job[j] EXCEPT !.at = "read", !.snapshot = snapshot]
  <1>1. job[j].at = "oracle" /\ job[j] # NoJob
    BY SomeJob, Names DEF Advance
  <1>2. /\ j \in Jobs /\ j[1] = "tick" /\ j[3] = s /\ TickHas(j) /\ job[j].doing = "tick"
        /\ DOMAIN job[j] = DOMAIN NoJob /\ DOMAIN job[j].child = DOMAIN NoChild
        /\ StrategyInv(s) /\ sourceOf[s] # Null
    BY <1>1, Ticking
  <1>3. SeriesInv' /\ Later /\ priceTicks' # <<>> /\ newest' \in Row
    BY InsertStep DEF Inv, Advance
  <1>4. job' = [job EXCEPT ![j].at = "read", ![j].snapshot = snapshot]
    BY DEF Advance, newest
  <1>5. job' = [job EXCEPT ![j] = J]
    BY <1>2, <1>4 DEF Inv, Shaped, JobsShaped
  <1>6. snapshot.newest = newest'
    OBVIOUS
  <1> HIDE DEF snapshot
  <1>7. /\ DOMAIN J = DOMAIN NoJob /\ J.doing = "tick" /\ J.at = "read" /\ J.child = job[j].child
        /\ J.snapshot = snapshot /\ J.hash = job[j].hash
    BY <1>2, NobodyThere
  <1>8. job[j].child.at = "none" /\ job[j].hash = Null
    BY <1>1, <1>2 DEF TickHas
  <1>9. UNCHANGED <<dir, rows>>
    BY DEF Advance
  <1>10. UNCHANGED <<sourceOf, checkedAs, live, held, execution, crossed>>
    BY <1>9 DEF rows
  <1> HIDE DEF J, j
  <1>11. J # NoJob /\ J.child.at = "none" /\ DOMAIN J.child = DOMAIN NoChild
    BY <1>2, <1>7, <1>8, NobodyThere DEF j
  <1>12. job'[j] = J /\ \A k \in Jobs \ {j} : job'[k] = job[k]
    BY <1>2, <1>5, <1>7, <1>11, JobUpdate DEF Inv, Shaped
  <1>13. newest'.t \in Nat
    BY <1>3 DEF Row
  <1>14. ~Working(j)'
    BY <1>7, <1>12 DEF Working
  <1>15. Together'
    BY <1>2, <1>10, <1>12, <1>14, StillTogether
  <1>16. /\ J.snapshot.newest \in Row /\ J.snapshot.newest.t <= newest'.t
         /\ priceTicks' # <<>>
    BY <1>3, <1>6, <1>7, <1>13
  <1>17. TickHas(j)' /\ RoutesHave(j)'
    BY <1>2, <1>7, <1>8, <1>10, <1>11, <1>12, <1>14, <1>16 DEF TickHas, RoutesHave
  <1>18. FitsIn(j)' /\ ChildFits(crossed, j, job[j])'
    BY <1>11, <1>12, <1>14 DEF FitsIn, ChildFits
  <1>19. Recorded(s)' /\ JobInv(j)'
    BY <1>2, <1>10, <1>17, <1>18 DEF StrategyInv, Recorded, JobInv
  <1>20. held' \in [Strategies -> Books] /\ execution' = [r \in Strategies |-> execution'[r]]
    BY <1>10 DEF Inv, Shaped, RowsTyped
  <1> QED
    BY <1>2, <1>3, <1>5, <1>7, <1>9, <1>10, <1>11, <1>15, <1>19, <1>20, TickMoves DEF j

\* The job with its prices, and the source and the book of its strategy.
LEMMA HistoryRead ==
  ASSUME Inv, NEW p \in Processes, NEW s \in Strategies, job[Tick(p, s)].at = "read"
  PROVE  LET j == Tick(p, s)
             J == readHistory(j, s)
         IN
         /\ DOMAIN J = DOMAIN NoJob /\ J.doing = "tick" /\ J.at = "ensure" /\ J.child = job[j].child
         /\ J.child.at = "none" /\ J.hash = Null /\ J.source = sourceOf[s] /\ J.dir = job[j].dir
         /\ J.snapshot.newest = job[j].snapshot.newest
         /\ J.config.tick = J.snapshot.newest.t
  <1> DEFINE j == Tick(p, s)
             snapshot == read(job[j].snapshot.newest)
             ids == discoverSecretIds(sourceOf[s], snapshot.newest.step)
             config == [tick |-> snapshot.newest.t, book |-> held[s]]
             J == [job[j] EXCEPT !.at = "ensure", !.source = sourceOf[s],
                                 !.ids = ids, !.config = config, !.snapshot = snapshot]
  <1>1. job[j] # NoJob
    BY SomeJob, Names
  <1>2. /\ DOMAIN job[j] = DOMAIN NoJob /\ job[j].doing = "tick"
        /\ job[j].child.at = "none" /\ job[j].hash = Null
    BY <1>1, Ticking DEF TickHas
  <1>3. readHistory(j, s) = J
    BY DEF readHistory
  <1>4. snapshot.newest = job[j].snapshot.newest /\ config.tick = snapshot.newest.t
    BY DEF read
  <1> HIDE DEF snapshot, ids, config, j
  <1>5. /\ DOMAIN J = DOMAIN NoJob /\ J.doing = "tick" /\ J.at = "ensure" /\ J.child = job[j].child
        /\ J.hash = job[j].hash /\ J.source = sourceOf[s] /\ J.dir = job[j].dir
        /\ J.snapshot = snapshot /\ J.config = config
    BY <1>2, NobodyThere
  <1> HIDE DEF J
  <1> QED
    BY <1>2, <1>3, <1>4, <1>5 DEF j

LEMMA ReadHistoryStep ==
  ASSUME Inv, NEW p \in Processes, NEW s \in Strategies, ReadHistory(p, s)
  PROVE  Inv'
  <1> DEFINE j == Tick(p, s)
             K == readHistory(j, s)
             J == [K EXCEPT !.dir = Live(s)]
  <1>1. job[j].at = "read" /\ job[j] # NoJob
    BY SomeJob, Names DEF ReadHistory, runs
  <1>2. /\ j \in Jobs /\ j[1] = "tick" /\ j[3] = s /\ TickHas(j)
        /\ DOMAIN job[j].child = DOMAIN NoChild
        /\ StrategyInv(s) /\ sourceOf[s] # Null
    BY <1>1, Ticking
  <1>3. /\ DOMAIN K = DOMAIN NoJob /\ K.doing = "tick" /\ K.at = "ensure" /\ K.child = job[j].child
        /\ K.child.at = "none" /\ K.hash = Null /\ K.source = sourceOf[s]
        /\ K.snapshot.newest = job[j].snapshot.newest
        /\ K.config.tick = K.snapshot.newest.t
    BY <1>1, HistoryRead
  <1>4. /\ UNCHANGED <<oracleVars, dir, sourceOf, checkedAs, live, held, execution>>
        /\ job' = [job EXCEPT ![j] = J] /\ enters(j, Live(s))
    BY DEF ReadHistory
  <1>5. SeriesInv' /\ Later /\ UNCHANGED priceTicks
    BY <1>4, ElsewhereStep DEF Inv, oracleVars
  <1> HIDE DEF K, j
  <1>6. /\ DOMAIN J = DOMAIN NoJob /\ J.doing = "tick" /\ J.at = "ensure" /\ J.child = K.child
        /\ J.hash = Null /\ J.source = sourceOf[s] /\ J.dir = Live(s)
        /\ J.snapshot = K.snapshot /\ J.config = K.config
    BY <1>3, NobodyThere
  <1> HIDE DEF J
  <1>7. J # NoJob /\ J.child.at = "none" /\ DOMAIN J.child = DOMAIN NoChild
    BY <1>2, <1>3, <1>6, NobodyThere
  <1>8. job'[j] = J /\ \A k \in Jobs \ {j} : job'[k] = job[k]
    BY <1>2, <1>4, <1>6, <1>7, JobUpdate DEF Inv, Shaped
  <1>9. Together' /\ \A k \in Jobs \ {j} : k \in crossed => k \in crossed'
    BY <1>2, <1>4, <1>6, <1>8, NowTogether
  <1>10. /\ J.snapshot.newest \in Row /\ J.snapshot.newest.t <= newest'.t
         /\ priceTicks' # <<>>
    BY <1>1, <1>2, <1>3, <1>5, <1>6 DEF TickHas, newest
  <1>11. TickHas(j)' /\ RoutesHave(j)'
    BY <1>2, <1>3, <1>4, <1>6, <1>8, <1>10 DEF TickHas, RoutesHave, ItsStages, Preparing
  <1>12. FitsIn(j)' /\ ChildFits(crossed, j, job[j])'
    BY <1>6, <1>7, <1>8 DEF FitsIn, Fits, ChildFits
  <1>13. Recorded(s)' /\ JobInv(j)'
    BY <1>2, <1>4, <1>11, <1>12 DEF StrategyInv, Recorded, JobInv
  <1>14. held' \in [Strategies -> Books] /\ execution' = [r \in Strategies |-> execution'[r]]
    BY <1>4 DEF Inv, Shaped, RowsTyped
  <1> QED
    BY <1>2, <1>4, <1>5, <1>6, <1>7, <1>9, <1>13, <1>14, TickMoves DEF j

\* A decision leaves a row.
LEMMA DecisionStep ==
  ASSUME Inv, NEW p \in Processes, NEW s \in Strategies, job[Tick(p, s)] # NoJob,
         UNCHANGED <<oracleVars, dir>>, NEW row, decides(Tick(p, s), s, row),
         /\ row.binary = sourceOf[s]
         /\ row.alone \/ row.source = "local-fallback" => row.config.tick = row.tick.newest.t
         /\ row.saw.newest.t >= row.tick.newest.t
         /\ row.source = "local-fallback" => row.saw = row.tick
  PROVE  Inv'
  <1> DEFINE j == Tick(p, s)
  <1>1. /\ j \in Jobs /\ j[1] = "tick" /\ j[3] = s /\ StrategyInv(s) /\ sourceOf[s] # Null
    BY Ticking
  <1>2. SeriesInv' /\ Later
    BY ElsewhereStep DEF Inv
  <1>3. job' = [job EXCEPT ![j] = NoJob] /\ UNCHANGED <<sourceOf, checkedAs, live, crossed>>
    BY DEF decides, ends
  <1>4. held' \in [Strategies -> Books]
    BY DEF decides, Inv, Shaped, RowsTyped
  <1>5. /\ execution' = [r \in Strategies |-> execution'[r]]
        /\ \A r \in Strategies \ {s} : execution'[r] = execution[r]
        /\ execution'[s] = row
    BY DEF decides, Inv, Shaped, RowsTyped
  <1> HIDE DEF j
  <1>6. job'[j] = NoJob /\ \A k \in Jobs \ {j} : job'[k] = job[k]
    BY <1>1, <1>3, NobodyIsShaped, JobUpdate DEF Inv, Shaped
  <1>7. ~Working(j)'
    BY <1>6, NobodyThere DEF Working
  <1>8. Together'
    BY <1>1, <1>3, <1>6, <1>7, StillTogether
  <1>9. Recorded(s)'
    BY <1>3, <1>5 DEF Recorded
  <1>10. JobInv(j)'
    BY <1>6, <1>7, NobodyThere DEF JobInv, TickHas, RoutesHave, FitsIn, ChildFits
  <1> QED
    BY <1>1, <1>2, <1>3, <1>4, <1>5, <1>8, <1>9, <1>10, NobodyIsShaped, TickMoves DEF j

\* What is recorded of a simulated decision.
LEMMA AttestedIs ==
  ASSUME NEW J, NEW b \in BOOLEAN
  PROVE  LET row == [source |-> "cre-simulate", binary |-> J.child.binary,
                     config |-> J.child.config, saw |-> J.child.saw,
                     tick |-> J.snapshot, alone |-> b]
         IN  /\ row.source = "cre-simulate" /\ row.binary = J.child.binary
             /\ row.config = J.child.config /\ row.saw = J.child.saw
             /\ row.tick = J.snapshot /\ row.alone = b
  OBVIOUS

LEMMA LocalIs ==
  ASSUME NEW J
  PROVE  /\ local(J).source = "local-fallback" /\ local(J).binary = J.source
         /\ local(J).config = J.config /\ local(J).saw = J.snapshot
         /\ local(J).tick = J.snapshot
  BY DEF local

LEMMA DecideStep ==
  ASSUME Inv, NEW p \in Processes, NEW s \in Strategies, Decide(p, s) \/ EnsureFails(p, s)
  PROVE  Inv'
  <1> DEFINE j == Tick(p, s)
             J == job[j]
  <1>1. J # NoJob /\ J.at \notin {"none", "oracle", "read"}
    BY Names, NobodyThere DEF Decide, EnsureFails, runs
  <1>2. /\ j \in Jobs /\ J.doing = "tick" /\ TickHas(j) /\ sourceOf[s] # Null /\ j[3] = s
        /\ j[1] = "tick"
    BY <1>1, Ticking
  <1>3. Working(j)
    BY <1>1 DEF Working
  <1>4. /\ J.source = sourceOf[s] /\ J.config.tick = J.snapshot.newest.t
        /\ J.snapshot.newest.t \in Nat
    BY <1>1, <1>2, <1>3 DEF TickHas, Row
  <1>5. ChildFits(crossed, j, J)
    BY <1>2, <1>3, AtHand
  <1>6. UNCHANGED <<oracleVars, dir>>
    BY DEF Decide, EnsureFails
  <1>7. CASE decides(j, s, local(J))
    <2>1. /\ local(J).binary = sourceOf[s] /\ local(J).config.tick = local(J).tick.newest.t
          /\ local(J).saw = J.snapshot /\ local(J).tick = J.snapshot
      BY <1>4, LocalIs
    <2> QED
      BY <1>1, <1>4, <1>6, <1>7, <2>1, DecisionStep
  <1>8. CASE simulateWorkspace(J.child) /\ decides(j, s, attested(j))
    <2>1. J.child.at = "exited"
      BY <1>8 DEF simulateWorkspace
    <2>2. PICK b \in BOOLEAN : b = (j \notin crossed)
      <3>1. (j \notin crossed) \in BOOLEAN
        OBVIOUS
      <3> QED
        BY <3>1, SomeTruth, Zenon
    <2>3. b <=> j \notin crossed
      BY <2>2, Zenon
    <2> DEFINE row == [source |-> "cre-simulate", binary |-> J.child.binary,
                       config |-> J.child.config, saw |-> J.child.saw,
                       tick |-> J.snapshot, alone |-> b]
    <2>4. attested(j) = row
      BY <2>2, Zenon DEF attested
    <2>5. decides(j, s, row)
      BY <1>8, <2>4, Zenon
    <2>6. /\ row.source = "cre-simulate" /\ row.binary = J.child.binary
          /\ row.config = J.child.config /\ row.saw = J.child.saw
          /\ row.tick = J.snapshot /\ row.alone = b
      BY AttestedIs
    <2> HIDE DEF row
    <2>7. /\ row.binary = sourceOf[s]
          /\ row.alone \/ row.source = "local-fallback" => row.config.tick = row.tick.newest.t
          /\ row.saw.newest.t >= row.tick.newest.t
          /\ row.source # "local-fallback"
      BY <1>1, <1>2, <1>4, <1>5, <2>1, <2>3, <2>6 DEF ChildFits
    <2> QED
      BY <1>1, <1>6, <2>5, <2>7, DecisionStep
  <1> QED
    BY <1>7, <1>8 DEF Decide, EnsureFails

LEMMA DecideWithoutCreStep ==
  ASSUME Inv, NEW p \in Processes, NEW s \in Strategies, DecideWithoutCre(p, s)
  PROVE  Inv'
  <1> DEFINE j == Tick(p, s)
             J == readHistory(j, s)
  <1>1. job[j].at = "read" /\ job[j] # NoJob
    BY Names, SomeJob DEF DecideWithoutCre, runs
  <1>2. TickHas(j) /\ j[1] = "tick"
    BY <1>1, Ticking
  <1>3. job[j].snapshot.newest.t \in Nat
    BY <1>1, <1>2 DEF TickHas, Row
  <1>4. /\ J.source = sourceOf[s] /\ J.snapshot.newest = job[j].snapshot.newest
        /\ J.config.tick = J.snapshot.newest.t
    BY <1>1, HistoryRead
  <1>5. decides(j, s, local(J)) /\ UNCHANGED <<oracleVars, dir>>
    BY DEF DecideWithoutCre
  <1> HIDE DEF J
  <1>6. /\ local(J).binary = sourceOf[s] /\ local(J).config.tick = local(J).tick.newest.t
        /\ local(J).saw = J.snapshot /\ local(J).tick = J.snapshot
    BY <1>4, LocalIs
  <1>7. J.snapshot.newest.t \in Nat
    BY <1>3, <1>4
  <1> QED
    BY <1>1, <1>5, <1>6, <1>7, DecisionStep

-----------------------------------------------------------------------------
(***************************************************************************)
(* The routes begin and end a job, and the strategy's row is written.      *)
(***************************************************************************)
LEMMA RoutesMove ==
  ASSUME Inv, NEW s \in Strategies, NEW J,
         job' = [job EXCEPT ![Routes(s)] = J],
         DOMAIN J = DOMAIN NoJob, DOMAIN J.child = DOMAIN NoChild, J.doing = "none" <=> J = NoJob,
         UNCHANGED <<oracleVars, dir, held, execution>>, RowsTyped',
         \A r \in Strategies \ {s} : /\ sourceOf'[r] = sourceOf[r] /\ checkedAs'[r] = checkedAs[r]
                                     /\ r \in live' => r \in live,
         sourceOf'[s] = sourceOf[s] \/ sourceOf[s] = Null,
         \A k \in Jobs \ {Routes(s)} : k \in crossed => k \in crossed',
         Together', Published(s)', OnDisk(s)', JobInv(Routes(s))'
  PROVE  Inv'
  <1>1. SeriesInv' /\ Later
    BY ElsewhereStep DEF Inv
  <1>2. Routes(s) \in Jobs /\ \A r \in Strategies : Routes(r) = Routes(s) => r = s
    BY Names
  <1>3. StrategyInv(s)
    BY DEF Inv
  <1>4. StrategyInv(s)'
    BY <1>3 DEF StrategyInv, Recorded, Published
  <1>5. ASSUME NEW r \in Strategies, r # s
        PROVE  StrategyInv(r)'
    BY <1>5 DEF Inv, StrategyInv, Published, OnDisk, Recorded
  <1>6. \A r \in Strategies : StrategyInv(r)'
    BY <1>4, <1>5
  <1>7. \A r \in Strategies : /\ sourceOf'[r] = sourceOf[r] \/ sourceOf[r] = Null
                              /\ checkedAs'[r] = checkedAs[r] \/ Routes(s) = Routes(r)
                              /\ sourceOf'[r] = sourceOf[r] \/ Routes(s) = Routes(r)
    OBVIOUS
  <1> QED
    BY <1>1, <1>2, <1>6, <1>7, OneJobMoves

LEMMA BeginCheckStep ==
  ASSUME Inv, NEW s \in Strategies, NEW source \in Sources, BeginCheck(s, source)
  PROVE  Inv'
  <1> DEFINE j == Routes(s)
             ids == discoverSecretIds(source, ProbeStep)
             J == [NoJob EXCEPT !.doing = "check", !.at = "ensure", !.dir = Draft(s),
                     !.source = source, !.ids = ids, !.config = DefaultConfig]
  <1>1. j \in Jobs /\ j[1] = "routes" /\ j[3] = s /\ StrategyInv(s) /\ sourceOf[s] = Null
    BY Names DEF BeginCheck, Inv
  <1>2. /\ job' = [job EXCEPT ![j] = J] /\ enters(j, Draft(s))
        /\ UNCHANGED <<oracleVars, dir, sourceOf, live, held, execution>>
    BY DEF BeginCheck
  <1>3. /\ checkedAs'[s] = Null /\ RowsTyped'
        /\ \A r \in Strategies \ {s} : checkedAs'[r] = checkedAs[r]
    BY DEF BeginCheck, Inv, Shaped, RowsTyped
  <1> HIDE DEF ids
  <1>4. /\ DOMAIN J = DOMAIN NoJob /\ J.child = NoChild /\ J.doing = "check" /\ J.at = "ensure"
        /\ J.dir = Draft(s) /\ J.source = source /\ J.hash = Null
    BY NobodyThere
  <1> HIDE DEF J, j
  <1>5. J # NoJob /\ J.child.at = "none" /\ DOMAIN J.child = DOMAIN NoChild
    BY <1>4, NobodyThere
  <1>6. job'[j] = J /\ \A k \in Jobs \ {j} : job'[k] = job[k]
    BY <1>1, <1>2, <1>4, <1>5, JobUpdate DEF Inv, Shaped
  <1>7. Together' /\ \A k \in Jobs \ {j} : k \in crossed => k \in crossed'
    BY <1>1, <1>2, <1>4, <1>6, NowTogether
  <1>8. TickHas(j)' /\ RoutesHave(j)'
    BY <1>1, <1>2, <1>3, <1>4, <1>6 DEF TickHas, RoutesHave, ItsStages, Preparing
  <1>9. FitsIn(j)' /\ ChildFits(crossed, j, job[j])'
    BY <1>4, <1>5, <1>6 DEF FitsIn, Fits, ChildFits
  <1>10. Published(s)' /\ OnDisk(s)' /\ JobInv(j)'
    BY <1>1, <1>2, <1>3, <1>8, <1>9 DEF StrategyInv, Published, OnDisk, JobInv
  <1> QED
    BY <1>1, <1>2, <1>3, <1>4, <1>5, <1>7, <1>10, RoutesMove DEF j

LEMMA BeginPublishStep ==
  ASSUME Inv, NEW s \in Strategies, BeginPublish(s)
  PROVE  Inv'
  <1> DEFINE j == Routes(s)
             J == [NoJob EXCEPT !.doing = "publish", !.at = "open", !.dir = Live(s),
                     !.source = checkedAs[s], !.config = DefaultConfig]
  <1>1. j \in Jobs /\ j[1] = "routes" /\ j[3] = s /\ StrategyInv(s) /\ checkedAs[s] \in Sources
    BY Names DEF BeginPublish, Inv, Shaped, RowsTyped
  <1>2. /\ job' = [job EXCEPT ![j] = J] /\ enters(j, Live(s))
        /\ UNCHANGED <<oracleVars, dir, checkedAs, live, held, execution>>
    BY DEF BeginPublish
  <1>3. /\ sourceOf'[s] = checkedAs[s] /\ RowsTyped'
        /\ \A r \in Strategies \ {s} : sourceOf'[r] = sourceOf[r]
    BY DEF BeginPublish, Inv, Shaped, RowsTyped
  <1>4. /\ DOMAIN J = DOMAIN NoJob /\ J.child = NoChild /\ J.doing = "publish" /\ J.at = "open"
        /\ J.dir = Live(s) /\ J.source = checkedAs[s] /\ J.hash = Null
    BY NobodyThere
  <1> HIDE DEF J, j
  <1>5. J # NoJob /\ J.child.at = "none" /\ DOMAIN J.child = DOMAIN NoChild
    BY <1>4, NobodyThere
  <1>6. job'[j] = J /\ \A k \in Jobs \ {j} : job'[k] = job[k]
    BY <1>1, <1>2, <1>4, <1>5, JobUpdate DEF Inv, Shaped
  <1>7. Together' /\ \A k \in Jobs \ {j} : k \in crossed => k \in crossed'
    BY <1>1, <1>2, <1>4, <1>6, NowTogether
  <1>8. TickHas(j)' /\ RoutesHave(j)'
    BY <1>1, <1>2, <1>3, <1>4, <1>6 DEF TickHas, RoutesHave, ItsStages, Moving
  <1>9. FitsIn(j)' /\ ChildFits(crossed, j, job[j])'
    BY <1>4, <1>5, <1>6 DEF FitsIn, Fits, ChildFits
  <1>10. sourceOf[s] = Null \/ sourceOf'[s] = sourceOf[s]
    BY <1>1, <1>3 DEF StrategyInv, Published
  <1>11. checkedAs[s] # Null
    BY <1>1, SourcesAssumption
  <1>12. Published(s)' /\ OnDisk(s)'
    BY <1>1, <1>2, <1>3, <1>10, <1>11 DEF StrategyInv, Published, OnDisk
  <1>13. JobInv(j)'
    BY <1>8, <1>9 DEF JobInv
  <1> QED
    BY <1>1, <1>2, <1>3, <1>4, <1>5, <1>7, <1>10, <1>12, <1>13, RoutesMove DEF j

LEMMA RoutesEndStep ==
  ASSUME Inv, NEW s \in Strategies, Passed(s) \/ GoLive(s)
  PROVE  Inv'
  <1> DEFINE j == Routes(s)
  <1>1. j \in Jobs /\ j[1] = "routes" /\ j[3] = s /\ StrategyInv(s)
    BY Names DEF Inv
  <1>2. /\ job' = [job EXCEPT ![j] = NoJob]
        /\ UNCHANGED <<oracleVars, dir, sourceOf, held, execution, crossed>>
    BY DEF Passed, GoLive, ends
  <1>3. Published(s)' /\ OnDisk(s)' /\ RowsTyped'
        /\ \A r \in Strategies \ {s} : checkedAs'[r] = checkedAs[r] /\ (r \in live' => r \in live)
    <2>1. CASE Passed(s)
      <3>1. job[j].at = "passed" /\ job[j] # NoJob /\ Working(j)
        BY <1>1, <2>1, SomeJob DEF Passed, runs, Working
      <3>2. /\ job[j].doing \in {"check", "publish"} /\ job[j].at \in ItsStages(job[j].doing)
            /\ job[j].source \in Sources
        BY <1>1, <3>1, AtHand
      <3>3. job[j].doing = "check"
        BY <3>1, <3>2 DEF ItsStages, Preparing, Moving
      <3>4. /\ sourceOf[s] = Null /\ checkedAs[s] = Null
            /\ job[j].dir = Draft(s) /\ Fits(crossed, j, job[j], dir[Draft(s)], dir[Draft(s)])
        BY <1>1, <3>1, <3>3, AtHand
      <3>5. dir[Draft(s)].source \in {Null, job[j].source}
        BY <3>1, <3>3, <3>4 DEF Fits
      <3>6. /\ checkedAs'[s] \in {Null, job[j].source} /\ RowsTyped' /\ UNCHANGED live
            /\ \A r \in Strategies \ {s} : checkedAs'[r] = checkedAs[r]
        BY <2>1, <3>2, <3>4 DEF Passed, Inv, Shaped, RowsTyped
      <3> QED
        BY <1>1, <1>2, <3>4, <3>5, <3>6 DEF StrategyInv, Published, OnDisk
    <2>2. CASE GoLive(s)
      <3>1. "goLive" \in Moving /\ job[j].at = "goLive"
        BY <2>2 DEF GoLive, runs, Moving
      <3>2. sourceOf[s] \in Sources
        BY <3>1, Publishing
      <3>3. live' = live \cup {s} /\ UNCHANGED checkedAs
        BY <2>2 DEF GoLive
      <3>4. RowsTyped'
        BY <1>2, <3>3 DEF Inv, Shaped, RowsTyped
      <3> QED
        BY <1>1, <1>2, <3>2, <3>3, <3>4, SourcesAssumption DEF StrategyInv, Published, OnDisk
    <2> QED
      BY <2>1, <2>2
  <1> HIDE DEF j
  <1>4. job'[j] = NoJob /\ \A k \in Jobs \ {j} : job'[k] = job[k]
    BY <1>1, <1>2, NobodyIsShaped, JobUpdate DEF Inv, Shaped
  <1>5. ~Working(j)'
    BY <1>4, NobodyThere DEF Working
  <1>6. Together'
    BY <1>1, <1>2, <1>4, <1>5, StillTogether
  <1>7. JobInv(j)'
    BY <1>4, <1>5, NobodyThere DEF JobInv, TickHas, RoutesHave, FitsIn, ChildFits
  <1> QED
    BY <1>1, <1>2, <1>3, <1>6, <1>7, NobodyIsShaped, RoutesMove DEF j

-----------------------------------------------------------------------------
(***************************************************************************)
(* The theorems.                                                           *)
(***************************************************************************)
LEMMA SeriesNext ==
  ASSUME SeriesInv, [Next]_vars
  PROVE  SeriesInv' /\ Later
  <1>1. CASE UNCHANGED oracleVars
    BY <1>1, ElsewhereStep
  <1>2. ASSUME NEW p \in Processes, OracleStep(p) \/ Crash(p)
        PROVE  SeriesInv' /\ Later
    BY <1>2, BackfillStep, CountStep, LatestStep, ForgetStep DEF OracleStep, Crash
  <1>3. ASSUME NEW p \in Processes, NEW s \in Strategies,
               BeginTick(p, s) \/ Advance(p, s) \/ AdvanceFails(p, s)
        PROVE  SeriesInv' /\ Later
    BY <1>3, BeginStep, InsertStep, InsertFailsStep DEF BeginTick, Advance, AdvanceFails
  <1>4. ASSUME NEW j \in Jobs,
               Ensure(j) \/ Spawn(j) \/ Child(j) \/ ChildFails(j) \/ TimesOut(j) \/ Closes(j)
        PROVE  UNCHANGED oracleVars
    BY <1>4 DEF Ensure, Reuse, ReuseConfig, Regenerate, Remove, Generate, Link, Provision, NewConfig,
                WriteMeta, Spawn, Child, Compile, Fetch, OnTick, ReportDecision, ChildFails,
                TimesOut, Closes, childStep
  <1>5. ASSUME NEW p \in Processes, NEW s \in Strategies,
               ReadHistory(p, s) \/ Decide(p, s) \/ DecideWithoutCre(p, s) \/ EnsureFails(p, s)
        PROVE  UNCHANGED oracleVars
    BY <1>5 DEF ReadHistory, Decide, DecideWithoutCre, EnsureFails
  <1>6. ASSUME NEW s \in Strategies,
               \/ \E source \in Sources : BeginCheck(s, source)
               \/ BeginPublish(s) \/ Checked(s) \/ CheckFails(s) \/ Passed(s) \/ RoutesThrow(s)
               \/ RecordHashes(s) \/ Publication(s)
        PROVE  UNCHANGED oracleVars
    BY <1>6 DEF BeginCheck, BeginPublish, Checked, CheckFails, Passed, RoutesThrow, WriteMeta,
                RecordHashes, DescribeLive, Publication, Open, Clear, Cleared, Rename, Unlink,
                Relink, GoLive, goes
  <1>7. ASSUME NEW d \in Dirs, LoseDir(d)
        PROVE  UNCHANGED oracleVars
    BY <1>7 DEF LoseDir
  <1>8. CASE UNCHANGED vars
    BY <1>8, <1>1 DEF vars
  <1>9. CASE Next
    <2>1. ASSUME NEW p \in Processes, NEW s \in Strategies, TickStep(p, s)
          PROVE  SeriesInv' /\ Later
      <3>1. Tick(p, s) \in Jobs
        BY Names
      <3> QED
        BY <1>1, <1>3, <1>4, <1>5, <2>1, <3>1 DEF TickStep
    <2>2. ASSUME NEW s \in Strategies, RoutesStep(s)
          PROVE  UNCHANGED oracleVars
      <3>1. Routes(s) \in Jobs
        BY Names
      <3> QED
        BY <1>4, <1>6, <2>2, <3>1 DEF RoutesStep
    <2> QED
      BY <1>1, <1>2, <1>3, <1>4, <1>6, <1>7, <1>9, <2>1, <2>2 DEF Next
  <1> QED
    BY <1>8, <1>9

LEMMA SeriesInit ==
  ASSUME Init
  PROVE  SeriesInv
  <1>1. SeriesTyped
    BY DEF Init, OracleInit, SeriesTyped, NoWalk, Resting
  <1>2. OneWalk /\ Advances
    BY DEF Init, OracleInit, OneWalk, Advances, Resting
  <1> QED
    BY <1>1, <1>2 DEF SeriesInv

\* The directory of what begins live.
LEMMA PublishedIs ==
  ASSUME NEW source
  PROVE  LET D == published(source) IN
         /\ DOMAIN D = DOMAIN Absent /\ D.linked \in BOOLEAN /\ D.source = source
         /\ D.meta.source = source /\ D.meta.hash = source /\ D.secrets = D.meta.secrets
  <1> DEFINE ids == discoverSecretIds(source, ProbeStep)
             meta == Meta(source, ids, source, TRUE)
  <1>1. meta.source = source /\ meta.hash = source /\ meta.secrets = ids
    BY DEF Meta
  <1>2. published(source) = [source |-> source, linked |-> TRUE, secrets |-> ids,
                             config |-> DefaultConfig, meta |-> meta]
    BY DEF published
  <1> HIDE DEF ids, meta
  <1> QED
    BY <1>1, <1>2, NothingThere

LEMMA Initially ==
  ASSUME Init
  PROVE  Inv
  <1>1. SeriesInv
    BY SeriesInit
  <1> DEFINE any == CHOOSE source \in Sources : TRUE
  <1>2. any \in Sources /\ any # Null
    BY SourcesAssumption
  <1>3. /\ \A s \in Strategies : /\ sourceOf[s] = IF s \in live THEN any ELSE Null
                                 /\ checkedAs[s] = sourceOf[s] /\ execution[s] = Null
        /\ \A j \in Jobs : job[j] = NoJob
        /\ \A d \in Dirs : dir[d] = IF d[1] = "strategies" /\ d[2] \in live
                                    THEN published(sourceOf[d[2]]) ELSE Absent
        /\ live \subseteq Strategies
    BY ConditionsAssumption DEF Init
  <1>4. RowsTyped
    BY <1>2, <1>3, BooksAssumption DEF Init, RowsTyped
  <1> HIDE DEF any
  <1>5. JobsShaped
    BY <1>3, NobodyIsShaped DEF Init, JobsShaped
  <1>6. \A d \in Dirs : d[2] \in Strategies
    BY EveryDir
  <1>7. ASSUME NEW d \in Dirs
        PROVE  /\ DOMAIN dir[d] = DOMAIN Absent /\ dir[d].linked \in BOOLEAN
               /\ dir[d].source \in Sources \cup {Null}
               /\ Vouches(d, dir[d])
               /\ \/ dir[d].source = Null /\ dir[d].meta = Null
                  \/ /\ dir[d].source = sourceOf[d[2]] /\ sourceOf[d[2]] # Null
                     /\ dir[d].meta.source = sourceOf[d[2]] /\ d[1] = "strategies"
    <2>1. CASE d[1] = "strategies" /\ d[2] \in live
      <3>1. dir[d] = published(any) /\ sourceOf[d[2]] = any
        BY <1>3, <1>6, <2>1
      <3> QED
        BY <1>2, <2>1, <3>1, PublishedIs DEF Vouches
    <2>2. CASE ~(d[1] = "strategies" /\ d[2] \in live)
      BY <1>3, <2>2, NothingThere DEF Vouches
    <2> QED
      BY <2>1, <2>2
  <1>8. DirsShaped
    BY <1>7 DEF Init, DirsShaped
  <1>9. ASSUME NEW s \in Strategies
        PROVE  StrategyInv(s)
    <2>1. /\ Live(s) \in Dirs /\ Draft(s) \in Dirs /\ Draft(s)[1] # "strategies"
          /\ Live(s)[2] = s
      BY Names DEF Live
    <2>2. OnDisk(s)
      BY <1>7, <2>1 DEF OnDisk
    <2>3. Published(s) /\ Recorded(s)
      BY <1>2, <1>3 DEF Published, Recorded
    <2> QED
      BY <2>2, <2>3 DEF StrategyInv
  <1>10. \A j \in Jobs : JobInv(j) /\ ~Working(j)
    BY <1>3, NobodyThere DEF JobInv, TickHas, RoutesHave, FitsIn, ChildFits, Working
  <1>11. Together
    BY <1>10 DEF Together
  <1> QED
    BY <1>1, <1>4, <1>5, <1>7, <1>8, <1>9, <1>10, <1>11 DEF Inv, Shaped

LEMMA Inductive ==
  ASSUME Inv, [Next]_vars
  PROVE  Inv'
  <1>1. CASE UNCHANGED vars
    <2>1. UNCHANGED <<dir, job, rows, oracleVars>>
      BY <1>1 DEF vars
    <2> QED
      BY <2>1, ElsewhereStep, StutterStep DEF Inv
  <1>2. ASSUME NEW p \in Processes, OracleStep(p) \/ Crash(p)
        PROVE  Inv'
    BY <1>2, OracleStepHolds, CrashStep
  <1>3. ASSUME NEW p \in Processes, NEW s \in Strategies, BeginTick(p, s) \/ TickStep(p, s)
        PROVE  Inv'
    <2>1. Tick(p, s) \in Jobs
      BY Names
    <2> QED
      BY <1>3, <2>1, BeginTickStep, AdvanceStep, EndsStep, ReadHistoryStep, EnsureStep, SpawnStep,
         DecideStep, DecideWithoutCreStep
      DEF TickStep
  <1>4. ASSUME NEW s \in Strategies, RoutesStep(s)
        PROVE  Inv'
    <2>1. Routes(s) \in Jobs
      BY Names
    <2>2. ASSUME Publication(s)
          PROVE  Inv'
      BY <2>1, <2>2, OpenStep, ClearStep, RenameStep, RelinkStep, RoutesEndStep, MetaStep
         DEF Publication, DescribeLive
    <2> QED
      BY <1>4, <2>1, <2>2, EnsureStep, SpawnStep, CheckedStep, EndsStep, MetaStep, RoutesEndStep
      DEF RoutesStep, RecordHashes
  <1>5. CASE Next
    BY <1>2, <1>3, <1>4, <1>5, BeginCheckStep, BeginPublishStep, EndsStep, ChildStep, LoseStep
    DEF Next
  <1> QED
    BY <1>1, <1>5

(***************************************************************************)
(* However many processes advance the oracle, stop half way and start      *)
(* again, the rows of price_ticks follow one another an interval apart,    *)
(* and an advance nobody got in the way of stores the walk's next step:    *)
(* tick() of backend/src/oracle/index.ts.                                  *)
(***************************************************************************)
THEOREM TheSeriesKeepsToTheWalk == Spec => [][keepsToTheWalk]_vars
  <1>1. Init => SeriesInv
    BY SeriesInit
  <1>2. SeriesInv /\ [Next]_vars => SeriesInv' /\ [keepsToTheWalk]_vars
    BY SeriesNext DEF Later
  <1> QED
    BY <1>1, <1>2, PTL DEF Spec

LEMMA Invariant == Spec => []Inv
  <1>1. Init => Inv
    BY Initially
  <1>2. Inv /\ [Next]_vars => Inv'
    BY Inductive
  <1> QED
    BY <1>1, <1>2, PTL DEF Spec

(***************************************************************************)
(* Whichever processes tick a strategy, publish it and publish it again,   *)
(* in one directory that nothing locks, after any crash, any failure and   *)
(* any move cut off, the metadata there is of the source beside it; and of *)
(* the secrets, but where two jobs met: ensureWorkflow and moveWorkspace   *)
(* of backend/src/strategy/workspace.ts.                                   *)
(***************************************************************************)
THEOREM TheMetadataNeverLies == Spec => []MetaNeverLies
  <1>1. Inv => MetaNeverLies
    <2> SUFFICES ASSUME Inv PROVE MetaNeverLies
      OBVIOUS
    <2>1. \A s \in Strategies : s \in live => sourceOf[s] # Null
      BY DEF Inv, StrategyInv, Published
    <2>2. TypeOK
      BY <2>1 DEF Inv, SeriesInv, SeriesTyped, Row, Shaped, JobsShaped, DirsShaped, RowsTyped, TypeOK
    <2>3. ASSUME NEW d \in Dirs
          PROVE  Vouches(d, dir[d])
      BY DEF Inv
    <2> QED
      BY <2>2, <2>3 DEF MetaNeverLies, Vouches
  <1> QED
    BY <1>1, Invariant, PTL

(***************************************************************************)
(* And every execution recorded is what it says: decided by the published  *)
(* source, on prices no older than the tick's, and on the tick's book, but *)
(* where another job was at work in the directory; and on the tick's own   *)
(* prices and book when it was decided locally: decide() of                *)
(* backend/src/scheduler/tick.ts, in the server and in tick-once.ts beside *)
(* it.                                                                     *)
(***************************************************************************)
THEOREM TheExecutionsAreTruthful == Spec => []ExecutionsAreTruthful
  <1>1. Inv => ExecutionsAreTruthful
    BY DEF Inv, StrategyInv, Recorded, ExecutionsAreTruthful
  <1> QED
    BY <1>1, Invariant, PTL

=============================================================================
