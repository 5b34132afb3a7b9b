------------------------------- MODULE Catalog -------------------------------
(***************************************************************************)
(* What a reader of a strategy is shown: backend/src/lib/chain-metrics.ts, *)
(* routes/dto.ts and the detail route of routes/strategies.ts.             *)
(*                                                                         *)
(* Performance is quoted from the vault's own event log, read at most once *)
(* in CacheTtl and shared by every request of that time; the worth of a    *)
(* position is the recorded shares at the totals the vault reports now;    *)
(* and when the node does not answer, both are taken from the snapshots    *)
(* the ticks wrote.  The page asks for a strategy's detail and, beside it, *)
(* for the line of its chart, both drawn from the one cache.               *)
(***************************************************************************)
EXTENDS StrategyVault, Positions

CONSTANTS
  Loads,      \* 1 .. n: the loads of a page, numbered
  Ranges,     \* what a chart may be narrowed to, in units of the clock
  CacheTtl,   \* CACHE_TTL_MS, in units of the clock
  MinSpan,    \* MIN_ANNUALISE_MS
  Conditions  \* what a run consists of, see the variable

ASSUME MinSpanAssumption == MinSpan \in Nat
ASSUME CacheTtlAssumption == CacheTtl \in Nat
ASSUME ConditionsAssumption ==
  \A c \in Conditions : c.traders \subseteq Investors /\ c.time \in Nat

VARIABLES
  conditions, \* who trades what; bounds: events, snapshots, clock, records and loads;
              \* and what may go wrong ("chain", "network")
  now,        \* the clock; blocks are mined and rows dated by it
  log,        \* the vault's events, oldest first
  ticking,    \* a tick has settled and not yet written its snapshot
  navSnapshots,
  filed,      \* when each event's transfer was put into position_events
  reads,      \* reads of the log that have been started
  readings,   \* the cache: which read, and until when it serves
  request     \* what each request has got so far

vaultVars == <<wallet, balance, totalManagedAssets, totalShares, sharesOf>>
sources == <<log, ticking, navSnapshots, filed>>
catalogVars == <<vaultVars, conditions, now, sources, reads, readings, request>>

Requests == {"detail", "series"} \X Loads
AllTime == 0

Unread == [totals |-> <<>>, snapshots |-> 0]
NoEntry == [read |-> 0, expiresAt |-> 0]
NoRequest == [stage |-> "none"]
sent(range) == [stage |-> "sent", range |-> range]

CatalogInit ==
  /\ conditions \in Conditions
  /\ Init
  /\ now = 0
  /\ log = <<>>
  /\ ticking = FALSE
  /\ navSnapshots = <<>>
  /\ filed = <<>>
  /\ reads = <<>>
  /\ readings = NoEntry
  /\ request = [r \in Requests |-> NoRequest]

-----------------------------------------------------------------------------
(***************************************************************************)
(* lib/metrics.ts over a series of [t, nav], oldest first.  A ratio is a   *)
(* pair [part, of]; what is a float power or a square root in the code is  *)
(* kept as whether the figure is stated at all.                            *)
(***************************************************************************)
Unknown == [part |-> 0, of |-> 0]   \* null in the code
isRatio(x) == x # Unknown

first(series) == Head(series)
newest(series) == Last(series)
span(series) == newest(series).t - first(series).t

totalReturn(series) ==
  IF Len(series) < 2 \/ first(series).nav <= 0 THEN Unknown
  ELSE [part |-> newest(series).nav - first(series).nav, of |-> first(series).nav]

statesApy(series) ==
  /\ Len(series) >= 2
  /\ first(series).nav > 0
  /\ span(series) >= MinSpan

\* A wiped-out point leaves no return to the next; equal returns no deviation.
returnsDiffer(series) ==
  \E i, j \in 2 .. Len(series) :
    series[i].nav * series[j - 1].nav # series[j].nav * series[i - 1].nav

statesSharpe(series) ==
  /\ Len(series) >= 3
  /\ span(series) >= MinSpan
  /\ \A i \in 1 .. Len(series) - 1 : series[i].nav > 0
  /\ returnsDiffer(series)

atMost(a, b) == a.part * b.of <= b.part * a.of

\* Variant: the decline since the point before, not since the peak.
stepDecline(series, i) ==
  LET before == series[IF i = 1 THEN 1 ELSE i - 1].nav IN
  [part |-> IF before > 0 /\ series[i].nav < before THEN series[i].nav - before ELSE 0,
   of |-> IF before > 0 THEN before ELSE 1]

peak(series, i) == Max({series[j].nav : j \in 1 .. i})
decline(series, i) ==
  IF peak(series, i) <= 0 THEN [part |-> 0, of |-> 1]
  ELSE [part |-> series[i].nav - peak(series, i), of |-> peak(series, i)]

maxDrawdown(series) ==
  IF Len(series) < 2 THEN Unknown
  ELSE CHOOSE d \in {decline(series, i) : i \in DOMAIN series} :
         \A i \in DOMAIN series : atMost(d, decline(series, i))

computeMetrics(series) ==
  [totalReturn |-> totalReturn(series), maxDrawdown |-> maxDrawdown(series),
   apy |-> statesApy(series), sharpe |-> statesSharpe(series)]

-----------------------------------------------------------------------------
(***************************************************************************)
(* What there is to read: the vault's events, the ticks' snapshots and the *)
(* recorded transfers.  (In what order transfers are recorded is the       *)
(* subject of Settlement; here it is the chain's.)                         *)
(***************************************************************************)
emits(kind, who, shares) ==
  log' = Append(log, [kind |-> kind, who |-> who, shares |-> shares, t |-> now,
                      assets |-> IF kind = "deposit" THEN totalManagedAssets' - totalManagedAssets
                                ELSE totalManagedAssets - totalManagedAssets',
                      managed |-> totalManagedAssets', total |-> totalShares',
                      nav |-> navPerShare'])

Deposit(i, a) ==
  /\ Len(log) < conditions.events
  /\ deposit(i, a)
  /\ emits("deposit", i, totalShares' - totalShares)
  /\ UNCHANGED <<now, ticking, navSnapshots, filed, reads, readings, request>>

Withdraw(i, s) ==
  /\ Len(log) < conditions.events
  /\ withdraw(i, s)
  /\ emits("withdraw", i, s)
  /\ UNCHANGED <<now, ticking, navSnapshots, filed, reads, readings, request>>

Settle(d) ==
  /\ Len(log) < conditions.events
  /\ ~ticking
  /\ totalShares > 0
  /\ applyPnl(d)
  /\ emits("pnl", "operator", 0)
  /\ ticking' = TRUE
  /\ UNCHANGED <<now, navSnapshots, filed, reads, readings, request>>

\* A tick of a vault without depositors settles nothing and still writes one.
totalsNow == [assets |-> totalManagedAssets, shares |-> totalShares, nav |-> navPerShare]

Snapshot ==
  /\ Len(navSnapshots) < conditions.snapshots
  /\ ticking \/ totalShares = 0
  /\ navSnapshots' = Append(navSnapshots, [t |-> now, totals |-> totalsNow])
  /\ ticking' = FALSE
  /\ UNCHANGED <<vaultVars, now, log, filed, reads, readings, request>>

File ==
  /\ Len(filed) < conditions.records /\ Len(filed) < Len(log)
  /\ filed' = Append(filed, now)
  /\ UNCHANGED <<vaultVars, now, log, ticking, navSnapshots, reads, readings, request>>

Time ==
  /\ now < conditions.time
  /\ now' = now + 1
  /\ UNCHANGED <<vaultVars, sources, reads, readings, request>>

-----------------------------------------------------------------------------
(***************************************************************************)
(* The fold of a log, and the figures taken from it.                       *)
(***************************************************************************)
ofKind(events, kind) == SelectSeq(events, LAMBDA e : e.kind = kind)
sharesIn(events, i, kind) ==
  MapThenSumSet(LAMBDA k : events[k].shares,
                {k \in DOMAIN events : events[k].who = i /\ events[k].kind = kind})
heldIn(events, i) == sharesIn(events, i, "deposit") - sharesIn(events, i, "withdraw")

\* Variant: whoever has ever deposited is an investor.
holdersEver(events) == {i \in Investors : sharesIn(events, i, "deposit") > 0}

holders(events) == {i \in Investors : heldIn(events, i) > 0}

\* A settlement tells the assets and the price, but not the shares.
foldLogs(events) ==
  LET transfers == {k \in DOMAIN events : events[k].kind # "pnl"}
      shares == IF transfers = {} THEN 0 ELSE events[Max(transfers)].total
      assets == IF events = <<>> THEN 0 ELSE Last(events).managed
  IN [series |-> LET settled == ofKind(events, "pnl")
                 IN [k \in DOMAIN settled |-> [t |-> settled[k].t, nav |-> settled[k].nav]],
      investorCount |-> Cardinality(holders(events)),
      totals |-> [assets |-> assets, shares |-> shares,
                  nav |-> IF shares = 0 THEN Par ELSE (assets * Par) \div shares]]

EmptyTotals == [assets |-> 0, shares |-> 0, nav |-> Par]
totalsFromSnapshot ==
  IF navSnapshots = <<>> THEN EmptyTotals ELSE Last(navSnapshots).totals

\* What is on file of an investor's transfers, dated when it got there.
positionEventsFor(i) ==
  SelectSeq([k \in DOMAIN filed |-> [log[k] EXCEPT !.t = filed[k]]], LAMBDA e : e.who = i)

positionOf(i) == positionAfter(positionEventsFor(i))

investorCounts == Cardinality({i \in Investors : isHeld(positionOf(i))})

(***************************************************************************)
(* A line of the chart, cut off where its range begins.                    *)
(***************************************************************************)
rangeStart(range, at) == IF range = AllTime THEN 0 ELSE at - range

timeseriesFrom(series, from) == SelectSeq(series, LAMBDA point : point.t >= from)

navSeries(from) ==
  LET rows == SelectSeq(navSnapshots, LAMBDA row : row.t >= from)
  IN  [k \in DOMAIN rows |-> [t |-> rows[k].t, nav |-> rows[k].totals.nav]]

-----------------------------------------------------------------------------
(***************************************************************************)
(* readVaultsFromChain: a request joins the cached promise while it is     *)
(* fresh and otherwise starts a read and caches that.  A read asks for the *)
(* log, then for the times of its blocks; one that fails clears the cache, *)
(* whatever read is in it by then.                                         *)
(***************************************************************************)

\* Variant: what is cached is served.
servesForever == readings # NoEntry

serves == readings.expiresAt > now

joins(r, k) ==
  request' = [request EXCEPT ![r] = [stage |-> "reading", range |-> @.range, since |-> now,
                                    read |-> k, detail |-> Unread]]

Arrive(r) ==
  LET fresh == Len(reads) + 1 IN
  /\ request[r].stage = "sent"
  /\ IF serves THEN joins(r, readings.read) /\ UNCHANGED <<reads, readings>>
     ELSE /\ reads' = Append(reads, [stage |-> "fetching", logs |-> 0])
          /\ readings' = [read |-> fresh, expiresAt |-> now + CacheTtl]
          /\ joins(r, fresh)
  /\ UNCHANGED <<vaultVars, now, sources>>

fetchLogs(k) ==
  /\ reads[k].stage = "fetching"
  /\ reads' = [reads EXCEPT ![k] = [stage |-> "timing", logs |-> Len(log)]]
  /\ UNCHANGED <<vaultVars, now, sources, readings, request>>

blockTimestamps(k) ==
  /\ reads[k].stage = "timing"
  /\ reads' = [reads EXCEPT ![k].stage = "built"]
  /\ UNCHANGED <<vaultVars, now, sources, readings, request>>

ReadFails(k) ==
  /\ "chain" \in conditions.faults
  /\ reads[k].stage \in {"fetching", "timing"}
  /\ reads' = [reads EXCEPT ![k].stage = "failed"]
  /\ readings' = NoEntry
  /\ UNCHANGED <<vaultVars, now, sources, request>>

(***************************************************************************)
(* buildDetail: the totals, read beside it (a node that does not answer    *)
(* leaves the newest snapshot), and with them all there is on file.  The   *)
(* caller's own position rides along; it is the subject of Portfolio.      *)
(***************************************************************************)
buildDetail(totals) == [totals |-> totals, snapshots |-> Len(navSnapshots)]

readTotals(r) ==
  /\ r[1] = "detail" /\ request[r].stage = "reading"
  /\ request[r].detail = Unread
  /\ \E totals \in {totalsNow} \cup
                   IF "chain" \in conditions.faults THEN {totalsFromSnapshot} ELSE {} :
       request' = [request EXCEPT ![r].detail = buildDetail(totals)]
  /\ UNCHANGED <<vaultVars, now, sources, reads, readings>>

(***************************************************************************)
(* withChainMetrics: the reading's figures take the place of those of the  *)
(* snapshots.  An answer keeps where its figures come from, and how much   *)
(* of it.  A line is the reading's unless that has no settlement.          *)
(***************************************************************************)
fromChain(k) == [source |-> "chain", length |-> reads[k].logs]
fromSnapshots(detail) == [source |-> "snapshots", length |-> detail.snapshots]

withChainMetrics(detail, k) ==
  [totals  |-> detail.totals,
   metrics |-> IF reads[k].stage = "built" THEN fromChain(k) ELSE fromSnapshots(detail)]

lineFrom(k, from) ==
  LET settled == IF reads[k].stage = "built" THEN foldLogs(SubSeq(log, 1, reads[k].logs)).series
                 ELSE <<>>
  IN IF settled # <<>> THEN timeseriesFrom(settled, from) ELSE navSeries(from)

answered(r, content) ==
  request' = [request EXCEPT ![r] = [stage |-> "answered", range |-> @.range, since |-> @.since,
                                    content |-> content]]

Answer(r) ==
  LET k == request[r].read IN
  /\ request[r].stage = "reading"
  /\ reads[k].stage \in {"built", "failed"}
  /\ \/ /\ r[1] = "detail" /\ request[r].detail # Unread
        /\ answered(r, withChainMetrics(request[r].detail, k))
     \/ /\ r[1] = "series"
        /\ answered(r, lineFrom(k, rangeStart(request[r].range, request[r].since)))
  /\ UNCHANGED <<vaultVars, now, sources, reads, readings>>

Sources ==
  \/ \E i \in conditions.traders, a \in Amounts \cap conditions.amounts : Deposit(i, a) \/ Withdraw(i, a)
  \/ \E d \in Deltas : Settle(d)
  \/ Snapshot \/ File \/ Time

Serving ==
  \/ \E r \in Requests : Arrive(r) \/ readTotals(r) \/ Answer(r)
  \/ \E k \in DOMAIN reads : fetchLogs(k) \/ blockTimestamps(k) \/ ReadFails(k)

=============================================================================
