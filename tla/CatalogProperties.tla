-------------------------- MODULE CatalogProperties --------------------------
(***************************************************************************)
(* What a reader may rely on: figures that are the chain's, no older than  *)
(* promised, and a page that does not go back in time.                     *)
(***************************************************************************)
EXTENDS Marketplace

CONSTANT Needles   \* what the two searches are compared on

PageTypeOK ==
  /\ TypeOK
  /\ now \in 0 .. conditions.time /\ Len(filed) <= Len(log)
  /\ readings.read \in 0 .. Len(reads)
  /\ \A k \in DOMAIN reads : reads[k].stage \in {"fetching", "timing", "built", "failed"}
  /\ \A r \in Requests : request[r].stage \in {"none", "sent", "reading", "answered", "landed", "cut"}
  /\ rendered \in {"skeleton", "error", "empty", "strategy"}
  /\ range \in {NoChart} \cup Ranges /\ (rendered # "strategy" => range = NoChart)

(***************************************************************************)
(* chain-metrics.ts: the vault's events are "a complete history that owes  *)
(* nothing to any row this backend wrote".  Folded, they give the vault's  *)
(* totals, its price and the number of its holders, after any calls; no    *)
(* return is worse than the drawdown quoted beside it; and what all the    *)
(* positions on file are worth, the vault has.  shares.ts: "the backend,   *)
(* the strategy template and the on-chain vault all round the same way";   *)
(* of whom is an investor the database and the log tell the same; and a    *)
(* line of the chart has the settlements of its range, in order and no     *)
(* other.                                                                  *)
(***************************************************************************)
reading == foldLogs(log)

roundsAsTheVault ==
  /\ \A n \in Amounts :
       /\ defaultOnDeposit(totalsNow, n).shares = convertToShares(n)
       /\ n <= totalShares => defaultOnWithdraw(totalsNow, n).assets = convertToAssets(n)
  /\ \A i \in Investors : positionValue(sharesOf[i], totalsNow) = balanceOfInvestor(i)

\* The panel's quotes round with the price: no redemption pays less than was
\* quoted for it, and no allocation is quoted fewer shares than it buys.
quotesFollowTheVault ==
  \A n \in Amounts :
    /\ n <= totalShares => quotedAmount(n, navPerShare) <= convertToAssets(n)
    /\ navPerShare > 0 => convertToShares(n) <= quotedShares(n, navPerShare)

totalsAgree == reading.totals = totalsNow

toldTo(name) == {request[r] : r \in {r \in Requests : r[1] = name /\ request[r].stage = "answered"}}

heardOf(k, shown) == log[k].t < shown.since - CacheTtl

lineIsWhole(shown) ==
  LET line == shown.content
      from == rangeStart(shown.range, shown.since)
  IN
  /\ \A i \in DOMAIN line : line[i].t >= from /\ (i > 1 => line[i - 1].t <= line[i].t)
  /\ "chain" \notin conditions.faults =>
       \A k \in DOMAIN log : log[k].kind = "pnl" /\ log[k].t >= from /\ heardOf(k, shown) =>
         [t |-> log[k].t, nav |-> log[k].nav] \in ToSet(line)

LogTellsTheVault ==
  /\ totalsAgree
  /\ reading.investorCount = Cardinality({i \in Investors : sharesOf[i] > 0})
  /\ LET figures == computeMetrics(reading.series) IN
       isRatio(figures.totalReturn) => atMost(figures.maxDrawdown, figures.totalReturn)
  /\ roundsAsTheVault
  /\ quotesFollowTheVault
  /\ Len(filed) = Len(log) =>
       /\ investorCounts = reading.investorCount
       /\ MapThenSumSet(LAMBDA i : positionValue(positionOf(i).shares, totalsNow), Investors)
            <= totalManagedAssets
  /\ \A shown \in toldTo("series") : lineIsWhole(shown)

(***************************************************************************)
(* chain-metrics.ts: "long enough that a listing costs one read, short     *)
(* enough that a fresh tick shows up".  An answer drawn from the chain     *)
(* knows every event older than the cache's time when it was asked for,    *)
(* whichever read it shares and however late that read came back; and a    *)
(* chart that has loaded shows the range picked for it, whatever was asked *)
(* for an earlier one.                                                     *)
(***************************************************************************)
detailIsRecent(shown) ==
  shown.content.metrics.source = "chain" =>
    \A k \in DOMAIN log : heardOf(k, shown) => k <= shown.content.metrics.length

detailsAreRecent == \A shown \in toldTo("detail") : detailIsRecent(shown)

chartIsOfItsRange == range # NoChart /\ ~plotting /\ ~plotFailed => plotted.range = range

AnswersAreRecent ==
  /\ PageTypeOK
  /\ detailsAreRecent
  /\ chartIsOfItsRange

(***************************************************************************)
(* useResource.ts aborts a superseded load so that a slow answer cannot    *)
(* land over a fresh one: what the page shows is never replaced by what    *)
(* was asked for earlier.  Reads of the log may overtake each other, so a  *)
(* later answer may know fewer events than the one it replaces, but only   *)
(* of events no older than the cache's time when it was asked for.         *)
(***************************************************************************)
fromTheChain(shown) == shown # Nothing /\ shown.content.metrics.source = "chain"

PageNeverGoesBack ==
  [][/\ data # Nothing => data'.since >= data.since
     /\ fromTheChain(data) /\ fromTheChain(data') =>
          \A k \in data'.content.metrics.length + 1 .. data.content.metrics.length :
            ~heardOf(k, data')
     /\ plotted # Nothing /\ plotted' # Nothing => plotted'.since >= plotted.since]_siteVars

(***************************************************************************)
(* Every load of the three pages ends in data or in an error the page can  *)
(* retry from; and once no more is asked, none is waited for.              *)
(***************************************************************************)
waiting == pending \/ plotting \/ book.loading \/ searching

LoadsEnd == waiting ~> ~waiting

-----------------------------------------------------------------------------
(***************************************************************************)
(* portfolio.ts: the totals above the table are those of its rows, those   *)
(* redeemed to nothing included; and the line below is, at each time, what *)
(* the strategies that had ticked by then put the viewer's shares at: none *)
(* dips because another has no snapshot at that instant, and a range cuts  *)
(* off points and nothing else.                                            *)
(***************************************************************************)
answersOnScreen ==
  {asked[l].answer : l \in {l \in DOMAIN asked : asked[l].stage = "answered"}}

rowsAddUp(answer) ==
  LET rows == answer.positions
      sum(value(_)) == MapThenSumSet(value, DOMAIN rows) IN
  /\ answer.summary.totalValue = sum(LAMBDA s : rows[s].currentValue)
  /\ answer.summary.totalInvested = sum(LAMBDA s : rows[s].costBasis)

worthAt(s, t) ==
  LET events == eventsOf(s)
      ticks  == SelectSeq(snapshotsOf(s), LAMBDA row : events # <<>> /\ row.t >= events[1].t /\ row.t <= t)
      by     == Last(ticks)
      before == SelectSeq(events, LAMBDA event : event.t <= by.t)
  IN IF ticks = <<>> THEN 0 ELSE positionValue(positionAfter(before).shares, by.totals)

isTheWorth(series) ==
  \A k \in DOMAIN series : series[k].v = worthAt("here", series[k].t) + worthAt("there", series[k].t)

rangeOnlyCuts ==
  \A s \in Both, chosen \in Ranges :
    positionSeries(s, chosen)
      = SelectSeq(positionSeries(s, AllTime), LAMBDA point : point.t >= rangeStart(chosen, now))

(***************************************************************************)
(* units.ts: burning the shares worked out for an amount "can only leave   *)
(* value in the position, never overdraw it": the vault pays at least what *)
(* the form promised and never more than the amount by a share's worth,    *)
(* and the whole value, or all of it by percentage, burns every share.     *)
(***************************************************************************)
neverOverdraws(dto) ==
  \A amount \in 1 .. dto.currentValue :
    LET order == requested(dto, amount, FALSE) IN
    /\ order.shares <= dto.shares
    /\ order.receive <= amount
    /\ amount = dto.currentValue => order = requested(dto, amount, TRUE)
    /\ ~invalid(dto, amount, FALSE) /\ order.shares <= totalShares =>
         order.receive <= convertToAssets(order.shares)

PortfolioAddsUp ==
  /\ \A answer \in answersOnScreen : rowsAddUp(answer)
  /\ conditions.elsewhere > 0 => isTheWorth(valueSeries(lines, MaxPoints)) /\ rangeOnlyCuts
  /\ Len(filed) = Len(log) /\ totalShares > 0 =>
       neverOverdraws(toPositionDto(positionOf(Viewer), totalsNow))

-----------------------------------------------------------------------------
(***************************************************************************)
(* strategies.ts: "a row kept here is a row the marketplace can highlight  *)
(* character for character", though the two searches are two programs; and *)
(* what either finds spells the query and is scored by where it was found. *)
(***************************************************************************)
searchesAgree ==
  \A q \in Needles, n \in DOMAIN Rows :
    highlights(q, Rows[n]) <=> scoreStrategy(q, Rows[n]) # unmatched

textsOf(row) == {row.name, decorated(row.ticker, "$"), decorated(row.creator, "@")}

picksOut(segments, q, text) ==
  LET textOf(runs) == FlattenSeq([k \in DOMAIN runs |-> runs[k].text])
      marked == textOf(SelectSeq(segments, LAMBDA run : run.matched))
  IN textOf(segments) = text /\ [k \in DOMAIN marked |-> lower(marked[k])] = q

findsWhatIsThere ==
  \A q \in Needles, text \in UNION {textsOf(Rows[n]) : n \in DOMAIN Rows} :
    LET match == fuzzyMatch(q, text) IN
    IF match = NoMatch THEN ~occurs(q, text)
    ELSE /\ spells(match.indices, q, text)
         /\ match.score = scoreOf(match.indices, text)
         /\ picksOut(toSegments(text, match.indices), q, text)

(***************************************************************************)
(* MarketplaceBrowser.tsx: once typing has paused and nothing is loading,  *)
(* the results are those of the criteria on screen, whoever set them and   *)
(* however slow the answers to earlier ones were; they satisfy them, a     *)
(* strategy without a figure comes last, and the suggestion the keyboard   *)
(* is on is one of those shown.                                            *)
(***************************************************************************)
settledPage == search > 0 /\ criteria.timer = NoTimer /\ ~searching /\ ~searchFailed

ordered(answer) ==
  \A i, j \in DOMAIN answer.rows : i < j =>
    IF answer.ask.sort = "newest" THEN answer.rows[i].n > answer.rows[j].n
    ELSE answer.rows[j].figure = NoFigure
         \/ (answer.rows[i].figure # NoFigure /\ answer.rows[i].figure >= answer.rows[j].figure)

answersTheCriteria ==
  settledPage => criteria.query = criteria.settled /\ found.ask = asks(criteria)

ResultsAnswerTheCriteria ==
  /\ searchesAgree /\ findsWhatIsThere
  /\ answersTheCriteria
  /\ found # Nothing =>
       /\ ordered(found)
       /\ \A i \in DOMAIN found.rows :
            highlights(found.ask.q, Rows[found.rows[i].n])
  /\ expanded => dropdown.active \in DOMAIN suggestions

=============================================================================
