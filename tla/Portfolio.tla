------------------------------ MODULE Portfolio ------------------------------
(***************************************************************************)
(* An investor's own view: GET /portfolio (routes/portfolio.ts), the page  *)
(* that shows it (app/portfolio/page.tsx) and the amounts its withdrawal   *)
(* form works out (components/portfolio).  The viewer holds the strategy   *)
(* of Catalog and one more, elsewhere, which ticks at times of its own.    *)
(*                                                                         *)
(* A load reads the position rows, then each vault, then the events and    *)
(* snapshots, while all of them move on; loads of the page may overlap,    *)
(* and nothing aborts the earlier one.                                     *)
(***************************************************************************)
EXTENDS StrategyPage

CONSTANTS
  Viewer,     \* the investor whose portfolio it is
  MaxPoints   \* MAX_SERIES_POINTS

ASSUME MaxPointsAssumption == MaxPoints \in Nat \ {0}

VARIABLES
  elsewhere,  \* the other strategy: the viewer's events, its snapshots and totals
  asked,      \* the loads of the page, oldest first: what each has got so far
  book        \* the page: the portfolio it shows, or Nothing

portfolioVars == <<elsewhere, asked, book>>

Both == {"here", "there"}

eventsOf(s) == IF s = "here" THEN positionEventsFor(Viewer) ELSE elsewhere.events
snapshotsOf(s) == IF s = "here" THEN navSnapshots ELSE elsewhere.snapshots
vaultOf(s) == IF s = "here" THEN totalsNow ELSE elsewhere.totals
latestSnapshot(s) ==
  IF snapshotsOf(s) = <<>> THEN EmptyTotals ELSE Last(snapshotsOf(s)).totals

PortfolioInit ==
  /\ elsewhere = [events    |-> <<[kind |-> "deposit", shares |-> 2, assets |-> 2, t |-> 0]>>,
                  snapshots |-> <<>>,
                  totals    |-> [assets |-> 4, shares |-> 4, nav |-> Par]]
  /\ asked = <<>>
  /\ book = [portfolio |-> Nothing, error |-> FALSE, loading |-> FALSE]

\* GET /strategies/:slug/position-series: the worth of the viewer's shares.
positionSeries(s, chosen) ==
  positionValueSeries(eventsOf(s), snapshotsOf(s), rangeStart(chosen, now))

-----------------------------------------------------------------------------
(***************************************************************************)
(* The other strategy: a tick settles and writes its snapshot; the viewer  *)
(* redeems all there is, and the row stays behind without shares.          *)
(***************************************************************************)
TickElsewhere(d) ==
  /\ Len(elsewhere.snapshots) < conditions.elsewhere
  /\ LET totals == [elsewhere.totals EXCEPT !.assets = @ + d] IN
     elsewhere' = [elsewhere EXCEPT !.totals = totals,
                                    !.snapshots = Append(@, [t |-> now, totals |-> totals])]
  /\ UNCHANGED <<asked, book>>

LeaveElsewhere ==
  LET held == positionAfter(elsewhere.events).shares
      paid == positionValue(held, elsewhere.totals)
  IN
  /\ conditions.elsewhere > 0 /\ held > 0
  /\ elsewhere' = [elsewhere EXCEPT
       !.events = Append(@, [kind |-> "withdraw", shares |-> held, assets |-> paid, t |-> now]),
       !.totals = [@ EXCEPT !.shares = @ - held, !.assets = @ - paid]]
  /\ UNCHANGED <<asked, book>>

-----------------------------------------------------------------------------
(***************************************************************************)
(* One load, await by await.                                               *)
(***************************************************************************)
InMotion(l, stages) == l \in DOMAIN asked /\ asked[l].stage \in stages

\* On opening the page, after the faucet and after a withdrawal.
AskPortfolio ==
  /\ Len(asked) < conditions.books
  /\ asked' = Append(asked, [stage |-> "sent"])
  /\ book' = [book EXCEPT !.error = FALSE, !.loading = @ \/ asked = <<>>]
  /\ UNCHANGED elsewhere

readRows(l) ==
  /\ InMotion(l, {"sent"})
  /\ asked' = [asked EXCEPT ![l] =
       [stage  |-> "rows",
        rows   |-> [s \in {s \in Both : eventsOf(s) # <<>>} |-> positionAfter(eventsOf(s))],
        totals |-> <<>>]]
  /\ UNCHANGED <<elsewhere, book>>

readTotalsOf(l, s) ==
  /\ InMotion(l, {"rows"})
  /\ s \in DOMAIN asked[l].rows \ DOMAIN asked[l].totals
  /\ \E totals \in {vaultOf(s)} \cup
                   IF "chain" \in conditions.faults THEN {latestSnapshot(s)} ELSE {} :
       asked' = [asked EXCEPT ![l].totals = [x \in {s} |-> totals] @@ @]
  /\ UNCHANGED <<elsewhere, book>>

listed(rows) == {s \in DOMAIN rows : isHeld(rows[s])}

summarise(rows, totals) ==
  [totalValue    |-> MapThenSumSet(LAMBDA s : positionValue(rows[s].shares, totals[s]), DOMAIN rows),
   totalInvested |-> MapThenSumSet(LAMBDA s : rows[s].basis, DOMAIN rows)]

\* The line over time is drawn from what is on file when the answer is made;
\* an answer keeps how much that was.
lines ==
  SelectSeq(<<positionSeries("here", AllTime), positionSeries("there", AllTime)>>,
            LAMBDA line : line # <<>>)

AnswerPortfolio(l) ==
  LET rows == asked[l].rows  totals == asked[l].totals IN
  /\ InMotion(l, {"rows"})
  /\ DOMAIN totals = DOMAIN rows
  /\ UNCHANGED <<elsewhere, book>>
  /\ asked' = [asked EXCEPT ![l] =
       [stage |-> "answered",
        answer |-> [summary   |-> summarise(rows, totals),
                    positions |-> [s \in listed(rows) |-> toPositionDto(rows[s], totals[s])],
                    drawnFrom |-> [s \in Both |-> <<Len(eventsOf(s)), Len(snapshotsOf(s))>>]]]]

\* The page also asks for the listing, which only decorates the tables.
LandPortfolio(l) ==
  /\ InMotion(l, {"answered"})
  /\ asked' = [asked EXCEPT ![l] = [stage |-> "over"]]
  /\ book' = [book EXCEPT !.portfolio = asked[l].answer, !.loading = FALSE]
  /\ UNCHANGED elsewhere

CutPortfolio(l) ==
  /\ "network" \in conditions.faults
  /\ InMotion(l, {"sent", "rows", "answered"})
  /\ asked' = [asked EXCEPT ![l] = [stage |-> "over"]]
  /\ book' = [book EXCEPT !.error = TRUE, !.loading = FALSE]
  /\ UNCHANGED elsewhere

PortfolioStep ==
  \/ \E d \in Deltas : TickElsewhere(d)
  \/ LeaveElsewhere
  \/ AskPortfolio
  \/ \E l \in DOMAIN asked :
       \/ readRows(l) \/ AnswerPortfolio(l) \/ LandPortfolio(l) \/ CutPortfolio(l)
       \/ \E s \in Both : readTotalsOf(l, s)

-----------------------------------------------------------------------------
(***************************************************************************)
(* What the panel of a strategy's page quotes, at the price it shows       *)
(* (amount.ts, InvestPanel.tsx): a price of nothing buys no share.         *)
(***************************************************************************)
quotedShares(amount, nav) == IF nav <= 0 THEN 0 ELSE (amount * Par) \div nav

\* Variant: a quote rounded to the nearest.
quotedAmountRounded(shares, nav) == (shares * nav + Par \div 2) \div Par

quotedAmount(shares, nav) == (shares * nav) \div Par

(***************************************************************************)
(* The withdrawal form: an amount in USDC becomes shares to burn, at the   *)
(* rate of the position it was opened on (units.ts, WithdrawModal.tsx).    *)
(***************************************************************************)

\* Variant: enough shares for the amount.
sharesRoundedUp(amount, shares, value) ==
  IF value <= 0 THEN 0 ELSE (amount * shares + value - 1) \div value

sharesForAmount(amount, shares, value) ==
  IF amount <= 0 \/ shares <= 0 \/ value <= 0 THEN 0
  ELSE Min({(amount * shares) \div value, shares})

amountForShares(burnt, shares, value) ==
  IF burnt <= 0 \/ shares <= 0 \/ value <= 0 THEN 0 ELSE (burnt * value) \div shares

percentOf(units, percent) ==
  IF percent >= 100 THEN units ELSE IF percent <= 0 THEN 0 ELSE (units * percent) \div 100

requested(dto, amount, exitInFull) ==
  IF exitInFull THEN [shares |-> dto.shares, receive |-> dto.currentValue]
  ELSE LET shares == sharesForAmount(amount, dto.shares, dto.currentValue)
       IN  [shares |-> shares, receive |-> amountForShares(shares, dto.shares, dto.currentValue)]

invalid(dto, amount, exitInFull) ==
  \/ requested(dto, amount, exitInFull).shares <= 0
  \/ ~exitInFull /\ amount > dto.currentValue

=============================================================================
