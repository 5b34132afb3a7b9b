------------------------------ MODULE Positions ------------------------------
(***************************************************************************)
(* An investor's position in a strategy, from the transfers on file: the   *)
(* row that routes/strategies.ts keeps, its worth (lib/shares.ts), and its *)
(* worth over time (routes/dto.ts, routes/portfolio.ts).                   *)
(*                                                                         *)
(* An event is a record with kind, shares, assets and the time t it was    *)
(* recorded; a snapshot has t and totals.  Both are given oldest first.    *)
(***************************************************************************)
EXTENDS Integers, Sequences, SequencesExt, FiniteSetsExt

NoPosition == [shares |-> 0, basis |-> 0]

basisAfterRedemption(basis, shares, redeemed) ==
  IF basis <= 0 \/ shares <= 0 \/ redeemed >= shares THEN 0
  ELSE basis - (basis * redeemed) \div shares

\* Variant: a redemption is taken off in USDC.
afterInAssets(p, t) ==
  IF t.kind = "deposit"
  THEN [shares |-> p.shares + t.shares, basis |-> p.basis + t.assets]
  ELSE [shares |-> IF t.assets > p.shares THEN 0 ELSE p.shares - t.assets,
        basis  |-> basisAfterRedemption(p.basis, p.shares, t.shares)]

after(p, t) ==
  IF t.kind = "deposit"
  THEN [shares |-> p.shares + t.shares, basis |-> p.basis + t.assets]
  ELSE [shares |-> IF t.shares > p.shares THEN 0 ELSE p.shares - t.shares,
        basis  |-> basisAfterRedemption(p.basis, p.shares, t.shares)]

positionAfter(events) == FoldLeft(after, NoPosition, events)

isHeld(p) == p.shares > 0

positionValue(shares, totals) ==
  IF totals.shares = 0 THEN 0 ELSE (shares * totals.assets) \div totals.shares

\* What a strategy's own accounting gives for a deposit and a redemption,
\* unless its creator writes another (shared/strategy-contract.ts).
defaultOnDeposit(totals, assets) ==
  [assets |-> assets,
   shares |-> IF totals.shares = 0 \/ totals.assets = 0 THEN assets
              ELSE (assets * totals.shares) \div totals.assets]

defaultOnWithdraw(totals, shares) ==
  [shares |-> shares, assets |-> (shares * totals.assets) \div totals.shares]

toPositionDto(p, totals) ==
  [shares |-> p.shares, costBasis |-> p.basis, currentValue |-> positionValue(p.shares, totals)]

-----------------------------------------------------------------------------
(***************************************************************************)
(* The worth of a position at each snapshot since its first event, or      *)
(* since from: a range cuts points off, never the events before it.        *)
(***************************************************************************)
signedShares(event) == IF event.kind = "deposit" THEN event.shares ELSE -event.shares

\* Variant: an event at the snapshot's own instant is left to the next.
sharesBefore(events, t) ==
  MapThenSumSet(LAMBDA k : signedShares(events[k]), {k \in DOMAIN events : events[k].t < t})

sharesAt(events, t) ==
  MapThenSumSet(LAMBDA k : signedShares(events[k]), {k \in DOMAIN events : events[k].t <= t})

positionValueSeries(events, snapshots, from) ==
  IF events = <<>> THEN <<>>
  ELSE LET start == Max({from, Head(events).t})
           rows  == SelectSeq(snapshots, LAMBDA row : row.t >= start)
       IN [k \in DOMAIN rows |->
             [t |-> rows[k].t,
              value |-> positionValue(sharesAt(events, rows[k].t), rows[k].totals)]]

(***************************************************************************)
(* Several of them as one line: each strategy ticks at its own times and   *)
(* is carried forward in between.                                          *)
(***************************************************************************)
timesOf(lines) == UNION {{line[k].t : k \in DOMAIN line} : line \in ToSet(lines)}

dueAt(line, t) == SelectSeq(line, LAMBDA point : point.t = t)

\* Variant: a strategy without a point at a time counts for nothing there.
carryNothing(carried, lines, t) ==
  [i \in DOMAIN lines |-> LET due == dueAt(lines[i], t) IN IF due = <<>> THEN 0 ELSE Last(due).value]

carry(carried, lines, t) ==
  [i \in DOMAIN lines |->
     LET due == dueAt(lines[i], t) IN IF due = <<>> THEN carried[i] ELSE Last(due).value]

total(carried) == FoldLeft(LAMBDA sum, v : sum + v, 0, carried)

valueSeries(lines, points) ==
  LET times == SetToSortSeq(timesOf(lines), LAMBDA t, u : t < u)
      step(sofar, t) ==
        LET carried == carry(sofar.carried, lines, t)
        IN  [carried |-> carried,
             points  |-> Append(sofar.points, [t |-> t, v |-> total(carried)])]
      all == FoldLeft(step, [carried |-> [i \in DOMAIN lines |-> 0], points |-> <<>>], times).points
  IN SubSeq(all, Max({1, Len(all) - points + 1}), Len(all))

=============================================================================
