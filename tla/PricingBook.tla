----------------------------- MODULE PricingBook -----------------------------
(***************************************************************************)
(* The book of one strategy, tick after tick, with nobody else touching    *)
(* the vault: each tick prices the decision against the interval's move    *)
(* (scheduler/tick.ts, steps 3 to 5) and settles what the vault can.  What *)
(* can go wrong here is arithmetic: rounding, caps and odd decisions, kept *)
(* up over a series of ticks that each start from what the last one left.  *)
(***************************************************************************)
EXTENDS Pricing

CONSTANTS
  Declared,   \* the assets describe() declares
  Decisions,  \* raw targetWeightsBps a strategy may return
  Quotes,     \* price maps the oracle may quote
  Capital,    \* initial managed assets and reserves
  FeeBps

ASSUME FeeAssumption == FeeBps \in 0 .. BPS

VARIABLES managed, buffer, held, prices

vars == <<managed, buffer, held, prices>>

TypeOK ==
  /\ managed \in Nat
  /\ buffer \in Nat
  /\ DOMAIN held \subseteq Declared
  /\ \A s \in DOMAIN held : held[s] \in 0 .. BPS
  /\ prices \in Quotes \cup {<<>>}

Init ==
  /\ managed \in Capital
  /\ buffer \in Capital
  /\ held = <<>>
  /\ prices = <<>>

priced == priceDecision(managed, held, held', prices, prices', FeeBps)

Tick(decision, quote) ==
  LET vault == [totalManagedAssets |-> managed, reserve |-> buffer] IN
  /\ held' = normaliseWeights(decision, Declared)
  /\ prices' = quote
  /\ managed' = managed + clampPnl(priced.netPnl, vault)
  /\ buffer' = buffer - clampPnl(priced.netPnl, vault)

Next == \E decision \in Decisions, quote \in Quotes : Tick(decision, quote)

Spec == Init /\ [][Next]_vars

-----------------------------------------------------------------------------
(***************************************************************************)
(* chainlink/strategy-toolkit/src/backtest.ts: one snapshot of the series  *)
(* a strategy is run over.  It is the other place where weights become     *)
(* money: where pricing.ts truncates base units it keeps a fraction, so an *)
(* amount here is a quotient [num, den] with den > 0.  (The doubles of the *)
(* code stand for these quotients; their error is left out.)               *)
(***************************************************************************)
\* What one unit of the book becomes while the weights held meet the move:
\* a symbol without both prices earns nothing.
change(weights, previous, snapshot) ==
  LET symbols == measured(weights, previous, snapshot)
      scale   == FoldSet(LAMBDA s, product : previous[s] * product, 1, symbols)
  IN  [num |-> MapThenSumSet(LAMBDA s : (scale \div previous[s]) * weights[s]
                                          * (snapshot[s] - previous[s]), symbols),
       den |-> BPS * scale]

marked(nav, weights, previous, snapshot) ==
  LET move == change(weights, previous, snapshot) IN
  [num |-> nav.num * (move.den + move.num), den |-> nav.den * move.den]

turnoverBetween(from, to) == turnoverBps(from, to)

charged(nav, turnover, feeBps) ==
  [num |-> nav.num * (BPS * BPS - turnover * feeBps), den |-> nav.den * BPS * BPS]

\* Variant: the new allocation is paid for, and earns, the move before it.
runSnapshotTradingFirst(nav, weights, target, previous, snapshot, feeBps) ==
  marked(charged(nav, turnoverBetween(weights, target), feeBps), target, previous, snapshot)

\* Yesterday's weights earn today's move; then today's decision is paid for.
runSnapshot(nav, weights, target, previous, snapshot, feeBps) ==
  charged(marked(nav, weights, previous, snapshot),
          turnoverBetween(weights, target), feeBps)

-----------------------------------------------------------------------------
(***************************************************************************)
(* Weights, the sum of the truncated legs and the fee cannot add up to     *)
(* leverage, series after series.  A gain is never more than the best      *)
(* declared asset earned, so prices that did not move pay nothing, however *)
(* the weights are shuffled and whatever rounds down on the way.  And with *)
(* a venue cost of at most half the turnover the cap on losses never       *)
(* fires, not even for a full rotation on the tick the market halves.      *)
(***************************************************************************)
gainsAtMostTheBest ==
  priced.netPnl > 0 =>
    \E s \in DOMAIN prices \cap DOMAIN prices' :
      priced.netPnl * prices[s] <= managed * (prices'[s] - prices[s])

lossCapNeverFires == 2 * FeeBps <= BPS => -priced.netPnl <= managed

NoLeverage == []TypeOK /\ [][gainsAtMostTheBest /\ lossCapNeverFires]_vars

(***************************************************************************)
(* config.ts: "a strategy's live curve and its backtest are comparable".   *)
(* Over every tick the two accounts, written apart, one in truncated base  *)
(* units and one in fractions, stay within what pricing.ts allows for: a   *)
(* base unit for each leg, and one for the fee.                            *)
(***************************************************************************)
ComparableToTheBacktest ==
  [][LET curve == runSnapshot([num |-> managed, den |-> 1], held, held', prices,
                              prices', FeeBps)
         legs  == Cardinality(measured(held, prices, prices'))
     IN  abs((managed + priced.netPnl) * curve.den - curve.num)
           < (legs + 1) * curve.den]_vars

=============================================================================
