------------------------------- MODULE Pricing -------------------------------
(***************************************************************************)
(* backend/src/scheduler/pricing.ts and normaliseWeights of the strategy   *)
(* toolkit: from the weights a strategy asks for to the signed delta its   *)
(* vault is asked to settle.  Pure functions over integers: amounts are    *)
(* base units, weights are basis points of BPS, a price is in base units.  *)
(*                                                                         *)
(* A map of the code keyed by symbol is a function whose domain is the set *)
(* of symbols present, so a missing price is a symbol outside the domain.  *)
(***************************************************************************)
EXTENDS Integers, FiniteSetsExt

CONSTANT BPS  \* 10000: the whole book

ASSUME BPSAssumption == BPS \in Nat \ {0}

abs(n) == IF n < 0 THEN -n ELSE n

\* Division that rounds towards zero for both signs.
truncatingDiv(n, d) ==
  LET quotient == abs(n) \div abs(d) IN
  IF (n < 0) # (d < 0) THEN -quotient ELSE quotient

at(f, s) == IF s \in DOMAIN f THEN f[s] ELSE 0

(***************************************************************************)
(* A decision's weights, clamped onto the declared assets and the book:    *)
(* undeclared symbols and zero weights are dropped, and an oversubscribed  *)
(* book is scaled down proportionally, each weight rounding down.          *)
(***************************************************************************)
\* Variant: an oversubscribed book is left as it is.
normaliseWeightsUnscaled(target, declared) ==
  LET clamped == [s \in DOMAIN target \cap declared |-> Max({0, Min({target[s], BPS})})]
  IN  [s \in {x \in DOMAIN clamped : clamped[x] # 0} |-> clamped[s]]

normaliseWeights(target, declared) ==
  LET clamped == [s \in DOMAIN target \cap declared |->
                    Max({0, Min({target[s], BPS})})]
      kept    == {s \in DOMAIN clamped : clamped[s] # 0}
      total   == MapThenSumSet(LAMBDA s : clamped[s], kept)
  IN  [s \in kept |-> IF total > BPS THEN (clamped[s] * BPS) \div total
                                     ELSE clamped[s]]

-----------------------------------------------------------------------------
(***************************************************************************)
(* What the held weights earned.  A leg counts only with both prices: a    *)
(* first tick, or an unquoted symbol, has no measured move.                *)
(***************************************************************************)
measured(held, from, to) ==
  {s \in DOMAIN held : held[s] # 0 /\ s \in DOMAIN from \cap DOMAIN to /\ from[s] > 0}

\* Variant: a leg rounds up.
legPnlRoundingUp(managed, weight, from, to) ==
  (managed * weight * (to - from) + BPS * from - 1) \div (BPS * from)

legPnl(managed, weight, from, to) ==
  truncatingDiv(managed * weight * (to - from), BPS * from)

marketPnl(managed, held, from, to) ==
  MapThenSumSet(LAMBDA s : legPnl(managed, held[s], from[s], to[s]),
                measured(held, from, to))

\* Variant: what is sold is set off against what is bought.
netTurnoverBps(held, target) ==
  MapThenSumSet(LAMBDA s : at(target, s) - at(held, s), DOMAIN held \cup DOMAIN target)

\* Sum of absolute weight changes: a full rotation is twice BPS.
turnoverBps(held, target) ==
  MapThenSumSet(LAMBDA s : abs(at(target, s) - at(held, s)),
                DOMAIN held \cup DOMAIN target)

\* Venue cost: a share of what is left after the market moved.
turnoverFee(chargeable, turnover, feeBps) ==
  truncatingDiv(chargeable * turnover * feeBps, BPS * BPS)

\* One trade for every symbol whose weight changes and that has a price.
plannedTrades(held, target, to, chargeable) ==
  {[symbol   |-> s,
    side     |-> IF at(target, s) > at(held, s) THEN "buy" ELSE "sell",
    notional |-> truncatingDiv(chargeable * abs(at(target, s) - at(held, s)), BPS)]
     : s \in {x \in DOMAIN held \cup DOMAIN target :
                at(target, x) # at(held, x) /\ at(to, x) > 0}}

priceDecision(managed, held, target, from, to, feeBps) ==
  LET market     == marketPnl(managed, held, from, to)
      chargeable == Max({0, managed + market})
      fee        == turnoverFee(chargeable, turnoverBps(held, target), feeBps)
  IN  [marketPnl |-> market,
       fee       |-> fee,
       netPnl    |-> market - fee,
       trades    |-> plannedTrades(held, target, to, chargeable)]

-----------------------------------------------------------------------------
(***************************************************************************)
(* What of it the vault can be asked to settle: the delta is cut to the    *)
(* reserve or to the managed assets, and nothing is sent to a vault nobody *)
(* has funded.                                                             *)
(***************************************************************************)
\* Variant: only losses are capped.
clampLoss(netPnl, vault) ==
  IF netPnl < -vault.totalManagedAssets THEN -vault.totalManagedAssets ELSE netPnl

clampPnl(netPnl, vault) ==
  IF netPnl > 0 /\ netPnl > vault.reserve THEN vault.reserve
  ELSE IF netPnl < 0 /\ -netPnl > vault.totalManagedAssets
       THEN -vault.totalManagedAssets
       ELSE netPnl

settlementFor(vault) == vault.totalShares # 0

=============================================================================
