----------------------- MODULE StrategyVaultProperties -----------------------
(***************************************************************************)
(* What the vault promises its investors, over the states and steps of     *)
(* StrategyVault.                                                          *)
(***************************************************************************)
EXTENDS StrategyVault

\* Holdings as a set, one element for each share of each investor: its
\* cardinality is the sum of the holdings.
Units(holdings) == UNION {{i} \X (1 .. holdings[i]) : i \in Investors}

(***************************************************************************)
(* Solvency.  After any sequence of deposits, settlements and withdrawals  *)
(* the vault never owes more USDC than it holds: a gain larger than the    *)
(* reserve must have been refused, whoever deposited or left before it.    *)
(***************************************************************************)
Solvent == totalManagedAssets <= balance

(***************************************************************************)
(* The share supply is exactly what the investors hold: totalShares, which *)
(* prices every claim, is kept apart from sharesOf and must never drift.   *)
(***************************************************************************)
SupplyIsHeld ==
  /\ IsFiniteSet(Units(sharesOf))
  /\ Cardinality(Units(sharesOf)) = totalShares

(***************************************************************************)
(* No value without an owner: once the last share is redeemed nothing is   *)
(* left in managed assets, or the next depositor, minting 1:1 against a    *)
(* zero supply, would redeem it as their own.                              *)
(***************************************************************************)
NoOrphanedAssets == totalShares = 0 => totalManagedAssets = 0

(***************************************************************************)
(* The checked subtractions in withdraw never revert: an investor can      *)
(* always redeem any part of what they hold, in any order of exits.  (A    *)
(* part so large that its product with the managed assets passes the word  *)
(* is redeemed in smaller ones.)                                           *)
(***************************************************************************)
AlwaysRedeemable ==
  \A i \in Investors :
    /\ sharesOf[i] <= totalShares
    /\ \A s \in 1 .. sharesOf[i] :
         convertToAssets(s) <= totalManagedAssets /\ convertToAssets(s) <= balance

(***************************************************************************)
(* Only settlement moves the price down.  A deposit, a withdrawal and a    *)
(* reserve top-up all round against the caller, so the price of a share    *)
(* (totalManagedAssets / totalShares, compared by cross-multiplication)    *)
(* never falls in a step that moves tokens.                                *)
(***************************************************************************)
priceNotLower ==
  totalManagedAssets' * totalShares >= totalManagedAssets * totalShares'

TradingNeverLowersThePrice ==
  [][balance' # balance => priceNotLower]_vars

(***************************************************************************)
(* Nobody earns by trading: in a step that moves tokens no investor's      *)
(* wallet plus claim grows at another's expense: the caller's total never  *)
(* grows, and everyone else's never shrinks.                               *)
(***************************************************************************)
worth(i) == wallet[i] + balanceOfInvestor(i)

zeroSumAgainstTheCaller ==
  \A i \in Investors : IF wallet'[i] # wallet[i]
                       THEN worth(i)' <= worth(i)
                       ELSE worth(i)' >= worth(i)

TradingIsZeroSumAgainstTheCaller ==
  [][balance' # balance => zeroSumAgainstTheCaller]_vars

(***************************************************************************)
(* Outside a wiped-out vault, rounding costs a depositor less than one     *)
(* share: however the reserve was topped up or drained before, a deposit   *)
(* cannot be swallowed by those who came first.                            *)
(***************************************************************************)
costsLessThanAShare ==
  \A i \in Investors :
    (worth(i) - worth(i)' - 1) * totalShares <= totalManagedAssets

DepositCostsLessThanAShare ==
  [][totalManagedAssets # 0 /\ totalShares' > totalShares =>
       costsLessThanAShare]_vars

=============================================================================
