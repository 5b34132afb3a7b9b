---------------------------- MODULE StrategyVault ----------------------------
(***************************************************************************)
(* contracts/src/StrategyVault.sol: one vault per strategy.  Investors     *)
(* deposit USDC for shares, the strategy's operator settles each tick with *)
(* a signed delta, anyone tops the reserve up.  A Solidity call is atomic: *)
(* it reverts (the action is not enabled) or takes effect as one step.     *)
(*                                                                         *)
(* The vault holds tokens but no positions, so the only thing settlement   *)
(* moves is the split of the token balance between what investors are      *)
(* owed (totalManagedAssets) and the buffer (reserve).                     *)
(***************************************************************************)
EXTENDS Integers, FiniteSets
LOCAL INSTANCE FiniteSetsExt

CONSTANTS
  Investors,  \* addresses that deposit and withdraw
  Amounts,    \* the token and share amounts a caller may name
  Deltas,     \* the signed results the operator may report
  Endowment,  \* USDC minted to each address before the vault is used
  MaxUint,    \* the largest word, where checked arithmetic reverts: 2^256 - 1
  Par         \* INITIAL_SHARE_PRICE: the fixed-point unit of navPerShare

ASSUME AmountsAssumption == Amounts \subseteq Nat
ASSUME DeltasAssumption == Deltas \subseteq Int
ASSUME EndowmentAssumption == Endowment \in [Investors -> Nat]
ASSUME ParAssumption == Par \in Nat \ {0}

\* All the USDC that the faucet ever mints, priced at par, fits in a word.
ASSUME MaxUintAssumption ==
  MaxUint \in Nat /\ MapThenSumSet(LAMBDA i : Endowment[i], Investors) * Par <= MaxUint

VARIABLES
  wallet,              \* usdc.balanceOf of each investor
  balance,             \* usdc.balanceOf(address(this))
  totalManagedAssets,
  totalShares,
  sharesOf

vars == <<wallet, balance, totalManagedAssets, totalShares, sharesOf>>

TypeOK ==
  /\ wallet \in [Investors -> Nat]
  /\ balance \in Nat
  /\ totalManagedAssets \in Nat
  /\ totalShares \in Nat
  /\ sharesOf \in [Investors -> Nat]

Init ==
  /\ wallet = Endowment
  /\ balance = 0
  /\ totalManagedAssets = 0
  /\ totalShares = 0
  /\ sharesOf = [i \in Investors |-> 0]

-----------------------------------------------------------------------------
(***************************************************************************)
(* Views.  Every division is Solidity's: it rounds towards zero.  A        *)
(* product with a number of shares may pass the word, and the call that    *)
(* needs it reverts: see deposit and withdraw.                             *)
(***************************************************************************)

reserve == IF balance > totalManagedAssets THEN balance - totalManagedAssets ELSE 0

navPerShare ==
  IF totalShares = 0 THEN Par ELSE (totalManagedAssets * Par) \div totalShares

\* Variants: a mint that rounds up, and one priced after the transfer.
convertToSharesRoundingUp(assets) ==
  IF totalShares = 0 \/ totalManagedAssets = 0
  THEN assets
  ELSE (assets * totalShares + totalManagedAssets - 1) \div totalManagedAssets

convertToSharesAfterTransfer(assets) ==
  IF totalShares = 0 \/ totalManagedAssets = 0
  THEN assets
  ELSE (assets * totalShares) \div (totalManagedAssets + assets)

convertToShares(assets) ==
  IF totalShares = 0 \/ totalManagedAssets = 0
  THEN assets
  ELSE (assets * totalShares) \div totalManagedAssets

\* Variant: a redemption that rounds up.
convertToAssetsRoundingUp(shares) ==
  IF totalShares = 0 THEN 0
  ELSE (shares * totalManagedAssets + totalShares - 1) \div totalShares

convertToAssets(shares) ==
  IF totalShares = 0 THEN 0 ELSE (shares * totalManagedAssets) \div totalShares

\* An investor's claim in USDC.
balanceOfInvestor(i) == convertToAssets(sharesOf[i])

-----------------------------------------------------------------------------
(***************************************************************************)
(* Investor entry points.                                                  *)
(***************************************************************************)

deposit(i, assets) ==
  LET shares == convertToShares(assets) IN
  /\ assets # 0
  /\ shares # 0
  /\ wallet[i] >= assets
  /\ totalManagedAssets # 0 => assets * totalShares <= MaxUint
  /\ totalShares + shares <= MaxUint
  /\ wallet' = [wallet EXCEPT ![i] = @ - assets]
  /\ balance' = balance + assets
  /\ totalManagedAssets' = totalManagedAssets + assets
  /\ totalShares' = totalShares + shares
  /\ sharesOf' = [sharesOf EXCEPT ![i] = @ + shares]

\* Variant: a redemption that forgets to burn the holder's shares.
withdrawUnburned(i, shares) ==
  LET assets == convertToAssets(shares) IN
  /\ shares # 0
  /\ shares <= sharesOf[i] /\ shares * totalManagedAssets <= MaxUint /\ shares <= totalShares
  /\ assets <= totalManagedAssets /\ assets <= balance
  /\ totalShares' = totalShares - shares
  /\ totalManagedAssets' = totalManagedAssets - assets
  /\ balance' = balance - assets
  /\ wallet' = [wallet EXCEPT ![i] = @ + assets]
  /\ UNCHANGED sharesOf

\* The product and the three subtractions are checked arithmetic, and so is the
\* transfer: each reverts rather than pass the word or go below zero.
withdraw(i, shares) ==
  LET assets == convertToAssets(shares) IN
  /\ shares # 0
  /\ shares <= sharesOf[i]
  /\ shares * totalManagedAssets <= MaxUint
  /\ shares <= totalShares
  /\ assets <= totalManagedAssets
  /\ assets <= balance
  /\ sharesOf' = [sharesOf EXCEPT ![i] = @ - shares]
  /\ totalShares' = totalShares - shares
  /\ totalManagedAssets' = totalManagedAssets - assets
  /\ balance' = balance - assets
  /\ wallet' = [wallet EXCEPT ![i] = @ + assets]

\* A plain ERC-20 transfer to the vault has the same effect on the state.
fundReserve(i, amount) ==
  /\ amount # 0
  /\ wallet[i] >= amount
  /\ wallet' = [wallet EXCEPT ![i] = @ - amount]
  /\ balance' = balance + amount
  /\ UNCHANGED <<totalManagedAssets, totalShares, sharesOf>>

(***************************************************************************)
(* The operator's settlement of one tick.  A zero delta only emits.        *)
(***************************************************************************)

\* Variants: a gain that is not held against the reserve, a loss that is not
\* held against the managed assets.
applyGainUncapped(gain) ==
  totalShares # 0 /\ totalManagedAssets' = totalManagedAssets + gain

applyLossUncapped(loss) == totalManagedAssets' = totalManagedAssets - loss

applyGain(gain) ==
  /\ totalShares # 0
  /\ gain <= reserve
  /\ totalManagedAssets' = totalManagedAssets + gain

applyLoss(loss) ==
  /\ loss <= totalManagedAssets
  /\ totalManagedAssets' = totalManagedAssets - loss

applyPnl(delta) ==
  /\ \/ delta > 0 /\ applyGain(delta)
     \/ delta < 0 /\ applyLoss(-delta)
     \/ delta = 0 /\ UNCHANGED totalManagedAssets
  /\ UNCHANGED <<wallet, balance, totalShares, sharesOf>>

Trade == \E i \in Investors, a \in Amounts : deposit(i, a) \/ withdraw(i, a)

Next ==
  \/ Trade
  \/ \E i \in Investors, a \in Amounts : fundReserve(i, a)
  \/ \E d \in Deltas : applyPnl(d)

Spec == Init /\ [][Next]_vars

=============================================================================
