------------------------- MODULE StrategyVaultProofs -------------------------
(***************************************************************************)
(* Proofs that the vault keeps its promises for every set of investors,    *)
(* every endowment and every sequence of calls.                            *)
(***************************************************************************)
EXTENDS StrategyVaultProperties, FiniteSetTheorems, TLAPS

(***************************************************************************)
(* Arithmetic of the share math.                                           *)
(***************************************************************************)

\* Rounding towards zero never gives more than the exact quotient.
LEMMA FloorDivision ==
  ASSUME NEW x \in Nat, NEW m \in Nat, m > 0
  PROVE  /\ x \div m \in Nat
         /\ m * (x \div m) <= x
  OBVIOUS

\* A part of a whole that is not over-claimed is not paid more than the whole.
LEMMA PartOfWhole ==
  ASSUME NEW part \in Nat, NEW whole \in Nat, NEW value \in Nat,
         part <= whole, whole > 0
  PROVE  (part * value) \div whole <= value
  <1>1. part * value <= whole * value
    OBVIOUS
  <1>2. whole * ((part * value) \div whole) <= part * value
    BY FloorDivision
  <1>3. (part * value) \div whole \in Nat
    BY FloorDivision
  <1>4. whole * ((part * value) \div whole) <= whole * value
    BY <1>1, <1>2, <1>3
  <1>5. QED
    BY <1>3, <1>4

\* The shares and assets of a conversion are naturals.
LEMMA ConversionTypes ==
  ASSUME TypeOK, NEW n \in Nat
  PROVE  convertToShares(n) \in Nat /\ convertToAssets(n) \in Nat
  BY FloorDivision DEF TypeOK, convertToShares, convertToAssets

(***************************************************************************)
(* Holdings as a set of units.                                             *)
(***************************************************************************)

\* The units numbered lo to hi of one investor.
LEMMA BlockOfUnits ==
  ASSUME NEW i \in Investors, NEW lo \in Nat, NEW hi \in Nat, lo <= hi + 1
  PROVE  /\ IsFiniteSet({i} \X (lo .. hi))
         /\ Cardinality({i} \X (lo .. hi)) = hi - lo + 1
  <1> DEFINE block == lo .. hi
  <1>1. IsFiniteSet(block) /\ Cardinality(block) = hi - lo + 1
    BY FS_Interval
  <1>2. IsFiniteSet({i}) /\ Cardinality({i}) = 1
    BY FS_Singleton
  <1> HIDE DEF block
  <1>3. /\ IsFiniteSet({i} \X block)
        /\ Cardinality({i} \X block) = Cardinality({i}) * Cardinality(block)
    BY <1>1, <1>2, FS_Product, Zenon
  <1>4. Cardinality({i}) * Cardinality(block) = hi - lo + 1
    BY <1>1, <1>2
  <1>5. QED
    BY <1>3, <1>4 DEF block

\* Crediting n shares to one investor adds exactly n units.
LEMMA UnitsGrow ==
  ASSUME NEW f \in [Investors -> Nat], IsFiniteSet(Units(f)),
         NEW i \in Investors, NEW n \in Nat
  PROVE  LET g == [f EXCEPT ![i] = @ + n]
         IN  /\ IsFiniteSet(Units(g))
             /\ Cardinality(Units(g)) = Cardinality(Units(f)) + n
  <1> DEFINE g == [f EXCEPT ![i] = @ + n]
             minted == {i} \X ((f[i] + 1) .. (f[i] + n))
  <1>1. Units(g) = Units(f) \cup minted
    <2>1. ASSUME NEW u \in Units(g) PROVE u \in Units(f) \cup minted
      <3>1. PICK j \in Investors : u \in {j} \X (1 .. g[j])
        BY DEF Units
      <3>2. CASE j = i
        BY <3>1, <3>2 DEF Units
      <3>3. CASE j # i
        BY <3>1, <3>3 DEF Units
      <3>4. QED BY <3>2, <3>3
    <2>2. ASSUME NEW u \in Units(f) PROVE u \in Units(g)
      <3>1. PICK j \in Investors : u \in {j} \X (1 .. f[j])
        BY DEF Units
      <3>2. u \in {j} \X (1 .. g[j])
        BY <3>1
      <3>3. QED BY <3>2 DEF Units
    <2>3. ASSUME NEW u \in minted PROVE u \in Units(g)
      <3>1. u \in {i} \X (1 .. g[i])
        OBVIOUS
      <3>2. QED BY <3>1 DEF Units
    <2>4. QED BY <2>1, <2>2, <2>3
  <1>2. Units(f) \cap minted = {}
    BY DEF Units
  <1>3. /\ IsFiniteSet(minted)
        /\ Cardinality(minted) = n
    <2>1. f[i] + 1 \in Nat /\ f[i] + n \in Nat /\ f[i] + 1 <= (f[i] + n) + 1
      OBVIOUS
    <2>2. (f[i] + n) - (f[i] + 1) + 1 = n
      OBVIOUS
    <2>3. QED BY <2>1, <2>2, BlockOfUnits
  <1>4. /\ IsFiniteSet(Units(f) \cup minted)
        /\ Cardinality(Units(f) \cup minted) = Cardinality(Units(f)) + n - Cardinality({})
    BY <1>2, <1>3, FS_Union
  <1>5. Cardinality(Units(f)) \in Nat
    BY FS_CardinalityType
  <1>6. Cardinality(Units(f)) + n - Cardinality({}) = Cardinality(Units(f)) + n
    BY <1>5, FS_EmptySet
  <1>7. QED
    BY <1>1, <1>4, <1>6, Zenon

\* Taking n shares an investor holds removes exactly n units.
LEMMA UnitsShrink ==
  ASSUME NEW f \in [Investors -> Nat], IsFiniteSet(Units(f)),
         NEW i \in Investors, NEW n \in Nat, n <= f[i]
  PROVE  LET g == [f EXCEPT ![i] = @ - n]
         IN  /\ IsFiniteSet(Units(g))
             /\ Cardinality(Units(g)) = Cardinality(Units(f)) - n
  <1> DEFINE g == [f EXCEPT ![i] = @ - n]
  <1>1. g \in [Investors -> Nat]
    OBVIOUS
  <1>2. Units(g) \subseteq Units(f)
    <2>1. SUFFICES ASSUME NEW u \in Units(g) PROVE u \in Units(f)
      OBVIOUS
    <2>2. PICK j \in Investors : u \in {j} \X (1 .. g[j])
      BY DEF Units
    <2>3. u \in {j} \X (1 .. f[j])
      BY <2>2
    <2>4. QED BY <2>3 DEF Units
  <1>3. IsFiniteSet(Units(g))
    BY <1>2, FS_Subset
  <1>4. [g EXCEPT ![i] = @ + n] = f
    <2>1. g[i] + n = f[i]
      OBVIOUS
    <2>2. QED BY <2>1
  <1>5. Cardinality(Units(f)) = Cardinality(Units(g)) + n
    BY <1>1, <1>3, <1>4, UnitsGrow
  <1>6. QED
    BY <1>3, <1>5, FS_CardinalityType

\* One investor's holding is part of the whole.
LEMMA HoldingWithinSupply ==
  ASSUME NEW f \in [Investors -> Nat], IsFiniteSet(Units(f)), NEW i \in Investors
  PROVE  f[i] <= Cardinality(Units(f))
  <1> DEFINE own == {i} \X (1 .. f[i])
  <1>1. own \subseteq Units(f)
    BY DEF Units
  <1>2. Cardinality(own) = f[i]
    <2>1. 1 \in Nat /\ f[i] \in Nat /\ 1 <= f[i] + 1 /\ f[i] - 1 + 1 = f[i]
      OBVIOUS
    <2>2. QED BY <2>1, BlockOfUnits
  <1>3. QED
    BY <1>1, <1>2, FS_Subset

(***************************************************************************)
(* The inductive invariant.  Solvency alone is inductive only with the     *)
(* types; that no asset is orphaned needs that a holding is part of the    *)
(* supply, hence the sum.                                                  *)
(***************************************************************************)
Inv ==
  /\ TypeOK
  /\ Solvent
  /\ SupplyIsHeld
  /\ NoOrphanedAssets

\* The constructor's empty vault satisfies the invariant.
LEMMA InitInv == Init => Inv
  <1> SUFFICES ASSUME Init PROVE Inv
    OBVIOUS
  <1>1. TypeOK
    BY EndowmentAssumption DEF Init, TypeOK
  <1>2. Solvent /\ NoOrphanedAssets
    BY DEF Init, Solvent, NoOrphanedAssets
  <1>3. Units(sharesOf) = {}
    BY DEF Init, Units
  <1>4. SupplyIsHeld
    BY <1>3, FS_EmptySet DEF Init, SupplyIsHeld
  <1>5. QED
    BY <1>1, <1>2, <1>4 DEF Inv

\* deposit adds the same assets to both sides, and as many units as shares.
LEMMA DepositInv ==
  ASSUME Inv, NEW i \in Investors, NEW a \in Amounts, deposit(i, a)
  PROVE  Inv'
  <1> USE DEF Inv
  <1> DEFINE s == convertToShares(a)
  <1>0. a \in Nat /\ a > 0
    BY AmountsAssumption DEF deposit
  <1>1. s \in Nat /\ s > 0
    BY <1>0, ConversionTypes DEF deposit
  <1> HIDE DEF s
  <1>2. /\ wallet' = [wallet EXCEPT ![i] = @ - a]
        /\ wallet[i] >= a
        /\ balance' = balance + a
        /\ totalManagedAssets' = totalManagedAssets + a
        /\ totalShares' = totalShares + s
        /\ sharesOf' = [sharesOf EXCEPT ![i] = @ + s]
    BY DEF deposit, s
  <1>3. TypeOK'
    BY <1>0, <1>1, <1>2 DEF TypeOK
  <1>4. Solvent' /\ NoOrphanedAssets'
    BY <1>0, <1>1, <1>2 DEF TypeOK, Solvent, NoOrphanedAssets
  <1>5. SupplyIsHeld'
    <2>1. sharesOf \in [Investors -> Nat] /\ IsFiniteSet(Units(sharesOf))
      BY DEF TypeOK, SupplyIsHeld
    <2>2. /\ IsFiniteSet(Units([sharesOf EXCEPT ![i] = @ + s]))
          /\ Cardinality(Units([sharesOf EXCEPT ![i] = @ + s]))
               = Cardinality(Units(sharesOf)) + s
      BY <1>1, <2>1, UnitsGrow
    <2>3. QED
      BY <1>2, <2>2 DEF SupplyIsHeld, Units
  <1>6. QED
    BY <1>3, <1>4, <1>5

\* withdraw takes the same assets off both sides; the last share takes them all.
LEMMA WithdrawInv ==
  ASSUME Inv, NEW i \in Investors, NEW w \in Amounts, withdraw(i, w)
  PROVE  Inv'
  <1> USE DEF Inv
  <1> DEFINE a == convertToAssets(w)
  <1>0. w \in Nat /\ w > 0
    BY AmountsAssumption DEF withdraw
  <1>1. a \in Nat
    BY <1>0, ConversionTypes
  <1>2. w = totalShares => a = totalManagedAssets
    <2> SUFFICES ASSUME w = totalShares PROVE a = totalManagedAssets
      OBVIOUS
    <2>1. a = (totalShares * totalManagedAssets) \div totalShares
      BY <1>0 DEF convertToAssets
    <2>2. (totalShares * totalManagedAssets) \div totalShares = totalManagedAssets
      BY <1>0 DEF TypeOK
    <2>3. QED
      BY <2>1, <2>2
  <1> HIDE DEF a
  <1>3. /\ wallet' = [wallet EXCEPT ![i] = @ + a]
        /\ w <= sharesOf[i] /\ w <= totalShares
        /\ a <= totalManagedAssets /\ a <= balance
        /\ balance' = balance - a
        /\ totalManagedAssets' = totalManagedAssets - a
        /\ totalShares' = totalShares - w
        /\ sharesOf' = [sharesOf EXCEPT ![i] = @ - w]
    BY DEF withdraw, a
  <1>4. TypeOK'
    BY <1>0, <1>1, <1>3 DEF TypeOK
  <1>5. Solvent'
    BY <1>0, <1>1, <1>3 DEF TypeOK, Solvent
  <1>6. NoOrphanedAssets'
    BY <1>0, <1>1, <1>2, <1>3 DEF TypeOK, NoOrphanedAssets
  <1>7. SupplyIsHeld'
    <2>1. sharesOf \in [Investors -> Nat] /\ IsFiniteSet(Units(sharesOf))
      BY DEF TypeOK, SupplyIsHeld
    <2>2. /\ IsFiniteSet(Units([sharesOf EXCEPT ![i] = @ - w]))
          /\ Cardinality(Units([sharesOf EXCEPT ![i] = @ - w]))
               = Cardinality(Units(sharesOf)) - w
      BY <1>0, <1>3, <2>1, UnitsShrink
    <2>3. QED
      BY <1>3, <2>2 DEF SupplyIsHeld, Units
  <1>8. QED
    BY <1>4, <1>5, <1>6, <1>7

\* fundReserve only widens what the vault holds over what it owes.
LEMMA FundReserveInv ==
  ASSUME Inv, NEW i \in Investors, NEW a \in Amounts, fundReserve(i, a)
  PROVE  Inv'
  <1>1. TypeOK' /\ Solvent' /\ NoOrphanedAssets'
    BY AmountsAssumption
    DEF Inv, fundReserve, TypeOK, Solvent, NoOrphanedAssets
  <1>2. SupplyIsHeld'
    BY DEF Inv, fundReserve, SupplyIsHeld, Units
  <1>3. QED
    BY <1>1, <1>2 DEF Inv

\* applyPnl credits at most the reserve, and nothing to an empty vault.
LEMMA ApplyPnlInv ==
  ASSUME Inv, NEW d \in Deltas, applyPnl(d)
  PROVE  Inv'
  <1>0. d \in Int
    BY DeltasAssumption
  <1>1. TypeOK' /\ Solvent' /\ NoOrphanedAssets'
    BY <1>0
    DEF Inv, applyPnl, applyGain, applyLoss, reserve,
        TypeOK, Solvent, NoOrphanedAssets
  <1>2. SupplyIsHeld'
    BY DEF Inv, applyPnl, SupplyIsHeld, Units
  <1>3. QED
    BY <1>1, <1>2 DEF Inv

\* Every entry point of StrategyVault.sol preserves the invariant.
LEMMA NextInv == Inv /\ [Next]_vars => Inv'
  <1> SUFFICES ASSUME Inv, [Next]_vars PROVE Inv'
    OBVIOUS
  <1>1. CASE Trade
    BY <1>1, DepositInv, WithdrawInv DEF Trade
  <1>2. CASE \E i \in Investors, a \in Amounts : fundReserve(i, a)
    BY <1>2, FundReserveInv
  <1>3. CASE \E d \in Deltas : applyPnl(d)
    BY <1>3, ApplyPnlInv
  <1>4. CASE UNCHANGED vars
    BY <1>4 DEF vars, Inv, TypeOK, Solvent, SupplyIsHeld, NoOrphanedAssets, Units
  <1>5. QED
    BY <1>1, <1>2, <1>3, <1>4 DEF Next

\* The invariant holds in every reachable state of the vault.
LEMMA Invariance == Spec => []Inv
  BY InitInv, NextInv, PTL DEF Spec

\* A deposit, a withdrawal or a top-up does not lower the price of a share.
LEMMA TradingKeepsThePrice ==
  ASSUME Inv, [Next]_vars, balance' # balance
  PROVE  priceNotLower
  <1>1. ASSUME NEW i \in Investors, NEW a \in Amounts, deposit(i, a)
        PROVE  priceNotLower
    <2> DEFINE s == convertToShares(a)
    <2>0. a \in Nat /\ s \in Nat
      BY AmountsAssumption, ConversionTypes DEF Inv
    <2>1. totalManagedAssets * s <= a * totalShares
      BY <2>0, FloorDivision
      DEF Inv, TypeOK, NoOrphanedAssets, convertToShares
    <2>2. /\ totalManagedAssets' = totalManagedAssets + a
          /\ totalShares' = totalShares + s
      BY <1>1 DEF deposit
    <2> HIDE DEF s
    <2>3. QED
      BY <2>0, <2>1, <2>2 DEF Inv, TypeOK, priceNotLower
  <1>2. ASSUME NEW i \in Investors, NEW w \in Amounts, withdraw(i, w)
        PROVE  priceNotLower
    <2> DEFINE a == convertToAssets(w)
    <2>0. w \in Nat /\ a \in Nat
      BY AmountsAssumption, ConversionTypes DEF Inv
    <2>1. totalShares * a <= w * totalManagedAssets
      BY <2>0, FloorDivision DEF Inv, TypeOK, convertToAssets
    <2>2. /\ totalManagedAssets' = totalManagedAssets - a
          /\ totalShares' = totalShares - w
          /\ w <= totalShares /\ a <= totalManagedAssets
      BY <1>2 DEF withdraw
    <2> HIDE DEF a
    <2>3. QED
      BY <2>0, <2>1, <2>2 DEF Inv, TypeOK, priceNotLower
  <1>3. ASSUME NEW i \in Investors, NEW a \in Amounts, fundReserve(i, a)
        PROVE  priceNotLower
    BY <1>3 DEF Inv, TypeOK, fundReserve, priceNotLower
  <1>4. ASSUME NEW d \in Deltas, applyPnl(d) PROVE priceNotLower
    BY <1>4 DEF applyPnl
  <1>5. QED
    BY <1>1, <1>2, <1>3, <1>4 DEF Next, Trade, vars

-----------------------------------------------------------------------------
(***************************************************************************)
(* StrategyVault.sol keeps its state well typed: no checked subtraction is *)
(* ever taken below zero.                                                  *)
(***************************************************************************)
THEOREM TypeCorrect == Spec => []TypeOK
  BY Invariance, PTL DEF Inv

(***************************************************************************)
(* applyPnl, deposit and withdraw together never let the vault owe more    *)
(* USDC than it holds.                                                     *)
(***************************************************************************)
THEOREM SolvencyHolds == Spec => []Solvent
  BY Invariance, PTL DEF Inv

(***************************************************************************)
(* totalShares is the sum of sharesOf: nothing but deposit mints and       *)
(* nothing but withdraw burns, each by the same amount on both sides.      *)
(***************************************************************************)
THEOREM SupplyIsAlwaysHeld == Spec => []SupplyIsHeld
  BY Invariance, PTL DEF Inv

(***************************************************************************)
(* The last redemption leaves nothing in managed assets, and applyPnl      *)
(* credits no gain to an empty vault.                                      *)
(***************************************************************************)
THEOREM NothingIsOrphaned == Spec => []NoOrphanedAssets
  BY Invariance, PTL DEF Inv

(***************************************************************************)
(* withdraw never reverts on a checked subtraction: every investor can     *)
(* redeem any part of their holding.                                       *)
(***************************************************************************)
THEOREM EveryShareIsRedeemable == Spec => []AlwaysRedeemable
  <1>1. Inv => AlwaysRedeemable
    <2> SUFFICES ASSUME Inv, NEW i \in Investors
                 PROVE  /\ sharesOf[i] <= totalShares
                        /\ \A s \in 1 .. sharesOf[i] :
                             /\ convertToAssets(s) <= totalManagedAssets
                             /\ convertToAssets(s) <= balance
      BY DEF AlwaysRedeemable
    <2>1. sharesOf[i] <= totalShares
      BY HoldingWithinSupply DEF Inv, TypeOK, SupplyIsHeld
    <2>2. ASSUME NEW s \in 1 .. sharesOf[i]
          PROVE  convertToAssets(s) <= totalManagedAssets
      <3>1. s \in Nat /\ s <= totalShares /\ totalShares > 0
        BY <2>1 DEF Inv, TypeOK
      <3>2. QED
        BY <3>1, PartOfWhole DEF Inv, TypeOK, convertToAssets
    <2>3. ASSUME NEW s \in 1 .. sharesOf[i]
          PROVE  convertToAssets(s) <= balance
      BY <2>2, ConversionTypes DEF Inv, TypeOK, Solvent
    <2>4. QED
      BY <2>1, <2>2, <2>3
  <1>2. QED
    BY <1>1, Invariance, PTL

(***************************************************************************)
(* deposit, withdraw and fundReserve round against the caller: no step     *)
(* that moves tokens lowers the price of a share.                          *)
(***************************************************************************)
THEOREM PriceNeverFallsByTrading == Spec => TradingNeverLowersThePrice
  BY TradingKeepsThePrice, Invariance, PTL DEF Spec, TradingNeverLowersThePrice

-----------------------------------------------------------------------------
(***************************************************************************)
(* What trading does to everyone's worth (wallet plus claim): the          *)
(* arithmetic of share prices first, then each entry point.                *)
(***************************************************************************)

(***************************************************************************)
(* Products and quotients of integers.                                     *)
(***************************************************************************)

\* Multiplying by a natural keeps the order.
LEMMA ProductOrder ==
  ASSUME NEW x \in Int, NEW y \in Int, NEW m \in Nat, x <= y
  PROVE  x * m <= y * m
  OBVIOUS

\* Dividing by a positive number keeps the order.
LEMMA CancelFactor ==
  ASSUME NEW x \in Int, NEW y \in Int, NEW m \in Nat, m > 0, x * m <= y * m
  PROVE  x <= y
  <1>1. SUFFICES ASSUME x >= y + 1 PROVE FALSE
    OBVIOUS
  <1>2. (y + 1) * m <= x * m
    BY <1>1, ProductOrder
  <1>3. (y + 1) * m = y * m + m
    OBVIOUS
  <1>4. QED
    BY <1>2, <1>3

\* The rounded quotient is the greatest number not above the exact one.
LEMMA FloorIsGreatest ==
  ASSUME NEW x \in Nat, NEW m \in Nat, NEW k \in Int, m > 0, k * m <= x
  PROVE  k <= x \div m
  <1> DEFINE q == x \div m
  <1>1. q \in Nat /\ x < (q + 1) * m
    OBVIOUS
  <1> HIDE DEF q
  <1>2. SUFFICES ASSUME k >= q + 1 PROVE FALSE
    BY <1>1 DEF q
  <1>3. (q + 1) * m <= k * m
    BY <1>1, <1>2, ProductOrder
  <1>4. QED
    BY <1>1, <1>3

\* Rounding loses less than one.
LEMMA FloorLosesLessThanOne ==
  ASSUME NEW x \in Nat, NEW m \in Nat, m > 0
  PROVE  x < (x \div m) * m + m
  OBVIOUS

(***************************************************************************)
(* Claims.  h shares out of t are worth (h * m) \div t.                    *)
(***************************************************************************)

\* If the price does not fall, no claim does.
LEMMA ClaimFollowsPrice ==
  ASSUME NEW h \in Nat, NEW m \in Nat, NEW t \in Nat, NEW n \in Nat, NEW u \in Nat,
         t > 0, u > 0, m * u <= n * t
  PROVE  (h * m) \div t <= (h * n) \div u
  <1> DEFINE k == (h * m) \div t
  <1>0. h * m \in Nat /\ h * n \in Nat
    OBVIOUS
  <1>1. k \in Nat /\ k * t <= h * m
    BY <1>0, FloorDivision
  <1> HIDE DEF k
  <1>2. (k * t) * u <= (h * m) * u
    BY <1>0, <1>1, ProductOrder
  <1>3. (m * u) * h <= (n * t) * h
    BY ProductOrder
  <1>4. (k * u) * t <= (h * n) * t
    BY <1>1, <1>2, <1>3
  <1>5. k * u <= h * n
    BY <1>0, <1>1, <1>4, CancelFactor
  <1>6. QED
    BY <1>0, <1>1, <1>5, FloorIsGreatest DEF k

\* Redeeming w of h shares pays no more than the claim falls.
LEMMA RedemptionRoundsDown ==
  ASSUME NEW h \in Nat, NEW w \in Nat, NEW m \in Nat, NEW t \in Nat, NEW a \in Nat,
         w <= h, h <= t, w < t, a <= m, a * t <= w * m
  PROVE  a + ((h - w) * (m - a)) \div (t - w) <= (h * m) \div t
  <1> DEFINE left == t - w
             q    == ((h - w) * (m - a)) \div left
  <1>0. /\ h - w \in Nat /\ m - a \in Nat /\ left \in Nat /\ left > 0
        /\ t - h \in Nat /\ h * m \in Nat /\ (h - w) * (m - a) \in Nat
    OBVIOUS
  <1>1. q \in Nat /\ q * left <= (h - w) * (m - a)
    BY <1>0, FloorDivision
  <1> HIDE DEF q
  <1>2. (q * left) * t <= ((h - w) * (m - a)) * t
    BY <1>0, <1>1, ProductOrder
  <1>3. (a * t) * (t - h) <= (w * m) * (t - h)
    BY <1>0, ProductOrder
  <1>4. ((a + q) * t) * left <= (h * m) * left
    BY <1>0, <1>1, <1>2, <1>3
  <1>5. (a + q) * t <= h * m
    BY <1>0, <1>1, <1>4, CancelFactor
  <1>6. QED
    BY <1>0, <1>1, <1>5, FloorIsGreatest DEF q

\* What a deposit of a assets for s rounded-down shares is short of exact.
LEMMA DepositGap ==
  ASSUME NEW h \in Nat, NEW s \in Nat, NEW m \in Nat, NEW t \in Nat, NEW a \in Nat
  PROVE  (h * m + a * t) * (t + s) - ((h + s) * (m + a)) * t
           = (t - h) * (a * t - s * m)
  OBVIOUS

\* A deposit for rounded-down shares is claimed back at no more than it paid.
LEMMA DepositRoundsDown ==
  ASSUME NEW h \in Nat, NEW s \in Nat, NEW m \in Nat, NEW t \in Nat, NEW a \in Nat,
         h <= t, t > 0, s * m <= a * t
  PROVE  ((h + s) * (m + a)) \div (t + s) <= a + (h * m) \div t
  <1> DEFINE q == ((h + s) * (m + a)) \div (t + s)
  <1>0. /\ t - h \in Nat /\ t + s \in Nat /\ t + s > 0
        /\ h * m \in Nat /\ a * t \in Nat /\ s * m \in Nat
        /\ (h + s) * (m + a) \in Nat
    OBVIOUS
  <1>1. q \in Nat /\ q * (t + s) <= (h + s) * (m + a)
    BY <1>0, FloorDivision
  <1> HIDE DEF q
  <1>2. (q * (t + s)) * t <= ((h + s) * (m + a)) * t
    BY <1>0, <1>1, ProductOrder
  <1>3. (t - h) * (a * t - s * m) >= 0
    BY <1>0
  <1>4. (q * t) * (t + s) <= (h * m + a * t) * (t + s)
    <2>1. ((h + s) * (m + a)) * t <= (h * m + a * t) * (t + s)
      BY <1>0, <1>3, DepositGap
    <2>2. (q * (t + s)) * t = (q * t) * (t + s)
      BY <1>1
    <2>3. QED
      BY <1>0, <1>1, <1>2, <2>1, <2>2
  <1>5. q * t <= h * m + a * t
    BY <1>0, <1>1, <1>4, CancelFactor
  <1>6. (q - a) * t <= h * m
    BY <1>0, <1>1, <1>5
  <1>7. q - a <= (h * m) \div t
    BY <1>0, <1>1, <1>6, FloorIsGreatest
  <1>8. QED
    BY <1>0, <1>1, <1>7, FloorDivision DEF q

\* What rounding takes from a deposit is worth less than one share.
LEMMA DepositLoss ==
  ASSUME NEW h \in Nat, NEW s \in Nat, NEW m \in Nat, NEW t \in Nat, NEW a \in Nat,
         h <= t, t > 0, m > 0, s * m <= a * t, a * t <= s * m + m
  PROVE  (a + (h * m) \div t - ((h + s) * (m + a)) \div (t + s) - 1) * t <= m
  <1> DEFINE k == (h * m) \div t
             q == ((h + s) * (m + a)) \div (t + s)
  <1>0. /\ t - h \in Nat /\ t + s \in Nat /\ t + s > 0
        /\ h * m \in Nat /\ a * t \in Nat /\ s * m \in Nat
        /\ (h + s) * (m + a) \in Nat
    OBVIOUS
  <1>1. k \in Nat /\ k * t <= h * m
    BY <1>0, FloorDivision
  <1>2. q \in Nat /\ (h + s) * (m + a) <= (q + 1) * (t + s)
    BY <1>0, FloorDivision, FloorLosesLessThanOne
  <1> HIDE DEF k, q
  <1> DEFINE paid == (a + k) * t
             kept == (q + 1) * t
  <1>3. paid \in Int /\ kept \in Int /\ paid <= h * m + a * t
    BY <1>0, <1>1, <1>2
  <1>4. paid * (t + s) <= (h * m + a * t) * (t + s)
    BY <1>0, <1>3, ProductOrder
  <1>5. ((h + s) * (m + a)) * t <= kept * (t + s)
    <2>1. ((h + s) * (m + a)) * t <= ((q + 1) * (t + s)) * t
      BY <1>0, <1>2, ProductOrder
    <2>2. ((q + 1) * (t + s)) * t = kept * (t + s)
      BY <1>2
    <2>3. QED
      BY <2>1, <2>2
  <1>6. (t - h) * (a * t - s * m) <= m * (t + s)
    <2>1. (t - h) * (a * t - s * m) <= (t - h) * m
      BY <1>0
    <2>2. (t - h) * m <= (t + s) * m
      BY ProductOrder
    <2>3. QED
      BY <1>0, <2>1, <2>2
  <1>7. (paid - kept) * (t + s) <= m * (t + s)
    <2> HIDE DEF paid, kept
    <2> DEFINE x == (h * m + a * t) * (t + s)
               y == ((h + s) * (m + a)) * t
    <2>1. x \in Int /\ y \in Int /\ x - y <= m * (t + s)
      BY <1>0, <1>6, DepositGap
    <2>2. paid * (t + s) <= x /\ y <= kept * (t + s)
      BY <1>4, <1>5
    <2> HIDE DEF x, y
    <2>3. paid * (t + s) \in Int /\ kept * (t + s) \in Int /\ m * (t + s) \in Int
      BY <1>3
    <2>4. paid * (t + s) - kept * (t + s) <= m * (t + s)
      BY <2>1, <2>2, <2>3
    <2>5. (paid - kept) * (t + s) = paid * (t + s) - kept * (t + s)
      BY <1>3
    <2>6. QED
      BY <2>4, <2>5
  <1>8. paid - kept <= m
    BY <1>0, <1>3, <1>7, CancelFactor
  <1>9. (a + k - q - 1) * t = paid - kept
    BY <1>1, <1>2
  <1>10. QED
    BY <1>8, <1>9 DEF k, q

(***************************************************************************)
(* The entry points.                                                       *)
(***************************************************************************)

\* Whoever is not trading is worth no less once the price has not fallen.
LEMMA OthersLoseNothing ==
  ASSUME Inv, Inv', priceNotLower, NEW j \in Investors,
         wallet'[j] = wallet[j], sharesOf'[j] = sharesOf[j]
  PROVE  worth(j)' >= worth(j)
  <1> USE DEF Inv, TypeOK
  <1>1. sharesOf[j] <= totalShares /\ sharesOf'[j] <= totalShares'
    BY HoldingWithinSupply DEF SupplyIsHeld, Units
  <1>2. balanceOfInvestor(j) \in Nat /\ balanceOfInvestor(j)' \in Nat
    BY FloorDivision DEF balanceOfInvestor, convertToAssets
  <1>3. balanceOfInvestor(j) <= balanceOfInvestor(j)'
    <2>1. CASE sharesOf[j] = 0
      BY <1>2, <2>1 DEF balanceOfInvestor, convertToAssets
    <2>2. CASE sharesOf[j] # 0
      <3>1. totalShares > 0 /\ totalShares' > 0
        BY <1>1, <2>2
      <3>2. (sharesOf[j] * totalManagedAssets) \div totalShares
              <= (sharesOf[j] * totalManagedAssets') \div totalShares'
        BY <3>1, ClaimFollowsPrice DEF priceNotLower
      <3>3. QED
        BY <3>1, <3>2 DEF balanceOfInvestor, convertToAssets
    <2>3. QED
      BY <2>1, <2>2
  <1>4. QED
    BY <1>2, <1>3 DEF worth

\* deposit: the caller's wallet and claim before and after, in numbers.
LEMMA DepositInNumbers ==
  ASSUME Inv, NEW i \in Investors, NEW a \in Amounts, deposit(i, a)
  PROVE  LET s == convertToShares(a)
             h == sharesOf[i]
         IN  /\ a \in Nat /\ a > 0 /\ s \in Nat /\ s > 0
             /\ h \in Nat /\ h <= totalShares
             /\ wallet'[i] = wallet[i] - a
             /\ balanceOfInvestor(i)'
                  = ((h + s) * (totalManagedAssets + a)) \div (totalShares + s)
  <1> USE DEF Inv, TypeOK
  <1>1. a \in Nat /\ a > 0
    BY AmountsAssumption DEF deposit
  <1>2. convertToShares(a) \in Nat /\ convertToShares(a) > 0
    BY <1>1, ConversionTypes DEF deposit
  <1>3. sharesOf[i] \in Nat /\ sharesOf[i] <= totalShares
    BY HoldingWithinSupply DEF SupplyIsHeld
  <1>4. wallet'[i] = wallet[i] - a
    BY DEF deposit
  <1> DEFINE s == convertToShares(a)
  <1>5. /\ sharesOf'[i] = sharesOf[i] + s
        /\ totalManagedAssets' = totalManagedAssets + a
        /\ totalShares' = totalShares + s
    BY DEF deposit
  <1>6. s \in Nat /\ s > 0
    BY <1>2
  <1> HIDE DEF s
  <1>7. balanceOfInvestor(i)'
          = ((sharesOf[i] + s) * (totalManagedAssets + a)) \div (totalShares + s)
    BY <1>3, <1>5, <1>6 DEF balanceOfInvestor, convertToAssets
  <1>8. QED
    BY <1>1, <1>2, <1>3, <1>4, <1>7 DEF s

\* deposit rounds against its caller.
LEMMA DepositorGainsNothing ==
  ASSUME Inv, NEW i \in Investors, NEW a \in Amounts, deposit(i, a)
  PROVE  worth(i)' <= worth(i)
  <1> USE DEF Inv, TypeOK
  <1> DEFINE s == convertToShares(a)
             h == sharesOf[i]
             m == totalManagedAssets
             t == totalShares
             q == ((h + s) * (m + a)) \div (t + s)
  <1>1. /\ a \in Nat /\ a > 0 /\ s \in Nat /\ s > 0 /\ h \in Nat /\ h <= t
        /\ wallet'[i] = wallet[i] - a
        /\ balanceOfInvestor(i)' = q
    BY DepositInNumbers
  <1>2. m \in Nat /\ t \in Nat /\ wallet[i] \in Nat
    OBVIOUS
  <1>3. t = 0 \/ m = 0 => s = a
    BY DEF convertToShares
  <1>4. t > 0 /\ m > 0 => s * m <= a * t
    BY <1>1, <1>2, FloorDivision DEF convertToShares
  <1>5. t = 0 => m = 0 /\ h = 0
    BY <1>1 DEF NoOrphanedAssets
  <1>6. t > 0 => balanceOfInvestor(i) = (h * m) \div t
    BY DEF balanceOfInvestor, convertToAssets
  <1>7. t = 0 => balanceOfInvestor(i) = 0
    BY DEF balanceOfInvestor, convertToAssets
  <1> HIDE DEF s, h, m, t
  <1>8. q \in Nat
    BY <1>1, <1>2, FloorDivision
  <1>9. q <= a + balanceOfInvestor(i)
    <2>1. CASE t = 0
      <3>1. q = ((0 + a) * (0 + a)) \div (0 + a)
        BY <1>3, <1>5, <2>1
      <3>2. (a * a) \div a = a
        BY <1>1
      <3>3. QED
        BY <1>1, <1>7, <2>1, <3>1, <3>2
    <2>2. CASE t > 0
      <3>1. s * m <= a * t
        <4>1. m = 0 => s * m <= a * t
          BY <1>1, <1>2
        <4>2. QED
          BY <1>2, <1>4, <2>2, <4>1
      <3>2. q <= a + (h * m) \div t
        BY <1>1, <1>2, <2>2, <3>1, DepositRoundsDown
      <3>3. QED
        BY <1>6, <2>2, <3>2
    <2>3. QED
      BY <1>2, <2>1, <2>2
  <1>10. balanceOfInvestor(i) \in Nat
    <2>1. h * m \in Nat
      BY <1>1, <1>2
    <2>2. QED
      BY <1>2, <1>6, <1>7, <2>1, FloorDivision
  <1> HIDE DEF q
  <1>11. QED
    BY <1>1, <1>2, <1>8, <1>9, <1>10 DEF worth

\* withdraw rounds against its caller.
LEMMA RedeemerGainsNothing ==
  ASSUME Inv, NEW i \in Investors, NEW w \in Amounts, withdraw(i, w)
  PROVE  worth(i)' <= worth(i)
  <1> USE DEF Inv, TypeOK
  <1> DEFINE a == convertToAssets(w)
             h == sharesOf[i]
             m == totalManagedAssets
             t == totalShares
  <1>1. w \in Nat /\ w > 0 /\ a \in Nat
    BY AmountsAssumption, ConversionTypes DEF withdraw
  <1>2. m \in Nat /\ t \in Nat /\ h \in Nat /\ wallet[i] \in Nat
    OBVIOUS
  <1>3. w <= h /\ h <= t /\ w <= t /\ a <= m
    BY HoldingWithinSupply DEF SupplyIsHeld, withdraw
  <1>4. a * t <= w * m
    BY <1>1, <1>2, <1>3, FloorDivision DEF convertToAssets
  <1>5. /\ wallet'[i] = wallet[i] + a
        /\ sharesOf'[i] = h - w
        /\ totalManagedAssets' = m - a
        /\ totalShares' = t - w
    BY <1>1 DEF withdraw
  <1>6. balanceOfInvestor(i) = (h * m) \div t
    BY <1>1, <1>2, <1>3 DEF balanceOfInvestor, convertToAssets
  <1>7. w = t => a = m
    <2> SUFFICES ASSUME w = t PROVE a = m
      OBVIOUS
    <2>1. a = (t * m) \div t
      BY <1>1 DEF convertToAssets
    <2>2. (t * m) \div t = m
      BY <1>1, <1>2
    <2>3. QED
      BY <2>1, <2>2
  <1> HIDE DEF a, h, m, t
  <1>8. a + balanceOfInvestor(i)' <= balanceOfInvestor(i)
    <2>1. CASE w = t
      <3>1. balanceOfInvestor(i)' = 0
        BY <1>2, <1>5, <2>1 DEF balanceOfInvestor, convertToAssets
      <3>2. (h * m) \div t = a
        <4>1. h = t /\ t > 0
          BY <1>1, <1>2, <1>3, <2>1
        <4>2. (t * m) \div t = m
          BY <1>2, <4>1
        <4>3. QED
          BY <1>7, <2>1, <4>1, <4>2
      <3>3. QED
        BY <1>1, <1>6, <3>1, <3>2
    <2>2. CASE w < t
      <3>1. balanceOfInvestor(i)' = ((h - w) * (m - a)) \div (t - w)
        BY <1>1, <1>2, <1>5, <2>2 DEF balanceOfInvestor, convertToAssets
      <3>2. a + ((h - w) * (m - a)) \div (t - w) <= (h * m) \div t
        BY <1>1, <1>2, <1>3, <1>4, <2>2, RedemptionRoundsDown
      <3>3. QED
        BY <1>6, <3>1, <3>2
    <2>3. QED
      BY <1>1, <1>2, <1>3, <2>1, <2>2
  <1>9. balanceOfInvestor(i) \in Nat /\ balanceOfInvestor(i)' \in Int
    <2>1. h * m \in Nat /\ t > 0
      BY <1>1, <1>2, <1>3
    <2>2. balanceOfInvestor(i) \in Nat
      BY <1>2, <1>6, <2>1, FloorDivision
    <2>3. totalManagedAssets' \in Nat /\ totalShares' \in Nat /\ sharesOf'[i] \in Nat
      BY <1>1, <1>2, <1>3, <1>5
    <2>4. balanceOfInvestor(i)' \in Int
      BY <2>3, FloorDivision DEF balanceOfInvestor, convertToAssets
    <2>5. QED
      BY <2>2, <2>4
  <1>10. QED
    BY <1>1, <1>2, <1>5, <1>8, <1>9 DEF worth

-----------------------------------------------------------------------------
(***************************************************************************)
(* deposit, withdraw and fundReserve never enrich their caller and never   *)
(* cost anyone else: whatever the roundings of the two conversions, no     *)
(* sequence of trades between two settlements is profitable.               *)
(***************************************************************************)
THEOREM TradingIsZeroSum == Spec => TradingIsZeroSumAgainstTheCaller
  <1>1. ASSUME Inv, [Next]_vars, balance' # balance, NEW j \in Investors
        PROVE  IF wallet'[j] # wallet[j]
               THEN worth(j)' <= worth(j)
               ELSE worth(j)' >= worth(j)
    <2> USE DEF Inv, TypeOK
    <2>0. Inv' /\ priceNotLower
      BY <1>1, NextInv, TradingKeepsThePrice
    <2>1. ASSUME NEW i \in Investors, NEW a \in Amounts, deposit(i, a)
          PROVE  IF wallet'[j] # wallet[j]
                 THEN worth(j)' <= worth(j)
                 ELSE worth(j)' >= worth(j)
      <3>1. CASE j = i
        BY <1>1, <2>1, <3>1, DepositInNumbers, DepositorGainsNothing
      <3>2. CASE j # i
        <4>1. wallet'[j] = wallet[j] /\ sharesOf'[j] = sharesOf[j]
          BY <1>1, <2>1, <3>2 DEF deposit
        <4>2. QED
          BY <1>1, <2>0, <4>1, OthersLoseNothing
      <3>3. QED
        BY <3>1, <3>2
    <2>2. ASSUME NEW i \in Investors, NEW w \in Amounts, withdraw(i, w)
          PROVE  IF wallet'[j] # wallet[j]
                 THEN worth(j)' <= worth(j)
                 ELSE worth(j)' >= worth(j)
      <3>1. CASE j = i
        <4>1. wallet'[j] # wallet[j]
          <5>1. w \in Nat /\ convertToAssets(w) \in Nat
            BY <1>1, AmountsAssumption, ConversionTypes
          <5>2. /\ balance' = balance - convertToAssets(w)
                /\ wallet'[j] = wallet[j] + convertToAssets(w)
            BY <1>1, <2>2, <3>1 DEF withdraw
          <5>3. QED
            BY <1>1, <5>1, <5>2
        <4>2. worth(i)' <= worth(i)
          BY <1>1, <2>2, RedeemerGainsNothing
        <4>3. QED
          BY <3>1, <4>1, <4>2
      <3>2. CASE j # i
        <4>1. wallet'[j] = wallet[j] /\ sharesOf'[j] = sharesOf[j]
          BY <1>1, <2>2, <3>2 DEF withdraw
        <4>2. QED
          BY <1>1, <2>0, <4>1, OthersLoseNothing
      <3>3. QED
        BY <3>1, <3>2
    <2>3. ASSUME NEW i \in Investors, NEW a \in Amounts, fundReserve(i, a)
          PROVE  IF wallet'[j] # wallet[j]
                 THEN worth(j)' <= worth(j)
                 ELSE worth(j)' >= worth(j)
      <3>0. a \in Nat /\ a > 0
        BY <2>3, AmountsAssumption DEF fundReserve
      <3>1. CASE j = i
        <4>1. balanceOfInvestor(j) \in Int
          BY <1>1, FloorDivision DEF balanceOfInvestor, convertToAssets
        <4>2. balanceOfInvestor(j)' = balanceOfInvestor(j)
          BY <2>3 DEF fundReserve, balanceOfInvestor, convertToAssets
        <4>3. wallet'[j] = wallet[j] - a
          BY <1>1, <2>3, <3>1 DEF fundReserve
        <4>4. QED
          BY <1>1, <3>0, <4>1, <4>2, <4>3 DEF worth
      <3>2. CASE j # i
        <4>1. wallet'[j] = wallet[j] /\ sharesOf'[j] = sharesOf[j]
          BY <1>1, <2>3, <3>2 DEF fundReserve
        <4>2. QED
          BY <1>1, <2>0, <4>1, OthersLoseNothing
      <3>3. QED
        BY <3>1, <3>2
    <2>4. ASSUME NEW d \in Deltas, applyPnl(d) PROVE FALSE
      BY <1>1, <2>4 DEF applyPnl
    <2>5. QED
      BY <1>1, <2>1, <2>2, <2>3, <2>4 DEF Next, Trade, vars
  <1>2. ASSUME Inv, [Next]_vars, balance' # balance
        PROVE  zeroSumAgainstTheCaller
    BY <1>1, <1>2 DEF zeroSumAgainstTheCaller
  <1>3. QED
    BY <1>2, Invariance, PTL DEF Spec, TradingIsZeroSumAgainstTheCaller

(***************************************************************************)
(* Outside a wiped-out vault deposit's rounding costs its caller less than *)
(* one share, whatever was donated to the reserve or settled before it.    *)
(***************************************************************************)
THEOREM DepositsCostLessThanAShare == Spec => DepositCostsLessThanAShare
  <1>1. ASSUME Inv, [Next]_vars, totalManagedAssets # 0, totalShares' > totalShares,
               NEW j \in Investors
        PROVE  (worth(j) - worth(j)' - 1) * totalShares <= totalManagedAssets
    <2> USE DEF Inv, TypeOK
    <2>1. ASSUME NEW i \in Investors, NEW a \in Amounts, deposit(i, a)
          PROVE  (worth(j) - worth(j)' - 1) * totalShares <= totalManagedAssets
      <3> DEFINE s == convertToShares(a)
                 h == sharesOf[i]
                 m == totalManagedAssets
                 t == totalShares
                 k == (h * m) \div t
                 q == ((h + s) * (m + a)) \div (t + s)
      <3>1. /\ a \in Nat /\ a > 0 /\ s \in Nat /\ s > 0 /\ h \in Nat /\ h <= t
            /\ wallet'[i] = wallet[i] - a
            /\ balanceOfInvestor(i)' = q
        BY <1>1, <2>1, DepositInNumbers
      <3>2. m \in Nat /\ t \in Nat /\ m > 0 /\ t > 0
        BY <1>1 DEF NoOrphanedAssets
      <3>3. CASE j = i
        <4>1. s * m <= a * t /\ a * t <= s * m + m
          BY <3>1, <3>2, FloorDivision, FloorLosesLessThanOne DEF convertToShares
        <4>2. balanceOfInvestor(i) = k
          BY <3>2 DEF balanceOfInvestor, convertToAssets
        <4> HIDE DEF s, h, m, t
        <4>3. (a + k - q - 1) * t <= m
          BY <3>1, <3>2, <4>1, DepositLoss
        <4>4. k \in Int /\ q \in Int
          BY <3>1, <3>2
        <4> HIDE DEF k, q
        <4>5. worth(j) - worth(j)' - 1 = a + k - q - 1
          BY <1>1, <3>1, <3>3, <4>2, <4>4 DEF worth
        <4>6. QED
          BY <4>3, <4>5 DEF m, t
      <3>4. CASE j # i
        <4>1. wallet'[j] = wallet[j] /\ sharesOf'[j] = sharesOf[j]
          BY <1>1, <2>1, <3>4 DEF deposit
        <4>2. balance' # balance
          BY <1>1, <2>1, <3>1 DEF deposit
        <4>3. worth(j)' >= worth(j)
          BY <1>1, <4>1, <4>2, NextInv, TradingKeepsThePrice, OthersLoseNothing
        <4>4. worth(j) \in Int /\ worth(j)' \in Int
          <5>1. Inv'
            BY <1>1, NextInv
          <5>2. balanceOfInvestor(j) \in Int /\ balanceOfInvestor(j)' \in Int
            BY <1>1, <5>1, FloorDivision DEF balanceOfInvestor, convertToAssets
          <5>3. QED
            BY <1>1, <5>1, <5>2 DEF worth
        <4> DEFINE loss == worth(j) - worth(j)' - 1
        <4>5. loss \in Int /\ loss <= 0
          BY <4>3, <4>4
        <4> HIDE DEF loss
        <4>6. loss * t <= 0 * t
          BY <3>2, <4>5, ProductOrder
        <4>7. QED
          BY <3>2, <4>5, <4>6 DEF loss
      <3>5. QED
        BY <3>3, <3>4
    <2>2. CASE \E i \in Investors, w \in Amounts : withdraw(i, w)
      <3>1. PICK i \in Investors, w \in Amounts : withdraw(i, w)
        BY <2>2
      <3>2. w \in Nat /\ totalShares' = totalShares - w
        BY <3>1, AmountsAssumption DEF withdraw
      <3>3. QED
        BY <1>1, <3>2
    <2>3. CASE \E i \in Investors, a \in Amounts : fundReserve(i, a)
      BY <1>1, <2>3 DEF fundReserve
    <2>4. CASE \E d \in Deltas : applyPnl(d)
      BY <1>1, <2>4 DEF applyPnl
    <2>5. CASE UNCHANGED vars
      BY <1>1, <2>5 DEF vars
    <2>6. QED
      BY <1>1, <2>1, <2>2, <2>3, <2>4, <2>5 DEF Next, Trade
  <1>2. ASSUME Inv, [Next]_vars, totalManagedAssets # 0, totalShares' > totalShares
        PROVE  costsLessThanAShare
    BY <1>1, <1>2 DEF costsLessThanAShare
  <1>3. QED
    BY <1>2, Invariance, PTL DEF Spec, DepositCostsLessThanAShare

=============================================================================
