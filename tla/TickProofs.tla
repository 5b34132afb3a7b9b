------------------------------ MODULE TickProofs ------------------------------
(***************************************************************************)
(* Proofs about a tick, for every set of processes and investors, every    *)
(* series of prices and every combination of faults: what its log says,    *)
(* and, where one process ticks and fails only up to the settlement, that  *)
(* chain, log, trades and file agree.                                      *)
(***************************************************************************)
EXTENDS TickProperties, FiniteSetTheorems, TLAPS

-----------------------------------------------------------------------------
(***************************************************************************)
(* The arithmetic of pricing.ts and of the vault's views.  Every sum of a  *)
(* book of one asset has one term or none, and every division is by what   *)
(* is not zero.                                                            *)
(***************************************************************************)

\* A quotient of naturals is one.
LEMMA QuotientIsNat ==
  ASSUME NEW n \in Nat, NEW d \in Nat \ {0}
  PROVE  n \div d \in Nat
  OBVIOUS

\* Rounding towards zero gives an integer for either sign of what is divided.
LEMMA TruncatedIsInt ==
  ASSUME NEW n \in Int, NEW d \in Nat \ {0}
  PROVE  P!truncatingDiv(n, d) \in Int
  <1>1. P!abs(n) \in Nat /\ P!abs(d) = d
    BY DEF P!abs
  <1>2. P!abs(n) \div P!abs(d) \in Nat
    BY <1>1, QuotientIsNat
  <1> QED
    BY <1>2 DEF P!truncatingDiv

\* What is known of a quote.
LEMMA Quotes ==
  /\ \A step \in DOMAIN Prices : quote(step) = [s \in {Asset} |-> Prices[step]]
  /\ quote(Null) = [s \in {} |-> Prices[Null]]
  /\ \A step \in DOMAIN Prices : step \in Nat \ {0} /\ step # Null /\ Prices[step] \in Nat \ {0}
  <1>1. DOMAIN Prices = 1 .. Len(Prices) /\ Len(Prices) \in Nat
    BY PricesAssumption
  <1>2. \A step \in DOMAIN Prices : step \in Nat \ {0} /\ step # Null
    BY <1>1, NullAssumption
  <1>3. \A step \in DOMAIN Prices : Prices[step] \in Nat \ {0}
    BY PricesAssumption
  <1> QED
    BY <1>2, <1>3 DEF quote

\* What the held weight earned is an integer, whatever it is measured against.
LEMMA MarketIsInt ==
  ASSUME NEW managed \in Nat, NEW held \in Nat,
         NEW from \in DOMAIN Prices \cup {Null}, NEW now \in DOMAIN Prices
  PROVE  P!marketPnl(managed, book(held), quote(from), quote(now)) \in Int
  <1> DEFINE S == P!measured(book(held), quote(from), quote(now))
             leg(s) == P!legPnl(managed, book(held)[s], quote(from)[s], quote(now)[s])
             step(g, s) == IF s = {} THEN 0
                           ELSE LET x == CHOOSE x \in s : TRUE IN leg(x) + g[s \ {x}]
             Sums(g) == g = [s \in SUBSET S |-> step(g, s)]
             sum == CHOOSE g : Sums(g)
             witness == [s \in SUBSET S |-> IF s = {} THEN 0 ELSE leg(Asset) + 0]
  <1>1. S \subseteq {Asset}
    BY DEF P!measured, book
  <1>2. S # {} => leg(Asset) \in Int
    <2>1. SUFFICES ASSUME S # {} PROVE leg(Asset) \in Int
      OBVIOUS
    <2>2. from # Null /\ book(held)[Asset] = held
      BY <2>1, Quotes DEF P!measured, book
    <2>3. quote(from)[Asset] = Prices[from] /\ quote(now)[Asset] = Prices[now]
      BY <2>2, Quotes
    <2>4. Prices[from] \in Nat \ {0} /\ Prices[now] \in Nat \ {0}
      BY <2>2, Quotes
    <2>5. managed * held * (Prices[now] - Prices[from]) \in Int /\ BPS * Prices[from] \in Nat \ {0}
      BY <2>4, FeeAssumption
    <2>6. QED
      BY <2>2, <2>3, <2>5, TruncatedIsInt DEF P!legPnl
  <1>3. P!marketPnl(managed, book(held), quote(from), quote(now)) = sum[S]
    BY DEF P!marketPnl, P!MapThenSumSet, P!MapThenFoldSet
  <1> HIDE DEF S, leg
  <1>4. Sums(witness)
    <2>1. SUFFICES ASSUME NEW s \in SUBSET S PROVE witness[s] = step(witness, s)
      BY Zenon
    <2>2. CASE s = {}
      BY <2>2
    <2>3. CASE s # {}
      <3>1. s = {Asset} /\ (CHOOSE x \in s : TRUE) = Asset
        BY <1>1, <2>3
      <3>2. witness[s \ {Asset}] = 0
        BY <3>1
      <3>3. QED
        BY <2>3, <3>1, <3>2
    <2>4. QED
      BY <2>2, <2>3
  <1>5. Sums(sum)
    BY <1>4, Zenon
  <1> HIDE DEF sum
  <1>6. sum[{}] = 0
    BY <1>5
  <1>7. S = {Asset} => sum[S] = leg(Asset) + sum[{}]
    <2>1. S = {Asset} => (CHOOSE x \in S : TRUE) = Asset /\ S \ {Asset} = {}
      OBVIOUS
    <2>2. QED
      BY <1>5, <2>1
  <1>8. sum[S] \in Int
    BY <1>1, <1>2, <1>6, <1>7
  <1> QED
    BY <1>3, <1>8

\* What is turned over is a natural number: the weight's absolute change.
LEMMA TurnoverIsNat ==
  ASSUME NEW held \in Nat, NEW target \in Nat
  PROVE  P!turnoverBps(book(held), book(target)) \in Nat
  <1> DEFINE S == DOMAIN book(held) \cup DOMAIN book(target)
             change(s) == P!abs(P!at(book(target), s) - P!at(book(held), s))
             step(g, s) == IF s = {} THEN 0
                           ELSE LET x == CHOOSE x \in s : TRUE IN change(x) + g[s \ {x}]
             Sums(g) == g = [s \in SUBSET S |-> step(g, s)]
             sum == CHOOSE g : Sums(g)
             witness == [s \in SUBSET S |-> IF s = {} THEN 0 ELSE change(Asset) + 0]
  <1>1. S = {Asset} /\ change(Asset) \in Nat
    BY DEF book, P!abs, P!at
  <1>2. P!turnoverBps(book(held), book(target)) = sum[S]
    BY DEF P!turnoverBps, P!MapThenSumSet, P!MapThenFoldSet
  <1> HIDE DEF S, change
  <1>3. Sums(witness)
    <2>1. SUFFICES ASSUME NEW s \in SUBSET S PROVE witness[s] = step(witness, s)
      BY Zenon
    <2>2. CASE s = {}
      BY <2>2
    <2>3. CASE s # {}
      <3>1. s = {Asset} /\ (CHOOSE x \in s : TRUE) = Asset
        BY <1>1, <2>3
      <3>2. witness[s \ {Asset}] = 0
        BY <3>1
      <3>3. QED
        BY <2>3, <3>1, <3>2
    <2>4. QED
      BY <2>2, <2>3
  <1>4. Sums(sum)
    BY <1>3, Zenon
  <1> HIDE DEF sum
  <1>5. sum[{}] = 0
    BY <1>4
  <1>6. (CHOOSE x \in S : TRUE) = Asset /\ S \ {Asset} = {}
    BY <1>1
  <1>7. sum[S] = change(Asset) + sum[{}]
    BY <1>1, <1>4, <1>6
  <1> QED
    BY <1>1, <1>2, <1>5, <1>7

\* A priced decision: its result is an integer, and there is something to trade
\* exactly when the weight changes.
Priced(managed, held, target, from, now) ==
  P!priceDecision(managed, book(held), book(target), quote(from), quote(now), FeeBps)

LEMMA PricedFacts ==
  ASSUME NEW managed \in Nat, NEW held \in Nat, NEW target \in Nat,
         NEW from \in DOMAIN Prices \cup {Null}, NEW now \in DOMAIN Prices
  PROVE  /\ Priced(managed, held, target, from, now).netPnl \in Int
         /\ Priced(managed, held, target, from, now).trades # {} <=> held # target
  <1> DEFINE market == P!marketPnl(managed, book(held), quote(from), quote(now))
             chargeable == P!Max({0, managed + market})
             turnover == P!turnoverBps(book(held), book(target))
             fee == P!turnoverFee(chargeable, turnover, FeeBps)
             planned == P!plannedTrades(book(held), book(target), quote(now), chargeable)
  <1>1. market \in Int /\ turnover \in Nat
    BY MarketIsInt, TurnoverIsNat
  <1>2. chargeable \in Int
    <2> HIDE DEF market
    <2>1. managed + market \in Int
      BY <1>1
    <2>2. \E x \in {0, managed + market} : \A y \in {0, managed + market} : x >= y
      BY <2>1
    <2>3. chargeable \in {0, managed + market}
      BY <2>2 DEF P!Max
    <2>4. QED
      BY <2>1, <2>3
  <1>3. fee \in Int
    <2> HIDE DEF chargeable, turnover
    <2>1. chargeable * turnover * FeeBps \in Int /\ BPS * BPS \in Nat \ {0}
      BY <1>1, <1>2, FeeAssumption
    <2>2. QED
      BY <2>1, TruncatedIsInt DEF P!turnoverFee
  <1>4. planned # {} <=> held # target
    <2>1. P!at(book(held), Asset) = held /\ P!at(book(target), Asset) = target
      BY DEF P!at, book
    <2>2. P!at(quote(now), Asset) > 0
      BY Quotes DEF P!at
    <2>3. DOMAIN book(held) \cup DOMAIN book(target) = {Asset}
      BY DEF book
    <2> HIDE DEF chargeable
    <2>4. QED
      BY <2>1, <2>2, <2>3 DEF P!plannedTrades
  <1>5. /\ Priced(managed, held, target, from, now).netPnl = market - fee
        /\ Priced(managed, held, target, from, now).trades = planned
    BY DEF Priced, P!priceDecision
  <1> HIDE DEF market, fee, planned
  <1> QED
    BY <1>1, <1>3, <1>4, <1>5

\* What clampPnl lets through the vault settles, as long as it is as it was read.
LEMMA ClampFits ==
  ASSUME NEW net \in Int, NEW vault, vault.totalManagedAssets \in Nat, vault.reserve \in Nat
  PROVE  /\ P!clampPnl(net, vault) \in Int
         /\ P!clampPnl(net, vault) > 0 => P!clampPnl(net, vault) <= vault.reserve
         /\ P!clampPnl(net, vault) < 0 => -P!clampPnl(net, vault) <= vault.totalManagedAssets
  BY DEF P!clampPnl

-----------------------------------------------------------------------------
(***************************************************************************)
(* The vault beneath: its balances stay natural numbers.                   *)
(***************************************************************************)
LEMMA ViewsAreNat ==
  ASSUME V!TypeOK
  PROVE  V!reserve \in Nat /\ V!navPerShare \in Nat
  <1>1. V!reserve \in Nat
    BY DEF V!TypeOK, V!reserve
  <1>2. CASE totalShares = 0
    BY <1>1, <1>2, VaultAssumption DEF V!navPerShare
  <1>3. CASE totalShares # 0
    <2>1. totalShares \in Nat \ {0} /\ totalManagedAssets * Par \in Nat
      BY <1>3, VaultAssumption DEF V!TypeOK
    <2>2. (totalManagedAssets * Par) \div totalShares \in Nat
      BY <2>1, QuotientIsNat
    <2>3. QED
      BY <1>1, <1>3, <2>2 DEF V!navPerShare
  <1> QED
    BY <1>1, <1>2, <1>3

LEMMA ConversionsAreNat ==
  ASSUME V!TypeOK, NEW n \in Nat
  PROVE  V!convertToShares(n) \in Nat /\ V!convertToAssets(n) \in Nat
  <1>1. V!convertToShares(n) \in Nat
    <2>1. CASE totalShares = 0 \/ totalManagedAssets = 0
      BY <2>1 DEF V!convertToShares
    <2>2. CASE ~(totalShares = 0 \/ totalManagedAssets = 0)
      <3>1. n * totalShares \in Nat /\ totalManagedAssets \in Nat \ {0}
        BY <2>2 DEF V!TypeOK
      <3>2. QED
        BY <2>2, <3>1, QuotientIsNat DEF V!convertToShares
    <2>3. QED
      BY <2>1, <2>2
  <1>2. V!convertToAssets(n) \in Nat
    <2>1. CASE totalShares = 0
      BY <2>1 DEF V!convertToAssets
    <2>2. CASE totalShares # 0
      <3>1. n * totalManagedAssets \in Nat /\ totalShares \in Nat \ {0}
        BY <2>2 DEF V!TypeOK
      <3>2. QED
        BY <2>2, <3>1, QuotientIsNat DEF V!convertToAssets
    <2>3. QED
      BY <2>1, <2>2
  <1> QED
    BY <1>1, <1>2

LEMMA InvestKeepsVault ==
  ASSUME V!TypeOK, Invest
  PROVE  V!TypeOK'
  <1>1. ASSUME NEW i \in Investors, NEW a \in Amounts, V!deposit(i, a) PROVE V!TypeOK'
    <2>1. a \in Nat
      BY VaultAssumption
    <2>2. PICK n \in Nat : n = V!convertToShares(a)
      BY <2>1, ConversionsAreNat
    <2>3. QED
      BY <1>1, <2>1, <2>2 DEF V!deposit, V!TypeOK
  <1>2. ASSUME NEW i \in Investors, NEW a \in Amounts, V!withdraw(i, a) PROVE V!TypeOK'
    <2>1. a \in Nat
      BY VaultAssumption
    <2>2. PICK n \in Nat : n = V!convertToAssets(a)
      BY <2>1, ConversionsAreNat
    <2>3. QED
      BY <1>2, <2>1, <2>2 DEF V!withdraw, V!TypeOK
  <1>3. ASSUME NEW i \in Investors, NEW a \in Amounts, V!fundReserve(i, a) PROVE V!TypeOK'
    <2>1. a \in Nat
      BY VaultAssumption
    <2>2. QED
      BY <1>3, <2>1 DEF V!fundReserve, V!TypeOK
  <1> QED
    BY <1>1, <1>2, <1>3 DEF Invest, V!Trade

LEMMA PnlKeepsVault ==
  ASSUME V!TypeOK, NEW delta \in Int, V!applyPnl(delta)
  PROVE  V!TypeOK'
  <1>1. CASE delta > 0 /\ V!applyGain(delta)
    BY <1>1 DEF V!applyPnl, V!applyGain, V!TypeOK
  <1>2. CASE delta < 0 /\ V!applyLoss(-delta)
    BY <1>2 DEF V!applyPnl, V!applyLoss, V!TypeOK
  <1>3. CASE delta = 0 /\ UNCHANGED totalManagedAssets
    BY <1>3 DEF V!applyPnl, V!TypeOK
  <1> QED
    BY <1>1, <1>2, <1>3 DEF V!applyPnl

-----------------------------------------------------------------------------
(***************************************************************************)
(* Types, and what a tick has found out by the await it stands at.         *)
(***************************************************************************)
Stages == {"idle", "before", "decide", "settle", "trade", "after", "record", "persist"}
Decided == {"settle", "trade", "after", "record", "persist"}

Steps == DOMAIN Prices

TickTyped(t) ==
  /\ DOMAIN t = DOMAIN Idle
  /\ t.pc \in Stages
  /\ t.now \in 0 .. Len(Prices) /\ t.from \in Steps \cup {Null}
  /\ t.held \in Weights \cup {0, Null} /\ t.target \in Weights \cup {Null}
  /\ t.trades \in BOOLEAN
  /\ t.applied \in Int \cup {Null} /\ t.tx \in Nat \cup {Null}
  /\ DOMAIN t.read \subseteq VaultTotals /\ \A v \in DOMAIN t.read : t.read[v] \in Nat

Reached(t) ==
  /\ IF t.pc = "idle" THEN t = Idle ELSE t.now \in Steps
  /\ t.pc \in {"decide", "record"} => DOMAIN t.read = VaultTotals
  /\ t.pc \in {"before", "decide", "settle"} => t.tx = Null
  /\ t.pc \in Decided =>
       /\ t.held \in Weights \cup {0} /\ t.target \in Weights /\ t.applied \in Int
       /\ t.trades <=> t.held # t.target
  /\ t.pc = "trade" => t.trades

Rows == [status : {"ok", "failed"}, weight : Weights \cup {Null}, applied : Int \cup {Null},
         tx : Nat \cup {Null}, from : Steps \cup {Null}, to : 0 .. Len(Prices)]

Newest ==
  okRows # {} => Max(okRows) \in okRows /\ \A k \in okRows : k <= Max(okRows)

LogTyped ==
  /\ executions \in Seq(Rows)
  /\ \A k \in okRows : executions[k].weight \in Weights
  /\ Newest

Payments == [from : Steps \cup {Null}, to : Steps, delta : Int]
Fills == [from : Weights \cup {0}, to : Weights]

StoresTyped ==
  /\ oracleStep \in Steps
  /\ tickState \in {NoFile} \cup [weight : Weights, step : Steps]
  /\ settlements \in Seq(Payments)
  /\ trades \in Seq(Fills)
  /\ conditions \in Conditions /\ begun \in 0 .. conditions.ticks

TicksTyped == DOMAIN tick = Processes /\ \A p \in Processes : TickTyped(tick[p]) /\ Reached(tick[p])

TypeInv == V!TypeOK /\ StoresTyped /\ LogTyped /\ TicksTyped

ProcessStep(p) == Begin(p) \/ BeginFails(p) \/ Step(p) \/ Crash(p)

LEMMA Constants ==
  /\ Steps = 1 .. Len(Prices) /\ Len(Prices) \in Nat \ {0}
  /\ Null \notin Int /\ Null \notin Weights /\ Null \notin Steps
  /\ \A w \in Weights : w \in Nat
  /\ \A c \in Conditions : c.processes \subseteq Processes /\ c.ticks \in Nat
  <1>1. Prices \in Seq(Nat \ {0}) /\ Prices # <<>>
    BY PricesAssumption
  <1>2. DOMAIN Prices = 1 .. Len(Prices) /\ Len(Prices) \in Nat \ {0}
    BY <1>1
  <1>3. \A w \in Weights : w \in Nat
    BY WeightsAssumption, FeeAssumption
  <1> QED
    BY <1>2, <1>3, NullAssumption, ConditionsAssumption DEF Steps

\* Whatever a process does, the other processes' ticks are as they were.
LEMMA OneTickMoves ==
  ASSUME TicksTyped, NEW p \in Processes, ProcessStep(p)
  PROVE  DOMAIN tick' = Processes /\ \A q \in Processes \ {p} : tick'[q] = tick[q]
  <1>1. CASE Begin(p) \/ BeginFails(p) \/ Crash(p)
    BY <1>1 DEF Begin, BeginFails, Crash, TicksTyped
  <1>2. ASSUME NEW total, ReadVault(p, total)
        PROVE  DOMAIN tick' = Processes /\ \A q \in Processes \ {p} : tick'[q] = tick[q]
    BY <1>2 DEF ReadVault, TicksTyped
  <1>3. ASSUME NEW state, NEW target, Decide(p, state, target)
        PROVE  DOMAIN tick' = Processes /\ \A q \in Processes \ {p} : tick'[q] = tick[q]
    BY <1>3 DEF Decide, TicksTyped
  <1>4. CASE ApplyPnl(p) \/ RecordTrade(p) \/ Record(p) \/ Persist(p)
    BY <1>4 DEF ApplyPnl, RecordTrade, recordTrade, Record, Persist, TicksTyped
  <1>5. CASE ApplyPnlReverts(p) \/ ApplyPnlUnheard(p) \/ RecordFails(p) \/ Throw(p)
    BY <1>5 DEF ApplyPnlReverts, ApplyPnlUnheard, RecordFails, Throw, Fails, WriteFailedRow, TicksTyped
  <1> QED
    BY <1>1, <1>2, <1>3, <1>4, <1>5 DEF ProcessStep, Step

\* A row written: by one process, as ok only at the end of a tick.
Logs(p) ==
  \/ executions' = Append(executions, row(p, "failed"))
  \/ tick[p].pc = "record" /\ executions' = Append(executions, row(p, "ok"))

LEMMA LogSteps ==
  ASSUME TicksTyped, NEW p \in Processes, ProcessStep(p)
  PROVE  UNCHANGED executions \/ Logs(p)
  <1>1. CASE Begin(p) \/ BeginFails(p) \/ Crash(p)
    BY <1>1 DEF Begin, BeginFails, Crash, Logs
  <1>2. ASSUME NEW total, ReadVault(p, total) PROVE UNCHANGED executions
    BY <1>2 DEF ReadVault
  <1>3. ASSUME NEW state, NEW target, Decide(p, state, target) PROVE UNCHANGED executions
    BY <1>3 DEF Decide
  <1>4. CASE ApplyPnl(p) \/ RecordTrade(p) \/ Record(p) \/ Persist(p)
    BY <1>4 DEF ApplyPnl, RecordTrade, recordTrade, Record, Persist, Logs
  <1>5. CASE ApplyPnlReverts(p) \/ ApplyPnlUnheard(p) \/ RecordFails(p) \/ Throw(p)
    BY <1>5 DEF ApplyPnlReverts, ApplyPnlUnheard, RecordFails, Throw, Fails, WriteFailedRow, Logs
  <1> QED
    BY <1>1, <1>2, <1>3, <1>4, <1>5 DEF ProcessStep, Step

\* A failed row is not among the ok rows; an ok row is the newest of them.
LEMMA LogOfOneMore ==
  ASSUME LogTyped, NEW r \in Rows, executions' = Append(executions, r)
  PROVE  /\ Len(executions') = Len(executions) + 1 /\ Len(executions) \in Nat
         /\ DOMAIN executions = 1 .. Len(executions) /\ DOMAIN executions' = 1 .. Len(executions) + 1
         /\ \A k \in DOMAIN executions : executions'[k] = executions[k]
         /\ executions'[Len(executions) + 1] = r
         /\ executions' \in Seq(Rows)
         /\ r.status # "ok" => okRows' = okRows /\ weightsFromLastExecution' = weightsFromLastExecution
         /\ r.status = "ok" => /\ okRows' = okRows \cup {Len(executions) + 1}
                               /\ Max(okRows') = Len(executions) + 1
                               /\ weightsFromLastExecution' = r.weight
  <1> DEFINE n == Len(executions) + 1
  <1>1. /\ Len(executions') = n /\ Len(executions) \in Nat
        /\ DOMAIN executions = 1 .. Len(executions) /\ DOMAIN executions' = 1 .. n
        /\ \A k \in DOMAIN executions : executions'[k] = executions[k]
        /\ executions'[n] = r
        /\ executions' \in Seq(Rows)
    BY DEF LogTyped
  <1>2. ASSUME r.status # "ok" PROVE okRows' = okRows /\ weightsFromLastExecution' = weightsFromLastExecution
    <2>1. okRows' = okRows
      BY <1>1, <1>2 DEF okRows
    <2>2. okRows # {} => executions'[Max(okRows)] = executions[Max(okRows)]
      BY <1>1 DEF LogTyped, Newest, okRows
    <2>3. QED
      BY <2>1, <2>2 DEF weightsFromLastExecution
  <1>3. ASSUME r.status = "ok"
        PROVE  /\ okRows' = okRows \cup {n} /\ Max(okRows') = n
               /\ weightsFromLastExecution' = r.weight
    <2>1. okRows' = okRows \cup {n}
      BY <1>1, <1>3 DEF okRows
    <2>2. \A k \in okRows' : k \in Nat /\ k <= n
      BY <1>1, <2>1 DEF okRows
    <2>3. n \in okRows' /\ \A k \in okRows' : n >= k
      BY <1>1, <2>1, <2>2
    <2>4. ASSUME NEW x \in okRows', \A k \in okRows' : x >= k PROVE x = n
      BY <1>1, <2>2, <2>3, <2>4
    <2>5. Max(okRows') = n
      BY <2>3, <2>4 DEF Max
    <2>6. QED
      BY <1>1, <2>1, <2>3, <2>5 DEF weightsFromLastExecution
  <1> QED
    BY <1>1, <1>2, <1>3

LEMMA RowIsTyped ==
  ASSUME TicksTyped, NEW p \in Processes, NEW status \in {"ok", "failed"}
  PROVE  row(p, status) \in Rows /\ row(p, status).status = status
  BY DEF TicksTyped, TickTyped, row, Rows

LEMMA LogStays ==
  ASSUME LogTyped, UNCHANGED executions
  PROVE  LogTyped' /\ okRows' = okRows /\ weightsFromLastExecution' = weightsFromLastExecution
  BY DEF LogTyped, Newest, okRows, weightsFromLastExecution

LEMMA LogIsKept ==
  ASSUME LogTyped, TicksTyped, NEW p \in Processes, UNCHANGED executions \/ Logs(p)
  PROVE  LogTyped'
  <1>1. CASE UNCHANGED executions
    BY <1>1, LogStays
  <1>2. CASE executions' = Append(executions, row(p, "failed"))
    <2>1. row(p, "failed") \in Rows /\ row(p, "failed").status # "ok"
      BY RowIsTyped
    <2>2. /\ okRows' = okRows /\ executions' \in Seq(Rows)
          /\ \A k \in DOMAIN executions : executions'[k] = executions[k]
      BY <1>2, <2>1, LogOfOneMore
    <2>3. QED
      BY <2>2 DEF LogTyped, Newest, okRows
  <1>3. CASE tick[p].pc = "record" /\ executions' = Append(executions, row(p, "ok"))
    <2>1. row(p, "ok") \in Rows /\ row(p, "ok").status = "ok" /\ row(p, "ok").weight \in Weights
      BY <1>3, RowIsTyped DEF TicksTyped, Reached, Decided, row
    <2>2. /\ okRows' = okRows \cup {Len(executions) + 1} /\ Max(okRows') = Len(executions) + 1
          /\ executions' \in Seq(Rows) /\ Len(executions) \in Nat /\ DOMAIN executions = 1 .. Len(executions)
          /\ \A k \in DOMAIN executions : executions'[k] = executions[k]
          /\ executions'[Len(executions) + 1] = row(p, "ok")
      BY <1>3, <2>1, LogOfOneMore
    <2>3. \A k \in okRows : k \in DOMAIN executions
      BY DEF okRows
    <2>4. \A k \in okRows' : executions'[k].weight \in Weights
      BY <2>1, <2>2, <2>3 DEF LogTyped
    <2>5. \A k \in okRows' : k <= Len(executions) + 1
      BY <2>2, <2>3
    <2>6. QED
      BY <2>2, <2>4, <2>5 DEF LogTyped, Newest
  <1> QED
    BY <1>1, <1>2, <1>3 DEF Logs

\* To decide is to change nothing but the tick.
LEMMA DecideFrame ==
  ASSUME NEW p, NEW state, NEW target, Decide(p, state, target)
  PROVE  UNCHANGED <<chain, settlements, oracleStep, tickState, executions,
                     navSnapshots, trades, begun>>
  BY Zenon DEF Decide

LEMMA StoresAreKept ==
  ASSUME StoresTyped, TicksTyped, conditions' = conditions, NEW p \in Processes, ProcessStep(p)
  PROVE  StoresTyped'
  <1>1. CASE Begin(p) \/ BeginFails(p)
    BY <1>1, Constants DEF Begin, BeginFails, StoresTyped
  <1>2. CASE Crash(p) \/ ApplyPnlReverts(p) \/ Record(p) \/ RecordFails(p) \/ Throw(p)
    BY <1>2 DEF Crash, ApplyPnlReverts, Record, RecordFails, Throw, Fails, StoresTyped
  <1>3. ASSUME NEW total, ReadVault(p, total) PROVE StoresTyped'
    BY <1>3 DEF ReadVault, StoresTyped
  <1>4. ASSUME NEW state, NEW target, Decide(p, state, target) PROVE StoresTyped'
    <2>1. UNCHANGED <<chain, settlements, oracleStep, tickState, executions,
                      navSnapshots, trades, begun>>
      BY <1>4, DecideFrame
    <2>2. QED
      BY <2>1 DEF StoresTyped
  <1>5. CASE ApplyPnl(p) \/ ApplyPnlUnheard(p)
    <2>1. tick[p].pc = "settle"
      BY <1>5 DEF ApplyPnl, ApplyPnlUnheard
    <2>2. tick[p].from \in Steps \cup {Null} /\ tick[p].now \in Steps /\ tick[p].applied \in Int
      BY <2>1 DEF TicksTyped, TickTyped, Reached, Decided
    <2>3. PICK payment \in Payments : payment = settlement(p)
      BY <2>2 DEF settlement, Payments
    <2>4. /\ settlements' = Append(settlements, payment)
          /\ UNCHANGED <<oracleStep, tickState, trades, begun>>
      BY <1>5, <2>3 DEF ApplyPnl, ApplyPnlUnheard
    <2>5. Append(settlements, payment) \in Seq(Payments)
      BY DEF StoresTyped
    <2>6. QED
      BY <2>4, <2>5 DEF StoresTyped
  <1>6. CASE RecordTrade(p)
    <2>1. [from |-> tick[p].held, to |-> tick[p].target] \in Fills
      BY <1>6 DEF RecordTrade, recordTrade, TicksTyped, Reached, Decided, Fills
    <2>2. QED
      BY <1>6, <2>1 DEF RecordTrade, recordTrade, StoresTyped
  <1>7. CASE Persist(p)
    <2>1. [weight |-> tick[p].target, step |-> tick[p].now] \in [weight : Weights, step : Steps]
      BY <1>7 DEF Persist, TicksTyped, Reached, Decided
    <2>2. QED
      BY <1>7, <2>1 DEF Persist, StoresTyped
  <1> QED
    BY <1>1, <1>2, <1>3, <1>4, <1>5, <1>6, <1>7 DEF ProcessStep, Step

\* What a tick may take for the weight that is held.
LEMMA HeldIsAWeight ==
  ASSUME StoresTyped, LogTyped, NEW state \in readTickState
  PROVE  heldWeight(state) \in Weights \cup {0} /\ state.step \in Steps \cup {Null}
  <1>1. weightsFromLastExecution \in Weights \cup {0}
    BY DEF weightsFromLastExecution, LogTyped, Newest
  <1>2. state = NoFile \/ state \in [weight : Weights, step : Steps]
    BY DEF readTickState, StoresTyped
  <1> QED
    BY <1>1, <1>2 DEF heldWeight, NoFile

\* What has been decided.
LEMMA Decides ==
  ASSUME TypeInv, NEW p \in Processes, NEW state \in readTickState, NEW target \in Weights,
         Decide(p, state, target)
  PROVE  /\ tick[p].pc = "decide"
         /\ DOMAIN tick'[p] = DOMAIN tick[p] /\ tick'[p].read = <<>>
         /\ tick'[p].now = tick[p].now /\ tick'[p].tx = tick[p].tx
         /\ tick'[p].held = heldWeight(state) /\ tick'[p].from = state.step
         /\ tick'[p].target = target
         /\ tick'[p].trades \in BOOLEAN
         /\ tick'[p].trades <=> heldWeight(state) # target
         /\ tick'[p].applied \in Int
         /\ tick'[p].pc = IF tick[p].read.totalShares # 0 THEN "settle"
                          ELSE IF heldWeight(state) # target THEN "trade" ELSE "after"
         /\ tick'[p].pc = "settle" =>
              /\ tick'[p].applied > 0 => tick'[p].applied <= tick[p].read.reserve
              /\ tick'[p].applied < 0 => -tick'[p].applied <= tick[p].read.totalManagedAssets
         /\ tick'[p].pc # "settle" => tick'[p].applied = 0
  <1> DEFINE before == tick[p].read
             held == heldWeight(state)
             priced == Priced(before.totalManagedAssets, held, target, state.step, tick[p].now)
             settles == P!settlementFor(before)
             trading == priced.trades # {}
             applied == IF settles THEN P!clampPnl(priced.netPnl, before) ELSE 0
  <1>1. /\ tick[p].pc = "decide" /\ p \in DOMAIN tick /\ DOMAIN tick[p] = DOMAIN Idle
        /\ tick[p].now \in Steps
        /\ before.totalManagedAssets \in Nat /\ before.reserve \in Nat /\ before.totalShares \in Nat
    BY DEF Decide, TypeInv, TicksTyped, TickTyped, Reached, VaultTotals
  <1>2. held \in Weights \cup {0} /\ held \in Nat /\ target \in Nat /\ state.step \in Steps \cup {Null}
    BY HeldIsAWeight, Constants DEF TypeInv
  <1>3. priced.netPnl \in Int /\ trading = (held # target)
    <2>1. PICK h \in Nat, m \in Nat : h = held /\ m = before.totalManagedAssets
      BY <1>1, <1>2
    <2>2. PICK from \in DOMAIN Prices \cup {Null} : from = state.step
      BY <1>2 DEF Steps
    <2>3. PICK now \in DOMAIN Prices : now = tick[p].now
      BY <1>1 DEF Steps
    <2> HIDE DEF before, held, priced, trading, settles, applied
    <2>4. target \in Nat
      BY Constants
    <2>5. Priced(m, h, target, from, now).netPnl \in Int
      BY <2>4, PricedFacts
    <2>6. Priced(m, h, target, from, now).trades # {} <=> h # target
      BY <2>4, PricedFacts
    <2>7. priced = Priced(m, h, target, from, now)
      BY <2>1, <2>2, <2>3 DEF priced
    <2>8. priced.netPnl \in Int
      BY <2>5, <2>7
    <2>9. priced.trades # {} <=> held # target
      BY <2>1, <2>6, <2>7
    <2>10. QED
      BY <2>8, <2>9 DEF trading
  <1>4. tick'[p] = [tick[p] EXCEPT !.held = held, !.from = state.step, !.target = target,
                      !.trades = trading, !.applied = applied,
                      !.pc = IF settles THEN "settle" ELSE IF trading THEN "trade" ELSE "after",
                      !.read = <<>>]
    BY <1>1 DEF Decide, Priced
  <1>5. settles <=> before.totalShares # 0
    BY DEF P!settlementFor
  <1>6. /\ applied \in Int
        /\ ~settles => applied = 0
        /\ settles /\ applied > 0 => applied <= before.reserve
        /\ settles /\ applied < 0 => -applied <= before.totalManagedAssets
    BY <1>1, <1>3, ClampFits
  <1>7. tick'[p].applied = applied /\
        tick'[p].pc = IF settles THEN "settle" ELSE IF trading THEN "trade" ELSE "after"
    BY <1>1, <1>4 DEF Idle
  <1>8. /\ DOMAIN tick'[p] = DOMAIN tick[p] /\ tick'[p].read = <<>>
        /\ tick'[p].now = tick[p].now /\ tick'[p].tx = tick[p].tx
        /\ tick'[p].held = held /\ tick'[p].from = state.step
        /\ tick'[p].target = target
    <2> HIDE DEF held, trading, applied, settles
    <2>1. QED
      BY <1>1, <1>4 DEF Idle
  <1>9. tick'[p].trades = trading
    <2> HIDE DEF held, trading, applied, settles
    <2>1. QED
      BY <1>1, <1>4 DEF Idle
  <1>10. tick'[p].pc = IF tick[p].read.totalShares # 0 THEN "settle"
                       ELSE IF heldWeight(state) # target THEN "trade" ELSE "after"
    <2>1. trading = (heldWeight(state) # target)
      BY <1>3
    <2> HIDE DEF held, trading, applied, settles
    <2>2. QED
      BY <1>5, <1>7, <2>1
  <1>11. settles <=> tick'[p].pc = "settle"
    <2> HIDE DEF held, trading, applied, settles
    <2>1. QED
      BY <1>7
  <1>12. /\ tick'[p].applied \in Int
         /\ tick'[p].pc = "settle" =>
              /\ tick'[p].applied > 0 => tick'[p].applied <= tick[p].read.reserve
              /\ tick'[p].applied < 0 => -tick'[p].applied <= tick[p].read.totalManagedAssets
         /\ tick'[p].pc # "settle" => tick'[p].applied = 0
    <2> HIDE DEF held, trading, applied, settles
    <2>1. QED
      BY <1>6, <1>7, <1>11
  <1>13. tick'[p].trades \in BOOLEAN /\ (tick'[p].trades <=> heldWeight(state) # target)
    <2>1. tick'[p].trades = (heldWeight(state) # target)
      BY <1>3, <1>9
    <2>2. QED
      BY <2>1
  <1>14. held = heldWeight(state)
    OBVIOUS
  <1> HIDE DEF held, trading, applied, settles, priced, before
  <1> QED
    BY <1>1, <1>8, <1>10, <1>12, <1>13, <1>14

\* What one more of the vault's totals changes in a tick.
LEMMA Reads ==
  ASSUME TypeInv, NEW p \in Processes, NEW total \in VaultTotals, ReadVault(p, total)
  PROVE  /\ tick[p].pc \in {"before", "after"}
         /\ DOMAIN tick'[p] = DOMAIN tick[p]
         /\ tick'[p].now = tick[p].now /\ tick'[p].from = tick[p].from
         /\ tick'[p].held = tick[p].held /\ tick'[p].target = tick[p].target
         /\ tick'[p].trades = tick[p].trades
         /\ tick'[p].applied = tick[p].applied /\ tick'[p].tx = tick[p].tx
         /\ DOMAIN tick'[p].read \subseteq VaultTotals
         /\ \A v \in DOMAIN tick'[p].read : tick'[p].read[v] \in Nat
         /\ \/ tick'[p].pc = tick[p].pc
            \/ /\ DOMAIN tick'[p].read = VaultTotals
               /\ tick'[p].pc = IF tick[p].pc = "before" THEN "decide" ELSE "record"
  <1> DEFINE read == [v \in DOMAIN tick[p].read \cup {total} |->
                        IF v = total THEN readTotal(v) ELSE tick[p].read[v]]
  <1>1. p \in DOMAIN tick /\ TickTyped(tick[p])
    BY DEF TypeInv, TicksTyped
  <1>2. /\ tick[p].pc \in {"before", "after"}
        /\ tick' = [tick EXCEPT ![p].read = read,
                                ![p].pc = IF DOMAIN read = VaultTotals
                                          THEN IF tick[p].pc = "before" THEN "decide" ELSE "record"
                                          ELSE @]
    BY DEF ReadVault
  <1>3. readTotal(total) \in Nat
    BY ViewsAreNat DEF TypeInv, readTotal, VaultTotals, V!TypeOK
  <1>4. DOMAIN read \subseteq VaultTotals /\ \A v \in DOMAIN read : read[v] \in Nat
    BY <1>1, <1>3 DEF TickTyped
  <1>5. PICK next : next = IF tick[p].pc = "before" THEN "decide" ELSE "record"
    OBVIOUS
  <1> HIDE DEF read
  <1>6. PICK r : r = read
    OBVIOUS
  <1>7. PICK pc : pc = IF DOMAIN r = VaultTotals THEN next ELSE tick[p].pc
    OBVIOUS
  <1>8. tick'[p] = [tick[p] EXCEPT !.read = r, !.pc = pc]
    BY <1>1, <1>2, <1>5, <1>6, <1>7 DEF TickTyped, Idle
  <1>9. /\ DOMAIN tick'[p] = DOMAIN tick[p]
        /\ tick'[p].now = tick[p].now /\ tick'[p].from = tick[p].from
        /\ tick'[p].held = tick[p].held /\ tick'[p].target = tick[p].target
        /\ tick'[p].trades = tick[p].trades
        /\ tick'[p].applied = tick[p].applied /\ tick'[p].tx = tick[p].tx
        /\ tick'[p].read = r /\ tick'[p].pc = pc
    BY <1>1, <1>8 DEF TickTyped, Idle
  <1> QED
    BY <1>2, <1>4, <1>5, <1>6, <1>7, <1>9

LEMMA TicksAreKept ==
  ASSUME TypeInv, conditions' = conditions, NEW p \in Processes, ProcessStep(p)
  PROVE  TicksTyped'
  <1> DEFINE t == tick[p]
             Kept == TickTyped(tick'[p]) /\ Reached(tick'[p])
  <1>1. p \in DOMAIN tick /\ TickTyped(t) /\ Reached(t)
    BY DEF TypeInv, TicksTyped
  <1>2. TickTyped(Idle) /\ Reached(Idle)
    BY Constants DEF TickTyped, Reached, Idle, Stages, Decided
  <1>3. ASSUME Begin(p) PROVE Kept
    <2>1. tick'[p] = [Idle EXCEPT !.pc = "before", !.now = oracleStep']
      BY <1>1, <1>3 DEF Begin
    <2>2. PICK now \in Steps : now = oracleStep'
      BY <1>3, Constants DEF Begin, TypeInv, StoresTyped
    <2>3. Kept
      BY <2>1, <2>2, Constants DEF TickTyped, Reached, Idle, Stages, Decided
    <2>4. QED
      BY <2>3
  <1>4. ASSUME BeginFails(p) \/ Crash(p) \/ Persist(p) PROVE Kept
    <2>1. tick'[p] = t \/ tick'[p] = Idle
      BY <1>1, <1>4 DEF BeginFails, Crash, Persist
    <2>2. QED
      BY <1>1, <1>2, <2>1
  <1>5. ASSUME ApplyPnlReverts(p) \/ ApplyPnlUnheard(p) \/ RecordFails(p) \/ Throw(p) PROVE Kept
    <2>1. tick'[p] = Idle
      BY <1>1, <1>5 DEF ApplyPnlReverts, ApplyPnlUnheard, RecordFails, Throw, Fails, WriteFailedRow
    <2>2. QED
      BY <1>2, <2>1
  <1>6. ASSUME NEW total \in VaultTotals, ReadVault(p, total) PROVE Kept
    <2>1. /\ t.pc \in {"before", "after"}
          /\ DOMAIN tick'[p] = DOMAIN t
          /\ tick'[p].now = t.now /\ tick'[p].from = t.from
          /\ tick'[p].held = t.held /\ tick'[p].target = t.target
          /\ tick'[p].trades = t.trades
          /\ tick'[p].applied = t.applied /\ tick'[p].tx = t.tx
          /\ DOMAIN tick'[p].read \subseteq VaultTotals
          /\ \A v \in DOMAIN tick'[p].read : tick'[p].read[v] \in Nat
      BY <1>6, Reads
    <2>2. \/ tick'[p].pc = t.pc
          \/ /\ DOMAIN tick'[p].read = VaultTotals
             /\ tick'[p].pc = IF t.pc = "before" THEN "decide" ELSE "record"
      BY <1>6, Reads
    <2>3. QED
      BY <1>1, <2>1, <2>2 DEF TickTyped, Reached, Idle, Stages, Decided
  <1>7. ASSUME NEW state \in readTickState, NEW target \in Weights, Decide(p, state, target)
        PROVE  Kept
    <2>1. heldWeight(state) \in Weights \cup {0} /\ state.step \in Steps \cup {Null}
      BY HeldIsAWeight DEF TypeInv
    <2>2. t.pc = "decide"
      BY <1>7, Decides
    <2>3. /\ DOMAIN tick'[p] = DOMAIN t /\ tick'[p].read = <<>>
          /\ tick'[p].now = t.now /\ tick'[p].tx = t.tx
          /\ tick'[p].held = heldWeight(state) /\ tick'[p].from = state.step
          /\ tick'[p].target = target
          /\ tick'[p].applied \in Int
      BY <1>7, Decides
    <2>4. tick'[p].trades \in BOOLEAN /\ (tick'[p].trades <=> tick'[p].held # tick'[p].target)
      BY <1>7, <2>3, Decides
    <2>5. /\ tick'[p].pc \in {"settle", "trade", "after"}
          /\ tick'[p].pc = "trade" => tick'[p].held # tick'[p].target
      <3>1. tick'[p].pc = IF t.read.totalShares # 0 THEN "settle"
                          ELSE IF heldWeight(state) # target THEN "trade" ELSE "after"
        BY <1>7, Decides
      <3>2. QED
        BY <2>3, <3>1
    <2>6. QED
      BY <1>1, <2>1, <2>2, <2>3, <2>4, <2>5, Constants DEF TickTyped, Reached, Idle, Stages, Decided
  <1>8. ASSUME ApplyPnl(p) PROVE Kept
    <2>1. /\ t.pc = "settle"
          /\ tick'[p] = [t EXCEPT !.tx = Len(settlements'),
                                  !.pc = IF t.trades THEN "trade" ELSE "after"]
      BY <1>1, <1>8 DEF ApplyPnl
    <2>2. settlements' \in Seq(Payments)
      <3>1. StoresTyped'
        BY StoresAreKept DEF TypeInv
      <3>2. QED
        BY <3>1 DEF StoresTyped
    <2>3. PICK tx \in Nat : tx = Len(settlements')
      BY <2>2
    <2>4. PICK pc \in {"trade", "after"} : pc = IF t.trades THEN "trade" ELSE "after"
      OBVIOUS
    <2>5. tick'[p] = [t EXCEPT !.tx = tx, !.pc = pc]
      BY <2>1, <2>3, <2>4
    <2>6. pc = "trade" => t.trades
      BY <2>4
    <2>7. QED
      BY <1>1, <2>1, <2>5, <2>6 DEF TickTyped, Reached, Idle, Stages, Decided
  <1>9. ASSUME RecordTrade(p) PROVE Kept
    <2>1. t.pc = "trade" /\ tick'[p] = [t EXCEPT !.pc = "after"]
      BY <1>1, <1>9 DEF RecordTrade, recordTrade
    <2>2. QED
      BY <1>1, <2>1 DEF TickTyped, Reached, Idle, Stages, Decided
  <1>10. ASSUME Record(p) PROVE Kept
    <2>1. t.pc = "record" /\ tick'[p] = [t EXCEPT !.pc = "persist", !.read = <<>>]
      BY <1>1, <1>10 DEF Record
    <2>2. QED
      BY <1>1, <2>1 DEF TickTyped, Reached, Idle, Stages, Decided
  <1>11. Kept
    BY <1>3, <1>4, <1>5, <1>6, <1>7, <1>8, <1>9, <1>10 DEF ProcessStep, Step
  <1> HIDE DEF Kept
  <1>12. DOMAIN tick' = Processes /\ \A q \in Processes \ {p} : tick'[q] = tick[q]
    BY OneTickMoves DEF TypeInv
  <1>13. \A q \in Processes : TickTyped(tick'[q]) /\ Reached(tick'[q])
    BY <1>11, <1>12 DEF TypeInv, TicksTyped, Kept
  <1> QED
    BY <1>12, <1>13 DEF TicksTyped

\* What a step of a process does to the vault is to settle, or nothing.
LEMMA ChainSteps ==
  ASSUME NEW p \in Processes, ProcessStep(p)
  PROVE  \/ UNCHANGED <<chain, settlements>>
         \/ /\ tick[p].pc = "settle" /\ V!applyPnl(tick[p].applied)
            /\ settlements' = Append(settlements, settlement(p))
  <1>1. CASE Begin(p) \/ BeginFails(p) \/ Crash(p) \/ RecordTrade(p) \/ Record(p) \/ Persist(p)
    BY <1>1 DEF Begin, BeginFails, Crash, RecordTrade, recordTrade, Record, Persist
  <1>2. CASE ApplyPnlReverts(p) \/ RecordFails(p) \/ Throw(p)
    BY <1>2 DEF ApplyPnlReverts, RecordFails, Throw, Fails
  <1>3. CASE ApplyPnl(p) \/ ApplyPnlUnheard(p)
    BY <1>3 DEF ApplyPnl, ApplyPnlUnheard
  <1>4. ASSUME NEW total, ReadVault(p, total) PROVE UNCHANGED <<chain, settlements>>
    BY <1>4 DEF ReadVault
  <1>5. ASSUME NEW state, NEW target, Decide(p, state, target) PROVE UNCHANGED <<chain, settlements>>
    <2>1. UNCHANGED <<chain, settlements, oracleStep, tickState, executions,
                      navSnapshots, trades, begun>>
      BY <1>5, DecideFrame
    <2>2. QED
      BY <2>1
  <1> QED
    BY <1>1, <1>2, <1>3, <1>4, <1>5 DEF ProcessStep, Step

LEMMA ChainIsKept ==
  ASSUME TypeInv, NEW p \in Processes, ProcessStep(p)
  PROVE  V!TypeOK'
  <1>1. CASE UNCHANGED <<chain, settlements>>
    BY <1>1 DEF TypeInv, V!TypeOK, chain
  <1>2. CASE tick[p].pc = "settle" /\ V!applyPnl(tick[p].applied)
    <2>1. PICK delta \in Int : delta = tick[p].applied
      BY <1>2 DEF TypeInv, TicksTyped, Reached, Decided
    <2>2. V!applyPnl(delta)
      BY <1>2, <2>1
    <2>3. V!TypeOK
      BY DEF TypeInv
    <2>4. QED
      BY <2>2, <2>3, PnlKeepsVault
  <1> QED
    BY <1>1, <1>2, ChainSteps

-----------------------------------------------------------------------------
\* An investor's transaction touches nothing but the chain.
LEMMA InvestFrame ==
  ASSUME Invest
  PROVE  UNCHANGED <<settlements, oracleStep, tickState, executions, navSnapshots,
                     trades, begun, tick>>
  BY DEF Invest

LEMMA TypesHoldInit ==
  ASSUME Init
  PROVE  TypeInv
  <1>1. V!TypeOK
    BY VaultAssumption, PrefundAssumption DEF Init, V!TypeOK
  <1>2. StoresTyped
    BY Constants DEF Init, StoresTyped
  <1>3. executions = <<>> /\ okRows = {}
    BY DEF Init, okRows
  <1>4. LogTyped
    BY <1>3 DEF LogTyped, Newest
  <1>5. TickTyped(Idle) /\ Reached(Idle)
    BY Constants DEF TickTyped, Reached, Idle, Stages, Decided
  <1>6. TicksTyped
    BY <1>5 DEF Init, TicksTyped
  <1> QED
    BY <1>1, <1>2, <1>4, <1>6 DEF TypeInv

LEMMA TypesAreKept ==
  ASSUME TypeInv, [Next]_vars
  PROVE  TypeInv'
  <1>1. CASE UNCHANGED vars
    <2>1. UNCHANGED <<chain, settlements, oracleStep, tickState, executions, trades,
                      begun, conditions, tick>>
      BY <1>1 DEF vars
    <2>2. V!TypeOK'
      BY <2>1 DEF TypeInv, V!TypeOK, chain
    <2>3. StoresTyped' /\ TicksTyped'
      BY <2>1 DEF TypeInv, StoresTyped, TicksTyped
    <2>4. LogTyped'
      BY <2>1, LogStays DEF TypeInv
    <2>5. QED
      BY <2>2, <2>3, <2>4 DEF TypeInv
  <1>2. CASE Invest /\ UNCHANGED conditions
    <2>1. UNCHANGED <<settlements, oracleStep, tickState, executions, navSnapshots,
                      trades, begun, tick>>
      BY <1>2, InvestFrame
    <2>2. V!TypeOK'
      BY <1>2, InvestKeepsVault DEF TypeInv
    <2>3. StoresTyped' /\ TicksTyped'
      BY <1>2, <2>1 DEF TypeInv, StoresTyped, TicksTyped
    <2>4. LogTyped'
      BY <2>1, LogStays DEF TypeInv
    <2>5. QED
      BY <2>2, <2>3, <2>4 DEF TypeInv
  <1>3. ASSUME NEW p \in Processes, ProcessStep(p), UNCHANGED conditions PROVE TypeInv'
    <2>1. V!TypeOK'
      BY <1>3, ChainIsKept
    <2>2. StoresTyped'
      BY <1>3, StoresAreKept DEF TypeInv
    <2>3. TicksTyped'
      BY <1>3, TicksAreKept
    <2>4. UNCHANGED executions \/ Logs(p)
      BY <1>3, LogSteps DEF TypeInv
    <2>5. LogTyped'
      BY <2>4, LogIsKept DEF TypeInv
    <2>6. QED
      BY <2>1, <2>2, <2>3, <2>5 DEF TypeInv
  <1> QED
    BY <1>1, <1>2, <1>3 DEF Next, ProcessStep

LEMMA TypesHold == Spec => []TypeInv
  <1>1. Init => TypeInv
    BY TypesHoldInit
  <1>2. TypeInv /\ [Next]_vars => TypeInv'
    BY TypesAreKept
  <1> QED
    BY <1>1, <1>2, PTL DEF Spec

-----------------------------------------------------------------------------
(***************************************************************************)
(* A delta computed from totals that still stand does not revert.          *)
(***************************************************************************)
LEMMA OnlyDecideSettles ==
  ASSUME TypeInv, NEW p \in Processes, ProcessStep(p),
         tick[p].pc = "decide", tick'[p].pc = "settle"
  PROVE  \E state \in readTickState, target \in Weights : Decide(p, state, target)
  <1>1. p \in DOMAIN tick /\ TickTyped(tick[p])
    BY DEF TypeInv, TicksTyped
  <1>2. ASSUME Begin(p) \/ BeginFails(p) \/ Crash(p) PROVE FALSE
    BY <1>1, <1>2 DEF Begin, BeginFails, Crash, Idle
  <1>3. ASSUME ApplyPnl(p) \/ ApplyPnlReverts(p) \/ ApplyPnlUnheard(p) \/ RecordTrade(p)
                 \/ Record(p) \/ RecordFails(p) \/ Persist(p)
        PROVE  FALSE
    BY <1>3 DEF ApplyPnl, ApplyPnlReverts, ApplyPnlUnheard, RecordTrade, recordTrade, Record, RecordFails, Persist
  <1>4. ASSUME Throw(p) PROVE FALSE
    BY <1>1, <1>4 DEF Throw, Fails, WriteFailedRow, Idle
  <1>5. ASSUME NEW total, ReadVault(p, total) PROVE FALSE
    BY <1>5 DEF ReadVault
  <1> QED
    BY <1>2, <1>3, <1>4, <1>5 DEF ProcessStep, Step

LEMMA FreshDecisionIsAccepted ==
  ASSUME TypeInv, NEW p \in Processes, NEW state \in readTickState, NEW target \in Weights,
         Decide(p, state, target), unchangedSince(tick[p].read), tick'[p].pc = "settle"
  PROVE  accepts(tick'[p].applied)
  <1>1. tick[p].pc = "decide"
    BY Decides
  <1>2. DOMAIN tick[p].read = {"totalManagedAssets", "totalShares", "reserve", "navPerShare"}
    BY <1>1 DEF TypeInv, TicksTyped, Reached, VaultTotals
  <1>3. /\ tick[p].read.totalManagedAssets = totalManagedAssets
        /\ tick[p].read.totalShares = totalShares
        /\ tick[p].read.reserve = V!reserve
    BY <1>2 DEF unchangedSince, readTotal
  <1>4. /\ tick'[p].applied \in Int
        /\ tick'[p].applied > 0 => tick'[p].applied <= tick[p].read.reserve
        /\ tick'[p].applied < 0 => -tick'[p].applied <= tick[p].read.totalManagedAssets
    BY Decides
  <1>5. tick[p].read.totalShares # 0
    <2>1. tick'[p].pc = IF tick[p].read.totalShares # 0 THEN "settle"
                        ELSE IF heldWeight(state) # target THEN "trade" ELSE "after"
      BY Decides
    <2>2. QED
      BY <2>1
  <1> QED
    BY <1>3, <1>4, <1>5 DEF accepts

\* A tick's delta is accepted if the totals it was priced on still stand.
THEOREM AFreshReadIsAccepted == Spec => FreshReadIsAccepted
  <1>1. ASSUME TypeInv, [Next]_vars, NEW p \in Processes,
               tick[p].pc = "decide", unchangedSince(tick[p].read), tick'[p].pc = "settle"
        PROVE  accepts(tick'[p].applied)
    <2>1. CASE UNCHANGED vars
      BY <1>1, <2>1 DEF vars
    <2>2. CASE Invest
      BY <1>1, <2>2, InvestFrame
    <2>3. ASSUME NEW q \in Processes, ProcessStep(q) PROVE accepts(tick'[p].applied)
      <3>1. CASE q = p
        BY <1>1, <2>3, <3>1, OnlyDecideSettles, FreshDecisionIsAccepted
      <3>2. CASE q # p
        BY <1>1, <2>3, <3>2, OneTickMoves DEF TypeInv
      <3>3. QED
        BY <3>1, <3>2
    <2>4. QED
      BY <1>1, <2>1, <2>2, <2>3 DEF Next, ProcessStep
  <1>2. TypeInv /\ [Next]_vars
          => [\A p \in Processes :
                /\ tick[p].pc = "decide" /\ unchangedSince(tick[p].read)
                /\ tick'[p].pc = "settle"
                => accepts(tick'[p].applied)]_vars
    BY <1>1
  <1> QED
    BY <1>2, TypesHold, PTL DEF Spec, FreshReadIsAccepted

-----------------------------------------------------------------------------
(***************************************************************************)
(* The log is true.  A row may name a transaction because the tick that    *)
(* writes it sent it, and names it alone because ticks never share one:    *)
(* what a live tick carries is on no row before that tick writes its own.  *)
(***************************************************************************)
Settling == {"trade", "after", "record"}

Pays(tx, delta, to) ==
  tx \in DOMAIN settlements /\ settlements[tx].delta = delta /\ settlements[tx].to = to

RowsTrue ==
  /\ \A k \in DOMAIN executions :
       executions[k].tx # Null => Pays(executions[k].tx, executions[k].applied, executions[k].to)
  /\ \A j, k \in DOMAIN executions :
       executions[k].tx # Null /\ executions[j].tx = executions[k].tx => j = k
  /\ \A k \in DOMAIN executions :
       executions[k].status = "ok" /\ executions[k].tx = Null => executions[k].applied = 0

Unlogged(tx) == \A k \in DOMAIN executions : executions[k].tx # tx

TicksTrue ==
  /\ \A p \in Processes : tick[p].tx # Null => Pays(tick[p].tx, tick[p].applied, tick[p].now)
  /\ \A p, q \in Processes : tick[p].tx # Null /\ tick[q].tx = tick[p].tx => q = p
  /\ \A p \in Processes : tick[p].tx # Null /\ tick[p].pc # "persist" => Unlogged(tick[p].tx)
  /\ \A p \in Processes : tick[p].pc \in Settling /\ tick[p].tx = Null => tick[p].applied = 0

LogInv == RowsTrue /\ TicksTrue

\* The steps of a tick, by what they do to the chain and to the log: it goes on,
\* or is over; it fails; it settles; it settles and fails; it records.
GoesOn(p) ==
  /\ UNCHANGED <<settlements, executions>>
  /\ \/ tick'[p].tx = Null /\ (tick'[p].pc \in Settling => tick'[p].applied = 0)
     \/ /\ tick'[p].tx = tick[p].tx /\ tick'[p].applied = tick[p].applied
        /\ tick'[p].now = tick[p].now /\ tick[p].pc # "persist"
        /\ tick'[p].pc \in Settling => tick[p].pc \in Settling

IsOver(p) == tick'[p].tx = Null /\ tick'[p].pc = "idle"

FailsLogged(p) ==
  /\ UNCHANGED settlements
  /\ executions' = Append(executions, row(p, "failed"))
  /\ IsOver(p)

Settles(p) ==
  /\ tick[p].pc = "settle"
  /\ settlements' = Append(settlements, settlement(p))
  /\ UNCHANGED executions
  /\ tick'[p].tx = Len(settlements') /\ tick'[p].applied = tick[p].applied
  /\ tick'[p].now = tick[p].now

SettlesUnheard(p) ==
  /\ tick[p].pc = "settle"
  /\ settlements' = Append(settlements, settlement(p))
  /\ UNCHANGED executions \/ executions' = Append(executions, row(p, "failed"))
  /\ IsOver(p)

Records(p) ==
  /\ tick[p].pc = "record"
  /\ UNCHANGED settlements
  /\ executions' = Append(executions, row(p, "ok"))
  /\ tick'[p].pc = "persist" /\ tick'[p].tx = tick[p].tx
  /\ tick'[p].applied = tick[p].applied /\ tick'[p].now = tick[p].now

LEMMA LogStepsAre ==
  ASSUME TypeInv, NEW p \in Processes, ProcessStep(p)
  PROVE  GoesOn(p) \/ FailsLogged(p) \/ Settles(p) \/ SettlesUnheard(p) \/ Records(p)
  <1>1. p \in DOMAIN tick /\ TickTyped(tick[p]) /\ Reached(tick[p])
    BY DEF TypeInv, TicksTyped
  <1>2. CASE Begin(p)
    BY <1>1, <1>2 DEF Begin, GoesOn, Idle, Settling
  <1>3. CASE BeginFails(p)
    BY <1>1, <1>3 DEF BeginFails, FailsLogged, IsOver, Reached, Idle
  <1>4. CASE Crash(p) \/ Persist(p)
    BY <1>1, <1>4 DEF Crash, Persist, GoesOn, Idle, Settling
  <1>5. CASE Throw(p) \/ ApplyPnlReverts(p) \/ RecordFails(p)
    <2>1. UNCHANGED settlements /\ WriteFailedRow(p)
      BY <1>5 DEF Throw, Fails, ApplyPnlReverts, RecordFails
    <2>2. tick'[p] = Idle
      BY <1>1, <2>1 DEF WriteFailedRow
    <2>3. QED
      BY <2>1, <2>2 DEF WriteFailedRow, GoesOn, FailsLogged, IsOver, Idle, Settling
  <1>6. CASE ApplyPnl(p)
    BY <1>1, <1>6 DEF ApplyPnl, Settles, TickTyped, Idle
  <1>7. CASE ApplyPnlUnheard(p)
    BY <1>1, <1>7 DEF ApplyPnlUnheard, WriteFailedRow, SettlesUnheard, IsOver, Idle
  <1>8. CASE RecordTrade(p)
    BY <1>1, <1>8 DEF RecordTrade, recordTrade, GoesOn, Settling, TickTyped, Idle
  <1>9. CASE Record(p)
    BY <1>1, <1>9 DEF Record, Records, TickTyped, Idle
  <1>10. ASSUME NEW total \in VaultTotals, ReadVault(p, total) PROVE GoesOn(p)
    <2>1. UNCHANGED <<settlements, executions>> /\ tick[p].pc \in {"before", "after"}
      BY <1>10 DEF ReadVault
    <2>2. /\ tick'[p].tx = tick[p].tx /\ tick'[p].applied = tick[p].applied
          /\ tick'[p].now = tick[p].now
      BY <1>10, Reads
    <2>3. tick'[p].pc = tick[p].pc \/ tick'[p].pc = IF tick[p].pc = "before" THEN "decide" ELSE "record"
      BY <1>10, Reads
    <2>4. QED
      BY <2>1, <2>2, <2>3 DEF GoesOn, Settling
  <1>11. ASSUME NEW state \in readTickState, NEW target \in Weights, Decide(p, state, target)
         PROVE  GoesOn(p)
    <2>1. UNCHANGED <<chain, settlements, oracleStep, tickState, executions,
                      navSnapshots, trades, begun>>
      BY <1>11, DecideFrame
    <2>2. tick[p].pc = "decide" /\ tick'[p].tx = tick[p].tx
      BY <1>11, Decides
    <2>3. tick'[p].pc # "settle" => tick'[p].applied = 0
      BY <1>11, Decides
    <2>4. tick[p].tx = Null
      BY <1>1, <2>2 DEF Reached
    <2>5. QED
      BY <2>1, <2>2, <2>3, <2>4 DEF GoesOn, Settling
  <1> QED
    BY <1>2, <1>3, <1>4, <1>5, <1>6, <1>7, <1>8, <1>9, <1>10, <1>11 DEF ProcessStep, Step

SettlementsGrow ==
  \A i \in DOMAIN settlements : i \in DOMAIN settlements' /\ settlements'[i] = settlements[i]

LEMMA OneSettlementMore ==
  ASSUME TypeInv, NEW e \in Payments, settlements' = Append(settlements, e)
  PROVE  /\ SettlementsGrow
         /\ Len(settlements') \in DOMAIN settlements' /\ Len(settlements') \in Nat
         /\ Len(settlements') \notin DOMAIN settlements
         /\ settlements'[Len(settlements')] = e
  BY DEF TypeInv, StoresTyped, SettlementsGrow

LEMMA RowsStayTrue ==
  ASSUME TypeInv, RowsTrue, SettlementsGrow, NEW r \in Rows, executions' = Append(executions, r),
         r.tx # Null => /\ r.tx \in DOMAIN settlements' /\ settlements'[r.tx].delta = r.applied
                        /\ settlements'[r.tx].to = r.to /\ Unlogged(r.tx),
         r.status = "ok" /\ r.tx = Null => r.applied = 0
  PROVE  RowsTrue'
  <1> DEFINE n == Len(executions) + 1
  <1>1. /\ Len(executions) \in Nat /\ DOMAIN executions = 1 .. Len(executions)
        /\ DOMAIN executions' = 1 .. n /\ executions'[n] = r
        /\ \A k \in DOMAIN executions : executions'[k] = executions[k]
    BY LogOfOneMore DEF TypeInv
  <1>2. \A k \in DOMAIN executions' : k \in DOMAIN executions \/ k = n
    BY <1>1
  <1>3. n \notin DOMAIN executions
    BY <1>1
  <1> HIDE DEF n
  <1>4. ASSUME NEW k \in DOMAIN executions', executions'[k].tx # Null
        PROVE  Pays(executions[k].tx, executions[k].applied, executions[k].to)'
    BY <1>1, <1>2, <1>4 DEF RowsTrue, Pays, SettlementsGrow
  <1>5. ASSUME NEW j \in DOMAIN executions', NEW k \in DOMAIN executions',
               executions'[k].tx # Null, executions'[j].tx = executions'[k].tx
        PROVE  j = k
    BY <1>1, <1>2, <1>5 DEF RowsTrue, Unlogged
  <1>6. ASSUME NEW k \in DOMAIN executions', executions'[k].status = "ok", executions'[k].tx = Null
        PROVE  executions'[k].applied = 0
    BY <1>1, <1>2, <1>6 DEF RowsTrue
  <1> QED
    BY <1>4, <1>5, <1>6 DEF RowsTrue

LEMMA RowsStayPut ==
  ASSUME RowsTrue, SettlementsGrow, UNCHANGED executions
  PROVE  RowsTrue'
  BY DEF RowsTrue, SettlementsGrow, Pays

LEMMA TicksStayTrue ==
  ASSUME TicksTrue, SettlementsGrow, NEW p \in Processes,
         \A q \in Processes \ {p} : tick'[q] = tick[q],
         Pays(tick[p].tx, tick[p].applied, tick[p].now)' \/ tick'[p].tx = Null,
         tick'[p].tx # Null => \A q \in Processes \ {p} : tick[q].tx # tick'[p].tx,
         Unlogged(tick[p].tx)' \/ tick'[p].tx = Null \/ tick'[p].pc = "persist",
         tick'[p].pc \in Settling /\ tick'[p].tx = Null => tick'[p].applied = 0,
         \A k \in DOMAIN executions' :
           \/ k \in DOMAIN executions /\ executions'[k] = executions[k]
           \/ executions'[k].tx \in {Null, tick[p].tx}
  PROVE  TicksTrue'
  <1>1. ASSUME NEW q \in Processes, tick'[q].tx # Null
        PROVE  Pays(tick[q].tx, tick[q].applied, tick[q].now)'
    <2>1. CASE q = p
      BY <1>1, <2>1
    <2>2. CASE q # p
      BY <1>1, <2>2 DEF TicksTrue, Pays, SettlementsGrow
    <2>3. QED
      BY <2>1, <2>2
  <1>2. ASSUME NEW q \in Processes, NEW o \in Processes, tick'[q].tx # Null, tick'[o].tx = tick'[q].tx
        PROVE  o = q
    BY <1>2 DEF TicksTrue
  <1>3. ASSUME NEW q \in Processes, tick'[q].tx # Null, tick'[q].pc # "persist"
        PROVE  Unlogged(tick[q].tx)'
    <2>1. CASE q = p
      BY <1>3, <2>1
    <2>2. CASE q # p
      <3>1. Unlogged(tick[q].tx) /\ tick[q].tx # Null /\ tick[q].tx # tick[p].tx
        BY <1>3, <2>2 DEF TicksTrue
      <3>2. QED
        BY <2>2, <3>1 DEF Unlogged
    <2>3. QED
      BY <2>1, <2>2
  <1>4. ASSUME NEW q \in Processes, tick'[q].pc \in Settling, tick'[q].tx = Null
        PROVE  tick'[q].applied = 0
    BY <1>4 DEF TicksTrue
  <1> QED
    BY <1>1, <1>2, <1>3, <1>4 DEF TicksTrue

\* A tick that fails has not written its row yet.
LEMMA FailingIsNotPersisting ==
  ASSUME TypeInv, NEW p \in Processes, ProcessStep(p), FailsLogged(p)
  PROVE  tick[p].tx # Null => tick[p].pc # "persist"
  <1>1. p \in DOMAIN tick /\ Reached(tick[p])
    BY DEF TypeInv, TicksTyped
  <1>2. SUFFICES ASSUME tick[p].pc = "persist" PROVE FALSE
    OBVIOUS
  <1>3. UNCHANGED executions
    <2>1. ~(Begin(p) \/ BeginFails(p) \/ ApplyPnl(p) \/ ApplyPnlReverts(p) \/ ApplyPnlUnheard(p)
              \/ RecordTrade(p) \/ Record(p) \/ RecordFails(p) \/ Throw(p))
      BY <1>2 DEF Begin, BeginFails, ApplyPnl, ApplyPnlReverts, ApplyPnlUnheard, RecordTrade, recordTrade,
                  Record, RecordFails, Throw
    <2>2. ASSUME NEW total, ReadVault(p, total) PROVE FALSE
      BY <1>2, <2>2 DEF ReadVault
    <2>3. ASSUME NEW state, NEW target, Decide(p, state, target) PROVE UNCHANGED executions
      BY <2>3, DecideFrame
    <2>4. Crash(p) \/ Persist(p) => UNCHANGED executions
      BY DEF Crash, Persist
    <2>5. QED
      BY <2>1, <2>2, <2>3, <2>4 DEF ProcessStep, Step
  <1>4. Len(executions') = Len(executions) + 1 /\ Len(executions) \in Nat
    BY RowIsTyped, LogOfOneMore DEF FailsLogged, TypeInv
  <1> QED
    BY <1>3, <1>4

LEMMA SettlementIsTyped ==
  ASSUME TypeInv, NEW p \in Processes, tick[p].pc = "settle"
  PROVE  settlement(p) \in Payments
  BY DEF TypeInv, TicksTyped, TickTyped, Reached, Decided, settlement, Payments

LEMMA LogStaysTrue ==
  ASSUME TypeInv, LogInv, NEW p \in Processes, ProcessStep(p)
  PROVE  LogInv'
  <1>1. \A q \in Processes \ {p} : tick'[q] = tick[q]
    BY OneTickMoves DEF TypeInv
  <1>2. /\ tick[p].tx # Null => Pays(tick[p].tx, tick[p].applied, tick[p].now)
        /\ tick[p].tx # Null => \A q \in Processes \ {p} : tick[q].tx # tick[p].tx
        /\ tick[p].tx # Null /\ tick[p].pc # "persist" => Unlogged(tick[p].tx)
        /\ tick[p].pc \in Settling /\ tick[p].tx = Null => tick[p].applied = 0
    BY DEF LogInv, TicksTrue
  <1>3. PICK failed \in Rows, ok \in Rows :
          /\ failed = row(p, "failed") /\ failed.status = "failed"
          /\ failed.tx = tick[p].tx /\ failed.applied = tick[p].applied /\ failed.to = tick[p].now
          /\ ok = row(p, "ok") /\ ok.status = "ok"
          /\ ok.tx = tick[p].tx /\ ok.applied = tick[p].applied /\ ok.to = tick[p].now
    BY RowIsTyped DEF TypeInv, row
  <1>4. RowsTrue /\ TicksTrue
    BY DEF LogInv
  <1>5. \A q \in Processes : tick[q].tx # Null => tick[q].tx \in DOMAIN settlements
    BY DEF LogInv, TicksTrue, Pays
  <1>6. \A k \in DOMAIN executions : executions[k].tx # Null => executions[k].tx \in DOMAIN settlements
    BY DEF LogInv, RowsTrue, Pays
  <1>7. DOMAIN settlements \subseteq Nat /\ Null \notin Nat
    BY Constants DEF TypeInv, StoresTyped
  <1>8. CASE GoesOn(p)
    <2>1. SettlementsGrow /\ UNCHANGED executions
      BY <1>8 DEF GoesOn, SettlementsGrow
    <2>2. RowsTrue'
      BY <1>4, <2>1, RowsStayPut
    <2>3. /\ Pays(tick[p].tx, tick[p].applied, tick[p].now)' \/ tick'[p].tx = Null
          /\ tick'[p].tx # Null => \A q \in Processes \ {p} : tick[q].tx # tick'[p].tx
          /\ Unlogged(tick[p].tx)' \/ tick'[p].tx = Null
          /\ tick'[p].pc \in Settling /\ tick'[p].tx = Null => tick'[p].applied = 0
      BY <1>2, <1>8, <2>1 DEF GoesOn, Pays, Unlogged
    <2>4. TicksTrue'
      BY <1>1, <1>4, <2>1, <2>3, TicksStayTrue
    <2>5. QED
      BY <2>2, <2>4 DEF LogInv
  <1>9. CASE FailsLogged(p)
    <2>1. SettlementsGrow /\ executions' = Append(executions, failed) /\ IsOver(p)
      BY <1>3, <1>9 DEF FailsLogged, SettlementsGrow
    <2>2. tick[p].tx # Null => tick[p].pc # "persist"
      BY <1>9, FailingIsNotPersisting
    <2>3. failed.tx # Null => /\ failed.tx \in DOMAIN settlements'
                              /\ settlements'[failed.tx].delta = failed.applied
                              /\ settlements'[failed.tx].to = failed.to
                              /\ Unlogged(failed.tx)
      BY <1>2, <1>3, <2>1, <2>2 DEF Pays, SettlementsGrow
    <2>4. RowsTrue'
      BY <1>3, <1>4, <2>1, <2>3, RowsStayTrue
    <2>5. \A k \in DOMAIN executions' :
            \/ k \in DOMAIN executions /\ executions'[k] = executions[k]
            \/ executions'[k].tx \in {Null, tick[p].tx}
      BY <1>3, <2>1, LogOfOneMore DEF TypeInv
    <2>6. tick'[p].tx = Null /\ tick'[p].pc \notin Settling
      BY <2>1 DEF IsOver, Settling
    <2>7. TicksTrue'
      BY <1>1, <1>4, <2>1, <2>5, <2>6, TicksStayTrue
    <2>8. QED
      BY <2>4, <2>7 DEF LogInv
  <1>10. CASE Settles(p)
    <2>1. PICK e \in Payments : /\ e = settlement(p) /\ settlements' = Append(settlements, e)
                                /\ e.delta = tick[p].applied /\ e.to = tick[p].now
      BY <1>10, SettlementIsTyped DEF Settles, settlement, TypeInv
    <2>2. /\ SettlementsGrow /\ Len(settlements') \notin DOMAIN settlements
          /\ Len(settlements') \in DOMAIN settlements' /\ Len(settlements') \in Nat
          /\ settlements'[Len(settlements')] = e
      BY <2>1, OneSettlementMore
    <2>3. /\ UNCHANGED executions
          /\ tick'[p].tx = Len(settlements') /\ tick'[p].applied = tick[p].applied
          /\ tick'[p].now = tick[p].now
      BY <1>10 DEF Settles
    <2>4. RowsTrue'
      BY <1>4, <2>2, <2>3, RowsStayPut
    <2>5. Pays(tick[p].tx, tick[p].applied, tick[p].now)'
      BY <2>1, <2>2, <2>3 DEF Pays
    <2>6. tick'[p].tx # Null /\ \A q \in Processes \ {p} : tick[q].tx # tick'[p].tx
      BY <1>5, <1>7, <2>2, <2>3
    <2>7. Unlogged(tick[p].tx)'
      BY <1>6, <1>7, <2>2, <2>3 DEF Unlogged
    <2>8. TicksTrue'
      BY <1>1, <1>4, <2>2, <2>3, <2>5, <2>6, <2>7, TicksStayTrue
    <2>9. QED
      BY <2>4, <2>8 DEF LogInv
  <1>11. CASE SettlesUnheard(p)
    <2>1. PICK e \in Payments : settlements' = Append(settlements, e)
      BY <1>11, SettlementIsTyped DEF SettlesUnheard, TypeInv
    <2>2. SettlementsGrow
      BY <2>1, OneSettlementMore
    <2>3. tick[p].tx = Null
      BY <1>11 DEF SettlesUnheard, TypeInv, TicksTyped, Reached
    <2>4. UNCHANGED executions \/ executions' = Append(executions, failed)
      BY <1>3, <1>11 DEF SettlesUnheard
    <2>5. RowsTrue'
      <3>1. CASE UNCHANGED executions
        BY <1>4, <2>2, <3>1, RowsStayPut
      <3>2. CASE executions' = Append(executions, failed)
        BY <1>3, <1>4, <2>2, <2>3, <3>2, RowsStayTrue
      <3>3. QED
        BY <2>4, <3>1, <3>2
    <2>6. \A k \in DOMAIN executions' :
            \/ k \in DOMAIN executions /\ executions'[k] = executions[k]
            \/ executions'[k].tx \in {Null, tick[p].tx}
      <3>1. CASE UNCHANGED executions
        BY <3>1
      <3>2. CASE executions' = Append(executions, failed)
        BY <1>3, <3>2, LogOfOneMore DEF TypeInv
      <3>3. QED
        BY <2>4, <3>1, <3>2
    <2>7. tick'[p].tx = Null /\ tick'[p].pc \notin Settling
      BY <1>11 DEF SettlesUnheard, IsOver, Settling
    <2>8. TicksTrue'
      BY <1>1, <1>4, <2>2, <2>6, <2>7, TicksStayTrue
    <2>9. QED
      BY <2>5, <2>8 DEF LogInv
  <1>12. CASE Records(p)
    <2>1. /\ SettlementsGrow /\ executions' = Append(executions, ok)
          /\ tick[p].pc = "record" /\ tick'[p].pc = "persist"
          /\ tick'[p].tx = tick[p].tx
          /\ tick'[p].applied = tick[p].applied /\ tick'[p].now = tick[p].now
      BY <1>3, <1>12 DEF Records, SettlementsGrow
    <2>2. /\ ok.tx # Null => /\ ok.tx \in DOMAIN settlements'
                             /\ settlements'[ok.tx].delta = ok.applied
                             /\ settlements'[ok.tx].to = ok.to
                             /\ Unlogged(ok.tx)
          /\ ok.status = "ok" /\ ok.tx = Null => ok.applied = 0
      BY <1>2, <1>3, <2>1 DEF Pays, SettlementsGrow, Settling
    <2>3. RowsTrue'
      BY <1>4, <2>1, <2>2, RowsStayTrue
    <2>4. \A k \in DOMAIN executions' :
            \/ k \in DOMAIN executions /\ executions'[k] = executions[k]
            \/ executions'[k].tx \in {Null, tick[p].tx}
      BY <1>3, <2>1, LogOfOneMore DEF TypeInv
    <2>5. /\ Pays(tick[p].tx, tick[p].applied, tick[p].now)' \/ tick'[p].tx = Null
          /\ tick'[p].tx # Null => \A q \in Processes \ {p} : tick[q].tx # tick'[p].tx
          /\ tick'[p].pc \notin Settling
      BY <1>2, <2>1 DEF Pays, SettlementsGrow, Settling
    <2>6. TicksTrue'
      BY <1>1, <1>4, <2>1, <2>4, <2>5, TicksStayTrue
    <2>7. QED
      BY <2>3, <2>6 DEF LogInv
  <1> QED
    BY <1>8, <1>9, <1>10, <1>11, <1>12, LogStepsAre

-----------------------------------------------------------------------------
(***************************************************************************)
(* The log is whole.  The ticks begun are the rows and the ticks that have *)
(* still to write theirs, as long as no process dies and no insert fails.  *)
(***************************************************************************)
Owed == {p \in Processes : tick[p].pc \notin {"idle", "persist"}}

LogSpared == Faults \cap {"log", "crash"} = {}

LEMMA CountSteps ==
  ASSUME TypeInv, LogSpared, NEW p \in Processes, ProcessStep(p)
  PROVE  \/ /\ begun' = begun + 1 /\ UNCHANGED executions
            /\ tick[p].pc = "idle" /\ tick'[p].pc = "before"
         \/ /\ begun' = begun + 1 /\ Len(executions') = Len(executions) + 1
            /\ UNCHANGED tick
         \/ /\ UNCHANGED begun /\ Len(executions') = Len(executions) + 1
            /\ tick[p].pc \notin {"idle", "persist"} /\ tick'[p].pc \in {"idle", "persist"}
         \/ /\ UNCHANGED <<begun, executions>>
            /\ tick[p].pc \in {"idle", "persist"} <=> tick'[p].pc \in {"idle", "persist"}
  <1>1. p \in DOMAIN tick /\ TickTyped(tick[p])
    BY DEF TypeInv, TicksTyped
  <1>2. "log" \notin Faults /\ "crash" \notin Faults
    BY DEF LogSpared
  <1>3. \A status \in {"ok", "failed"} :
          executions' = Append(executions, row(p, status)) => Len(executions') = Len(executions) + 1
    BY RowIsTyped, LogOfOneMore DEF TypeInv
  <1>4. CASE Begin(p)
    BY <1>1, <1>4 DEF Begin, Idle
  <1>5. CASE BeginFails(p)
    BY <1>3, <1>5 DEF BeginFails
  <1>6. ASSUME WriteFailedRow(p), UNCHANGED begun, tick[p].pc \notin {"idle", "persist"}
        PROVE  /\ UNCHANGED begun /\ Len(executions') = Len(executions) + 1
               /\ tick[p].pc \notin {"idle", "persist"} /\ tick'[p].pc \in {"idle", "persist"}
    BY <1>1, <1>2, <1>3, <1>6 DEF WriteFailedRow, Idle
  <1>7. CASE ApplyPnlReverts(p) \/ ApplyPnlUnheard(p) \/ RecordFails(p) \/ Throw(p)
    <2>1. WriteFailedRow(p) /\ UNCHANGED begun /\ tick[p].pc \notin {"idle", "persist"}
      BY <1>7 DEF ApplyPnlReverts, ApplyPnlUnheard, RecordFails, Throw, Fails
    <2>2. QED
      BY <1>6, <2>1
  <1>8. ~Crash(p)
    BY <1>2 DEF Crash
  <1>9. CASE Persist(p)
    BY <1>1, <1>9 DEF Persist, Idle
  <1>10. CASE Record(p)
    BY <1>1, <1>3, <1>10 DEF Record, TickTyped, Idle
  <1>11. CASE ApplyPnl(p) \/ RecordTrade(p)
    BY <1>1, <1>11 DEF ApplyPnl, RecordTrade, recordTrade, TickTyped, Idle
  <1>12. ASSUME NEW total \in VaultTotals, ReadVault(p, total)
         PROVE  /\ UNCHANGED <<begun, executions>>
                /\ tick[p].pc \in {"idle", "persist"} <=> tick'[p].pc \in {"idle", "persist"}
    <2>1. UNCHANGED <<begun, executions>> /\ tick[p].pc \in {"before", "after"}
      BY <1>12 DEF ReadVault
    <2>2. tick'[p].pc = tick[p].pc \/ tick'[p].pc = IF tick[p].pc = "before" THEN "decide" ELSE "record"
      BY <1>12, Reads
    <2>3. QED
      BY <2>1, <2>2
  <1>13. ASSUME NEW state \in readTickState, NEW target \in Weights, Decide(p, state, target)
         PROVE  /\ UNCHANGED <<begun, executions>>
                /\ tick[p].pc \in {"idle", "persist"} <=> tick'[p].pc \in {"idle", "persist"}
    <2>1. UNCHANGED <<begun, executions>>
      BY <1>13, DecideFrame
    <2>2. tick[p].pc = "decide"
      BY <1>13, Decides
    <2>3. tick'[p].pc = IF tick[p].read.totalShares # 0 THEN "settle"
                        ELSE IF heldWeight(state) # target THEN "trade" ELSE "after"
      BY <1>13, Decides
    <2>4. QED
      BY <2>1, <2>2, <2>3
  <1> QED
    BY <1>4, <1>5, <1>7, <1>8, <1>9, <1>10, <1>11, <1>12, <1>13 DEF ProcessStep, Step

LEMMA TheOwedAreFinite == IsFiniteSet(Owed) /\ Cardinality(Owed) \in Nat
  BY ProcessesAssumption, FS_Subset, FS_CardinalityType DEF Owed

LEMMA EveryTickStaysLogged ==
  ASSUME TypeInv, EveryTickIsLogged, UNCHANGED conditions, NEW p \in Processes, ProcessStep(p)
  PROVE  EveryTickIsLogged'
  <1>1. SUFFICES ASSUME LogSpared
                 PROVE  begun' = Len(executions') + Cardinality(Owed')
    BY DEF EveryTickIsLogged, LogSpared, Faults, Owed
  <1>2. begun = Len(executions) + Cardinality(Owed)
    BY <1>1 DEF EveryTickIsLogged, LogSpared, Owed
  <1>3. /\ IsFiniteSet(Owed) /\ Cardinality(Owed) \in Nat /\ Len(executions) \in Nat
    BY TheOwedAreFinite DEF TypeInv, LogTyped
  <1>4. \A q \in Processes \ {p} : tick'[q] = tick[q]
    BY OneTickMoves DEF TypeInv
  <1>5. CASE /\ begun' = begun + 1 /\ UNCHANGED executions
             /\ tick[p].pc = "idle" /\ tick'[p].pc = "before"
    <2>1. Owed' = Owed \cup {p} /\ p \notin Owed
      BY <1>4, <1>5 DEF Owed
    <2>2. Cardinality(Owed') = Cardinality(Owed) + 1
      BY <1>3, <2>1, FS_AddElement
    <2>3. QED
      BY <1>2, <1>3, <1>5, <2>2
  <1>6. CASE /\ begun' = begun + 1 /\ Len(executions') = Len(executions) + 1
             /\ UNCHANGED tick
    BY <1>2, <1>3, <1>6 DEF Owed
  <1>7. CASE /\ UNCHANGED begun /\ Len(executions') = Len(executions) + 1
             /\ tick[p].pc \notin {"idle", "persist"} /\ tick'[p].pc \in {"idle", "persist"}
    <2>1. Owed' = Owed \ {p} /\ p \in Owed
      BY <1>4, <1>7 DEF Owed
    <2>2. Cardinality(Owed') = Cardinality(Owed) - 1
      BY <1>3, <2>1, FS_RemoveElement
    <2>3. QED
      BY <1>2, <1>3, <1>7, <2>2
  <1>8. CASE /\ UNCHANGED <<begun, executions>>
             /\ tick[p].pc \in {"idle", "persist"} <=> tick'[p].pc \in {"idle", "persist"}
    <2>1. Owed' = Owed
      BY <1>4, <1>8 DEF Owed
    <2>2. QED
      BY <1>2, <1>8, <2>1
  <1> QED
    BY <1>1, <1>5, <1>6, <1>7, <1>8, CountSteps

-----------------------------------------------------------------------------
LEMMA TheLogIsTrueAndWhole == Spec => [](TypeInv /\ LogInv /\ EveryTickIsLogged)
  <1>1. Init => TypeInv /\ LogInv /\ EveryTickIsLogged
    <2>1. SUFFICES ASSUME Init PROVE TypeInv /\ LogInv /\ EveryTickIsLogged
      OBVIOUS
    <2>2. /\ executions = <<>> /\ begun = 0
          /\ \A p \in Processes : tick[p].tx = Null /\ tick[p].pc = "idle"
      BY <2>1 DEF Init, Idle
    <2>3. LogInv
      BY <2>2 DEF LogInv, RowsTrue, TicksTrue, Settling
    <2>4. Cardinality(Owed) = 0 /\ Len(executions) = 0
      <3>1. Owed = {}
        BY <2>2 DEF Owed
      <3>2. QED
        BY <2>2, <3>1, FS_EmptySet
    <2>5. EveryTickIsLogged
      BY <2>2, <2>4 DEF EveryTickIsLogged, Owed
    <2>6. QED
      BY <2>1, <2>3, <2>5, TypesHoldInit
  <1>2. TypeInv /\ LogInv /\ EveryTickIsLogged /\ [Next]_vars
          => (TypeInv /\ LogInv /\ EveryTickIsLogged)'
    <2>1. SUFFICES ASSUME TypeInv, LogInv, EveryTickIsLogged, [Next]_vars
                   PROVE  LogInv' /\ EveryTickIsLogged'
      BY TypesAreKept
    <2>2. ASSUME UNCHANGED <<settlements, executions, tick, begun, conditions>>
          PROVE  LogInv' /\ EveryTickIsLogged'
      BY <2>1, <2>2 DEF LogInv, RowsTrue, TicksTrue, Pays, Unlogged, EveryTickIsLogged, Faults
    <2>3. CASE UNCHANGED vars
      BY <2>2, <2>3 DEF vars
    <2>4. CASE Invest /\ UNCHANGED conditions
      BY <2>2, <2>4, InvestFrame
    <2>5. ASSUME NEW p \in Processes, ProcessStep(p), UNCHANGED conditions
          PROVE  LogInv' /\ EveryTickIsLogged'
      BY <2>1, <2>5, LogStaysTrue, EveryTickStaysLogged
    <2>6. QED
      BY <2>1, <2>3, <2>4, <2>5 DEF Next, ProcessStep
  <1> QED
    BY <1>1, <1>2, PTL DEF Spec

\* The log names what the chain settled, and every tick that is over, once.
THEOREM TheLogTellsTheTruth == Spec => []LogTellsTheTruth
  <1>1. TypeInv /\ LogInv /\ EveryTickIsLogged => LogTellsTheTruth
    <2>1. SUFFICES ASSUME TypeInv, LogInv, EveryTickIsLogged PROVE LogTellsTheTruth
      OBVIOUS
    <2>2. \A p \in Processes : TickRecord(tick[p])
      <3>1. \A p \in Processes : tick[p].tx \in DOMAIN settlements \cup {Null}
        BY <2>1 DEF LogInv, TicksTrue, Pays
      <3>2. \A p \in Processes : TickTyped(tick[p])
        BY <2>1 DEF TypeInv, TicksTyped
      <3>3. QED
        BY <3>1, <3>2 DEF TickTyped, TickRecord, Stages, Steps
    <2>3. V!TypeOK /\ conditions \in Conditions /\ begun \in 0 .. conditions.ticks
      BY <2>1 DEF TypeInv, StoresTyped
    <2>4. oracleStep \in 1 .. Len(Prices)
      BY <2>1, Constants DEF TypeInv, StoresTyped
    <2>5. tickState.weight \in Weights \cup {Null} /\ tickState.step \in DOMAIN Prices \cup {Null}
      BY <2>1 DEF TypeInv, StoresTyped, NoFile, Steps
    <2>6. TypeOK
      BY <2>2, <2>3, <2>4, <2>5 DEF TypeOK
    <2>7. RowsMatchTheChain
      BY <2>1 DEF LogInv, RowsTrue, Pays, RowsMatchTheChain
    <2>8. QED
      BY <2>1, <2>6, <2>7 DEF LogTellsTheTruth
  <1> QED
    BY <1>1, TheLogIsTrueAndWhole, PTL

-----------------------------------------------------------------------------
(***************************************************************************)
(* One process, and no fault after the settlement: then the file is the    *)
(* newest ok row, except between that row and its write, nothing paid      *)
(* reaches past what is recorded, and the last trade ends on what is held. *)
(***************************************************************************)
lastTo == IF okRows = {} THEN Null ELSE executions[Max(okRows)].to
lastTraded == IF trades = <<>> THEN 0 ELSE trades[Len(trades)].to

BeforeItSettles == {"idle", "before", "decide", "settle"}

FileAgrees ==
  /\ tickState.step = lastTo
  /\ okRows = {} => tickState = NoFile
  /\ okRows # {} => tickState.weight = weightsFromLastExecution

InStep(p) ==
  /\ tick[p].pc # "idle" => tick[p].now = oracleStep
  /\ tickState.step # Null => tickState.step <= oracleStep
  /\ IF tick[p].pc = "persist"
     THEN /\ okRows # {} /\ lastTo = tick[p].now
          /\ weightsFromLastExecution = tick[p].target
     ELSE FileAgrees
  /\ tick[p].pc \in {"settle", "trade", "after", "record"}
       => tick[p].from = tickState.step /\ tick[p].held = weightsFromLastExecution
  /\ lastTraded = IF tick[p].pc \in {"after", "record"} THEN tick[p].target
                  ELSE weightsFromLastExecution
  /\ \A i \in DOMAIN settlements :
       IF tick[p].pc \in BeforeItSettles
       THEN tickState.step # Null /\ settlements[i].to <= tickState.step
       ELSE settlements[i].to <= tick[p].now

Tiled == \A j, k \in okRows : following(j, k) => executions[k].from = executions[j].to

Replays ==
  \A k \in DOMAIN trades : trades[k].from = IF k = 1 THEN 0 ELSE trades[k - 1].to

OrderlyInv ==
  Orderly =>
    /\ \A p \in conditions.processes : InStep(p)
    /\ \A q \in Processes \ conditions.processes : tick[q].pc = "idle"
    /\ NoIntervalPaidTwice /\ Tiled /\ Replays

LEMMA OrderlyIs ==
  ASSUME TypeInv, Orderly
  PROVE  /\ \E p \in Processes : conditions.processes = {p}
         /\ Faults \cap {"readState", "receipt", "recordTrade", "readAfter", "record", "log",
                         "persist", "crash"} = {}
  <1>1. IsFiniteSet(conditions.processes) /\ conditions.processes \subseteq Processes
    BY Constants, ProcessesAssumption, FS_Subset DEF TypeInv, StoresTyped
  <1>2. \E p : conditions.processes = {p}
    BY <1>1, FS_Singleton DEF Orderly
  <1>3. \E p \in Processes : conditions.processes = {p}
    BY <1>1, <1>2
  <1>4. Faults \subseteq {"advance", "readBefore", "decide", "applyPnl"}
    BY DEF Orderly, BeforeSettling
  <1> QED
    BY <1>3, <1>4

\* A step that leaves no ok row leaves the edge of the log where it is; an ok row
\* moves it to the price it was recorded at.
LEMMA EdgeOfTheLog ==
  ASSUME TypeInv, NEW r \in Rows, executions' = Append(executions, r)
  PROVE  /\ r.status # "ok" => lastTo' = lastTo
         /\ r.status = "ok" => lastTo' = r.to /\ okRows' # {}
  <1>1. /\ DOMAIN executions' = 1 .. Len(executions) + 1 /\ Len(executions) \in Nat
        /\ \A k \in DOMAIN executions : executions'[k] = executions[k]
        /\ executions'[Len(executions) + 1] = r
    BY LogOfOneMore DEF TypeInv
  <1>2. ASSUME r.status # "ok" PROVE lastTo' = lastTo
    <2>1. okRows' = okRows
      BY <1>2, LogOfOneMore DEF TypeInv
    <2>2. okRows # {} => executions'[Max(okRows)] = executions[Max(okRows)]
      BY <1>1 DEF TypeInv, LogTyped, Newest, okRows
    <2>3. QED
      BY <2>1, <2>2 DEF lastTo
  <1>3. ASSUME r.status = "ok" PROVE lastTo' = r.to /\ okRows' # {}
    <2>1. okRows' = okRows \cup {Len(executions) + 1} /\ Max(okRows') = Len(executions) + 1
      BY <1>3, LogOfOneMore DEF TypeInv
    <2>2. QED
      BY <1>1, <2>1 DEF lastTo
  <1> QED
    BY <1>2, <1>3

\* What one process can do when it is alone and nothing fails after it settles.
BacksOut(p) ==
  /\ tick[p].pc \in BeforeItSettles
  /\ UNCHANGED <<settlements, oracleStep, tickState, trades>>
  /\ executions' = Append(executions, row(p, "failed"))
  /\ tick'[p].pc = "idle"

LooksUp(p) ==
  /\ UNCHANGED <<settlements, oracleStep, tickState, trades, executions>>
  /\ tick'[p].now = tick[p].now /\ tick'[p].from = tick[p].from
  /\ tick'[p].held = tick[p].held /\ tick'[p].target = tick[p].target
  /\ \/ tick'[p].pc = tick[p].pc
     \/ tick[p].pc = "before" /\ tick'[p].pc = "decide"
     \/ tick[p].pc = "after" /\ tick'[p].pc = "record"

LEMMA OrderlySteps ==
  ASSUME TypeInv, Orderly, NEW p \in Processes, ProcessStep(p)
  PROVE  \/ Begin(p)
         \/ BacksOut(p)
         \/ LooksUp(p)
         \/ \E target \in Weights : Decide(p, tickState, target)
         \/ ApplyPnl(p)
         \/ RecordTrade(p)
         \/ Record(p)
         \/ Persist(p) /\ tickState' = [weight |-> tick[p].target, step |-> tick[p].now]
  <1>1. p \in DOMAIN tick /\ TickTyped(tick[p]) /\ Reached(tick[p])
    BY DEF TypeInv, TicksTyped
  <1>2. /\ "readState" \notin Faults /\ "receipt" \notin Faults /\ "recordTrade" \notin Faults
        /\ "readAfter" \notin Faults /\ "record" \notin Faults /\ "log" \notin Faults
        /\ "persist" \notin Faults /\ "crash" \notin Faults
    BY OrderlyIs
  <1>3. CASE BeginFails(p)
    BY <1>1, <1>3 DEF BeginFails, BacksOut, BeforeItSettles
  <1>4. CASE Throw(p) \/ ApplyPnlReverts(p)
    <2>1. /\ tick[p].pc \in BeforeItSettles /\ WriteFailedRow(p)
          /\ UNCHANGED <<settlements, oracleStep, tickState, trades>>
      BY <1>2, <1>4 DEF Throw, Fails, ApplyPnlReverts, BeforeItSettles
    <2>2. QED
      BY <1>1, <1>2, <2>1 DEF WriteFailedRow, BacksOut, Idle
  <1>5. ~ApplyPnlUnheard(p) /\ ~RecordFails(p) /\ ~Crash(p)
    BY <1>2 DEF ApplyPnlUnheard, RecordFails, Crash
  <1>6. Persist(p) => tickState' = [weight |-> tick[p].target, step |-> tick[p].now]
    BY <1>2 DEF Persist
  <1>7. ASSUME NEW total \in VaultTotals, ReadVault(p, total) PROVE LooksUp(p)
    <2>1. UNCHANGED <<settlements, oracleStep, tickState, trades, executions>>
      BY <1>7 DEF ReadVault
    <2>2. /\ tick[p].pc \in {"before", "after"}
          /\ tick'[p].now = tick[p].now /\ tick'[p].from = tick[p].from
          /\ tick'[p].held = tick[p].held /\ tick'[p].target = tick[p].target
      BY <1>7, Reads
    <2>3. tick'[p].pc = tick[p].pc \/ tick'[p].pc = IF tick[p].pc = "before" THEN "decide" ELSE "record"
      BY <1>7, Reads
    <2>4. QED
      BY <2>1, <2>2, <2>3 DEF LooksUp
  <1>8. readTickState = {tickState}
    BY <1>2 DEF readTickState
  <1> QED
    BY <1>3, <1>4, <1>5, <1>6, <1>7, <1>8 DEF ProcessStep, Step

Books(p) == InStep(p) /\ NoIntervalPaidTwice /\ Tiled /\ Replays

\* The numbers in them.
LEMMA BooksAreNumbers ==
  ASSUME TypeInv, NEW p \in Processes
  PROVE  /\ oracleStep \in Nat /\ Null \notin Nat
         /\ tickState.step \in Nat \cup {Null}
         /\ tick[p].pc # "idle" => tick[p].now \in Nat
         /\ \A i \in DOMAIN settlements : settlements[i].to \in Nat
         /\ DOMAIN settlements = 1 .. Len(settlements) /\ Len(settlements) \in Nat
         /\ DOMAIN trades = 1 .. Len(trades) /\ Len(trades) \in Nat
         /\ trades # <<>> <=> Len(trades) # 0
         /\ okRows \subseteq DOMAIN executions
         /\ okRows # {} => lastTo \in Nat /\ Max(okRows) \in okRows
  <1>1. Steps \subseteq Nat /\ Null \notin Nat
    BY Constants
  <1>2. oracleStep \in Nat /\ tickState.step \in Nat \cup {Null}
    <2>1. oracleStep \in Steps /\ tickState \in {NoFile} \cup [weight : Weights, step : Steps]
      BY DEF TypeInv, StoresTyped
    <2>2. NoFile.step = Null
      BY DEF NoFile
    <2>3. tickState.step \in Steps \cup {Null}
      BY <2>1, <2>2
    <2>4. QED
      BY <1>1, <2>1, <2>3
  <1>3. tick[p].pc # "idle" => tick[p].now \in Nat
    BY <1>1 DEF TypeInv, TicksTyped, Reached
  <1>4. /\ \A i \in DOMAIN settlements : settlements[i].to \in Nat
        /\ DOMAIN settlements = 1 .. Len(settlements) /\ Len(settlements) \in Nat
    <2>1. settlements \in Seq(Payments)
      BY DEF TypeInv, StoresTyped
    <2>2. DOMAIN settlements = 1 .. Len(settlements) /\ Len(settlements) \in Nat
      BY <2>1
    <2>3. \A i \in DOMAIN settlements : settlements[i] \in Payments
      BY <2>1
    <2>4. QED
      BY <1>1, <2>2, <2>3 DEF Payments
  <1>5. /\ DOMAIN trades = 1 .. Len(trades) /\ Len(trades) \in Nat
        /\ trades # <<>> <=> Len(trades) # 0
    BY DEF TypeInv, StoresTyped
  <1>6. okRows \subseteq DOMAIN executions
    BY DEF okRows
  <1>7. okRows # {} => lastTo \in Nat /\ Max(okRows) \in okRows
    <2>1. \A k \in DOMAIN executions : executions[k].to \in 0 .. Len(Prices)
      <3>1. executions \in Seq(Rows)
        BY DEF TypeInv, LogTyped
      <3>2. \A k \in DOMAIN executions : executions[k] \in Rows
        BY <3>1
      <3>3. QED
        BY <3>2 DEF Rows
    <2>2. QED
      BY <1>6, <2>1, Constants DEF TypeInv, LogTyped, Newest, lastTo
  <1> QED
    BY <1>1, <1>2, <1>3, <1>4, <1>5, <1>6, <1>7

LEMMA BooksWhenBegun ==
  ASSUME TypeInv, NEW p \in Processes, Books(p), Begin(p)
  PROVE  Books(p)'
  <1>1. /\ tick[p].pc = "idle" /\ oracleStep' = oracleStep + 1
        /\ UNCHANGED <<settlements, tickState, executions, trades>>
        /\ tick'[p].pc = "before" /\ tick'[p].now = oracleStep'
    BY DEF Begin, TypeInv, TicksTyped, Idle
  <1>2. /\ okRows' = okRows /\ weightsFromLastExecution' = weightsFromLastExecution
        /\ lastTo' = lastTo /\ lastTraded' = lastTraded
    BY <1>1 DEF okRows, weightsFromLastExecution, lastTo, lastTraded
  <1>3. InStep(p)'
    BY <1>1, <1>2, BooksAreNumbers DEF Books, InStep, FileAgrees, BeforeItSettles
  <1>4. NoIntervalPaidTwice' /\ Tiled' /\ Replays'
    BY <1>1, <1>2 DEF Books, NoIntervalPaidTwice, Tiled, following, Replays
  <1> QED
    BY <1>3, <1>4 DEF Books

LEMMA BooksWhenBackedOut ==
  ASSUME TypeInv, NEW p \in Processes, Books(p), BacksOut(p)
  PROVE  Books(p)'
  <1>1. /\ tick[p].pc \in BeforeItSettles /\ tick'[p].pc = "idle"
        /\ UNCHANGED <<settlements, oracleStep, tickState, trades>>
    BY DEF BacksOut
  <1>2. PICK r \in Rows : executions' = Append(executions, r) /\ r.status # "ok"
    BY RowIsTyped DEF BacksOut, TypeInv
  <1>3. /\ okRows' = okRows /\ weightsFromLastExecution' = weightsFromLastExecution
        /\ \A k \in DOMAIN executions : executions'[k] = executions[k]
    BY <1>2, LogOfOneMore DEF TypeInv
  <1>4. lastTo' = lastTo /\ lastTraded' = lastTraded
    BY <1>1, <1>2, EdgeOfTheLog DEF lastTraded
  <1>5. InStep(p)'
    BY <1>1, <1>3, <1>4 DEF Books, InStep, FileAgrees, BeforeItSettles
  <1>6. NoIntervalPaidTwice' /\ Replays'
    BY <1>1 DEF Books, NoIntervalPaidTwice, Replays
  <1>7. Tiled'
    BY <1>3, BooksAreNumbers DEF Books, Tiled, following
  <1> QED
    BY <1>5, <1>6, <1>7 DEF Books

LEMMA BooksWhenLookedUp ==
  ASSUME TypeInv, NEW p \in Processes, Books(p), LooksUp(p)
  PROVE  Books(p)'
  <1>1. UNCHANGED <<settlements, oracleStep, tickState, trades, executions>>
    BY DEF LooksUp
  <1>2. /\ okRows' = okRows /\ weightsFromLastExecution' = weightsFromLastExecution
        /\ lastTo' = lastTo /\ lastTraded' = lastTraded
    BY <1>1 DEF okRows, weightsFromLastExecution, lastTo, lastTraded
  <1>3. InStep(p)'
    BY <1>1, <1>2 DEF Books, LooksUp, InStep, FileAgrees, BeforeItSettles
  <1>4. NoIntervalPaidTwice' /\ Tiled' /\ Replays'
    BY <1>1, <1>2 DEF Books, NoIntervalPaidTwice, Tiled, following, Replays
  <1> QED
    BY <1>3, <1>4 DEF Books

LEMMA BooksWhenDecided ==
  ASSUME TypeInv, NEW p \in Processes, Books(p), tickState \in readTickState,
         NEW target \in Weights, Decide(p, tickState, target)
  PROVE  Books(p)'
  <1>1. UNCHANGED <<settlements, oracleStep, tickState, trades, executions>>
    BY DecideFrame
  <1>2. /\ okRows' = okRows /\ weightsFromLastExecution' = weightsFromLastExecution
        /\ lastTo' = lastTo /\ lastTraded' = lastTraded
    BY <1>1 DEF okRows, weightsFromLastExecution, lastTo, lastTraded
  <1>3. /\ tick[p].pc = "decide" /\ tick'[p].now = tick[p].now
        /\ tick'[p].held = heldWeight(tickState) /\ tick'[p].from = tickState.step
        /\ tick'[p].target = target
    BY Decides
  <1>4. /\ tick'[p].pc \in {"settle", "trade", "after"}
        /\ tick'[p].pc = "after" => heldWeight(tickState) = target
    <2>1. tick'[p].pc = IF tick[p].read.totalShares # 0 THEN "settle"
                        ELSE IF heldWeight(tickState) # target THEN "trade" ELSE "after"
      BY Decides
    <2>2. QED
      BY <2>1
  <1>5. /\ FileAgrees /\ lastTraded = weightsFromLastExecution /\ tick[p].now = oracleStep
        /\ tickState.step # Null => tickState.step <= oracleStep
        /\ \A i \in DOMAIN settlements : tickState.step # Null /\ settlements[i].to <= tickState.step
    BY <1>3 DEF Books, InStep, BeforeItSettles
  <1>6. heldWeight(tickState) = weightsFromLastExecution
    <2>1. CASE okRows = {}
      BY <1>5, <2>1 DEF FileAgrees, heldWeight
    <2>2. CASE okRows # {}
      BY <1>5, <2>2, BooksAreNumbers DEF FileAgrees, heldWeight, NoFile
    <2>3. QED
      BY <2>1, <2>2
  <1>7. \A i \in DOMAIN settlements : settlements[i].to <= tick[p].now
    BY <1>5, BooksAreNumbers
  <1>8. InStep(p)'
    BY <1>1, <1>2, <1>3, <1>4, <1>5, <1>6, <1>7 DEF InStep, FileAgrees, BeforeItSettles
  <1>9. NoIntervalPaidTwice' /\ Tiled' /\ Replays'
    BY <1>1, <1>2 DEF Books, NoIntervalPaidTwice, Tiled, following, Replays
  <1> QED
    BY <1>8, <1>9 DEF Books

LEMMA BooksWhenSettled ==
  ASSUME TypeInv, NEW p \in Processes, Books(p), ApplyPnl(p)
  PROVE  Books(p)'
  <1>1. /\ tick[p].pc = "settle" /\ UNCHANGED <<oracleStep, tickState, trades, executions>>
    BY DEF ApplyPnl
  <1>2. /\ tick'[p].pc = IF tick[p].trades THEN "trade" ELSE "after"
        /\ tick'[p].now = tick[p].now /\ tick'[p].from = tick[p].from
        /\ tick'[p].held = tick[p].held /\ tick'[p].target = tick[p].target
    BY DEF ApplyPnl, TypeInv, TicksTyped, TickTyped, Idle
  <1>3. tick[p].trades <=> tick[p].held # tick[p].target
    BY <1>1 DEF TypeInv, TicksTyped, Reached, Decided
  <1>4. PICK e \in Payments : /\ settlements' = Append(settlements, e)
                              /\ e.from = tick[p].from /\ e.to = tick[p].now
    BY <1>1, SettlementIsTyped DEF ApplyPnl, settlement
  <1>5. /\ DOMAIN settlements' = 1 .. Len(settlements) + 1
        /\ \A i \in DOMAIN settlements : settlements'[i] = settlements[i]
        /\ settlements'[Len(settlements) + 1] = e
    BY <1>4 DEF TypeInv, StoresTyped
  <1>6. /\ okRows' = okRows /\ weightsFromLastExecution' = weightsFromLastExecution
        /\ lastTo' = lastTo /\ lastTraded' = lastTraded
    BY <1>1 DEF okRows, weightsFromLastExecution, lastTo, lastTraded
  <1>7. /\ FileAgrees /\ lastTraded = weightsFromLastExecution /\ tick[p].now = oracleStep
        /\ tick[p].from = tickState.step /\ tick[p].held = weightsFromLastExecution
        /\ tickState.step # Null => tickState.step <= oracleStep
        /\ \A i \in DOMAIN settlements : tickState.step # Null /\ settlements[i].to <= tickState.step
    BY <1>1 DEF Books, InStep, BeforeItSettles
  <1>8. \A i \in DOMAIN settlements' : i \in DOMAIN settlements \/ i = Len(settlements) + 1
    BY <1>5, BooksAreNumbers
  <1>9. \A i \in DOMAIN settlements' : settlements'[i].to <= tick[p].now
    BY <1>1, <1>4, <1>5, <1>7, <1>8, BooksAreNumbers
  <1>10. InStep(p)'
    BY <1>1, <1>2, <1>3, <1>6, <1>7, <1>9 DEF InStep, FileAgrees, BeforeItSettles
  <1>11. NoIntervalPaidTwice'
    <2>1. SUFFICES ASSUME NEW i \in DOMAIN settlements', NEW j \in DOMAIN settlements', i < j
                   PROVE  settlements'[j].from = Null \/ settlements'[i].to <= settlements'[j].from
      BY DEF NoIntervalPaidTwice
    <2>2. i \in DOMAIN settlements
      BY <1>5, <2>1, BooksAreNumbers
    <2>3. CASE j \in DOMAIN settlements
      BY <1>5, <2>1, <2>2, <2>3 DEF Books, NoIntervalPaidTwice
    <2>4. CASE j = Len(settlements) + 1
      BY <1>4, <1>5, <1>7, <2>2, <2>4
    <2>5. QED
      BY <1>8, <2>3, <2>4
  <1>12. Tiled' /\ Replays'
    BY <1>1, <1>6 DEF Books, Tiled, following, Replays
  <1> QED
    BY <1>10, <1>11, <1>12 DEF Books

LEMMA BooksWhenTraded ==
  ASSUME TypeInv, NEW p \in Processes, Books(p), RecordTrade(p)
  PROVE  Books(p)'
  <1>1. tick[p].pc = "trade" /\ UNCHANGED <<settlements, oracleStep, tickState, executions>>
    BY DEF RecordTrade, recordTrade
  <1>2. /\ tick'[p].pc = "after"
        /\ tick'[p].now = tick[p].now /\ tick'[p].from = tick[p].from
        /\ tick'[p].held = tick[p].held /\ tick'[p].target = tick[p].target
    BY DEF RecordTrade, recordTrade, TypeInv, TicksTyped, TickTyped, Idle
  <1>3. PICK e \in Fills : /\ trades' = Append(trades, e)
                           /\ e.from = tick[p].held /\ e.to = tick[p].target
    BY <1>1 DEF RecordTrade, recordTrade, TypeInv, TicksTyped, Reached, Decided, Fills
  <1>4. /\ DOMAIN trades' = 1 .. Len(trades) + 1 /\ Len(trades') = Len(trades) + 1
        /\ \A i \in DOMAIN trades : trades'[i] = trades[i]
        /\ trades'[Len(trades) + 1] = e /\ trades' # <<>>
    <2>1. trades \in Seq(Fills)
      BY DEF TypeInv, StoresTyped
    <2>2. QED
      BY <1>3, <2>1
  <1>5. okRows' = okRows /\ weightsFromLastExecution' = weightsFromLastExecution /\ lastTo' = lastTo
    BY <1>1 DEF okRows, weightsFromLastExecution, lastTo
  <1>6. lastTraded' = tick[p].target
    BY <1>3, <1>4 DEF lastTraded
  <1>7. InStep(p)'
    BY <1>1, <1>2, <1>5, <1>6 DEF Books, InStep, FileAgrees, BeforeItSettles
  <1>8. Replays'
    <2>1. e.from = lastTraded
      BY <1>1, <1>3 DEF Books, InStep
    <2>2. e.from = IF Len(trades) + 1 = 1 THEN 0 ELSE trades[Len(trades)].to
      BY <2>1, BooksAreNumbers DEF lastTraded
    <2>3. SUFFICES ASSUME NEW k \in DOMAIN trades'
                   PROVE  trades'[k].from = IF k = 1 THEN 0 ELSE trades'[k - 1].to
      BY DEF Replays
    <2>4. k # 1 => k - 1 \in DOMAIN trades
      BY <1>4, BooksAreNumbers
    <2>5. CASE k \in DOMAIN trades
      BY <1>4, <2>4, <2>5 DEF Books, Replays
    <2>6. CASE k = Len(trades) + 1
      BY <1>4, <2>2, <2>4, <2>6, BooksAreNumbers
    <2>7. QED
      BY <1>4, <2>5, <2>6, BooksAreNumbers
  <1>9. NoIntervalPaidTwice' /\ Tiled'
    BY <1>1, <1>5 DEF Books, NoIntervalPaidTwice, Tiled, following
  <1> QED
    BY <1>7, <1>8, <1>9 DEF Books

LEMMA BooksWhenRecorded ==
  ASSUME TypeInv, NEW p \in Processes, Books(p), Record(p)
  PROVE  Books(p)'
  <1>1. tick[p].pc = "record" /\ UNCHANGED <<settlements, oracleStep, tickState, trades>>
    BY DEF Record
  <1>2. /\ tick'[p].pc = "persist"
        /\ tick'[p].now = tick[p].now /\ tick'[p].target = tick[p].target
    BY DEF Record, TypeInv, TicksTyped, TickTyped, Idle
  <1>3. PICK r \in Rows : /\ executions' = Append(executions, r) /\ r.status = "ok"
                          /\ r.weight = tick[p].target
                          /\ r.from = tick[p].from /\ r.to = tick[p].now
    BY RowIsTyped DEF Record, TypeInv, row
  <1>4. /\ okRows' = okRows \cup {Len(executions) + 1}
        /\ weightsFromLastExecution' = tick[p].target
        /\ DOMAIN executions = 1 .. Len(executions) /\ Len(executions) \in Nat
        /\ \A k \in DOMAIN executions : executions'[k] = executions[k]
        /\ executions'[Len(executions) + 1] = r
    BY <1>3, LogOfOneMore DEF TypeInv
  <1>5. lastTo' = tick[p].now /\ okRows' # {} /\ lastTraded' = lastTraded
    BY <1>1, <1>3, EdgeOfTheLog DEF lastTraded
  <1>6. InStep(p)'
    BY <1>1, <1>2, <1>4, <1>5 DEF Books, InStep, BeforeItSettles
  <1>7. Tiled'
    <2>1. SUFFICES ASSUME NEW j \in okRows', NEW k \in okRows', following(j, k)'
                   PROVE  executions'[k].from = executions'[j].to
      BY DEF Tiled
    <2>2. \A i \in okRows : i \in 1 .. Len(executions)
      BY <1>4, BooksAreNumbers
    <2>3. j \in okRows /\ j < k
      BY <1>4, <2>1, <2>2 DEF following
    <2>4. CASE k \in okRows
      <3>1. following(j, k)
        BY <1>4, <2>1 DEF following
      <3>2. QED
        BY <1>4, <2>2, <2>3, <2>4, <3>1 DEF Books, Tiled
    <2>5. CASE k = Len(executions) + 1
      <3>1. \A i \in okRows : i <= j
        BY <1>4, <2>1, <2>2, <2>3, <2>5 DEF following
      <3>2. Max(okRows) \in okRows /\ \A i \in okRows : i <= Max(okRows)
        BY <2>3 DEF TypeInv, LogTyped, Newest
      <3>3. j = Max(okRows)
        BY <2>2, <2>3, <3>1, <3>2
      <3>4. executions[j].to = lastTo
        BY <2>3, <3>3 DEF lastTo
      <3>5. tick[p].from = lastTo
        BY <1>1 DEF Books, InStep, FileAgrees
      <3>6. QED
        BY <1>3, <1>4, <2>2, <2>3, <2>5, <3>4, <3>5
    <2>6. QED
      BY <1>4, <2>4, <2>5
  <1>8. NoIntervalPaidTwice' /\ Replays'
    BY <1>1 DEF Books, NoIntervalPaidTwice, Replays
  <1> QED
    BY <1>6, <1>7, <1>8 DEF Books

LEMMA BooksWhenPersisted ==
  ASSUME TypeInv, NEW p \in Processes, Books(p), Persist(p),
         tickState' = [weight |-> tick[p].target, step |-> tick[p].now]
  PROVE  Books(p)'
  <1>1. tick[p].pc = "persist" /\ UNCHANGED <<settlements, oracleStep, trades, executions>>
    BY DEF Persist
  <1>2. tick'[p].pc = "idle"
    BY DEF Persist, TypeInv, TicksTyped, Idle
  <1>3. /\ okRows' = okRows /\ weightsFromLastExecution' = weightsFromLastExecution
        /\ lastTo' = lastTo /\ lastTraded' = lastTraded
    BY <1>1 DEF okRows, weightsFromLastExecution, lastTo, lastTraded
  <1>4. /\ okRows # {} /\ lastTo = tick[p].now /\ weightsFromLastExecution = tick[p].target
        /\ tick[p].now = oracleStep /\ lastTraded = weightsFromLastExecution
        /\ \A i \in DOMAIN settlements : settlements[i].to <= tick[p].now
    BY <1>1 DEF Books, InStep, BeforeItSettles
  <1>5. tickState'.step = tick[p].now /\ tickState'.weight = tick[p].target /\ tick[p].now \in Nat
    BY <1>1, BooksAreNumbers
  <1>6. InStep(p)'
    BY <1>1, <1>2, <1>3, <1>4, <1>5, BooksAreNumbers DEF InStep, FileAgrees, BeforeItSettles
  <1>7. NoIntervalPaidTwice' /\ Tiled' /\ Replays'
    BY <1>1, <1>3 DEF Books, NoIntervalPaidTwice, Tiled, following, Replays
  <1> QED
    BY <1>6, <1>7 DEF Books

LEMMA InvestKeepsBooks ==
  ASSUME OrderlyInv, UNCHANGED <<settlements, oracleStep, tickState, executions, trades,
                                 conditions, tick>>
  PROVE  OrderlyInv'
  <1>1. SUFFICES ASSUME Orderly PROVE OrderlyInv'
    BY DEF OrderlyInv, Orderly, Faults
  <1>2. /\ okRows' = okRows /\ weightsFromLastExecution' = weightsFromLastExecution
        /\ lastTo' = lastTo /\ lastTraded' = lastTraded
    BY DEF okRows, weightsFromLastExecution, lastTo, lastTraded
  <1>3. \A p \in conditions.processes : InStep(p) => InStep(p)'
    BY <1>2 DEF InStep, FileAgrees, BeforeItSettles
  <1>4. NoIntervalPaidTwice' /\ Tiled' /\ Replays'
    BY <1>1, <1>2 DEF OrderlyInv, NoIntervalPaidTwice, Tiled, following, Replays
  <1> QED
    BY <1>1, <1>3, <1>4 DEF OrderlyInv

LEMMA BooksStayOrderly ==
  ASSUME TypeInv, OrderlyInv, UNCHANGED conditions, NEW q \in Processes, ProcessStep(q)
  PROVE  OrderlyInv'
  <1>1. SUFFICES ASSUME Orderly PROVE OrderlyInv'
    BY DEF OrderlyInv, Orderly, Faults
  <1>2. PICK p \in Processes : conditions.processes = {p}
    BY <1>1, OrderlyIs
  <1>3. Books(p) /\ \A o \in Processes \ {p} : tick[o].pc = "idle"
    BY <1>1, <1>2 DEF OrderlyInv, Books
  <1>4. q = p
    <2>1. SUFFICES ASSUME q # p PROVE FALSE
      OBVIOUS
    <2>2. tick[q].pc = "idle" /\ q \notin conditions.processes
      BY <1>2, <1>3, <2>1
    <2>3. ~Begin(q) /\ ~BeginFails(q) /\ ~Crash(q)
      BY <2>2 DEF Begin, BeginFails, Crash
    <2>4. ~(ApplyPnl(q) \/ ApplyPnlReverts(q) \/ ApplyPnlUnheard(q) \/ RecordTrade(q)
              \/ Record(q) \/ RecordFails(q) \/ Persist(q) \/ Throw(q))
      BY <2>2 DEF ApplyPnl, ApplyPnlReverts, ApplyPnlUnheard, RecordTrade, recordTrade, Record, RecordFails,
                  Persist, Throw
    <2>5. ASSUME NEW total, ReadVault(q, total) PROVE FALSE
      BY <2>2, <2>5 DEF ReadVault
    <2>6. ASSUME NEW state \in readTickState, NEW target \in Weights, Decide(q, state, target)
          PROVE  FALSE
      BY <2>2, <2>6, Decides
    <2>7. QED
      BY <2>3, <2>4, <2>5, <2>6 DEF ProcessStep, Step
  <1>5. Books(p)'
    <2>1. ASSUME NEW target \in Weights, Decide(p, tickState, target) PROVE Books(p)'
      BY <1>3, <2>1, BooksWhenDecided DEF readTickState
    <2>2. ASSUME Persist(p), tickState' = [weight |-> tick[p].target, step |-> tick[p].now]
          PROVE  Books(p)'
      BY <1>3, <2>2, BooksWhenPersisted
    <2>3. QED
      BY <1>1, <1>3, <1>4, <2>1, <2>2, OrderlySteps, BooksWhenBegun, BooksWhenBackedOut,
         BooksWhenLookedUp, BooksWhenSettled, BooksWhenTraded, BooksWhenRecorded
  <1>6. \A o \in Processes \ {p} : tick'[o] = tick[o]
    BY <1>4, OneTickMoves DEF TypeInv
  <1> QED
    BY <1>2, <1>3, <1>5, <1>6 DEF OrderlyInv, Books

LEMMA TheBooksAreOrderly == Spec => [](TypeInv /\ OrderlyInv)
  <1>1. Init => TypeInv /\ OrderlyInv
    <2>1. SUFFICES ASSUME Init PROVE OrderlyInv
      BY TypesHoldInit
    <2>2. /\ executions = <<>> /\ settlements = <<>> /\ trades = <<>> /\ tickState = NoFile
          /\ \A p \in Processes : tick[p].pc = "idle"
      BY <2>1 DEF Init, Idle
    <2>3. okRows = {} /\ weightsFromLastExecution = 0 /\ lastTo = Null /\ lastTraded = 0
      BY <2>2 DEF okRows, weightsFromLastExecution, lastTo, lastTraded
    <2>4. conditions.processes \subseteq Processes
      BY <2>1, Constants DEF Init
    <2>5. \A p \in conditions.processes : InStep(p)
      BY <2>2, <2>3, <2>4 DEF InStep, FileAgrees, NoFile, BeforeItSettles
    <2>6. NoIntervalPaidTwice /\ Tiled /\ Replays
      BY <2>2, <2>3 DEF NoIntervalPaidTwice, Tiled, Replays
    <2>7. QED
      BY <2>2, <2>5, <2>6 DEF OrderlyInv
  <1>2. TypeInv /\ OrderlyInv /\ [Next]_vars => (TypeInv /\ OrderlyInv)'
    <2>1. SUFFICES ASSUME TypeInv, OrderlyInv, [Next]_vars PROVE OrderlyInv'
      BY TypesAreKept
    <2>2. CASE UNCHANGED vars
      BY <2>1, <2>2, InvestKeepsBooks DEF vars
    <2>3. CASE Invest /\ UNCHANGED conditions
      BY <2>1, <2>3, InvestFrame, InvestKeepsBooks
    <2>4. ASSUME NEW p \in Processes, ProcessStep(p), UNCHANGED conditions PROVE OrderlyInv'
      BY <2>1, <2>4, BooksStayOrderly
    <2>5. QED
      BY <2>1, <2>2, <2>3, <2>4 DEF Next, ProcessStep
  <1> QED
    BY <1>1, <1>2, PTL DEF Spec

\* With one process and no fault after the settlement, no price interval is paid
\* for twice and the successful ticks leave none out.
THEOREM EveryIntervalIsPaidOnce == Spec => []IntervalsTile
  <1>1. TypeInv /\ OrderlyInv => IntervalsTile
    BY DEF OrderlyInv, IntervalsTile, Tiled
  <1> QED
    BY <1>1, TheBooksAreOrderly, PTL

\* Under the same conditions a tick prices what the log says is held, and the
\* recorded trades replay into it.
THEOREM TheTradesExplainTheBook == Spec => []TradesReplay
  <1>1. TypeInv /\ OrderlyInv => TradesReplay
    <2>1. SUFFICES ASSUME TypeInv, OrderlyInv, Orderly
                   PROVE  /\ HeldFollowsTheLog
                          /\ trades # <<>> => trades[1].from = 0
                          /\ \A k \in 2 .. Len(trades) : trades[k].from = trades[k - 1].to
      BY DEF TradesReplay
    <2>2. HeldFollowsTheLog
      BY <2>1 DEF OrderlyInv, InStep, HeldFollowsTheLog
    <2>3. trades \in Seq(Fills)
      BY <2>1 DEF TypeInv, StoresTyped
    <2>4. trades # <<>> => 1 \in DOMAIN trades
      BY <2>3
    <2>5. \A k \in 2 .. Len(trades) : k \in DOMAIN trades /\ k # 1
      BY <2>3
    <2>6. QED
      BY <2>1, <2>2, <2>4, <2>5 DEF OrderlyInv, Replays
  <1> QED
    BY <1>1, TheBooksAreOrderly, PTL

=============================================================================
