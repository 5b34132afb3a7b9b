---------------------------- MODULE CatalogProofs ----------------------------
(***************************************************************************)
(* Proofs about the three pages and the backend they read: that the vault  *)
(* behind them is StrategyVault's, that the log tells its totals, that a   *)
(* page does not go back in time, and that the forms' arithmetic rounds    *)
(* the way they say, for every vault, clock, cache and number of requests. *)
(***************************************************************************)
EXTENDS CatalogProperties, StrategyVaultProofs, SequenceTheorems

(***************************************************************************)
(* The vault behind the pages.                                             *)
(***************************************************************************)

\* A run keeps the conditions it began under.
LEMMA ConditionsAreKept == SiteSpec => [](conditions \in Conditions)
  <1>1. SiteInit => conditions \in Conditions
    BY DEF SiteInit, PageInit, CatalogInit
  <1>2. conditions \in Conditions /\ [SiteNext]_siteVars => (conditions \in Conditions)'
    BY DEF SiteNext, PageNext, siteVars, vars_, catalogVars
  <1>3. QED
    BY <1>1, <1>2, PTL DEF SiteSpec

\* What the pages do leaves the vault alone.
LEMMA PagesLeaveTheBackend ==
  ASSUME Reload \/ onSettled \/ RetryLine \/ (\E chosen \in Ranges : setRange(chosen))
           \/ (\E n \in Loads : Land(n) \/ CutOff(n) \/ Plot(n) \/ CutLine(n))
  PROVE  UNCHANGED backend
  BY DEF Reload, onSettled, RetryLine, setRange, asksForLine, Land, CutOff, Plot, CutLine

LEMMA ServingLeavesTheSources ==
  ASSUME Serving
  PROVE  UNCHANGED <<vaultVars, now, sources>>
  BY DEF Serving, Arrive, readTotals, Answer, fetchLogs, blockTimestamps, ReadFails

LEMMA SiteStepIsAVaultStep ==
  ASSUME conditions \in Conditions, [SiteNext]_siteVars
  PROVE  [Next]_vars
  <1>1. CASE Sources
    <2>1. ASSUME NEW i \in conditions.traders, NEW a \in Amounts, Deposit(i, a) \/ Withdraw(i, a)
          PROVE  Next
      <3>1. i \in Investors
        BY ConditionsAssumption
      <3>2. QED
        BY <2>1, <3>1 DEF Deposit, Withdraw, Next, Trade
    <2>2. ASSUME NEW d \in Deltas, Settle(d) PROVE Next
      BY <2>2 DEF Settle, Next
    <2>3. ASSUME Snapshot \/ File \/ Time PROVE UNCHANGED vars
      BY <2>3 DEF Snapshot, File, Time, vaultVars, vars
    <2>4. QED
      BY <1>1, <2>1, <2>2, <2>3 DEF Sources
  <1>2. CASE Serving
    BY <1>2, ServingLeavesTheSources DEF vaultVars, vars
  <1>3. CASE UNCHANGED backend
    BY <1>3 DEF backend, vaultVars, vars
  <1>4. CASE UNCHANGED vars_
    BY <1>4 DEF vars_, catalogVars, vaultVars, vars
  <1>5. QED
    BY <1>1, <1>2, <1>3, <1>4, PagesLeaveTheBackend DEF SiteNext, PageNext, siteVars

(***************************************************************************)
(* Catalog composes the pages' backend with the contract: whatever is read *)
(* and shown beside it, the vault does what StrategyVault.sol does, so all *)
(* that is proved of StrategyVault is true behind the pages.               *)
(***************************************************************************)
THEOREM TheSiteKeepsTheVault == SiteSpec => Spec
  <1>1. SiteInit => Init
    BY DEF SiteInit, PageInit, CatalogInit
  <1>2. conditions \in Conditions /\ [SiteNext]_siteVars => [Next]_vars
    BY SiteStepIsAVaultStep
  <1>3. QED
    BY <1>1, <1>2, ConditionsAreKept, PTL DEF SiteSpec, Spec

LEMMA TheVaultIsTyped == SiteSpec => []TypeOK
  BY TheSiteKeepsTheVault, TypeCorrect, PTL

-----------------------------------------------------------------------------
(***************************************************************************)
(* The amounts a form quotes.                                              *)
(***************************************************************************)

\* The price shown is not above the exact one.
LEMMA PriceIsFloored ==
  ASSUME TypeOK, totalShares > 0
  PROVE  navPerShare \in Nat /\ navPerShare * totalShares <= totalManagedAssets * Par
  <1>1. totalManagedAssets * Par \in Nat
    BY ParAssumption DEF TypeOK
  <1>2. QED
    BY <1>1, FloorDivision DEF TypeOK, navPerShare

LEMMA QuotesFollow ==
  ASSUME TypeOK
  PROVE  quotesFollowTheVault
  <1> SUFFICES ASSUME NEW n \in Amounts
               PROVE  /\ n <= totalShares => quotedAmount(n, navPerShare) <= convertToAssets(n)
                      /\ navPerShare > 0 => convertToShares(n) <= quotedShares(n, navPerShare)
    BY DEF quotesFollowTheVault
  <1>1. n \in Nat /\ Par \in Nat /\ Par > 0
    BY AmountsAssumption, ParAssumption
  <1>2. CASE totalShares = 0
    <2>1. navPerShare = Par /\ convertToShares(n) = n /\ convertToAssets(n) = 0
      BY <1>2 DEF navPerShare, convertToShares, convertToAssets
    <2>2. (0 * Par) \div Par = 0 /\ (n * Par) \div Par = n
      <3>1. n * Par \in Nat /\ (n * Par) \div Par \in Nat
        BY <1>1, FloorDivision
      <3>2. n <= (n * Par) \div Par
        BY <1>1, <3>1, FloorIsGreatest
      <3>3. ((n * Par) \div Par) * Par <= n * Par
        BY <1>1, <3>1, FloorDivision
      <3>4. (n * Par) \div Par <= n
        BY <1>1, <3>1, <3>3, CancelFactor
      <3>5. QED
        BY <1>1, <3>1, <3>2, <3>4
    <2>3. QED
      BY <1>1, <1>2, <2>1, <2>2 DEF quotedAmount, quotedShares
  <1>3. CASE totalShares > 0
    <2>1. /\ navPerShare \in Nat /\ navPerShare * totalShares <= totalManagedAssets * Par
          /\ totalShares \in Nat /\ totalManagedAssets \in Nat
      BY <1>3, PriceIsFloored DEF TypeOK
    <2>2. quotedAmount(n, navPerShare) <= convertToAssets(n)
      BY <1>1, <1>3, <2>1, ClaimFollowsPrice DEF quotedAmount, convertToAssets
    <2>3. ASSUME navPerShare > 0 PROVE convertToShares(n) <= quotedShares(n, navPerShare)
      <3>1. totalManagedAssets > 0
        <4>1. navPerShare * totalShares > 0
          BY <1>3, <2>1, <2>3
        <4>2. QED
          BY <1>1, <2>1, <4>1
      <3>2. totalShares * navPerShare <= Par * totalManagedAssets
        BY <1>1, <2>1
      <3>3. (n * totalShares) \div totalManagedAssets <= (n * Par) \div navPerShare
        BY <1>1, <2>1, <2>3, <3>1, <3>2, ClaimFollowsPrice
      <3>4. QED
        BY <1>3, <2>1, <2>3, <3>1, <3>3 DEF quotedShares, convertToShares
    <2>4. QED
      BY <2>2, <2>3
  <1>4. QED
    BY <1>2, <1>3 DEF TypeOK

(***************************************************************************)
(* InvestPanel.tsx quotes at the price it shows, which is rounded down:    *)
(* whatever the vault has been through, a redemption pays at least what    *)
(* was quoted for it, and an allocation buys at most the shares quoted.    *)
(***************************************************************************)
THEOREM TheQuotesFollowTheVault == SiteSpec => []quotesFollowTheVault
  BY TheVaultIsTyped, QuotesFollow, PTL

\* A part worked out by rounding down is at most the amount it was worked
\* out for, and is the whole for the whole.
LEMMA RoundTrip ==
  ASSUME NEW x \in Nat, NEW h \in Nat, NEW v \in Nat, h > 0, v > 0
  PROVE  /\ (x * h) \div v \in Nat
         /\ (((x * h) \div v) * v) \div h <= x
         /\ (v * h) \div v = h /\ (h * v) \div h = v
  <1>1. x * h \in Nat /\ v * h \in Nat /\ h * v \in Nat
    OBVIOUS
  <1>2. PICK b \in Nat : b = (x * h) \div v /\ v * b <= x * h
    BY <1>1, FloorDivision
  <1>3. b * v \in Nat /\ (b * v) \div h \in Nat /\ h * ((b * v) \div h) <= b * v
    BY FloorDivision
  <1>4. (b * v) \div h <= x
    <2>1. PICK y \in Nat : y = (b * v) \div h /\ h * y <= b * v
      BY <1>3
    <2>2. y * h <= x * h
      <3>1. h * y = y * h /\ b * v = v * b
        OBVIOUS
      <3>2. PICK p \in Int, q \in Int, r \in Int : p = y * h /\ q = v * b /\ r = x * h
        OBVIOUS
      <3>3. p <= q /\ q <= r
        BY <1>2, <2>1, <3>1, <3>2
      <3>4. QED
        BY <3>2, <3>3
    <2>3. QED
      BY <2>1, <2>2, CancelFactor
  <1>5. ASSUME NEW m \in Nat, NEW n \in Nat, m > 0 PROVE (m * n) \div m = n
    <2>1. m * n \in Nat /\ n * m <= m * n
      OBVIOUS
    <2>2. n <= (m * n) \div m
      BY <1>5, <2>1, FloorIsGreatest
    <2>3. PICK y \in Nat : y = (m * n) \div m /\ m * y <= m * n
      BY <1>5, <2>1, FloorDivision
    <2>4. y * m <= n * m
      BY <2>3
    <2>5. y <= n
      BY <1>5, <2>4, CancelFactor
    <2>6. QED
      BY <2>2, <2>3, <2>5
  <1>6. QED
    BY <1>2, <1>4, <1>5

LEMMA PartsDoNotOverdraw ==
  ASSUME TypeOK, totalShares > 0, NEW h \in Nat, NEW basis \in Nat
  PROVE  neverOverdraws(toPositionDto([shares |-> h, basis |-> basis], totalsNow))
  <1> DEFINE value == (h * totalManagedAssets) \div totalShares
  <1>1. totalShares \in Nat /\ totalManagedAssets \in Nat /\ h * totalManagedAssets \in Nat
    BY DEF TypeOK
  <1>2. value \in Nat /\ totalShares * value <= h * totalManagedAssets
    BY <1>1, FloorDivision
  <1>3. PICK dto : dto = toPositionDto([shares |-> h, basis |-> basis], totalsNow)
    OBVIOUS
  <1>4. dto.shares = h /\ dto.currentValue = value
    BY <1>1, <1>3 DEF toPositionDto, positionValue, totalsNow
  <1> HIDE DEF value
  <1>5. ASSUME NEW amount \in 1 .. value
        PROVE  LET order == requested(dto, amount, FALSE) IN
               /\ order.shares <= h
               /\ order.receive <= amount
               /\ amount = value => order = requested(dto, amount, TRUE)
               /\ order.shares <= totalShares => order.receive <= convertToAssets(order.shares)
    <2>1. amount \in Nat /\ amount > 0 /\ value > 0 /\ amount <= value
      BY <1>2, <1>5
    <2>2. h > 0
      <3>1. ASSUME h = 0 PROVE FALSE
        <4>1. totalShares * value <= 0
          BY <1>1, <1>2, <3>1
        <4>2. totalShares * value > 0
          BY <1>1, <1>2, <2>1
        <4>3. QED
          BY <1>1, <1>2, <4>1, <4>2
      <3>2. QED
        BY <3>1
    <2>3. PICK burnt \in Nat : burnt = (amount * h) \div value
      BY <1>2, <2>1, <2>2, RoundTrip
    <2>4. burnt <= h
      BY <1>2, <2>1, <2>3, PartOfWhole
    <2>5. Min({burnt, h}) = burnt
      BY <2>4 DEF Min
    <2>6. sharesForAmount(amount, h, value) = burnt
      BY <1>2, <2>1, <2>2, <2>3, <2>5 DEF sharesForAmount
    <2>7. PICK paid \in Nat : paid = (burnt * value) \div h /\ paid <= amount
      <3>1. burnt * value \in Nat
        BY <1>2
      <3>2. (burnt * value) \div h \in Nat /\ (burnt * value) \div h <= amount
        BY <1>2, <2>1, <2>2, <2>3, <3>1, FloorDivision, RoundTrip
      <3>3. QED
        BY <3>2
    <2>8. PICK receive \in Nat : receive = amountForShares(burnt, h, value) /\ receive <= paid
      <3>1. CASE burnt = 0
        <4>1. amountForShares(burnt, h, value) = 0
          BY <3>1 DEF amountForShares
        <4>2. QED
          BY <4>1
      <3>2. CASE burnt > 0
        <4>1. amountForShares(burnt, h, value) = paid
          BY <1>2, <2>1, <2>2, <2>7, <3>2 DEF amountForShares
        <4>2. QED
          BY <4>1
      <3>3. QED
        BY <3>1, <3>2
    <2>9. requested(dto, amount, FALSE) = [shares |-> burnt, receive |-> receive]
      BY <1>4, <2>6, <2>8, Zenon DEF requested
    <2>10. requested(dto, amount, TRUE) = [shares |-> h, receive |-> value]
      BY <1>4, Zenon DEF requested
    <2>11. ASSUME amount = value PROVE burnt = h /\ receive = value
      <3>1. burnt = h
        BY <1>2, <2>1, <2>2, <2>3, <2>11, RoundTrip
      <3>2. paid = value
        BY <1>2, <2>1, <2>2, <2>7, <3>1, RoundTrip
      <3>3. amountForShares(burnt, h, value) = paid
        BY <1>2, <2>1, <2>2, <2>7, <3>1 DEF amountForShares
      <3>4. QED
        BY <2>8, <3>1, <3>2, <3>3
    <2>12. receive <= convertToAssets(burnt)
      <3>1. value * totalShares <= totalManagedAssets * h
        <4>1. value * totalShares = totalShares * value /\ totalManagedAssets * h = h * totalManagedAssets
          BY <1>1, <1>2
        <4>2. QED
          BY <1>2, <4>1
      <3>2. (burnt * value) \div h <= (burnt * totalManagedAssets) \div totalShares
        BY <1>1, <1>2, <2>2, <3>1, ClaimFollowsPrice
      <3>3. PICK redeemed \in Nat : redeemed = (burnt * totalManagedAssets) \div totalShares
        <4>1. burnt * totalManagedAssets \in Nat
          BY <1>1
        <4>2. QED
          BY <1>1, <4>1, FloorDivision
      <3>4. convertToAssets(burnt) = redeemed
        BY <1>1, <3>3 DEF convertToAssets
      <3>5. paid <= redeemed
        BY <2>7, <3>2, <3>3
      <3>6. QED
        BY <2>8, <3>4, <3>5
    <2>13. amount \in Int /\ paid \in Int /\ receive \in Int /\ receive <= amount
      BY <2>1, <2>7, <2>8
    <2>14. PICK order : /\ order = requested(dto, amount, FALSE)
                        /\ order = [shares |-> burnt, receive |-> receive]
      BY <2>9, Zenon
    <2>15. order.shares = burnt /\ order.receive = receive
      <3>1. order = [shares |-> burnt, receive |-> receive]
        BY <2>14, Zenon
      <3>2. QED
        BY <3>1
    <2>16. amount = value => order = requested(dto, amount, TRUE)
      BY <2>10, <2>11, <2>14, Zenon
    <2>17. /\ order.shares <= h /\ order.receive <= amount
           /\ order.receive <= convertToAssets(order.shares)
      BY <2>4, <2>12, <2>13, <2>15
    <2>18. QED
      BY <2>14, <2>16, <2>17, Zenon
  <1>6. neverOverdraws(dto)
    BY <1>4, <1>5 DEF neverOverdraws
  <1>7. QED
    BY <1>3, <1>6

(***************************************************************************)
(* units.ts: "burning the shares worked out for an amount can only leave   *)
(* value in the position, never overdraw it".  So it is for a position of  *)
(* any number of shares and whatever the vault has been through, though    *)
(* three divisions are rounded on the way: the vault pays at least what    *)
(* the form promised, that is never more than was asked for, and asking    *)
(* for the whole value burns every share.                                  *)
(***************************************************************************)
THEOREM TheFormNeverOverdraws ==
  SiteSpec => [](totalShares > 0 =>
    \A h \in Nat, basis \in Nat :
      neverOverdraws(toPositionDto([shares |-> h, basis |-> basis], totalsNow)))
  <1>1. TypeOK => (totalShares > 0 =>
          \A h \in Nat, basis \in Nat :
            neverOverdraws(toPositionDto([shares |-> h, basis |-> basis], totalsNow)))
    BY PartsDoNotOverdraw, Zenon
  <1>2. QED
    BY <1>1, TheVaultIsTyped, PTL

-----------------------------------------------------------------------------
(***************************************************************************)
(* The requests of the strategy's page and of its chart.  PageInv says     *)
(* what a request under way may rely on:                                   *)
(*   - Recent: the read it waits for knows every event older than the      *)
(*     cache's time when it was asked, whoever started that read; and so   *)
(*     does a detail that has been answered;                               *)
(*   - DetailInv, ChartInv: the request that is awaited was made no        *)
(*     earlier than the one whose answer is shown, and for the range the   *)
(*     chart is at.                                                        *)
(***************************************************************************)
Reads == [stage : {"fetching", "timing", "built", "failed"}, logs : Nat]
Events ==
  [kind : {"deposit", "withdraw", "pnl"}, who : Investors \cup {"operator"}, shares : Int, t : Nat,
   assets : Int, managed : Nat, total : Nat, nav : Int]

SourcesTyped ==
  /\ conditions \in Conditions
  /\ now \in 0 .. conditions.time
  /\ log \in Seq(Events) /\ filed \in Seq(Nat) /\ Len(filed) <= Len(log)

ReadsTyped ==
  /\ reads \in Seq(Reads)
  /\ \A k \in DOMAIN reads : reads[k].logs <= Len(log)

CacheTyped ==
  /\ readings.read \in 0 .. Len(reads)
  /\ readings.expiresAt \in 0 .. now + CacheTtl
  /\ readings.expiresAt > now => readings.read # 0

\* A request that is read or answered says for what and since when.
Message(m) ==
  \/ m.stage \in {"none", "sent", "landed", "cut"}
  \/ /\ m.stage = "reading"
     /\ m = [stage |-> "reading", range |-> m.range, since |-> m.since, read |-> m.read,
             detail |-> m.detail]
  \/ /\ m.stage = "answered"
     /\ m = [stage |-> "answered", range |-> m.range, since |-> m.since, content |-> m.content]

Started == {"reading", "answered"}
Awaited == {"sent", "reading", "answered"}

RequestsTyped ==
  /\ request = [r \in Requests |-> request[r]]
  /\ \A r \in Requests :
       /\ Message(request[r])
       /\ request[r].stage \in Started => request[r].since \in 0 .. now
       /\ request[r].stage = "reading" => request[r].read \in DOMAIN reads

known(k) == reads[k].stage \in {"timing", "built"}
heard(since, length) == \A k \in DOMAIN log : log[k].t < since - CacheTtl => k <= length
truthful(content) == content.metrics.source = "chain" => content.metrics.length \in 0 .. Len(log)

Recent ==
  /\ readings.read # 0 /\ known(readings.read) => heard(readings.expiresAt, reads[readings.read].logs)
  /\ \A r \in Requests :
       /\ request[r].stage = "reading" /\ known(request[r].read) =>
            heard(request[r].since, reads[request[r].read].logs)
       /\ r[1] = "detail" /\ request[r].stage = "answered" =>
            truthful(request[r].content) /\ detailIsRecent(request[r])

ahead(number, name, since) ==
  \A n \in Loads : n = number /\ request[<<name, n>>].stage \in Started =>
    since <= request[<<name, n>>].since

DetailInv ==
  /\ current \in Nat /\ pending \in BOOLEAN /\ error \in BOOLEAN
  /\ data # Nothing => /\ data.since \in 0 .. now /\ truthful(data.content)
                       /\ ahead(current, "detail", data.since)

ChartInv ==
  /\ plot \in Nat /\ plotting \in BOOLEAN /\ plotFailed \in BOOLEAN
  /\ plotted # Nothing => plotted.since \in 0 .. now /\ ahead(plot, "series", plotted.since)
  /\ range \in {NoChart} \cup Ranges
  /\ range # NoChart =>
       /\ data # Nothing /\ ~error
       /\ plotting \/ plotFailed \/ plotted.range = range
       /\ \A n \in Loads : n = plot /\ request[<<"series", n>>].stage \in Awaited =>
            request[<<"series", n>>].range = range

PageInv ==
  SourcesTyped /\ ReadsTyped /\ CacheTyped /\ RequestsTyped /\ Recent /\ DetailInv /\ ChartInv

-----------------------------------------------------------------------------
(***************************************************************************)
(* Steps of the vault, the ticks and the clock.                            *)
(***************************************************************************)

\* What has happened stays in the log, and what is new is dated now.
LogGrows ==
  /\ Len(log') >= Len(log) /\ now' >= now
  /\ \A k \in DOMAIN log' : IF k \in DOMAIN log THEN log'[k] = log[k] ELSE log'[k].t = now

LEMMA EmitsIsTyped ==
  ASSUME SourcesTyped, TypeOK, TypeOK', NEW kind, NEW who, NEW shares, emits(kind, who, shares),
         kind \in {"deposit", "withdraw", "pnl"}, who \in Investors \cup {"operator"}, shares \in Int,
         UNCHANGED <<conditions, now, filed>>
  PROVE  SourcesTyped' /\ LogGrows
  <1>1. navPerShare' \in Int
    <2>1. CASE totalShares' = 0
      BY <2>1, ParAssumption DEF navPerShare
    <2>2. CASE totalShares' # 0
      <3>1. totalManagedAssets' \in Nat /\ totalShares' \in Nat
        BY DEF TypeOK
      <3>2. totalManagedAssets' * Par \in Nat /\ totalShares' > 0
        <4>1. \A x \in Nat, y \in Nat : x * y \in Nat
          OBVIOUS
        <4>2. totalManagedAssets' * Par \in Nat
          BY <3>1, <4>1, ParAssumption
        <4>3. totalShares' > 0
          BY <2>2, <3>1
        <4>4. QED
          BY <4>2, <4>3
      <3>3. (totalManagedAssets' * Par) \div totalShares' \in Nat
        BY <3>1, <3>2, FloorDivision
      <3>4. QED
        BY <2>2, <3>3 DEF navPerShare
    <2>3. QED
      BY <2>1, <2>2
  <1>2. now \in Nat
    BY ConditionsAssumption DEF SourcesTyped
  <1>3. PICK e \in Events : log' = Append(log, e) /\ e.t = now
    <2>1. PICK paid \in Int : paid = IF kind = "deposit" THEN totalManagedAssets' - totalManagedAssets
                                     ELSE totalManagedAssets - totalManagedAssets'
      <3>1. totalManagedAssets \in Int /\ totalManagedAssets' \in Int
        BY DEF TypeOK
      <3>2. totalManagedAssets' - totalManagedAssets \in Int /\ totalManagedAssets - totalManagedAssets' \in Int
        BY <3>1
      <3>3. (IF kind = "deposit" THEN totalManagedAssets' - totalManagedAssets
             ELSE totalManagedAssets - totalManagedAssets') \in Int
        BY <3>2, Zenon
      <3>4. QED
        BY <3>3, Zenon
    <2> DEFINE e == [kind |-> kind, who |-> who, shares |-> shares, t |-> now, assets |-> paid,
                     managed |-> totalManagedAssets', total |-> totalShares', nav |-> navPerShare']
    <2>2. e \in Events
      BY <1>1, <1>2 DEF Events, TypeOK
    <2>3. log' = Append(log, e)
      BY <2>1 DEF emits
    <2>4. QED
      BY <2>2, <2>3
  <1>4. QED
    BY <1>2, <1>3 DEF SourcesTyped, LogGrows

LEMMA SourcesMove ==
  ASSUME SourcesTyped, TypeOK, TypeOK', Sources, UNCHANGED conditions
  PROVE  SourcesTyped' /\ LogGrows /\ UNCHANGED <<reads, readings, request>>
  <1>1. now \in Nat /\ now \in 0 .. conditions.time /\ conditions.time \in Nat
    BY ConditionsAssumption DEF SourcesTyped
  <1>2. ASSUME NEW i \in conditions.traders, NEW a \in Amounts, Deposit(i, a)
        PROVE  SourcesTyped' /\ LogGrows /\ UNCHANGED <<reads, readings, request>>
    <2>1. i \in Investors /\ totalShares' - totalShares \in Int
      BY ConditionsAssumption DEF SourcesTyped, TypeOK
    <2>2. emits("deposit", i, totalShares' - totalShares) /\ UNCHANGED <<now, filed, reads, readings, request>>
      BY <1>2 DEF Deposit
    <2>3. QED
      BY <2>1, <2>2, EmitsIsTyped
  <1>3. ASSUME NEW i \in conditions.traders, NEW a \in Amounts, Withdraw(i, a)
        PROVE  SourcesTyped' /\ LogGrows /\ UNCHANGED <<reads, readings, request>>
    <2>1. i \in Investors /\ a \in Int
      BY ConditionsAssumption, AmountsAssumption DEF SourcesTyped
    <2>2. emits("withdraw", i, a) /\ UNCHANGED <<now, filed, reads, readings, request>>
      BY <1>3 DEF Withdraw
    <2>3. QED
      BY <2>1, <2>2, EmitsIsTyped
  <1>4. ASSUME NEW d \in Deltas, Settle(d)
        PROVE  SourcesTyped' /\ LogGrows /\ UNCHANGED <<reads, readings, request>>
    <2>1. emits("pnl", "operator", 0) /\ UNCHANGED <<now, filed, reads, readings, request>>
      BY <1>4 DEF Settle
    <2>2. QED
      BY <2>1, EmitsIsTyped
  <1>5. CASE Snapshot
    BY <1>1, <1>5 DEF Snapshot, SourcesTyped, LogGrows
  <1>6. CASE File
    BY <1>1, <1>6 DEF File, SourcesTyped, LogGrows
  <1>7. CASE Time
    BY <1>1, <1>7 DEF Time, SourcesTyped, LogGrows, sources
  <1>8. QED
    BY <1>2, <1>3, <1>4, <1>5, <1>6, <1>7 DEF Sources

\* A new event is too young for anything already asked for.
LEMMA HeardStays ==
  ASSUME SourcesTyped, SourcesTyped', LogGrows, NEW since \in Int, since <= now + CacheTtl, NEW length,
         heard(since, length)
  PROVE  heard(since, length)'
  <1>1. now \in Nat /\ CacheTtl \in Nat
    BY ConditionsAssumption, CacheTtlAssumption DEF SourcesTyped
  <1>2. log \in Seq(Events) /\ log' \in Seq(Events)
    BY DEF SourcesTyped
  <1>3. ASSUME NEW k \in DOMAIN log', log'[k].t < since - CacheTtl PROVE k <= length
    <2>1. k \in DOMAIN log /\ log'[k] = log[k]
      <3>1. CASE k \in DOMAIN log
        BY <1>3, <3>1 DEF LogGrows
      <3>2. CASE k \notin DOMAIN log
        BY <1>1, <1>3, <3>2 DEF LogGrows
      <3>3. QED
        BY <3>1, <3>2
    <2>2. QED
      BY <1>3, <2>1 DEF heard
  <1>4. QED
    BY <1>3 DEF heard

LEMMA TruthStays ==
  ASSUME SourcesTyped, SourcesTyped', LogGrows, NEW content, truthful(content)
  PROVE  truthful(content)'
  BY DEF truthful, LogGrows, SourcesTyped

LEMMA SourcesKeepPageInv ==
  ASSUME PageInv, TypeOK, TypeOK', Sources, UNCHANGED <<conditions, pageVars>>
  PROVE  PageInv'
  <1>1. SourcesTyped' /\ LogGrows /\ UNCHANGED <<reads, readings, request>>
    BY SourcesMove DEF PageInv
  <1>2. now \in Nat /\ now' \in Nat /\ now <= now' /\ CacheTtl \in Nat
    BY <1>1, ConditionsAssumption, CacheTtlAssumption DEF PageInv, SourcesTyped, LogGrows
  <1>3. ReadsTyped'
    <2>1. reads' = reads /\ Len(log) \in Nat /\ Len(log') \in Nat /\ Len(log) <= Len(log')
      BY <1>1 DEF PageInv, SourcesTyped, LogGrows
    <2>2. reads \in Seq(Reads)
      BY DEF PageInv, ReadsTyped
    <2>3. \A k \in DOMAIN reads : reads[k].logs \in Nat /\ reads[k].logs <= Len(log)
      <3>1. \A k \in DOMAIN reads : reads[k] \in Reads
        BY <2>2
      <3>2. \A k \in DOMAIN reads : reads[k].logs <= Len(log)
        BY DEF PageInv, ReadsTyped
      <3>3. QED
        BY <3>1, <3>2 DEF Reads
    <2>4. QED
      BY <2>1, <2>2, <2>3 DEF ReadsTyped
  <1>4. CacheTyped'
    BY <1>1, <1>2 DEF PageInv, CacheTyped
  <1>5. RequestsTyped'
    BY <1>1, <1>2 DEF PageInv, RequestsTyped
  <1>6. Recent'
    <2>1. ASSUME readings.read # 0, known(readings.read)
          PROVE  heard(readings.expiresAt, reads[readings.read].logs)'
      <3>1. readings.expiresAt \in Int /\ readings.expiresAt <= now + CacheTtl
        BY <1>2 DEF PageInv, CacheTyped
      <3>2. heard(readings.expiresAt, reads[readings.read].logs)
        BY <2>1 DEF PageInv, Recent
      <3>3. heard(readings.expiresAt, reads[readings.read].logs)'
        BY <1>1, <3>1, <3>2, HeardStays DEF PageInv
      <3>4. QED
        BY <3>3
    <2>2. ASSUME NEW r \in Requests, request[r].stage = "reading", known(request[r].read)
          PROVE  heard(request[r].since, reads[request[r].read].logs)'
      <3>1. request[r].since \in Int /\ request[r].since <= now + CacheTtl
        BY <1>2, <2>2 DEF PageInv, RequestsTyped, Started
      <3>2. heard(request[r].since, reads[request[r].read].logs)
        BY <2>2 DEF PageInv, Recent
      <3>3. QED
        BY <1>1, <3>1, <3>2, HeardStays DEF PageInv
    <2>3. ASSUME NEW r \in Requests, r[1] = "detail", request[r].stage = "answered"
          PROVE  truthful(request[r].content)' /\ detailIsRecent(request[r])'
      <3>1. request[r].since \in Int /\ request[r].since <= now + CacheTtl
        BY <1>2, <2>3 DEF PageInv, RequestsTyped, Started
      <3>2. truthful(request[r].content) /\ detailIsRecent(request[r])
        BY <2>3 DEF PageInv, Recent
      <3>3. truthful(request[r].content)'
        BY <1>1, <3>2, TruthStays DEF PageInv
      <3>4. ASSUME request[r].content.metrics.source = "chain"
            PROVE  heard(request[r].since, request[r].content.metrics.length)'
        <4>1. heard(request[r].since, request[r].content.metrics.length)
          BY <3>2, <3>4 DEF detailIsRecent, heardOf, heard
        <4>2. QED
          BY <1>1, <3>1, <4>1, HeardStays DEF PageInv
      <3>5. detailIsRecent(request[r])'
        BY <1>1, <3>4 DEF detailIsRecent, heardOf, heard
      <3>6. QED
        BY <3>3, <3>5
    <2>4. QED
      BY <1>1, <2>1, <2>2, <2>3 DEF Recent, known
  <1>7. DetailInv'
    <2>1. data # Nothing => truthful(data.content)'
      BY <1>1, TruthStays DEF PageInv, DetailInv, pageVars, detailVars
    <2>2. QED
      BY <1>1, <1>2, <2>1 DEF PageInv, DetailInv, ahead, pageVars, detailVars, truthful
  <1>8. ChartInv'
    BY <1>1, <1>2 DEF PageInv, ChartInv, ahead, pageVars, detailVars, plotVars
  <1>9. QED
    BY <1>1, <1>3, <1>4, <1>5, <1>6, <1>7, <1>8 DEF PageInv

-----------------------------------------------------------------------------
(***************************************************************************)
(* Steps of the backend.  They leave the log alone, so what is heard stays *)
(* heard; and a request keeps its range and the time it was asked.         *)
(***************************************************************************)
RequestsAdvance ==
  \A q \in Requests :
    /\ request'[q].stage \in Started =>
         \/ request'[q].since = now
         \/ request[q].stage \in Started /\ request'[q].since = request[q].since
    /\ request'[q].stage \in Awaited => request[q].stage \in Awaited /\ request'[q].range = request[q].range

\* What the pages rely on does not change while their requests advance.
LEMMA AdvanceKeepsThePages ==
  ASSUME PageInv, RequestsAdvance, UNCHANGED <<now, log, pageVars>>
  PROVE  DetailInv' /\ ChartInv'
  <1>1. now \in Nat
    BY ConditionsAssumption DEF PageInv, SourcesTyped
  <1>2. ASSUME NEW n \in Loads, NEW name \in {"detail", "series"}, NEW since \in 0 .. now,
               request[<<name, n>>].stage \in Started => since <= request[<<name, n>>].since,
               request'[<<name, n>>].stage \in Started
        PROVE  since <= request'[<<name, n>>].since
    <2>1. <<name, n>> \in Requests
      BY DEF Requests
    <2>2. QED
      BY <1>1, <1>2, <2>1 DEF RequestsAdvance
  <1>3. DetailInv'
    <2>1. ASSUME data # Nothing PROVE ahead(current, "detail", data.since)'
      <3>1. data.since \in 0 .. now /\ ahead(current, "detail", data.since)
        BY <2>1 DEF PageInv, DetailInv
      <3>2. data' = data /\ current' = current
        BY DEF pageVars, detailVars
      <3>3. QED
        BY <1>2, <3>1, <3>2 DEF ahead
    <2>2. QED
      BY <2>1 DEF PageInv, DetailInv, truthful, pageVars, detailVars
  <1>4. ChartInv'
    <2>1. ASSUME plotted # Nothing PROVE ahead(plot, "series", plotted.since)'
      <3>1. plotted.since \in 0 .. now /\ ahead(plot, "series", plotted.since)
        BY <2>1 DEF PageInv, ChartInv
      <3>2. plotted' = plotted /\ plot' = plot
        BY DEF pageVars, plotVars
      <3>3. QED
        BY <1>2, <3>1, <3>2 DEF ahead
    <2>2. ASSUME range # NoChart, NEW n \in Loads, n = plot, request'[<<"series", n>>].stage \in Awaited
          PROVE  request'[<<"series", n>>].range = range
      <3>1. <<"series", n>> \in Requests
        BY DEF Requests
      <3>2. QED
        BY <2>2, <3>1 DEF RequestsAdvance, PageInv, ChartInv
    <2>3. QED
      BY <2>1, <2>2 DEF PageInv, ChartInv, pageVars, detailVars, plotVars
  <1>5. QED
    BY <1>3, <1>4

\* Which requests a step of the backend may touch: one that is awaited.
LEMMA OneRequestAdvances ==
  ASSUME NEW r \in Requests, request[r].stage \in Awaited,
         \A q \in Requests \ {r} : request'[q] = request[q],
         request'[r].range = request[r].range,
         \/ request'[r].since = now
         \/ request[r].stage \in Started /\ request'[r].since = request[r].since
  PROVE  RequestsAdvance
  <1>1. \A q \in Requests : q # r => request'[q] = request[q]
    OBVIOUS
  <1>2. Started \subseteq Awaited
    BY DEF Started, Awaited
  <1>3. QED
    BY <1>1, <1>2 DEF RequestsAdvance

LEMMA ArriveKeepsPageInv ==
  ASSUME PageInv, NEW r \in Requests, Arrive(r), UNCHANGED <<conditions, pageVars>>
  PROVE  PageInv'
  <1>1. now \in Nat /\ CacheTtl \in Nat /\ UNCHANGED <<now, log, filed>>
    BY ConditionsAssumption, CacheTtlAssumption DEF PageInv, SourcesTyped, Arrive, sources
  <1>2. PICK k : /\ joins(r, k)
                 /\ \/ serves /\ k = readings.read /\ UNCHANGED <<reads, readings>>
                    \/ /\ k = Len(reads) + 1
                       /\ reads' = Append(reads, [stage |-> "fetching", logs |-> 0])
                       /\ readings' = [read |-> k, expiresAt |-> now + CacheTtl]
    BY DEF Arrive
  <1>3. reads \in Seq(Reads) /\ Len(reads) \in Nat /\ DOMAIN reads = 1 .. Len(reads)
    BY DEF PageInv, ReadsTyped
  <1>4. [stage |-> "fetching", logs |-> 0] \in Reads
    BY DEF Reads
  <1>5. /\ reads' \in Seq(Reads) /\ k \in DOMAIN reads'
        /\ \A j \in DOMAIN reads : j \in DOMAIN reads' /\ reads'[j] = reads[j]
        /\ \A j \in DOMAIN reads' : j \in DOMAIN reads \/ reads'[j] = [stage |-> "fetching", logs |-> 0]
        /\ readings'.read \in 0 .. Len(reads')
        /\ k \notin DOMAIN reads => reads'[k] = [stage |-> "fetching", logs |-> 0]
    <2>1. CASE serves /\ k = readings.read /\ UNCHANGED <<reads, readings>>
      BY <1>1, <1>3, <2>1 DEF PageInv, CacheTyped, serves
    <2>2. CASE /\ k = Len(reads) + 1
               /\ reads' = Append(reads, [stage |-> "fetching", logs |-> 0])
               /\ readings' = [read |-> k, expiresAt |-> now + CacheTtl]
      BY <1>3, <1>4, <2>2
    <2>3. QED
      BY <1>2, <2>1, <2>2
  <1>6. /\ request' = [q \in Requests |-> request'[q]]
        /\ \A q \in Requests \ {r} : request'[q] = request[q]
        /\ request'[r] = [stage |-> "reading", range |-> request[r].range, since |-> now,
                          read |-> k, detail |-> Unread]
    BY <1>2 DEF joins, PageInv, RequestsTyped
  <1>7. ReadsTyped'
    <2>1. \A j \in DOMAIN reads' : reads'[j].logs <= Len(log)
      <3>1. Len(log) \in Nat /\ \A j \in DOMAIN reads : reads[j].logs <= Len(log)
        BY DEF PageInv, ReadsTyped, SourcesTyped
      <3>2. QED
        BY <1>5, <3>1
    <2>2. QED
      BY <1>1, <1>5, <2>1 DEF ReadsTyped
  <1>8. CacheTyped'
    <2>1. CASE UNCHANGED <<reads, readings>>
      BY <1>1, <2>1 DEF PageInv, CacheTyped
    <2>2. CASE k = Len(reads) + 1 /\ readings' = [read |-> k, expiresAt |-> now + CacheTtl]
      BY <1>1, <1>3, <1>5, <2>2 DEF CacheTyped
    <2>3. QED
      BY <1>2, <2>1, <2>2
  <1>9. RequestsTyped'
    <2>1. Message(request'[r]) /\ request'[r].since \in 0 .. now /\ request'[r].read = k
      BY <1>1, <1>6 DEF Message
    <2>2. QED
      BY <1>1, <1>5, <1>6, <2>1 DEF RequestsTyped, PageInv
  <1>10. Recent'
    <2>1. ASSUME NEW j \in DOMAIN reads', known(j)' PROVE j \in DOMAIN reads /\ known(j) /\ reads'[j] = reads[j]
      BY <1>5, <2>1 DEF known
    <2>2. ASSUME readings'.read # 0, known(readings.read)'
          PROVE  heard(readings.expiresAt, reads[readings.read].logs)'
      <3>1. readings'.read \in DOMAIN reads' /\ readings'.read \in DOMAIN reads
        BY <1>5, <2>1, <2>2
      <3>2. UNCHANGED readings
        BY <1>2, <1>3, <3>1
      <3>3. heard(readings.expiresAt, reads[readings.read].logs)
        BY <2>1, <2>2, <3>1, <3>2 DEF PageInv, Recent
      <3>4. QED
        BY <1>1, <1>5, <3>1, <3>2, <3>3 DEF heard
    <2>3. ASSUME known(k)' PROVE heard(now, reads'[k].logs)
      <3>1. k \in DOMAIN reads /\ known(k) /\ reads'[k] = reads[k]
        BY <1>5, <2>1, <2>3
      <3>2. serves /\ k = readings.read
        BY <1>2, <1>3, <3>1
      <3>3. heard(readings.expiresAt, reads[k].logs)
        BY <1>3, <3>1, <3>2 DEF PageInv, Recent
      <3>4. readings.expiresAt \in Int /\ readings.expiresAt > now
        BY <1>1, <3>2 DEF serves, PageInv, CacheTyped
      <3>5. \A l \in DOMAIN log : log[l].t \in Nat
        <4>1. \A l \in DOMAIN log : log[l] \in Events
          BY DEF PageInv, SourcesTyped
        <4>2. QED
          BY <4>1 DEF Events
      <3>6. QED
        BY <1>1, <3>1, <3>3, <3>4, <3>5 DEF heard
    <2>4. ASSUME NEW q \in Requests, request'[q].stage = "reading", known(request[q].read)'
          PROVE  heard(request[q].since, reads[request[q].read].logs)'
      <3>1. CASE q = r
        BY <1>1, <1>6, <2>3, <2>4, <3>1 DEF heard
      <3>2. CASE q # r
        <4>1. request'[q] = request[q] /\ request[q].read \in DOMAIN reads
          BY <1>6, <2>4, <3>2 DEF PageInv, RequestsTyped
        <4>2. known(request[q].read) /\ reads'[request[q].read] = reads[request[q].read]
          BY <1>5, <2>1, <2>4, <4>1
        <4>3. heard(request[q].since, reads[request[q].read].logs)
          BY <2>4, <4>1, <4>2 DEF PageInv, Recent
        <4>4. QED
          BY <1>1, <4>1, <4>2, <4>3 DEF heard
      <3>3. QED
        BY <3>1, <3>2
    <2>5. ASSUME NEW q \in Requests, q[1] = "detail", request'[q].stage = "answered"
          PROVE  truthful(request[q].content)' /\ detailIsRecent(request[q])'
      <3>1. request'[q] = request[q]
        BY <1>6, <2>5
      <3>2. truthful(request[q].content) /\ detailIsRecent(request[q])
        BY <2>5, <3>1 DEF PageInv, Recent
      <3>3. QED
        BY <1>1, <3>1, <3>2 DEF truthful, detailIsRecent, heardOf
    <2>6. QED
      BY <2>2, <2>4, <2>5 DEF Recent
  <1>11. DetailInv' /\ ChartInv'
    <2>1. request[r].stage \in Awaited
      BY DEF Arrive, Awaited
    <2>2. request'[r].range = request[r].range /\ request'[r].since = now
      BY <1>6
    <2>3. RequestsAdvance
      BY <1>6, <2>1, <2>2, OneRequestAdvances
    <2>4. QED
      BY <1>1, <2>3, AdvanceKeepsThePages
  <1>12. SourcesTyped'
    BY <1>1 DEF PageInv, SourcesTyped
  <1>13. QED
    BY <1>7, <1>8, <1>9, <1>10, <1>11, <1>12 DEF PageInv

\* A read that comes back knows the whole log, and keeps what it knows.
LEMMA ReadsKeepPageInv ==
  ASSUME PageInv, UNCHANGED <<conditions, now, sources, request, pageVars>>,
         reads' \in Seq(Reads), Len(reads') = Len(reads),
         \A j \in DOMAIN reads : reads'[j].logs <= Len(log),
         \A j \in DOMAIN reads : known(j)' =>
           \/ reads'[j].logs = Len(log)
           \/ known(j) /\ reads'[j].logs = reads[j].logs,
         readings' \in {readings, NoEntry}
  PROVE  PageInv'
  <1>1. now \in Nat /\ CacheTtl \in Nat /\ UNCHANGED <<now, log, filed>>
    BY ConditionsAssumption, CacheTtlAssumption DEF PageInv, SourcesTyped, sources
  <1>2. reads \in Seq(Reads) /\ DOMAIN reads = 1 .. Len(reads) /\ DOMAIN reads' = DOMAIN reads
    BY DEF PageInv, ReadsTyped
  <1>3. log \in Seq(Events) /\ DOMAIN log = 1 .. Len(log) /\ Len(log) \in Nat
    BY DEF PageInv, SourcesTyped
  <1>4. ReadsTyped'
    BY <1>1, <1>2 DEF ReadsTyped
  <1>5. CacheTyped'
    <2>1. CASE readings' = readings
      BY <1>1, <2>1 DEF PageInv, CacheTyped
    <2>2. CASE readings' = NoEntry
      BY <1>1, <1>2, <2>2 DEF NoEntry, CacheTyped
    <2>3. QED
      BY <2>1, <2>2
  <1>6. RequestsTyped'
    BY <1>1, <1>2 DEF PageInv, RequestsTyped
  <1>7. ASSUME NEW j \in DOMAIN reads, known(j)', NEW since, known(j) => heard(since, reads[j].logs)
        PROVE  heard(since, reads'[j].logs)
    <2>1. CASE reads'[j].logs = Len(log)
      BY <1>3, <2>1 DEF heard
    <2>2. CASE known(j) /\ reads'[j].logs = reads[j].logs
      BY <1>7, <2>2
    <2>3. QED
      BY <1>7, <2>1, <2>2
  <1>8. Recent'
    <2>1. ASSUME readings'.read # 0, known(readings.read)'
          PROVE  heard(readings.expiresAt, reads[readings.read].logs)'
      <3>1. readings' = readings /\ readings.read \in DOMAIN reads
        BY <1>2, <2>1 DEF NoEntry, PageInv, CacheTyped
      <3>2. known(readings.read) => heard(readings.expiresAt, reads[readings.read].logs)
        BY <2>1, <3>1 DEF PageInv, Recent
      <3>3. heard(readings.expiresAt, reads'[readings.read].logs)
        BY <1>7, <2>1, <3>1, <3>2 DEF known
      <3>4. QED
        BY <1>1, <3>1, <3>3 DEF heard
    <2>2. ASSUME NEW q \in Requests, request'[q].stage = "reading", known(request[q].read)'
          PROVE  heard(request[q].since, reads[request[q].read].logs)'
      <3>1. request' = request /\ request[q].read \in DOMAIN reads
        BY <2>2 DEF PageInv, RequestsTyped
      <3>2. known(request[q].read) => heard(request[q].since, reads[request[q].read].logs)
        BY <2>2, <3>1 DEF PageInv, Recent
      <3>3. heard(request[q].since, reads'[request[q].read].logs)
        BY <1>7, <2>2, <3>1, <3>2 DEF known
      <3>4. QED
        BY <1>1, <3>1, <3>3 DEF heard
    <2>3. ASSUME NEW q \in Requests, q[1] = "detail", request'[q].stage = "answered"
          PROVE  truthful(request[q].content)' /\ detailIsRecent(request[q])'
      BY <1>1, <2>3 DEF PageInv, Recent, truthful, detailIsRecent, heardOf
    <2>4. QED
      BY <2>1, <2>2, <2>3 DEF Recent
  <1>9. DetailInv' /\ ChartInv'
    BY <1>1 DEF PageInv, DetailInv, ChartInv, ahead, truthful, pageVars, detailVars, plotVars
  <1>10. SourcesTyped'
    BY <1>1 DEF PageInv, SourcesTyped
  <1>11. QED
    BY <1>4, <1>5, <1>6, <1>8, <1>9, <1>10 DEF PageInv

LEMMA ReadsMove ==
  ASSUME PageInv, NEW k \in DOMAIN reads, fetchLogs(k) \/ blockTimestamps(k) \/ ReadFails(k),
         UNCHANGED <<conditions, pageVars>>
  PROVE  PageInv'
  <1>1. reads \in Seq(Reads) /\ reads[k] \in Reads /\ DOMAIN reads = 1 .. Len(reads)
    BY DEF PageInv, ReadsTyped
  <1>2. Len(log) \in Nat /\ \A j \in DOMAIN reads : reads[j].logs <= Len(log)
    BY DEF PageInv, SourcesTyped, ReadsTyped
  <1>3. PICK m \in Reads :
          /\ reads' = [reads EXCEPT ![k] = m]
          /\ \/ m = [stage |-> "timing", logs |-> Len(log)]
             \/ m.logs = reads[k].logs /\ (m.stage = "failed" \/ reads[k].stage = "timing")
    <2>1. CASE fetchLogs(k)
      <3>1. [stage |-> "timing", logs |-> Len(log)] \in Reads
        BY <1>2 DEF Reads
      <3>2. QED
        BY <2>1, <3>1 DEF fetchLogs
    <2>2. CASE blockTimestamps(k)
      <3>1. PICK m : m = [reads[k] EXCEPT !.stage = "built"]
        OBVIOUS
      <3>2. m \in Reads /\ m.logs = reads[k].logs
        BY <1>1, <3>1 DEF Reads
      <3>3. QED
        BY <2>2, <3>1, <3>2 DEF blockTimestamps
    <2>3. CASE ReadFails(k)
      <3>1. PICK m : m = [reads[k] EXCEPT !.stage = "failed"]
        OBVIOUS
      <3>2. m \in Reads /\ m.logs = reads[k].logs /\ m.stage = "failed"
        BY <1>1, <3>1 DEF Reads
      <3>3. QED
        BY <2>3, <3>1, <3>2 DEF ReadFails
    <2>4. QED
      BY <2>1, <2>2, <2>3
  <1>4. /\ UNCHANGED <<conditions, now, sources, request, pageVars>>
        /\ readings' \in {readings, NoEntry}
    BY DEF fetchLogs, blockTimestamps, ReadFails
  <1>5. /\ reads' \in Seq(Reads) /\ Len(reads') = Len(reads)
        /\ \A j \in DOMAIN reads : reads'[j] = IF j = k THEN m ELSE reads[j]
    BY <1>1, <1>3
  <1>6. \A j \in DOMAIN reads : reads'[j].logs <= Len(log)
    BY <1>2, <1>3, <1>5
  <1>7. \A j \in DOMAIN reads : known(j)' =>
          \/ reads'[j].logs = Len(log)
          \/ known(j) /\ reads'[j].logs = reads[j].logs
    BY <1>3, <1>5 DEF known
  <1>8. QED
    BY <1>4, <1>5, <1>6, <1>7, ReadsKeepPageInv

\* A request that moves on keeps what it was asked for and since when; one
\* that is answered knows what its read knew.
LEMMA RequestKeepsPageInv ==
  ASSUME PageInv, UNCHANGED <<conditions, now, sources, reads, readings, pageVars>>,
         NEW r \in Requests, request[r].stage = "reading",
         request' = [request EXCEPT ![r] = request'[r]],
         Message(request'[r]), request'[r].stage \in Started,
         request'[r].since = request[r].since, request'[r].range = request[r].range,
         request'[r].stage = "reading" => request'[r].read = request[r].read,
         r[1] = "detail" /\ request'[r].stage = "answered" /\ request'[r].content.metrics.source = "chain" =>
             known(request[r].read) /\ request'[r].content.metrics.length = reads[request[r].read].logs
  PROVE  PageInv'
  <1>1. UNCHANGED <<now, log, filed>>
    BY DEF sources
  <1>2. /\ request' = [q \in Requests |-> request'[q]]
        /\ \A q \in Requests : q # r => request'[q] = request[q]
    BY DEF PageInv, RequestsTyped
  <1>3. RequestsTyped'
    <2>1. /\ request[r].since \in 0 .. now /\ request[r].read \in DOMAIN reads
      BY DEF PageInv, RequestsTyped, Started
    <2>2. QED
      BY <1>1, <1>2, <2>1 DEF PageInv, RequestsTyped
  <1>4. Recent'
    <2>1. readings'.read # 0 /\ known(readings.read)' => heard(readings.expiresAt, reads[readings.read].logs)'
      BY <1>1 DEF PageInv, Recent, known, heard
    <2>2. ASSUME NEW q \in Requests, request'[q].stage = "reading", known(request[q].read)'
          PROVE  heard(request[q].since, reads[request[q].read].logs)'
      <3>1. /\ request[q].stage = "reading"
            /\ request'[q].since = request[q].since /\ request'[q].read = request[q].read
        BY <1>2, <2>2
      <3>2. heard(request[q].since, reads[request[q].read].logs)
        BY <2>2, <3>1 DEF PageInv, Recent, known
      <3>3. QED
        BY <1>1, <3>1, <3>2 DEF heard
    <2>3. ASSUME NEW q \in Requests, q[1] = "detail", request'[q].stage = "answered"
          PROVE  truthful(request[q].content)' /\ detailIsRecent(request[q])'
      <3>1. CASE q # r
        BY <1>1, <1>2, <2>3, <3>1 DEF PageInv, Recent, truthful, detailIsRecent, heardOf
      <3>2. CASE q = r
        <4>1. ASSUME request'[r].content.metrics.source = "chain"
              PROVE  /\ request'[r].content.metrics.length \in 0 .. Len(log)
                     /\ heard(request[r].since, request'[r].content.metrics.length)
          <5>1. /\ known(request[r].read) /\ request[r].read \in DOMAIN reads
                /\ request'[r].content.metrics.length = reads[request[r].read].logs
            BY <2>3, <3>2, <4>1 DEF PageInv, RequestsTyped
          <5>2. reads[request[r].read] \in Reads /\ reads[request[r].read].logs <= Len(log)
            BY <5>1 DEF PageInv, ReadsTyped
          <5>3. reads[request[r].read].logs \in Nat /\ Len(log) \in Nat
            BY <5>2 DEF Reads, PageInv, SourcesTyped
          <5>4. heard(request[r].since, reads[request[r].read].logs)
            BY <5>1 DEF PageInv, Recent
          <5>5. QED
            BY <5>1, <5>2, <5>3, <5>4
        <4>2. QED
          BY <1>1, <3>2, <4>1 DEF truthful, detailIsRecent, heardOf, heard
      <3>3. QED
        BY <3>1, <3>2
    <2>4. QED
      BY <2>1, <2>2, <2>3 DEF Recent
  <1>5. DetailInv' /\ ChartInv'
    <2>1. request[r].stage \in Started /\ request[r].stage \in Awaited
      BY DEF Started, Awaited
    <2>2. \A q \in Requests \ {r} : request'[q] = request[q]
      BY <1>2
    <2>3. RequestsAdvance
      BY <2>1, <2>2, OneRequestAdvances
    <2>4. QED
      BY <1>1, <2>3, AdvanceKeepsThePages
  <1>6. SourcesTyped' /\ ReadsTyped' /\ CacheTyped'
    BY <1>1 DEF PageInv, SourcesTyped, ReadsTyped, CacheTyped
  <1>7. QED
    BY <1>3, <1>4, <1>5, <1>6 DEF PageInv

LEMMA RequestsMove ==
  ASSUME PageInv, NEW r \in Requests, readTotals(r) \/ Answer(r), UNCHANGED <<conditions, pageVars>>
  PROVE  PageInv'
  <1>1. /\ UNCHANGED <<conditions, now, sources, reads, readings, pageVars>>
        /\ request[r].stage = "reading"
    BY DEF readTotals, Answer
  <1>2. /\ request = [q \in Requests |-> request[q]]
        /\ request[r] = [stage |-> "reading", range |-> request[r].range, since |-> request[r].since,
                         read |-> request[r].read, detail |-> request[r].detail]
    BY <1>1 DEF PageInv, RequestsTyped, Message
  <1>3. CASE readTotals(r)
    <2>1. PICK totals : request' = [request EXCEPT ![r].detail = buildDetail(totals)]
      BY <1>3 DEF readTotals
    <2>2. PICK m : m = [request[r] EXCEPT !.detail = buildDetail(totals)]
      OBVIOUS
    <2>3. m = [stage |-> "reading", range |-> request[r].range, since |-> request[r].since,
               read |-> request[r].read, detail |-> buildDetail(totals)]
      BY <1>2, <2>2
    <2>4. request' = [request EXCEPT ![r] = m] /\ request'[r] = m
      BY <1>2, <2>1, <2>2
    <2>5. /\ Message(m) /\ m.stage = "reading" /\ m.since = request[r].since
          /\ m.range = request[r].range /\ m.read = request[r].read
      BY <2>3 DEF Message
    <2>6. QED
      BY <1>1, <2>4, <2>5, RequestKeepsPageInv DEF Started
  <1>4. CASE Answer(r)
    <2>1. PICK content : /\ answered(r, content)
                         /\ r[1] = "detail" => content = withChainMetrics(request[r].detail, request[r].read)
      BY <1>4 DEF Answer
    <2>2. request'[r] = [stage |-> "answered", range |-> request[r].range, since |-> request[r].since,
                         content |-> content]
      BY <1>2, <2>1 DEF answered
    <2>3. request' = [request EXCEPT ![r] = request'[r]]
      BY <1>2, <2>1, <2>2 DEF answered
    <2>4. /\ Message(request'[r]) /\ request'[r].stage = "answered"
          /\ request'[r].since = request[r].since /\ request'[r].range = request[r].range
          /\ request'[r].content = content
      BY <2>2 DEF Message
    <2>5. r[1] = "detail" /\ content.metrics.source = "chain" =>
             known(request[r].read) /\ content.metrics.length = reads[request[r].read].logs
      BY <2>1 DEF withChainMetrics, fromChain, fromSnapshots, known
    <2>6. QED
      BY <1>1, <2>3, <2>4, <2>5, RequestKeepsPageInv DEF Started
  <1>5. QED
    BY <1>3, <1>4

LEMMA ServingKeepsPageInv ==
  ASSUME PageInv, Serving, UNCHANGED <<conditions, pageVars>>
  PROVE  PageInv'
  BY ArriveKeepsPageInv, ReadsMove, RequestsMove DEF Serving

-----------------------------------------------------------------------------
(***************************************************************************)
(* Steps of the page.  A load is asked under a number of its own, so the   *)
(* one that was awaited no longer is; an answer that lands is the awaited. *)
(***************************************************************************)
Asks(requests) ==
  /\ requests = [q \in Requests |-> requests[q]]
  /\ \A q \in Requests :
       requests[q] = request[q] \/ requests[q].stage \in {"sent", "landed", "cut"}

LEMMA PageStepKeepsPageInv ==
  ASSUME PageInv, UNCHANGED <<conditions, backend>>, Asks(request'), DetailInv', ChartInv'
  PROVE  PageInv'
  <1>1. UNCHANGED <<now, log, filed, reads, readings>>
    BY DEF backend, sources
  <1>2. RequestsTyped'
    BY <1>1 DEF PageInv, RequestsTyped, Asks, Message, Started
  <1>3. Recent'
    <2>1. \A q \in Requests : request'[q].stage \in Started => request'[q] = request[q]
      BY DEF Asks, Started
    <2>2. readings'.read # 0 /\ known(readings.read)' => heard(readings.expiresAt, reads[readings.read].logs)'
      BY <1>1 DEF PageInv, Recent, known, heard
    <2>3. ASSUME NEW q \in Requests, request'[q].stage = "reading", known(request[q].read)'
          PROVE  heard(request[q].since, reads[request[q].read].logs)'
      <3>1. request'[q] = request[q]
        BY <2>1, <2>3 DEF Started
      <3>2. QED
        BY <1>1, <2>3, <3>1 DEF PageInv, Recent, known, heard
    <2>4. ASSUME NEW q \in Requests, q[1] = "detail", request'[q].stage = "answered"
          PROVE  truthful(request[q].content)' /\ detailIsRecent(request[q])'
      <3>1. request'[q] = request[q]
        BY <2>1, <2>4 DEF Started
      <3>2. QED
        BY <1>1, <2>4, <3>1 DEF PageInv, Recent, truthful, detailIsRecent, heardOf
    <2>5. QED
      BY <2>2, <2>3, <2>4 DEF Recent
  <1>4. SourcesTyped' /\ ReadsTyped' /\ CacheTyped'
    BY <1>1 DEF PageInv, SourcesTyped, ReadsTyped, CacheTyped
  <1>5. QED
    BY <1>2, <1>3, <1>4 DEF PageInv

LEMMA DetailIsAsked ==
  ASSUME PageInv, UNCHANGED <<now, log>>, detail!load,
         \A n \in Loads : n = current' => request'[<<"detail", n>>].stage = "sent"
  PROVE  DetailInv'
  BY DEF PageInv, DetailInv, ahead, Started, truthful, detail!load

LEMMA DetailIsKept ==
  ASSUME PageInv, UNCHANGED <<now, log, data, current>>, pending' \in BOOLEAN, error' \in BOOLEAN,
         \A n \in Loads : \/ request'[<<"detail", n>>] = request[<<"detail", n>>]
                          \/ request'[<<"detail", n>>].stage \in {"landed", "cut"}
  PROVE  DetailInv'
  BY DEF PageInv, DetailInv, ahead, Started, truthful

LEMMA DetailLands ==
  ASSUME PageInv, UNCHANGED <<now, log, current>>, NEW n \in Loads,
         request[<<"detail", n>>].stage = "answered", request'[<<"detail", n>>].stage = "landed",
         \A m \in Loads \ {n} : request'[<<"detail", m>>] = request[<<"detail", m>>],
         detail!then(n, request[<<"detail", n>>])
  PROVE  DetailInv'
  <1>1. <<"detail", n>> \in Requests /\ <<"detail", n>>[1] = "detail"
    BY DEF Requests
  <1>2. CASE n = current
    <2>1. data' = request[<<"detail", n>>] /\ error' = FALSE /\ pending' = FALSE
      BY <1>2 DEF detail!then, detail!lands, detail!shows
    <2>2. data'.since \in 0 .. now /\ truthful(data'.content)
      BY <1>1, <2>1 DEF PageInv, RequestsTyped, Recent, Started
    <2>3. ahead(current, "detail", data.since)'
      BY <1>2 DEF ahead, Started
    <2>4. QED
      BY <2>1, <2>2, <2>3 DEF DetailInv, truthful, PageInv
  <1>3. CASE n # current
    <2>1. UNCHANGED <<data, error, pending>>
      BY <1>3 DEF detail!then, detail!lands
    <2>2. QED
      BY <1>3, <2>1, DetailIsKept DEF PageInv, DetailInv
  <1>4. QED
    BY <1>2, <1>3

\* A chart that is put up, or asks for another range.
LEMMA ChartIsAsked ==
  ASSUME PageInv, UNCHANGED now, plot' = plot + 1, plotting' = TRUE, plotFailed' \in BOOLEAN,
         plotted' \in {plotted, Nothing}, range' \in Ranges, data' # Nothing, ~error',
         \A n \in Loads : n = plot' => request'[<<"series", n>>] = sent(range')
  PROVE  ChartInv'
  BY DEF PageInv, ChartInv, ahead, Started, sent

\* A chart that is left as it is or taken down.
LEMMA ChartIsKept ==
  ASSUME PageInv, UNCHANGED <<now, plotted, plot>>, range' \in {range, NoChart},
         plotting' \in BOOLEAN, plotFailed' \in BOOLEAN,
         range' # NoChart => data' # Nothing /\ ~error',
         range' # NoChart => plotFailed' \/ (plotting' = plotting /\ plotFailed' = plotFailed),
         \A n \in Loads : \/ request'[<<"series", n>>] = request[<<"series", n>>]
                          \/ request'[<<"series", n>>].stage \in {"landed", "cut"}
  PROVE  ChartInv'
  BY DEF PageInv, ChartInv, ahead, Started, Awaited

LEMMA LineLands ==
  ASSUME PageInv, UNCHANGED <<now, plot, range, detailVars>>, NEW n \in Loads,
         request[<<"series", n>>].stage = "answered", request'[<<"series", n>>].stage = "landed",
         \A m \in Loads \ {n} : request'[<<"series", m>>] = request[<<"series", m>>],
         range # NoChart, chart!then(n, request[<<"series", n>>])
  PROVE  ChartInv'
  <1>1. <<"series", n>> \in Requests
    BY DEF Requests
  <1>2. CASE n = plot
    <2>1. plotted' = request[<<"series", n>>] /\ plotFailed' = FALSE /\ plotting' = FALSE
      BY <1>2 DEF chart!then, chart!lands, chart!shows
    <2>2. plotted'.since \in 0 .. now /\ plotted'.range = range
      BY <1>1, <1>2, <2>1 DEF PageInv, RequestsTyped, ChartInv, Started, Awaited
    <2>3. ahead(plot, "series", plotted.since)'
      BY <1>2 DEF ahead, Started
    <2>4. \A m \in Loads : m = plot => request'[<<"series", m>>].stage \notin Awaited
      BY <1>2 DEF Awaited
    <2>5. QED
      BY <2>1, <2>2, <2>3, <2>4 DEF PageInv, ChartInv, detailVars
  <1>3. CASE n # plot
    <2>1. UNCHANGED <<plotted, plotFailed, plotting>>
      BY <1>3 DEF chart!then, chart!lands
    <2>2. QED
      BY <1>3, <2>1, ChartIsKept DEF PageInv, ChartInv, detailVars
  <1>4. QED
    BY <1>2, <1>3

LEMMA AsksOne ==
  ASSUME PageInv, NEW r, NEW chosen
  PROVE  /\ Asks(asking(r, chosen))
         /\ \A q \in Requests : asking(r, chosen)[q] = IF q = r THEN sent(chosen) ELSE request[q]
  BY DEF PageInv, RequestsTyped, asking, Asks, sent

LEMMA LandsOne ==
  ASSUME PageInv, NEW r \in Requests, request[r].stage = "answered"
  PROVE  /\ Asks(landed(r)) /\ landed(r)[r].stage = "landed"
         /\ \A q \in Requests \ {r} : landed(r)[q] = request[q]
  <1>1. request[r] = [stage |-> "answered", range |-> request[r].range, since |-> request[r].since,
                      content |-> request[r].content]
    BY DEF PageInv, RequestsTyped, Message
  <1>2. PICK m : m = [request[r] EXCEPT !.stage = "landed"]
    OBVIOUS
  <1>3. m.stage = "landed"
    BY <1>1, <1>2
  <1>4. landed(r) = [request EXCEPT ![r] = m]
    BY <1>2 DEF landed, PageInv, RequestsTyped
  <1>5. QED
    BY <1>3, <1>4 DEF PageInv, RequestsTyped, Asks

LEMMA CutsOne ==
  ASSUME PageInv, NEW r \in Requests, cut(r)
  PROVE  /\ Asks(request') /\ request'[r].stage = "cut"
         /\ \A q \in Requests \ {r} : request'[q] = request[q]
  BY DEF PageInv, RequestsTyped, Asks, cut

\* Beside the chart's own request, a mount asks for nothing.
LEMMA MountsOne ==
  ASSUME PageInv, UNCHANGED now, NEW requests, Asks(requests), mounts(requests), data' # Nothing, ~error',
         \A n \in Loads : requests[<<"series", n>>] = request[<<"series", n>>]
  PROVE  /\ Asks(request') /\ ChartInv'
         /\ \A n \in Loads : request'[<<"detail", n>>] = requests[<<"detail", n>>]
  <1>1. ASSUME NEW n \in Loads PROVE <<"detail", n>> \in Requests /\ <<"series", n>> \in Requests
    BY DEF Requests
  <1>2. CASE conditions.plots = 0
    <2>1. request' = requests /\ UNCHANGED plotVars
      BY <1>2 DEF mounts
    <2>2. ChartInv'
      BY <2>1, ChartIsKept DEF plotVars, PageInv, ChartInv
    <2>3. QED
      BY <2>1, <2>2
  <1>3. CASE conditions.plots # 0
    <2>1. /\ chart!mount /\ range' = FirstRange
          /\ request' = [requests EXCEPT ![<<"series", plot'>>] = sent(FirstRange)]
      BY <1>3 DEF mounts
    <2>2. /\ request' = [q \in Requests |-> request'[q]]
          /\ \A q \in Requests : request'[q] = IF q = <<"series", plot'>> THEN sent(FirstRange) ELSE requests[q]
      BY <2>1 DEF Asks
    <2>3. ChartInv'
      BY <1>1, <2>1, <2>2, ChartIsAsked, FirstRangeAssumption DEF chart!mount
    <2>4. Asks(request')
      BY <2>2 DEF Asks, sent
    <2>5. QED
      BY <1>1, <2>2, <2>3, <2>4
  <1>4. QED
    BY <1>2, <1>3

LEMMA PageMoves ==
  ASSUME PageInv, UNCHANGED conditions,
         \/ Reload \/ onSettled \/ RetryLine
         \/ \E chosen \in Ranges : setRange(chosen)
         \/ \E n \in Loads : Land(n) \/ CutOff(n) \/ Plot(n) \/ CutLine(n)
  PROVE  PageInv'
  <1>1. UNCHANGED <<conditions, backend>> /\ UNCHANGED <<now, log>>
    BY PagesLeaveTheBackend DEF backend, sources
  <1>2. ASSUME NEW n \in Loads
        PROVE  /\ <<"detail", n>> \in Requests /\ <<"series", n>> \in Requests
               /\ \A m \in Loads : <<"detail", n>> # <<"series", m>>
               /\ \A m : <<"detail", n>> = <<"detail", m>> <=> n = m
               /\ \A m : <<"series", n>> = <<"series", m>> <=> n = m
    BY DEF Requests
  <1> DEFINE reasked == asking(<<"detail", current'>>, AllTime)
  <1>3. /\ Asks(reasked)
        /\ \A n \in Loads : reasked[<<"series", n>>] = request[<<"series", n>>]
        /\ \A n \in Loads : n = current' => reasked[<<"detail", n>>].stage = "sent"
    <2>1. /\ Asks(reasked)
          /\ \A q \in Requests :
               reasked[q] = IF q = <<"detail", current'>> THEN sent(AllTime) ELSE request[q]
      BY AsksOne
    <2> HIDE DEF reasked
    <2>2. ASSUME NEW n \in Loads PROVE reasked[<<"series", n>>] = request[<<"series", n>>]
      <3>1. <<"series", n>> \in Requests /\ <<"series", n>> # <<"detail", current'>>
        BY <1>2
      <3>2. QED
        BY <2>1, <3>1
    <2>3. ASSUME NEW n \in Loads, n = current' PROVE reasked[<<"detail", n>>].stage = "sent"
      <3>1. <<"detail", n>> \in Requests /\ <<"detail", n>> = <<"detail", current'>>
        BY <1>2, <2>3
      <3>2. reasked[<<"detail", n>>] = sent(AllTime)
        BY <2>1, <3>1
      <3>3. QED
        BY <3>2 DEF sent
    <2>4. QED
      BY <2>1, <2>2, <2>3
  <1> HIDE DEF reasked
  <1>4. CASE Reload
    <2>1. request' = reasked /\ detail!load /\ UNCHANGED plotVars
      BY <1>4 DEF Reload, reload, reasked
    <2>2. range = NoChart
      <3>1. range # NoChart => data # Nothing /\ ~error
        BY DEF PageInv, ChartInv
      <3>2. QED
        BY <1>4, <3>1 DEF Reload, rendered, detail!loading
    <2>3. DetailInv'
      BY <1>1, <1>3, <2>1, DetailIsAsked
    <2>4. ChartInv'
      BY <1>1, <1>3, <2>1, <2>2, ChartIsKept DEF plotVars, PageInv, ChartInv
    <2>5. QED
      BY <1>1, <1>3, <2>1, <2>3, <2>4, PageStepKeepsPageInv
  <1>5. CASE onSettled
    <2>1. mounts(reasked) /\ detail!load /\ rendered = "strategy"
      BY <1>5 DEF onSettled, reload, reasked
    <2>2. data' # Nothing /\ ~error'
      BY <2>1 DEF rendered, detail!load
    <2>3. /\ Asks(request') /\ ChartInv'
          /\ \A n \in Loads : request'[<<"detail", n>>] = reasked[<<"detail", n>>]
      BY <1>1, <1>3, <2>1, <2>2, MountsOne
    <2>4. DetailInv'
      BY <1>1, <1>3, <2>1, <2>3, DetailIsAsked
    <2>5. QED
      BY <1>1, <2>3, <2>4, PageStepKeepsPageInv
  <1>6. ASSUME NEW chosen \in Ranges, asksForLine(chosen) PROVE PageInv'
    <2>1. /\ range # NoChart /\ chart!load /\ range' = chosen /\ UNCHANGED detailVars
          /\ request' = asking(<<"series", plot'>>, chosen)
      BY <1>6 DEF asksForLine
    <2>2. Asks(request') /\ \A q \in Requests : request'[q] = IF q = <<"series", plot'>> THEN sent(chosen) ELSE request[q]
      BY <2>1, AsksOne
    <2>3. ASSUME NEW n \in Loads PROVE request'[<<"detail", n>>] = request[<<"detail", n>>]
      <3>1. <<"detail", n>> \in Requests /\ <<"detail", n>> # <<"series", plot'>>
        BY <1>2
      <3>2. QED
        BY <2>2, <3>1
    <2>4. \A n \in Loads : n = plot' => request'[<<"series", n>>] = sent(range')
      BY <1>2, <2>1, <2>2
    <2>5. DetailInv'
      BY <1>1, <2>1, <2>3, DetailIsKept DEF detailVars, PageInv, DetailInv
    <2>6. ChartInv'
      <3>1. data' # Nothing /\ ~error' /\ plotFailed' \in BOOLEAN
        BY <2>1 DEF PageInv, ChartInv, detailVars, chart!load
      <3>2. plot' = plot + 1 /\ plotting' = TRUE /\ plotted' = plotted
        BY <2>1 DEF chart!load
      <3>3. range' \in Ranges
        BY <2>1
      <3>4. QED
        BY <1>1, <2>4, <3>1, <3>2, <3>3, ChartIsAsked
    <2>7. QED
      BY <1>1, <2>2, <2>5, <2>6, PageStepKeepsPageInv
  <1>7. CASE RetryLine \/ \E chosen \in Ranges : setRange(chosen)
    <2>1. CASE RetryLine
      <3>1. range # NoChart /\ asksForLine(range)
        BY <2>1 DEF RetryLine, asksForLine
      <3>2. range \in Ranges
        BY <3>1 DEF PageInv, ChartInv
      <3>3. QED
        BY <1>6, <3>1, <3>2
    <2>2. ASSUME NEW chosen \in Ranges, setRange(chosen) PROVE PageInv'
      BY <1>6, <2>2 DEF setRange
    <2>3. QED
      BY <1>7, <2>1, <2>2
  <1>8. ASSUME NEW n \in Loads, Land(n) PROVE PageInv'
    <2> DEFINE r == <<"detail", n>>
    <2>1. /\ r \in Requests /\ request[r].stage = "answered" /\ detail!then(n, request[r])
          /\ IF rendered' = "strategy" /\ range = NoChart THEN mounts(landed(r))
             ELSE request' = landed(r) /\ UNCHANGED plotVars
          /\ UNCHANGED current
      BY <1>2, <1>8 DEF Land
    <2>2. /\ Asks(landed(r)) /\ landed(r)[r].stage = "landed"
          /\ \A q \in Requests \ {r} : landed(r)[q] = request[q]
      BY <2>1, LandsOne
    <2>3. /\ \A m \in Loads : landed(r)[<<"series", m>>] = request[<<"series", m>>]
          /\ \A m \in Loads \ {n} : landed(r)[<<"detail", m>>] = request[<<"detail", m>>]
      BY <1>2, <2>2
    <2>4. Asks(request') /\ ChartInv' /\ \A m \in Loads : request'[<<"detail", m>>] = landed(r)[<<"detail", m>>]
      <3>1. CASE rendered' = "strategy" /\ range = NoChart
        <4>1. data' # Nothing /\ ~error'
          BY <3>1 DEF rendered
        <4>2. mounts(landed(r))
          BY <2>1, <3>1
        <4>3. QED
          BY <1>1, <2>2, <2>3, <4>1, <4>2, MountsOne
      <3>2. CASE ~(rendered' = "strategy" /\ range = NoChart)
        <4>1. request' = landed(r) /\ UNCHANGED plotVars
          BY <2>1, <3>2
        <4>2. range # NoChart => data' # Nothing /\ ~error'
          <5>1. request[r] # Nothing
            BY <2>1 DEF Nothing, NoRequest
          <5>2. range # NoChart => data # Nothing /\ ~error
            BY DEF PageInv, ChartInv
          <5>3. \/ data' = request[r] /\ error' = FALSE
                \/ UNCHANGED <<data, error>>
            BY <2>1 DEF detail!then, detail!shows
          <5>4. QED
            BY <5>1, <5>2, <5>3
        <4>3. ChartInv'
          BY <1>1, <2>3, <4>1, <4>2, ChartIsKept DEF plotVars, PageInv, ChartInv
        <4>4. QED
          BY <2>2, <4>1, <4>3
      <3>3. QED
        BY <3>1, <3>2
    <2>5. DetailInv'
      BY <1>1, <2>1, <2>2, <2>3, <2>4, DetailLands
    <2>6. QED
      BY <1>1, <2>4, <2>5, PageStepKeepsPageInv
  <1>9. ASSUME NEW n \in Loads, CutOff(n) PROVE PageInv'
    <2> DEFINE r == <<"detail", n>>
    <2>1. /\ r \in Requests /\ cut(r) /\ detail!catch(n) /\ UNCHANGED current
          /\ IF rendered' = "strategy" THEN UNCHANGED plotVars ELSE unmounts
      BY <1>2, <1>9 DEF CutOff
    <2>2. /\ Asks(request') /\ request'[r].stage = "cut"
          /\ \A q \in Requests \ {r} : request'[q] = request[q]
      BY <2>1, CutsOne
    <2>3. /\ \A m \in Loads : request'[<<"series", m>>] = request[<<"series", m>>]
          /\ \A m \in Loads \ {n} : request'[<<"detail", m>>] = request[<<"detail", m>>]
      BY <1>2, <2>2
    <2>4. UNCHANGED data /\ pending' \in BOOLEAN /\ error' \in BOOLEAN
      BY <2>1 DEF detail!catch, detail!fails, PageInv, DetailInv
    <2>5. DetailInv'
      BY <1>1, <2>1, <2>2, <2>3, <2>4, DetailIsKept
    <2>6. ChartInv'
      <3>1. CASE rendered' = "strategy"
        <4>1. data' # Nothing /\ ~error'
          BY <3>1 DEF rendered
        <4>2. UNCHANGED plotVars
          BY <2>1, <3>1
        <4>3. QED
          BY <1>1, <2>3, <4>1, <4>2, ChartIsKept DEF plotVars, PageInv, ChartInv
      <3>2. CASE rendered' # "strategy"
        <4>1. unmounts
          BY <2>1, <3>2
        <4>2. QED
          BY <1>1, <2>3, <4>1, ChartIsKept DEF unmounts, PageInv, ChartInv
      <3>3. QED
        BY <3>1, <3>2
    <2>7. QED
      BY <1>1, <2>2, <2>5, <2>6, PageStepKeepsPageInv
  <1>10. ASSUME NEW n \in Loads, Plot(n) PROVE PageInv'
    <2> DEFINE r == <<"series", n>>
    <2>1. /\ r \in Requests /\ request[r].stage = "answered" /\ request' = landed(r)
          /\ IF range = NoChart THEN UNCHANGED plotVars
             ELSE chart!then(n, request[r]) /\ UNCHANGED <<plot, range>>
          /\ UNCHANGED detailVars
      BY <1>2, <1>10 DEF Plot
    <2>2. /\ Asks(request') /\ request'[r].stage = "landed"
          /\ \A q \in Requests \ {r} : request'[q] = request[q]
      BY <2>1, LandsOne
    <2>3. /\ \A m \in Loads : request'[<<"detail", m>>] = request[<<"detail", m>>]
          /\ \A m \in Loads \ {n} : request'[<<"series", m>>] = request[<<"series", m>>]
      BY <1>2, <2>2
    <2>4. DetailInv'
      BY <1>1, <2>1, <2>3, DetailIsKept DEF detailVars, PageInv, DetailInv
    <2>5. ChartInv'
      <3>1. CASE range = NoChart
        BY <1>1, <2>1, <2>2, <2>3, <3>1, ChartIsKept DEF plotVars, PageInv, ChartInv
      <3>2. CASE range # NoChart
        <4>1. chart!then(n, request[r]) /\ UNCHANGED <<plot, range, detailVars>>
          BY <2>1, <3>2
        <4>2. QED
          BY <1>1, <2>1, <2>2, <2>3, <3>2, <4>1, LineLands
      <3>3. QED
        BY <3>1, <3>2
    <2>6. QED
      BY <1>1, <2>2, <2>4, <2>5, PageStepKeepsPageInv
  <1>11. ASSUME NEW n \in Loads, CutLine(n) PROVE PageInv'
    <2> DEFINE r == <<"series", n>>
    <2>1. /\ r \in Requests /\ cut(r)
          /\ IF range = NoChart THEN UNCHANGED plotVars
             ELSE chart!catch(n) /\ UNCHANGED <<plot, range>>
          /\ UNCHANGED detailVars
      BY <1>2, <1>11 DEF CutLine
    <2>2. /\ Asks(request') /\ request'[r].stage = "cut"
          /\ \A q \in Requests \ {r} : request'[q] = request[q]
      BY <2>1, CutsOne
    <2>3. /\ \A m \in Loads : request'[<<"detail", m>>] = request[<<"detail", m>>]
          /\ \A m \in Loads \ {n} : request'[<<"series", m>>] = request[<<"series", m>>]
      BY <1>2, <2>2
    <2>4. DetailInv'
      BY <1>1, <2>1, <2>3, DetailIsKept DEF detailVars, PageInv, DetailInv
    <2>5. ChartInv'
      <3>1. /\ UNCHANGED <<plotted, plot, range>>
            /\ plotFailed' \/ UNCHANGED <<plotFailed, plotting>>
            /\ plotting' \in BOOLEAN /\ plotFailed' \in BOOLEAN
        BY <2>1 DEF plotVars, chart!catch, chart!fails, PageInv, ChartInv
      <3>2. range # NoChart => data' # Nothing /\ ~error'
        BY <2>1 DEF detailVars, PageInv, ChartInv
      <3>3. QED
        BY <1>1, <2>2, <2>3, <3>1, <3>2, ChartIsKept
    <2>6. QED
      BY <1>1, <2>2, <2>4, <2>5, PageStepKeepsPageInv
  <1>12. QED
    BY <1>4, <1>5, <1>7, <1>8, <1>9, <1>10, <1>11

LEMMA PageInvStep ==
  ASSUME PageInv, TypeOK, TypeOK', [SiteNext]_siteVars
  PROVE  PageInv'
  <1>1. CASE PageNext
    <2>1. UNCHANGED conditions
      BY <1>1 DEF PageNext
    <2>2. CASE Sources /\ UNCHANGED pageVars
      BY <2>1, <2>2, SourcesKeepPageInv
    <2>3. CASE Serving /\ UNCHANGED pageVars
      BY <2>1, <2>3, ServingKeepsPageInv
    <2>4. QED
      BY <1>1, <2>1, <2>2, <2>3, PageMoves DEF PageNext
  <1>2. CASE UNCHANGED vars_
    <2>1. UNCHANGED <<conditions, now, log, filed, reads, readings, request, pageVars>>
      BY <1>2 DEF vars_, catalogVars, sources
    <2>2. SourcesTyped' /\ ReadsTyped' /\ CacheTyped'
      BY <2>1 DEF PageInv, SourcesTyped, ReadsTyped, CacheTyped
    <2>3. RequestsTyped'
      BY <2>1 DEF PageInv, RequestsTyped
    <2>4. Recent'
      BY <2>1 DEF PageInv, Recent, known, heard, truthful, detailIsRecent, heardOf
    <2>5. DetailInv' /\ ChartInv'
      BY <2>1 DEF PageInv, DetailInv, ChartInv, ahead, truthful, pageVars, detailVars, plotVars
    <2>6. QED
      BY <2>2, <2>3, <2>4, <2>5 DEF PageInv
  <1>3. QED
    BY <1>1, <1>2 DEF SiteNext, siteVars

LEMMA PageInvHolds == SiteSpec => []PageInv
  <1>1. SiteInit => PageInv
    <2> SUFFICES ASSUME SiteInit PROVE PageInv
      OBVIOUS
    <2>1. CatalogInit /\ detail!closed /\ chart!closed /\ range = NoChart
      BY DEF SiteInit, PageInit
    <2>2. now = 0 /\ CacheTtl \in Nat /\ conditions \in Conditions /\ conditions.time \in Nat
      BY <2>1, CacheTtlAssumption, ConditionsAssumption DEF CatalogInit
    <2>3. SourcesTyped /\ ReadsTyped /\ CacheTyped
      BY <2>1, <2>2 DEF CatalogInit, SourcesTyped, ReadsTyped, CacheTyped, NoEntry
    <2>4. request = [r \in Requests |-> NoRequest] /\ readings = NoEntry
      BY <2>1 DEF CatalogInit
    <2>5. RequestsTyped /\ Recent
      BY <2>4 DEF RequestsTyped, Recent, Message, NoRequest, NoEntry, Started
    <2>6. DetailInv /\ ChartInv
      BY <2>1 DEF DetailInv, ChartInv, detail!closed, chart!closed
    <2>7. QED
      BY <2>3, <2>5, <2>6 DEF PageInv
  <1>2. PageInv /\ TypeOK /\ TypeOK' /\ [SiteNext]_siteVars => PageInv'
    BY PageInvStep
  <1>3. QED
    BY <1>1, <1>2, TheVaultIsTyped, PTL DEF SiteSpec

(***************************************************************************)
(* chain-metrics.ts serves one reading to every request of CACHE_TTL_MS:   *)
(* whichever read a detail waits for, and however late that read comes     *)
(* back, what it tells from the chain includes every event older than the  *)
(* cache's time when it was asked for.  And PerformancePanel.tsx shows the *)
(* range picked, whatever was asked for an earlier one.                    *)
(***************************************************************************)
THEOREM TheAnswersAreRecent == SiteSpec => []AnswersAreRecent
  <1>1. PageInv /\ TypeOK => PageTypeOK
    <2> SUFFICES ASSUME PageInv, TypeOK PROVE PageTypeOK
      OBVIOUS
    <2>1. now \in 0 .. conditions.time /\ Len(filed) <= Len(log) /\ readings.read \in 0 .. Len(reads)
      BY DEF PageInv, SourcesTyped, CacheTyped
    <2>2. ASSUME NEW k \in DOMAIN reads
          PROVE  reads[k].stage \in {"fetching", "timing", "built", "failed"}
      <3>1. reads[k] \in Reads
        BY DEF PageInv, ReadsTyped
      <3>2. QED
        BY <3>1 DEF Reads
    <2>3. \A r \in Requests : request[r].stage \in {"none", "sent", "reading", "answered", "landed", "cut"}
      BY DEF PageInv, RequestsTyped, Message
    <2>4. rendered \in {"skeleton", "error", "empty", "strategy"}
      BY DEF rendered
    <2>5. range \in {NoChart} \cup Ranges /\ (rendered # "strategy" => range = NoChart)
      BY DEF PageInv, ChartInv, rendered, detail!loading
    <2>6. QED
      BY <2>1, <2>2, <2>3, <2>4, <2>5 DEF PageTypeOK
  <1>2. PageInv => detailsAreRecent
    BY DEF PageInv, Recent, detailsAreRecent, toldTo
  <1>3. PageInv => chartIsOfItsRange
    BY DEF PageInv, ChartInv, chartIsOfItsRange
  <1>4. PageInv /\ TypeOK => AnswersAreRecent
    BY <1>1, <1>2, <1>3 DEF AnswersAreRecent
  <1>5. QED
    BY <1>4, PageInvHolds, TheVaultIsTyped, PTL

\* What a step may put on the page: nothing else, or the awaited answer.
LEMMA WhatLands ==
  ASSUME PageInv, [SiteNext]_siteVars
  PROVE  /\ \/ data' = data
            \/ \E n \in Loads : /\ n = current /\ request[<<"detail", n>>].stage = "answered"
                                /\ data' = request[<<"detail", n>>]
         /\ \/ plotted' \in {plotted, Nothing}
            \/ \E n \in Loads : /\ n = plot /\ request[<<"series", n>>].stage = "answered"
                                /\ plotted' = request[<<"series", n>>]
  <1> DEFINE dataStays == data' = data
             dataLands == \E n \in Loads : /\ n = current /\ request[<<"detail", n>>].stage = "answered"
                                           /\ data' = request[<<"detail", n>>]
             lineStays == plotted' \in {plotted, Nothing}
             lineLands == \E n \in Loads : /\ n = plot /\ request[<<"series", n>>].stage = "answered"
                                           /\ plotted' = request[<<"series", n>>]
  <1>1. ASSUME NEW requests, mounts(requests) PROVE lineStays
    BY <1>1 DEF mounts, chart!mount, plotVars
  <1>2. CASE UNCHANGED pageVars
    BY <1>2 DEF pageVars, detailVars, plotVars
  <1>3. CASE Reload
    BY <1>3 DEF Reload, reload, detail!load, plotVars
  <1>4. CASE onSettled
    BY <1>1, <1>4 DEF onSettled, reload, detail!load
  <1>5. CASE RetryLine \/ \E chosen \in Ranges : setRange(chosen)
    BY <1>5 DEF RetryLine, setRange, asksForLine, chart!load, detailVars
  <1>6. ASSUME NEW n \in Loads, Land(n) PROVE (dataStays \/ dataLands) /\ lineStays
    <2>1. lineStays
      BY <1>1, <1>6 DEF Land, plotVars
    <2>2. dataStays \/ dataLands
      BY <1>6 DEF Land, detail!then, detail!lands, detail!shows
    <2>3. QED
      BY <2>1, <2>2
  <1>7. ASSUME NEW n \in Loads, CutOff(n) PROVE dataStays /\ lineStays
    BY <1>7 DEF CutOff, detail!catch, detail!fails, unmounts, plotVars
  <1>8. ASSUME NEW n \in Loads, Plot(n) PROVE dataStays /\ (lineStays \/ lineLands)
    BY <1>8 DEF Plot, chart!then, chart!lands, chart!shows, plotVars, detailVars
  <1>9. ASSUME NEW n \in Loads, CutLine(n) PROVE dataStays /\ lineStays
    BY <1>9 DEF CutLine, chart!catch, chart!fails, plotVars, detailVars
  <1>10. CASE PageNext
    BY <1>2, <1>3, <1>4, <1>5, <1>6, <1>7, <1>8, <1>9, <1>10 DEF PageNext
  <1>11. QED
    BY <1>2, <1>10 DEF SiteNext, siteVars, vars_

LEMMA StepNeverGoesBack ==
  ASSUME PageInv, [SiteNext]_siteVars
  PROVE  /\ data # Nothing => data'.since >= data.since
         /\ fromTheChain(data) /\ fromTheChain(data') =>
              \A k \in data'.content.metrics.length + 1 .. data.content.metrics.length :
                ~heardOf(k, data')
         /\ plotted # Nothing /\ plotted' # Nothing => plotted'.since >= plotted.since
  <1>1. /\ now \in Nat /\ Len(log) \in Nat /\ DOMAIN log = 1 .. Len(log)
    BY ConditionsAssumption DEF PageInv, SourcesTyped
  <1>2. ASSUME NEW n \in Loads, n = current, request[<<"detail", n>>].stage = "answered",
               data' = request[<<"detail", n>>]
        PROVE  /\ data'.since \in Nat
               /\ truthful(data'.content) /\ detailIsRecent(request[<<"detail", n>>])
               /\ data # Nothing => data'.since >= data.since
    <2>1. <<"detail", n>> \in Requests /\ <<"detail", n>>[1] = "detail"
      BY DEF Requests
    <2>2. data'.since \in 0 .. now
      BY <1>2, <2>1 DEF PageInv, RequestsTyped, Started
    <2>3. truthful(data'.content) /\ detailIsRecent(request[<<"detail", n>>])
      BY <1>2, <2>1 DEF PageInv, Recent
    <2>4. ASSUME data # Nothing PROVE data'.since >= data.since
      <3>1. data.since \in 0 .. now /\ data.since <= data'.since
        BY <1>2, <2>4 DEF PageInv, DetailInv, ahead, Started
      <3>2. QED
        BY <1>1, <2>2, <3>1
    <2>5. QED
      BY <1>1, <2>2, <2>3, <2>4
  <1>3. data # Nothing => data'.since >= data.since
    <2>1. CASE data' = data
      BY <1>1, <2>1 DEF PageInv, DetailInv
    <2>2. QED
      BY <1>2, <2>1, WhatLands
  <1>4. ASSUME fromTheChain(data), fromTheChain(data'),
               NEW k \in data'.content.metrics.length + 1 .. data.content.metrics.length
        PROVE  ~heardOf(k, data')
    <2>1. data.content.metrics.length \in 0 .. Len(log)
      BY <1>4 DEF fromTheChain, PageInv, DetailInv, truthful
    <2>2. CASE data' = data
      BY <1>1, <1>4, <2>1, <2>2
    <2>3. ASSUME NEW n \in Loads, n = current, request[<<"detail", n>>].stage = "answered",
                 data' = request[<<"detail", n>>]
          PROVE  ~heardOf(k, data')
      <3>1. truthful(data'.content) /\ detailIsRecent(request[<<"detail", n>>])
        BY <1>2, <2>3
      <3>2. data'.content.metrics.length \in 0 .. Len(log)
        BY <1>4, <3>1 DEF fromTheChain, truthful
      <3>3. k \in DOMAIN log /\ k \in Int /\ k > data'.content.metrics.length
        <4>1. PICK here \in 0 .. Len(log) : here = data'.content.metrics.length
          BY <3>2
        <4>2. PICK before \in 0 .. Len(log) : before = data.content.metrics.length
          BY <2>1
        <4>3. k \in here + 1 .. before
          BY <1>4, <4>1, <4>2
        <4>4. k \in DOMAIN log /\ k \in Int /\ k > here
          BY <1>1, <4>3
        <4>5. QED
          BY <4>1, <4>4
      <3>4. heardOf(k, data') => k <= data'.content.metrics.length
        BY <1>4, <2>3, <3>1, <3>3 DEF detailIsRecent, fromTheChain
      <3>5. QED
        BY <3>2, <3>3, <3>4
    <2>4. QED
      BY <2>2, <2>3, WhatLands
  <1>5. ASSUME plotted # Nothing, plotted' # Nothing PROVE plotted'.since >= plotted.since
    <2>1. plotted.since \in 0 .. now /\ ahead(plot, "series", plotted.since)
      BY <1>5 DEF PageInv, ChartInv
    <2>2. CASE plotted' = plotted
      BY <1>1, <2>1, <2>2
    <2>3. ASSUME NEW n \in Loads, n = plot, request[<<"series", n>>].stage = "answered",
                 plotted' = request[<<"series", n>>]
          PROVE  plotted'.since >= plotted.since
      <3>1. <<"series", n>> \in Requests
        BY DEF Requests
      <3>2. plotted'.since \in 0 .. now
        BY <2>3, <3>1 DEF PageInv, RequestsTyped, Started
      <3>3. plotted.since <= plotted'.since
        BY <2>1, <2>3 DEF ahead, Started
      <3>4. QED
        BY <1>1, <2>1, <3>2, <3>3
    <2>4. QED
      BY <1>5, <2>2, <2>3, WhatLands
  <1>6. QED
    BY <1>3, <1>4, <1>5

(***************************************************************************)
(* useResource.ts: what the page shows is never replaced by what was asked *)
(* for earlier, however the answers overtake each other; and an answer     *)
(* that knows fewer events than the one it replaces lacks none older than  *)
(* the cache's time when it was asked for.                                 *)
(***************************************************************************)
THEOREM ThePageNeverGoesBack == SiteSpec => PageNeverGoesBack
  <1>1. PageInv /\ [SiteNext]_siteVars =>
          [/\ data # Nothing => data'.since >= data.since
           /\ fromTheChain(data) /\ fromTheChain(data') =>
                \A k \in data'.content.metrics.length + 1 .. data.content.metrics.length :
                  ~heardOf(k, data')
           /\ plotted # Nothing /\ plotted' # Nothing => plotted'.since >= plotted.since]_siteVars
    BY StepNeverGoesBack
  <1>2. QED
    BY <1>1, PageInvHolds, PTL DEF SiteSpec, PageNeverGoesBack

-----------------------------------------------------------------------------
(***************************************************************************)
(* The log.  A settlement leaves the shares alone and its event does not   *)
(* tell them, so they are those of the last transfer before it.            *)
(***************************************************************************)
lastTransfer(k) == log[k].kind # "pnl" /\ \A l \in DOMAIN log : l > k => log[l].kind = "pnl"

LogInv ==
  /\ totalManagedAssets = IF log = <<>> THEN 0 ELSE log[Len(log)].managed
  /\ IF \A k \in DOMAIN log : log[k].kind = "pnl" THEN totalShares = 0
     ELSE \E k \in DOMAIN log : lastTransfer(k) /\ log[k].total = totalShares

LEMMA EmitsKeepsLogInv ==
  ASSUME log \in Seq(Events), LogInv, NEW kind, NEW who, NEW shares, emits(kind, who, shares),
         kind = "pnl" => UNCHANGED totalShares
  PROVE  LogInv'
  <1>1. PICK e : /\ log' = Append(log, e) /\ e.kind = kind
                 /\ e.managed = totalManagedAssets' /\ e.total = totalShares'
    BY DEF emits
  <1>2. /\ Len(log) \in Nat /\ DOMAIN log = 1 .. Len(log)
        /\ Len(log') = Len(log) + 1 /\ DOMAIN log' = 1 .. Len(log) + 1
        /\ log'[Len(log) + 1] = e /\ \A k \in DOMAIN log : log'[k] = log[k]
    BY <1>1
  <1>3. log' # <<>> /\ totalManagedAssets' = log'[Len(log')].managed
    BY <1>1, <1>2
  <1>4. CASE kind = "pnl"
    <2>1. totalShares' = totalShares
      BY <1>4
    <2>2. CASE \A k \in DOMAIN log : log[k].kind = "pnl"
      <3>1. totalShares = 0
        BY <2>2 DEF LogInv
      <3>2. \A k \in DOMAIN log' : log'[k].kind = "pnl"
        BY <1>1, <1>2, <1>4, <2>2
      <3>3. QED
        BY <1>3, <2>1, <3>1, <3>2 DEF LogInv
    <2>3. CASE ~(\A k \in DOMAIN log : log[k].kind = "pnl")
      <3>1. PICK k \in DOMAIN log : lastTransfer(k) /\ log[k].total = totalShares
        BY <2>3 DEF LogInv
      <3>2. k \in DOMAIN log' /\ log'[k].kind # "pnl" /\ log'[k].total = totalShares'
        BY <1>2, <2>1, <3>1 DEF lastTransfer
      <3>3. \A l \in DOMAIN log' : l > k => log'[l].kind = "pnl"
        BY <1>1, <1>2, <1>4, <3>1 DEF lastTransfer
      <3>4. lastTransfer(k)'
        BY <3>2, <3>3 DEF lastTransfer
      <3>5. QED
        BY <1>3, <3>2, <3>4 DEF LogInv
    <2>4. QED
      BY <2>2, <2>3
  <1>5. CASE kind # "pnl"
    <2>1. Len(log) + 1 \in DOMAIN log' /\ log'[Len(log) + 1].kind # "pnl"
          /\ log'[Len(log) + 1].total = totalShares'
      BY <1>1, <1>2, <1>5
    <2>2. \A l \in DOMAIN log' : ~(l > Len(log) + 1)
      BY <1>2
    <2>3. \E k \in DOMAIN log' : lastTransfer(k)' /\ log'[k].total = totalShares'
      BY <2>1, <2>2 DEF lastTransfer
    <2>4. QED
      BY <1>3, <2>1, <2>3 DEF LogInv
  <1>6. QED
    BY <1>4, <1>5

LEMMA LogInvStep ==
  ASSUME LogInv, log \in Seq(Events), [SiteNext]_siteVars
  PROVE  LogInv'
  <1>1. CASE Sources
    <2>1. ASSUME NEW i, NEW a, Deposit(i, a) \/ Withdraw(i, a) PROVE LogInv'
      BY <2>1, EmitsKeepsLogInv DEF Deposit, Withdraw
    <2>2. ASSUME NEW d, Settle(d) PROVE LogInv'
      <3>1. emits("pnl", "operator", 0) /\ UNCHANGED totalShares
        BY <2>2 DEF Settle, applyPnl
      <3>2. QED
        BY <3>1, EmitsKeepsLogInv
    <2>3. ASSUME Snapshot \/ File \/ Time PROVE UNCHANGED <<totalManagedAssets, totalShares, log>>
      BY <2>3 DEF Snapshot, File, Time, vaultVars, sources
    <2>4. CASE UNCHANGED <<totalManagedAssets, totalShares, log>>
      BY <2>4 DEF LogInv, lastTransfer
    <2>5. QED
      BY <1>1, <2>1, <2>2, <2>3, <2>4 DEF Sources
  <1>2. CASE UNCHANGED <<totalManagedAssets, totalShares, log>>
    BY <1>2 DEF LogInv, lastTransfer
  <1>3. CASE Serving
    BY <1>2, <1>3, ServingLeavesTheSources DEF vaultVars, sources
  <1>4. CASE UNCHANGED backend
    BY <1>2, <1>4 DEF backend, vaultVars, sources
  <1>5. CASE UNCHANGED vars_
    BY <1>2, <1>5 DEF vars_, catalogVars, vaultVars, sources
  <1>6. QED
    BY <1>1, <1>3, <1>4, <1>5, PagesLeaveTheBackend DEF SiteNext, PageNext, siteVars

LEMMA FoldTellsTheTotals ==
  ASSUME LogInv, log \in Seq(Events)
  PROVE  totalsAgree
  <1> DEFINE transfers == {k \in DOMAIN log : log[k].kind # "pnl"}
             shares == IF transfers = {} THEN 0 ELSE log[Max(transfers)].total
             assets == IF log = <<>> THEN 0 ELSE Last(log).managed
  <1>1. assets = totalManagedAssets
    BY DEF LogInv, Last
  <1>2. shares = totalShares
    <2>1. CASE transfers = {}
      BY <2>1 DEF LogInv
    <2>2. CASE transfers # {}
      <3>1. PICK k \in DOMAIN log : lastTransfer(k) /\ log[k].total = totalShares
        BY <2>2 DEF LogInv
      <3>2. DOMAIN log = 1 .. Len(log) /\ Len(log) \in Nat
        OBVIOUS
      <3>3. k \in transfers /\ \A l \in transfers : k >= l
        BY <3>1, <3>2 DEF lastTransfer
      <3>4. \A x \in transfers : (\A l \in transfers : x >= l) => x = k
        BY <3>2, <3>3
      <3>5. Max(transfers) = k
        BY <3>3, <3>4 DEF Max
      <3>6. QED
        BY <2>2, <3>1, <3>5
    <2>3. QED
      BY <2>1, <2>2
  <1>3. reading.totals = [assets |-> assets, shares |-> shares,
                          nav |-> IF shares = 0 THEN Par ELSE (assets * Par) \div shares]
    BY DEF reading, foldLogs
  <1> HIDE DEF transfers, shares, assets
  <1>4. QED
    BY <1>1, <1>2, <1>3 DEF totalsAgree, totalsNow, navPerShare

(***************************************************************************)
(* chain-metrics.ts: the events of a vault, folded, "owe nothing to any    *)
(* row this backend wrote": their totals and their price are the vault's,  *)
(* after any calls, though a settlement's event does not tell the shares.  *)
(***************************************************************************)
THEOREM TheLogTellsTheTotals == SiteSpec => []totalsAgree
  <1>1. SiteInit => LogInv
    BY DEF SiteInit, PageInit, CatalogInit, Init, LogInv
  <1>2. PageInv => log \in Seq(Events)
    BY DEF PageInv, SourcesTyped
  <1>3. PageInv /\ LogInv /\ [SiteNext]_siteVars => LogInv'
    BY <1>2, LogInvStep
  <1>4. PageInv /\ LogInv => totalsAgree
    BY <1>2, FoldTellsTheTotals
  <1>5. QED
    BY <1>1, <1>3, <1>4, PageInvHolds, PTL DEF SiteSpec

-----------------------------------------------------------------------------
(***************************************************************************)
(* The marketplace.  A request that is still awaited asks for what is on   *)
(* screen, since whatever changes that asks again; and a query that has    *)
(* not settled has a timer that runs for it.                               *)
(***************************************************************************)
Set(query, settled, url, timer, types, risk, sort) ==
  [query |-> query, settled |-> settled, url |-> url, timer |-> timer,
   types |-> types, risk |-> risk, sort |-> sort]

Shaped(c) == \E query, settled, url, timer, types, risk, sort :
               c = Set(query, settled, url, timer, types, risk, sort)

Settles(c) == IF c.timer = NoTimer THEN c.query = c.settled ELSE c.timer = c.query

Answering(c) ==
  search > 0 =>
    /\ searches[search].stage # "over" => searches[search].ask = asks(c)
    /\ searching \/ searchFailed \/ found.ask = asks(c)

MarketInv ==
  /\ search \in Nat /\ searching \in BOOLEAN /\ searchFailed \in BOOLEAN
  /\ searches = [k \in 1 .. search |-> searches[k]]
  /\ Shaped(criteria) /\ Settles(criteria) /\ Answering(criteria)

\* What is appended to a sequence, and what stays.
LEMMA AppendsOne ==
  ASSUME NEW n \in Nat, NEW s, s = [k \in 1 .. n |-> s[k]], NEW e
  PROVE  /\ Append(s, e) = [k \in 1 .. n + 1 |-> Append(s, e)[k]]
         /\ Append(s, e)[n + 1] = e
  <1> DEFINE S == {s[k] : k \in 1 .. n} \cup {e}
  <1>1. s \in Seq(S) /\ Len(s) = n
    <2>1. s \in [1 .. n -> S]
      OBVIOUS
    <2> HIDE DEF S
    <2>2. QED
      BY <2>1
  <1>2. e \in S
    OBVIOUS
  <1> HIDE DEF S
  <1>3. QED
    BY <1>1, <1>2

LEMMA AskIsAnswering ==
  ASSUME MarketInv, NEW c, ask(c)
  PROVE  /\ search' \in Nat /\ searching' \in BOOLEAN /\ searchFailed' \in BOOLEAN
         /\ searches' = [k \in 1 .. search' |-> searches'[k]]
         /\ search' > 0 =>
              /\ searches'[search'].stage # "over" => searches'[search'].ask = asks(c)
              /\ searching' \/ searchFailed' \/ found'.ask = asks(c)
  <1>1. search' = search + 1 /\ searching' = TRUE /\ UNCHANGED <<found, searchFailed>>
    BY DEF ask, results!load
  <1>2. PICK m : searches' = Append(searches, m) /\ m.ask = asks(c)
    BY DEF ask
  <1>3. search \in Nat /\ searches = [k \in 1 .. search |-> searches[k]] /\ searchFailed \in BOOLEAN
    BY DEF MarketInv
  <1>4. searches' = [k \in 1 .. search' |-> searches'[k]] /\ searches'[search'] = m
    BY <1>1, <1>2, <1>3, AppendsOne
  <1>5. QED
    BY <1>1, <1>2, <1>3, <1>4

LEMMA BecomesKeepsMarketInv ==
  ASSUME MarketInv, NEW c, NEW open, becomes(c, open), Shaped(c), Settles(c)
  PROVE  MarketInv'
  <1>1. criteria' = c
    BY DEF becomes
  <1>2. Shaped(criteria)' /\ Settles(criteria)'
    BY <1>1 DEF Shaped, Settles
  <1>3. CASE asks(c) = asks(criteria) /\ UNCHANGED resultVars
    BY <1>1, <1>2, <1>3 DEF MarketInv, Answering, resultVars
  <1>4. CASE ask(c)
    BY <1>1, <1>2, <1>4, AskIsAnswering DEF MarketInv, Answering
  <1>5. QED
    BY <1>3, <1>4 DEF becomes

\* The ways a reader changes the criteria.
LEMMA SetSettles ==
  ASSUME NEW q, NEW s, NEW u, NEW t, NEW y, NEW r, NEW o
  PROVE  /\ Shaped(Set(q, s, u, t, y, r, o))
         /\ Settles(Set(q, s, u, t, y, r, o)) <=> IF t = NoTimer THEN q = s ELSE t = q
         /\ Set(q, s, u, t, y, r, o).query = q /\ Set(q, s, u, t, y, r, o).timer = t
  <1>1. Shaped(Set(q, s, u, t, y, r, o))
    BY Zenon DEF Shaped
  <1>2. /\ Set(q, s, u, t, y, r, o).query = q /\ Set(q, s, u, t, y, r, o).timer = t
        /\ Set(q, s, u, t, y, r, o).settled = s
    BY DEF Set
  <1>3. QED
    BY <1>1, <1>2 DEF Settles

LEMMA TypedSettles ==
  ASSUME NEW c, Shaped(c), Settles(c), NEW q, q # NoTimer
  PROVE  /\ Shaped(typed(c, q)) /\ Settles(typed(c, q))
         /\ Shaped(settlesOn(c, q)) /\ Settles(settlesOn(c, q))
  <1>1. PICK q0, s0, u0, t0, y0, r0, o0 : c = Set(q0, s0, u0, t0, y0, r0, o0)
    BY Zenon DEF Shaped
  <1>2. PICK t : t = IF q = q0 THEN t0 ELSE q
    OBVIOUS
  <1>3. typed(c, q) = Set(q, s0, u0, t, y0, r0, o0)
    <2>1. PICK half : half = [c EXCEPT !.query = q]
      OBVIOUS
    <2>2. half = Set(q, s0, u0, t0, y0, r0, o0)
      BY <1>1, <2>1 DEF Set
    <2>3. t = IF q = c.query THEN half.timer ELSE q
      BY <1>1, <1>2, <2>2, SetSettles
    <2>4. [half EXCEPT !.timer = t] = Set(q, s0, u0, t, y0, r0, o0)
      BY <2>2 DEF Set
    <2>5. typed(c, q) = [half EXCEPT !.timer = t]
      BY <2>1, <2>3, Zenon DEF typed
    <2>6. QED
      BY <2>4, <2>5
  <1>4. settlesOn(c, q) = Set(q, q, u0, t, y0, r0, o0)
    BY <1>3 DEF settlesOn, Set
  <1>5. IF t0 = NoTimer THEN q0 = s0 ELSE t0 = q0
    BY <1>1, SetSettles
  <1>6. QED
    BY <1>2, <1>3, <1>4, <1>5, SetSettles

LEMMA RestSettles ==
  ASSUME NEW c, Shaped(c), Settles(c), NEW v
  PROVE  /\ Shaped([c EXCEPT !.url = v]) /\ Settles([c EXCEPT !.url = v])
         /\ Shaped([c EXCEPT !.types = v]) /\ Settles([c EXCEPT !.types = v])
         /\ Shaped([c EXCEPT !.risk = v]) /\ Settles([c EXCEPT !.risk = v])
         /\ Shaped([c EXCEPT !.sort = v]) /\ Settles([c EXCEPT !.sort = v])
  <1>1. PICK q0, s0, u0, t0, y0, r0, o0 : c = Set(q0, s0, u0, t0, y0, r0, o0)
    BY Zenon DEF Shaped
  <1>2. IF t0 = NoTimer THEN q0 = s0 ELSE t0 = q0
    BY <1>1, SetSettles
  <1>3. /\ [c EXCEPT !.url = v] = Set(q0, s0, v, t0, y0, r0, o0)
        /\ [c EXCEPT !.types = v] = Set(q0, s0, u0, t0, v, r0, o0)
        /\ [c EXCEPT !.risk = v] = Set(q0, s0, u0, t0, y0, v, o0)
        /\ [c EXCEPT !.sort = v] = Set(q0, s0, u0, t0, y0, r0, v)
    BY <1>1 DEF Set
  <1>4. /\ Shaped(Set(q0, s0, v, t0, y0, r0, o0)) /\ Settles(Set(q0, s0, v, t0, y0, r0, o0))
        /\ Shaped(Set(q0, s0, u0, t0, v, r0, o0)) /\ Settles(Set(q0, s0, u0, t0, v, r0, o0))
        /\ Shaped(Set(q0, s0, u0, t0, y0, v, o0)) /\ Settles(Set(q0, s0, u0, t0, y0, v, o0))
        /\ Shaped(Set(q0, s0, u0, t0, y0, r0, v)) /\ Settles(Set(q0, s0, u0, t0, y0, r0, v))
    BY <1>2, SetSettles
  <1>5. QED
    BY <1>3, <1>4, Zenon

LEMMA FiredSettles ==
  ASSUME NEW c, Shaped(c), Settles(c), c.timer # NoTimer
  PROVE  /\ Shaped([c EXCEPT !.settled = c.timer, !.timer = NoTimer])
         /\ Settles([c EXCEPT !.settled = c.timer, !.timer = NoTimer])
  <1>1. PICK q0, s0, u0, t0, y0, r0, o0 : c = Set(q0, s0, u0, t0, y0, r0, o0)
    BY Zenon DEF Shaped
  <1>2. c.timer = t0 /\ t0 = q0
    BY <1>1, SetSettles
  <1>3. [c EXCEPT !.settled = c.timer, !.timer = NoTimer] = Set(q0, t0, u0, NoTimer, y0, r0, o0)
    <2>1. PICK half : half = [c EXCEPT !.settled = c.timer]
      OBVIOUS
    <2>2. half = Set(q0, t0, u0, t0, y0, r0, o0)
      BY <1>1, <1>2, <2>1 DEF Set
    <2>3. [half EXCEPT !.timer = NoTimer] = Set(q0, t0, u0, NoTimer, y0, r0, o0)
      BY <2>2 DEF Set
    <2>4. QED
      BY <2>1, <2>3, Zenon
  <1>4. QED
    BY <1>2, <1>3, SetSettles

LEMMA ReaderKeepsMarketInv ==
  ASSUME MarketInv, ReaderStep
  PROVE  MarketInv'
  <1>1. Shaped(criteria) /\ Settles(criteria)
    BY DEF MarketInv
  <1>2. <<>> # NoTimer /\ \A q \in Queries : q # NoTimer
    BY QueriesAssumption DEF NoTimer
  <1>3. ASSUME NEW q \in Queries, OpenMarket(q) PROVE MarketInv'
    <2> DEFINE c == [criteria EXCEPT !.query = q, !.settled = q, !.url = q, !.timer = q]
    <2>1. criteria' = c /\ ask(c)
      BY <1>3 DEF OpenMarket
    <2>2. Shaped(c) /\ Settles(c)
      <3>1. PICK q0, s0, u0, t0, y0, r0, o0 : criteria = Set(q0, s0, u0, t0, y0, r0, o0)
        BY <1>1, Zenon DEF Shaped
      <3>2. c = Set(q, q, q, q, y0, r0, o0)
        <4>1. PICK c1 : c1 = [criteria EXCEPT !.query = q]
          OBVIOUS
        <4>2. PICK c2 : c2 = [c1 EXCEPT !.settled = q]
          OBVIOUS
        <4>3. PICK c3 : c3 = [c2 EXCEPT !.url = q]
          OBVIOUS
        <4>4. c1 = Set(q, s0, u0, t0, y0, r0, o0)
          BY <3>1, <4>1 DEF Set
        <4>5. c2 = Set(q, q, u0, t0, y0, r0, o0)
          BY <4>2, <4>4 DEF Set
        <4>6. c3 = Set(q, q, q, t0, y0, r0, o0)
          BY <4>3, <4>5 DEF Set
        <4>7. [c3 EXCEPT !.timer = q] = Set(q, q, q, q, y0, r0, o0)
          BY <4>6 DEF Set
        <4>8. QED
          BY <4>1, <4>2, <4>3, <4>7, Zenon
      <3>3. QED
        BY <3>2, SetSettles
    <2> HIDE DEF c
    <2>3. Shaped(criteria)' /\ Settles(criteria)'
      BY <2>1, <2>2 DEF Shaped, Settles
    <2>4. QED
      BY <2>1, <2>3, AskIsAnswering DEF MarketInv, Answering
  <1>4. ASSUME NEW q \in Queries, Type(q) PROVE MarketInv'
    BY <1>1, <1>2, <1>4, TypedSettles, BecomesKeepsMarketInv DEF Type
  <1>5. ASSUME NEW q \in Queries, Handover(q) PROVE MarketInv'
    <2>1. PICK c : c = [settlesOn(criteria, q) EXCEPT !.url = q]
      OBVIOUS
    <2>2. Shaped(c) /\ Settles(c)
      BY <1>1, <1>2, <2>1, TypedSettles, RestSettles
    <2>3. QED
      BY <1>5, <2>1, <2>2, BecomesKeepsMarketInv DEF Handover
  <1>6. ASSUME ClearField \/ removeQuery PROVE MarketInv'
    BY <1>1, <1>2, <1>6, TypedSettles, BecomesKeepsMarketInv DEF ClearField, removeQuery
  <1>7. ASSUME timerFires PROVE MarketInv'
    <2>1. PICK c : c = [criteria EXCEPT !.settled = criteria.timer, !.timer = NoTimer]
      OBVIOUS
    <2>2. criteria.timer # NoTimer /\ becomes(c, dropdown.open)
      BY <1>7, <2>1, Zenon DEF timerFires
    <2>3. Shaped(c) /\ Settles(c)
      BY <1>1, <2>1, <2>2, FiredSettles, Zenon
    <2>4. QED
      BY <2>2, <2>3, BecomesKeepsMarketInv
  <1>8. ASSUME NEW c, Shaped(c), Settles(c), NEW types, NEW risk,
               becomes([c EXCEPT !.types = types, !.risk = risk], FALSE)
        PROVE  MarketInv'
    <2>1. PICK half : half = [c EXCEPT !.types = types]
      OBVIOUS
    <2>2. PICK all : all = [half EXCEPT !.risk = risk]
      OBVIOUS
    <2>3. Shaped(all) /\ Settles(all)
      BY <1>8, <2>1, <2>2, RestSettles
    <2>4. becomes(all, FALSE)
      BY <1>8, <2>1, <2>2, Zenon
    <2>5. QED
      BY <2>3, <2>4, BecomesKeepsMarketInv, Zenon
  <1>9. ASSUME RetrySearch PROVE MarketInv'
    <2>1. ask(criteria) /\ UNCHANGED criteria
      BY <1>9 DEF RetrySearch
    <2>2. QED
      BY <1>1, <2>1, AskIsAnswering DEF MarketInv, Answering, Shaped, Settles
  <1>10. ASSUME UNCHANGED <<criteria, resultVars>> PROVE MarketInv'
    BY <1>10 DEF MarketInv, Shaped, Settles, Answering, resultVars
  <1>11. ASSUME NEW d, turnsTo(d) PROVE UNCHANGED <<criteria, resultVars>>
    BY <1>11 DEF turnsTo
  <1>12. ASSUME LoadCatalogue \/ OpenSuggestions \/ CloseSuggestions \/ ArrowDown \/ ArrowUp
         PROVE MarketInv'
    BY <1>10, <1>11, <1>12 DEF LoadCatalogue, OpenSuggestions, CloseSuggestions, ArrowDown, ArrowUp
  <1>13. ASSUME Escape PROVE MarketInv'
    <2>1. CASE expanded
      BY <1>12, <1>13, <2>1 DEF Escape
    <2>2. CASE ~expanded
      BY <1>1, <1>2, <1>13, <2>2, TypedSettles, BecomesKeepsMarketInv DEF Escape
    <2>3. QED
      BY <2>1, <2>2
  <1>14. ASSUME NEW i, Hover(i) PROVE MarketInv'
    BY <1>10, <1>11, <1>14 DEF Hover
  <1>15. ASSUME NEW types, NEW risk, Narrow(types, risk) PROVE MarketInv'
    BY <1>1, <1>8, <1>15, Zenon DEF Narrow
  <1>16. ASSUME clearAll PROVE MarketInv'
    <2>1. Shaped(settlesOn(criteria, <<>>)) /\ Settles(settlesOn(criteria, <<>>))
      BY <1>1, <1>2, TypedSettles
    <2>2. QED
      BY <1>8, <1>16, <2>1, Zenon DEF clearAll
  <1>17. ASSUME NEW key, SortBy(key) PROVE MarketInv'
    <2>1. PICK c : c = [criteria EXCEPT !.sort = key]
      OBVIOUS
    <2>2. Shaped(c) /\ Settles(c)
      BY <1>1, <2>1, RestSettles
    <2>3. QED
      BY <1>17, <2>1, <2>2, BecomesKeepsMarketInv DEF SortBy
  <1>18. QED
    BY <1>3, <1>4, <1>5, <1>6, <1>7, <1>9, <1>12, <1>13, <1>14, <1>15, <1>16, <1>17 DEF ReaderStep

\* An answer on its way keeps what it answers; one that is over is awaited
\* no more.
LEMMA SearchesKeepMarketInv ==
  ASSUME MarketInv, UNCHANGED <<criteria, search>>, NEW k \in DOMAIN searches, NEW m,
         searches' = [searches EXCEPT ![k] = m],
         m.stage = "over" \/ (searches[k].stage # "over" /\ m.ask = searches[k].ask),
         searching' \in BOOLEAN, searchFailed' \in BOOLEAN,
         \/ UNCHANGED <<found, searching, searchFailed>>
         \/ searchFailed'
         \/ k = search /\ searches[k].stage # "over" /\ found' = searches[k]
  PROVE  MarketInv'
  <1>1. /\ searches' = [j \in 1 .. search' |-> searches'[j]]
        /\ \A j \in 1 .. search : searches'[j] = IF j = k THEN m ELSE searches[j]
    BY DEF MarketInv
  <1>2. Shaped(criteria)' /\ Settles(criteria)'
    BY DEF MarketInv, Shaped, Settles
  <1>3. asks(criteria)' = asks(criteria)
    BY DEF asks
  <1>4. Answering(criteria)'
    BY <1>1, <1>3 DEF MarketInv, Answering
  <1>5. QED
    BY <1>1, <1>2, <1>4 DEF MarketInv

LEMMA MarketInvStep ==
  ASSUME MarketInv, [SiteNext]_siteVars
  PROVE  MarketInv'
  <1>1. CASE UNCHANGED <<criteria, resultVars>>
    BY <1>1 DEF MarketInv, Shaped, Settles, Answering, resultVars
  <1>2. ASSUME NEW k, matchRows(k) \/ AnswerSearch(k) PROVE MarketInv'
    <2>1. PICK m : searches' = [searches EXCEPT ![k] = m] /\ m.ask = searches[k].ask
      <3>1. CASE matchRows(k)
        <4>1. PICK m : m = [stage |-> "matched", ask |-> searches[k].ask,
                            kept |-> {n \in 1 .. shelf.created : admits(searches[k].ask, n)}]
          OBVIOUS
        <4>2. searches' = [searches EXCEPT ![k] = m]
          BY <3>1, <4>1, Zenon DEF matchRows
        <4>3. m.ask = searches[k].ask
          BY <4>1
        <4>4. QED
          BY <4>2, <4>3
      <3>2. CASE AnswerSearch(k)
        <4> DEFINE sorted == sortSummaries(searches[k].kept, searches[k].ask)
                   page == SubSeq(sorted, 1, Min({PageLimit, Len(sorted)}))
        <4>1. PICK m : m = [stage |-> "answered", ask |-> searches[k].ask, total |-> Len(sorted),
                            rows |-> [i \in DOMAIN page |-> [n |-> page[i], figure |-> shelf.figure[page[i]]]]]
          OBVIOUS
        <4>2. searches' = [searches EXCEPT ![k] = m]
          BY <3>2, <4>1, Zenon DEF AnswerSearch
        <4>3. m.ask = searches[k].ask
          BY <4>1
        <4>4. QED
          BY <4>2, <4>3
      <3>3. QED
        BY <1>2, <3>1, <3>2
    <2>2. /\ k \in DOMAIN searches /\ searches[k].stage # "over"
          /\ UNCHANGED <<criteria, search, found, searching, searchFailed>>
      BY <1>2 DEF matchRows, AnswerSearch
    <2>3. searching' \in BOOLEAN /\ searchFailed' \in BOOLEAN
      BY <2>2 DEF MarketInv
    <2>4. QED
      BY <2>1, <2>2, <2>3, SearchesKeepMarketInv
  <1>3. ASSUME NEW k, LandSearch(k) \/ CutSearch(k) PROVE MarketInv'
    <2>1. PICK m : searches' = [searches EXCEPT ![k] = m] /\ m.stage = "over"
      BY <1>3 DEF LandSearch, CutSearch
    <2>2. k \in DOMAIN searches /\ searches[k].stage # "over" /\ UNCHANGED <<criteria, search>>
      BY <1>3 DEF LandSearch, CutSearch
    <2>3. /\ \/ UNCHANGED <<found, searching, searchFailed>>
             \/ searchFailed'
             \/ k = search /\ found' = searches[k]
          /\ searching' \in BOOLEAN /\ searchFailed' \in BOOLEAN
      BY <1>3 DEF LandSearch, CutSearch, results!then, results!catch, results!lands, results!shows,
                  results!fails, MarketInv
    <2>4. QED
      BY <2>1, <2>2, <2>3, SearchesKeepMarketInv
  <1>4. CASE MarketStep
    <2>1. ASSUME Create \/ \E n \in DOMAIN Rows : Perform(n) PROVE UNCHANGED <<criteria, resultVars>>
      BY <2>1 DEF Create, Perform
    <2>2. QED
      BY <1>1, <1>2, <1>3, <1>4, <2>1, ReaderKeepsMarketInv DEF MarketStep
  <1>5. QED
    BY <1>1, <1>4 DEF SiteNext, siteVars, marketVars

(***************************************************************************)
(* MarketplaceBrowser.tsx: once typing has paused and nothing is loading,  *)
(* the results are those of the criteria on screen, whoever set them, with *)
(* whatever timer, address or filter, and however slow the answers to      *)
(* earlier ones were.                                                      *)
(***************************************************************************)
THEOREM TheResultsAnswerTheCriteria == SiteSpec => []answersTheCriteria
  <1>1. SiteInit => MarketInv
    <2> SUFFICES ASSUME MarketInit PROVE MarketInv
      BY DEF SiteInit
    <2>1. search = 0 /\ searching = FALSE /\ searchFailed = FALSE /\ searches = <<>>
      BY DEF MarketInit, results!closed
    <2>2. searches = [k \in 1 .. search |-> searches[k]]
      BY <2>1
    <2>3. criteria = Set(<<>>, <<>>, <<>>, NoTimer, {}, AnyRisk, "metric")
      BY Zenon DEF MarketInit, Set
    <2>4. QED
      <3>1. Shaped(criteria) /\ Settles(criteria)
        BY <2>3, SetSettles
      <3>2. Answering(criteria)
        BY <2>1 DEF Answering
      <3>3. QED
        BY <2>1, <2>2, <3>1, <3>2 DEF MarketInv
  <1>2. MarketInv /\ [SiteNext]_siteVars => MarketInv'
    BY MarketInvStep
  <1>3. MarketInv => answersTheCriteria
    BY DEF MarketInv, Settles, Answering, answersTheCriteria, settledPage
  <1>4. QED
    BY <1>1, <1>2, <1>3, PTL DEF SiteSpec

=============================================================================
