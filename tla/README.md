# attesta in TLA+

attesta lets creators publish trading strategies and investors allocate USDC to
them. Every strategy has a vault contract on a local EVM chain; a backend loop
asks each strategy for target weights, prices the interval that has passed and
settles the result in the vault; the browser signs deposits and redemptions and
has the backend write them down. This directory holds TLA+ models of the parts
that keep state, the configurations that check them with TLC, and proofs checked
by TLAPS about eight of them: the vault, the tick, the scheduler in its hosts,
settlement, publication, sign-in, simulation and the pages that read it all.

## The system

| Part | State it keeps | Operations | What makes it hard |
|---|---|---|---|
| Vault contract (`contracts/src/StrategyVault.sol`) | token balance, managed assets, shares | deposit, withdraw, fundReserve, applyPnl | rounding over long sequences, solvency |
| Registry contract (`StrategyRegistry.sol`) | one record per strategy | register | re-anchoring, immutable creator |
| Pricing (`scheduler/pricing.ts`, toolkit `normaliseWeights`) | none | priceDecision, clampPnl, settlementFor | truncation, odd decisions, missing quotes |
| Tick (`scheduler/tick.ts`, `state.ts`) | execution log, trades, NAV snapshots, tick-state file | runTick | a chain of awaits over a chain others use; partial failure; a second process |
| Scheduler loop (`scheduler/scheduler.ts`) | timers, in-flight map, slot pool | start, stop, cycle, tickOnce | order of microtasks, skipped cycles, waiting callers |
| Process (`services.ts`, `index.ts`, `tick-once.ts`) | singletons | boot, shutdown | signals during boot and during ticks |
| Price oracle (`oracle/`) | price series, cached walk | tick, backfill, reads | cache against table, two processes |
| Workspaces and simulation (`strategy/workspace.ts`, `ports.ts`, `simulate.ts`) | directories, metadata, child processes | generate, move, reuse, simulate | copies cut off, a run beside a rewrite, attestation of what did not run |
| Submissions (`routes/submissions.ts`, `strategy/pipeline.ts`) | submission row, running streams | create, patch, check | edits during a stream, abandoned streams |
| Publication (`strategy/publish.ts`, `secrets.ts`) | strategy row, chain, directories | publish | crash between steps, lost receipts, concurrent calls |
| Creation page (`components/create/`) | form, run, published listing | save, run, publish | requests under way while the user goes back |
| Seed and track record (`backend/src/seed/`) | none of their own | seed, record | a chain of calls, each of which may throw |
| Transfer settlement (`frontend/src/lib/settlement.ts`, `routes/strategies.ts`) | local-storage queue, positions, position events | record, retry, flush | duplicated, lost and reordered requests; several tabs and users |
| Wallet (`frontend/src/lib/wallet.ts`, faucet) | allowance, balances, what the forms offer | approve, deposit, withdraw | two transfers under way, receipts not heard |
| Sign-in (`lib/session.ts`, `routes/auth.ts`, `AuthProvider.tsx`) | challenges, sessions, users; phases in the browser | challenge, verify, sign out | racing verifies, expiry, sign-out during a proof |
| Read routes and metrics (`routes/dto.ts`, `lib/`) | cache of each vault's event log | detail, series, worth | caching against time, reads that overtake each other |
| Strategy page, portfolio, marketplace (`frontend/`) | resources, aborts, filters | load, retry, search | an answer that comes after a newer one |
| Strategy toolkit (`chainlink/`) | none | checks, backtest, CRE workflow | parsing; a child process |

The scheduler calls the tick; the tick calls the oracle, the strategy, the vault
and the database, one await after another. Submissions feed publication, which
deploys the vault the tick then settles. Investors call the vault from the
browser at any time, and settlement tells the backend afterwards. Components
share three stores: the chain, the SQLite database and the workspace directory.
`PROJECT.json` lists all components with what is and is not modelled, and the
hazards, each at its line.

## The modules

An arrow leads from a module to the one that extends it.

| Modules | Model | Correspondence |
|---|---|---|
| `StrategyVault` | the vault contract | one action per entry point; a revert is a disabled action; Solidity's checked arithmetic reverts past `MaxUint`, in the products of the two conversions as in the supply |
| `Pricing` → `PricingBook` → `TrackRecord` | `pricing.ts`, `normaliseWeights`; steps 3 to 5 of a tick repeated over one book, beside the toolkit's backtest; the script that gives a strategy its track record | operators with the code's names; a map keyed by symbol is a function on the symbols present; the script's steps are the calls it awaits, over an instance of `StrategyVault` |
| `Tick` | `tick.ts`, `state.ts`, `vaultTotals`, `sendAndWait` | `tick[p].pc` names the await a process stands at; the four stores are variables; instantiates `StrategyVault` and `Pricing` |
| `Scheduler` → `Server` | `scheduler.ts`; `services.ts`, `index.ts` and the command-line tick | a run's `stage` names the promise continuation it waits for; `Quiet` is the rule that microtasks run before the next timer or call; a host drives the loop, a library caller uses it as it is |
| `Oracle` → `Simulation` | the series and its readers; workspaces, the child process, what is recorded as attested | `priceTicks` is the table, `walk` each process's cached generator; a job's `at` names the await it stands at; a directory is written file by file, by any number of jobs of any processes, without a lock |
| `Submission` → `CreateFlow` → `Seed` | `submissions.ts`, `pipeline.ts`, `publish.ts`, the registry's record; the creation page; the seed script | one action per handler turn or publication step; a hash is the source it was built from; page and seed are clients of the same handlers |
| `Wallet`, `Positions` → `Settlement` | the browser's wallet; positions and their events; jobs, flushes and requests of one browser | the recording transaction is one step |
| `Sessions` → `SignIn` | challenges, users, sessions; `AuthProvider.tsx` over them | a signature is the record of who signed what |
| `StrategyVault`, `Positions` → `Catalog` → `StrategyPage` → `Portfolio` → `Marketplace` | the cached reading of a vault's events and the figures drawn from it; the page, its chart, the portfolio; the listing | pages instantiate `Resource` (`useResource.ts`); the marketplace also extends `Fuzzy`, the searches of both sides |

Each group has a `...Properties` module with what it promises (`PricingBook`,
`TrackRecord`, `Server` and `Settlement` state theirs themselves); `SubmissionProperties` is
also the creation page's and the seed's. A `...Proofs` module holds the theorems
of its group. `MC...` modules only give constants their values; a constant
`Conditions` is a set of circumstances (who acts, what may fail, how often), one
of which is chosen in the initial state, so that one run explores them all
without their product.

An operator introduced by *Variant:* is a plausible wrong version of the
definition after it; nothing in a specification uses it. It exists so that each
property can be shown to fail when the code is changed that way.

## What the runs show

| Run | Question | Bounds |
|---|---|---|
| `MCStrategyVault` | Does any sequence of calls break solvency, redeemability, or round in a caller's favour? | 3 investors with 3, 2 and 1 units, amounts 1..4, deltas -3..2, words up to 18 at par 3: explored completely |
| `MCPricingBook` | Do truncation and clamps create leverage or free money; is a live record comparable with the backtest; does the track-record script end with an honest report? | 2 declared assets, BPS 4, fee 2, decisions below zero, above the whole and undeclared; prices halve, double, treble or are missing; runs that deposit 2 and take 1 to 3 ticks, 2 failures |
| `MCTick` | Do chain, log, trades and file agree, and is a fresh clamp accepted? | prices 2 1 3 1, weights none or all, reserve 2; 3 ticks failing up to the settlement; 2 processes, 2 ticks, every fault; 1 process with an unreliable log |
| `MCServer` | Is there one tick per strategy, is concurrency bounded, is every call answered by a fresh tick, does a signal end the process cleanly? | 3 strategies, 1 slot, 2 cycles, 2 callers, all three hosts |
| `MCSettlement` | Is a transfer recorded once, truthfully, in any order, and in the end? | conditions: unreliable network with a retry and a flush; two deposits and two redemptions in every order; a wallet to be funded; two transfers under way at once |
| `MCSignIn` | Does one signature buy one session for its signer, and is nobody left waiting? | 2 wallets, 3 requests of which one is a replay, 2 nonces, 2 proofs, 1 fault, 2 visits (a sign-out, a reload, a wallet linked or handed over, a request delivered again) |
| `MCSimulation` | Does an execution claim only what it ran, on which prices, and does every tick end? | a draft checked, published, published again and ticked by the server under every fault; one ticked from a command line while it is published; a live one ticked by the server and a command line at once; backfill and history of 2, 4 rows, 1 fault, 3 runs |
| `MCSubmission` | Is what goes live checked, shown, complete and paid for once; can publication be resumed; does the seed report the truth? | 2 sources, 2 checks, prefund 2, 2 vaults, 1 edit, 1 failure met by the page and 2 by others, 2 templates |
| `MCCatalog` | Do figures match the vault, are they recent, do they add up and answer what is on screen, and does a page never go back? | eleven conditions: trading, reading, an unreachable or degraded chain, worth over time, portfolio loads that overlap, charts, a market searched and typed into |
| `MCTick_FileIsTheLastSettlement`, `MCSubmission_PublishedHashIsOfTheSource`, `MCSettlement_DroppedOnlyForGood` | the disagreements below | |

The bounds are chosen so that each interesting case occurs: a reserve too small
for a gain, a share price off par, a wiped-out vault, a rotation on the tick the
market halves, a queue in front of the only slot, a retry whose first attempt
got through, a directory half written when another process reads it. A third
tick is what it takes to price from a file that a failed tick left behind; two
cycles are what it takes to skip one; more investors or strategies add symmetric
copies. `Par`, `Endowment` and the price levels are small because every property
is about quotients and their rounding, which small numbers exercise most.
Deadlock is checked where the system can always go on or says that it has ended;
where it is off the system comes to rest once the bounded work is done.

### Three disagreements between code and text

These runs end in a counterexample, and `PROJECT.json` quotes the lines.

* `MCTick_FileIsTheLastSettlement`: `state.ts` calls the file what a strategy
  held when it last settled. A failure after `applyPnl` (here `recordTrade`)
  leaves the older file, and the next tick settles the same interval again. In
  the trace the first tick writes the file, the price halves, the second tick
  settles the loss of 2 of 4 and `recordTrade` throws, and the third, at an
  unchanged price, settles 1 more for the fall already paid.
* `MCSubmission_PublishedHashIsOfTheSource`: an edit during a running check is
  meant to reset the checks; the stream's next write restores those of the old
  source, and the new source is published under the old hash.
* `MCSettlement_DroppedOnlyForGood`: a 403 is taken as final, but the queue is
  shared by everyone who signs in on a browser, so a flush under another user
  drops an entry its owner could record.

The properties around them are stated where they hold, not weakened silently:
`PublishableIsChecked` and the hash part of `LiveIsWhole` exclude an edit that
races the latest check (`raced`), the secrets in `MetaNeverLies` and an attested
row's book in `ExecutionsAreTruthful` leave out jobs that met another in their
directory (`alone`, see below), `NeverForgotten` is proved for a browser only
one investor signs in to, and the first condition of `MCTick` lets calls fail
only up to the settlement.

### Other things seen while modelling

None of these is a run of its own; each was met while reading the code for a
definition.

Ticks, pricing and the vault

* `schema.ts` calls `costBasis` "Deposits minus withdrawals"; the code releases
  basis in proportion to the shares redeemed. The portfolio's tile repeats the
  hint, and its "All-time P&L" is value minus remaining basis, so a realised
  gain disappears from it.
* `tick.ts:11` says every exit writes an execution row; a missing strategy
  (line 135) and a failing insert of the failed row (365) write none. The model
  has the second as the fault `"log"`.
* A failed row keeps `pnlApplied` although `applyPnl` reverted.
* `writeTickState` says that after a failed write "the next tick recovers its
  weights from the execution log"; it does so only when no older file exists.
* `pricing.ts:24-27` says truncating the fee is "the one direction that cannot
  make a strategy look better"; a smaller fee does make it look better.
* The module cache of `tick.ts:90-99` keeps a strategy module's own state
  between ticks.
* The track record's `settledTicks` counts ticks whose `applyPnl` reverted, and
  its "without settling a non-zero delta" warning is wrong when the NAV moved and
  came back, a delta was floored away or the tick failed after settling. Its
  header claims use after "an anvil restart and a re-deploy", when the vault it
  deposits into no longer exists.

Processes and the price series

* `stopServices` says shutdown never tears a tick. A signal that comes while
  `connectChain` is awaited stops a scheduler that `startServices` then starts;
  `CleanExitOnceUp` is about a process that got up.
* Two processes that race `storedSteps()` and `latestTimestamp()` store one step
  of the walk twice (`oracle/index.ts:8-11`); `keepsToTheWalk` therefore speaks of
  an advance nobody got in the way of.
* The enclave may read a newer snapshot than the tick's own
  (`routes/oracle.ts:43`, against `scheduler/ports.ts:3-6`); hence "no older".
* A strategy's directory has no lock. The server's loop and a command-line tick
  (`tick-once.ts:61-63`, `93-102`, which ticks what is not live as well) may write
  and run one directory together, and a publication called again
  (`publish.ts:265-297`) may describe it beside a tick. The model has all of it.
  Two writers that make it again with secret ids probed at different prices can
  leave metadata naming one's ids over the other's `secrets.yaml`
  (`workspace.ts:280-302`); two that reuse it can leave the later config under
  the earlier's child (`workspace.ts:265`), and the row attested for one tick was
  then decided on the other's book. So `MetaNeverLies` and `ExecutionsAreTruthful`
  claim these two things of jobs that met nobody (the history `crossed`, and
  `alone` in what they wrote) and the rest of everybody. Without `alone`, TLC
  breaks the first in 24 states and the second in 22, each with one strategy and
  two ticks. No text of the repository promises otherwise.
* A removal cut off half way can leave metadata and main files without
  `secrets.yaml`, which is judged reusable. `pipeline.ts` passes the simulation if
  a decision was printed, even when the run then failed or timed out.

Submissions, publication, creation, seed

* A publication whose vault deployment was mined without a receipt deploys a
  second vault; the first is empty and forgotten. A redeploy between two
  publication steps, or two processes in `syncAddressBook`, could mix addresses of
  two deployments.
* On the creation page: Save draft and Continue in flight together create two
  rows (kept out by a guard named `creating`); metadata edited after the run and
  left by the step rail previews what is not stored; a failed publication followed
  by "Run checks again" cannot be resumed from the page; secrets typed and left
  without Continue, or within the 250 ms of the encryption's debounce, are not
  what is stored; a run after a cut meets a 409.
* The seed's deposit whose recording fails is never recorded, having no queue,
  and a run whose copy is cut off leaves the template database torn or absent.

Money and sign-in in the browser

* `settlement.ts:188` says the queue is flushed on the portfolio page and before
  each money action; the only caller is `InvestPanel` when it mounts.
* `StrategyDetailView` says the backend checks the amount; the browser does
  (`assertUsdc`).
* An exchange the user signed out of takes down the `proving` guard when it ends
  (`AuthProvider.tsx`), so that with four exchanges two can run at once. The
  run's two proofs are too few to show it: it was found because the invariant
  would not go through. `oneProofAtATime` is stated for the time before such an
  exchange has ended.
* A username equal to another address's short name makes `verify` throw after the
  nonce is spent; a late `getMe` can show the previous account; a proof the user
  disowned can still land after the sign-out. The sign-out button is there while a
  stored session is still being restored: the `getMe` under way then shows the
  page as signed in, without a token.

Reading

* `withChainMetrics` replaces the metrics but not the position, and the answer of
  publish is not passed through it, although `dto.ts:314-318` says the two are
  identical. When the chain's series is empty and snapshots exist, card and line
  are drawn from the snapshots and the metrics from the chain.
* A failed read of the log deletes a newer cache entry; block times are stale after
  the chain is redeployed; an event's time is that of its recording.
* A page load has no abort guard in the portfolio; a failed one leaves "No
  allocations yet" under the error. A position's worth prices shares by recording
  time, so a redemption recorded late can show more than the vault held.
* `fuzzyMatch` says "Best-scoring", but its recursion ignores the consecutive
  bonus when it chooses the rest ("ab" in "abB" scores 29, not 32). The listing's
  "of total" is the total loaded once, and the same `?q=` handed over again after
  editing is dropped.

## Fairness

Only liveness properties rest on fairness, stated in the `Fair...` formula of
the module; a signal, a crash or a person's decision is never assumed, but for
the two named below.

* `FairServer`: the event loop gets to every continuation and every timer that is
  due, and each tick ends, because the chain client, the child process and
  receipts all have timeouts.
* `Simulation`'s `FairSpec`: oracle steps, tick steps, the timeout of a tick's
  child, and that what holds a killed child's output lets go of it: `simulate.ts`
  kills on the timer and goes on when the streams close, so without it a
  descendant that keeps them open holds the tick for ever. The child itself need
  not do anything.
* `SeedSpec` (and `Fairness` of `CreateFlow` in it): answers, check runs and
  publication steps go on, the page hears its stream, the seed takes its next
  step. A publication step may throw only as often as `MaxFailures` lets it, and
  a client of the API whose publication was cut off calls it again, as
  `publish.ts` invites it to.
* `RecordSpec`: the script's steps.
* `Settlement`'s `FairSpec`: retries, flushes and the backend make progress, and
  `Calm` says that eventually somebody stays signed in and connections stop
  failing, and that the page which flushes is opened again. Without it a queue
  entry may rightly stay for ever.
* `SignIn`'s `FairSpec`: requests are answered or time out, effects run.
* `FairSite`: each request's, read's and load's own steps.

## What is proved

Every theorem holds for all values of the constants under the assumptions named
in the modules that declare them (amounts are naturals, `Par` is positive, `Null`
is none of the values it stands beside, replays are not the tab's own requests, and
the like). What the code leaves unbounded is bounded by constants only in the
guards, and no theorem depends on a particular bound. An invariant was checked by TLC on its run's
instance before it was proved. In each module the argument is an invariant that
is inductive where the property alone is not, one lemma per operation, and a
last step of temporal logic.

### `StrategyVaultProofs`

`TypeCorrect`, `SolvencyHolds`, `EveryShareIsRedeemable`,
`PriceNeverFallsByTrading`, `TradingIsZeroSum`, `DepositsCostLessThanAShare`,
`SupplyIsAlwaysHeld`, `NothingIsOrphaned`: everything the vault run checks, and
more. Nothing assumes that there are finitely many investors.

`Inv` is the types, `Solvent`, `SupplyIsHeld` and `NoOrphanedAssets`. Solvency is
inductive with the types alone. That no asset is orphaned is not: the last
redemption empties managed assets only if what the holder redeems is the whole
supply, so the invariant has to say that `totalShares` is the sum of the
holdings. A sum over an arbitrary set needs recursion, which the provers do not
unfold, so it is stated as the cardinality of a set of units, one per share
(`Units`); `UnitsGrow` and `UnitsShrink` say what a mint and a burn do to it.
`FloorDivision` and `PartOfWhole` carry the share arithmetic. That the price does
not fall gives everyone who is not trading a claim that does not fall; for the
caller the two roundings, of the shares minted or assets paid and of the claim
left over, are bounded together by comparing products (`DepositRoundsDown`,
`RedemptionRoundsDown`, `DepositLoss`). The last redemption and the first deposit,
where one side has no supply to divide by, are cases of their own.

### `TickProofs`

For any processes, investors, conditions and series of prices:

* `TheLogTellsTheTruth`: a row may name a transaction because the tick that writes
  it sent it, and names it alone because what a live tick carries is on no row
  before that tick writes its own (`LogInv`). The ticks begun are counted against
  the rows and the ticks that still owe theirs (`Owed`).
* `AFreshReadIsAccepted`, an action property: it needs that a priced decision is an
  integer whatever the weights and quotes (`PricedFacts`, down to the truncating
  division and to sums over a book of one asset or none, which need no induction),
  what `clampPnl` lets through (`ClampFits`), and that nothing is settled into a
  vault without shares (`Decides`).
* `EveryIntervalIsPaidOnce` and `TheTradesExplainTheBook`, for one process that
  fails only up to its settlement: `InStep` says that the file is the newest ok row
  except between that row and its write, that what has been paid reaches no
  further than the file (after the settlement, than the tick's own price) and that
  the last trade ends on what the log says is held, one trade ahead of the log
  from the trade to the row.

### `ServerProofs`

* `TicksAccountedFor`: the in-flight map is exactly the unfinished runs, one per
  strategy, and the pool is never past its limit nor idle while someone waits.
  `SchedulerInv` says in addition that the queue is the queued runs in order, and
  non-empty only when the pool is full.
* `AnsweredByAFreshTick`: whoever awaits `tickOnce` is answered by a run begun for
  it (`Answerable` follows a call through its two joins).
* `NoTickIsLostOrRepeated`: an action property over the record of runs.
* `HostsDriveTheLoop`: every step of a host is a step of the loop or leaves it
  alone, i.e. `Server` implements `Scheduler`; so `TicksAccountedForInEveryHost`.
* `CleanExit`: a host exits only with the loop stopped and nothing in flight
  (`AwaitsItsCalls`, `DrainsBeforeItCloses`).

### `SettlementProofs`

* `RecordedOnceAndAsTold`: `RecordInv` says of every request what it carries
  (`SendsItsOwn`) and that an answer under way is true (`AnswersAreTrue`).
* `OnlyAnswersEmptyTheQueue`: an entry leaves the queue only when on file or
  refused as somebody else's; from it `NothingQueuedIsForgotten`, for a browser
  only one investor signs in to. Without that assumption it is false: see
  `MCSettlement_DroppedOnlyForGood`.
* `CheckedTransfersGoThrough`: `SpendInv`, one transfer of a wallet at a time and
  each covered by what was read.
* `PositionsCoverTheHoldings`: redemptions recorded before their deposits are
  clamped at zero, so the position is not the sum of what is on file. `Balanced`
  says that the position and the deposits still missing from the file are worth
  no fewer shares than the holding and the redemptions still missing, counting
  shares as a set of units; `OnlySettled` that nothing else can get on file.

### `SubmissionProofs`

Over the page, another client and the seed process, whichever is there:
`OnlyTheCheckedIsPublishable`, `TheReserveIsFundedOnce`, `TheLiveAreWhole`,
`ThePublishedIsFrozen`, `TheShownIsPublished`, `TheSeedReportsTheTruth`.

Every step of the composition is shown to be one of a short list of handler turns
(`Moves`), and the invariant is proved of those: what the row, the stream and
the vaults are (`SubmissionTyped`, `VaultsTyped`, `StreamInv`, `HashInv`), what
holds before a submission has a strategy (`Before`), after it (`After`) and at
each step of a publication (`StageInv`). That a reserve is not funded twice needs
that the top-up in flight was computed from the balance that still stands; that
the live are whole needs that each step's result outlives every later failure.
The page's promise adds what the page knows (`ShowInv`: it reads its own stream,
runs what it submitted, publishes what passed); the seed's adds what a report may
say of a template so far (`ReportInv`).

### `SignInProofs`

* `ANonceBuysOneSession`: `OneHand`, a nonce is in the hand of at most one request
  that has proved it or in one session; what a request holds only ever stays true
  (`KeepsChallenges`, `KeepsSignatures`, `KeepsSessions`).
* `TheWalletFitsTheSession`: `GuardInv` says when the `proving` ref is up,
  `SignerInv` which wallet signs in each phase of an exchange.

### `SimulationProofs`

* `TheSeriesKeepsToTheWalk` (the action property of the run's `SeriesIsOneWalk`):
  rows are an interval apart from whichever first row a clock gave (`OneWalk`),
  and what an advance has read lies between the first row and the one after the
  newest (`Advances`), so that the unique index on the time refuses everything but
  that one. `ClockAssumption` says that what two processes would backfill
  collides.
* `TheMetadataNeverLies` and `TheExecutionsAreTruthful`, for any strategies,
  processes and conditions, nothing being assumed of who ticks or publishes what
  and when. `Together` is what `crossed` is for: two jobs at work in one directory
  have both met. `Fits` says how far the directory has come at each await of a
  job: its source whoever is there, its secrets and config for a job that met
  nobody; `ChildFits` what a child process was built from
  and saw; `Vouches` what metadata may claim; `Published` and `OnDisk` what the row
  and the disk may hold before and after a publication, from which every writer of
  a directory writes one source; `Recorded` what is on file. A step of one job is
  then checked against the others in its directory (`Leaves`) and against itself.

### `CatalogProofs`

For any vault, clock, cache time, requests and rows, where whoever trades is an
investor, the range a chart opens with is one it offers, and no query stands for
an idle timer:

* `TheSiteKeepsTheVault`: every step of the pages and of the backend they read is
  a step of the contract or leaves it alone, i.e. the whole composition implements
  `StrategyVault`, and the theorems above hold behind the pages.
* `TheAnswersAreRecent`: with `Recent`, a read somebody waits for knows every event
  older than the cache's time when that request came, whoever started the read and
  however late it returns. This is inductive only together with what is known
  of the cache: the read it serves knows every event older than its expiry less the
  cache's time, which is when the read was begun, and an entry that has expired is
  never served.
* `ThePageNeverGoesBack`, an action property: `DetailInv` and `ChartInv` say that
  the request awaited was made no earlier than the one whose answer is shown,
  which is what the abort of a superseded load is for. An answer may know fewer
  events than the one it replaces, of recent events only, by `Recent`. The chart's
  request is for the range it is at (`ChartInv`), which `TheAnswersAreRecent` needs.
* `TheLogTellsTheTotals`: `LogInv` says which event tells what. A settlement does not
  tell the supply, so the shares are those of the last transfer, wherever that is,
  and the managed assets those of the last event.
* `TheQuotesFollowTheVault` and `TheFormNeverOverdraws`: arithmetic over every vault
  the contract can reach. The quote multiplies by a price that was rounded down
  already (`PriceIsFloored`, `QuotesFollow`); the withdrawal form divides an amount
  by the worth of the whole position and multiplies back (`RoundTrip`), and what it
  promises is compared with what the vault pays for the same shares
  (`PartsDoNotOverdraw`). The theorem is about a position of any size;
  the run adds that the position on file is one.
* `TheResultsAnswerTheCriteria`: `MarketInv` says that a request still awaited asks for
  what is on screen (`Answering`) and that a query which has not settled has a
  timer running for it (`Settles`).

One lemma says what may become of a request (`RequestsMove`), one of a read
(`ReadsMove`), one of a page (`PageMoves`), and `WhatLands` what a page may show next.

## What is only model-checked

* Liveness under fairness, and anything about `ENABLED`: out of the prover's
  reach.
* What a fold, `SelectSeq` or a sorted choice computes over arbitrary data, which
  needs induction: `historiesLeadUp` in `SeriesIsOneWalk`, `NoLeverage` and the
  comparison with the backtest, which sum over a book of several assets.
* Of `Catalog`: the number of investors, the drawdown beside the return and the
  sum of all positions in `LogTellsTheVault`, and that a line of the chart is
  whole; `PortfolioAddsUp` but for the form's arithmetic at one price; the order of
  the results and the two searches in `ResultsAnswerTheCriteria`. Each is what a
  fold, a selection or a recursion computes.
* The track record, whose report is a figure of arithmetic over its whole run.

## What is left out of the models

* The strategy's own code: what it decides is chosen freely, within what it may
  read. `Tick` has one asset and whole-book weights; several assets and fees are in
  `PricingBook`. Execution rows carry the interval they priced, which the table
  does not store. The log is in order of insertion; the code orders by a time
  stamp, which agrees for one process.
* Gas prices, the operator's identity and events that nothing reads; the three
  kinds of signer, which differ only in where the key is kept.
* Local-storage writes that fail, and a tab closed before the receipt arrives
  (nothing is queued then, and no queue can bring the transfer back).
* A second investor's deposit during a track-record run; the position's own line
  on the strategy page, which is the same resource as the strategy's; the listing
  that decorates the portfolio's tables; trimming, decorated usernames and the
  default order of the marketplace.
* Floating-point metrics, formatting, rendering, static analysis of source text,
  cryptography, the randomness of the price walk.
* Four hazards have no property, with the reason in `PROJECT.json`: the four
  separate reads of `vaultTotals`, secrets typed and not continued from, the
  message after a 409 or 401 in the invest panel, and the name of a fresh account
  that is taken (`session.ts:220`), where `verify` throws with the nonce spent.

## Plan

The plan was the contract first, then the tick over it, then the paths that lead
money and code to them, then what is read of them; each was modelled, checked and
proved in that order, and all of it is done. What would extend the project:

1. Several assets in `Tick`, once sums over a book can be reasoned about by
   induction; `NoLeverage` could then be proved as well.
2. The lists of trades and executions, which only read.
3. A store for the secrets the creation page has typed but not continued from, and a
   statement of what the invest panel should say after a 409: both wait for the
   code to say what is meant.
