----------------------------- MODULE TrackRecord -----------------------------
(***************************************************************************)
(* backend/src/seed/track-record.ts and demo.ts: a run of a process of its *)
(* own that gives a published strategy a history.  It pays an investor,    *)
(* deposits for it, has the deposit recorded, and ticks the strategy until *)
(* its price has moved or a ceiling is reached; then it reports.           *)
(*                                                                         *)
(* The run may throw at every await, with or without the call's effect,    *)
(* and may be started again over what the last one left.  Between runs the *)
(* server's own loop may tick the same book.                               *)
(***************************************************************************)
EXTENDS PricingBook

CONSTANTS
  Par,         \* INITIAL_SHARE_PRICE
  MaxUint,     \* the largest word, where checked arithmetic reverts
  Deposit,     \* SEED_DEPOSIT_USDC
  Ticks,       \* SEED_TICKS
  MaxTicks,    \* SEED_MAX_TICKS
  MaxFailures, \* bound: awaits that throw
  Conditions   \* records: the decisions and quotes of a behaviour, the assets,
               \* reserve and shares its vault starts with, its bound on runs

ASSUME DepositAssumption == Deposit \in Nat \ {0}
ASSUME TicksAssumption == Ticks \in Nat \ {0} /\ MaxTicks \in Nat /\ Ticks <= MaxTicks

VARIABLES
  conditions,
  shares,    \* of the vault, by holder
  faucet,    \* bound: USDC it still mints
  usdc,      \* the investor's
  allowance, \* of the vault over it
  position,  \* the shares on record for the investor
  unrecorded, \* shares of deposits whose recording was never answered (history)
  run,       \* the run in progress, see Idle
  runs, failures,
  moved,     \* a delta other than zero was settled since the baseline (history)
  report     \* what the latest finished run said, or Null

vaultVars == <<managed, buffer, shares>>
investor == <<faucet, usdc, allowance, position, unrecorded>>
recordVars == <<vars, conditions, shares, investor, run, runs, failures, moved, report>>

Investor == "investor"
Others == "others"

Idle == [at |-> "off", minted |-> 0, ticks |-> 0, from |-> 0, to |-> 0, settled |-> 0]
Nothing == [said |-> FALSE]

\* All the USDC there ever is.
Supply == Max({c.managed + c.buffer + c.runs * Deposit : c \in Conditions})
ASSUME MaxUintAssumption == MaxUint \in Nat /\ Supply * Par <= MaxUint

totalShares == shares[Investor] + shares[Others]

\* The vault in the contract's own terms.  What the faucet will mint counts as
\* the investor's from the start.
vault == INSTANCE StrategyVault WITH
  Investors <- {Investor, Others},
  Amounts <- {Deposit},
  Deltas <- -Supply .. Supply,
  Endowment <- [i \in {Investor, Others} |-> 0],
  wallet <- [i \in {Investor, Others} |-> IF i = Investor THEN usdc + faucet ELSE 0],
  balance <- managed + buffer,
  totalManagedAssets <- managed,
  totalShares <- totalShares,
  sharesOf <- shares

navPerShare == vault!navPerShare

RecordInit ==
  /\ conditions \in Conditions
  /\ Init
  /\ managed = conditions.managed /\ buffer = conditions.buffer
  /\ shares = [i \in {Investor, Others} |-> IF i = Others THEN conditions.shares ELSE 0]
  /\ faucet = conditions.runs * Deposit
  /\ usdc = 0 /\ allowance = 0
  /\ position = 0 /\ unrecorded = 0
  /\ run = Idle
  /\ runs = 0 /\ failures = 0
  /\ moved = FALSE
  /\ report = Nothing

-----------------------------------------------------------------------------
(***************************************************************************)
(* The run's steps.  goes ends an await well, throws ends it badly: the    *)
(* run is over, and the process reports nothing.                           *)
(***************************************************************************)
goes(from, next) ==
  /\ run.at = from
  /\ run' = next
  /\ UNCHANGED failures

to(phase) == [run EXCEPT !.at = phase]

throws(from) ==
  /\ run.at = from
  /\ failures < MaxFailures
  /\ failures' = failures + 1
  /\ run' = Idle

Await(from, phase) == goes(from, to(phase)) \/ throws(from)

Start ==
  /\ runs < conditions.runs
  /\ goes("off", to("faucet"))
  /\ runs' = runs + 1
  /\ report' = Nothing
  /\ UNCHANGED <<vars, conditions, shares, investor, moved>>

\* A call that throws before it has any effect.
Throw ==
  /\ run.at \notin {"off", "tick"}
  /\ throws(run.at)
  /\ UNCHANGED <<vars, conditions, shares, investor, runs, moved, report>>

Fund ==
  /\ Await("faucet", "allowance")
  /\ faucet' = faucet - Deposit
  /\ usdc' = usdc + Deposit
  /\ UNCHANGED <<vars, conditions, shares, allowance, position, unrecorded, runs, moved,
                 report>>

\* Variant: an allowance is taken to be there from the second run on.
ensureAllowanceOnce ==
  /\ goes("allowance", to(IF runs > 1 THEN "deposit" ELSE "approve"))
  /\ UNCHANGED <<vars, conditions, shares, investor, runs, moved, report>>

ensureAllowance ==
  /\ goes("allowance", to(IF allowance >= Deposit THEN "deposit" ELSE "approve"))
  /\ UNCHANGED <<vars, conditions, shares, investor, runs, moved, report>>

Approve ==
  /\ Await("approve", "deposit")
  /\ allowance' = Deposit
  /\ UNCHANGED <<vars, conditions, shares, faucet, usdc, position, unrecorded, runs, moved,
                 report>>

\* What the vault computes of a deposit stays within its words.
fits(minted) ==
  /\ managed # 0 => Deposit * totalShares <= MaxUint
  /\ totalShares + minted <= MaxUint

depositFor(minted) ==
  /\ usdc >= Deposit /\ allowance >= Deposit
  /\ minted # 0 /\ fits(minted)
  /\ managed' = managed + Deposit
  /\ usdc' = usdc - Deposit
  /\ allowance' = allowance - Deposit
  /\ shares' = [shares EXCEPT ![Investor] = @ + minted]
  /\ unrecorded' = unrecorded + minted

DepositMined ==
  LET minted == vault!convertToShares(Deposit) IN
  /\ depositFor(minted)
  /\ \/ goes("deposit", [run EXCEPT !.at = "invest", !.minted = minted])
     \/ throws("deposit")
  /\ UNCHANGED <<buffer, held, prices, conditions, faucet, position, runs, moved, report>>

\* The vault refuses a deposit worth no share, and one it cannot price.
DepositReverts ==
  LET minted == vault!convertToShares(Deposit) IN
  /\ run.at = "deposit"
  /\ minted = 0 \/ ~fits(minted)
  /\ run' = Idle
  /\ UNCHANGED <<vars, conditions, shares, investor, runs, failures, moved, report>>

\* The route reads the shares from the receipt of the hash it is sent, which
\* is the deposit of this run: nothing is queued for a later one.
Invest ==
  /\ Await("invest", "baseline")
  /\ position' = position + run.minted
  /\ unrecorded' = unrecorded - run.minted
  /\ UNCHANGED <<vars, conditions, shares, faucet, usdc, allowance, runs, moved, report>>

\* Variant: the vault is taken to be at par before the first tick.
BaselineAtPar ==
  /\ goes("baseline", [run EXCEPT !.at = "tick", !.from = Par, !.to = Par])
  /\ moved' = FALSE
  /\ UNCHANGED <<vars, conditions, shares, investor, runs, report>>

Baseline ==
  /\ goes("baseline", [run EXCEPT !.at = "tick", !.from = navPerShare, !.to = navPerShare])
  /\ moved' = FALSE
  /\ UNCHANGED <<vars, conditions, shares, investor, runs, report>>

-----------------------------------------------------------------------------
(***************************************************************************)
(* The ticks.  tickOnce never throws: a tick that fails is counted like    *)
(* any other, and keeps the delta it meant to settle, and the price it     *)
(* read after, if it came as far.                                          *)
(***************************************************************************)
enough ==
  \/ run.ticks >= MaxTicks
  \/ run.ticks >= Ticks /\ run.to # run.from

delta(decision, quote) ==
  clampPnl(priceDecision(managed, held, normaliseWeights(decision, Declared), prices,
                         quote, FeeBps).netPnl,
           [totalManagedAssets |-> managed, reserve |-> buffer])

counted(applied, nav) ==
  [run EXCEPT !.ticks = @ + 1, !.to = nav, !.settled = IF applied # 0 THEN @ + 1 ELSE @]

ticking(decision, quote) ==
  /\ run.at = "tick" /\ ~enough
  /\ decision \in conditions.decisions /\ quote \in conditions.quotes

TickOk(decision, quote) ==
  /\ ticking(decision, quote)
  /\ Tick(decision, quote)
  /\ UNCHANGED <<conditions, shares, investor, runs, failures, report>>
  /\ run' = counted(delta(decision, quote), navPerShare')
  /\ moved' = (moved \/ delta(decision, quote) # 0)

TickFails(decision, quote) ==
  /\ ticking(decision, quote)
  /\ failures < MaxFailures
  /\ failures' = failures + 1
  /\ UNCHANGED <<held, prices, conditions, shares, investor, runs, report>>
  /\ \/ /\ run' = counted(0, run.to)
        /\ UNCHANGED <<managed, buffer, moved>>
     \/ /\ run' = counted(delta(decision, quote), run.to)
        /\ UNCHANGED <<managed, buffer, moved>>
     \/ /\ managed' = managed + delta(decision, quote)
        /\ buffer' = buffer - delta(decision, quote)
        /\ \E nav \in {run.to, navPerShare'} : run' = counted(delta(decision, quote), nav)
        /\ moved' = (moved \/ delta(decision, quote) # 0)

Report ==
  /\ run.at = "tick" /\ enough
  /\ report' = [said |-> TRUE, ticks |-> run.ticks, settled |-> run.settled,
                navMoved |-> run.to # run.from]
  /\ run' = Idle
  /\ UNCHANGED <<vars, conditions, shares, investor, runs, failures, moved>>

\* The server's loop, which is stopped while a run is in progress.
ServerTick(decision, quote) ==
  /\ run.at = "off"
  /\ decision \in conditions.decisions /\ quote \in conditions.quotes
  /\ Tick(decision, quote)
  /\ UNCHANGED <<conditions, shares, investor, run, runs, failures, moved, report>>

RunStep ==
  \/ Fund \/ ensureAllowance \/ Approve \/ DepositMined \/ DepositReverts \/ Invest
  \/ Baseline \/ Report
  \/ \E decision \in Decisions, quote \in Quotes : TickOk(decision, quote)

RecordNext ==
  \/ Start \/ Throw \/ RunStep
  \/ \E decision \in Decisions, quote \in Quotes :
       TickFails(decision, quote) \/ ServerTick(decision, quote)

\* Every call of a run is answered or throws, and then the run goes on.
RecordSpec == RecordInit /\ [][RecordNext]_recordVars /\ WF_recordVars(RunStep)

-----------------------------------------------------------------------------
(***************************************************************************)
(* What is settled, tick after tick, and what a run deposits, the vault's  *)
(* contract accepts: it reverts none of the clamped deltas, whatever the   *)
(* runs before left.                                                       *)
(***************************************************************************)
SettlesWhatTheVaultTakes == [][vault!Next]_(vault!vars)

(***************************************************************************)
(* track-record.ts: "Read from the vault rather than assumed to be par:    *)
(* the strategy may already have settled ticks before this run."  A report *)
(* that the price moved rests on a delta this run settled and counted, one *)
(* that it did not comes only at the ceiling; a deposit never lacks funds  *)
(* or allowance, and what is held is on record but for the recordings that *)
(* were cut off.  Every run ends.                                          *)
(***************************************************************************)
reportIsTrue ==
  report.said =>
    /\ report.ticks \in Ticks .. MaxTicks
    /\ IF report.navMoved THEN report.settled > 0 ELSE report.ticks = MaxTicks

runIsCovered ==
  /\ run.at = "deposit" => usdc >= Deposit /\ allowance >= Deposit
  /\ run.at = "tick" /\ run.to # run.from => moved
  /\ position + unrecorded = shares[Investor]

RecordEndsTruthfully ==
  /\ [](reportIsTrue /\ runIsCovered)
  /\ run.at # "off" ~> run.at = "off"

=============================================================================
