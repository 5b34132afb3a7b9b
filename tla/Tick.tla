-------------------------------- MODULE Tick --------------------------------
(***************************************************************************)
(* backend/src/scheduler/tick.ts: one tick of one strategy, from the price *)
(* oracle to the execution log, against a vault investors keep using.      *)
(*                                                                         *)
(* A tick is a chain of awaits.  Between any two of them an investor's     *)
(* transaction may land, another process may tick the same strategy, the   *)
(* next call may throw, or the process may die.  Four stores outlive it:   *)
(* the chain, the execution log, the trades table and the tick-state file. *)
(* The strategy trades one asset, so a book is one weight.                 *)
(***************************************************************************)
EXTENDS Integers, Sequences, FiniteSets, FiniteSetsExt

CONSTANTS
  Processes,  \* processes that tick this strategy: the server, `npm run tick`
  Investors, Amounts, Endowment, MaxUint, Par,  \* see StrategyVault
  Prefund,    \* the reserve the publish step left in the vault
  BPS, FeeBps,
  Weights,    \* the weights the strategy may ask for
  Prices,     \* Prices[n]: the oracle's n-th quote of the asset
  Conditions, \* records: the processes that tick, the calls that may fail (see
              \* Fails) and, as a bound, the ticks begun
  Null        \* null in a row or a file, a price never quoted

ASSUME PricesAssumption == Prices \in Seq(Nat \ {0}) /\ Prices # <<>>
ASSUME WeightsAssumption == Weights \subseteq 0 .. BPS
ASSUME PrefundAssumption == Prefund \in Nat
ASSUME FeeAssumption == BPS \in Nat \ {0} /\ FeeBps \in Nat
ASSUME VaultAssumption ==
  /\ Amounts \subseteq Nat /\ MaxUint \in Nat /\ Par \in Nat \ {0}
  /\ Endowment \in [Investors -> Nat]
ASSUME MaxUintAssumption ==
  /\ (Prefund + MapThenSumSet(LAMBDA i : Endowment[i], Investors)) * Par <= MaxUint
ASSUME ProcessesAssumption == IsFiniteSet(Processes)
ASSUME ConditionsAssumption ==
  \A c \in Conditions : c.processes \subseteq Processes /\ c.ticks \in Nat
ASSUME NullAssumption == Null \notin Int

VARIABLES
  wallet, balance, totalManagedAssets, totalShares, sharesOf,  \* the chain
  settlements,   \* PnlApplied events, each with the interval it paid for
  oracleStep,    \* the oracle's latest quote
  tickState,     \* the state file: what was held, as of which quote
  executions,    \* the execution log
  navSnapshots,  \* the NAV series
  trades,        \* the trades table
  begun,         \* ticks begun (history)
  conditions,    \* which of Conditions this behaviour is under
  tick           \* what each process knows of the tick it is running

V == INSTANCE StrategyVault WITH Deltas <- Int
P == INSTANCE Pricing

chain == <<wallet, balance, totalManagedAssets, totalShares, sharesOf>>
vars == <<chain, settlements, oracleStep, tickState, executions, navSnapshots,
          trades, begun, conditions, tick>>

Asset == "ETH"

\* The tick state before the first tick writes it: no file.
NoFile == [weight |-> Null, step |-> Null]

Idle == [pc |-> "idle", now |-> 0, read |-> <<>>, held |-> Null, from |-> Null,
         target |-> Null, trades |-> FALSE, applied |-> Null, tx |-> Null]

Faults == conditions.faults

VaultTotals == {"totalManagedAssets", "totalShares", "reserve", "navPerShare"}

Init ==
  /\ wallet = Endowment
  /\ balance = Prefund
  /\ totalManagedAssets = 0
  /\ totalShares = 0
  /\ sharesOf = [i \in Investors |-> 0]
  /\ settlements = <<>>
  /\ oracleStep = 1
  /\ tickState = NoFile
  /\ executions = <<>>
  /\ navSnapshots = <<>>
  /\ trades = <<>>
  /\ begun = 0
  /\ conditions \in Conditions
  /\ tick = [p \in Processes |-> Idle]

-----------------------------------------------------------------------------
(***************************************************************************)
(* Investors: any vault call may land between two steps of a tick.         *)
(***************************************************************************)

Invest ==
  /\ \/ V!Trade
     \/ \E i \in Investors, a \in Amounts : V!fundReserve(i, a)
  /\ UNCHANGED <<settlements, oracleStep, tickState, executions, navSnapshots,
                 trades, begun, tick>>

-----------------------------------------------------------------------------
(***************************************************************************)
(* The failed execution row: whatever the tick had reached, under the same *)
(* execution id.  It leaves the state file alone.  If even that insert     *)
(* fails it is logged and swallowed, and the tick leaves no row.           *)
(***************************************************************************)

\* Variant: the row names the vault's latest transaction, not the tick's own.
rowOfLatest(p, status) ==
  [status |-> status, weight |-> tick[p].target, applied |-> tick[p].applied,
   tx |-> IF tick[p].tx = Null THEN Null ELSE Len(settlements),
   from |-> tick[p].from, to |-> tick[p].now]

row(p, status) ==
  [status |-> status, weight |-> tick[p].target, applied |-> tick[p].applied,
   tx |-> tick[p].tx, from |-> tick[p].from, to |-> tick[p].now]

WriteFailedRow(p) ==
  /\ \/ executions' = Append(executions, row(p, "failed"))
     \/ "log" \in Faults /\ UNCHANGED executions
  /\ tick' = [tick EXCEPT ![p] = Idle]

\* The call named by site throws before it has any effect.
Fails(p, site) ==
  /\ site \in Faults
  /\ WriteFailedRow(p)
  /\ UNCHANGED <<chain, settlements, oracleStep, tickState, navSnapshots, trades,
                 begun>>

-----------------------------------------------------------------------------
(***************************************************************************)
(* 1  Advance the oracle.  The gate makes the step atomic in a process.    *)
(***************************************************************************)
Begin(p) ==
  /\ p \in conditions.processes
  /\ tick[p].pc = "idle"
  /\ begun < conditions.ticks
  /\ oracleStep < Len(Prices)
  /\ begun' = begun + 1
  /\ oracleStep' = oracleStep + 1
  /\ tick' = [tick EXCEPT ![p] = [Idle EXCEPT !.pc = "before", !.now = oracleStep']]
  /\ UNCHANGED <<chain, settlements, tickState, executions, navSnapshots, trades>>

\* Variant: a tick that cannot begin leaves no row.
BeginFailsSilently(p) ==
  /\ "advance" \in Faults
  /\ p \in conditions.processes
  /\ tick[p].pc = "idle"
  /\ begun < conditions.ticks
  /\ begun' = begun + 1
  /\ UNCHANGED <<chain, settlements, oracleStep, tickState, executions, navSnapshots,
                 trades, tick>>

\* No source, vault or key, or the oracle throws: a failed row and nothing else.
BeginFails(p) ==
  /\ "advance" \in Faults
  /\ p \in conditions.processes
  /\ tick[p].pc = "idle"
  /\ begun < conditions.ticks
  /\ begun' = begun + 1
  /\ executions' = Append(executions, row(p, "failed"))
  /\ UNCHANGED <<chain, settlements, oracleStep, tickState, navSnapshots, trades, tick>>

(***************************************************************************)
(* 2  Read the vault (and again in 6): vaultTotals is four calls, each     *)
(* answered from whatever block it reaches.                                *)
(***************************************************************************)
readTotal(total) ==
  CASE total = "totalManagedAssets" -> totalManagedAssets
    [] total = "totalShares" -> totalShares
    [] total = "reserve" -> V!reserve
    [] total = "navPerShare" -> V!navPerShare

ReadVault(p, total) ==
  LET read == [t \in DOMAIN tick[p].read \cup {total} |->
                 IF t = total THEN readTotal(t) ELSE tick[p].read[t]]
      next == IF tick[p].pc = "before" THEN "decide" ELSE "record"
  IN
  /\ tick[p].pc \in {"before", "after"}
  /\ total \notin DOMAIN tick[p].read
  /\ tick' = [tick EXCEPT ![p].read = read,
                          ![p].pc = IF DOMAIN read = VaultTotals THEN next ELSE @]
  /\ UNCHANGED <<chain, settlements, oracleStep, tickState, executions,
                 navSnapshots, trades, begun>>

(***************************************************************************)
(* 3, 4  Read the left edge of the interval, decide, price, clamp.         *)
(***************************************************************************)

\* Variant: the last decision on the log, whether its tick succeeded or not.
weightsFromAnyExecution ==
  LET decided == {k \in DOMAIN executions : executions[k].weight # Null}
  IN  IF decided = {} THEN 0 ELSE executions[Max(decided)].weight

okRows == {k \in DOMAIN executions : executions[k].status = "ok"}

weightsFromLastExecution == IF okRows = {} THEN 0 ELSE executions[Max(okRows)].weight

\* A file that cannot be read or parsed counts as missing.
readTickState ==
  {tickState} \cup IF "readState" \in Faults THEN {NoFile} ELSE {}

heldWeight(state) == IF state = NoFile THEN weightsFromLastExecution ELSE state.weight

book(weight) == [s \in {Asset} |-> weight]
quote(step) == [s \in IF step = Null THEN {} ELSE {Asset} |-> Prices[step]]

Decide(p, state, target) ==
  LET before == tick[p].read
      held   == heldWeight(state)
      priced == P!priceDecision(before.totalManagedAssets, book(held), book(target),
                                quote(state.step), quote(tick[p].now), FeeBps)
      settles == P!settlementFor(before)
      trading == priced.trades # {}
  IN
  /\ tick[p].pc = "decide"
  /\ tick' = [tick EXCEPT
       ![p].held = held,
       ![p].from = state.step,
       ![p].target = target,
       ![p].trades = trading,
       ![p].applied = IF settles THEN P!clampPnl(priced.netPnl, before) ELSE 0,
       ![p].pc = IF settles THEN "settle" ELSE IF trading THEN "trade" ELSE "after",
       ![p].read = <<>>]
  /\ UNCHANGED <<chain, settlements, oracleStep, tickState, executions,
                 navSnapshots, trades, begun>>

(***************************************************************************)
(* 5  Settle: applyPnl is sent, and takes effect, reverts, or takes effect *)
(* without the receipt ever reaching the tick.                             *)
(***************************************************************************)

settlement(p) == [from |-> tick[p].from, to |-> tick[p].now, delta |-> tick[p].applied]

accepts(delta) ==
  /\ delta > 0 => totalShares # 0 /\ delta <= V!reserve
  /\ delta < 0 => -delta <= totalManagedAssets

ApplyPnl(p) ==
  /\ tick[p].pc = "settle"
  /\ V!applyPnl(tick[p].applied)
  /\ settlements' = Append(settlements, settlement(p))
  /\ tick' = [tick EXCEPT ![p].tx = Len(settlements'),
                          ![p].pc = IF tick[p].trades THEN "trade" ELSE "after"]
  /\ UNCHANGED <<oracleStep, tickState, executions, navSnapshots, trades, begun>>

ApplyPnlReverts(p) ==
  /\ tick[p].pc = "settle"
  /\ ~accepts(tick[p].applied)
  /\ WriteFailedRow(p)
  /\ UNCHANGED <<chain, settlements, oracleStep, tickState, navSnapshots, trades, begun>>

ApplyPnlUnheard(p) ==
  /\ "receipt" \in Faults
  /\ tick[p].pc = "settle"
  /\ V!applyPnl(tick[p].applied)
  /\ settlements' = Append(settlements, settlement(p))
  /\ WriteFailedRow(p)
  /\ UNCHANGED <<oracleStep, tickState, navSnapshots, trades, begun>>

recordTrade(leg) == trades' = Append(trades, leg)

RecordTrade(p) ==
  /\ tick[p].pc = "trade"
  /\ recordTrade([from |-> tick[p].held, to |-> tick[p].target])
  /\ tick' = [tick EXCEPT ![p].pc = "after"]
  /\ UNCHANGED <<chain, settlements, oracleStep, tickState, executions,
                 navSnapshots, begun>>

(***************************************************************************)
(* 6  Snapshot NAV and write the execution row, then the state file.       *)
(***************************************************************************)

snapshot(p) == [nav |-> tick[p].read.navPerShare,
                assets |-> tick[p].read.totalManagedAssets,
                shares |-> tick[p].read.totalShares]

Record(p) ==
  /\ tick[p].pc = "record"
  /\ navSnapshots' = Append(navSnapshots, snapshot(p))
  /\ executions' = Append(executions, row(p, "ok"))
  /\ tick' = [tick EXCEPT ![p].pc = "persist", ![p].read = <<>>]
  /\ UNCHANGED <<chain, settlements, oracleStep, tickState, trades, begun>>

\* The snapshot is stored and the insert of the execution row throws.
RecordFails(p) ==
  /\ "record" \in Faults
  /\ tick[p].pc = "record"
  /\ navSnapshots' = Append(navSnapshots, snapshot(p))
  /\ WriteFailedRow(p)
  /\ UNCHANGED <<chain, settlements, oracleStep, tickState, trades, begun>>

\* Variant: a tick that settled nothing leaves the file as it is.
PersistIfSettled(p) ==
  /\ tick[p].pc = "persist"
  /\ tickState' = IF tick[p].tx = Null THEN tickState
                  ELSE [weight |-> tick[p].target, step |-> tick[p].now]
  /\ tick' = [tick EXCEPT ![p] = Idle]
  /\ UNCHANGED <<chain, settlements, oracleStep, executions, navSnapshots, trades, begun>>

\* A failed write is logged and swallowed: the file keeps what it had.
Persist(p) ==
  /\ tick[p].pc = "persist"
  /\ \/ tickState' = [weight |-> tick[p].target, step |-> tick[p].now]
     \/ "persist" \in Faults /\ UNCHANGED tickState
  /\ tick' = [tick EXCEPT ![p] = Idle]
  /\ UNCHANGED <<chain, settlements, oracleStep, executions, navSnapshots, trades, begun>>

-----------------------------------------------------------------------------
\* The process dies: what it knew is gone, the four stores stay as they are.
Crash(p) ==
  /\ "crash" \in Faults
  /\ tick[p].pc # "idle"
  /\ tick' = [tick EXCEPT ![p] = Idle]
  /\ UNCHANGED <<chain, settlements, oracleStep, tickState, executions,
                 navSnapshots, trades, begun>>

Throw(p) ==
  \/ tick[p].pc = "before" /\ Fails(p, "readBefore")
  \/ tick[p].pc = "decide" /\ Fails(p, "decide")
  \/ tick[p].pc = "settle" /\ Fails(p, "applyPnl")
  \/ tick[p].pc = "trade" /\ Fails(p, "recordTrade")
  \/ tick[p].pc = "after" /\ Fails(p, "readAfter")

Step(p) ==
  \/ \E total \in VaultTotals : ReadVault(p, total)
  \/ \E state \in readTickState, target \in Weights : Decide(p, state, target)
  \/ ApplyPnl(p)
  \/ ApplyPnlReverts(p)
  \/ ApplyPnlUnheard(p)
  \/ RecordTrade(p)
  \/ Record(p)
  \/ RecordFails(p)
  \/ Persist(p)
  \/ Throw(p)

Next ==
  /\ \/ Invest
     \/ \E p \in Processes : Begin(p) \/ BeginFails(p) \/ Step(p) \/ Crash(p)
  /\ UNCHANGED conditions

Spec == Init /\ [][Next]_vars

=============================================================================
