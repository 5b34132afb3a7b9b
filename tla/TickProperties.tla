--------------------------- MODULE TickProperties ---------------------------
(***************************************************************************)
(* What a tick owes the investors and the people who read its log.         *)
(***************************************************************************)
EXTENDS Tick

TickRecord(t) ==
  /\ t.pc \in {"idle", "before", "decide", "settle", "trade", "after", "record", "persist"}
  /\ t.now \in 0 .. Len(Prices)
  /\ t.held \in Weights \cup {0, Null} /\ t.target \in Weights \cup {Null}
  /\ t.from \in DOMAIN Prices \cup {Null}
  /\ t.trades \in BOOLEAN
  /\ t.applied \in Int \cup {Null}
  /\ t.tx \in DOMAIN settlements \cup {Null}
  /\ DOMAIN t.read \subseteq VaultTotals /\ \A v \in DOMAIN t.read : t.read[v] \in Nat

TypeOK ==
  /\ V!TypeOK
  /\ oracleStep \in 1 .. Len(Prices)
  /\ tickState.weight \in Weights \cup {Null}
  /\ tickState.step \in DOMAIN Prices \cup {Null}
  /\ \A p \in Processes : TickRecord(tick[p])
  /\ conditions \in Conditions /\ begun \in 0 .. conditions.ticks

Running == {p \in Processes : tick[p].pc # "idle"}

-----------------------------------------------------------------------------
(***************************************************************************)
(* The log tells the truth about the chain: a row that names a transaction *)
(* names one applyPnl, no other row names it, and the delta on the row is  *)
(* the delta that was settled; an ok row without one settled nothing.      *)
(***************************************************************************)
RowsMatchTheChain ==
  \A k \in DOMAIN executions :
    LET r == executions[k] IN
    /\ r.tx # Null => /\ settlements[r.tx].delta = r.applied
                      /\ settlements[r.tx].to = r.to
                      /\ \A j \in DOMAIN executions : executions[j].tx = r.tx => j = k
    /\ r.status = "ok" /\ r.tx = Null => r.applied = 0

(***************************************************************************)
(* Every tick that was begun is on the log once it is over, once, unless   *)
(* its process died or the log itself could not be written.                *)
(***************************************************************************)
EveryTickIsLogged ==
  Faults \cap {"log", "crash"} = {} =>
    begun = Len(executions)
              + Cardinality({p \in Processes : tick[p].pc \notin {"idle", "persist"}})

\* Both together (with the type invariant): a true log, and all of it.
LogTellsTheTruth == TypeOK /\ RowsMatchTheChain /\ EveryTickIsLogged

(***************************************************************************)
(* clampPnl and settlementFor ask the vault only for what it can settle:   *)
(* if the totals the tick priced against still stand when applyPnl is      *)
(* sent, it does not revert.  Only an investor's call in between can.      *)
(***************************************************************************)
unchangedSince(read) ==
  \A t \in DOMAIN read : read[t] = readTotal(t)

FreshReadIsAccepted ==
  [][\A p \in Processes :
       /\ tick[p].pc = "decide" /\ unchangedSince(tick[p].read)
       /\ tick'[p].pc = "settle"
       => accepts(tick'[p].applied)]_vars

-----------------------------------------------------------------------------
(***************************************************************************)
(* The books agree with each other as long as one process ticks and        *)
(* nothing fails between the settlement and the state file: the sources of *)
(* drift are the faults after applyPnl, and a second process.              *)
(***************************************************************************)
BeforeSettling == {"advance", "readBefore", "decide", "applyPnl"}

Orderly == Cardinality(conditions.processes) = 1 /\ Faults \subseteq BeforeSettling

(***************************************************************************)
(* Each price interval is paid for at most once, and none is lost: the     *)
(* successful ticks tile the price series, each starting where the one     *)
(* before it ended, failed ticks in between or not.                        *)
(***************************************************************************)
NoIntervalPaidTwice ==
  \A i, j \in DOMAIN settlements :
    i < j => settlements[j].from = Null \/ settlements[i].to <= settlements[j].from

following(j, k) == j < k /\ \A i \in okRows : i <= j \/ k <= i

IntervalsTile ==
  Orderly => /\ NoIntervalPaidTwice
             /\ \A j, k \in okRows : following(j, k) => executions[k].from = executions[j].to

(***************************************************************************)
(* A tick prices the weights the log says the strategy holds, whether they *)
(* came from the file or from the log itself, and the trades table         *)
(* replays: each trade starts from the weight the one before it ended on,  *)
(* so the recorded fills explain the book.                                 *)
(***************************************************************************)
HeldFollowsTheLog ==
  \A p \in Processes :
    tick[p].pc \in {"settle", "trade", "after", "record"}
      => tick[p].held = weightsFromLastExecution

TradesReplay ==
  Orderly =>
    /\ HeldFollowsTheLog
    /\ trades # <<>> => trades[1].from = 0
    /\ \A k \in 2 .. Len(trades) : trades[k].from = trades[k - 1].to

-----------------------------------------------------------------------------
(***************************************************************************)
(* state.ts on the file: "What a strategy held, and at what prices, when   *)
(* it last settled."  So a tick that finds a file (without one it has no   *)
(* move to price) pays for what came after the last payment, and never for *)
(* a move that the investors have been charged or paid for already.        *)
(***************************************************************************)
FileIsTheLastSettlement ==
  \A k \in 2 .. Len(settlements) :
    LET last == settlements[k - 1]
        now  == settlements[k]
    IN  now.from # Null /\ last.delta # 0 /\ now.delta # 0 => now.from >= last.to

=============================================================================
