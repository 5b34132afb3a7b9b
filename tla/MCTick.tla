------------------------------- MODULE MCTick -------------------------------
(***************************************************************************)
(* One vault, one investor, one asset whose price halves, trebles and      *)
(* falls back, the rise of the second interval being more than the reserve *)
(* can pay; a strategy that is out of the market or all in.                *)
(***************************************************************************)
EXTENDS TickProperties, TLC

CONSTANTS server, cli, alice

MCProcesses == {server, cli}
MCInvestors == {alice}
MCAmounts == {2}
MCEndowment == [i \in Investors |-> 2]
MCWeights == {0, 2}
MCPrices == <<2, 1, 3, 1>>

MCAnywhere == {"advance", "readBefore", "readState", "decide", "applyPnl", "receipt",
               "recordTrade", "readAfter", "record", "persist", "log", "crash"}

\* Three ticks that fail up to the settlement only; two processes, or one with
\* an unreliable log, and every fault.
MCConditions ==
  {[processes |-> {server}, faults |-> BeforeSettling, ticks |-> 3],
   [processes |-> {server, cli}, faults |-> MCAnywhere, ticks |-> 2],
   [processes |-> {server}, faults |-> MCAnywhere \ {"log", "crash"}, ticks |-> 2]}

\* A fall of one half, then nothing; and trades that may not be recorded.
MCOneFall == <<4, 4, 2, 2>>
MCOneDeposit == {4}
MCFourEach == [i \in Investors |-> 4]
MCTradeFails == {[processes |-> {server}, faults |-> {"recordTrade"}, ticks |-> 3]}

=============================================================================
