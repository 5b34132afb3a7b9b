---------------------------- MODULE MCSimulation ----------------------------
(***************************************************************************)
(* A strategy that begins as a draft, is checked, published and ticked by  *)
(* the server, or begins live and is published again; and a command line   *)
(* that ticks it as soon as its row is there.  What the strategy asks for  *)
(* changes with the market and with its book.                              *)
(***************************************************************************)
EXTENDS SimulationProperties, TLC

CONSTANTS a, server, cli, v1, v2, key, flat, half

MCStrategies == {a}
MCProcesses == {server, cli}
MCSources == {v1, v2}
MCBooks == {flat, half}
MCProbedBooks == {flat}
MCClock == {5}

\* Flat, the key is read at every other step; holding something, always.
MCAsks(source, step, book) ==
  IF source = v1 /\ (step % 2 = 0 \/ book # flat) THEN {key} ELSE {}

MCFaults == {"throw", "crash", "lost"}

\* A strategy checked, published, published again and ticked; one ticked while it
\* is published; one ticked by two processes at once.
MCConditions ==
  {[live |-> {}, tickers |-> {server}, runs |-> 3, faults |-> MCFaults],
   [live |-> {}, tickers |-> {cli}, runs |-> 2, faults |-> {"throw"}],
   [live |-> {a}, tickers |-> {server, cli}, runs |-> 0, faults |-> {}]}

=============================================================================
