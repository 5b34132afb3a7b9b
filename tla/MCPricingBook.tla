---------------------------- MODULE MCPricingBook ----------------------------
(***************************************************************************)
(* Two conditions.  The book: two declared assets and one the strategy may *)
(* name but never declared, a book of BPS = 4, prices that halve, double,  *)
(* treble or go unquoted, and no run.  The record: one asset, in or out of *)
(* the market, and three runs that deposit 2 and take one to three ticks.    *)
(***************************************************************************)
EXTENDS TrackRecord, TLC

MCDeclared == {"ETH", "BTC"}

\* Raw weights below zero, fractional after scaling, above the whole book.
MCDecisions ==
  [MCDeclared -> {-1, 1, 3, 6}] \cup [{"ETH", "DOGE"} -> {4}] \cup {<<>>}

MCQuotes == {q \in [MCDeclared -> 1 .. 3] : q["BTC"] # 3} \cup [{"BTC"} -> {1}]

MCCapital == {0, 3, 4, 5}

MCConditions ==
  {[decisions |-> MCDecisions, quotes |-> MCQuotes, managed |-> capital, buffer |-> reserve,
    shares |-> capital, runs |-> 0] : capital \in {0, 5}, reserve \in {0, 5}}
  \cup
  {[decisions |-> {<<>>, [s \in {"ETH"} |-> 4]},
    quotes    |-> {[s \in MCDeclared |-> p] : p \in 1 .. 2},
    managed |-> capital, buffer |-> 4, shares |-> 2, runs |-> 3] : capital \in {3, 5}}

=============================================================================
