------------------------------ MODULE MCCatalog ------------------------------
(***************************************************************************)
(* Two depositors and a gain or a loss, three loads of one page over a     *)
(* cache that serves for one unit of time; a portfolio of two strategies;  *)
(* and a marketplace of two with three queries.                            *)
(***************************************************************************)
EXTENDS CatalogProperties

CONSTANTS alice, bob

MCInvestors == {alice, bob}
MCAmounts == {1, 4}
MCDeltas == {-1, 1}
MCEndowment == [i \in Investors |-> 4]
MCLoads == 1 .. 3
MCRanges == {AllTime, 1}

\* "aB", "ab-c": a word inside a word, a separator, and the same letters.
MCRows ==
  << [name |-> <<"a", "B">>, ticker |-> <<"c", "c">>, creator |-> <<"a">>,
      types |-> {"arb"}, risk |-> "low", figure |-> 0],
     [name |-> <<"a", "b", "-", "c">>, ticker |-> <<"b">>, creator |-> <<"c", "b">>,
      types |-> {}, risk |-> "high", figure |-> 1] >>
MCQueries == {<<>>, <<"a", "b">>, <<"$", "c">>}
MCFilters == {<<{}, AnyRisk>>, <<{"arb"}, "low">>}

letters == {"a", "b", "c", "$", "@", "-"}
MCNeedles == {<<>>} \cup {<<x>> : x \in letters} \cup {<<x, y>> : x, y \in letters}
               \cup {<<"a", y, "c">> : y \in letters}

Quiet ==
  [traders |-> {}, amounts |-> {1}, events |-> 0, snapshots |-> 0, time |-> 0, records |-> 0,
   loads |-> 0, plots |-> 0, elsewhere |-> 0, books |-> 0, searches |-> 0, faults |-> {}]

\* What the vault's events say; which of the reads a page is told of; what it
\* is told when the network or the node fails.
MCTrading ==
  [Quiet EXCEPT !.traders = {alice, bob}, !.amounts = {1, 4}, !.events = 4, !.snapshots = 2, !.records = 4]
MCReading ==
  [Quiet EXCEPT !.traders = {alice}, !.events = 1, !.time = 2, !.loads = 3]
MCUnreachable ==
  [Quiet EXCEPT !.traders = {alice}, !.events = 1, !.time = 2, !.loads = 2,
                !.faults = {"network", "chain"}]
MCDegraded ==
  [Quiet EXCEPT !.traders = {alice}, !.events = 1, !.snapshots = 1, !.time = 1, !.loads = 1, !.plots = 1,
                !.faults = {"chain"}]

\* A chart beside the detail, through a change of its range and a settled
\* transfer; and through failures and retries of either.
MCChart ==
  [Quiet EXCEPT !.traders = {alice}, !.amounts = {4}, !.events = 2, !.time = 2, !.loads = 1, !.plots = 2]
MCCharts ==
  [Quiet EXCEPT !.traders = {alice}, !.time = 1, !.loads = 2, !.plots = 1,
                !.faults = {"network"}]

\* A position and its worth over time; a portfolio that loads while an
\* investor comes and goes; and one looked at again during the first look.
MCWorth ==
  [Quiet EXCEPT !.traders = {alice}, !.amounts = {1, 4}, !.events = 3, !.records = 3, !.snapshots = 2, !.time = 1,
                !.elsewhere = 1]
MCPortfolio ==
  [Quiet EXCEPT !.traders = {alice}, !.amounts = {4}, !.events = 2, !.records = 2, !.snapshots = 1,
                !.elsewhere = 1, !.books = 1, !.faults = {"chain"}]
MCOverlap ==
  [Quiet EXCEPT !.traders = {alice}, !.elsewhere = 1, !.books = 3, !.faults = {"network"}]

\* A reader's second request, made before or after the first has ended or
\* failed; and the suggestions of one who only types.
MCMarket == [Quiet EXCEPT !.searches = 2, !.faults = {"catalogue", "network"}]
MCTyping == [Quiet EXCEPT !.searches = 1]

MCConditions ==
  {MCTrading, MCReading, MCUnreachable, MCDegraded, MCWorth, MCPortfolio, MCOverlap,
   MCChart, MCCharts, MCMarket, MCTyping}

=============================================================================
