---------------------------- MODULE StrategyPage ----------------------------
(***************************************************************************)
(* The page of one strategy: StrategyDetailView.tsx and its chart          *)
(* (PerformancePanel.tsx), over the backend of Catalog.  A settled         *)
(* transfer loads the detail again and puts a new chart in the place of    *)
(* the old; the chart asks again when its range is changed.  An earlier    *)
(* question may still be on its way, and its answer must not land.         *)
(*                                                                         *)
(* The chart has two series, loaded alike: the strategy's, modelled here,  *)
(* and, for a holder, the position's.                                      *)
(***************************************************************************)
EXTENDS Catalog

CONSTANT FirstRange   \* the range a chart opens with

ASSUME FirstRangeAssumption == FirstRange \in Ranges

VARIABLES
  data, error, pending, current,       \* the detail, a Resource
  plotted, plotFailed, plotting, plot, \* the chart's line, a Resource
  range                                \* the chart's range, or NoChart

detailVars == <<data, error, pending, current>>
plotVars == <<plotted, plotFailed, plotting, plot, range>>
pageVars == <<detailVars, plotVars>>
vars_ == <<catalogVars, pageVars>>
backend == <<vaultVars, now, sources, reads, readings>>

Nothing == NoRequest
NoChart == -1

detail == INSTANCE Resource
chart == INSTANCE Resource WITH
  data <- plotted, error <- plotFailed, pending <- plotting, current <- plot

PageInit == CatalogInit /\ detail!closed /\ chart!closed /\ range = NoChart

\* What the page renders: a load in front of nothing, then an error in front
\* of what there is.  Only the last has a chart.
rendered == IF detail!loading THEN "skeleton" ELSE IF error THEN "error"
            ELSE IF data = Nothing THEN "empty" ELSE "strategy"

-----------------------------------------------------------------------------
(***************************************************************************)
(* Loading the detail, and the chart that comes and goes with it.          *)
(***************************************************************************)
asking(r, chosen) == [request EXCEPT ![r] = sent(chosen)]

reload == current < conditions.loads /\ detail!load

\* A new chart asks for its line; that of an old one is not awaited.
\* Bound: a run that plots nothing leaves the chart out.
mounts(requests) ==
  IF conditions.plots = 0 THEN request' = requests /\ UNCHANGED plotVars
  ELSE /\ chart!mount
       /\ range' = FirstRange
       /\ request' = [requests EXCEPT ![<<"series", plot'>>] = sent(FirstRange)]

unmounts == range' = NoChart /\ plotting' = FALSE /\ UNCHANGED <<plotted, plotFailed, plot>>

\* On opening the page, and from the error it shows.
Reload ==
  /\ rendered = "empty" \/ rendered = "error"
  /\ reload
  /\ request' = asking(<<"detail", current'>>, AllTime)
  /\ UNCHANGED <<plotVars, backend>>

onSettled ==
  /\ rendered = "strategy"
  /\ reload
  /\ mounts(asking(<<"detail", current'>>, AllTime))
  /\ UNCHANGED backend

landed(r) == [request EXCEPT ![r].stage = "landed"]

Land(n) ==
  LET r == <<"detail", n>> IN
  /\ request[r].stage = "answered"
  /\ detail!then(n, request[r])
  /\ IF rendered' = "strategy" /\ range = NoChart THEN mounts(landed(r))
     ELSE request' = landed(r) /\ UNCHANGED plotVars
  /\ UNCHANGED <<current, backend>>

\* The connection breaks, or the backend answers with an error.
cut(r) ==
  /\ "network" \in conditions.faults
  /\ request[r].stage \in {"sent", "reading", "answered"}
  /\ request' = [request EXCEPT ![r] = [stage |-> "cut"]]

CutOff(n) ==
  /\ cut(<<"detail", n>>)
  /\ detail!catch(n)
  /\ IF rendered' = "strategy" THEN UNCHANGED plotVars ELSE unmounts
  /\ UNCHANGED <<current, backend>>

-----------------------------------------------------------------------------
(***************************************************************************)
(* The chart.  An error in its place offers a retry and hides the ranges.  *)
(***************************************************************************)
asksForLine(chosen) ==
  /\ range # NoChart /\ plot < conditions.plots
  /\ chart!load
  /\ range' = chosen
  /\ request' = asking(<<"series", plot'>>, chosen)
  /\ UNCHANGED <<detailVars, backend>>

setRange(chosen) == ~chart!loading /\ ~plotFailed /\ chosen # range /\ asksForLine(chosen)

RetryLine == plotFailed /\ asksForLine(range)

Plot(n) ==
  LET r == <<"series", n>> IN
  /\ request[r].stage = "answered"
  /\ request' = landed(r)
  /\ IF range = NoChart THEN UNCHANGED plotVars
     ELSE chart!then(n, request[r]) /\ UNCHANGED <<plot, range>>
  /\ UNCHANGED <<detailVars, backend>>

CutLine(n) ==
  /\ cut(<<"series", n>>)
  /\ IF range = NoChart THEN UNCHANGED plotVars
     ELSE chart!catch(n) /\ UNCHANGED <<plot, range>>
  /\ UNCHANGED <<detailVars, backend>>

PageNext ==
  /\ \/ (Sources \/ Serving) /\ UNCHANGED pageVars
     \/ Reload \/ onSettled \/ RetryLine
     \/ \E chosen \in Ranges : setRange(chosen)
     \/ \E n \in Loads : Land(n) \/ CutOff(n) \/ Plot(n) \/ CutLine(n)
  /\ UNCHANGED conditions

=============================================================================
