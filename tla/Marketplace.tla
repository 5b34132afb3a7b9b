----------------------------- MODULE Marketplace -----------------------------
(***************************************************************************)
(* The list of strategies: components/strategy/MarketplaceBrowser.tsx with *)
(* its search field (StrategySearch.tsx) over GET /strategies              *)
(* (routes/strategies.ts), and the site the three pages make together.     *)
(*                                                                         *)
(* The field settles on a query when typing pauses, or at once when one is *)
(* handed over in the address; every change of the criteria asks again.    *)
(* One figure of a strategy stands for the metrics one can sort by.        *)
(***************************************************************************)
EXTENDS Portfolio, Fuzzy

CONSTANTS
  Rows,       \* the strategies there will be, oldest first
  Queries,    \* what a reader types or is sent with
  Filters,    \* the types and the risk a reader narrows to
  PageLimit,  \* the rows of one answer, unless the request says otherwise
  Suggested   \* MAX_SUGGESTIONS

VARIABLES
  shelf,        \* the server: how many of Rows exist, and each one's figure
  criteria,     \* what the reader has set; query is the field, settled what counts
  dropdown,     \* the suggestions: open, which is active, and of how many rows
  searches,     \* the listing requests, oldest first
  found, searchFailed, searching, search   \* the results, a Resource

resultVars == <<searches, found, searchFailed, searching, search>>
marketVars == <<shelf, criteria, dropdown, resultVars>>
siteVars == <<vars_, portfolioVars, marketVars>>

NoFigure == -1   \* null: too little history to state one
NoTimer == <<"none">>
ASSUME QueriesAssumption == NoTimer \notin Queries
AnyRisk == "any"

results == INSTANCE Resource WITH
  data <- found, error <- searchFailed, pending <- searching, current <- search

MarketInit ==
  /\ shelf = [created |-> 1, figure |-> [n \in DOMAIN Rows |-> NoFigure]]
  /\ criteria = [query |-> <<>>, settled |-> <<>>, url |-> <<>>, timer |-> NoTimer,
                 types |-> {}, risk |-> AnyRisk, sort |-> "metric"]
  /\ dropdown = [open |-> FALSE, active |-> 1, known |-> 0]
  /\ searches = <<>>
  /\ results!closed

-----------------------------------------------------------------------------
(***************************************************************************)
(* The server.  Which rows match is decided on what there is when the      *)
(* request arrives; their figures are read afterwards.                     *)
(***************************************************************************)
Create ==
  /\ shelf.created < Len(Rows)
  /\ shelf' = [shelf EXCEPT !.created = @ + 1]
  /\ UNCHANGED <<criteria, dropdown, resultVars>>

\* Its history grows long enough for a figure.
Perform(n) ==
  /\ n <= shelf.created
  /\ shelf.figure[n] # Rows[n].figure
  /\ shelf' = [shelf EXCEPT !.figure[n] = Rows[n].figure]
  /\ UNCHANGED <<criteria, dropdown, resultVars>>

score == [q \in Queries |-> [n \in DOMAIN Rows |-> scoreStrategy(q, Rows[n])]]

admits(ask, n) ==
  /\ ask.types = {} \/ ask.types \cap Rows[n].types # {}
  /\ ask.risk \in {AnyRisk, Rows[n].risk}
  /\ score[ask.q][n] # unmatched

matchRows(k) ==
  /\ k \in DOMAIN searches /\ searches[k].stage = "sent"
  /\ UNCHANGED <<shelf, criteria, dropdown, found, searchFailed, searching, search>>
  /\ searches' = [searches EXCEPT ![k] =
       [stage |-> "matched", ask |-> @.ask,
        kept  |-> {n \in 1 .. shelf.created : admits(@.ask, n)}]]

\* Variant: a strategy without a figure counts as having made nothing.
figureOrZero(figure) == IF figure = NoFigure THEN 0 ELSE figure

nullable(figure) == figure

\* Two without a figure are told apart neither by it nor by their score.
sortSummaries(kept, ask) ==
  LET byFigure(m, n) == nullable(shelf.figure[n]) - nullable(shelf.figure[m])
      before(m, n) ==
        IF ask.sort = "newest" THEN m > n
        ELSE IF byFigure(m, n) # 0 THEN byFigure(m, n) < 0
        ELSE IF shelf.figure[m] # NoFigure /\ ask.q # <<>> /\ score[ask.q][m] # score[ask.q][n]
             THEN score[ask.q][m] > score[ask.q][n]
        ELSE m > n
  IN SetToSortSeq(kept, before)

AnswerSearch(k) ==
  /\ k \in DOMAIN searches /\ searches[k].stage = "matched"
  /\ UNCHANGED <<shelf, criteria, dropdown, found, searchFailed, searching, search>>
  /\ LET sorted == sortSummaries(searches[k].kept, searches[k].ask)
         page == SubSeq(sorted, 1, Min({PageLimit, Len(sorted)})) IN
     searches' = [searches EXCEPT ![k] =
       [stage |-> "answered", ask |-> @.ask, total |-> Len(sorted),
        rows  |-> [i \in DOMAIN page |-> [n |-> page[i], figure |-> shelf.figure[page[i]]]]]]

-----------------------------------------------------------------------------
(***************************************************************************)
(* The page.                                                               *)
(***************************************************************************)
asks(c) == [q |-> c.settled, types |-> c.types, risk |-> c.risk, sort |-> c.sort]

ask(c) ==
  /\ search < conditions.searches
  /\ results!load
  /\ searches' = Append(searches, [stage |-> "sent", ask |-> asks(c)])

\* A change asks again when it changes what is asked for; a changed query
\* makes the first suggestion the active one.
becomes(c, open) ==
  /\ search > 0
  /\ criteria' = c
  /\ dropdown' = [dropdown EXCEPT !.open = open,
                                  !.active = IF c.query = criteria.query THEN @ ELSE 1]
  /\ IF asks(c) = asks(criteria) THEN UNCHANGED resultVars ELSE ask(c)
  /\ UNCHANGED shelf

\* Opening it, perhaps with a query in the address; a first timer runs too.
OpenMarket(q) ==
  LET c == [criteria EXCEPT !.query = q, !.settled = q, !.url = q, !.timer = q] IN
  /\ search = 0
  /\ criteria' = c
  /\ ask(c)
  /\ UNCHANGED <<shelf, dropdown>>

\* A query that changes starts a timer, in place of one that runs.
typed(c, q) == [c EXCEPT !.query = q, !.timer = IF q = c.query THEN @ ELSE q]

Type(q) ==
  /\ q # criteria.query
  /\ becomes(typed(criteria, q), TRUE)

ClearField ==
  /\ criteria.query # <<>>
  /\ becomes(typed(criteria, <<>>), FALSE)

timerFires ==
  /\ criteria.timer # NoTimer
  /\ becomes([criteria EXCEPT !.settled = criteria.timer, !.timer = NoTimer], dropdown.open)

settlesOn(c, q) == [typed(c, q) EXCEPT !.settled = q]

\* The search box of every page's top bar (AppShell.tsx): an address that
\* stays the same hands nothing over.
Handover(q) ==
  /\ q # criteria.url
  /\ becomes([settlesOn(criteria, q) EXCEPT !.url = q], dropdown.open)

clearAll == becomes([settlesOn(criteria, <<>>) EXCEPT !.types = {}, !.risk = AnyRisk], FALSE)

removeQuery == becomes(settlesOn(criteria, <<>>), FALSE)

Narrow(types, risk) == becomes([criteria EXCEPT !.types = types, !.risk = risk], FALSE)

SortBy(key) == becomes([criteria EXCEPT !.sort = key], FALSE)

RetrySearch ==
  /\ searchFailed
  /\ ask(criteria)
  /\ UNCHANGED <<shelf, criteria, dropdown>>

LandSearch(k) ==
  /\ k \in DOMAIN searches /\ searches[k].stage = "answered"
  /\ searches' = [searches EXCEPT ![k] = [stage |-> "over"]]
  /\ results!then(k, searches[k])
  /\ UNCHANGED <<shelf, criteria, dropdown, search>>

CutSearch(k) ==
  /\ "network" \in conditions.faults
  /\ k \in DOMAIN searches /\ searches[k].stage # "over"
  /\ searches' = [searches EXCEPT ![k] = [stage |-> "over"]]
  /\ results!catch(k)
  /\ UNCHANGED <<shelf, criteria, dropdown, search>>

-----------------------------------------------------------------------------
(***************************************************************************)
(* The suggestions under the field, of the whole catalogue as it was when  *)
(* the page loaded it, whatever the filters.                               *)
(***************************************************************************)
rankEntries(query, rows) ==
  LET matching == {n \in rows : highlights(query, Rows[n])}
      weight(n) == weighed(matchStrategy(query, Rows[n]))
      ranked == SetToSortSeq(matching,
                  LAMBDA m, n : weight(m) > weight(n) \/ (weight(m) = weight(n) /\ m > n))
  IN SubSeq(ranked, 1, Min({Suggested, Len(ranked)}))

suggestions ==
  IF criteria.query = <<>> THEN <<>> ELSE rankEntries(criteria.query, 1 .. dropdown.known)

expanded == dropdown.open /\ suggestions # <<>>

turnsTo(d) == search > 0 /\ dropdown' = d /\ UNCHANGED <<shelf, criteria, resultVars>>

LoadCatalogue ==
  /\ dropdown.known = 0 /\ "catalogue" \notin conditions.faults
  /\ turnsTo([dropdown EXCEPT !.known = shelf.created])

OpenSuggestions == turnsTo([dropdown EXCEPT !.open = TRUE])

CloseSuggestions == turnsTo([dropdown EXCEPT !.open = FALSE])

ArrowDown == expanded /\ turnsTo([dropdown EXCEPT !.active = (@ % Len(suggestions)) + 1])

ArrowUp ==
  /\ expanded
  /\ turnsTo([dropdown EXCEPT !.active = IF @ = 1 THEN Len(suggestions) ELSE @ - 1])

Hover(i) == expanded /\ turnsTo([dropdown EXCEPT !.active = i])

\* In a field that shows none it empties the field.
Escape ==
  IF expanded THEN CloseSuggestions ELSE becomes(typed(criteria, <<>>), dropdown.open)

ReaderStep ==
  \/ \E q \in Queries : OpenMarket(q) \/ Type(q) \/ Handover(q)
  \/ timerFires \/ clearAll \/ removeQuery \/ RetrySearch
  \/ \E filter \in Filters : Narrow(filter[1], filter[2])
  \/ \E key \in {"metric", "newest"} : SortBy(key)
  \/ LoadCatalogue \/ ClearField
  \/ OpenSuggestions \/ CloseSuggestions \/ ArrowDown \/ ArrowUp \/ Escape
  \/ \E i \in DOMAIN suggestions : Hover(i)

MarketStep ==
  /\ conditions.searches > 0
  /\ \/ ReaderStep
     \/ Create
     \/ \E n \in DOMAIN Rows : Perform(n)
     \/ \E k \in DOMAIN searches : matchRows(k) \/ AnswerSearch(k) \/ LandSearch(k) \/ CutSearch(k)

-----------------------------------------------------------------------------
(***************************************************************************)
(* The site: the strategy's page, the portfolio and the marketplace, each  *)
(* with its requests, over one backend.                                    *)
(***************************************************************************)
SiteInit == PageInit /\ PortfolioInit /\ MarketInit

SiteNext ==
  \/ PageNext /\ UNCHANGED <<portfolioVars, marketVars>>
  \/ PortfolioStep /\ UNCHANGED <<vars_, marketVars>>
  \/ MarketStep /\ UNCHANGED <<vars_, portfolioVars>>

SiteSpec == SiteInit /\ [][SiteNext]_siteVars

\* The node and the network answer or fail in the end; nothing else is owed.
FairSite ==
  /\ SiteSpec
  /\ \A r \in Requests :  WF_request(Arrive(r) \/ readTotals(r) \/ Answer(r))
  /\ \A k \in 1 .. Cardinality(Requests) :
       WF_reads(k \in DOMAIN reads /\ (fetchLogs(k) \/ blockTimestamps(k)))
  /\ \A r \in Loads :
       /\ WF_request(Land(r)) /\ WF_request(Plot(r))
       /\ WF_asked(readRows(r) \/ (\E s \in Both : readTotalsOf(r, s))
                     \/ AnswerPortfolio(r) \/ LandPortfolio(r))
       /\ WF_searches(matchRows(r) \/ AnswerSearch(r) \/ LandSearch(r))

=============================================================================
