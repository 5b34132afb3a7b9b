-------------------------------- MODULE Fuzzy --------------------------------
(***************************************************************************)
(* The search of the marketplace, which exists twice: the server keeps the *)
(* rows that match (backend/src/routes/fuzzy.ts) and the page picks out    *)
(* the characters that matched (frontend/src/components/strategy/fuzzy.ts).*)
(*                                                                         *)
(* A text is a sequence of characters.  What a query matches is found by a *)
(* recursion over where in the query and where in the text one is, which   *)
(* prefers the better of taking a character and skipping it.               *)
(***************************************************************************)
EXTENDS Integers, Sequences, SequencesExt, FiniteSetsExt

lowerCase == [A |-> "a", B |-> "b", C |-> "c"]
lower(c) == IF c \in DOMAIN lowerCase THEN lowerCase[c] ELSE c
isUpper(c) == lower(c) # c
separators == {" ", "-", ".", "@", "$"}

boundaryBonus(target, i) ==
  IF i = 1 THEN 18
  ELSE IF target[i - 1] \in separators THEN 14
  ELSE IF isUpper(target[i]) /\ ~isUpper(target[i - 1]) THEN 10
  ELSE 0

consecutiveBonus == 12
characterScore == 1
skipPenalty == 1

NoMatch == [score |-> 0, indices |-> <<0>>]   \* null
Everything == [score |-> 0, indices |-> <<>>]

better(a, b) ==
  IF a = NoMatch THEN b ELSE IF b = NoMatch \/ a.score >= b.score THEN a ELSE b

skipping(m) == IF m = NoMatch THEN m ELSE [m EXCEPT !.score = @ - skipPenalty]

taking(target, t, rest) ==
  IF rest = NoMatch THEN NoMatch
  ELSE LET next == rest.indices # <<>> /\ Head(rest.indices) = t + 1
       IN [score   |-> characterScore + boundaryBonus(target, t) + rest.score
                         + IF next THEN consecutiveBonus ELSE 0,
           indices |-> <<t>> \o rest.indices]

\* Variant: the rest of the query is given up on one character early.
tooShortEarly(n, q, m, t) == m - t <= n - q

\* Not enough of the text is left to hold the rest of the query.
tooShort(n, q, m, t) == m - t < n - q

fuzzyMatch(needle, target) ==
  LET n == Len(needle)
      m == Len(target)
      seek[q \in 1 .. n + 1, t \in 1 .. m + 1] ==
        IF q > n THEN Everything
        ELSE IF tooShort(n, q, m, t) THEN NoMatch
        ELSE better(IF lower(target[t]) = needle[q]
                    THEN taking(target, t, seek[q + 1, t + 1]) ELSE NoMatch,
                    skipping(seek[q, t + 1]))
  IN IF n = 0 THEN Everything ELSE seek[1, 1]

-----------------------------------------------------------------------------
(***************************************************************************)
(* The three fields of a strategy, on either side.  Weights are in         *)
(* twentieths: a hit on the name beats one on the ticker, and that one on  *)
(* the creator.                                                            *)
(***************************************************************************)
weightOf == [name |-> 20, ticker |-> 19, creator |-> 16]

weighed(matches) ==
  LET scores == {matches[f].score * weightOf[f] : f \in {f \in DOMAIN matches : matches[f] # NoMatch}}
  IN CHOOSE score \in scores \cup {NoMatch.score - 10000} : \A other \in scores : score >= other

unmatched == weighed([f \in DOMAIN weightOf |-> NoMatch])

\* displayTicker, displayHandle: what the marketplace renders.
decorated(text, sign) == IF text # <<>> /\ Head(text) = sign THEN text ELSE <<sign>> \o text

\* Variant: the server looks at a field as it is stored.
bestOfStored(needle, stored, sign) == fuzzyMatch(needle, stored)

best(needle, stored, sign) ==
  better(fuzzyMatch(needle, stored), fuzzyMatch(needle, <<sign>> \o stored))

scoreStrategy(needle, s) ==
  IF needle = <<>> THEN 0
  ELSE weighed([name    |-> fuzzyMatch(needle, s.name),
                ticker  |-> best(needle, s.ticker, "$"),
                creator |-> best(needle, s.creator, "@")])

\* The page's own copy of the recursion.
clientMatch(needle, target) == fuzzyMatch(needle, target)

matchStrategy(needle, s) ==
  [name    |-> clientMatch(needle, s.name),
   ticker  |-> clientMatch(needle, decorated(s.ticker, "$")),
   creator |-> clientMatch(needle, decorated(s.creator, "@"))]

highlights(needle, s) == needle = <<>> \/ weighed(matchStrategy(needle, s)) # unmatched

\* A text in alternating runs, plain and picked out.
toSegments(text, indices) ==
  LET hit(i) == i \in ToSet(indices)
      starts == SetToSortSeq({i \in DOMAIN text : i = 1 \/ hit(i) # hit(i - 1)}, LAMBDA i, j : i < j)
      end(k) == IF k = Len(starts) THEN Len(text) ELSE starts[k + 1] - 1
  IN [k \in DOMAIN starts |-> [text    |-> SubSeq(text, starts[k], end(k)),
                              matched |-> hit(starts[k])]]

-----------------------------------------------------------------------------
(***************************************************************************)
(* What a match is, said without the recursion.                            *)
(***************************************************************************)
ascending(indices) == \A i, j \in DOMAIN indices : i < j => indices[i] < indices[j]

spells(indices, needle, target) ==
  /\ Len(indices) = Len(needle)
  /\ ascending(indices)
  /\ \A k \in DOMAIN indices :
       indices[k] \in DOMAIN target /\ lower(target[indices[k]]) = needle[k]

occurs(needle, target) ==
  \E indices \in [DOMAIN needle -> DOMAIN target] : spells(indices, needle, target)

scoreOf(indices, target) ==
  LET places == DOMAIN indices IN
    MapThenSumSet(LAMBDA k : characterScore + boundaryBonus(target, indices[k]), places)
  + consecutiveBonus * Cardinality({k \in places : k > 1 /\ indices[k] = indices[k - 1] + 1})
  - skipPenalty * (IF indices = <<>> THEN 0 ELSE Last(indices) - Len(indices))

=============================================================================
