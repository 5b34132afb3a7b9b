------------------------------ MODULE Resource ------------------------------
(***************************************************************************)
(* frontend/src/components/strategy/useResource.ts: one thing a page loads *)
(* and loads again, on a retry or when what it depends on changes.  A load *)
(* aborts the one before it, whose answer may be on its way all the same   *)
(* and must then not land.                                                 *)
(***************************************************************************)
EXTENDS Naturals

CONSTANT Nothing   \* no data yet

VARIABLES
  data,     \* what was loaded last, or Nothing
  error,    \* the last load failed
  pending,  \* a load is under way
  current   \* the number of the load whose answer is awaited

closed == data = Nothing /\ error = FALSE /\ pending = FALSE /\ current = 0

\* Opening the page is the first of them.
load ==
  /\ current' = current + 1
  /\ pending' = TRUE
  /\ UNCHANGED <<data, error>>

\* What shows it is put up anew.
mount ==
  /\ data' = Nothing /\ error' = FALSE /\ pending' = TRUE
  /\ current' = current + 1

\* Variants: an answer lands whoever asked; a load that fails stays pending.
landsAnyway(r) == TRUE
failsPending(r) == error' = TRUE /\ UNCHANGED <<data, pending>>

lands(r) == r = current

shows(answer) == data' = answer /\ error' = FALSE /\ pending' = FALSE
fails(r) == error' = TRUE /\ pending' = FALSE /\ UNCHANGED data

then(r, answer) == IF lands(r) THEN shows(answer) ELSE UNCHANGED <<data, error, pending>>
catch(r) == IF lands(r) THEN fails(r) ELSE UNCHANGED <<data, error, pending>>

loading == pending /\ data = Nothing

=============================================================================
