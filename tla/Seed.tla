-------------------------------- MODULE Seed --------------------------------
(***************************************************************************)
(* backend/src/seed/reset.ts and index.ts: a run that wipes the database,  *)
(* publishes the example strategies one after another through the API, as  *)
(* any creator would, and leaves a copy of what it made.                   *)
(*                                                                         *)
(* A third client of Submission.  Each strategy is a submission of its     *)
(* own, so the variables of Submission are those of the one at hand, and   *)
(* what the ones before left in the database is in market.  The chain is   *)
(* not wiped; what earlier runs left on it no row names.                   *)
(***************************************************************************)
EXTENDS CreateFlow, Sequences

CONSTANTS
  Templates, \* TEMPLATES: the sources to publish, in order
  MaxSeeds   \* bound: runs started

ASSUME TemplatesAssumption == Templates \in Seq(Sources) \ {<<>>}

VARIABLES
  seed,      \* the run: its phase, the templates to go, what it will report
  market,    \* the strategies of submissions before the one at hand
  copy,      \* seed-template.db: how it stands, and the strategies copied
  seeds

seedVars == <<seed, market, copy, seeds>>
allSeed == <<all, seedVars>>

NoCopy == [is |-> "absent", of |-> {}]
NotRunning == [at |-> "off", todo |-> <<>>, from |-> Null, published |-> {}, failed |-> {}]

\* The strategies table: what a row says of the checks behind it, and whether
\* the enclave did return a decision (history).
database ==
  market \cup
    IF strategy = Null THEN {}
    ELSE {[source |-> strategy.source, hash |-> strategy.hash, status |-> strategy.status,
           enclave |-> row.checks.next # "fallback", simulated |-> checked = row.source]}

SeedInit ==
  /\ CreateInit
  /\ seed = NotRunning
  /\ market = {}
  /\ copy = NoCopy
  /\ seeds = 0

-----------------------------------------------------------------------------
underWay == client = "seed" /\ seed.at \notin {"off", "done"}

alone == UNCHANGED <<client, page, calls, edits, shown, severed, crossed>>

\* The run goes on with the submission left as it is.
on(from, next) ==
  /\ client = "seed"
  /\ seed.at = from
  /\ seed' = next
  /\ alone /\ UNCHANGED <<failures, seeds>>

at(phase) == [seed EXCEPT !.at = phase]

fresh(s) ==
  /\ row' = created(s)
  /\ strategy' = Null
  /\ vaults' = <<>>
  /\ registry' = Null
  /\ secrets' = [submission |-> Null, strategy |-> Null]
  /\ draftDir' = Null /\ liveDir' = Null
  /\ checked' = Null /\ raced' = FALSE
  /\ UNCHANGED <<stream, publish, topUp>>

\* A process of its own, before the run's: it must end well for the run to start.
Reset ==
  /\ client = "seed"
  /\ seed.at \in {"off", "done"} /\ seeds < MaxSeeds
  /\ seeds' = seeds + 1
  /\ fresh(Template)
  /\ market' = {}
  /\ \/ seed' = [NotRunning EXCEPT !.at = "boot", !.todo = Templates] /\ UNCHANGED failures
     \/ seed' = NotRunning /\ fails
  /\ alone /\ UNCHANGED copy

\* The port is bound, the chain is there, the creator is signed in.
Boot == on("boot", at("create")) /\ UNCHANGED <<vars, market, copy>>

PostSubmission ==
  /\ on("create", at("check"))
  /\ fresh(Head(seed.todo))
  /\ market' = database
  /\ UNCHANGED copy

PostCheck == on("check", at("stream")) /\ StartCheck /\ UNCHANGED <<market, copy>>

\* Every line is the whole draft again: the last one is the final state.
ReadChecks ==
  /\ CheckStep
  /\ on("stream", at(IF stream'.on THEN "stream" ELSE "checked"))
  /\ UNCHANGED <<market, copy>>

\* The template is done with, one way or the other.
onwards == [seed EXCEPT !.todo = Tail(@), !.from = Null,
                        !.at = IF Len(seed.todo) = 1 THEN "record" ELSE "create"]

decided(from) == [seed EXCEPT !.at = "publish", !.from = from]

Passed ==
  /\ allPassed(row.checks)
  /\ on("checked", decided("cre-simulate"))
  /\ UNCHANGED <<vars, market, copy>>

onlySimulate == row.checks.passed = Checks - 1 /\ row.hash # Null

\* Variant: the rewritten check does not name the fallback.
fallbackUnnamed ==
  row' = [row EXCEPT !.checks = [passed |-> Checks, next |-> "pending"],
                     !.status = "simulating"]

\* The one write to the database that is not a route's.
fallbackToInProcess ==
  row' = [row EXCEPT !.checks = [passed |-> Checks, next |-> "fallback"],
                     !.status = "simulating"]

FallsBack ==
  /\ onlySimulate
  /\ on("checked", decided("in-process"))
  /\ fallbackToInProcess
  /\ UNCHANGED <<stream, publishing, draftDir, history, market, copy>>

CannotPublish ==
  /\ ~allPassed(row.checks) /\ ~onlySimulate
  /\ on("checked", [onwards EXCEPT !.failed = @ \cup {Head(seed.todo)}])
  /\ UNCHANGED <<vars, market, copy>>

PostPublish == on("publish", at("publishing")) /\ Publish /\ UNCHANGED <<market, copy>>

\* A run of the checks that threw after the last of them has no hash.
Refused ==
  /\ on("publish", NotRunning)
  /\ row.hash = Null
  /\ UNCHANGED <<vars, market, copy>>

Publishing ==
  /\ PublishStep
  /\ on("publishing", at(IF publish' = "off" THEN "published" ELSE "publishing"))
  /\ UNCHANGED <<market, copy>>

Published ==
  /\ on("published",
        [onwards EXCEPT !.published = @ \cup {[source |-> Head(seed.todo),
                                               hash |-> strategy.hash, from |-> seed.from]}])
  /\ UNCHANGED <<vars, market, copy>>

\* The track record, see TrackRecord; one that fails is no reason to stop.
Record == on("record", at("clear")) /\ UNCHANGED <<vars, market, copy>>

\* The database is closed; the old copy goes before the new one is made.
Clear ==
  /\ on("clear", at("copy"))
  /\ copy' = NoCopy
  /\ UNCHANGED <<vars, market>>

Copy ==
  /\ on("copy", at("done"))
  /\ copy' = [is |-> "whole", of |-> database]
  /\ UNCHANGED <<vars, market>>

-----------------------------------------------------------------------------
given(next) == underWay /\ fails /\ seed' = next /\ alone /\ UNCHANGED <<market, seeds>>

threw ==
  IF publish # "off" THEN PublishThrows \/ PublishUnheard
  ELSE IF stream.on THEN Crash ELSE UNCHANGED vars

\* Variant: the copy is made however the run ended.
SeedThrowsToCopy ==
  /\ threw
  /\ given(IF seed.at \in {"boot", "clear", "copy"} THEN NotRunning ELSE at("clear"))
  /\ UNCHANGED copy

\* An await throws, the publication's included: nothing after it is done, and
\* the process ends with the server in it.
SeedThrows ==
  /\ threw
  /\ given(NotRunning)
  /\ UNCHANGED copy

SeedDies ==
  /\ IF stream.on \/ publish # "off" THEN Crash ELSE UNCHANGED vars
  /\ given(NotRunning)
  /\ copy' \in IF seed.at = "copy" THEN {copy, [NoCopy EXCEPT !.is = "torn"]} ELSE {copy}

SeedStep ==
  \/ Boot \/ PostSubmission \/ PostCheck \/ ReadChecks
  \/ Passed \/ FallsBack \/ CannotPublish
  \/ PostPublish \/ Refused \/ Publishing \/ Published
  \/ Record \/ Clear \/ Copy

SeedNext ==
  \/ CreateNext /\ UNCHANGED seedVars
  \/ Reset \/ SeedStep \/ SeedThrows \/ SeedDies

\* Every route the run calls is answered or fails.
SeedSpec == SeedInit /\ [][SeedNext]_allSeed /\ Fairness /\ WF_allSeed(SeedStep)

-----------------------------------------------------------------------------
(***************************************************************************)
(* index.ts: "A fallback is never dressed up as an enclave run."  A run    *)
(* that ends has accounted for every template; what it says it published   *)
(* is live under that hash, by a decision of the enclave or by a row that  *)
(* says otherwise; and the copy others start from is of the whole of it.   *)
(* No copy ever holds a strategy that is half published, whatever threw    *)
(* and wherever the process died.                                          *)
(***************************************************************************)
rowOf(p) == {s \in database : s.source = p.source /\ s.hash = p.hash /\ s.status = "live"}

reportIsTrue ==
  seed.at = "done" =>
    /\ {p.source : p \in seed.published} \cup seed.failed = {Templates[i] : i \in DOMAIN Templates}
    /\ \A p \in seed.published : \E s \in rowOf(p) :
         /\ s.enclave <=> p.from = "cre-simulate"
         /\ s.enclave => s.simulated
    /\ copy = [is |-> "whole", of |-> database]

copyIsWhole == \A s \in copy.of : s.status = "live"

SeedReportsTheTruth == reportIsTrue /\ copyIsWhole

=============================================================================
