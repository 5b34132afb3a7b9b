----------------------------- MODULE CreateFlow -----------------------------
(***************************************************************************)
(* frontend/src/components/create: the three steps in which a creator      *)
(* writes a strategy, gives its private parameter and publishes it, over   *)
(* the API of Submission.                                                  *)
(*                                                                         *)
(* The page keeps its own copy of everything: the source in the editor,    *)
(* the parameter and its ciphertext, the checks it last heard of and the   *)
(* source they were run on.  Requests are in flight while the creator goes *)
(* on typing and moving between the steps, so what lands is what was on    *)
(* the page when the button was pressed.                                   *)
(*                                                                         *)
(* A behaviour has one client: this page, any other caller of the API,     *)
(* which asks for what it likes in any order, or the seed (Seed).          *)
(***************************************************************************)
EXTENDS Submission

CONSTANTS
  Clients,  \* a subset of {"page", "api", "seed"}
  Template, \* the source the editor opens with
  Values,   \* of the private parameter
  MaxEdits, \* bound: edits of the source and of the parameter
  MaxFailures \* bound: connections cut and publications that fail, for each client

ASSUME ClientsAssumption == Clients \subseteq {"page", "api", "seed"}
ASSUME TemplateAssumption == Template \in Sources
ASSUME BoundsAssumption == MaxEdits \in Nat /\ MaxFailures \in [{"page", "api", "seed"} -> Nat]

\* A ciphertext is the value it opens to.
ASSUME ValuesAssumption == Ciphertexts = Values

VARIABLES
  client,   \* who calls the API
  page,     \* what the page holds
  calls,    \* the request behind each of the two spinning buttons, with what the
            \* parameter was on the page when it was sent (history)
  edits,
  failures,
  shown,    \* the source on the page when the publication was asked for (history)
  severed,  \* the end of the latest run never reached the page (history)
  crossed   \* a save landed after the latest run's own (history)

flow == <<page, calls, edits, failures, shown, severed, crossed>>
all == <<vars, client, flow>>

Buttons == {"saving", "busy"}
None == [kind |-> "none", source |-> Null, secret |-> Null, value |-> Null]

request(kind) == [None EXCEPT !.kind = kind]

streaming == page.run # "off"
checksStale == page.checkedSource # Null /\ page.checkedSource # page.source

CreateInit ==
  /\ Init
  /\ client \in Clients
  /\ row.source = Template
  /\ page = [step |-> 1, reached |-> 1, source |-> row.source, value |-> Null,
             cipher |-> Null, draft |-> FALSE, checks |-> Pending,
             checkedSource |-> Null, run |-> "off", submitted |-> Null]
  /\ calls = [b \in Buttons |-> None]
  /\ edits = 0
  /\ failures = 0
  /\ shown = Null
  /\ severed = FALSE
  /\ crossed = FALSE

-----------------------------------------------------------------------------
(***************************************************************************)
(* What the creator does.                                                  *)
(***************************************************************************)
\* Something fails that should not, and the page is told.
fails ==
  /\ failures < MaxFailures[client]
  /\ failures' = failures + 1

onPage == client = "page" /\ page.step # 0

edited ==
  /\ edits < MaxEdits
  /\ edits' = edits + 1
  /\ UNCHANGED <<vars, client, calls, failures, shown, severed, crossed>>

\* The editor, an uploaded file or the template: the source is replaced.
EditSource(s) ==
  /\ onPage /\ page.step = 1
  /\ s # page.source
  /\ page' = [page EXCEPT !.source = s]
  /\ edited

\* The ciphertext of the previous value stays on the row.
EditSecret(v) ==
  /\ onPage /\ page.step = 2
  /\ v # page.value
  /\ page' = [page EXCEPT !.value = v]
  /\ edited

moved(p) ==
  /\ page' = p
  /\ UNCHANGED <<vars, client, calls, edits, failures, shown, severed, crossed>>

\* A quarter of a second after the last keystroke, while the step is open.
Encrypt ==
  /\ onPage /\ page.step = 2
  /\ page.value \notin {Null, page.cipher}
  /\ moved([page EXCEPT !.cipher = page.value])

Navigate(n) ==
  /\ onPage /\ n # page.step
  /\ n <= page.reached
  /\ moved([page EXCEPT !.step = n])

press(button, r) ==
  /\ calls' = [calls EXCEPT ![button] = r]
  /\ UNCHANGED <<vars, client, page, edits, failures, shown, severed, crossed>>

persistDraft ==
  [request(IF page.draft THEN "patch" ELSE "create") EXCEPT !.source = page.source]

\* Bound: a first save that is under way is waited for.
creating == \E b \in Buttons : calls[b].kind = "create"

SaveDraft ==
  /\ onPage
  /\ calls.saving = None /\ calls.busy = None /\ ~streaming /\ ~creating
  /\ press("saving", persistDraft)

ContinueFromCode ==
  /\ onPage /\ page.step = 1
  /\ calls.busy = None /\ ~streaming /\ ~creating
  /\ press("busy", persistDraft)

\* Only that there is a ciphertext is looked at, not what of.
validateSecrets == page.value # Null => page.cipher # Null

submittableSecrets == IF page.value = Null THEN Null ELSE page.cipher

ContinueFromSecrets ==
  /\ onPage /\ page.step = 2
  /\ calls.busy = None /\ ~streaming
  /\ validateSecrets
  /\ press("busy", [request("secrets") EXCEPT !.secret = submittableSecrets,
                                             !.value = page.value])

RunChecks ==
  /\ onPage /\ page.step = 3
  /\ ~streaming
  /\ moved([page EXCEPT !.run = "patch", !.submitted = page.source, !.checks = Pending])

\* Checks take a minute: none overtakes the request, so it arrives as it is
\* sent.  A publication under way is joined.
publishes ==
  /\ page.step = 3
  /\ calls.busy = None /\ ~streaming
  /\ \/ Publish /\ shown' = IF row.linked THEN shown ELSE page.source
     \/ publish # "off" /\ UNCHANGED <<vars, shown>>
  /\ calls' = [calls EXCEPT !.busy = request("publish")]
  /\ UNCHANGED <<client, page, edits, failures, severed, crossed>>

\* Variant: an edit since the run does not disable the button.
PressPublishStale == onPage /\ allPassed(page.checks) /\ publishes

PressPublish ==
  /\ onPage
  /\ allPassed(page.checks) /\ ~checksStale
  /\ publishes

-----------------------------------------------------------------------------
(***************************************************************************)
(* What comes of a request.                                                *)
(***************************************************************************)
\* A first save whose answer was lost is made again: the page has the second.
Create(s) ==
  /\ row' = created(s)
  /\ secrets' = [secrets EXCEPT !.submission = Null]
  /\ UNCHANGED <<stream, strategy, publish, topUp, onChain, draftDir, liveDir, history>>

save(s) ==
  \/ s # row.source /\ Patch(s)
  \/ s = row.source /\ requireEditable /\ UNCHANGED vars

handled(r) ==
  \/ r.kind = "create" /\ Create(r.source)
  \/ r.kind = "patch" /\ save(r.source)
  \/ r.kind = "secrets" /\ PostSecrets(r.secret)

\* The checks to come, or those coming in, are not of what this save left.
landed(b) ==
  /\ calls' = [calls EXCEPT ![b] = None]
  /\ crossed' = (crossed \/ (calls[b].kind = "patch" /\ page.run \in {"check", "open"}))
  /\ UNCHANGED <<client, edits, shown, severed>>

answered(b) ==
  LET next == IF calls[b].kind = "secrets" THEN 3 ELSE 2 IN
  IF b = "saving" THEN [page EXCEPT !.draft = TRUE]
  ELSE [page EXCEPT !.draft = TRUE, !.step = next,
                    !.reached = IF next > @ THEN next ELSE @]

Land(b) == handled(calls[b]) /\ landed(b) /\ page' = answered(b) /\ UNCHANGED failures

\* The server did what it was asked and the page is told of a failure.
LandUnheard(b) == handled(calls[b]) /\ landed(b) /\ UNCHANGED page /\ fails

\* The submission is published, or nobody answers.
Fail(b) ==
  /\ calls[b] # None
  /\ \/ calls[b].kind \in {"patch", "secrets"} /\ ~requireEditable /\ UNCHANGED failures
     \/ fails
  /\ calls' = [calls EXCEPT ![b] = None]
  /\ UNCHANGED <<vars, client, page, edits, shown, severed, crossed>>

\* On success the page is left for the strategy's own.
PublishAnswers ==
  /\ calls.busy.kind = "publish"
  /\ publish = "off"
  /\ calls' = [calls EXCEPT !.busy = None]
  /\ page' = IF row.status = "live" THEN [page EXCEPT !.step = 0] ELSE page
  /\ UNCHANGED <<vars, client, edits, failures, shown, severed, crossed>>

-----------------------------------------------------------------------------
(***************************************************************************)
(* A run of the checks: save, ask, and read the stream to its end.         *)
(***************************************************************************)
running(at) ==
  /\ page' = [page EXCEPT !.run = at, !.submitted = IF at = "off" THEN Null ELSE @]
  /\ UNCHANGED <<client, calls, edits, shown, severed>>

RunSaved ==
  /\ page.run = "patch"
  /\ save(page.submitted)
  /\ running("check")
  /\ crossed' = FALSE
  /\ UNCHANGED failures

RunStarts ==
  /\ page.run = "check"
  /\ StartCheck
  /\ running("open")
  /\ UNCHANGED <<crossed, failures>>

\* Refused, an earlier run not having noticed that its reader left among the
\* reasons, or cut off.  What the page knew of the checks is gone already.
RunFails ==
  /\ \/ page.run \in {"patch", "check"} /\ ~requireEditable /\ UNCHANGED failures
     \/ page.run = "check" /\ stream.on /\ UNCHANGED failures
     \/ page.run \in {"patch", "check"} /\ fails
  /\ running("off")
  /\ UNCHANGED <<vars, crossed>>

Cut ==
  /\ page.run = "open"
  /\ Disconnect
  /\ fails
  /\ running("off")
  /\ UNCHANGED crossed

heard == IF page.run = "open" THEN [page EXCEPT !.checks = row'.checks] ELSE page

ended ==
  IF page.run = "open"
  THEN [heard EXCEPT !.checkedSource = page.submitted, !.submitted = Null,
                       !.run = "off"]
  ELSE page

\* Bound: building a workflow and deploying a vault outlast a save in flight.
saveLanded == calls.saving = None

\* Variant: a run that did not pass leaves the page streaming.
HearOnlySuccess ==
  /\ CheckStep
  /\ page' = IF ~stream'.on /\ allPassed(row'.checks) THEN ended ELSE heard
  /\ UNCHANGED <<client, calls, edits, failures, shown, severed, crossed>>

\* The stream's end, too, may be lost on its way, after all it had to say.
Hear ==
  /\ client # "seed"
  /\ CheckStep
  /\ stream.checks.passed >= Checks - 2 => saveLanded
  /\ \/ /\ page' = IF stream'.on THEN heard ELSE ended
        /\ severed' = (severed /\ (stream'.on \/ page.run # "open"))
        /\ UNCHANGED failures
     \/ /\ ~stream'.on /\ page.run = "open"
        /\ page' = [heard EXCEPT !.run = "off", !.submitted = Null]
        /\ severed' = TRUE
        /\ fails
  /\ UNCHANGED <<client, calls, edits, shown, crossed>>

Creator ==
  \/ \E s \in Sources : EditSource(s)
  \/ \E v \in Values : EditSecret(v)
  \/ Encrypt
  \/ \E n \in 1 .. 3 : Navigate(n)
  \/ SaveDraft
  \/ ContinueFromCode
  \/ ContinueFromSecrets
  \/ RunChecks
  \/ PressPublish

Answer(b) == Land(b) \/ LandUnheard(b) \/ Fail(b)

RunStep == RunSaved \/ RunStarts \/ RunFails \/ Cut

Browser ==
  \/ \E b \in Buttons : Answer(b)
  \/ PublishAnswers
  \/ RunStep

behind(A) == A /\ UNCHANGED <<client, flow>>

forApi(A) == client = "api" /\ behind(A)

OtherClient ==
  \/ forApi(Ask \/ PublishStep \/ LoseDraftDir)
  \/ /\ client = "api"
     /\ PublishThrows \/ PublishUnheard \/ Crash
     /\ fails
     /\ UNCHANGED <<client, page, calls, edits, shown, severed, crossed>>

(***************************************************************************)
(* For the page a publication is one step, which ends with all of it done  *)
(* or throws.  How far one that throws came, and how the next picks it up, *)
(* are seen by the other client.                                           *)
(***************************************************************************)
publishedWhole ==
  /\ publish = "gas"
  /\ publish' = "off"
  /\ vaults' = [v \in {1} |-> Target]
  /\ registry' = [vault |-> 1, hash |-> strategy.hash]
  /\ strategy' = [strategy EXCEPT !.vault = 1, !.status = "live"]
  /\ row' = [row EXCEPT !.status = "live"]
  /\ carrySecrets
  /\ liveDir' = IF liveDir = Null THEN draftDir ELSE liveDir
  /\ draftDir' = IF liveDir = Null THEN Null ELSE draftDir
  /\ UNCHANGED <<stream, topUp, history>>

Publication ==
  /\ client = "page" /\ saveLanded
  /\ \/ publishedWhole /\ UNCHANGED failures
     \/ PublishThrows /\ fails
  /\ UNCHANGED <<client, page, calls, edits, shown, severed, crossed>>

CreateNext ==
  \/ Creator
  \/ Browser
  \/ OtherClient
  \/ Hear
  \/ Publication

CreateSpec == CreateInit /\ [][CreateNext]_all

\* Requests are answered or fail, a run of the checks and a publication go on,
\* and a client of the API keeps publishing what is not live yet.
Fairness ==
  /\ WF_all(Answer("saving"))
  /\ WF_all(Answer("busy") \/ PublishAnswers)
  /\ WF_all(RunStep)
  /\ WF_all(client = "page" /\ Hear)
  /\ WF_all(Publication \/ forApi(PublishStep))
  /\ WF_all(forApi(Publish))

FairSpec == CreateSpec /\ Fairness

=============================================================================
