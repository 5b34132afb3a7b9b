--------------------------- MODULE SubmissionProofs ---------------------------
(***************************************************************************)
(* Proofs about checks and publication, for every number of checks, every  *)
(* prefund, every set of sources and secrets, every combination of faults, *)
(* and whichever client asks: the page, another caller of the API, or the  *)
(* seed.                                                                   *)
(***************************************************************************)
EXTENDS SubmissionProperties, FiniteSetTheorems, SequenceTheorems, TLAPS

-----------------------------------------------------------------------------
(***************************************************************************)
(* Types.                                                                  *)
(***************************************************************************)
Rows == [source : Sources, checks : CheckState, hash : Sources \cup {Null},
         status : {"draft", "checking", "simulating", "failed", "live"}, linked : BOOLEAN]

Streams == [on : BOOLEAN, source : Sources \cup {Null}, checks : CheckState, aborted : BOOLEAN]

StrategyRecords == [source : Sources, hash : Sources, vault : {Null} \cup Nat,
                    status : {"draft", "live"}]

SubmissionTyped ==
  /\ row \in Rows
  /\ stream \in Streams
  /\ strategy \in {Null} \cup StrategyRecords
  /\ topUp \in Nat
  /\ secrets \in [submission : Ciphertexts \cup {Null}, strategy : Ciphertexts \cup {Null}]
  /\ draftDir \in Sources \cup {Null}
  /\ liveDir \in Sources \cup {Null}

numbered == Cardinality(DOMAIN vaults)

\* Vaults are numbered as they are deployed, and no reserve passes the target.
VaultsTyped ==
  /\ numbered \in Nat /\ DOMAIN vaults = 1 .. numbered
  /\ vaults \in [1 .. numbered -> 0 .. Target]

(***************************************************************************)
(* The checks: what the row says of a source is what the last run found,   *)
(* and while a run is under way the row has no hash.                       *)
(***************************************************************************)
built(checks) == checks.passed >= Checks - 1

StreamInv ==
  stream.on =>
    /\ row.hash = Null
    /\ stream.source \in Sources
    /\ ~raced => stream.source = row.source
    /\ built(stream.checks) => draftDir \in {Null, stream.source}
    /\ built(stream.checks) /\ client = "page" => draftDir # Null

HashInv ==
  row.hash # Null =>
    /\ draftDir \in {Null, row.hash}
    /\ ~raced => row.hash = row.source
    /\ client = "page" => draftDir # Null \/ liveDir # Null

(***************************************************************************)
(* The publication: what is done by the time it is at each of its steps,   *)
(* and what stays done however it ended.                                   *)
(***************************************************************************)
hasVault == strategy.vault \in DOMAIN vaults
prefunded == hasVault /\ vaults[strategy.vault] >= Target
anchored == registry = [vault |-> strategy.vault, hash |-> strategy.hash]

Before == row.linked \/ (/\ strategy = Null /\ publish = "off" /\ registry = Null /\ liveDir = Null
                         /\ secrets.strategy = Null)

After ==
  row.linked =>
    /\ strategy \in StrategyRecords
    /\ row.hash # Null /\ strategy.hash = row.hash
    /\ strategy.vault = Null \/ hasVault
    /\ registry # Null => hasVault /\ anchored
    /\ liveDir # Null /\ ~raced => liveDir = row.hash
    /\ IF strategy.status = "live"
       THEN prefunded /\ anchored /\ liveDir # Null /\ secrets.strategy = secrets.submission
       ELSE secrets.strategy = Null

StageInv ==
  /\ publish \in {"readVault", "reserve"} => hasVault
  /\ publish = "reserve" => vaults[strategy.vault] + topUp = Target
  /\ publish \in {"isRegistered", "registry", "workflow", "live"} => prefunded
  /\ publish \in {"workflow", "live"} => anchored
  /\ publish = "live" => liveDir # Null

PublicationInv ==
  /\ SubmissionTyped /\ VaultsTyped /\ StreamInv /\ HashInv /\ PublishableIsChecked
  /\ Before /\ After /\ StageInv

(***************************************************************************)
(* The clients: the page first saves, then checks and publishes; the seed  *)
(* does one thing at a time.                                               *)
(***************************************************************************)
Pages == [step : 0 .. 3, reached : 1 .. 3, source : Sources, value : Values \cup {Null},
          cipher : Values \cup {Null}, draft : BOOLEAN, checks : CheckState,
          checkedSource : Sources \cup {Null}, run : {"off", "patch", "check", "open"},
          submitted : Sources \cup {Null}]

PageTyped ==
  /\ page \in Pages
  /\ page.run # "off" => page.submitted \in Sources
  /\ calls \in [Buttons -> Request]

Creating(b) == calls[b].kind = "create"

PageInv ==
  /\ PageTyped
  /\ page.step <= page.reached
  /\ page.reached > 1 => page.draft
  /\ page.run # "off" => page.reached = 3
  /\ \A b \in Buttons : /\ calls[b].kind = "none" => calls[b] = None
                        /\ calls[b].kind \in {"create", "patch"} => calls[b].source \in Sources
                        /\ calls[b].kind \in {"patch", "secrets", "publish"} => page.draft
                        /\ Creating(b) => ~page.draft /\ \A c \in Buttons : Creating(c) => c = b
  /\ client = "page" /\ page.reached < 3 => ~stream.on /\ ~row.linked
  /\ client # "page" => page.run = "off" /\ \A b \in Buttons : calls[b] = None

Froms == {"cre-simulate", "in-process"}
Claims == [source : Sources, hash : Sources, from : Froms]

Seeding == {"boot", "create", "check", "stream", "checked", "publish", "publishing", "published"}
Phases == {"off", "record", "clear", "copy", "done"} \cup Seeding

SeedRuns == [at : Phases, todo : Seq(Sources), from : Froms \cup {Null},
             published : SUBSET Claims, failed : SUBSET Sources]

SeedInv ==
  /\ seed \in SeedRuns
  /\ seed.at \in Seeding => seed.todo # <<>>
  /\ seed.at \in {"publish", "publishing", "published"} => seed.from \in Froms
  /\ client = "seed" =>
       /\ stream.on => seed.at = "stream"
       /\ publish # "off" => seed.at = "publishing"
       /\ seed.at \in {"check", "stream", "checked", "publish"} => ~row.linked
       /\ seed.at \in {"publishing", "published"} => row.linked

Inv == PublicationInv /\ PageInv /\ SeedInv

-----------------------------------------------------------------------------
(***************************************************************************)
(* Every step, as what it does to the submission: a step of its own, the   *)
(* page's publication in one, another submission in its place, the seed's  *)
(* rewritten check, or nothing.                                            *)
(***************************************************************************)
Publication1 == publishedWhole /\ client = "page"

Another ==
  /\ \E s \in Sources : (Create(s) /\ ~row.linked) \/ fresh(s)
  /\ ~stream.on /\ publish = "off"

Rewritten ==
  /\ onlySimulate /\ fallbackToInProcess
  /\ ~row.linked /\ client = "seed"
  /\ UNCHANGED <<stream, publishing, draftDir, history>>

Moves ==
  \/ \E s \in Sources : Patch(s)
  \/ \E c \in Ciphertexts \cup {Null} : PostSecrets(c)
  \/ StartCheck \/ Disconnect \/ Publish
  \/ CheckStep \/ PublishStep \/ PublishThrows \/ PublishUnheard \/ Crash
  \/ LoseDraftDir /\ client = "api"
  \/ Publication1 \/ Another \/ Rewritten
  \/ UNCHANGED vars

LEMMA CreatorMoves ==
  ASSUME PageInv, Creator
  PROVE  Moves
  <1>1. CASE PressPublish
    BY <1>1 DEF PressPublish, publishes, Moves
  <1>2. CASE Creator /\ ~PressPublish
    BY <1>2 DEF Creator, EditSource, EditSecret, Encrypt, Navigate, SaveDraft, ContinueFromCode,
                ContinueFromSecrets, RunChecks, edited, moved, press, Moves
  <1>3. QED
    BY <1>1, <1>2

LEMMA RequestTypes ==
  ASSUME PageInv, NEW b \in Buttons
  PROVE  /\ calls[b] \in Request
         /\ calls[b].secret \in Ciphertexts \cup {Null}
         /\ calls[b].kind \in {"create", "patch"} => calls[b].source \in Sources
  <1>1. calls[b] \in Request
    BY DEF PageInv, PageTyped
  <1>2. calls[b].secret \in Ciphertexts \cup {Null}
    BY <1>1, ValuesAssumption DEF Request
  <1>3. QED
    BY <1>1, <1>2 DEF PageInv

LEMMA BrowserMoves ==
  ASSUME PublicationInv, PageInv, Browser
  PROVE  Moves
  <1>1. ASSUME NEW b \in Buttons, handled(calls[b]) PROVE Moves
    <2>1. CASE calls[b].kind = "create" /\ Create(calls[b].source)
      <3>1. client = "page" /\ ~page.draft
        BY <2>1 DEF PageInv, Creating, None
      <3>2. page.reached < 3
        BY <3>1 DEF PageInv, PageTyped, Pages
      <3>3. ~stream.on /\ publish = "off" /\ ~row.linked
        BY <3>1, <3>2 DEF PageInv, PublicationInv, Before
      <3>4. QED
        BY <2>1, <3>3, RequestTypes DEF Moves, Another
    <2>2. CASE calls[b].kind = "patch" /\ save(calls[b].source)
      BY <2>2, RequestTypes DEF save, Moves
    <2>3. CASE calls[b].kind = "secrets" /\ PostSecrets(calls[b].secret)
      BY <2>3, RequestTypes DEF Moves
    <2>4. QED
      BY <1>1, <2>1, <2>2, <2>3 DEF handled
  <1>2. ASSUME NEW b \in Buttons, Answer(b) PROVE Moves
    BY <1>1, <1>2 DEF Answer, Land, LandUnheard, Fail, Moves
  <1>3. CASE PublishAnswers
    BY <1>3 DEF PublishAnswers, Moves
  <1>4. CASE RunStep
    <2>1. page.run = "patch" => page.submitted \in Sources
      BY DEF PageInv, PageTyped
    <2>2. QED
      BY <1>4, <2>1 DEF RunStep, RunSaved, RunStarts, RunFails, Cut, save, Moves
  <1>5. QED
    BY <1>2, <1>3, <1>4 DEF Browser

\* A template taken from those to go.
LEMMA TemplatesTaken ==
  ASSUME NEW s \in Seq(Sources), s # <<>>
  PROVE  Head(s) \in Sources /\ Tail(s) \in Seq(Sources) /\ (Len(s) # 1 => Tail(s) # <<>>)
  <1>1. Len(s) \in Nat /\ Len(s) # 0 /\ Len(Tail(s)) = Len(s) - 1
    OBVIOUS
  <1>2. Head(s) \in Sources /\ Tail(s) \in Seq(Sources)
    OBVIOUS
  <1>3. Tail(s) = <<>> => Len(Tail(s)) = 0
    BY <1>2, EmptySeq
  <1>4. QED
    BY <1>1, <1>2, <1>3

LEMMA SeedMoves ==
  ASSUME PublicationInv, SeedInv, Reset \/ SeedStep \/ SeedThrows \/ SeedDies
  PROVE  Moves
  <1>1. CASE Reset
    <2>1. ~stream.on /\ publish = "off"
      BY <1>1 DEF Reset, SeedInv
    <2>2. QED
      BY <1>1, <2>1, TemplateAssumption DEF Reset, Moves, Another
  <1>2. CASE PostSubmission
    <2>1. seed.at = "create" /\ client = "seed"
      BY <1>2 DEF PostSubmission, on
    <2>2. ~stream.on /\ publish = "off" /\ seed.todo \in Seq(Sources) /\ seed.todo # <<>>
      BY <2>1 DEF SeedInv, SeedRuns, Seeding
    <2>3. QED
      BY <1>2, <2>2, TemplatesTaken DEF PostSubmission, Moves, Another
  <1>3. CASE FallsBack
    <2>1. ~row.linked /\ client = "seed"
      BY <1>3 DEF FallsBack, on, SeedInv
    <2>2. QED
      BY <1>3, <2>1 DEF FallsBack, Rewritten, Moves
  <1>4. CASE SeedThrows \/ SeedDies
    <2>1. PublishThrows \/ PublishUnheard \/ Crash \/ UNCHANGED vars
      BY <1>4 DEF SeedThrows, SeedDies, threw
    <2>2. QED
      BY <2>1 DEF Moves
  <1>5. CASE PostCheck \/ ReadChecks \/ PostPublish \/ Publishing
    BY <1>5 DEF PostCheck, ReadChecks, PostPublish, Publishing, Moves
  <1>6. CASE \/ Boot \/ Passed \/ CannotPublish \/ Refused \/ Published \/ Record \/ Clear \/ Copy
    BY <1>6 DEF Boot, Passed, CannotPublish, Refused, Published, Record, Clear, Copy, Moves
  <1>7. QED
    BY <1>1, <1>2, <1>3, <1>4, <1>5, <1>6 DEF SeedStep

LEMMA StepMoves ==
  ASSUME Inv, [SeedNext]_allSeed
  PROVE  Moves /\ client' = client
  <1>1. Moves
    <2>1. CASE Creator \/ Browser
      BY <2>1, CreatorMoves, BrowserMoves DEF Inv
    <2>2. CASE OtherClient
      BY <2>2 DEF OtherClient, forApi, behind, Ask, Moves
    <2>3. CASE Hear
      BY <2>3 DEF Hear, Moves
    <2>4. CASE Publication
      BY <2>4 DEF Publication, Publication1, Moves
    <2>5. CASE Reset \/ SeedStep \/ SeedThrows \/ SeedDies
      BY <2>5, SeedMoves DEF Inv
    <2>6. CASE UNCHANGED allSeed
      BY <2>6 DEF allSeed, all, Moves
    <2>7. QED
      BY <2>1, <2>2, <2>3, <2>4, <2>5, <2>6 DEF SeedNext, CreateNext
  <1>2. client' = client
    <2>1. CASE CreateNext
      <3>1. CASE Creator
        BY <3>1 DEF Creator, EditSource, EditSecret, Encrypt, Navigate, SaveDraft, ContinueFromCode,
                    ContinueFromSecrets, RunChecks, PressPublish, publishes, edited, moved, press
      <3>2. CASE Browser
        BY <3>2 DEF Browser, Answer, Land, LandUnheard, Fail, landed, PublishAnswers,
                    RunStep, RunSaved, RunStarts, RunFails, Cut, running
      <3>3. CASE OtherClient \/ Hear \/ Publication
        BY <3>3 DEF OtherClient, forApi, behind, Hear, Publication
      <3>4. QED
        BY <2>1, <3>1, <3>2, <3>3 DEF CreateNext
    <2>2. CASE Reset \/ SeedStep \/ SeedThrows \/ SeedDies
      BY <2>2 DEF Reset, SeedStep, SeedThrows, SeedDies, given, alone, on, Boot, PostSubmission,
                  PostCheck, ReadChecks, Passed, FallsBack, CannotPublish, PostPublish, Refused,
                  Publishing, Published, Record, Clear, Copy
    <2>3. CASE UNCHANGED allSeed
      BY <2>3 DEF allSeed, all
    <2>4. QED
      BY <2>1, <2>2, <2>3 DEF SeedNext
  <1>3. QED
    BY <1>1, <1>2

-----------------------------------------------------------------------------
(***************************************************************************)
(* A creator's requests.                                                   *)
(***************************************************************************)
LEMMA NullIsNothing == Null \notin Sources /\ Null \notin Ciphertexts /\ Null \notin Int
  BY NullAssumption

LEMMA CountsOfChecks ==
  /\ Checks \in Nat /\ Checks >= 2 /\ Target \in Nat
  /\ Pending \in CheckState /\ ~built(Pending) /\ ~allPassed(Pending)
  /\ \A c \in CheckState : allPassed(c) => built(c)
  BY ChecksAssumption, TargetAssumption DEF Pending, CheckState, built, allPassed

\* The row before there is a strategy, which is what a creator may change.
LEMMA EditingKeeps ==
  ASSUME PublicationInv, client' = client, ~row.linked,
         row' \in Rows, ~row'.linked, row'.hash = Null,
         UNCHANGED <<strategy, publish, topUp, onChain, liveDir, draftDir, secrets>>,
         stream' \in Streams, StreamInv'
  PROVE  PublicationInv'
  <1>1. SubmissionTyped' /\ VaultsTyped'
    BY DEF PublicationInv, SubmissionTyped, VaultsTyped, onChain, numbered
  <1>2. HashInv' /\ PublishableIsChecked'
    BY DEF HashInv, PublishableIsChecked
  <1>3. Before' /\ After' /\ StageInv'
    BY DEF PublicationInv, Before, After, StageInv, onChain
  <1>4. QED
    BY <1>1, <1>2, <1>3 DEF PublicationInv

LEMMA PatchKeeps ==
  ASSUME PublicationInv, client' = client, NEW s \in Sources, Patch(s)
  PROVE  PublicationInv'
  <1>1. /\ row' = [row EXCEPT !.source = s, !.checks = Pending, !.hash = Null, !.status = "draft"]
        /\ row \in Rows /\ ~row.linked
    BY DEF Patch, requireEditable, PublicationInv, SubmissionTyped
  <1>2. row' \in Rows /\ ~row'.linked /\ row'.hash = Null
    BY <1>1, CountsOfChecks DEF Rows
  <1>3. stream' \in Streams /\ StreamInv'
    BY <1>2 DEF Patch, publishing, PublicationInv, SubmissionTyped, StreamInv
  <1>4. QED
    BY <1>1, <1>2, <1>3, EditingKeeps DEF Patch, publishing

LEMMA PostSecretsKeeps ==
  ASSUME PublicationInv, client' = client, NEW c \in Ciphertexts \cup {Null}, PostSecrets(c)
  PROVE  PublicationInv'
  <1>1. ~row.linked /\ secrets' = [secrets EXCEPT !.submission = c]
    BY DEF PostSecrets, requireEditable
  <1>2. secrets'.strategy = secrets.strategy
        /\ secrets' \in [submission : Ciphertexts \cup {Null}, strategy : Ciphertexts \cup {Null}]
    BY <1>1 DEF PublicationInv, SubmissionTyped
  <1>3. SubmissionTyped' /\ VaultsTyped'
    BY <1>2 DEF PublicationInv, SubmissionTyped, VaultsTyped, onChain, numbered, PostSecrets
  <1>4. StreamInv' /\ HashInv' /\ PublishableIsChecked'
    BY DEF PublicationInv, StreamInv, HashInv, PublishableIsChecked, PostSecrets, history
  <1>5. Before' /\ After' /\ StageInv'
    BY <1>1, <1>2 DEF PublicationInv, Before, After, StageInv, onChain, PostSecrets
  <1>6. QED
    BY <1>3, <1>4, <1>5 DEF PublicationInv

LEMMA StartCheckKeeps ==
  ASSUME PublicationInv, client' = client, StartCheck
  PROVE  PublicationInv'
  <1>1. /\ row' = [row EXCEPT !.checks = Pending, !.hash = Null, !.status = "checking"]
        /\ row \in Rows /\ ~row.linked
    BY DEF StartCheck, requireEditable, PublicationInv, SubmissionTyped
  <1>2. row' \in Rows /\ ~row'.linked /\ row'.hash = Null /\ row'.source = row.source
    BY <1>1, CountsOfChecks DEF Rows
  <1>3. stream' = [on |-> TRUE, source |-> row.source, checks |-> Pending, aborted |-> FALSE]
    BY DEF StartCheck, Off
  <1>4. stream' \in Streams
    BY <1>1, <1>3, CountsOfChecks DEF Streams, Rows
  <1>5. StreamInv'
    BY <1>1, <1>2, <1>3, CountsOfChecks DEF StreamInv, Rows
  <1>6. QED
    BY <1>1, <1>2, <1>4, <1>5, EditingKeeps DEF StartCheck, publishing

LEMMA DisconnectKeeps ==
  ASSUME PublicationInv, client' = client, Disconnect
  PROVE  PublicationInv'
  <1>1. stream' = [stream EXCEPT !.aborted = TRUE] /\ stream \in Streams /\ stream.on
    BY DEF Disconnect, PublicationInv, SubmissionTyped
  <1>2. /\ stream' \in Streams /\ stream'.on /\ stream'.source = stream.source
        /\ stream'.checks = stream.checks
    BY <1>1 DEF Streams
  <1>3. StreamInv'
    BY <1>1, <1>2 DEF PublicationInv, StreamInv, Disconnect, publishing, history
  <1>4. row.hash = Null /\ ~row.linked
    BY <1>1 DEF PublicationInv, StreamInv, After
  <1>5. QED
    BY <1>2, <1>3, <1>4, EditingKeeps DEF Disconnect, publishing, PublicationInv, SubmissionTyped

-----------------------------------------------------------------------------
(***************************************************************************)
(* The checks.                                                             *)
(***************************************************************************)
LEMMA StreamingFacts ==
  ASSUME PublicationInv, stream.on
  PROVE  /\ row \in Rows /\ stream \in Streams
         /\ row.hash = Null /\ ~row.linked
         /\ stream.source \in Sources /\ stream.checks \in CheckState
  <1>1. row \in Rows /\ stream \in Streams
    BY DEF PublicationInv, SubmissionTyped
  <1>2. QED
    BY <1>1 DEF PublicationInv, StreamInv, After, Streams

LEMMA WrittenRow ==
  ASSUME PublicationInv, stream.on, NEW checks \in CheckState, NEW hash \in Sources \cup {Null},
         NEW status \in {"checking", "simulating", "failed"}
  PROVE  LET next == written(checks, hash, status)
         IN  /\ next \in Rows /\ ~next.linked /\ next.source = row.source
             /\ next = row \/ (next.hash = hash /\ next.checks = checks)
  BY StreamingFacts DEF written, Rows

\* Until the last word of a run there is no hash, and the draft's directory is
\* built from the run's own source.
LEMMA RunningKeeps ==
  ASSUME PublicationInv, client' = client, stream.on, NEW checks \in CheckState,
         NEW status \in {"checking", "failed"}, row' = written(checks, Null, status),
         UNCHANGED <<publishing, history>>,
         draftDir' \in Sources \cup {Null},
         \/ stream' = Off
         \/ /\ stream' = [stream EXCEPT !.checks = checks]
            /\ built(checks) => draftDir' \in {Null, stream.source}
            /\ built(checks) /\ client = "page" => draftDir' # Null
  PROVE  PublicationInv'
  <1>1. row' \in Rows /\ ~row'.linked /\ row'.source = row.source /\ row'.hash = Null
    BY WrittenRow, StreamingFacts
  <1>2. stream' \in Streams
    <2>1. Off \in Streams
      BY CountsOfChecks DEF Streams, Off
    <2>2. [stream EXCEPT !.checks = checks] \in Streams
      BY StreamingFacts DEF Streams
    <2>3. QED
      BY <2>1, <2>2
  <1>3. StreamInv'
    <2>1. CASE stream' = Off
      BY <2>1 DEF StreamInv, Off
    <2>2. CASE stream' = [stream EXCEPT !.checks = checks]
                /\ (built(checks) => draftDir' \in {Null, stream.source})
                /\ (built(checks) /\ client = "page" => draftDir' # Null)
      <3>1. stream'.source = stream.source /\ stream'.checks = checks
        BY <2>2, StreamingFacts DEF Streams
      <3>2. QED
        BY <1>1, <2>2, <3>1 DEF PublicationInv, StreamInv, history
    <2>3. QED
      BY <2>1, <2>2
  <1>4. SubmissionTyped' /\ VaultsTyped'
    BY <1>1, <1>2 DEF PublicationInv, SubmissionTyped, VaultsTyped, publishing, onChain, numbered
  <1>5. HashInv' /\ PublishableIsChecked'
    BY <1>1 DEF HashInv, PublishableIsChecked
  <1>6. Before' /\ After' /\ StageInv'
    BY <1>1, StreamingFacts DEF PublicationInv, Before, After, StageInv, publishing, onChain
  <1>7. QED
    BY <1>3, <1>4, <1>5, <1>6 DEF PublicationInv

LEMMA CheckKeeps ==
  ASSUME PublicationInv, client' = client, NEW next \in {"running", "passed", "failed"}, Check(next)
  PROVE  PublicationInv'
  <1> DEFINE was == stream.checks
             now == IF next = "passed" THEN [passed |-> was.passed + 1, next |-> "pending"]
                                       ELSE [was EXCEPT !.next = next]
  <1>1. stream.on /\ was \in CheckState /\ ~allPassed(was) /\ stream.source \in Sources
    BY StreamingFacts DEF Check
  <1>2. now \in CheckState
    BY <1>1, CountsOfChecks DEF CheckState, allPassed
  <1>3. built(now) => built(was) \/ (was.passed = Checks - 2 /\ next # "running")
    BY <1>1, CountsOfChecks DEF built, CheckState
  <1>4. /\ row' = written(now, Null, "checking")
        /\ stream' = Off \/ stream' = [stream EXCEPT !.checks = now]
        /\ draftDir' = IF was.passed = Checks - 2 /\ next # "running" THEN stream.source ELSE draftDir
        /\ UNCHANGED <<publishing, history>>
    BY DEF Check
  <1> HIDE DEF now
  <1>5. draftDir' \in Sources \cup {Null}
    BY <1>1, <1>4 DEF PublicationInv, SubmissionTyped
  <1>6. /\ built(now) => draftDir' \in {Null, stream.source}
        /\ built(now) /\ client = "page" => draftDir' # Null
    BY <1>1, <1>3, <1>4, NullIsNothing DEF PublicationInv, StreamInv
  <1>7. QED
    BY <1>1, <1>2, <1>4, <1>5, <1>6, RunningKeeps

LEMMA CheckThrowsKeeps ==
  ASSUME PublicationInv, client' = client, CheckThrows
  PROVE  PublicationInv'
  <1> DEFINE now == [stream.checks EXCEPT !.next = IF @ = "running" THEN "failed" ELSE @]
  <1>1. stream.on
    BY DEF CheckThrows
  <1>2. now \in CheckState
    BY <1>1, StreamingFacts DEF CheckState
  <1>3. row' = written(now, Null, "failed") /\ stream' = Off /\ UNCHANGED <<publishing, draftDir, history>>
    BY DEF CheckThrows
  <1> HIDE DEF now
  <1>4. draftDir' \in Sources \cup {Null}
    BY <1>3 DEF PublicationInv, SubmissionTyped
  <1>5. QED
    BY <1>1, <1>2, <1>3, <1>4, RunningKeeps

LEMMA FinishCheckKeeps ==
  ASSUME PublicationInv, client' = client, FinishCheck
  PROVE  PublicationInv'
  <1> DEFINE checks == stream.checks
             hash   == IF checks.passed >= Checks - 1 THEN stream.source ELSE Null
             status == IF allPassed(checks) THEN "simulating" ELSE "failed"
  <1>1. stream.on /\ checks \in CheckState /\ stream.source \in Sources
    BY StreamingFacts DEF FinishCheck
  <1>2. /\ row' = written(checks, hash, status) /\ stream' = Off
        /\ checked' = IF allPassed(checks) THEN stream.source ELSE checked
        /\ UNCHANGED <<publishing, draftDir, raced>>
    BY DEF FinishCheck
  <1>3. /\ row' \in Rows /\ ~row'.linked /\ row'.source = row.source
        /\ row' = row \/ (row'.hash = hash /\ row'.checks = checks)
    BY <1>1, <1>2, WrittenRow
  <1>4. ~stream'.on /\ stream' \in Streams
    BY <1>2, CountsOfChecks DEF Off, Streams
  <1>5. row.hash = Null /\ ~row.linked /\ (~raced => stream.source = row.source)
    BY <1>1, StreamingFacts DEF PublicationInv, StreamInv
  <1>6. row'.hash # Null => built(checks) /\ row'.hash = stream.source /\ row'.checks = checks
    BY <1>3, <1>5 DEF built
  <1> HIDE DEF status
  <1>7. SubmissionTyped' /\ VaultsTyped'
    BY <1>2, <1>3, <1>4 DEF PublicationInv, SubmissionTyped, VaultsTyped, publishing, onChain, numbered
  <1>8. StreamInv'
    BY <1>4 DEF StreamInv
  <1>9. HashInv'
    BY <1>1, <1>2, <1>3, <1>5, <1>6 DEF PublicationInv, StreamInv, HashInv
  <1>10. PublishableIsChecked'
    BY <1>2, <1>3, <1>5, <1>6 DEF PublishableIsChecked
  <1>11. Before' /\ After' /\ StageInv'
    BY <1>2, <1>3, <1>5 DEF PublicationInv, Before, After, StageInv, publishing, onChain
  <1>12. QED
    BY <1>7, <1>8, <1>9, <1>10, <1>11 DEF PublicationInv

-----------------------------------------------------------------------------
(***************************************************************************)
(* The publication.  Its steps leave the submission's row, its checks and  *)
(* its parameter alone; whatever ends it leaves the rest as it is, too.    *)
(***************************************************************************)
LEMMA PublishKeeps ==
  ASSUME PublicationInv, client' = client, Publish
  PROVE  PublicationInv'
  <1>1. /\ row \in Rows /\ row.hash \in Sources /\ publish' = "gas"
        /\ row' = [row EXCEPT !.linked = TRUE]
        /\ UNCHANGED <<stream, topUp, onChain, secrets, draftDir, liveDir, history>>
    BY DEF Publish, PublicationInv, SubmissionTyped, Rows
  <1>2. /\ row' \in Rows /\ row'.linked /\ row'.hash = row.hash /\ row'.source = row.source
        /\ row'.checks = row.checks
    BY <1>1 DEF Rows
  <1>3. strategy' \in StrategyRecords /\ strategy'.hash = row.hash
        /\ (row.linked => strategy' = strategy)
        /\ (~row.linked => strategy'.vault = Null /\ strategy'.status = "draft")
    BY <1>1 DEF Publish, PublicationInv, After, StrategyRecords, Rows
  <1>4. SubmissionTyped' /\ VaultsTyped'
    BY <1>1, <1>2, <1>3 DEF PublicationInv, SubmissionTyped, VaultsTyped, onChain, numbered
  <1>5. StreamInv' /\ HashInv' /\ PublishableIsChecked'
    BY <1>1, <1>2 DEF PublicationInv, StreamInv, HashInv, PublishableIsChecked, history
  <1>6. Before'
    BY <1>2 DEF Before
  <1>7. After'
    <2>1. CASE row.linked
      BY <1>1, <1>2, <1>3, <2>1 DEF PublicationInv, After, hasVault, anchored, prefunded, onChain, history
    <2>2. CASE ~row.linked
      <3>1. registry' = Null /\ liveDir' = Null /\ secrets'.strategy = Null
        BY <1>1, <2>2 DEF PublicationInv, Before, onChain
      <3>2. QED
        BY <1>1, <1>2, <1>3, <2>2, <3>1, NullIsNothing DEF After
    <2>3. QED
      BY <2>1, <2>2
  <1>8. StageInv'
    BY <1>1 DEF StageInv
  <1>9. QED
    BY <1>4, <1>5, <1>6, <1>7, <1>8 DEF PublicationInv

LEMMA PublishingFacts ==
  ASSUME PublicationInv, publish # "off"
  PROVE  /\ row \in Rows /\ row.linked /\ row.hash \in Sources /\ ~stream.on
         /\ strategy \in StrategyRecords /\ strategy.hash = row.hash
  BY DEF PublicationInv, SubmissionTyped, Before, After, StreamInv, Rows

\* A step, or an end, of the publication that leaves the directories alone.
LEMMA PublishingKeeps ==
  ASSUME PublicationInv, client' = client, publish # "off",
         UNCHANGED <<row, stream, secrets, draftDir, liveDir, history>>,
         topUp' \in Nat, strategy' \in StrategyRecords, strategy'.hash = strategy.hash,
         VaultsTyped', After', StageInv'
  PROVE  PublicationInv'
  <1>1. SubmissionTyped'
    BY DEF PublicationInv, SubmissionTyped
  <1>2. StreamInv' /\ HashInv' /\ PublishableIsChecked'
    BY DEF PublicationInv, StreamInv, HashInv, PublishableIsChecked, history
  <1>3. Before'
    BY PublishingFacts DEF Before
  <1>4. QED
    BY <1>1, <1>2, <1>3 DEF PublicationInv

\* What is known of the vault, the anchor and the rest once there is a strategy.
LEMMA LinkedFacts ==
  ASSUME PublicationInv, publish # "off"
  PROVE  /\ strategy.vault = Null \/ hasVault
         /\ registry # Null => hasVault /\ anchored
         /\ strategy.vault \in {Null} \cup Nat /\ strategy.status \in {"draft", "live"}
         /\ strategy.status = "live" => prefunded /\ anchored /\ liveDir # Null
                                        /\ secrets.strategy = secrets.submission
         /\ numbered \in Nat /\ DOMAIN vaults = 1 .. numbered
         /\ vaults \in [1 .. numbered -> 0 .. Target]
  BY PublishingFacts DEF PublicationInv, After, VaultsTyped, StrategyRecords

LEMMA OneMoreVault ==
  ASSUME PublicationInv, deployed
  PROVE  /\ VaultsTyped' /\ newVault \in DOMAIN vaults' /\ DOMAIN vaults \subseteq DOMAIN vaults'
         /\ newVault \in Nat
         /\ \A v \in DOMAIN vaults : vaults'[v] = vaults[v]
  <1>1. /\ numbered \in Nat /\ DOMAIN vaults = 1 .. numbered /\ vaults \in [1 .. numbered -> 0 .. Target]
        /\ newVault = numbered + 1
    BY DEF PublicationInv, VaultsTyped, newVault, numbered
  <1>2. vaults' = [v \in 1 .. newVault |-> IF v = newVault THEN 0 ELSE vaults[v]]
    BY DEF deployed
  <1> HIDE DEF newVault, numbered
  <1>3. DOMAIN vaults' = 1 .. newVault /\ newVault \in Nat
        /\ vaults' \in [1 .. newVault -> 0 .. Target]
    BY <1>1, <1>2, TargetAssumption
  <1>4. Cardinality(1 .. newVault) = newVault
    <2>1. 1 \in Int /\ newVault \in Int /\ ~(1 > newVault)
      BY <1>1, <1>3
    <2>2. Cardinality(1 .. newVault) = IF 1 > newVault THEN 0 ELSE newVault - 1 + 1
      BY <2>1, FS_Interval, Zenon
    <2>3. QED
      BY <2>1, <2>2
  <1>5. numbered' = newVault
    BY <1>3, <1>4 DEF numbered
  <1>6. VaultsTyped'
    BY <1>3, <1>5 DEF VaultsTyped
  <1>7. \A v \in DOMAIN vaults : v \in 1 .. newVault /\ v # newVault
    BY <1>1, <1>3
  <1>8. QED
    BY <1>1, <1>2, <1>3, <1>6, <1>7

LEMMA DeployVaultKeeps ==
  ASSUME PublicationInv, client' = client, deployVault
  PROVE  PublicationInv'
  <1>1. /\ publish = "vault" /\ publish' = "readVault"
        /\ UNCHANGED <<row, stream, secrets, draftDir, liveDir, history, topUp, registry>>
    BY DEF deployVault, step
  <1>2. CASE strategy.vault = Null
    <2>1. deployed /\ strategy' = [strategy EXCEPT !.vault = newVault]
      BY <1>2 DEF deployVault
    <2>2. /\ strategy' \in StrategyRecords /\ strategy'.vault = newVault
          /\ strategy'.hash = strategy.hash /\ strategy'.status = strategy.status
      BY <1>1, <2>1, PublishingFacts, OneMoreVault DEF StrategyRecords
    <2>3. VaultsTyped' /\ hasVault'
      BY <2>1, <2>2, OneMoreVault DEF hasVault
    <2>4. registry = Null /\ strategy.status = "draft"
      BY <1>1, <1>2, LinkedFacts, NullIsNothing DEF hasVault, prefunded
    <2>5. After' /\ StageInv'
      BY <1>1, <2>2, <2>3, <2>4, PublishingFacts DEF PublicationInv, After, StageInv, history
    <2>6. QED
      BY <1>1, <2>2, <2>3, <2>5, PublishingKeeps DEF PublicationInv, SubmissionTyped
  <1>3. CASE strategy.vault # Null
    <2>1. UNCHANGED <<vaults, strategy>>
      BY <1>3 DEF deployVault
    <2>2. hasVault
      BY <1>1, <1>3, LinkedFacts
    <2>3. VaultsTyped' /\ After' /\ StageInv'
      BY <1>1, <2>1, <2>2 DEF PublicationInv, VaultsTyped, numbered, After, StageInv, hasVault,
                              prefunded, anchored, history
    <2>4. QED
      BY <1>1, <2>1, <2>3, PublishingFacts, PublishingKeeps DEF PublicationInv, SubmissionTyped
  <1>4. QED
    BY <1>2, <1>3

\* A step that reads, and one that ends the publication before it has done more.
LEMMA ReadingKeeps ==
  ASSUME PublicationInv, client' = client, publish # "off",
         UNCHANGED <<row, stream, secrets, draftDir, liveDir, history, strategy, onChain>>,
         topUp' \in Nat, StageInv'
  PROVE  PublicationInv'
  <1>1. VaultsTyped' /\ After'
    BY DEF PublicationInv, VaultsTyped, numbered, After, hasVault, prefunded, anchored, onChain, history
  <1>2. QED
    BY <1>1, PublishingFacts, PublishingKeeps

LEMMA ReadStepsKeep ==
  ASSUME PublicationInv, client' = client, fundGas \/ readVault \/ isStrategyRegistered \/ PublishThrows
  PROVE  PublicationInv'
  <1>1. /\ publish # "off" /\ topUp \in Nat
        /\ UNCHANGED <<row, stream, secrets, draftDir, liveDir, history, strategy, onChain>>
    BY DEF fundGas, readVault, isStrategyRegistered, PublishThrows, step, PublicationInv, SubmissionTyped
  <1>2. CASE fundGas \/ PublishThrows
    <2>1. topUp' \in Nat /\ publish' \in {"vault", "off"}
      BY <1>1, <1>2 DEF fundGas, PublishThrows, step
    <2>2. QED
      BY <1>1, <2>1, ReadingKeeps DEF StageInv
  <1>3. CASE readVault
    <2> DEFINE missing == Target - vaults[strategy.vault]
    <2>1. /\ publish = "readVault" /\ publish' = IF missing > 0 THEN "reserve" ELSE "isRegistered"
          /\ topUp' = IF missing > 0 THEN missing ELSE 0
      BY <1>3 DEF readVault, step
    <2>2. hasVault /\ hasVault' /\ vaults[strategy.vault] \in 0 .. Target
      BY <1>1, <2>1, LinkedFacts DEF PublicationInv, StageInv, hasVault, onChain
    <2>3. topUp' \in Nat
      BY <2>1, <2>2, TargetAssumption
    <2>4. StageInv'
      BY <1>1, <2>1, <2>2, TargetAssumption DEF StageInv, hasVault, prefunded, onChain
    <2>5. QED
      BY <1>1, <2>3, <2>4, ReadingKeeps
  <1>4. CASE isStrategyRegistered
    <2>1. /\ publish = "isRegistered" /\ publish' = IF isRegistered THEN "workflow" ELSE "registry"
          /\ topUp' = topUp
      BY <1>4 DEF isStrategyRegistered, step
    <2>2. StageInv'
      BY <1>1, <2>1, LinkedFacts DEF PublicationInv, StageInv, isRegistered, hasVault, prefunded, anchored, onChain
    <2>3. QED
      BY <1>1, <2>1, <2>2, ReadingKeeps
  <1>5. QED
    BY <1>2, <1>3, <1>4

\* The reserve is topped up to the target, heard of or not.
LEMMA FundingKeeps ==
  ASSUME PublicationInv, client' = client, publish = "reserve", funded,
         publish' \in {"isRegistered", "off"}, topUp' = 0,
         UNCHANGED <<row, stream, secrets, draftDir, liveDir, history, strategy, registry>>
  PROVE  PublicationInv'
  <1>1. /\ hasVault /\ vaults[strategy.vault] + topUp = Target /\ topUp \in Nat
        /\ DOMAIN vaults = 1 .. numbered /\ vaults \in [1 .. numbered -> 0 .. Target] /\ numbered \in Nat
    BY DEF PublicationInv, StageInv, VaultsTyped, SubmissionTyped
  <1>2. vaults' = [vaults EXCEPT ![strategy.vault] = Target]
    <2>1. vaults' = [vaults EXCEPT ![strategy.vault] = vaults[strategy.vault] + topUp]
      BY DEF funded
    <2>2. QED
      BY <1>1, <2>1
  <1> HIDE DEF numbered
  <1>3. /\ DOMAIN vaults' = 1 .. numbered /\ vaults' \in [1 .. numbered -> 0 .. Target]
        /\ vaults'[strategy.vault] = Target
    BY <1>1, <1>2, TargetAssumption DEF hasVault
  <1>4. numbered' = numbered
    BY <1>1, <1>3 DEF numbered
  <1>5. VaultsTyped'
    BY <1>1, <1>3, <1>4 DEF VaultsTyped
  <1>6. hasVault' /\ prefunded'
    BY <1>1, <1>3, TargetAssumption DEF hasVault, prefunded
  <1>7. After' /\ StageInv'
    BY <1>6 DEF PublicationInv, After, StageInv, anchored, history
  <1>8. QED
    BY <1>5, <1>7, PublishingFacts, PublishingKeeps

\* The anchor names the vault and the hash of the row, heard of or not.
LEMMA AnchoringKeeps ==
  ASSUME PublicationInv, client' = client, publish = "registry", registered,
         publish' \in {"workflow", "off"}, topUp' \in Nat,
         UNCHANGED <<row, stream, secrets, draftDir, liveDir, history, strategy, vaults>>
  PROVE  PublicationInv'
  <1>1. prefunded
    BY DEF PublicationInv, StageInv
  <1>2. anchored' /\ prefunded' /\ hasVault'
    BY <1>1 DEF registered, anchored, prefunded, hasVault
  <1>3. After' /\ StageInv'
    BY <1>2 DEF PublicationInv, After, StageInv, history
  <1>4. VaultsTyped'
    BY DEF PublicationInv, VaultsTyped, numbered
  <1>5. QED
    BY <1>3, <1>4, PublishingFacts, PublishingKeeps

LEMMA WriteStepsKeep ==
  ASSUME PublicationInv, client' = client, fundReserve \/ registerStrategy \/ PublishUnheard
  PROVE  PublicationInv'
  <1>1. topUp \in Nat
    BY DEF PublicationInv, SubmissionTyped
  <1>2. CASE fundReserve
    BY <1>2, FundingKeeps DEF fundReserve, step
  <1>3. CASE registerStrategy
    BY <1>1, <1>3, AnchoringKeeps DEF registerStrategy, step
  <1>4. CASE PublishUnheard
    <2>1. /\ publish' = "off" /\ topUp' = 0 /\ 0 \in Nat
          /\ UNCHANGED <<row, stream, secrets, draftDir, liveDir, history, strategy>>
      BY <1>4 DEF PublishUnheard
    <2>2. CASE publish = "vault" /\ strategy.vault = Null /\ deployed /\ UNCHANGED registry
      <3>1. registry = Null /\ strategy.status = "draft"
        BY <2>2, LinkedFacts, NullIsNothing DEF hasVault, prefunded
      <3>2. VaultsTyped' /\ After' /\ StageInv'
        BY <2>1, <2>2, <3>1, OneMoreVault, PublishingFacts DEF PublicationInv, After, StageInv, history
      <3>3. QED
        BY <2>1, <2>2, <3>2, PublishingFacts, PublishingKeeps
    <2>3. CASE publish = "reserve" /\ funded /\ UNCHANGED registry
      BY <2>1, <2>3, FundingKeeps
    <2>4. CASE publish = "registry" /\ registered /\ UNCHANGED vaults
      BY <2>1, <2>4, AnchoringKeeps
    <2>5. QED
      BY <1>4, <2>2, <2>3, <2>4 DEF PublishUnheard
  <1>5. QED
    BY <1>2, <1>3, <1>4

\* The directory that is adopted was built from the hash on the row, unless it
\* was lost; then it is made from the source, which is the same if nothing raced.
LEMMA AdoptWorkflowKeeps ==
  ASSUME PublicationInv, client' = client, adoptWorkflow
  PROVE  PublicationInv'
  <1>1. /\ publish = "workflow" /\ publish' = "live"
        /\ UNCHANGED <<row, stream, history, strategy, topUp, onChain, secrets>>
    BY DEF adoptWorkflow
  <1>2. /\ row \in Rows /\ row.linked /\ row.hash \in Sources /\ ~stream.on /\ strategy \in StrategyRecords
        /\ strategy.hash = row.hash
    BY <1>1, PublishingFacts
  <1>3. /\ draftDir \in {Null, row.hash} /\ (~raced => row.hash = row.source) /\ row.source \in Sources
        /\ liveDir \in Sources \cup {Null} /\ (liveDir # Null /\ ~raced => liveDir = row.hash)
    BY <1>2, NullIsNothing DEF PublicationInv, HashInv, SubmissionTyped, After, Rows
  <1>4. /\ liveDir' \in Sources /\ draftDir' \in {Null, draftDir}
        /\ liveDir' # Null /\ (~raced => liveDir' = row.hash)
        /\ (liveDir # Null => liveDir' = liveDir)
    BY <1>2, <1>3, NullIsNothing DEF adoptWorkflow
  <1>5. SubmissionTyped' /\ VaultsTyped'
    BY <1>1, <1>4 DEF PublicationInv, SubmissionTyped, VaultsTyped, numbered, onChain
  <1>6. StreamInv' /\ HashInv' /\ PublishableIsChecked'
    BY <1>1, <1>2, <1>3, <1>4 DEF PublicationInv, StreamInv, HashInv, PublishableIsChecked, history
  <1>7. After'
    BY <1>1, <1>2, <1>4 DEF PublicationInv, After, hasVault, prefunded, anchored, onChain, history
  <1>8. Before' /\ StageInv'
    BY <1>1, <1>2, <1>4 DEF PublicationInv, Before, StageInv, hasVault, prefunded, anchored, onChain
  <1>9. QED
    BY <1>5, <1>6, <1>7, <1>8 DEF PublicationInv

LEMMA GoLiveKeeps ==
  ASSUME PublicationInv, client' = client, goLive
  PROVE  PublicationInv'
  <1>1. /\ publish = "live" /\ publish' = "off" /\ carrySecrets
        /\ strategy' = [strategy EXCEPT !.status = "live"]
        /\ row' = [row EXCEPT !.status = "live"]
        /\ UNCHANGED <<stream, topUp, onChain, draftDir, liveDir, history>>
    BY DEF goLive
  <1>2. /\ row \in Rows /\ row.linked /\ row.hash \in Sources /\ ~stream.on /\ strategy \in StrategyRecords
        /\ strategy.hash = row.hash
    BY <1>1, PublishingFacts
  <1>3. /\ row' \in Rows /\ row'.linked /\ row'.hash = row.hash /\ row'.source = row.source
        /\ row'.checks = row.checks
    BY <1>1, <1>2 DEF Rows
  <1>4. /\ strategy' \in StrategyRecords /\ strategy'.hash = row.hash /\ strategy'.status = "live"
        /\ strategy'.vault = strategy.vault
    BY <1>1, <1>2 DEF StrategyRecords
  <1>5. /\ secrets' \in [submission : Ciphertexts \cup {Null}, strategy : Ciphertexts \cup {Null}]
        /\ secrets'.strategy = secrets'.submission
    <2>1. secrets.strategy = Null \/ secrets.strategy = secrets.submission
      BY <1>2 DEF PublicationInv, After
    <2>2. secrets \in [submission : Ciphertexts \cup {Null}, strategy : Ciphertexts \cup {Null}]
      BY DEF PublicationInv, SubmissionTyped
    <2>3. QED
      BY <1>1, <2>1, <2>2 DEF carrySecrets
  <1>6. prefunded' /\ anchored' /\ hasVault' /\ liveDir' # Null
    BY <1>1, <1>2, <1>4 DEF PublicationInv, StageInv, hasVault, prefunded, anchored, onChain
  <1>7. SubmissionTyped' /\ VaultsTyped'
    BY <1>1, <1>3, <1>4, <1>5 DEF PublicationInv, SubmissionTyped, VaultsTyped, numbered, onChain
  <1>8. StreamInv' /\ HashInv' /\ PublishableIsChecked'
    BY <1>1, <1>2, <1>3 DEF PublicationInv, StreamInv, HashInv, PublishableIsChecked, history
  <1>9. After'
    BY <1>1, <1>2, <1>3, <1>4, <1>5, <1>6 DEF PublicationInv, After, history
  <1>10. Before' /\ StageInv'
    BY <1>1, <1>3 DEF Before, StageInv
  <1>11. QED
    BY <1>7, <1>8, <1>9, <1>10 DEF PublicationInv

-----------------------------------------------------------------------------
(***************************************************************************)
(* What befalls a submission from outside.                                 *)
(***************************************************************************)
LEMMA CrashKeeps ==
  ASSUME PublicationInv, client' = client, Crash
  PROVE  PublicationInv'
  <1>1. /\ stream' = Off /\ publish' = "off" /\ topUp' = 0
        /\ UNCHANGED <<row, strategy, onChain, secrets, draftDir, liveDir, history>>
    BY DEF Crash
  <1>2. Off \in Streams /\ ~Off.on
    BY CountsOfChecks DEF Off, Streams
  <1>3. SubmissionTyped' /\ VaultsTyped'
    BY <1>1, <1>2 DEF PublicationInv, SubmissionTyped, VaultsTyped, numbered, onChain
  <1>4. StreamInv' /\ HashInv' /\ PublishableIsChecked'
    BY <1>1, <1>2 DEF PublicationInv, StreamInv, HashInv, PublishableIsChecked, history
  <1>5. Before' /\ After' /\ StageInv'
    BY <1>1 DEF PublicationInv, Before, After, StageInv, hasVault, prefunded, anchored, onChain, history
  <1>6. QED
    BY <1>3, <1>4, <1>5 DEF PublicationInv

\* Only another client's submission loses its directory.
LEMMA LoseDraftDirKeeps ==
  ASSUME PublicationInv, client' = client, LoseDraftDir, client = "api"
  PROVE  PublicationInv'
  <1>1. draftDir' = Null /\ UNCHANGED <<row, stream, publishing, history>>
    BY DEF LoseDraftDir
  <1>2. SubmissionTyped' /\ VaultsTyped'
    BY <1>1 DEF PublicationInv, SubmissionTyped, VaultsTyped, numbered, publishing, onChain
  <1>3. StreamInv' /\ HashInv' /\ PublishableIsChecked'
    BY <1>1 DEF PublicationInv, StreamInv, HashInv, PublishableIsChecked, publishing, history
  <1>4. Before' /\ After' /\ StageInv'
    BY <1>1 DEF PublicationInv, Before, After, StageInv, hasVault, prefunded, anchored,
                publishing, onChain, history
  <1>5. QED
    BY <1>2, <1>3, <1>4 DEF PublicationInv

LEMMA PublicationInOneKeeps ==
  ASSUME PublicationInv, client' = client, Publication1
  PROVE  PublicationInv'
  <1>1. /\ publish = "gas" /\ publish' = "off"
        /\ vaults' = [v \in {1} |-> Target]
        /\ registry' = [vault |-> 1, hash |-> strategy.hash]
        /\ strategy' = [strategy EXCEPT !.vault = 1, !.status = "live"]
        /\ row' = [row EXCEPT !.status = "live"]
        /\ carrySecrets
        /\ liveDir' = IF liveDir = Null THEN draftDir ELSE liveDir
        /\ draftDir' = IF liveDir = Null THEN Null ELSE draftDir
        /\ UNCHANGED <<stream, topUp, history>> /\ client = "page"
    BY DEF Publication1, publishedWhole
  <1>2. /\ row \in Rows /\ row.linked /\ row.hash \in Sources /\ ~stream.on /\ strategy \in StrategyRecords
        /\ strategy.hash = row.hash
    BY <1>1, PublishingFacts
  <1>3. /\ row' \in Rows /\ row'.linked /\ row'.hash = row.hash /\ row'.source = row.source
        /\ row'.checks = row.checks
    BY <1>1, <1>2 DEF Rows
  <1>4. /\ strategy' \in StrategyRecords /\ strategy'.hash = row.hash /\ strategy'.status = "live"
        /\ strategy'.vault = 1
    BY <1>1, <1>2 DEF StrategyRecords
  <1>5. /\ secrets' \in [submission : Ciphertexts \cup {Null}, strategy : Ciphertexts \cup {Null}]
        /\ secrets'.strategy = secrets'.submission
    <2>1. secrets.strategy = Null \/ secrets.strategy = secrets.submission
      BY <1>2 DEF PublicationInv, After
    <2>2. secrets \in [submission : Ciphertexts \cup {Null}, strategy : Ciphertexts \cup {Null}]
      BY DEF PublicationInv, SubmissionTyped
    <2>3. QED
      BY <1>1, <2>1, <2>2 DEF carrySecrets
  <1>6. VaultsTyped' /\ prefunded' /\ hasVault'
    <2>1. DOMAIN vaults' = {1} /\ vaults'[1] = Target
      BY <1>1
    <2>2. Cardinality({1}) = 1 /\ {1} = 1 .. 1
      <3>1. {1} = 1 .. 1
        OBVIOUS
      <3>2. QED
        BY <3>1, FS_Singleton
    <2>3. numbered' = 1
      BY <2>1, <2>2 DEF numbered
    <2>4. vaults' \in [1 .. 1 -> 0 .. Target]
      BY <1>1, <2>2, TargetAssumption
    <2>5. QED
      BY <1>4, <2>1, <2>2, <2>3, <2>4, TargetAssumption DEF VaultsTyped, prefunded, hasVault
  <1>7. anchored'
    BY <1>1, <1>2, <1>4 DEF anchored
  <1>8. /\ draftDir \in Sources \cup {Null} /\ liveDir \in Sources \cup {Null}
        /\ draftDir \in {Null, row.hash} /\ (draftDir # Null \/ liveDir # Null)
        /\ (liveDir # Null /\ ~raced => liveDir = row.hash)
    BY <1>1, <1>2, NullIsNothing DEF PublicationInv, SubmissionTyped, HashInv, After
  <1>9. /\ liveDir' \in Sources /\ liveDir' # Null /\ (~raced => liveDir' = row.hash)
        /\ draftDir' \in {Null, draftDir}
    BY <1>1, <1>8, NullIsNothing
  <1>10. SubmissionTyped'
    BY <1>1, <1>3, <1>4, <1>5, <1>8, <1>9 DEF PublicationInv, SubmissionTyped
  <1>11. StreamInv' /\ HashInv' /\ PublishableIsChecked'
    BY <1>1, <1>2, <1>3, <1>8, <1>9 DEF PublicationInv, StreamInv, HashInv, PublishableIsChecked, history
  <1>12. After'
    BY <1>1, <1>2, <1>3, <1>4, <1>5, <1>6, <1>7, <1>9, NullIsNothing DEF After, history
  <1>13. Before' /\ StageInv'
    BY <1>1, <1>3 DEF Before, StageInv
  <1>14. QED
    BY <1>6, <1>10, <1>11, <1>12, <1>13 DEF PublicationInv

LEMMA AnotherKeeps ==
  ASSUME PublicationInv, client' = client, Another
  PROVE  PublicationInv'
  <1>1. PICK s \in Sources : (Create(s) /\ ~row.linked) \/ fresh(s)
    BY DEF Another
  <1>2. /\ row' = created(s) /\ ~stream'.on /\ stream' = stream /\ publish' = "off" /\ topUp' = topUp
    BY <1>1 DEF Another, Create, fresh
  <1>3. row' \in Rows /\ ~row'.linked /\ row'.hash = Null
    BY <1>2, CountsOfChecks DEF created, Rows
  <1>4. /\ strategy' = Null /\ registry' = Null /\ liveDir' = Null /\ secrets'.strategy = Null
        /\ secrets' \in [submission : Ciphertexts \cup {Null}, strategy : Ciphertexts \cup {Null}]
        /\ draftDir' \in {Null, draftDir} /\ vaults' \in {vaults, <<>>}
    <2>1. CASE Create(s) /\ ~row.linked
      BY <2>1 DEF PublicationInv, Before, SubmissionTyped, Create, onChain
    <2>2. CASE fresh(s)
      BY <2>2 DEF fresh
    <2>3. QED
      BY <1>1, <2>1, <2>2
  <1>5. SubmissionTyped'
    BY <1>2, <1>3, <1>4 DEF PublicationInv, SubmissionTyped
  <1>6. VaultsTyped'
    <2>1. CASE vaults' = vaults
      BY <2>1 DEF PublicationInv, VaultsTyped, numbered
    <2>2. CASE vaults' = <<>>
      <3>1. DOMAIN vaults' = {} /\ Cardinality({}) = 0 /\ 1 .. 0 = {}
        BY <2>2, FS_EmptySet
      <3>2. vaults' \in [1 .. 0 -> 0 .. Target]
        BY <2>2, <3>1
      <3>3. QED
        BY <3>1, <3>2 DEF VaultsTyped, numbered
    <2>3. QED
      BY <1>4, <2>1, <2>2
  <1>7. StreamInv' /\ HashInv' /\ PublishableIsChecked'
    BY <1>2, <1>3 DEF StreamInv, HashInv, PublishableIsChecked
  <1>8. Before' /\ After' /\ StageInv'
    BY <1>2, <1>3, <1>4 DEF Before, After, StageInv
  <1>9. QED
    BY <1>5, <1>6, <1>7, <1>8 DEF PublicationInv

LEMMA RewrittenKeeps ==
  ASSUME PublicationInv, client' = client, Rewritten
  PROVE  PublicationInv'
  <1>1. /\ row \in Rows
        /\ row' = [row EXCEPT !.checks = [passed |-> Checks, next |-> "fallback"], !.status = "simulating"]
        /\ ~row.linked /\ UNCHANGED <<stream, publishing, draftDir, history>>
    BY DEF Rewritten, fallbackToInProcess, PublicationInv, SubmissionTyped
  <1>2. [passed |-> Checks, next |-> "fallback"] \in CheckState
    BY CountsOfChecks DEF CheckState
  <1>3. /\ row' \in Rows /\ ~row'.linked /\ row'.hash = row.hash /\ row'.source = row.source
        /\ row'.checks.next = "fallback"
    BY <1>1, <1>2 DEF Rows
  <1>4. SubmissionTyped' /\ VaultsTyped'
    BY <1>1, <1>3 DEF PublicationInv, SubmissionTyped, VaultsTyped, numbered, publishing, onChain
  <1>5. StreamInv' /\ HashInv'
    BY <1>1, <1>3 DEF PublicationInv, StreamInv, HashInv, publishing, history
  <1>6. PublishableIsChecked'
    BY <1>1, <1>3 DEF PublicationInv, HashInv, PublishableIsChecked, history
  <1>7. Before' /\ After' /\ StageInv'
    BY <1>1, <1>3 DEF PublicationInv, Before, After, StageInv, hasVault, prefunded, anchored, publishing, onChain
  <1>8. QED
    BY <1>4, <1>5, <1>6, <1>7 DEF PublicationInv

LEMMA StepKeepsPublicationInv ==
  ASSUME PublicationInv, Moves, client' = client
  PROVE  PublicationInv'
  <1>1. CASE \/ \E s \in Sources : Patch(s)
             \/ \E c \in Ciphertexts \cup {Null} : PostSecrets(c)
             \/ StartCheck \/ Disconnect \/ Publish
    BY <1>1, PatchKeeps, PostSecretsKeeps, StartCheckKeeps, DisconnectKeeps, PublishKeeps
  <1>2. CASE CheckStep
    BY <1>2, CheckKeeps, FinishCheckKeeps, CheckThrowsKeeps DEF CheckStep
  <1>3. CASE PublishStep \/ PublishThrows \/ PublishUnheard
    BY <1>3, DeployVaultKeeps, ReadStepsKeep, WriteStepsKeep, AdoptWorkflowKeeps, GoLiveKeeps DEF PublishStep
  <1>4. CASE Crash \/ (LoseDraftDir /\ client = "api")
    BY <1>4, CrashKeeps, LoseDraftDirKeeps
  <1>5. CASE Publication1 \/ Another \/ Rewritten
    BY <1>5, PublicationInOneKeeps, AnotherKeeps, RewrittenKeeps
  <1>6. CASE UNCHANGED vars
    <2>1. UNCHANGED <<row, stream, strategy, publish, topUp, vaults, registry, secrets,
                      draftDir, liveDir, checked, raced>>
      BY <1>6 DEF vars
    <2>2. SubmissionTyped' /\ VaultsTyped' /\ StreamInv' /\ HashInv' /\ PublishableIsChecked'
      BY <2>1 DEF PublicationInv, SubmissionTyped, VaultsTyped, numbered, StreamInv, HashInv, PublishableIsChecked
    <2>3. Before' /\ After' /\ StageInv'
      BY <2>1 DEF PublicationInv, Before, After, StageInv, hasVault, prefunded, anchored
    <2>4. QED
      BY <2>2, <2>3 DEF PublicationInv
  <1>7. QED
    BY <1>1, <1>2, <1>3, <1>4, <1>5, <1>6 DEF Moves

-----------------------------------------------------------------------------
(***************************************************************************)
(* The page.                                                               *)
(***************************************************************************)

\* The page and its requests stay as they are.
LEMMA PageStands ==
  ASSUME PageInv, UNCHANGED <<client, page, calls>>,
         client = "page" /\ page.reached < 3 => ~stream'.on /\ ~row'.linked
  PROVE  PageInv'
  BY DEF PageInv, PageTyped, Creating

\* The page changes, and nothing else.
LEMMA PageMoves ==
  ASSUME PageInv, client = "page", page' \in Pages, UNCHANGED <<client, calls>>,
         page'.run # "off" => page'.submitted \in Sources /\ page'.reached = 3,
         page'.step <= page'.reached, page'.reached = page.reached, page'.draft = page.draft,
         page.reached < 3 => ~stream'.on /\ ~row'.linked
  PROVE  PageInv'
  BY DEF PageInv, PageTyped, Creating

\* A button is pressed.
LEMMA ButtonPressed ==
  ASSUME PageInv, client = "page", UNCHANGED <<client, page>>, NEW b \in Buttons, NEW r \in Request,
         calls' = [calls EXCEPT ![b] = r], r.kind # "none",
         r.kind \in {"patch", "secrets", "publish"} => page.draft,
         r.kind \in {"create", "patch"} => r.source \in Sources,
         r.kind = "create" => ~page.draft /\ \A c \in Buttons : ~Creating(c),
         page.reached < 3 => ~stream'.on /\ ~row'.linked
  PROVE  PageInv'
  <1>1. /\ calls' \in [Buttons -> Request] /\ \A c \in Buttons : calls'[c] = IF c = b THEN r ELSE calls[c]
    BY DEF PageInv, PageTyped
  <1>2. PageTyped'
    BY <1>1 DEF PageInv, PageTyped
  <1>3. ASSUME NEW c \in Buttons
        PROVE  /\ calls'[c].kind = "none" => calls'[c] = None
               /\ calls'[c].kind \in {"create", "patch"} => calls'[c].source \in Sources
               /\ calls'[c].kind \in {"patch", "secrets", "publish"} => page'.draft
               /\ Creating(c)' => ~page'.draft /\ \A d \in Buttons : Creating(d)' => d = c
    BY <1>1 DEF PageInv, Creating
  <1>4. QED
    BY <1>2, <1>3 DEF PageInv

LEMMA CreatorKeeps ==
  ASSUME PublicationInv, PageInv, UNCHANGED client, Creator
  PROVE  PageInv'
  <1>1. page \in Pages /\ (page.run # "off" => page.submitted \in Sources /\ page.reached = 3)
        /\ page.step <= page.reached
    BY DEF PageInv, PageTyped
  <1>2. ASSUME UNCHANGED vars, client = "page" PROVE page.reached < 3 => ~stream'.on /\ ~row'.linked
    BY <1>2 DEF PageInv, vars
  <1>3. ASSUME NEW s \in Sources, EditSource(s) PROVE PageInv'
    <2>1. page' = [page EXCEPT !.source = s] /\ UNCHANGED <<vars, calls>> /\ client = "page"
      BY <1>3 DEF EditSource, edited, onPage
    <2>2. /\ page' \in Pages /\ page'.run = page.run /\ page'.submitted = page.submitted /\ page'.draft = page.draft
          /\ page'.step = page.step /\ page'.reached = page.reached
      BY <1>1, <2>1 DEF Pages
    <2>3. QED
      BY <1>1, <1>2, <2>1, <2>2, PageMoves
  <1>4. ASSUME NEW v \in Values, EditSecret(v) PROVE PageInv'
    <2>1. page' = [page EXCEPT !.value = v] /\ UNCHANGED <<vars, calls>> /\ client = "page"
      BY <1>4 DEF EditSecret, edited, onPage
    <2>2. /\ page' \in Pages /\ page'.run = page.run /\ page'.submitted = page.submitted /\ page'.draft = page.draft
          /\ page'.step = page.step /\ page'.reached = page.reached
      BY <1>1, <2>1 DEF Pages
    <2>3. QED
      BY <1>1, <1>2, <2>1, <2>2, PageMoves
  <1>5. CASE Encrypt
    <2>1. page' = [page EXCEPT !.cipher = page.value] /\ UNCHANGED <<vars, calls>> /\ client = "page"
      BY <1>5 DEF Encrypt, moved, onPage
    <2>2. /\ page' \in Pages /\ page'.run = page.run /\ page'.submitted = page.submitted /\ page'.draft = page.draft
          /\ page'.step = page.step /\ page'.reached = page.reached
      BY <1>1, <2>1 DEF Pages
    <2>3. QED
      BY <1>1, <1>2, <2>1, <2>2, PageMoves
  <1>6. ASSUME NEW n \in 1 .. 3, Navigate(n) PROVE PageInv'
    <2>1. page' = [page EXCEPT !.step = n] /\ n <= page.reached /\ UNCHANGED <<vars, calls>> /\ client = "page"
      BY <1>6 DEF Navigate, moved, onPage
    <2>2. /\ page' \in Pages /\ page'.run = page.run /\ page'.submitted = page.submitted /\ page'.draft = page.draft
          /\ page'.step = n /\ page'.reached = page.reached
      BY <1>1, <2>1 DEF Pages
    <2>3. QED
      BY <1>1, <1>2, <2>1, <2>2, PageMoves
  <1>7. CASE RunChecks
    <2>1. /\ page' = [page EXCEPT !.run = "patch", !.submitted = page.source, !.checks = Pending]
          /\ page.step = 3 /\ UNCHANGED <<vars, calls>> /\ client = "page"
      BY <1>7 DEF RunChecks, moved, onPage
    <2>2. /\ page' \in Pages /\ page'.submitted \in Sources /\ page'.draft = page.draft
          /\ page'.step = page.step /\ page'.reached = page.reached
      BY <1>1, <2>1, CountsOfChecks DEF Pages
    <2>3. page.reached = 3
      BY <1>1, <2>1 DEF Pages
    <2>4. QED
      BY <1>1, <1>2, <2>1, <2>2, <2>3, PageMoves
  <1>8. ASSUME NEW b \in Buttons, press(b, persistDraft), client = "page", ~creating PROVE PageInv'
    <2>1. calls' = [calls EXCEPT ![b] = persistDraft] /\ UNCHANGED <<vars, page>>
      BY <1>8 DEF press
    <2>2. /\ persistDraft \in Request /\ persistDraft.source \in Sources
          /\ persistDraft.kind = "create" => ~page.draft
          /\ persistDraft.kind \in {"create", "patch"}
          /\ persistDraft.kind = "patch" => page.draft
      BY <1>1 DEF persistDraft, request, None, Request, Pages
    <2>3. \A c \in Buttons : ~Creating(c)
      BY <1>8 DEF creating, Creating
    <2>4. QED
      BY <1>2, <1>8, <2>1, <2>2, <2>3, ButtonPressed
  <1>9. CASE SaveDraft \/ ContinueFromCode
    BY <1>8, <1>9 DEF SaveDraft, ContinueFromCode, onPage, Buttons
  <1>10. CASE ContinueFromSecrets
    <2> DEFINE r == [request("secrets") EXCEPT !.secret = submittableSecrets, !.value = page.value]
    <2>1. calls' = [calls EXCEPT !["busy"] = r] /\ UNCHANGED <<vars, page>> /\ client = "page"
      BY <1>10 DEF ContinueFromSecrets, press, onPage
    <2>2. r \in Request /\ r.kind = "secrets"
      BY <1>1 DEF request, None, Request, submittableSecrets, Pages
    <2> HIDE DEF r
    <2>3. page.draft
      BY <1>1, <1>10 DEF PageInv, ContinueFromSecrets, Pages
    <2>4. QED
      BY <1>2, <2>1, <2>2, <2>3, ButtonPressed DEF Buttons
  <1>11. CASE PressPublish
    <2>1. calls' = [calls EXCEPT !["busy"] = request("publish")] /\ UNCHANGED page /\ client = "page" /\ page.step = 3
      BY <1>11 DEF PressPublish, publishes, onPage
    <2>2. request("publish") \in Request /\ request("publish").kind = "publish"
      BY DEF request, None, Request
    <2>3. ~(page.reached < 3) /\ page.draft
      BY <1>1, <2>1 DEF PageInv, Pages
    <2>4. "busy" \in Buttons
      BY DEF Buttons
    <2> HIDE DEF Buttons
    <2>5. QED
      BY <2>1, <2>2, <2>3, <2>4, ButtonPressed
  <1>12. QED
    BY <1>3, <1>4, <1>5, <1>6, <1>7, <1>9, <1>10, <1>11 DEF Creator

\* A request is over: the button stops spinning.
LEMMA ButtonReleased ==
  ASSUME PageInv, client = "page", UNCHANGED client, NEW b \in Buttons, calls[b].kind # "none",
         calls' = [calls EXCEPT ![b] = None],
         page' \in Pages, page'.run = page.run, page'.submitted = page.submitted,
         page'.step <= page'.reached,
         page' = page \/ (page'.draft /\ page'.reached >= page.reached),
         page'.reached > 1 => page'.draft,
         page.reached < 3 => ~stream'.on /\ ~row'.linked,
         Creating(b) \/ page.draft \/ page' = page
  PROVE  PageInv'
  <1>1. /\ None \in Request /\ None.kind = "none" /\ page \in Pages
        /\ \A c \in Buttons : calls'[c] = IF c = b THEN None ELSE calls[c]
        /\ calls' \in [Buttons -> Request]
    BY DEF PageInv, PageTyped, None, Request
  <1>2. page'.reached \in 1 .. 3 /\ page.reached \in 1 .. 3 /\ page'.reached >= page.reached
    BY <1>1 DEF Pages
  <1>3. PageTyped' /\ (page'.run # "off" => page'.reached = 3)
    BY <1>1, <1>2 DEF PageInv, PageTyped
  <1>4. ASSUME NEW c \in Buttons
        PROVE  /\ calls'[c].kind = "none" => calls'[c] = None
               /\ calls'[c].kind \in {"create", "patch"} => calls'[c].source \in Sources
               /\ calls'[c].kind \in {"patch", "secrets", "publish"} => page'.draft
               /\ Creating(c)' => ~page'.draft /\ \A d \in Buttons : Creating(d)' => d = c
    <2>1. CASE c = b
      BY <1>1, <2>1 DEF Creating
    <2>2. CASE c # b
      <3>1. Creating(c) => ~Creating(b) /\ ~page.draft
        BY <2>2 DEF PageInv
      <3>2. calls'[c] = calls[c]
        BY <1>1, <2>2
      <3>3. \A d \in Buttons : Creating(d)' => Creating(d)
        BY <1>1 DEF Creating
      <3>4. QED
        BY <3>1, <3>2, <3>3 DEF PageInv, Creating
    <2>3. QED
      BY <2>1, <2>2
  <1>5. client' = "page" /\ (page'.reached < 3 => ~stream'.on /\ ~row'.linked)
    BY <1>2
  <1>6. QED
    BY <1>3, <1>4, <1>5 DEF PageInv

LEMMA RequestsInFlight ==
  ASSUME PublicationInv, PageInv, NEW b \in Buttons, calls[b] # None
  PROVE  /\ calls[b].kind # "none" /\ client = "page" /\ page \in Pages
         /\ page.step <= page.reached /\ page.reached \in 1 .. 3
         /\ page.reached > 1 => page.draft
         /\ page.reached < 3 => ~stream.on /\ ~row.linked
  <1>1. page \in Pages /\ client = "page"
    BY DEF PageInv, PageTyped
  <1>2. page.reached \in 1 .. 3
    BY <1>1 DEF Pages
  <1>3. QED
    BY <1>1, <1>2 DEF PageInv

\* A request of the page leaves a submission that is not being checked or
\* published so.
LEMMA HandledKeeps ==
  ASSUME NEW r, handled(r), ~stream.on, ~row.linked
  PROVE  ~stream'.on /\ ~row'.linked
  <1>1. CASE r.kind = "create" /\ Create(r.source)
    BY <1>1 DEF Create, created
  <1>2. ASSUME NEW s, Patch(s) PROVE ~row'.linked /\ stream' = stream
    BY <1>2 DEF Patch
  <1>3. QED
    BY <1>1, <1>2 DEF handled, save, PostSecrets, vars

LEMMA AnswersKeep ==
  ASSUME PublicationInv, PageInv, UNCHANGED client, NEW b \in Buttons, Answer(b)
  PROVE  PageInv'
  <1>1. CASE Fail(b)
    <2>1. /\ calls[b] # None /\ calls' = [calls EXCEPT ![b] = None] /\ UNCHANGED <<vars, page>>
      BY <1>1 DEF Fail
    <2>2. page.reached < 3 => ~stream'.on /\ ~row'.linked
      BY <2>1, RequestsInFlight DEF vars
    <2>3. QED
      BY <2>1, <2>2, RequestsInFlight, ButtonReleased
  <1>2. CASE handled(calls[b]) /\ landed(b)
    <2>1. calls[b].kind \in {"create", "patch", "secrets"}
      BY <1>2 DEF handled
    <2>2. calls[b] # None
      BY <2>1 DEF None
    <2>3. page.reached < 3 => ~stream'.on /\ ~row'.linked
      BY <1>2, <2>2, RequestsInFlight, HandledKeeps
    <2>4. calls' = [calls EXCEPT ![b] = None]
      BY <1>2 DEF landed
    <2>5. CASE UNCHANGED page
      BY <2>2, <2>3, <2>4, <2>5, RequestsInFlight, ButtonReleased
    <2>6. CASE page' = answered(b)
      <3>1. /\ page' \in Pages /\ page'.run = page.run /\ page'.submitted = page.submitted
            /\ page'.draft /\ page'.reached >= page.reached /\ page'.step <= page'.reached
        <4>1. page \in Pages /\ page.step <= page.reached /\ page.reached \in 1 .. 3 /\ page.step \in 0 .. 3
          BY <2>2, RequestsInFlight DEF Pages
        <4>2. CASE b = "saving"
          <5>1. page' = [page EXCEPT !.draft = TRUE]
            BY <2>6, <4>2 DEF answered
          <5>2. /\ page' \in Pages /\ page'.run = page.run /\ page'.submitted = page.submitted
                /\ page'.draft = TRUE /\ page'.reached = page.reached /\ page'.step = page.step
            BY <4>1, <5>1 DEF Pages
          <5>3. QED
            BY <4>1, <5>2
        <4>3. ASSUME NEW n \in {2, 3},
                     page' = [page EXCEPT !.draft = TRUE, !.step = n,
                                          !.reached = IF n > @ THEN n ELSE @]
              PROVE  /\ page' \in Pages /\ page'.run = page.run /\ page'.submitted = page.submitted
                     /\ page'.draft /\ page'.reached >= page.reached /\ page'.step <= page'.reached
          <5> DEFINE r == IF n > page.reached THEN n ELSE page.reached
          <5>1. r \in 1 .. 3 /\ r >= page.reached /\ n <= r /\ n \in 0 .. 3
            BY <4>1
          <5>2. page' = [page EXCEPT !.draft = TRUE, !.step = n, !.reached = r]
            BY <4>1, <4>3 DEF Pages
          <5> HIDE DEF r
          <5>3. /\ page' \in Pages /\ page'.run = page.run /\ page'.submitted = page.submitted
                /\ page'.draft = TRUE /\ page'.reached = r /\ page'.step = n
            BY <4>1, <5>1, <5>2 DEF Pages
          <5>4. QED
            BY <5>1, <5>3
        <4>4. CASE b # "saving"
          BY <2>6, <4>3, <4>4 DEF answered
        <4>5. QED
          BY <4>2, <4>4
      <3>2. Creating(b) \/ page.draft
        BY <2>1 DEF PageInv, Creating
      <3>3. QED
        BY <2>2, <2>3, <2>4, <3>1, <3>2, RequestsInFlight, ButtonReleased
    <2>7. QED
      BY <1>1, <1>2, <2>5, <2>6 DEF Answer, Land, LandUnheard
  <1>3. QED
    BY <1>1, <1>2 DEF Answer, Land, LandUnheard

LEMMA RunKeeps ==
  ASSUME PublicationInv, PageInv, UNCHANGED client, RunStep
  PROVE  PageInv'
  <1>1. page.run # "off" /\ UNCHANGED calls
    BY DEF RunStep, RunSaved, RunStarts, RunFails, Cut, running
  <1>2. /\ client = "page" /\ page \in Pages /\ page.reached = 3 /\ page.submitted \in Sources
        /\ page.step <= page.reached
    BY <1>1 DEF PageInv, PageTyped
  <1>3. PICK to \in {"off", "check", "open"} :
          page' = [page EXCEPT !.run = to, !.submitted = IF to = "off" THEN Null ELSE @]
    BY DEF RunStep, RunSaved, RunStarts, RunFails, Cut, running
  <1>4. /\ page' \in Pages /\ page'.reached = 3 /\ page'.step = page.step /\ page'.draft = page.draft
        /\ page'.run # "off" => page'.submitted \in Sources
    BY <1>2, <1>3 DEF Pages
  <1>5. QED
    BY <1>1, <1>2, <1>4, PageMoves

LEMMA BrowserKeeps ==
  ASSUME PublicationInv, PageInv, UNCHANGED client, Browser
  PROVE  PageInv'
  <1>1. CASE PublishAnswers
    <2>1. /\ calls["busy"].kind = "publish" /\ calls' = [calls EXCEPT !["busy"] = None] /\ UNCHANGED vars
          /\ page' = page \/ page' = [page EXCEPT !.step = 0]
      BY <1>1 DEF PublishAnswers
    <2>2. calls["busy"] # None /\ "busy" \in Buttons
      BY <2>1 DEF None, Buttons
    <2>3. CASE page' = page
      BY <2>1, <2>2, <2>3, RequestsInFlight, ButtonReleased DEF vars
    <2>4. CASE page' = [page EXCEPT !.step = 0]
      <3>1. page \in Pages
        BY <2>2, RequestsInFlight
      <3>2. /\ page' \in Pages /\ page'.run = page.run /\ page'.submitted = page.submitted
            /\ page'.draft = page.draft /\ page'.reached = page.reached /\ page'.step = 0
        BY <2>4, <3>1 DEF Pages
      <3>3. page.draft
        BY <2>1, <2>2 DEF PageInv
      <3>4. page.reached \in 1 .. 3 /\ 0 <= page.reached /\ page.reached >= page.reached
        BY <3>1 DEF Pages
      <3>5. QED
        BY <2>1, <2>2, <3>2, <3>3, <3>4, RequestsInFlight, ButtonReleased DEF vars
    <2>5. QED
      BY <2>1, <2>3, <2>4
  <1>2. QED
    BY <1>1, AnswersKeep, RunKeeps DEF Browser

LEMMA HearKeeps ==
  ASSUME PublicationInv, PublicationInv', PageInv, UNCHANGED client, Hear
  PROVE  PageInv'
  <1>1. stream.on /\ UNCHANGED calls
    BY DEF Hear, CheckStep, Check, FinishCheck, CheckThrows
  <1>2. client = "page" => page.reached = 3
    <2>1. page.reached \in 1 .. 3
      BY DEF PageInv, PageTyped, Pages
    <2>2. QED
      BY <1>1, <2>1 DEF PageInv
  <1>3. page \in Pages /\ (page.run # "off" => page.submitted \in Sources) /\ page.step <= page.reached
    BY DEF PageInv, PageTyped
  <1>4. row'.checks \in CheckState
    BY DEF PublicationInv, SubmissionTyped, Rows
  <1>5. CASE UNCHANGED page
    BY <1>1, <1>2, <1>5, PageStands
  <1>6. CASE page.run = "open" /\ page' \in {heard, ended, [heard EXCEPT !.run = "off", !.submitted = Null]}
    <2>1. client = "page" /\ page.reached = 3
      BY <1>6 DEF PageInv
    <2>2. heard = [page EXCEPT !.checks = row'.checks]
      BY <1>6 DEF heard
    <2>3. /\ heard \in Pages /\ heard.reached = page.reached /\ heard.step = page.step
          /\ heard.draft = page.draft /\ heard.run = page.run /\ heard.submitted = page.submitted
      BY <1>3, <1>4, <2>2 DEF Pages
    <2> DEFINE cut == [heard EXCEPT !.run = "off", !.submitted = Null]
    <2>4. ended = [heard EXCEPT !.checkedSource = page.submitted, !.submitted = Null, !.run = "off"]
      BY <1>6 DEF ended
    <2> HIDE DEF heard
    <2>5. /\ cut \in Pages /\ cut.reached = page.reached /\ cut.step = page.step
          /\ cut.draft = page.draft /\ cut.run = "off"
      BY <2>3 DEF Pages
    <2>6. /\ ended \in Pages /\ ended.reached = page.reached /\ ended.step = page.step
          /\ ended.draft = page.draft /\ ended.run = "off"
      BY <1>3, <1>6, <2>3, <2>4 DEF Pages
    <2> HIDE DEF cut
    <2>7. page' \in {heard, ended, cut}
      BY <1>6 DEF cut
    <2>8. QED
      BY <1>1, <1>3, <2>1, <2>3, <2>5, <2>6, <2>7, PageMoves
  <1>7. QED
    BY <1>5, <1>6 DEF Hear, heard, ended

LEMMA StepKeepsPageInv ==
  ASSUME Inv, PublicationInv', client' = client, [SeedNext]_allSeed
  PROVE  PageInv'
  <1>1. CASE Creator \/ Browser \/ Hear
    BY <1>1, CreatorKeeps, BrowserKeeps, HearKeeps DEF Inv
  <1>2. CASE OtherClient
    BY <1>2, PageStands DEF OtherClient, forApi, behind, flow, Inv
  <1>3. CASE Publication
    <2>1. page.reached \in 1 .. 3
      BY DEF Inv, PageInv, PageTyped, Pages
    <2>2. publish # "off" /\ client = "page" /\ UNCHANGED <<page, calls>>
      BY <1>3 DEF Publication, publishedWhole, PublishThrows
    <2>3. row.linked
      BY <2>2 DEF Inv, PublicationInv, Before
    <2>4. QED
      BY <2>1, <2>2, <2>3, PageStands DEF Inv, PageInv
  <1>4. CASE Reset \/ SeedStep \/ SeedThrows \/ SeedDies
    <2>1. client = "seed" /\ UNCHANGED <<page, calls>>
      BY <1>4 DEF Reset, SeedStep, SeedThrows, SeedDies, given, alone, underWay, on, Boot, PostSubmission,
                  PostCheck, ReadChecks, Passed, FallsBack, CannotPublish, PostPublish, Refused,
                  Publishing, Published, Record, Clear, Copy
    <2>2. QED
      BY <2>1, PageStands DEF Inv
  <1>5. CASE UNCHANGED allSeed
    BY <1>5, PageStands DEF allSeed, all, vars, flow, Inv, PageInv
  <1>6. QED
    BY <1>1, <1>2, <1>3, <1>4, <1>5 DEF SeedNext, CreateNext

-----------------------------------------------------------------------------
(***************************************************************************)
(* The seed.                                                               *)
(***************************************************************************)
LEMMA OthersLeaveTheSeed ==
  ASSUME PageInv, CreateNext
  PROVE  client # "seed"
  <1>1. CASE Creator
    BY <1>1 DEF Creator, EditSource, EditSecret, Encrypt, Navigate, SaveDraft, ContinueFromCode,
                ContinueFromSecrets, RunChecks, PressPublish, onPage, PageInv
  <1>2. CASE Browser
    <2>1. client = "page" \/ (page.run = "off" /\ \A b \in Buttons : calls[b] = None)
      BY DEF PageInv
    <2>2. "busy" \in Buttons /\ None.kind = "none"
      BY DEF Buttons, None
    <2>3. ASSUME NEW b \in Buttons, Answer(b) PROVE calls[b] # None
      BY <2>2, <2>3 DEF Answer, Land, LandUnheard, Fail, handled
    <2>4. QED
      BY <1>2, <2>1, <2>2, <2>3 DEF Browser, PublishAnswers, RunStep, RunSaved, RunStarts, RunFails, Cut
  <1>3. CASE OtherClient \/ Hear \/ Publication
    BY <1>3 DEF OtherClient, forApi, Hear, Publication
  <1>4. QED
    BY <1>1, <1>2, <1>3 DEF CreateNext

LEMMA NotRunningTyped == /\ NotRunning \in SeedRuns /\ NotRunning.at = "off"
                         /\ <<>> \in Seq(Sources) /\ Templates \in Seq(Sources) /\ Templates # <<>>
  <1>1. <<>> \in Seq(Sources) /\ Templates \in Seq(Sources) /\ Templates # <<>>
    BY TemplatesAssumption, EmptySeq
  <1>2. QED
    BY <1>1 DEF NotRunning, SeedRuns, Phases, Seeding

\* A step that only moves the run along.
LEMMA SeedMovesOn ==
  ASSUME SeedInv, client' = client, NEW p \in Phases, seed' = at(p),
         p \in Seeding => seed.at \in Seeding,
         p \in {"publishing", "published"} => seed.at \in {"publish", "publishing"},
         p # "publish",
         client = "seed" => /\ stream'.on => p = "stream"
                            /\ publish' # "off" => p = "publishing"
                            /\ p \in {"check", "stream", "checked"} => ~row'.linked
                            /\ p \in {"publishing", "published"} => row'.linked
  PROVE  SeedInv'
  <1>1. seed \in SeedRuns /\ (seed.at \in Seeding => seed.todo # <<>>)
        /\ (seed.at \in {"publish", "publishing", "published"} => seed.from \in Froms)
    BY DEF SeedInv
  <1>2. /\ seed' \in SeedRuns /\ seed'.at = p
        /\ seed'.todo = seed.todo /\ seed'.from = seed.from
    BY <1>1 DEF at, SeedRuns
  <1>3. QED
    BY <1>1, <1>2 DEF SeedInv

LEMMA ResetKeepsSeedInv ==
  ASSUME Inv, client' = client, Reset
  PROVE  SeedInv'
  <1>1. /\ seed' = [NotRunning EXCEPT !.at = "boot", !.todo = Templates] \/ seed' = NotRunning
        /\ stream' = stream /\ publish' = publish
        /\ client = "seed" /\ seed.at \in {"off", "done"}
    BY DEF Reset, fresh
  <1>2. ~stream'.on /\ publish' = "off"
    BY <1>1 DEF Inv, SeedInv
  <1>3. /\ seed' \in SeedRuns /\ seed'.at \in {"boot", "off"}
        /\ seed'.at = "boot" => seed'.todo = Templates
    BY <1>1, NotRunningTyped DEF SeedRuns, Phases, Seeding
  <1>4. QED
    BY <1>2, <1>3, NotRunningTyped DEF SeedInv, Seeding

LEMMA EndedKeepsSeedInv ==
  ASSUME Inv, client' = client, SeedThrows \/ SeedDies \/ Refused
  PROVE  SeedInv'
  <1>1. CASE SeedThrows \/ SeedDies
    <2>1. seed' = NotRunning
      BY <1>1 DEF SeedThrows, SeedDies, given
    <2>2. publish' = "off" /\ ~stream'.on
      <3>1. PublishThrows \/ PublishUnheard \/ Crash \/ (UNCHANGED vars /\ ~stream.on /\ publish = "off")
        BY <1>1 DEF SeedThrows, SeedDies, threw
      <3>2. client = "seed" /\ (PublishThrows \/ PublishUnheard => publish # "off")
        BY <1>1 DEF SeedThrows, SeedDies, given, underWay, PublishThrows, PublishUnheard
      <3>3. publish # "off" => ~stream.on
        BY <3>2 DEF Inv, SeedInv
      <3>4. QED
        BY <3>1, <3>2, <3>3 DEF PublishThrows, PublishUnheard, Crash, Off, vars
    <2>3. QED
      BY <2>1, <2>2, NotRunningTyped DEF SeedInv, Seeding
  <1>2. CASE Refused
    <2>1. seed' = NotRunning /\ seed.at = "publish" /\ client = "seed" /\ UNCHANGED <<stream, publish>>
      BY <1>2 DEF Refused, on, vars
    <2>2. ~stream'.on /\ publish' = "off"
      BY <2>1 DEF Inv, SeedInv
    <2>3. QED
      BY <2>1, <2>2, NotRunningTyped DEF SeedInv, Seeding
  <1>3. QED
    BY <1>1, <1>2

LEMMA DecidedKeepsSeedInv ==
  ASSUME Inv, client' = client, Passed \/ FallsBack
  PROVE  SeedInv'
  <1>1. PICK from \in Froms : seed' = decided(from)
    BY DEF Passed, FallsBack, on, Froms
  <1>2. seed \in SeedRuns /\ seed.at = "checked" /\ client = "seed" /\ seed.todo # <<>>
    BY DEF Passed, FallsBack, on, Inv, SeedInv, Seeding
  <1>3. /\ seed' \in SeedRuns /\ seed'.at = "publish" /\ seed'.todo = seed.todo /\ seed'.from = from
    BY <1>1, <1>2 DEF decided, SeedRuns, Phases, Seeding
  <1>4. UNCHANGED <<stream, publish>> /\ row'.linked = row.linked
    <2>1. row \in Rows
      BY DEF Inv, PublicationInv, SubmissionTyped
    <2>2. CASE Passed
      BY <2>2 DEF Passed, vars
    <2>3. CASE FallsBack
      <3>1. /\ row' = [row EXCEPT !.checks = [passed |-> Checks, next |-> "fallback"],
                                  !.status = "simulating"]
            /\ UNCHANGED <<stream, publish>>
        BY <2>3 DEF FallsBack, fallbackToInProcess, publishing
      <3>2. QED
        BY <2>1, <3>1 DEF Rows
    <2>4. QED
      BY <2>2, <2>3
  <1>5. ~stream.on /\ publish = "off" /\ ~row.linked
    BY <1>2 DEF Inv, SeedInv
  <1>6. QED
    BY <1>2, <1>3, <1>4, <1>5 DEF SeedInv

LEMMA Claimed ==
  ASSUME Inv, client = "seed", seed.at = "published"
  PROVE  [source |-> Head(seed.todo), hash |-> strategy.hash, from |-> seed.from] \in Claims
  <1>1. seed.todo \in Seq(Sources) /\ seed.todo # <<>> /\ seed.from \in Froms /\ row.linked
    BY DEF Inv, SeedInv, SeedRuns, Seeding
  <1>2. Head(seed.todo) \in Sources
    BY <1>1, TemplatesTaken
  <1>3. strategy.hash \in Sources
    BY <1>1 DEF Inv, PublicationInv, After, StrategyRecords
  <1>4. QED
    BY <1>1, <1>2, <1>3 DEF Claims

LEMMA OnwardsKeepsSeedInv ==
  ASSUME Inv, client' = client, CannotPublish \/ Published
  PROVE  /\ SeedInv'
         /\ seed'.at = IF Len(seed.todo) = 1 THEN "record" ELSE "create"
         /\ seed'.todo = Tail(seed.todo)
         /\ CannotPublish => /\ seed'.failed = seed.failed \cup {Head(seed.todo)}
                             /\ seed'.published = seed.published
         /\ ~CannotPublish =>
              /\ seed'.failed = seed.failed
              /\ seed'.published = seed.published \cup
                   {[source |-> Head(seed.todo), hash |-> strategy.hash, from |-> seed.from]}
  <1>1. /\ UNCHANGED <<row, stream, publish>> /\ client = "seed"
        /\ CannotPublish => seed.at = "checked" /\ seed' = [onwards EXCEPT !.failed = @ \cup {Head(seed.todo)}]
        /\ ~CannotPublish => /\ seed.at = "published"
                             /\ seed' = [onwards EXCEPT !.published = @ \cup
                                  {[source |-> Head(seed.todo), hash |-> strategy.hash, from |-> seed.from]}]
    BY DEF CannotPublish, Published, on, vars
  <1>2. /\ seed \in SeedRuns /\ seed.todo \in Seq(Sources) /\ seed.todo # <<>>
        /\ ~stream.on /\ publish = "off"
    BY <1>1 DEF Inv, SeedInv, SeedRuns, Seeding
  <1>3. /\ Head(seed.todo) \in Sources /\ Tail(seed.todo) \in Seq(Sources)
        /\ Len(seed.todo) # 1 => Tail(seed.todo) # <<>>
    BY <1>2, TemplatesTaken
  <1>4. /\ onwards \in SeedRuns /\ onwards.todo = Tail(seed.todo)
        /\ onwards.at = IF Len(seed.todo) = 1 THEN "record" ELSE "create"
        /\ onwards.failed = seed.failed /\ onwards.published = seed.published
    BY <1>2, <1>3 DEF onwards, SeedRuns, Phases, Seeding
  <1> HIDE DEF onwards
  <1> DEFINE claim == [source |-> Head(seed.todo), hash |-> strategy.hash, from |-> seed.from]
  <1>5. ~CannotPublish => claim \in Claims
    BY <1>1, Claimed
  <1>6. CASE CannotPublish
    <2>1. /\ seed' \in SeedRuns /\ seed'.todo = onwards.todo /\ seed'.at = onwards.at
          /\ seed'.failed = onwards.failed \cup {Head(seed.todo)} /\ seed'.published = onwards.published
      BY <1>1, <1>3, <1>4, <1>6 DEF SeedRuns
    <2>2. QED
      BY <1>1, <1>2, <1>3, <1>4, <1>6, <2>1 DEF SeedInv, Seeding
  <1>7. CASE ~CannotPublish
    <2>1. seed' = [onwards EXCEPT !.published = @ \cup {claim}] /\ claim \in Claims
      BY <1>1, <1>5, <1>7
    <2> HIDE DEF claim
    <2>2. /\ seed' \in SeedRuns /\ seed'.todo = onwards.todo /\ seed'.at = onwards.at
          /\ seed'.failed = onwards.failed /\ seed'.published = onwards.published \cup {claim}
      BY <1>4, <2>1 DEF SeedRuns
    <2>3. SeedInv'
      BY <1>1, <1>2, <1>3, <1>4, <2>2 DEF SeedInv, Seeding
    <2>4. QED
      BY <1>4, <1>7, <2>2, <2>3 DEF claim
  <1>8. QED
    BY <1>6, <1>7

LEMMA PublishStepLinked ==
  ASSUME PublicationInv, PublishStep
  PROVE  row'.linked /\ row'.checks = row.checks /\ row'.source = row.source /\ row'.hash = row.hash
         /\ UNCHANGED stream
  <1>1. publish # "off" /\ row \in Rows /\ row.linked
    BY DEF PublicationInv, SubmissionTyped, Before, PublishStep, fundGas, deployVault, readVault, fundReserve,
           isStrategyRegistered, registerStrategy, adoptWorkflow, goLive, step
  <1>2. row' = row \/ row' = [row EXCEPT !.status = "live"]
    BY DEF PublishStep, fundGas, deployVault, readVault, fundReserve, isStrategyRegistered,
           registerStrategy, adoptWorkflow, goLive, step
  <1>3. UNCHANGED stream
    BY DEF PublishStep, fundGas, deployVault, readVault, fundReserve, isStrategyRegistered,
           registerStrategy, adoptWorkflow, goLive, step
  <1>4. QED
    BY <1>1, <1>2, <1>3 DEF Rows

LEMMA StepKeepsSeedInv ==
  ASSUME Inv, [SeedNext]_allSeed
  PROVE  SeedInv'
  <1>1. client' = client /\ row \in Rows
    BY StepMoves DEF Inv, PublicationInv, SubmissionTyped
  <1>2. CASE CreateNext /\ UNCHANGED seedVars
    BY <1>1, <1>2, OthersLeaveTheSeed DEF Inv, SeedInv, seedVars
  <1>3. CASE Reset
    BY <1>1, <1>3, ResetKeepsSeedInv
  <1>4. CASE SeedThrows \/ SeedDies \/ Refused
    BY <1>1, <1>4, EndedKeepsSeedInv
  <1>5. CASE Passed \/ FallsBack
    BY <1>1, <1>5, DecidedKeepsSeedInv
  <1>6. CASE CannotPublish \/ Published
    BY <1>1, <1>6, OnwardsKeepsSeedInv
  <1>7. CASE Boot \/ Record \/ Clear \/ Copy
    <2>1. PICK p \in {"create", "clear", "copy", "done"} :
            seed' = at(p) /\ (p = "create" => seed.at = "boot") /\ seed.at \notin {"stream", "publishing"}
      BY <1>7 DEF Boot, Record, Clear, Copy, on
    <2>2. UNCHANGED <<row, stream, publish>>
      BY <1>7 DEF Boot, Record, Clear, Copy, vars
    <2>3. client = "seed" => ~stream.on /\ publish = "off"
      BY <2>1 DEF Inv, SeedInv
    <2>4. QED
      BY <1>1, <2>1, <2>2, <2>3, SeedMovesOn DEF Inv, Phases, Seeding
  <1>8. CASE PostSubmission
    <2>1. /\ seed' = at("check") /\ seed.at = "create" /\ ~row'.linked /\ UNCHANGED <<stream, publish>>
      BY <1>8 DEF PostSubmission, on, fresh, created
    <2>2. client = "seed" => ~stream.on /\ publish = "off"
      BY <2>1 DEF Inv, SeedInv
    <2>3. QED
      BY <1>1, <2>1, <2>2, SeedMovesOn DEF Inv, Phases, Seeding
  <1>9. CASE PostCheck
    <2>1. /\ seed' = at("stream") /\ seed.at = "check" /\ UNCHANGED publish
          /\ row' = [row EXCEPT !.checks = Pending, !.hash = Null, !.status = "checking"]
      BY <1>9 DEF PostCheck, on, StartCheck, publishing
    <2>2. row'.linked = row.linked
      BY <1>1, <2>1 DEF Rows
    <2>3. client = "seed" => publish = "off" /\ ~row.linked
      BY <2>1 DEF Inv, SeedInv
    <2>4. QED
      BY <1>1, <2>1, <2>2, <2>3, SeedMovesOn DEF Inv, Phases, Seeding
  <1>10. CASE ReadChecks
    <2>1. /\ seed' = at(IF stream'.on THEN "stream" ELSE "checked") /\ seed.at = "stream" /\ CheckStep
      BY <1>10 DEF ReadChecks, on
    <2>2. UNCHANGED publish /\ row'.linked = row.linked
      <3>1. PICK checks, hash, status : row' = written(checks, hash, status)
        BY <2>1 DEF CheckStep, Check, FinishCheck, CheckThrows
      <3>2. row'.linked = row.linked
        BY <1>1, <3>1 DEF written, Rows
      <3>3. QED
        BY <2>1, <3>2 DEF CheckStep, Check, FinishCheck, CheckThrows, publishing
    <2>3. client = "seed" => publish = "off" /\ ~row.linked
      BY <2>1 DEF Inv, SeedInv
    <2>4. CASE stream'.on
      BY <1>1, <2>1, <2>2, <2>3, <2>4, SeedMovesOn DEF Inv, Phases, Seeding
    <2>5. CASE ~stream'.on
      BY <1>1, <2>1, <2>2, <2>3, <2>5, SeedMovesOn DEF Inv, Phases, Seeding
    <2>6. QED
      BY <2>4, <2>5
  <1>11. CASE PostPublish
    <2>1. /\ seed' = at("publishing") /\ seed.at = "publish" /\ UNCHANGED stream
          /\ row' = [row EXCEPT !.linked = TRUE]
      BY <1>11 DEF PostPublish, on, Publish
    <2>2. row'.linked
      BY <1>1, <2>1 DEF Rows
    <2>3. client = "seed" => ~stream.on
      BY <2>1 DEF Inv, SeedInv
    <2>4. QED
      BY <1>1, <2>1, <2>2, <2>3, SeedMovesOn DEF Inv, Phases, Seeding
  <1>12. CASE Publishing
    <2>1. /\ seed' = at(IF publish' = "off" THEN "published" ELSE "publishing")
          /\ seed.at = "publishing" /\ PublishStep
      BY <1>12 DEF Publishing, on
    <2>2. row'.linked /\ UNCHANGED stream
      BY <2>1, PublishStepLinked DEF Inv
    <2>3. client = "seed" => ~stream.on
      BY <2>1 DEF Inv, SeedInv
    <2>4. CASE publish' = "off"
      BY <1>1, <2>1, <2>2, <2>3, <2>4, SeedMovesOn DEF Inv, Phases, Seeding
    <2>5. CASE publish' # "off"
      BY <1>1, <2>1, <2>2, <2>3, <2>5, SeedMovesOn DEF Inv, Phases, Seeding
    <2>6. QED
      BY <2>4, <2>5
  <1>13. CASE UNCHANGED allSeed
    BY <1>13 DEF allSeed, all, vars, seedVars, Inv, SeedInv
  <1>14. QED
    BY <1>2, <1>3, <1>4, <1>5, <1>6, <1>7, <1>8, <1>9, <1>10, <1>11, <1>12, <1>13 DEF SeedNext, SeedStep

-----------------------------------------------------------------------------
(***************************************************************************)
(* What holds of every behaviour.                                          *)
(***************************************************************************)
LEMMA InitIsFine ==
  ASSUME SeedInit
  PROVE  Inv
  <1>1. /\ Init /\ client \in Clients /\ calls = [b \in Buttons |-> None]
        /\ page = [step |-> 1, reached |-> 1, source |-> row.source, value |-> Null,
                   cipher |-> Null, draft |-> FALSE, checks |-> Pending,
                   checkedSource |-> Null, run |-> "off", submitted |-> Null]
        /\ seed = NotRunning
    BY DEF SeedInit, CreateInit
  <1>2. PICK s \in Sources : row = created(s)
    BY <1>1 DEF Init
  <1>3. row \in Rows /\ ~row.linked /\ row.hash = Null /\ row.source \in Sources
    BY <1>2, CountsOfChecks DEF created, Rows
  <1>4. stream \in Streams /\ ~stream.on
    BY <1>1, CountsOfChecks DEF Init, Off, Streams
  <1>5. /\ strategy = Null /\ publish = "off" /\ topUp = 0 /\ vaults = <<>> /\ registry = Null
        /\ secrets = [submission |-> Null, strategy |-> Null] /\ draftDir = Null /\ liveDir = Null
    BY <1>1 DEF Init
  <1>6. SubmissionTyped
    BY <1>3, <1>4, <1>5 DEF SubmissionTyped
  <1>7. VaultsTyped
    <2>1. DOMAIN vaults = {} /\ Cardinality({}) = 0 /\ 1 .. 0 = {}
      BY <1>5, FS_EmptySet
    <2>2. vaults \in [1 .. 0 -> 0 .. Target]
      BY <1>5, <2>1
    <2>3. QED
      BY <2>1, <2>2 DEF VaultsTyped, numbered
  <1>8. PublicationInv
    BY <1>3, <1>4, <1>5, <1>6, <1>7
       DEF PublicationInv, StreamInv, HashInv, PublishableIsChecked, Before, After, StageInv
  <1>9. None \in Request /\ None.kind = "none"
    BY NullIsNothing DEF None, Request
  <1>10. PageInv
    <2>1. page \in Pages
      BY <1>1, <1>3, CountsOfChecks DEF Pages
    <2>2. page.run = "off" /\ page.step = 1 /\ page.reached = 1
      BY <1>1
    <2>3. calls \in [Buttons -> Request] /\ \A b \in Buttons : calls[b] = None
      BY <1>1, <1>9
    <2>4. QED
      BY <1>3, <1>4, <1>9, <2>1, <2>2, <2>3 DEF PageInv, PageTyped, Creating
  <1>11. SeedInv
    BY <1>1, <1>4, <1>5, NotRunningTyped DEF SeedInv, Seeding
  <1>12. QED
    BY <1>8, <1>10, <1>11 DEF Inv

LEMMA StepKeepsInv ==
  ASSUME Inv, [SeedNext]_allSeed
  PROVE  Inv'
  <1>1. Moves /\ client' = client
    BY StepMoves
  <1>2. PublicationInv'
    BY <1>1, StepKeepsPublicationInv DEF Inv
  <1>3. PageInv'
    BY <1>1, <1>2, StepKeepsPageInv
  <1>4. SeedInv'
    BY StepKeepsSeedInv
  <1>5. QED
    BY <1>2, <1>3, <1>4 DEF Inv

LEMMA SubmissionInvariant == SeedSpec => []Inv
  <1>1. SeedInit => Inv
    BY InitIsFine
  <1>2. Inv /\ [SeedNext]_allSeed => Inv'
    BY StepKeepsInv
  <1>3. QED
    BY <1>1, <1>2, PTL DEF SeedSpec

(***************************************************************************)
(* A row that may publish carries the hash of its own source, and that     *)
(* source is the one whose checks all passed, or the row says that one of  *)
(* them was the seed's fallback: however often checks were started, cut    *)
(* off or threw, whichever saves crossed them, and whoever the client was  *)
(* (routes/submissions.ts and pipeline.ts).                                *)
(***************************************************************************)
THEOREM OnlyTheCheckedIsPublishable == SeedSpec => []PublishableIsChecked
  <1>1. Inv => PublishableIsChecked
    BY DEF Inv, PublicationInv
  <1>2. QED
    BY <1>1, SubmissionInvariant, PTL

(***************************************************************************)
(* No reserve passes its target, whatever a publication that was cut off   *)
(* had already moved and however often it is taken up again (publish.ts,   *)
(* fundReserve).                                                           *)
(***************************************************************************)
THEOREM TheReserveIsFundedOnce == SeedSpec => []ReserveFundedOnce
  <1>1. ASSUME Inv PROVE ReserveFundedOnce
    <2>1. /\ numbered \in Nat /\ DOMAIN vaults = 1 .. numbered
          /\ vaults \in [1 .. numbered -> 0 .. Target]
      BY <1>1 DEF Inv, PublicationInv, VaultsTyped
    <2>2. \A v \in DOMAIN vaults : vaults[v] \in 0 .. Target
      BY <2>1
    <2>3. QED
      BY <2>2, TargetAssumption DEF ReserveFundedOnce
  <1>2. QED
    BY <1>1, SubmissionInvariant, PTL

(***************************************************************************)
(* A live strategy is whole: a prefunded vault, an anchor that names it    *)
(* and the hash on the row, a directory, which builds that hash if no edit *)
(* crossed the checks, and its parameters, however many calls it took to   *)
(* get there (publish.ts).                                                 *)
(***************************************************************************)
THEOREM TheLiveAreWhole == SeedSpec => []LiveIsWhole
  <1>1. ASSUME Inv, isLive PROVE liveIsComplete /\ runsTheAnchoredBinary
    <2>1. strategy # Null /\ strategy.status = "live"
      BY <1>1 DEF isLive
    <2>2. row.linked
      BY <1>1, <2>1 DEF Inv, PublicationInv, Before
    <2>3. /\ prefunded /\ anchored /\ liveDir # Null /\ secrets.strategy = secrets.submission
          /\ strategy.hash = row.hash
          /\ liveDir # Null /\ ~raced => liveDir = row.hash
      BY <1>1, <2>1, <2>2 DEF Inv, PublicationInv, After
    <2>4. /\ VaultsTyped
      BY <1>1 DEF Inv, PublicationInv
    <2>5. strategy.vault # Null
      <3>1. strategy.vault \in Int
        BY <2>3, <2>4 DEF prefunded, hasVault, VaultsTyped
      <3>2. QED
        BY <3>1, NullIsNothing
    <2>6. registry.hash = strategy.hash
      BY <2>3 DEF anchored
    <2>7. liveIsComplete
      BY <2>3, <2>5 DEF liveIsComplete, prefunded, anchored
    <2>8. runsTheAnchoredBinary
      BY <2>3, <2>6 DEF runsTheAnchoredBinary
    <2>9. QED
      BY <2>7, <2>8
  <1>2. Inv => LiveIsWhole
    BY <1>1 DEF LiveIsWhole, liveIsComplete, runsTheAnchoredBinary
  <1>3. QED
    BY <1>2, SubmissionInvariant, PTL

(***************************************************************************)
(* Once a submission has a strategy, no edit and no check stream rewrites  *)
(* what was published: its source, checks and hash stay what they were for *)
(* as long as the submission is the one at hand (submissions.ts,           *)
(* requireEditable).                                                       *)
(***************************************************************************)
LEMMA LinkedStands ==
  ASSUME PublicationInv, row.linked, Moves
  PROVE  \/ row' = created(row'.source)
         \/ row'.source = row.source /\ row'.checks = row.checks /\ row'.hash = row.hash
  <1>1. row \in Rows /\ ~stream.on
    BY DEF PublicationInv, SubmissionTyped, StreamInv, After
  <1>2. CASE \/ \E s \in Sources : Patch(s)
             \/ \E c \in Ciphertexts \cup {Null} : PostSecrets(c)
             \/ StartCheck \/ Rewritten \/ CheckStep \/ Disconnect
    BY <1>1, <1>2 DEF Patch, PostSecrets, StartCheck, requireEditable, Rewritten, CheckStep, Check,
                      FinishCheck, CheckThrows, Disconnect
  <1>3. CASE Publish \/ PublishStep \/ Publication1
    <2>1. \/ row' = row
          \/ row' = [row EXCEPT !.linked = TRUE] \/ row' = [row EXCEPT !.status = "live"]
      BY <1>3 DEF Publish, Publication1, publishedWhole, PublishStep, fundGas, deployVault, readVault,
                  fundReserve, isStrategyRegistered, registerStrategy, adoptWorkflow, goLive, step
    <2>2. QED
      BY <1>1, <2>1 DEF Rows
  <1>4. CASE PublishThrows \/ PublishUnheard \/ Crash \/ LoseDraftDir \/ UNCHANGED vars
    BY <1>4 DEF PublishThrows, PublishUnheard, Crash, LoseDraftDir, vars
  <1>5. CASE Another
    <2>1. PICK s \in Sources : row' = created(s)
      BY <1>5 DEF Another, Create, fresh
    <2>2. row'.source = s
      BY <2>1 DEF created
    <2>3. QED
      BY <2>1, <2>2
  <1>6. QED
    BY <1>2, <1>3, <1>4, <1>5 DEF Moves

(***************************************************************************)
(* What is published is frozen: no edit and no check stream still running  *)
(* rewrites the source, the checks or the hash of a submission that has a  *)
(* strategy (submissions.ts, requireEditable).                             *)
(***************************************************************************)
THEOREM ThePublishedIsFrozen == SeedSpec => PublishedIsFrozen
  <1>1. ASSUME Inv, [SeedNext]_allSeed
        PROVE  [row.linked /\ row' # created(row'.source) =>
                  /\ row'.source = row.source
                  /\ row'.checks = row.checks
                  /\ row'.hash = row.hash]_vars
    BY <1>1, StepMoves, LinkedStands DEF Inv
  <1>2. QED
    BY <1>1, SubmissionInvariant, PTL DEF SeedSpec, PublishedIsFrozen

-----------------------------------------------------------------------------
(***************************************************************************)
(* What the page publishes is what it shows.  Its run is the stream it     *)
(* reads, the stream is of what it submitted, and what it heard last is    *)
(* what the row still says.                                                *)
(***************************************************************************)
readsItsStream == page.run = "open" <=> stream.on /\ ~stream.aborted
knowsNothingYet == page.run \in {"patch", "check"} => page.checks = Pending
runsTheSubmitted == page.run \in {"check", "open"} /\ ~crossed => row.source = page.submitted

publishable(checks) == allPassed(checks) /\ allPassed(row.checks) /\ row.hash # Null
heardOfTheRow ==
  page.run = "off" /\ ~severed /\ ~crossed /\ publishable(page.checks) => row.source = page.checkedSource

publishedAsShown == row.linked /\ ~severed /\ ~crossed => strategy.source = shown

ShowInv ==
  client = "page" =>
    /\ readsItsStream /\ knowsNothingYet /\ runsTheSubmitted /\ heardOfTheRow /\ publishedAsShown

\* What the page knows of the checks.
known == <<page.run, page.checks, page.submitted, page.checkedSource>>

LEMMA NothingNewIsKnown ==
  ASSUME ShowInv, client' = client, UNCHANGED <<known, vars, severed, crossed, shown>>
  PROVE  ShowInv'
  BY DEF ShowInv, known, vars, readsItsStream, knowsNothingYet, runsTheSubmitted, heardOfTheRow,
         publishable, publishedAsShown

LEMMA UnlinkedIsNothing ==
  ASSUME PublicationInv
  PROVE  /\ row \in Rows /\ stream \in Streams
         /\ stream.on => row.hash = Null /\ ~row.linked
  BY DEF PublicationInv, SubmissionTyped, StreamInv, Before, After

LEMMA CreatorKeepsShowInv ==
  ASSUME Inv, ShowInv, client' = client, Creator
  PROVE  ShowInv'
  <1>1. page \in Pages /\ client = "page"
    BY DEF Inv, PageInv, PageTyped, Creator, EditSource, EditSecret, Encrypt, Navigate, SaveDraft,
           ContinueFromCode, ContinueFromSecrets, RunChecks, PressPublish, onPage
  <1>2. CASE Creator /\ ~RunChecks /\ ~PressPublish
    <2>1. UNCHANGED <<vars, severed, crossed, shown>>
      BY <1>2 DEF Creator, EditSource, EditSecret, Encrypt, Navigate, SaveDraft, ContinueFromCode,
                  ContinueFromSecrets, edited, moved, press
    <2>2. \/ page' = page
          \/ \E s : page' = [page EXCEPT !.source = s]
          \/ \E v : page' = [page EXCEPT !.value = v]
          \/ \E c : page' = [page EXCEPT !.cipher = c]
          \/ \E n : page' = [page EXCEPT !.step = n]
      BY <1>2 DEF Creator, EditSource, EditSecret, Encrypt, Navigate, SaveDraft, ContinueFromCode,
                  ContinueFromSecrets, edited, moved, press
    <2>3. UNCHANGED known
      BY <1>1, <2>2 DEF known, Pages
    <2>4. QED
      BY <2>1, <2>3, NothingNewIsKnown
  <1>3. CASE RunChecks
    <2>1. /\ page' = [page EXCEPT !.run = "patch", !.submitted = page.source, !.checks = Pending]
          /\ page.run = "off" /\ UNCHANGED <<vars, severed, crossed, shown>>
      BY <1>3 DEF RunChecks, moved, streaming
    <2>2. page'.run = "patch" /\ page'.checks = Pending
      BY <1>1, <2>1 DEF Pages
    <2>3. QED
      BY <1>1, <2>1, <2>2 DEF ShowInv, vars, readsItsStream, knowsNothingYet, runsTheSubmitted,
                              heardOfTheRow, publishedAsShown
  <1>4. CASE PressPublish
    <2>1. /\ page.run = "off" /\ UNCHANGED <<page, severed, crossed>> /\ allPassed(page.checks)
          /\ page.checkedSource = Null \/ page.checkedSource = page.source
      BY <1>4 DEF PressPublish, publishes, streaming, checksStale
    <2>2. CASE Publish /\ shown' = IF row.linked THEN shown ELSE page.source
      <3>1. row' = [row EXCEPT !.linked = TRUE] /\ allPassed(row.checks) /\ row.hash # Null /\ stream' = stream
        BY <2>2 DEF Publish
      <3>2. row'.source = row.source /\ row'.checks = row.checks /\ row'.hash = row.hash
        BY <3>1, UnlinkedIsNothing DEF Inv, Rows
      <3>3. readsItsStream' /\ knowsNothingYet' /\ runsTheSubmitted' /\ heardOfTheRow'
        BY <1>1, <2>1, <3>1, <3>2 DEF ShowInv, readsItsStream, knowsNothingYet, runsTheSubmitted,
                                      heardOfTheRow, publishable
      <3>4. publishedAsShown'
        <4>1. CASE row.linked
          BY <1>1, <2>1, <2>2, <4>1 DEF Publish, ShowInv, publishedAsShown
        <4>2. CASE ~row.linked
          <5>1. strategy'.source = row.source /\ shown' = page.source
            BY <2>2, <4>2 DEF Publish
          <5>2. ~severed /\ ~crossed => row.source = page.checkedSource
            BY <1>1, <2>1, <3>1 DEF ShowInv, heardOfTheRow, publishable
          <5>3. row.source # Null
            BY UnlinkedIsNothing, NullIsNothing DEF Inv, Rows
          <5>4. QED
            BY <2>1, <5>1, <5>2, <5>3 DEF publishedAsShown
        <4>3. QED
          BY <4>1, <4>2
      <3>5. QED
        BY <3>3, <3>4 DEF ShowInv
    <2>3. CASE UNCHANGED <<vars, shown>>
      BY <2>1, <2>3, NothingNewIsKnown DEF known
    <2>4. QED
      BY <1>4, <2>2, <2>3 DEF PressPublish, publishes
  <1>5. QED
    BY <1>2, <1>3, <1>4

\* An edit lands: what the checks found is gone from the row.
LEMMA SavedUnchecked ==
  ASSUME PublicationInv, NEW s \in Sources, save(s) \/ (Create(s) /\ ~row.linked)
  PROVE  /\ stream' = stream /\ ~row.linked /\ ~row'.linked /\ row'.source = s
         /\ row' # row => row'.hash = Null
  <1>1. row \in Rows
    BY UnlinkedIsNothing
  <1>2. CASE s # row.source /\ Patch(s)
    <2>1. /\ row' = [row EXCEPT !.source = s, !.checks = Pending, !.hash = Null, !.status = "draft"]
          /\ ~row.linked /\ UNCHANGED stream
      BY <1>2 DEF Patch, requireEditable
    <2>2. QED
      BY <1>1, <2>1 DEF Rows
  <1>3. CASE s = row.source /\ requireEditable /\ UNCHANGED vars
    BY <1>1, <1>3 DEF requireEditable, vars
  <1>4. CASE Create(s) /\ ~row.linked
    BY <1>1, <1>4 DEF Create, created
  <1>5. QED
    BY <1>2, <1>3, <1>4 DEF save

LEMMA AnswersKeepShowInv ==
  ASSUME Inv, ShowInv, client' = client, NEW b \in Buttons, Answer(b)
  PROVE  ShowInv'
  <1>1. page \in Pages /\ (client = "page" \/ calls[b] = None)
    BY DEF Inv, PageInv, PageTyped
  <1>2. CASE Fail(b)
    <2>1. UNCHANGED <<vars, page, severed, crossed, shown>>
      BY <1>2 DEF Fail
    <2>2. QED
      BY <2>1, NothingNewIsKnown DEF known
  <1>3. CASE Land(b) \/ LandUnheard(b)
    <2>1. /\ handled(calls[b]) /\ UNCHANGED <<shown, severed>> /\ page' \in {page, answered(b)}
          /\ crossed' = (crossed \/ (calls[b].kind = "patch" /\ page.run \in {"check", "open"}))
      BY <1>3 DEF Land, LandUnheard, landed
    <2>2. UNCHANGED known
      <3>1. /\ answered(b) \in {[page EXCEPT !.draft = TRUE], answered(b)}
            /\ answered(b).run = page.run /\ answered(b).checks = page.checks
            /\ answered(b).submitted = page.submitted /\ answered(b).checkedSource = page.checkedSource
        BY <1>1 DEF answered, Pages
      <3>2. QED
        BY <2>1, <3>1 DEF known
    <2>3. CASE calls[b].kind = "secrets" /\ PostSecrets(calls[b].secret)
      <3>1. UNCHANGED <<row, stream, strategy>>
        BY <2>3 DEF PostSecrets
      <3>2. crossed <=> crossed'
        BY <2>1, <2>3
      <3>3. QED
        BY <2>1, <2>2, <3>1, <3>2 DEF ShowInv, known, readsItsStream, knowsNothingYet, runsTheSubmitted,
                                heardOfTheRow, publishable, publishedAsShown
    <2>4. CASE \/ calls[b].kind = "patch" /\ save(calls[b].source)
               \/ calls[b].kind = "create" /\ Create(calls[b].source)
      <3>1. calls[b].source \in Sources /\ client = "page"
        BY <1>1, <2>4, RequestTypes DEF Inv, None
      <3>2. calls[b].kind = "create" => page.run = "off" /\ ~row.linked
        <4>1. ASSUME calls[b].kind = "create" PROVE ~page.draft
          BY <4>1 DEF Inv, PageInv, Creating
        <4>2. page.reached \in 1 .. 3
          BY <1>1 DEF Pages
        <4>3. QED
          BY <3>1, <4>1, <4>2 DEF Inv, PageInv
      <3>3. /\ stream' = stream /\ ~row'.linked
            /\ row' # row => row'.hash = Null
        BY <2>4, <3>1, <3>2, SavedUnchecked DEF Inv
      <3>4. runsTheSubmitted'
        BY <2>1, <2>2, <2>4, <3>1, <3>2 DEF ShowInv, runsTheSubmitted, known
      <3>5. heardOfTheRow'
        <4>1. CASE row' = row
          BY <2>1, <2>2, <3>1, <4>1 DEF ShowInv, heardOfTheRow, publishable, known
        <4>2. CASE row' # row
          BY <3>3, <4>2 DEF heardOfTheRow, publishable
        <4>3. QED
          BY <4>1, <4>2
      <3>6. readsItsStream' /\ knowsNothingYet' /\ publishedAsShown'
        BY <2>2, <3>1, <3>3 DEF ShowInv, readsItsStream, knowsNothingYet, publishedAsShown, known
      <3>7. QED
        BY <3>4, <3>5, <3>6 DEF ShowInv
    <2>5. QED
      BY <2>1, <2>3, <2>4 DEF handled
  <1>4. QED
    BY <1>2, <1>3 DEF Answer

LEMMA RunKeepsShowInv ==
  ASSUME Inv, ShowInv, client' = client, RunStep
  PROVE  ShowInv'
  <1>1. page \in Pages /\ page.run # "off" /\ client = "page" /\ page.submitted \in Sources
    BY DEF Inv, PageInv, PageTyped, RunStep, RunSaved, RunStarts, RunFails, Cut
  <1>2. UNCHANGED <<shown, severed>>
    BY DEF RunStep, RunSaved, RunStarts, RunFails, Cut, running
  <1>3. CASE RunSaved
    <2>1. /\ page' = [page EXCEPT !.run = "check", !.submitted = page.submitted]
          /\ page.run = "patch" /\ save(page.submitted) /\ ~crossed'
      BY <1>3 DEF RunSaved, running
    <2>2. page'.run = "check" /\ page'.submitted = page.submitted /\ page'.checks = page.checks
      BY <1>1, <2>1 DEF Pages
    <2>3. stream' = stream /\ ~row'.linked /\ row'.source = page.submitted
      BY <1>1, <2>1, SavedUnchecked DEF Inv
    <2>4. QED
      BY <1>1, <2>1, <2>2, <2>3 DEF ShowInv, readsItsStream, knowsNothingYet, runsTheSubmitted,
                                    heardOfTheRow, publishedAsShown
  <1>4. CASE RunStarts
    <2>1. /\ page' = [page EXCEPT !.run = "open", !.submitted = page.submitted]
          /\ page.run = "check" /\ StartCheck /\ crossed' = crossed
      BY <1>4 DEF RunStarts, running
    <2>2. page'.run = "open" /\ page'.submitted = page.submitted /\ page'.checks = page.checks
      BY <1>1, <2>1 DEF Pages
    <2>3. /\ stream' = [Off EXCEPT !.on = TRUE, !.source = row.source]
          /\ row' = [row EXCEPT !.checks = Pending, !.hash = Null, !.status = "checking"]
          /\ ~row.linked
      BY <2>1 DEF StartCheck, requireEditable
    <2>4. stream'.on /\ ~stream'.aborted /\ row'.source = row.source /\ ~row'.linked
      BY <2>3, UnlinkedIsNothing DEF Inv, Off, Rows
    <2>5. QED
      BY <1>1, <1>2, <2>1, <2>2, <2>3, <2>4 DEF ShowInv, readsItsStream, knowsNothingYet, runsTheSubmitted,
                                    heardOfTheRow, publishedAsShown
  <1>5. CASE RunFails
    <2>1. /\ page' = [page EXCEPT !.run = "off", !.submitted = Null]
          /\ page.run \in {"patch", "check"} /\ UNCHANGED vars /\ crossed' = crossed
      BY <1>5 DEF RunFails, running
    <2>2. page'.run = "off" /\ page'.checks = page.checks
      BY <1>1, <2>1 DEF Pages
    <2>3. ~allPassed(page'.checks)
      BY <1>1, <2>1, <2>2, CountsOfChecks DEF ShowInv, knowsNothingYet
    <2>4. QED
      BY <1>1, <1>2, <2>1, <2>2, <2>3 DEF ShowInv, vars, readsItsStream, knowsNothingYet, runsTheSubmitted,
                                    heardOfTheRow, publishable, publishedAsShown
  <1>6. CASE Cut
    <2>1. /\ page' = [page EXCEPT !.run = "off", !.submitted = Null]
          /\ page.run = "open" /\ Disconnect /\ crossed' = crossed
      BY <1>6 DEF Cut, running
    <2>2. page'.run = "off"
      BY <1>1, <2>1 DEF Pages
    <2>3. stream.on /\ stream' = [stream EXCEPT !.aborted = TRUE] /\ row' = row /\ strategy' = strategy
      BY <2>1 DEF Disconnect, publishing
    <2>4. stream'.aborted /\ row.hash = Null
      BY <2>3, UnlinkedIsNothing DEF Inv, Streams
    <2>5. QED
      BY <1>1, <1>2, <2>1, <2>2, <2>3, <2>4 DEF ShowInv, readsItsStream, knowsNothingYet, runsTheSubmitted,
                                    heardOfTheRow, publishable, publishedAsShown
  <1>7. QED
    BY <1>3, <1>4, <1>5, <1>6 DEF RunStep

\* One event of the stream: it writes the row while somebody reads it.
LEMMA StreamSpeaks ==
  ASSUME PublicationInv, CheckStep
  PROVE  /\ stream.on /\ row'.source = row.source /\ ~row'.linked
         /\ stream.aborted => row' = row
         /\ stream'.on => row'.hash = Null /\ stream'.aborted = stream.aborted
  <1>1. row \in Rows /\ stream \in Streams /\ stream.on /\ row.hash = Null /\ ~row.linked
    BY UnlinkedIsNothing DEF CheckStep, Check, FinishCheck, CheckThrows
  <1>2. PICK checks, hash, status : /\ row' = written(checks, hash, status)
                                    /\ stream'.on => hash = Null
    BY DEF CheckStep, Check, FinishCheck, CheckThrows, Off
  <1>3. /\ row'.source = row.source /\ ~row'.linked
        /\ (stream.aborted => row' = row) /\ (~stream.aborted => row'.hash = hash)
    BY <1>1, <1>2 DEF written, Rows
  <1>4. stream' = Off \/ \E c : stream' = [stream EXCEPT !.checks = c]
    BY DEF CheckStep, Check, FinishCheck, CheckThrows
  <1>5. stream'.on => stream'.aborted = stream.aborted
    BY <1>1, <1>4 DEF Off, Streams
  <1>6. QED
    BY <1>1, <1>2, <1>3, <1>5

LEMMA HearKeepsShowInv ==
  ASSUME Inv, ShowInv, client' = client, Hear
  PROVE  ShowInv'
  <1>1. page \in Pages /\ (page.run # "off" => client = "page" /\ page.submitted \in Sources)
    BY DEF Inv, PageInv, PageTyped
  <1>2. /\ stream.on /\ row'.source = row.source /\ UNCHANGED <<shown, crossed>>
        /\ stream.aborted => row' = row
        /\ stream'.on => row'.hash = Null /\ stream'.aborted = stream.aborted
        /\ ~row'.linked
    BY StreamSpeaks DEF Hear, Inv
  <1>3. publishedAsShown'
    BY <1>2 DEF publishedAsShown
  <1>4. CASE page.run # "open" /\ client = "page"
    <2>1. stream.aborted /\ UNCHANGED row
      BY <1>2, <1>4 DEF ShowInv, readsItsStream
    <2>2. page' = page /\ (severed' <=> severed)
      BY <1>4 DEF Hear, heard, ended
    <2>3. QED
      BY <1>2, <1>3, <1>4, <2>1, <2>2 DEF ShowInv, readsItsStream, knowsNothingYet, runsTheSubmitted,
                                          heardOfTheRow, publishable
  <1>5. CASE page.run = "open" /\ stream'.on
    <2>1. page' = [page EXCEPT !.checks = row'.checks] /\ (severed' <=> severed)
      BY <1>5 DEF Hear, heard
    <2>2. page'.run = "open" /\ page'.submitted = page.submitted
      BY <1>1, <1>5, <2>1 DEF Pages
    <2>3. ~stream'.aborted
      BY <1>1, <1>2, <1>5 DEF ShowInv, readsItsStream
    <2>4. QED
      BY <1>1, <1>2, <1>3, <1>5, <2>2, <2>3 DEF ShowInv, readsItsStream, knowsNothingYet, runsTheSubmitted,
                                                heardOfTheRow
  <1>6. CASE page.run = "open" /\ ~stream'.on
    <2>1. ~crossed => row.source = page.submitted
      BY <1>1, <1>6 DEF ShowInv, runsTheSubmitted
    <2>2. \/ page' = ended
          \/ severed' /\ page' = [heard EXCEPT !.run = "off", !.submitted = Null]
      BY <1>6 DEF Hear
    <2>3. heard = [page EXCEPT !.checks = row'.checks]
      BY <1>6 DEF heard
    <2>4. ended = [heard EXCEPT !.checkedSource = page.submitted, !.submitted = Null, !.run = "off"]
      BY <1>6 DEF ended
    <2>5. heard \in [step : 0 .. 3, reached : 1 .. 3, source : Sources, value : Values \cup {Null},
                     cipher : Values \cup {Null}, draft : BOOLEAN, checks : {row'.checks},
                     checkedSource : Sources \cup {Null}, run : {"off", "patch", "check", "open"},
                     submitted : Sources \cup {Null}]
      BY <1>1, <2>3 DEF Pages
    <2> HIDE DEF heard
    <2>6. /\ ended.run = "off" /\ ended.checkedSource = page.submitted
          /\ [heard EXCEPT !.run = "off", !.submitted = Null].run = "off"
      BY <2>4, <2>5
    <2>7. page'.run = "off" /\ (severed' \/ page'.checkedSource = page.submitted)
      BY <2>2, <2>6
    <2>8. QED
      BY <1>2, <1>3, <1>6, <2>1, <2>7 DEF ShowInv, readsItsStream, knowsNothingYet, runsTheSubmitted,
                                          heardOfTheRow
  <1>7. QED
    BY <1>4, <1>5, <1>6 DEF ShowInv

LEMMA PublicationKeepsShowInv ==
  ASSUME Inv, ShowInv, client' = client, Publication
  PROVE  ShowInv'
  <1>1. UNCHANGED <<page, severed, crossed, shown, stream>> /\ publish # "off" /\ client = "page"
    BY DEF Publication, publishedWhole, PublishThrows
  <1>2. row \in Rows /\ strategy \in StrategyRecords
    BY <1>1 DEF Inv, PublicationInv, SubmissionTyped, Before, After
  <1>3. row' = row \/ row' = [row EXCEPT !.status = "live"]
    BY DEF Publication, publishedWhole, PublishThrows
  <1>4. strategy' = strategy \/ strategy' = [strategy EXCEPT !.vault = 1, !.status = "live"]
    BY DEF Publication, publishedWhole, PublishThrows
  <1>5. /\ row'.source = row.source /\ row'.checks = row.checks /\ row'.hash = row.hash
        /\ row'.linked = row.linked
    BY <1>2, <1>3 DEF Rows
  <1>6. strategy'.source = strategy.source
    BY <1>2, <1>4 DEF StrategyRecords
  <1>7. QED
    BY <1>1, <1>5, <1>6 DEF ShowInv, readsItsStream, knowsNothingYet, runsTheSubmitted, heardOfTheRow,
                            publishable, publishedAsShown

LEMMA StepKeepsShowInv ==
  ASSUME Inv, ShowInv, [SeedNext]_allSeed
  PROVE  ShowInv'
  <1>1. client' = client
    BY StepMoves
  <1>2. CASE Creator
    BY <1>1, <1>2, CreatorKeepsShowInv
  <1>3. CASE Browser
    <2>1. CASE PublishAnswers
      <3>1. page \in Pages
        BY DEF Inv, PageInv, PageTyped
      <3>2. /\ page' = page \/ page' = [page EXCEPT !.step = 0]
            /\ UNCHANGED <<vars, severed, crossed, shown>>
        BY <2>1 DEF PublishAnswers
      <3>3. UNCHANGED known
        BY <3>1, <3>2 DEF known, Pages
      <3>4. QED
        BY <1>1, <3>2, <3>3, NothingNewIsKnown
    <2>2. QED
      BY <1>1, <1>3, <2>1, AnswersKeepShowInv, RunKeepsShowInv DEF Browser
  <1>4. CASE Hear \/ Publication
    BY <1>1, <1>4, HearKeepsShowInv, PublicationKeepsShowInv
  <1>5. CASE OtherClient \/ Reset \/ SeedStep \/ SeedThrows \/ SeedDies
    <2>1. client # "page"
      <3>1. CASE OtherClient
        BY <3>1 DEF OtherClient, forApi
      <3>2. CASE Reset \/ SeedThrows \/ SeedDies
        BY <3>2 DEF Reset, SeedThrows, SeedDies, given, underWay
      <3>3. CASE SeedStep
        BY <3>3 DEF SeedStep, on, Boot, PostSubmission, PostCheck, ReadChecks, Passed, FallsBack,
                    CannotPublish, PostPublish, Refused, Publishing, Published, Record, Clear, Copy
      <3>4. QED
        BY <1>5, <3>1, <3>2, <3>3
    <2>2. QED
      BY <1>1, <2>1 DEF ShowInv
  <1>6. CASE UNCHANGED allSeed
    BY <1>1, <1>6, NothingNewIsKnown DEF allSeed, all, flow, known
  <1>7. QED
    BY <1>2, <1>3, <1>4, <1>5, <1>6 DEF SeedNext, CreateNext

-----------------------------------------------------------------------------
(***************************************************************************)
(* Types of what the page and the histories hold.  Only the seed rewrites  *)
(* a check as a fallback, so the page never hears of one.                  *)
(***************************************************************************)
noFallback(checks) == checks.next # "fallback"

ServerTyped ==
  /\ topUp \in 0 .. Target
  /\ publish \in {"off", "gas", "vault", "readVault", "reserve", "isRegistered",
                  "registry", "workflow", "live"}
  /\ checked \in Sources \cup {Null}
  /\ raced \in BOOLEAN
  /\ noFallback(stream.checks)
  /\ client # "seed" => noFallback(row.checks)

FlowTyped ==
  /\ client \in {"page", "api", "seed"}
  /\ edits \in 0 .. MaxEdits /\ failures \in 0 .. MaxFailures[client]
  /\ shown \in Sources \cup {Null}
  /\ severed \in BOOLEAN /\ crossed \in BOOLEAN
  /\ noFallback(page.checks)

LEMMA ChecksKeepServerTyped ==
  ASSUME PublicationInv, ServerTyped, client' = client, CheckStep
  PROVE  /\ ServerTyped' /\ raced' = raced
         /\ noFallback(row.checks) => noFallback(row'.checks)
  <1>1. row \in Rows /\ stream \in Streams /\ stream.on /\ stream.source \in Sources
    BY DEF CheckStep, Check, FinishCheck, CheckThrows, PublicationInv, SubmissionTyped, StreamInv
  <1>2. UNCHANGED <<topUp, publish>>
    BY DEF CheckStep, Check, FinishCheck, CheckThrows, publishing
  <1>3. checked' \in {checked, stream.source} /\ raced' = raced
    BY DEF CheckStep, Check, FinishCheck, CheckThrows, history
  <1>4. noFallback(Pending) /\ Off.checks = Pending
    BY DEF noFallback, Pending, Off
  <1> DEFINE was == stream.checks
  <1>5. was \in CheckState /\ noFallback(was)
    BY <1>1 DEF Streams, ServerTyped
  <1>6. PICK checks, hash, status : /\ row' = written(checks, hash, status)
                                    /\ noFallback(checks)
                                    /\ stream' = Off \/ stream' = [stream EXCEPT !.checks = checks]
    <2>1. CASE CheckThrows
      <3>1. noFallback([was EXCEPT !.next = IF @ = "running" THEN "failed" ELSE @])
        BY <1>5 DEF noFallback, CheckState
      <3>2. QED
        BY <2>1, <3>1 DEF CheckThrows
    <2>2. CASE FinishCheck
      BY <1>5, <2>2 DEF FinishCheck
    <2>3. ASSUME NEW next \in {"running", "passed", "failed"}, Check(next)
          PROVE  \E checks, hash, status : /\ row' = written(checks, hash, status)
                                           /\ noFallback(checks)
                                           /\ stream' = Off \/ stream' = [stream EXCEPT !.checks = checks]
      <3> DEFINE checks == IF next = "passed" THEN [passed |-> was.passed + 1, next |-> "pending"]
                                              ELSE [was EXCEPT !.next = next]
      <3>1. noFallback(checks)
        BY <1>5, <2>3 DEF noFallback, CheckState
      <3>2. row' = written(checks, Null, "checking") /\ (stream' = Off \/ stream' = [stream EXCEPT !.checks = checks])
        BY <2>3 DEF Check
      <3> HIDE DEF checks
      <3>3. QED
        BY <3>1, <3>2
    <2>4. QED
      BY <2>1, <2>2, <2>3 DEF CheckStep
  <1>7. noFallback(stream'.checks)
    BY <1>1, <1>4, <1>6 DEF Streams
  <1>8. noFallback(row.checks) => noFallback(row'.checks)
    BY <1>1, <1>6 DEF written, Rows
  <1>9. QED
    BY <1>1, <1>2, <1>3, <1>7, <1>8 DEF ServerTyped

LEMMA StepKeepsServerTyped ==
  ASSUME PublicationInv, ServerTyped, client' = client, Moves
  PROVE  ServerTyped'
  <1>1. /\ row \in Rows /\ stream \in Streams /\ noFallback(Pending) /\ Off.checks = Pending
        /\ Target \in Nat
    BY TargetAssumption DEF PublicationInv, SubmissionTyped, noFallback, Pending, Off
  <1>2. CASE \/ (\E s \in Sources : Patch(s)) \/ StartCheck \/ Disconnect \/ Publish
    <2>1. ASSUME NEW s \in Sources, Patch(s) PROVE ServerTyped'
      <3>1. /\ row' = [row EXCEPT !.source = s, !.checks = Pending, !.hash = Null, !.status = "draft"]
            /\ raced' = (raced \/ stream.on) /\ UNCHANGED <<stream, publish, topUp, checked>>
        BY <2>1 DEF Patch, publishing
      <3>2. row'.checks = Pending /\ raced' \in BOOLEAN
        BY <1>1, <3>1 DEF Rows
      <3>3. QED
        BY <1>1, <3>1, <3>2 DEF ServerTyped
    <2>2. CASE StartCheck
      <3>1. /\ row' = [row EXCEPT !.checks = Pending, !.hash = Null, !.status = "checking"]
            /\ stream' = [Off EXCEPT !.on = TRUE, !.source = row.source]
            /\ raced' = FALSE /\ UNCHANGED <<publish, topUp, checked>>
        BY <2>2 DEF StartCheck, publishing
      <3>2. row'.checks = Pending /\ stream'.checks = Pending
        BY <1>1, <3>1 DEF Rows, Off
      <3>3. QED
        BY <1>1, <3>1, <3>2 DEF ServerTyped
    <2>3. CASE Disconnect
      <3>1. stream' = [stream EXCEPT !.aborted = TRUE] /\ UNCHANGED <<row, publish, topUp, checked, raced>>
        BY <2>3 DEF Disconnect, publishing, history
      <3>2. stream'.checks = stream.checks
        BY <1>1, <3>1 DEF Streams
      <3>3. QED
        BY <3>1, <3>2 DEF ServerTyped
    <2>4. CASE Publish
      <3>1. row' = [row EXCEPT !.linked = TRUE] /\ publish' = "gas" /\ UNCHANGED <<stream, topUp, checked, raced>>
        BY <2>4 DEF Publish, history
      <3>2. row'.checks = row.checks
        BY <1>1, <3>1 DEF Rows
      <3>3. QED
        BY <3>1, <3>2 DEF ServerTyped
    <2>5. QED
      BY <1>2, <2>1, <2>2, <2>3, <2>4
  <1>3. CASE \E c \in Ciphertexts \cup {Null} : PostSecrets(c)
    BY <1>3 DEF PostSecrets, history, ServerTyped
  <1>4. CASE CheckStep
    BY <1>4, ChecksKeepServerTyped
  <1>5. CASE PublishStep
    <2>1. UNCHANGED <<stream, history>> /\ row'.checks = row.checks
      BY <1>5, PublishStepLinked DEF PublishStep, fundGas, deployVault, readVault, fundReserve,
                  isStrategyRegistered, registerStrategy, adoptWorkflow, goLive, step
    <2>2. publish' \in {"vault", "readVault", "reserve", "isRegistered", "workflow", "registry", "live", "off"}
      BY <1>5 DEF PublishStep, fundGas, deployVault, readVault, fundReserve,
                  isStrategyRegistered, registerStrategy, adoptWorkflow, goLive, step
    <2>3. topUp' \in 0 .. Target
      <3>1. CASE readVault
        <4>1. vaults[strategy.vault] \in 0 .. Target
          BY <3>1 DEF readVault, step, PublicationInv, StageInv, hasVault, VaultsTyped
        <4>2. topUp' = IF Target - vaults[strategy.vault] > 0 THEN Target - vaults[strategy.vault] ELSE 0
          BY <3>1 DEF readVault
        <4>3. QED
          BY <1>1, <4>1, <4>2
      <3>2. CASE PublishStep /\ ~readVault
        <4>1. topUp' = topUp \/ topUp' = 0
          BY <3>2 DEF PublishStep, fundGas, deployVault, fundReserve, isStrategyRegistered,
                      registerStrategy, adoptWorkflow, goLive
        <4>2. QED
          BY <1>1, <4>1 DEF ServerTyped
      <3>3. QED
        BY <1>5, <3>1, <3>2
    <2>4. QED
      BY <2>1, <2>2, <2>3 DEF ServerTyped, history
  <1>6. CASE PublishThrows \/ PublishUnheard \/ Crash
    <2>1. publish' = "off" /\ topUp' = 0 /\ UNCHANGED <<row, history>> /\ stream' \in {stream, Off}
      BY <1>6 DEF PublishThrows, PublishUnheard, Crash
    <2>2. QED
      BY <1>1, <2>1 DEF ServerTyped, history
  <1>7. CASE LoseDraftDir \/ UNCHANGED vars
    BY <1>7 DEF LoseDraftDir, publishing, history, vars, ServerTyped
  <1>8. CASE Publication1
    <2>1. /\ row' = [row EXCEPT !.status = "live"] /\ publish' = "off"
          /\ UNCHANGED <<stream, topUp, history>>
      BY <1>8 DEF Publication1, publishedWhole
    <2>2. row'.checks = row.checks
      BY <1>1, <2>1 DEF Rows
    <2>3. QED
      BY <2>1, <2>2 DEF ServerTyped, history
  <1>9. CASE Another
    <2>1. PICK s \in Sources : Create(s) \/ fresh(s)
      BY <1>9 DEF Another
    <2>2. /\ row'.checks = Pending /\ UNCHANGED <<stream, publish, topUp>>
          /\ checked' \in {checked, Null} /\ raced' \in {raced, FALSE}
      <3>1. CASE Create(s)
        BY <3>1 DEF Create, created, history
      <3>2. CASE fresh(s)
        BY <3>2 DEF fresh, created
      <3>3. QED
        BY <2>1, <3>1, <3>2
    <2>3. QED
      BY <1>1, <2>2 DEF ServerTyped
  <1>10. CASE Rewritten
    BY <1>10 DEF Rewritten, publishing, history, ServerTyped
  <1>11. QED
    BY <1>2, <1>3, <1>4, <1>5, <1>6, <1>7, <1>8, <1>9, <1>10 DEF Moves

LEMMA StepKeepsFlowTyped ==
  ASSUME Inv, ServerTyped', FlowTyped, client' = client, [SeedNext]_allSeed
  PROVE  FlowTyped'
  <1>1. /\ page \in Pages /\ edits \in Nat /\ failures \in Nat /\ MaxFailures[client] \in Nat /\ MaxEdits \in Nat
        /\ edits <= MaxEdits /\ failures <= MaxFailures[client]
    BY BoundsAssumption DEF Inv, PageInv, PageTyped, FlowTyped
  <1>2. ASSUME NEW f, f = failures', fails \/ f = failures PROVE f \in 0 .. MaxFailures[client]
    BY <1>1, <1>2 DEF fails
  <1>3. noFallback(Pending)
    BY DEF noFallback, Pending
  <1>4. CASE Creator
    <2>1. \/ edits' = edits
          \/ edits' = edits + 1 /\ edits < MaxEdits
      BY <1>4 DEF Creator, EditSource, EditSecret, Encrypt, Navigate, SaveDraft, ContinueFromCode,
                  ContinueFromSecrets, RunChecks, PressPublish, publishes, edited, moved, press
    <2>2. UNCHANGED <<failures, severed, crossed>>
      BY <1>4 DEF Creator, EditSource, EditSecret, Encrypt, Navigate, SaveDraft, ContinueFromCode,
                  ContinueFromSecrets, RunChecks, PressPublish, publishes, edited, moved, press
    <2>3. shown' \in {shown, page.source}
      BY <1>4 DEF Creator, EditSource, EditSecret, Encrypt, Navigate, SaveDraft, ContinueFromCode,
                  ContinueFromSecrets, RunChecks, PressPublish, publishes, edited, moved, press
    <2>4. \/ page' = page
          \/ \E s : page' = [page EXCEPT !.source = s]
          \/ \E v : page' = [page EXCEPT !.value = v]
          \/ \E c : page' = [page EXCEPT !.cipher = c]
          \/ \E n : page' = [page EXCEPT !.step = n]
          \/ page' = [page EXCEPT !.run = "patch", !.submitted = page.source, !.checks = Pending]
      BY <1>4 DEF Creator, EditSource, EditSecret, Encrypt, Navigate, SaveDraft, ContinueFromCode,
                  ContinueFromSecrets, RunChecks, PressPublish, publishes, edited, moved, press
    <2>5. page'.checks \in {page.checks, Pending}
      BY <1>1, <2>4 DEF Pages
    <2>6. edits' \in 0 .. MaxEdits
      BY <1>1, <2>1
    <2>7. page.source \in Sources
      BY <1>1 DEF Pages
    <2>8. QED
      BY <1>3, <2>2, <2>3, <2>5, <2>6, <2>7 DEF FlowTyped
  <1>5. CASE Browser \/ Hear
    <2>1. UNCHANGED <<edits, shown>> /\ (fails \/ failures' = failures)
      BY <1>5 DEF Browser, Answer, Land, LandUnheard, Fail, landed, PublishAnswers, RunStep, RunSaved,
                  RunStarts, RunFails, Cut, running, Hear
    <2>2. severed' \in BOOLEAN /\ crossed' \in BOOLEAN
      BY <1>5 DEF Browser, Answer, Land, LandUnheard, Fail, landed, PublishAnswers, RunStep, RunSaved,
                  RunStarts, RunFails, Cut, running, Hear, FlowTyped
    <2>3. noFallback(page'.checks)
      <3>1. CASE Hear
        <4>1. client # "seed" => noFallback(row'.checks)
          BY DEF ServerTyped
        <4>2. noFallback(heard.checks)
          BY <1>1, <3>1, <4>1 DEF Hear, heard, Pages, FlowTyped
        <4>3. heard \in Pages
          <5>1. row'.checks \in CheckState
            BY StepKeepsInv DEF Inv, PublicationInv, SubmissionTyped, Rows
          <5>2. QED
            BY <1>1, <5>1 DEF heard, Pages
        <4>4. page' = heard \/ page' = ended \/ page' = [heard EXCEPT !.run = "off", !.submitted = Null]
          BY <3>1 DEF Hear
        <4>5. ended = page \/ ended = [heard EXCEPT !.checkedSource = page.submitted, !.submitted = Null, !.run = "off"]
          BY DEF ended
        <4> HIDE DEF heard
        <4>6. /\ [heard EXCEPT !.run = "off", !.submitted = Null].checks = heard.checks
              /\ [heard EXCEPT !.checkedSource = page.submitted, !.submitted = Null, !.run = "off"].checks
                   = heard.checks
          BY <4>3 DEF Pages
        <4>7. page'.checks \in {heard.checks, page.checks}
          BY <4>4, <4>5, <4>6
        <4>8. QED
          BY <4>2, <4>7 DEF FlowTyped
      <3>2. ASSUME NEW b \in Buttons, Answer(b) PROVE page'.checks = page.checks
        BY <1>1, <3>2 DEF Answer, Land, LandUnheard, Fail, answered, Pages
      <3>3. CASE PublishAnswers \/ RunStep
        <4>1. \/ page' = page \/ page' = [page EXCEPT !.step = 0]
              \/ \E to \in {"off", "check", "open"} :
                    page' = [page EXCEPT !.run = to, !.submitted = IF to = "off" THEN Null ELSE @]
          BY <3>3 DEF PublishAnswers, RunStep, RunSaved, RunStarts, RunFails, Cut, running
        <4>2. page'.checks = page.checks
          BY <1>1, <4>1 DEF Pages
        <4>3. QED
          BY <4>2 DEF FlowTyped
      <3>4. QED
        BY <1>5, <3>1, <3>2, <3>3 DEF Browser, FlowTyped
    <2>4. QED
      BY <1>2, <2>1, <2>2, <2>3 DEF FlowTyped
  <1>6. CASE OtherClient \/ Publication \/ Reset \/ SeedThrows \/ SeedDies
    <2>1. /\ UNCHANGED <<page, edits, shown, severed, crossed>>
          /\ fails \/ failures' = failures
      BY <1>6 DEF OtherClient, forApi, behind, flow, Publication, Reset, SeedThrows, SeedDies, given, alone
    <2>2. QED
      BY <1>2, <2>1 DEF FlowTyped
  <1>7. CASE SeedStep
    <2>1. UNCHANGED <<page, edits, shown, severed, crossed, failures>>
      <3>1. CASE \/ Boot \/ Passed \/ FallsBack \/ CannotPublish \/ Refused \/ Published
                 \/ Record \/ Clear \/ Copy
        BY <3>1 DEF on, alone, Boot, Passed, FallsBack, CannotPublish, Refused, Published, Record, Clear, Copy
      <3>2. CASE PostSubmission \/ PostCheck \/ ReadChecks \/ PostPublish \/ Publishing
        BY <3>2 DEF on, alone, PostSubmission, PostCheck, ReadChecks, PostPublish, Publishing
      <3>3. QED
        BY <1>7, <3>1, <3>2 DEF SeedStep
    <2>2. QED
      BY <2>1 DEF FlowTyped
  <1>8. CASE UNCHANGED allSeed
    BY <1>8 DEF allSeed, all, flow, FlowTyped
  <1>9. QED
    BY <1>4, <1>5, <1>6, <1>7, <1>8 DEF SeedNext, CreateNext

FlowInv == Inv /\ ShowInv /\ ServerTyped /\ FlowTyped

LEMMA FlowInvariant == SeedSpec => []FlowInv
  <1>1. ASSUME SeedInit PROVE FlowInv
    <2>1. /\ Init /\ client \in Clients /\ row.source = Template
          /\ page = [step |-> 1, reached |-> 1, source |-> row.source, value |-> Null,
                     cipher |-> Null, draft |-> FALSE, checks |-> Pending,
                     checkedSource |-> Null, run |-> "off", submitted |-> Null]
          /\ edits = 0 /\ failures = 0 /\ shown = Null /\ severed = FALSE /\ crossed = FALSE
      BY <1>1 DEF SeedInit, CreateInit
    <2>2. PICK s \in Sources : row = created(s)
      BY <2>1 DEF Init
    <2>3. noFallback(Pending) /\ Off.checks = Pending /\ Off.on = FALSE /\ row.checks = Pending /\ row.linked = FALSE
      BY <2>2 DEF noFallback, Pending, Off, created
    <2>4. /\ topUp = 0 /\ publish = "off" /\ checked = Null /\ raced = FALSE /\ stream = Off
      BY <2>1 DEF Init
    <2>5. ServerTyped
      <3>1. noFallback(stream.checks) /\ noFallback(row.checks)
        BY <2>3, <2>4
      <3>2. topUp \in 0 .. Target
        BY <2>4, TargetAssumption
      <3>3. QED
        BY <2>4, <3>1, <3>2 DEF ServerTyped
    <2>6. FlowTyped
      <3>1. client \in {"page", "api", "seed"}
        BY <2>1, ClientsAssumption
      <3>2. edits \in 0 .. MaxEdits /\ failures \in 0 .. MaxFailures[client]
        BY <2>1, <3>1, BoundsAssumption
      <3>3. noFallback(page.checks)
        BY <2>1, <2>3
      <3>4. QED
        BY <2>1, <3>1, <3>2, <3>3 DEF FlowTyped
    <2>7. ShowInv
      BY <2>1, <2>3, <2>4, CountsOfChecks DEF ShowInv, readsItsStream, knowsNothingYet, runsTheSubmitted,
                                              heardOfTheRow, publishable, publishedAsShown
    <2>8. QED
      BY <1>1, <2>5, <2>6, <2>7, InitIsFine DEF FlowInv
  <1>2. ASSUME FlowInv, [SeedNext]_allSeed PROVE FlowInv'
    <2>1. Inv /\ Inv' /\ Moves /\ client' = client
      BY <1>2, StepKeepsInv, StepMoves DEF FlowInv
    <2>2. ShowInv'
      BY <1>2, <2>1, StepKeepsShowInv DEF FlowInv
    <2>3. ServerTyped'
      BY <1>2, <2>1, StepKeepsServerTyped DEF FlowInv, Inv
    <2>4. FlowTyped'
      BY <1>2, <2>1, <2>3, StepKeepsFlowTyped DEF FlowInv
    <2>5. QED
      BY <2>1, <2>2, <2>3, <2>4 DEF FlowInv
  <1>3. QED
    BY <1>1, <1>2, PTL DEF SeedSpec

(***************************************************************************)
(* What a creator publishes is what was in the editor when the button was  *)
(* pressed: although publishing saves nothing, the row's source, the one   *)
(* that passed and the one on the screen are the same, unless the end of a *)
(* run was lost on its way or a save overtook the run's own                *)
(* (CreateStrategyFlow.tsx).                                               *)
(***************************************************************************)
THEOREM TheShownIsPublished == SeedSpec => []PublishesWhatItShows
  <1>1. ASSUME FlowInv PROVE PublishesWhatItShows
    <2>1. /\ SubmissionTyped /\ VaultsTyped /\ Before /\ After /\ PageTyped /\ page.step <= page.reached
      BY <1>1 DEF FlowInv, Inv, PublicationInv, PageInv
    <2>2. strategy \in {Null} \cup [source : Sources, hash : Sources,
                                    vault : {Null} \cup DOMAIN vaults, status : {"draft", "live"}]
      <3>1. CASE row.linked
        <4>1. strategy \in StrategyRecords /\ strategy.vault \in {Null} \cup DOMAIN vaults
          BY <2>1, <3>1 DEF After, hasVault
        <4>2. QED
          BY <4>1 DEF StrategyRecords
      <3>2. CASE ~row.linked
        BY <2>1, <3>2 DEF Before
      <3>3. QED
        BY <3>1, <3>2
    <2>3. registry \in {Null} \cup [vault : DOMAIN vaults, hash : Sources]
      <3>1. CASE registry # Null
        <4>1. row.linked
          BY <2>1, <3>1 DEF Before
        <4>2. strategy \in StrategyRecords /\ strategy.vault \in DOMAIN vaults
          BY <2>1, <3>1, <4>1 DEF After, hasVault
        <4>3. registry = [vault |-> strategy.vault, hash |-> strategy.hash]
          BY <2>1, <3>1, <4>1 DEF After, anchored
        <4>4. QED
          BY <4>2, <4>3 DEF StrategyRecords
      <3>2. QED
        BY <3>1
    <2>4. \A v \in DOMAIN vaults : vaults[v] \in Nat
      <3>1. /\ DOMAIN vaults = 1 .. numbered /\ vaults \in [1 .. numbered -> 0 .. Target] /\ Target \in Nat
        BY <2>1, TargetAssumption DEF VaultsTyped
      <3>2. QED
        BY <3>1
    <2>5. secrets \in [{"submission", "strategy"} -> Ciphertexts \cup {Null}]
      BY <2>1 DEF SubmissionTyped
    <2>6. TypeOK
      BY <1>1, <2>1, <2>2, <2>3, <2>4, <2>5 DEF TypeOK, FlowInv, ServerTyped, SubmissionTyped, Rows, Streams
    <2>7. page.checks \in [passed : 0 .. Checks, next : {"pending", "running", "failed"}]
      BY <1>1, <2>1 DEF FlowInv, FlowTyped, noFallback, PageTyped, Pages, CheckState
    <2>8. FlowTypeOK
      BY <1>1, <2>1, <2>6, <2>7 DEF FlowTypeOK, FlowInv, FlowTyped, PageTyped, Pages
    <2>9. client = "page" /\ strategy # Null /\ ~severed /\ ~crossed => strategy.source = shown
      BY <1>1, <2>1 DEF FlowInv, ShowInv, publishedAsShown, Before
    <2>10. QED
      BY <2>8, <2>9 DEF PublishesWhatItShows
  <1>2. QED
    BY <1>1, FlowInvariant, PTL

-----------------------------------------------------------------------------
(***************************************************************************)
(* What a seed run reports.  Every template is still to go, published or   *)
(* failed; and for each published one there is a live strategy that bears  *)
(* it out, among those of the submissions before while the next one is     *)
(* under way.                                                              *)
(***************************************************************************)
AtWork == {"check", "stream", "checked", "publish", "publishing", "published"}

accountedFor(t) ==
  \/ \E p \in seed.published : p.source = t
  \/ t \in seed.failed
  \/ \E i \in DOMAIN seed.todo : seed.todo[i] = t

isTemplate(t) == \E i \in DOMAIN Templates : Templates[i] = t

bearsOut(p, s) ==
  /\ s.source = p.source /\ s.hash = p.hash /\ s.status = "live"
  /\ s.enclave <=> p.from = "cre-simulate"
  /\ s.enclave => s.simulated

inForce == IF seed.at \in AtWork THEN market ELSE database

\* How the submission at hand stands.
AtHand ==
  /\ ~raced
  /\ seed.at \notin AtWork => strategy = Null \/ strategy.status = "live"
  /\ seed.at \in AtWork => row.source = Head(seed.todo)
  /\ seed.at \in {"check", "stream", "checked"} => noFallback(row.checks)
  /\ seed.at \in {"publish", "publishing", "published"} =>
       allPassed(row.checks) /\ (noFallback(row.checks) <=> seed.from = "cre-simulate")
  /\ seed.at \in {"publishing", "published"} => strategy.source = row.source
  /\ seed.at = "published" => strategy.status = "live"

Accounts ==
  /\ \A t \in Sources : accountedFor(t) <=> isTemplate(t)
  /\ \A s \in market : s.status = "live"
  /\ \A p \in seed.published : \E s \in inForce : bearsOut(p, s)

ReportInv ==
  /\ copyIsWhole
  /\ client # "seed" => seed.at = "off"
  /\ client = "seed" /\ seed.at # "off" => AtHand /\ Accounts
  /\ seed.at \in {"record", "clear", "copy", "done"} => seed.todo = <<>>
  /\ seed.at = "done" => copy = [is |-> "whole", of |-> database]

LEMMA TemplatesToGo ==
  ASSUME NEW s \in Seq(Sources), s # <<>>, NEW t
  PROVE  /\ (\E i \in DOMAIN s : s[i] = t) <=> (t = Head(s) \/ \E i \in DOMAIN Tail(s) : Tail(s)[i] = t)
         /\ Len(s) = 1 => Tail(s) = <<>>
  <1>1. /\ Len(s) \in Nat /\ Len(s) # 0 /\ Len(Tail(s)) = Len(s) - 1 /\ Head(s) = s[1]
        /\ DOMAIN s = 1 .. Len(s) /\ Tail(s) \in Seq(Sources)
    OBVIOUS
  <1>2. DOMAIN Tail(s) = 1 .. Len(s) - 1 /\ \A i \in 1 .. Len(s) - 1 : Tail(s)[i] = s[i + 1]
    BY <1>1
  <1>3. Len(s) = 1 => Tail(s) = <<>>
    <2>1. Tail(s) \in Seq(Sources)
      BY <1>1
    <2>2. Len(Tail(s)) = 0 => Tail(s) = <<>>
      BY <2>1, EmptySeq
    <2>3. QED
      BY <1>1, <2>2
  <1>4. ASSUME NEW i \in DOMAIN s, s[i] = t PROVE t = Head(s) \/ \E j \in DOMAIN Tail(s) : Tail(s)[j] = t
    <2>1. CASE i = 1
      BY <1>1, <1>4, <2>1
    <2>2. CASE i # 1
      <3>1. i - 1 \in 1 .. Len(s) - 1 /\ (i - 1) + 1 = i
        BY <1>1, <2>2
      <3>2. i - 1 \in DOMAIN Tail(s) /\ Tail(s)[i - 1] = s[i]
        BY <1>2, <3>1
      <3>3. QED
        BY <1>4, <3>2
    <2>3. QED
      BY <2>1, <2>2
  <1>5. ASSUME NEW i \in DOMAIN Tail(s), Tail(s)[i] = t PROVE \E j \in DOMAIN s : s[j] = t
    <2>1. i + 1 \in DOMAIN s /\ s[i + 1] = t
      BY <1>1, <1>2, <1>5
    <2>2. QED
      BY <2>1
  <1>6. t = Head(s) => \E j \in DOMAIN s : s[j] = t
    <2>1. 1 \in DOMAIN s
      BY <1>1
    <2>2. QED
      BY <1>1, <2>1
  <1>7. QED
    BY <1>3, <1>4, <1>5, <1>6

\* Nothing in the database changes while the strategy and what its row says
\* of the checks stand.
LEMMA DatabaseStands ==
  ASSUME UNCHANGED <<market, strategy, checked>>, row'.source = row.source, row'.checks = row.checks
  PROVE  database' = database
  BY DEF database

LEMMA NoStrategyYet ==
  ASSUME strategy = Null
  PROVE  database = market
  BY DEF database

\* The run moves along: what it has to report stands.
LEMMA AccountsStand ==
  ASSUME Accounts, NEW p, seed \in SeedRuns, seed' = at(p),
         \A s \in market' : s.status = "live",
         inForce \subseteq inForce'
  PROVE  Accounts'
  <1>1. seed'.published = seed.published /\ seed'.failed = seed.failed /\ seed'.todo = seed.todo
    BY DEF at, SeedRuns
  <1>2. \A t \in Sources : accountedFor(t)' <=> isTemplate(t)'
    BY <1>1 DEF Accounts, accountedFor, isTemplate
  <1>3. \A c \in seed'.published : \E s \in inForce' : bearsOut(c, s)'
    BY <1>1 DEF Accounts, bearsOut
  <1>4. QED
    BY <1>2, <1>3 DEF Accounts

\* What every step of the seed starts from.
LEMMA SeedFacts ==
  ASSUME Inv, ReportInv, SeedStep
  PROVE  /\ client = "seed" /\ seed.at # "off" /\ AtHand /\ Accounts
         /\ seed \in SeedRuns /\ row \in Rows /\ copyIsWhole
         /\ stream.on => seed.at = "stream"
         /\ publish # "off" => seed.at = "publishing"
         /\ seed.at \in {"check", "stream", "checked", "publish"} => strategy = Null
         /\ seed.at \in {"publishing", "published"} => row.linked /\ strategy \in StrategyRecords
         /\ seed.at \in Seeding => seed.todo \in Seq(Sources) /\ seed.todo # <<>>
  <1>1. client = "seed" /\ seed.at # "off"
    BY DEF SeedStep, on, Boot, PostSubmission, PostCheck, ReadChecks, Passed, FallsBack,
           CannotPublish, PostPublish, Refused, Publishing, Published, Record, Clear, Copy
  <1>2. AtHand /\ Accounts /\ copyIsWhole
    BY <1>1 DEF ReportInv
  <1>3. /\ seed \in SeedRuns
        /\ stream.on => seed.at = "stream"
        /\ publish # "off" => seed.at = "publishing"
        /\ seed.at \in {"check", "stream", "checked", "publish"} => ~row.linked
        /\ seed.at \in {"publishing", "published"} => row.linked
        /\ seed.at \in Seeding => seed.todo # <<>>
    BY <1>1 DEF Inv, SeedInv
  <1>4. row \in Rows /\ (~row.linked => strategy = Null) /\ (row.linked => strategy \in StrategyRecords)
    BY DEF Inv, PublicationInv, SubmissionTyped, Before, After
  <1>5. seed.todo \in Seq(Sources)
    BY <1>3 DEF SeedRuns
  <1>6. QED
    BY <1>1, <1>2, <1>3, <1>4, <1>5

LEMMA AnEndKeepsReport ==
  ASSUME ReportInv, client' = client, seed' = NotRunning, copy'.of \in {copy.of, {}}
  PROVE  ReportInv'
  <1>1. seed'.at = "off"
    BY DEF NotRunning
  <1>2. copyIsWhole'
    BY DEF ReportInv, copyIsWhole
  <1>3. QED
    BY <1>1, <1>2 DEF ReportInv

LEMMA ResetKeepsReport ==
  ASSUME Inv, ReportInv, client' = client, Reset
  PROVE  ReportInv'
  <1>1. /\ copy' = copy /\ market' = {} /\ strategy' = Null /\ raced' = FALSE /\ client = "seed"
        /\ seed' = [NotRunning EXCEPT !.at = "boot", !.todo = Templates] \/ seed' = NotRunning
    BY DEF Reset, fresh
  <1>2. CASE seed' = NotRunning
    BY <1>1, <1>2, AnEndKeepsReport
  <1>3. CASE seed' = [NotRunning EXCEPT !.at = "boot", !.todo = Templates]
    <2>1. /\ seed'.at = "boot" /\ seed'.todo = Templates /\ seed'.published = {} /\ seed'.failed = {}
      BY <1>3 DEF NotRunning
    <2>2. AtHand'
      BY <1>1, <2>1 DEF AtHand, AtWork
    <2>3. Accounts'
      BY <1>1, <2>1 DEF Accounts, accountedFor, isTemplate
    <2>4. copyIsWhole'
      BY <1>1 DEF ReportInv, copyIsWhole
    <2>5. QED
      BY <1>1, <2>1, <2>2, <2>3, <2>4 DEF ReportInv
  <1>4. QED
    BY <1>1, <1>2, <1>3

\* A phase that is one of the run's own: nothing of the submission changes.
LEMMA OwnStepsKeepReport ==
  ASSUME Inv, ReportInv, client' = client, Boot \/ Record \/ Clear \/ Copy
  PROVE  ReportInv'
  <1>1. /\ AtHand /\ Accounts /\ seed \in SeedRuns /\ copyIsWhole /\ client = "seed"
    BY SeedFacts DEF SeedStep
  <1>2. PICK p \in {"create", "clear", "copy", "done"} :
          /\ seed' = at(p) /\ UNCHANGED <<vars, market>>
          /\ p = "create" => Boot /\ seed.at = "boot"
          /\ p = "clear" => Record /\ seed.at = "record"
          /\ p = "copy" => Clear /\ seed.at = "clear"
          /\ p = "done" => Copy /\ seed.at = "copy"
    BY DEF Boot, Record, Clear, Copy, on
  <1>3. UNCHANGED <<row, strategy, checked, raced>>
    BY <1>2 DEF vars
  <1>4. seed'.at = p /\ seed'.todo = seed.todo
    BY <1>1, <1>2 DEF at, SeedRuns
  <1>5. database' = database
    BY <1>2, <1>3, DatabaseStands
  <1>6. inForce = database /\ inForce' = database
    BY <1>2, <1>4, <1>5 DEF inForce, AtWork
  <1>7. Accounts'
    BY <1>1, <1>2, <1>6, AccountsStand DEF Accounts
  <1>8. AtHand'
    BY <1>1, <1>2, <1>3, <1>4 DEF AtHand, AtWork
  <1>9. \A s \in database : s.status = "live"
    <2>1. \A s \in market : s.status = "live"
      BY <1>1 DEF Accounts
    <2>2. strategy = Null \/ strategy.status = "live"
      BY <1>1, <1>2 DEF AtHand, AtWork
    <2>3. QED
      BY <2>1, <2>2 DEF database
  <1>10. copyIsWhole' /\ (p = "done" => copy' = [is |-> "whole", of |-> database])
    <2>1. CASE p = "done"
      <3>1. copy' = [is |-> "whole", of |-> database]
        BY <1>2, <2>1 DEF Copy
      <3>2. QED
        BY <1>9, <3>1 DEF copyIsWhole
    <2>2. CASE p = "copy"
      BY <1>2, <2>2 DEF Clear, NoCopy, copyIsWhole
    <2>3. CASE p \in {"create", "clear"}
      BY <1>1, <1>2, <2>3 DEF Boot, Record, copyIsWhole
    <2>4. QED
      BY <1>2, <2>1, <2>2, <2>3
  <1>11. p # "create" => seed.todo = <<>>
    BY <1>2 DEF ReportInv
  <1>12. QED
    BY <1>1, <1>4, <1>5, <1>7, <1>8, <1>10, <1>11 DEF ReportInv

\* A step of the submission at hand that leaves its strategy out of account.
LEMMA WorkKeepsReport ==
  ASSUME ReportInv, client' = client, client = "seed", seed.at # "off", seed \in SeedRuns,
         NEW p \in AtWork, seed' = at(p), UNCHANGED copy,
         \A s \in market' : s.status = "live",
         inForce \subseteq market',
         AtHand'
  PROVE  ReportInv'
  <1>1. seed'.at = p /\ inForce' = market'
    BY DEF at, SeedRuns, inForce
  <1>2. Accounts'
    BY <1>1, AccountsStand DEF ReportInv
  <1>3. copyIsWhole'
    BY DEF ReportInv, copyIsWhole
  <1>4. QED
    BY <1>1, <1>2, <1>3 DEF ReportInv, AtWork

LEMMA WorkStepsKeepReport ==
  ASSUME Inv, ReportInv, ServerTyped, client' = client,
         PostSubmission \/ PostCheck \/ ReadChecks \/ Passed \/ FallsBack \/ PostPublish \/ Publishing
  PROVE  ReportInv'
  <1>1. /\ client = "seed" /\ seed.at # "off" /\ AtHand /\ seed \in SeedRuns /\ row \in Rows
        /\ stream.on => seed.at = "stream"
        /\ seed.at \in {"check", "stream", "checked", "publish"} => strategy = Null
        /\ seed.at \in {"publishing", "published"} => row.linked /\ strategy \in StrategyRecords
    BY SeedFacts DEF SeedStep
  <1>2. \A s \in market : s.status = "live"
    BY SeedFacts DEF SeedStep, Accounts
  <1>3. ~raced /\ (seed.at \notin AtWork => strategy = Null \/ strategy.status = "live")
    BY <1>1 DEF AtHand
  <1>4. CASE PostSubmission
    <2>1. /\ seed.at = "create" /\ seed' = at("check") /\ row' = created(Head(seed.todo))
          /\ ~raced' /\ market' = database /\ copy' = copy
      BY <1>4 DEF PostSubmission, on, fresh
    <2>2. seed'.at = "check" /\ seed'.todo = seed.todo
      BY <1>1, <2>1 DEF at, SeedRuns
    <2>3. row'.source = Head(seed.todo) /\ noFallback(row'.checks)
      BY <2>1 DEF created, noFallback, Pending
    <2>4. AtHand'
      BY <2>1, <2>2, <2>3 DEF AtHand, AtWork
    <2>5. \A s \in market' : s.status = "live"
      BY <1>2, <1>3, <2>1 DEF database, AtWork
    <2>6. inForce = market' /\ "check" \in AtWork
      BY <2>1 DEF inForce, AtWork
    <2>7. QED
      BY <1>1, <2>1, <2>4, <2>5, <2>6, WorkKeepsReport
  <1>5. CASE PostCheck
    <2>1. /\ seed.at = "check" /\ seed' = at("stream") /\ UNCHANGED <<market, copy>> /\ raced' = FALSE
          /\ row' = [row EXCEPT !.checks = Pending, !.hash = Null, !.status = "checking"]
      BY <1>5 DEF PostCheck, on, StartCheck
    <2>2. seed'.at = "stream" /\ seed'.todo = seed.todo
      BY <1>1, <2>1 DEF at, SeedRuns
    <2>3. row'.source = Head(seed.todo) /\ noFallback(row'.checks)
      <3>1. row'.source = row.source /\ row'.checks = Pending
        BY <1>1, <2>1 DEF Rows
      <3>2. QED
        BY <1>1, <2>1, <3>1 DEF AtHand, AtWork, noFallback, Pending
    <2>4. AtHand'
      BY <2>1, <2>2, <2>3 DEF AtHand, AtWork
    <2>5. inForce = market' /\ "stream" \in AtWork
      BY <2>1 DEF inForce, AtWork
    <2>6. QED
      BY <1>1, <1>2, <2>1, <2>4, <2>5, WorkKeepsReport
  <1>6. CASE ReadChecks
    <2> DEFINE p == IF stream'.on THEN "stream" ELSE "checked"
    <2>1. seed.at = "stream" /\ seed' = at(p) /\ UNCHANGED <<market, copy>> /\ CheckStep
      BY <1>6 DEF ReadChecks, on
    <2>2. seed'.at = p /\ seed'.todo = seed.todo
      BY <1>1, <2>1 DEF at, SeedRuns
    <2>3. raced' = raced /\ (noFallback(row.checks) => noFallback(row'.checks)) /\ row'.source = row.source
      BY <2>1, ChecksKeepServerTyped, StreamSpeaks DEF Inv
    <2>4. row.source = Head(seed.todo) /\ noFallback(row.checks)
      BY <1>1, <2>1 DEF AtHand, AtWork
    <2>5. p \in {"stream", "checked"}
      OBVIOUS
    <2> HIDE DEF p
    <2>6. AtHand'
      BY <1>3, <2>2, <2>3, <2>4, <2>5 DEF AtHand, AtWork
    <2>7. inForce = market' /\ p \in AtWork
      BY <2>1, <2>5 DEF inForce, AtWork
    <2>8. QED
      BY <1>1, <1>2, <2>1, <2>6, <2>7, WorkKeepsReport
  <1>7. CASE Passed \/ FallsBack
    <2>1. PICK from \in Froms : seed' = decided(from) /\ (from = "cre-simulate" <=> Passed)
      <3>1. Passed => seed' = decided("cre-simulate")
        BY DEF Passed, on
      <3>2. FallsBack => seed' = decided("in-process") /\ ~Passed
        <4>1. ASSUME FallsBack, Passed PROVE FALSE
          BY <1>1, <4>1, ChecksAssumption DEF FallsBack, Passed, onlySimulate, allPassed
        <4>2. QED
          BY <4>1 DEF FallsBack, on
      <3>3. QED
        BY <1>7, <3>1, <3>2 DEF Froms
    <2>2. seed.at = "checked" /\ UNCHANGED <<strategy, market, copy, checked, raced>>
      BY <1>7 DEF Passed, FallsBack, on, vars, publishing, history
    <2>3. /\ seed'.at = "publish" /\ seed'.todo = seed.todo /\ seed'.from = from
          /\ seed'.published = seed.published /\ seed'.failed = seed.failed
      BY <1>1, <2>1 DEF decided, SeedRuns
    <2>4. row'.source = row.source /\ allPassed(row'.checks) /\ (noFallback(row'.checks) <=> from = "cre-simulate")
      <3>1. CASE Passed
        <4>1. row' = row /\ allPassed(row.checks)
          BY <3>1 DEF Passed, vars
        <4>2. noFallback(row.checks)
          BY <1>1, <2>2 DEF AtHand
        <4>3. QED
          BY <2>1, <3>1, <4>1, <4>2
      <3>2. CASE ~Passed
        <4>1. row' = [row EXCEPT !.checks = [passed |-> Checks, next |-> "fallback"], !.status = "simulating"]
          BY <1>7, <3>2 DEF FallsBack, fallbackToInProcess
        <4>2. row'.source = row.source /\ row'.checks = [passed |-> Checks, next |-> "fallback"]
          BY <1>1, <4>1 DEF Rows
        <4>3. QED
          BY <2>1, <3>2, <4>2 DEF allPassed, noFallback
      <3>3. QED
        BY <3>1, <3>2
    <2>5. AtHand'
      BY <1>1, <2>2, <2>3, <2>4 DEF AtHand, AtWork
    <2>6. inForce = market /\ inForce' = market
      BY <2>2, <2>3 DEF inForce, AtWork
    <2>7. Accounts /\ copyIsWhole
      BY SeedFacts, <1>7 DEF SeedStep
    <2>8. Accounts'
      <3>1. \A t \in Sources : accountedFor(t)' <=> isTemplate(t)'
        BY <2>3, <2>7 DEF Accounts, accountedFor, isTemplate
      <3>2. \A c \in seed'.published : \E s \in inForce' : bearsOut(c, s)'
        BY <2>3, <2>6, <2>7 DEF Accounts, bearsOut
      <3>3. QED
        BY <1>2, <2>2, <3>1, <3>2 DEF Accounts
    <2>9. copyIsWhole'
      BY <2>2, <2>7 DEF copyIsWhole
    <2>10. QED
      BY <1>1, <2>3, <2>5, <2>8, <2>9 DEF ReportInv
  <1>8. CASE PostPublish
    <2>1. /\ seed.at = "publish" /\ seed' = at("publishing") /\ UNCHANGED <<market, copy, raced>>
          /\ row' = [row EXCEPT !.linked = TRUE] /\ Publish
      BY <1>8 DEF PostPublish, on, Publish, history
    <2>2. seed'.at = "publishing" /\ seed'.todo = seed.todo /\ seed'.from = seed.from
      BY <1>1, <2>1 DEF at, SeedRuns
    <2>3. row'.source = row.source /\ row'.checks = row.checks
      BY <1>1, <2>1 DEF Rows
    <2>4. ~row.linked
      BY <1>1, <2>1 DEF Inv, SeedInv
    <2>5. strategy'.source = row.source
      BY <2>1, <2>4 DEF Publish
    <2>6. AtHand'
      BY <1>1, <2>1, <2>2, <2>3, <2>5 DEF AtHand, AtWork
    <2>7. inForce = market' /\ "publishing" \in AtWork
      BY <2>1 DEF inForce, AtWork
    <2>8. QED
      BY <1>1, <1>2, <2>1, <2>6, <2>7, WorkKeepsReport
  <1>9. CASE Publishing
    <2> DEFINE p == IF publish' = "off" THEN "published" ELSE "publishing"
    <2>1. seed.at = "publishing" /\ seed' = at(p) /\ UNCHANGED <<market, copy>> /\ PublishStep
      BY <1>9 DEF Publishing, on
    <2>2. seed'.at = p /\ seed'.todo = seed.todo /\ seed'.from = seed.from
      BY <1>1, <2>1 DEF at, SeedRuns
    <2>3. row'.source = row.source /\ row'.checks = row.checks
      BY <2>1, PublishStepLinked DEF Inv
    <2>4. raced' = raced
      BY <2>1 DEF PublishStep, fundGas, deployVault, readVault, fundReserve, isStrategyRegistered,
                  registerStrategy, adoptWorkflow, goLive, step, history
    <2>5. /\ strategy'.source = strategy.source
          /\ p = "published" => strategy'.status = "live"
      <3>1. strategy \in StrategyRecords
        BY <1>1, <2>1
      <3>2. CASE goLive
        BY <3>1, <3>2 DEF goLive, StrategyRecords
      <3>3. CASE deployVault
        <4>1. publish' # "off" /\ (strategy' = strategy \/ strategy' = [strategy EXCEPT !.vault = newVault])
          BY <3>3 DEF deployVault, step
        <4>2. QED
          BY <3>1, <4>1 DEF StrategyRecords
      <3>4. CASE PublishStep /\ ~goLive /\ ~deployVault
        BY <3>4 DEF PublishStep, fundGas, readVault, fundReserve, isStrategyRegistered,
                    registerStrategy, adoptWorkflow, step
      <3>5. QED
        BY <2>1, <3>2, <3>3, <3>4
    <2>6. p \in {"publishing", "published"}
      OBVIOUS
    <2> HIDE DEF p
    <2>7. AtHand'
      BY <1>1, <2>1, <2>2, <2>3, <2>4, <2>5, <2>6 DEF AtHand, AtWork
    <2>8. inForce = market' /\ p \in AtWork
      BY <2>1, <2>6 DEF inForce, AtWork
    <2>9. QED
      BY <1>1, <1>2, <2>1, <2>7, <2>8, WorkKeepsReport
  <1>10. QED
    BY <1>4, <1>5, <1>6, <1>7, <1>8, <1>9

\* A template is done with: it is among the failed, or there is a live
\* strategy that bears out what is claimed of it.
LEMMA OnwardsKeepsReport ==
  ASSUME Inv, ReportInv, client' = client, CannotPublish \/ Published
  PROVE  ReportInv'
  <1>1. /\ client = "seed" /\ seed.at # "off" /\ AtHand /\ Accounts /\ copyIsWhole
        /\ seed.at \in {"check", "stream", "checked", "publish"} => strategy = Null
        /\ seed.at \in {"publishing", "published"} => row.linked /\ strategy \in StrategyRecords
        /\ seed.at \in Seeding => seed.todo \in Seq(Sources) /\ seed.todo # <<>>
    BY SeedFacts DEF SeedStep
  <1>2. /\ seed'.at = IF Len(seed.todo) = 1 THEN "record" ELSE "create"
        /\ seed'.todo = Tail(seed.todo)
        /\ CannotPublish => /\ seed'.failed = seed.failed \cup {Head(seed.todo)}
                            /\ seed'.published = seed.published
        /\ ~CannotPublish =>
              /\ seed'.failed = seed.failed
              /\ seed'.published = seed.published \cup
                   {[source |-> Head(seed.todo), hash |-> strategy.hash, from |-> seed.from]}
    BY OnwardsKeepsSeedInv
  <1>3. /\ UNCHANGED <<vars, market, copy>>
        /\ CannotPublish => seed.at = "checked" /\ ~allPassed(row.checks)
        /\ ~CannotPublish => seed.at = "published"
    BY DEF CannotPublish, Published, on
  <1>4. UNCHANGED <<row, strategy, checked, raced>>
    BY <1>3 DEF vars
  <1>5. seed.at \in {"checked", "published"} /\ seed.todo \in Seq(Sources) /\ seed.todo # <<>>
    BY <1>1, <1>3 DEF Seeding
  <1>6. seed'.at \in {"record", "create"} /\ (seed'.at = "record" => seed'.todo = <<>>)
    BY <1>2, <1>5, TemplatesToGo
  <1>7. database' = database /\ inForce' = database /\ inForce = market /\ market \subseteq database
    <2>1. database' = database
      BY <1>3, <1>4, DatabaseStands
    <2>2. inForce' = database
      BY <1>6, <2>1 DEF inForce, AtWork
    <2>3. inForce = market
      BY <1>5 DEF inForce, AtWork
    <2>4. market \subseteq database
      BY DEF database
    <2>5. QED
      BY <2>1, <2>2, <2>3, <2>4
  <1>8. AtHand'
    BY <1>1, <1>3, <1>4, <1>6 DEF AtHand, AtWork
  <1>9. ASSUME NEW t \in Sources PROVE accountedFor(t)' <=> isTemplate(t)'
    <2>1. accountedFor(t) <=> isTemplate(t)
      BY <1>1 DEF Accounts
    <2>2. (\E i \in DOMAIN seed.todo : seed.todo[i] = t)
            <=> (t = Head(seed.todo) \/ \E i \in DOMAIN seed'.todo : seed'.todo[i] = t)
      <3> DEFINE todo == seed.todo
      <3>1. todo \in Seq(Sources) /\ todo # <<>> /\ seed'.todo = Tail(todo)
        BY <1>2, <1>5
      <3> HIDE DEF todo
      <3>2. (\E i \in DOMAIN todo : todo[i] = t)
              <=> (t = Head(todo) \/ \E i \in DOMAIN Tail(todo) : Tail(todo)[i] = t)
        BY <3>1, TemplatesToGo
      <3>3. (\E i \in DOMAIN todo : todo[i] = t)
              <=> (t = Head(todo) \/ \E i \in DOMAIN seed'.todo : seed'.todo[i] = t)
        BY <3>1, <3>2
      <3>4. QED
        BY <3>3 DEF todo
    <2>3. ((\E p \in seed'.published : p.source = t) \/ t \in seed'.failed)
            <=> ((\E p \in seed.published : p.source = t) \/ t \in seed.failed \/ t = Head(seed.todo))
      <3>1. CASE CannotPublish
        BY <1>2, <3>1
      <3>2. CASE ~CannotPublish
        <4> DEFINE claim == [source |-> Head(seed.todo), hash |-> strategy.hash, from |-> seed.from]
        <4>1. claim.source = Head(seed.todo) /\ seed'.published = seed.published \cup {claim}
              /\ seed'.failed = seed.failed
          BY <1>2, <3>2
        <4> HIDE DEF claim
        <4>2. QED
          BY <4>1
      <3>3. QED
        BY <3>1, <3>2
    <2>4. QED
      BY <2>1, <2>2, <2>3 DEF accountedFor, isTemplate
  <1>10. ASSUME NEW p \in seed'.published PROVE \E s \in database : bearsOut(p, s)
    <2>1. CASE p \in seed.published
      BY <1>1, <1>7, <2>1 DEF Accounts
    <2>2. CASE p \notin seed.published
      <3>1. /\ ~CannotPublish /\ seed.at = "published"
            /\ p = [source |-> Head(seed.todo), hash |-> strategy.hash, from |-> seed.from]
        BY <1>2, <1>3, <1>10, <2>2
      <3>2. /\ strategy.source = row.source /\ row.source = Head(seed.todo) /\ strategy.status = "live"
            /\ allPassed(row.checks) /\ (noFallback(row.checks) <=> seed.from = "cre-simulate") /\ ~raced
        BY <1>1, <3>1 DEF AtHand, AtWork
      <3>3. noFallback(row.checks) => row.source = checked
        <4>1. row.hash # Null /\ PublishableIsChecked
          BY <1>1, <3>1 DEF Inv, PublicationInv, After
        <4>2. QED
          BY <3>2, <4>1 DEF PublishableIsChecked, noFallback
      <3>4. strategy # Null
        BY <1>1, <3>1, NoRowIsNull DEF StrategyRecords
      <3> DEFINE s == [source |-> strategy.source, hash |-> strategy.hash, status |-> strategy.status,
                       enclave |-> row.checks.next # "fallback", simulated |-> checked = row.source]
      <3>5. s \in database
        BY <3>4 DEF database
      <3>6. bearsOut(p, s)
        BY <3>1, <3>2, <3>3 DEF bearsOut, noFallback
      <3>7. QED
        BY <3>5, <3>6
    <2>3. QED
      BY <2>1, <2>2
  <1>11. Accounts'
    <2>1. \A s \in market' : s.status = "live"
      BY <1>1, <1>3 DEF Accounts
    <2>2. \A p \in seed'.published : \E s \in inForce' : bearsOut(p, s)'
      BY <1>7, <1>10 DEF bearsOut
    <2>3. QED
      BY <1>9, <2>1, <2>2 DEF Accounts
  <1>12. copyIsWhole'
    BY <1>1, <1>3 DEF copyIsWhole
  <1>13. QED
    BY <1>1, <1>6, <1>8, <1>11, <1>12 DEF ReportInv

LEMMA StepKeepsReportInv ==
  ASSUME Inv, ReportInv, ServerTyped, [SeedNext]_allSeed
  PROVE  ReportInv'
  <1>1. client' = client
    BY StepMoves
  <1>2. CASE CreateNext /\ UNCHANGED seedVars
    <2>1. client # "seed" /\ seed' = seed /\ copy' = copy
      BY <1>2, OthersLeaveTheSeed DEF Inv, seedVars
    <2>2. seed.at = "off"
      BY <2>1 DEF ReportInv
    <2>3. QED
      BY <1>1, <2>1, <2>2 DEF ReportInv, copyIsWhole
  <1>3. CASE Reset
    BY <1>1, <1>3, ResetKeepsReport
  <1>4. CASE SeedThrows \/ SeedDies \/ Refused
    <2>1. seed' = NotRunning /\ copy'.of \in {copy.of, {}}
      <3>1. CASE SeedThrows \/ Refused
        BY <3>1 DEF SeedThrows, Refused, given, on
      <3>2. CASE SeedDies
        <4>1. copy' = copy \/ copy' = [NoCopy EXCEPT !.is = "torn"]
          BY <3>2 DEF SeedDies
        <4>2. seed' = NotRunning
          BY <3>2 DEF SeedDies, given
        <4>3. QED
          BY <4>1, <4>2 DEF NoCopy
      <3>3. QED
        BY <1>4, <3>1, <3>2
    <2>2. QED
      BY <1>1, <2>1, AnEndKeepsReport
  <1>5. CASE Boot \/ Record \/ Clear \/ Copy
    BY <1>1, <1>5, OwnStepsKeepReport
  <1>6. CASE PostSubmission \/ PostCheck \/ ReadChecks \/ Passed \/ FallsBack \/ PostPublish \/ Publishing
    BY <1>1, <1>6, WorkStepsKeepReport
  <1>7. CASE CannotPublish \/ Published
    BY <1>1, <1>7, OnwardsKeepsReport
  <1>8. CASE UNCHANGED allSeed
    <2>1. UNCHANGED <<client, row, strategy, checked, raced, seed, market, copy>>
      BY <1>8 DEF allSeed, all, vars, seedVars
    <2>2. database' = database
      BY <2>1, DatabaseStands
    <2>3. AtHand => AtHand'
      BY <2>1 DEF AtHand
    <2>4. Accounts => Accounts'
      BY <2>1, <2>2 DEF Accounts, accountedFor, inForce, bearsOut
    <2>5. QED
      BY <2>1, <2>2, <2>3, <2>4 DEF ReportInv, copyIsWhole
  <1>9. QED
    BY <1>2, <1>3, <1>4, <1>5, <1>6, <1>7, <1>8 DEF SeedNext, SeedStep

(***************************************************************************)
(* "A fallback is never dressed up as an enclave run" (seed/index.ts): a   *)
(* run that ends has accounted for every template, every strategy it says  *)
(* it published is live under that hash, by a decision of the enclave that *)
(* did run its source or by a row that says otherwise, the copy is of the  *)
(* whole database, and no copy ever holds what is half published.          *)
(***************************************************************************)
THEOREM TheSeedReportsTheTruth == SeedSpec => []SeedReportsTheTruth
  <1>1. ASSUME Inv, ReportInv PROVE SeedReportsTheTruth
    <2>1. copyIsWhole
      BY <1>1 DEF ReportInv
    <2>2. ASSUME seed.at = "done" PROVE reportIsTrue
      <3>1. /\ Accounts /\ seed.todo = <<>> /\ copy = [is |-> "whole", of |-> database]
        BY <1>1, <2>2 DEF ReportInv
      <3>2. seed \in SeedRuns /\ inForce = database
        BY <1>1, <2>2 DEF Inv, SeedInv, inForce, AtWork
      <3>3. \A p \in seed.published : p.source \in Sources
        BY <3>2 DEF SeedRuns, Claims
      <3>4. seed.failed \subseteq Sources
        BY <3>2 DEF SeedRuns
      <3>5. \A i \in DOMAIN Templates : Templates[i] \in Sources
        BY NotRunningTyped
      <3>6. DOMAIN seed.todo = {}
        BY <3>1
      <3>7. \A t \in Sources : (\E p \in seed.published : p.source = t) \/ t \in seed.failed
                                 <=> \E i \in DOMAIN Templates : Templates[i] = t
        BY <3>1, <3>6 DEF Accounts, accountedFor, isTemplate
      <3>8. {p.source : p \in seed.published} \cup seed.failed = {Templates[i] : i \in DOMAIN Templates}
        BY <3>3, <3>4, <3>5, <3>7
      <3>9. ASSUME NEW p \in seed.published
            PROVE  \E s \in rowOf(p) : /\ s.enclave <=> p.from = "cre-simulate"
                                       /\ s.enclave => s.simulated
        BY <3>1, <3>2 DEF Accounts, bearsOut, rowOf
      <3>10. QED
        BY <3>1, <3>8, <3>9 DEF reportIsTrue
    <2>3. QED
      BY <2>1, <2>2 DEF SeedReportsTheTruth, reportIsTrue
  <1>2. SeedInit => ReportInv
    BY DEF SeedInit, NotRunning, NoCopy, ReportInv, copyIsWhole
  <1>3. FlowInv /\ ReportInv /\ [SeedNext]_allSeed => ReportInv'
    BY StepKeepsReportInv DEF FlowInv
  <1>4. FlowInv /\ ReportInv => SeedReportsTheTruth
    BY <1>1 DEF FlowInv
  <1>5. QED
    BY <1>2, <1>3, <1>4, FlowInvariant, PTL DEF SeedSpec

=============================================================================
