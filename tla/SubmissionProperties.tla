------------------------ MODULE SubmissionProperties ------------------------
(***************************************************************************)
(* What a publication promises: the code that runs is the code that was    *)
(* checked, and nothing is paid or deployed twice.  And what the page      *)
(* promises a creator about what it publishes.                             *)
(***************************************************************************)
EXTENDS Seed

CheckState == [passed : 0 .. Checks, next : {"pending", "running", "failed", "fallback"}]

TypeOK ==
  /\ row \in [source : Sources, checks : CheckState, hash : Sources \cup {Null},
              status : {"draft", "checking", "simulating", "failed", "live"},
              linked : BOOLEAN]
  /\ stream \in [on : BOOLEAN, source : Sources \cup {Null}, checks : CheckState,
                 aborted : BOOLEAN]
  /\ strategy \in {Null} \cup [source : Sources, hash : Sources,
                               vault : {Null} \cup DOMAIN vaults, status : {"draft", "live"}]
  /\ publish \in {"off", "gas", "vault", "readVault", "reserve", "isRegistered",
                  "registry", "workflow", "live"}
  /\ topUp \in 0 .. Target
  /\ \A v \in DOMAIN vaults : vaults[v] \in Nat
  /\ registry \in {Null} \cup [vault : DOMAIN vaults, hash : Sources]
  /\ secrets \in [{"submission", "strategy"} -> Ciphertexts \cup {Null}]
  /\ draftDir \in Sources \cup {Null} /\ liveDir \in Sources \cup {Null}
  /\ checked \in Sources \cup {Null}
  /\ raced \in BOOLEAN

isLive == strategy # Null /\ strategy.status = "live"

(***************************************************************************)
(* A row that may publish was checked as it stands: every check passed and *)
(* the hash are those of the source on the row, whatever streams were cut  *)
(* off, joined late or threw, as long as no edit landed while the latest   *)
(* checks ran; or the row itself says that one of them was the seed's      *)
(* fallback.                                                               *)
(***************************************************************************)
PublishableIsChecked ==
  allPassed(row.checks) /\ row.hash # Null /\ ~raced =>
    /\ row.hash = row.source
    /\ row.source = checked \/ row.checks.next = "fallback"

(***************************************************************************)
(* What is published is frozen: neither an edit nor a check stream still   *)
(* running rewrites a submission that has a strategy.  (A row that is      *)
(* as it was created is another submission's.)                             *)
(***************************************************************************)
PublishedIsFrozen ==
  [][row.linked /\ row' # created(row'.source) =>
                   /\ row'.source = row.source
                   /\ row'.checks = row.checks
                   /\ row'.hash = row.hash]_vars

(***************************************************************************)
(* A live strategy is whole: its vault is prefunded, the anchor names that *)
(* vault and the hash on its row, a workflow directory is in place, and it *)
(* has the parameters held for its submission, however many calls it took  *)
(* to get there.                                                           *)
(***************************************************************************)
liveIsComplete ==
  isLive =>
    /\ strategy.vault # Null
    /\ vaults[strategy.vault] >= Target
    /\ registry = [vault |-> strategy.vault, hash |-> strategy.hash]
    /\ liveDir # Null
    /\ secrets.strategy = secrets.submission

(***************************************************************************)
(* pipeline.ts: "the binary that passed cre-simulate is the binary the     *)
(* strategy publishes with".  The directory the scheduler goes on          *)
(* simulating builds the hash that was anchored, as long as no edit landed *)
(* while the latest checks ran.                                            *)
(***************************************************************************)
runsTheAnchoredBinary == isLive /\ ~raced => liveDir = registry.hash

LiveIsWhole == liveIsComplete /\ runsTheAnchoredBinary

(***************************************************************************)
(* The platform's float is spent once: no retry, however its predecessor   *)
(* ended, funds a reserve past the target.                                 *)
(***************************************************************************)
ReserveFundedOnce == \A v \in DOMAIN vaults : vaults[v] <= Target

-----------------------------------------------------------------------------
(***************************************************************************)
(* submissions.ts on editing: "Keeping the old passes would let a          *)
(* submission publish a binary nothing ever built, so they go back to      *)
(* pending along with the hashes that described the source they were run   *)
(* against."  The hash on a published row is then that of its source.      *)
(***************************************************************************)
PublishedHashIsOfTheSource == strategy # Null => strategy.hash = strategy.source

-----------------------------------------------------------------------------
Request == [kind : {"none", "create", "patch", "secrets", "publish"},
            source : Sources \cup {Null}, secret : Values \cup {Null},
            value : Values \cup {Null}]

FlowTypeOK ==
  /\ TypeOK
  /\ client \in {"page", "api", "seed"}
  /\ page.step \in 0 .. 3 /\ page.reached \in 1 .. 3 /\ page.step <= page.reached
  /\ page.source \in Sources
  /\ {page.checkedSource, page.submitted} \subseteq Sources \cup {Null}
  /\ {page.value, page.cipher} \subseteq Values \cup {Null}
  /\ page.draft \in BOOLEAN
  /\ page.checks \in [passed : 0 .. Checks, next : {"pending", "running", "failed"}]
  /\ page.run \in {"off", "patch", "check", "open"}
  /\ calls \in [Buttons -> Request]
  /\ edits \in 0 .. MaxEdits /\ failures \in 0 .. MaxFailures[client]
  /\ shown \in Sources \cup {Null}
  /\ {severed, crossed} \subseteq BOOLEAN

(***************************************************************************)
(* The source that goes live is the one in the editor when the creator     *)
(* pressed publish, although publishing saves nothing and the button only  *)
(* knows the checks it last heard of: going back, editing, saving beside a *)
(* run and failing halfway do not part the two.  Two accidents do, and are *)
(* let off here: the end of a run lost on its way, so that its checks pass *)
(* for those of the run before, and a save that overtakes the run's own.   *)
(***************************************************************************)
PublishesWhatItShows ==
  /\ FlowTypeOK
  /\ client = "page" /\ strategy # Null /\ ~severed /\ ~crossed => strategy.source = shown

(***************************************************************************)
(* No button spins for ever: whatever is cut off, refused or thrown, a     *)
(* request that is waited for comes to an end, and so does a run of the    *)
(* checks.  publish.ts: "the whole thing is safe to call twice": a         *)
(* publication cut off anywhere is finished by calling it again.  And a    *)
(* seed run ends.                                                          *)
(***************************************************************************)
publicationStuck == client = "api" /\ row.linked /\ row.status # "live"

unfinished == streaming \/ publicationStuck \/ underWay

NothingHangs ==
  /\ \A b \in Buttons : calls[b] # None ~> calls[b] = None
  /\ unfinished ~> ~unfinished

=============================================================================
