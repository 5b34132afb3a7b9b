----------------------------- MODULE Submission -----------------------------
(***************************************************************************)
(* backend/src/routes/submissions.ts, strategy/pipeline.ts and             *)
(* strategy/publish.ts: a creator's draft, the sanity checks streamed over *)
(* it, and the publication that puts it on the chain.                      *)
(*                                                                         *)
(* A route handler runs to its first await undisturbed; the check stream   *)
(* and the publication are chains of awaits, so edits land between their   *)
(* steps, and either may be cut off: the client leaves, a call throws, or  *)
(* the process dies.                                                       *)
(*                                                                         *)
(* The checks pass in order and stop at the first failure: their state is  *)
(* how many passed and what the next one is doing.  A binary hash is the   *)
(* source it was built from; a workflow directory likewise.                *)
(***************************************************************************)
EXTENDS Integers, FiniteSets

CONSTANTS
  Sources,
  Ciphertexts, \* of the one parameter a strategy may declare
  Checks,    \* number of checks; the last two are cre-build and cre-simulate
  Target,    \* VAULT_RESERVE_USDC
  MaxVaults, \* bound: vaults deployed
  Faults,    \* what may go wrong: "throw", "unheard", "crash", "disk"
  Null

ASSUME ChecksAssumption == Checks \in Nat /\ Checks >= 2
ASSUME TargetAssumption == Target \in Nat
ASSUME MaxVaultsAssumption == MaxVaults \in Nat
ASSUME NullAssumption == Null \notin Sources \cup Ciphertexts \cup Int
ASSUME NoRowIsNull == Null \notin [source : Sources, hash : Sources, vault : {Null} \cup Nat,
                                   status : {"draft", "live"}]

VARIABLES
  row,       \* the submission's row
  stream,    \* what POST /check holds while it streams
  strategy,  \* the strategies row, or Null
  publish,   \* where the publication in progress is, see its steps
  topUp,     \* what it read as missing from the reserve
  vaults,    \* vaults deployed, each with its reserve
  registry,  \* the on-chain anchor, or Null
  secrets,   \* the parameter's ciphertext held for the submission, and for the strategy
  draftDir,  \* workflow directories: submissions/<id>
  liveDir,   \* and strategies/<slug>
  checked,   \* the source of the latest run that passed (history)
  raced      \* an edit landed while the latest checks ran (history)

vars == <<row, stream, strategy, publish, topUp, vaults, registry, secrets,
          draftDir, liveDir, checked, raced>>
history == <<checked, raced>>
onChain == <<vaults, registry>>
publishing == <<strategy, publish, topUp, onChain, secrets, liveDir>>

Pending == [passed |-> 0, next |-> "pending"]
Off == [on |-> FALSE, source |-> Null, checks |-> Pending, aborted |-> FALSE]

allPassed(checks) == checks.passed = Checks

\* POST /submissions.
created(s) == [source |-> s, checks |-> Pending, hash |-> Null, status |-> "draft",
               linked |-> FALSE]

Init ==
  /\ \E s \in Sources : row = created(s)
  /\ stream = Off
  /\ strategy = Null
  /\ publish = "off"
  /\ topUp = 0
  /\ vaults = <<>>
  /\ registry = Null
  /\ secrets = [submission |-> Null, strategy |-> Null]
  /\ draftDir = Null
  /\ liveDir = Null
  /\ checked = Null
  /\ raced = FALSE

\* Variant: a submission is editable until it is live.
editableUntilLive == row.status # "live"

requireEditable == row.status # "live" /\ ~row.linked

-----------------------------------------------------------------------------
(***************************************************************************)
(* PATCH: new code goes back to unchecked.                                 *)
(***************************************************************************)
\* Variant: an edit keeps what the checks found.
PatchKeepingChecks(s) ==
  /\ requireEditable
  /\ s # row.source
  /\ row' = [row EXCEPT !.source = s, !.status = "draft"]
  /\ raced' = (raced \/ stream.on)
  /\ UNCHANGED <<stream, publishing, draftDir, checked>>

Patch(s) ==
  /\ requireEditable
  /\ s # row.source
  /\ row' = [row EXCEPT !.source = s, !.checks = Pending, !.hash = Null, !.status = "draft"]
  /\ raced' = (raced \/ stream.on)
  /\ UNCHANGED <<stream, publishing, draftDir, checked>>

\* POST secrets: the set posted is the set held.
PostSecrets(c) ==
  /\ requireEditable
  /\ secrets' = [secrets EXCEPT !.submission = c]
  /\ UNCHANGED <<row, stream, strategy, publish, topUp, onChain, draftDir, liveDir,
                 history>>

-----------------------------------------------------------------------------
(***************************************************************************)
(* POST check: one run per submission.  Every event rewrites the row with  *)
(* what the run knows, unless the client has gone.                         *)
(***************************************************************************)
written(checks, hash, status) ==
  IF stream.aborted THEN row
  ELSE [row EXCEPT !.checks = checks, !.hash = hash, !.status = status]

StartCheck ==
  /\ requireEditable
  /\ ~stream.on
  /\ stream' = [Off EXCEPT !.on = TRUE, !.source = row.source]
  /\ row' = [row EXCEPT !.checks = Pending, !.hash = Null, !.status = "checking"]
  /\ raced' = FALSE
  /\ UNCHANGED <<publishing, draftDir, checked>>

\* Variant: the generator goes on after the last check.
CheckOn(next) ==
  /\ stream.on
  /\ stream.checks.next = IF next = "running" THEN "pending" ELSE "running"
  /\ stream' = [stream EXCEPT !.checks =
       IF next = "passed" THEN [passed |-> @.passed + 1, next |-> "pending"]
                          ELSE [@ EXCEPT !.next = next]]
  /\ row' = written(stream'.checks, Null, "checking")
  /\ UNCHANGED <<publishing, draftDir, history>>

\* One event of the generator: the next check is running, passed or failed.
\* cre-build generates the directory from the source the run was given.
Check(next) ==
  LET was    == stream.checks
      checks == IF next = "passed" THEN [passed |-> was.passed + 1, next |-> "pending"]
                                   ELSE [was EXCEPT !.next = next]
  IN
  /\ stream.on
  /\ ~allPassed(was)
  /\ was.next = IF next = "running" THEN "pending" ELSE "running"
  /\ row' = written(checks, Null, "checking")
  /\ stream' = IF stream.aborted THEN Off ELSE [stream EXCEPT !.checks = checks]
  /\ draftDir' = IF was.passed = Checks - 2 /\ next # "running" THEN stream.source
                                                                ELSE draftDir
  /\ UNCHANGED <<publishing, history>>

\* The generator returns: at the end, at a failure, or before the two cre
\* checks on a host without the CLI.  The hash is known once cre-build passed.
FinishCheck ==
  LET checks == stream.checks
      hash   == IF checks.passed >= Checks - 1 THEN stream.source ELSE Null
  IN
  /\ stream.on
  /\ \/ allPassed(checks)
     \/ checks.next = "failed"
     \/ checks.passed = Checks - 2 /\ checks.next = "pending"
  /\ row' = written(checks, hash, IF allPassed(checks) THEN "simulating" ELSE "failed")
  /\ checked' = IF allPassed(checks) THEN stream.source ELSE checked
  /\ stream' = Off
  /\ UNCHANGED <<publishing, draftDir, raced>>

\* The generator throws; the check it was at is marked failed.
CheckThrows ==
  /\ "throw" \in Faults
  /\ stream.on
  /\ stream.checks.next # "failed"
  /\ row' = written([stream.checks EXCEPT !.next = IF @ = "running" THEN "failed" ELSE @],
                    Null, "failed")
  /\ stream' = Off
  /\ UNCHANGED <<publishing, draftDir, history>>

Disconnect ==
  /\ stream.on
  /\ ~stream.aborted
  /\ stream' = [stream EXCEPT !.aborted = TRUE]
  /\ UNCHANGED <<row, publishing, draftDir, history>>

-----------------------------------------------------------------------------
(***************************************************************************)
(* POST publish.  The strategy row, the link and the agent wallet are      *)
(* written in the turn of the call; a call that finds one in progress      *)
(* joins it; a later call starts over and skips what it finds done.        *)
(***************************************************************************)
\* Variant: a submission that has a strategy is not taken up again.
PublishOnce ==
  /\ publish = "off"
  /\ allPassed(row.checks)
  /\ row.hash # Null
  /\ ~row.linked
  /\ strategy' = [source |-> row.source, hash |-> row.hash, vault |-> Null,
                  status |-> "draft"]
  /\ row' = [row EXCEPT !.linked = TRUE]
  /\ publish' = "gas"
  /\ UNCHANGED <<stream, topUp, onChain, secrets, draftDir, liveDir, history>>

Publish ==
  /\ publish = "off"
  /\ allPassed(row.checks)
  /\ row.hash # Null
  /\ strategy' = IF row.linked THEN strategy
                 ELSE [source |-> row.source, hash |-> row.hash, vault |-> Null,
                       status |-> "draft"]
  /\ row' = [row EXCEPT !.linked = TRUE]
  /\ publish' = "gas"
  /\ UNCHANGED <<stream, topUp, onChain, secrets, draftDir, liveDir, history>>

\* A step of the publication that leaves the submission and the checks alone.
step(from, to) ==
  /\ publish = from
  /\ publish' = to
  /\ UNCHANGED <<row, stream, secrets, draftDir, history>>

fundGas == step("gas", "vault") /\ UNCHANGED <<strategy, topUp, onChain, liveDir>>

newVault == Cardinality(DOMAIN vaults) + 1

deployed ==
  /\ newVault <= MaxVaults
  /\ vaults' = [v \in 1 .. newVault |-> IF v = newVault THEN 0 ELSE vaults[v]]

\* Variant: a vault that is already on the row is taken to be prefunded.
deployVaultOnce ==
  /\ step("vault", IF strategy.vault = Null THEN "readVault" ELSE "isRegistered")
  /\ IF strategy.vault = Null
     THEN deployed /\ strategy' = [strategy EXCEPT !.vault = newVault]
     ELSE UNCHANGED <<vaults, strategy>>
  /\ UNCHANGED <<topUp, registry, liveDir>>

deployVault ==
  /\ step("vault", "readVault")
  /\ IF strategy.vault = Null
     THEN deployed /\ strategy' = [strategy EXCEPT !.vault = newVault]
     ELSE UNCHANGED <<vaults, strategy>>
  /\ UNCHANGED <<topUp, registry, liveDir>>

\* Variant: the whole prefund, whatever is there.
readVaultWithoutLooking ==
  /\ step("readVault", "reserve")
  /\ topUp' = Target
  /\ UNCHANGED <<strategy, onChain, liveDir>>

readVault ==
  LET missing == Target - vaults[strategy.vault] IN
  /\ step("readVault", IF missing > 0 THEN "reserve" ELSE "isRegistered")
  /\ topUp' = IF missing > 0 THEN missing ELSE 0
  /\ UNCHANGED <<strategy, onChain, liveDir>>

funded == vaults' = [vaults EXCEPT ![strategy.vault] = @ + topUp]
\* register(): a second registration rewrites the record.
registered == registry' = [vault |-> strategy.vault, hash |-> strategy.hash]
isRegistered == registry # Null

fundReserve ==
  /\ step("reserve", "isRegistered")
  /\ funded
  /\ topUp' = 0
  /\ UNCHANGED <<strategy, registry, liveDir>>

isStrategyRegistered ==
  /\ step("isRegistered", IF isRegistered THEN "workflow" ELSE "registry")
  /\ UNCHANGED <<strategy, topUp, onChain, liveDir>>

registerStrategy ==
  /\ step("registry", "workflow")
  /\ registered
  /\ UNCHANGED <<strategy, topUp, vaults, liveDir>>

\* The checked directory is adopted, or made again if it is gone.
adoptWorkflow ==
  /\ publish = "workflow"
  /\ publish' = "live"
  /\ IF liveDir # Null THEN UNCHANGED <<liveDir, draftDir>>
     ELSE /\ liveDir' = IF draftDir # Null THEN draftDir ELSE row.source
          /\ draftDir' = Null
  /\ UNCHANGED <<row, stream, history, strategy, topUp, onChain, secrets>>

\* A parameter the strategy already has is left as it is.
carrySecrets ==
  secrets' = [secrets EXCEPT !.strategy = IF @ = Null THEN secrets.submission ELSE @]

goLive ==
  /\ publish = "live"
  /\ publish' = "off"
  /\ carrySecrets
  /\ strategy' = [strategy EXCEPT !.status = "live"]
  /\ row' = [row EXCEPT !.status = "live"]
  /\ UNCHANGED <<stream, topUp, onChain, draftDir, liveDir, history>>

\* A call throws before it has any effect: the publication rejects.
PublishThrows ==
  /\ "throw" \in Faults
  /\ publish # "off"
  /\ publish' = "off"
  /\ topUp' = 0
  /\ UNCHANGED <<row, stream, strategy, onChain, secrets, draftDir, liveDir, history>>

\* A transaction is mined and its receipt never arrives.
PublishUnheard ==
  /\ "unheard" \in Faults
  /\ \/ publish = "vault" /\ strategy.vault = Null /\ newVault < MaxVaults
        /\ deployed /\ UNCHANGED registry
     \/ publish = "reserve" /\ funded /\ UNCHANGED registry
     \/ publish = "registry" /\ registered /\ UNCHANGED vaults
  /\ publish' = "off"
  /\ topUp' = 0
  /\ UNCHANGED <<row, stream, strategy, secrets, draftDir, liveDir, history>>

-----------------------------------------------------------------------------
\* The process dies: streams and publications in progress are forgotten.
Crash ==
  /\ "crash" \in Faults
  /\ stream.on \/ publish # "off"
  /\ stream' = Off
  /\ publish' = "off"
  /\ topUp' = 0
  /\ UNCHANGED <<row, strategy, onChain, secrets, draftDir, liveDir, history>>

\* The generated directory of the draft is lost.
LoseDraftDir ==
  /\ "disk" \in Faults
  /\ draftDir # Null
  /\ draftDir' = Null
  /\ UNCHANGED <<row, stream, publishing, history>>

PublishStep ==
  \/ fundGas
  \/ deployVault
  \/ readVault
  \/ fundReserve
  \/ isStrategyRegistered
  \/ registerStrategy
  \/ adoptWorkflow
  \/ goLive

\* What any client of the API may ask for, in any order.
Ask ==
  \/ \E s \in Sources : Patch(s)
  \/ \E c \in Ciphertexts : PostSecrets(c)
  \/ StartCheck
  \/ Disconnect
  \/ Publish

CheckStep ==
  \/ \E next \in {"running", "passed", "failed"} : Check(next)
  \/ FinishCheck
  \/ CheckThrows

Next == Ask \/ CheckStep \/ PublishStep \/ PublishThrows \/ PublishUnheard
        \/ Crash \/ LoseDraftDir

=============================================================================
