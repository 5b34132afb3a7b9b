----------------------------- MODULE Simulation -----------------------------
(***************************************************************************)
(* How a strategy comes to a decision: decide() of                         *)
(* backend/src/scheduler/tick.ts over the workflow directory, the cre      *)
(* child process, the workflow it runs and the oracle that answers it; and *)
(* the checks and the publication that hand the directory over.            *)
(*                                                                         *)
(* A job is one chain of awaits: a tick, or the draft's checks and         *)
(* publication.  Those of one process share its event loop; a child runs   *)
(* beside them.  Nothing keeps two processes out of one directory: the     *)
(* server and a tick-once from a command line may tick one strategy.       *)
(***************************************************************************)
EXTENDS Oracle

CONSTANTS
  Sources,       \* strategy sources; a binary's hash is the source it is built from
  Flat,          \* the empty allocation, {}
  Null,
  Strategies,
  Server,        \* the process that serves the routes; others are command lines
  Books,         \* the allocations a strategy may hold
  ProbedBooks,   \* the ones discoverSecretIds tries: flat and fully allocated
  Asks(_, _, _), \* Asks(source, step, book): the secret ids onTick reaches for
  Clock,         \* the intervals the clock may show at a backfill
  Conditions,    \* records, see the variable
  MaxFaults      \* bound: crashes and lost directories

ASSUME SourcesAssumption == Sources # {} /\ Null \notin Sources
ASSUME BooksAssumption == Flat \in Books /\ ProbedBooks \subseteq Books
ASSUME ServerAssumption == Server \in Processes
ASSUME ConditionsAssumption ==
  /\ MaxFaults \in Nat
  /\ \A c \in Conditions : c.live \subseteq Strategies /\ c.runs \in Nat

\* Two processes that find the table empty look at the clock at much the same time.
ASSUME ClockAssumption ==
  \A a, b \in Clock : a \in Nat /\ a >= BackfillTicks /\ a - b < BackfillTicks

VARIABLES
  conditions, \* live: the strategies that begin live, the others as drafts;
              \* tickers: the processes that tick; runs: a bound on the checks and
              \* publications begun; faults: of "throw", "crash", "lost"
  dir,        \* dir[scope, key]: submissions/<id> and strategies/<slug>
  job,        \* the jobs, by slot and strategy
  sourceOf,   \* the strategies row: the published source, or Null
  checkedAs,  \* the source the draft's latest checks passed, or Null
  live,       \* strategies whose status is live
  held,       \* the book each strategy holds
  execution,  \* each strategy's latest execution row, or Null
  crossed,    \* history: the jobs that met another in their directory
  faults, begun

rows == <<sourceOf, checkedAs, live, held, execution, crossed>>
bounds == <<conditions, faults, begun>>
vars == <<oracleVars, dir, job, rows, bounds>>

-----------------------------------------------------------------------------
(***************************************************************************)
(* strategy/workspace.ts: the workflow directories the backend keeps on    *)
(* disk, and the steps that generate, reuse and move them.                 *)
(*                                                                         *)
(* A directory is what a simulation needs of it: the strategy it was       *)
(* generated from, whether node_modules is linked, the secret ids its      *)
(* secrets file declares, the tick its config was written for, and the     *)
(* metadata file.  Each step here is one await of the code, so anything    *)
(* may happen between two; writing a file empties it first.  A file is     *)
(* written only into a directory that is there, and no lock is taken.      *)
(*                                                                         *)
(* alone is history: no other job was at work in the directory beside the  *)
(* one that wrote this metadata.                                           *)
(***************************************************************************)
Absent == [source |-> Null, linked |-> FALSE, secrets |-> Null, config |-> Null,
           meta |-> Null]

\* The config generateWorkflow writes, before any tick's own.
DefaultConfig == [tick |-> 0, book |-> Flat]

Meta(source, ids, hash, alone) ==
  [source |-> source, secrets |-> ids, hash |-> hash, alone |-> alone]

contents(d, now) == dir' = [dir EXCEPT ![d] = now]

\* Everything a simulate needs, by the four files the code looks at.
intact(d) == dir[d].source # Null /\ dir[d].linked

reusable(d, source, ids) ==
  /\ dir[d].meta # Null
  /\ dir[d].meta.source = source
  /\ dir[d].meta.secrets = ids
  /\ intact(d)

openable(d) == dir[d].meta # Null /\ intact(d)
there(d) == dir[d] # Absent

(***************************************************************************)
(* generateWorkflow and what ensureWorkflow adds to it.  rm -r takes the   *)
(* files in no particular order, so that meanwhile, and when it is cut     *)
(* off, some of them are left (node_modules here going with the sources,   *)
(* the config with the secrets).  What is generated goes beside what       *)
(* another job has written since.                                          *)
(***************************************************************************)
remains(d) ==
  {[Absent EXCEPT !.source = s, !.linked = s # Null /\ dir[d].linked,
                  !.secrets = ids, !.config = IF ids = Null THEN Null ELSE dir[d].config,
                  !.meta = m] :
     s \in {dir[d].source, Null}, ids \in {dir[d].secrets, Null}, m \in {dir[d].meta, Null}}

remove(d) == \E left \in remains(d) : contents(d, left)
removed(d) == contents(d, Absent)

generateWorkflow(d, source) ==
  contents(d, [dir[d] EXCEPT !.source = source, !.config = DefaultConfig])

writeSecretsFiles(d, ids) == contents(d, [dir[d] EXCEPT !.secrets = ids])
writeTickConfig(d, config) == contents(d, [dir[d] EXCEPT !.config = config])

\* A metadata file being written is not readable JSON.
tearMeta(d) == contents(d, [dir[d] EXCEPT !.meta = Null])
writeMeta(d, meta) == contents(d, [dir[d] EXCEPT !.meta = meta])

(***************************************************************************)
(* moveWorkspace: the draft's directory becomes the strategy's.            *)
(***************************************************************************)
rename(from, to, moved) == dir' = [dir EXCEPT ![to] = moved, ![from] = Absent]
unlinkNodeModules(d) == contents(d, [dir[d] EXCEPT !.linked = FALSE])
linkNodeModules(d) == contents(d, [dir[d] EXCEPT !.linked = TRUE])

-----------------------------------------------------------------------------
(***************************************************************************)
(* The jobs and what each has found out so far.                            *)
(***************************************************************************)
Draft(s) == <<"submissions", s>>
Live(s) == <<"strategies", s>>
Dirs == {"submissions", "strategies"} \X Strategies

Tick(p, s) == <<"tick", p, s>>
Routes(s) == <<"routes", Server, s>>
Jobs == ({"tick"} \X Processes \X Strategies) \cup ({"routes"} \X {Server} \X Strategies)
process(j) == j[2]

NoChild == [at |-> "none", binary |-> Null, config |-> Null, secrets |-> {}, saw |-> Null,
            printed |-> FALSE]

\* doing: tick, check or publish; dir: the directory it ensures or runs.
NoJob == [doing |-> "none", at |-> "none", dir |-> Null, source |-> Null, ids |-> {},
          config |-> Null, hash |-> Null, snapshot |-> Null, child |-> NoChild]

\* The ids the probe of a draft finds: no live prices, the first step's path.
ProbeStep == 0
discoverSecretIds(source, step) == UNION {Asks(source, step, book) : book \in ProbedBooks}

\* The directory of a live strategy, as its publication left it.
published(source) ==
  LET ids == discoverSecretIds(source, ProbeStep) IN
  [source |-> source, linked |-> TRUE, secrets |-> ids, config |-> DefaultConfig,
   meta |-> Meta(source, ids, source, TRUE)]

Init ==
  /\ OracleInit
  /\ conditions \in Conditions
  /\ live = conditions.live
  /\ sourceOf = [s \in Strategies |-> IF s \in live THEN CHOOSE source \in Sources : TRUE
                                      ELSE Null]
  /\ dir = [d \in Dirs |-> IF d[1] = "strategies" /\ d[2] \in live
                           THEN published(sourceOf[d[2]]) ELSE Absent]
  /\ job = [j \in Jobs |-> NoJob]
  /\ checkedAs = sourceOf
  /\ held = [s \in Strategies |-> Flat]
  /\ execution = [s \in Strategies |-> Null]
  /\ crossed = {}
  /\ faults = 0
  /\ begun = 0

\* A step of job j, which finds its process's event loop free.
runs(j, at) == job[j].at = at /\ AtRest(process(j))
goes(j, at) == job' = [job EXCEPT ![j].at = at]
ends(j) == job' = [job EXCEPT ![j] = NoJob]

\* Job j goes to work in directory d, beside whoever is at work there.
enters(j, d) ==
  LET others == {k \in Jobs \ {j} : job[k].dir = d}
  IN  crossed' = (crossed \ {j}) \cup (IF others = {} THEN {} ELSE others \cup {j})

\* What the next file operation of j needs is gone, or in its way.
cannot(j) ==
  \/ job[j].at \in {"config", "secrets", "meta", "rehash"} /\ ~there(job[j].dir)
  \/ job[j].at \in {"newConfig", "relink"} /\ dir[job[j].dir].source = Null
  \/ job[j].at \in {"link", "relink"} /\ dir[job[j].dir].linked
  \/ job[j].at = "link" /\ ~there(job[j].dir)
  \/ job[j].at = "rename" /\ (there(job[j].dir) \/ ~there(Draft(j[3])))

-----------------------------------------------------------------------------
(***************************************************************************)
(* 1  A tick advances the oracle, through a gate of its process, and reads *)
(* the history that leads up to the snapshot it is given.  The server's    *)
(* timer ticks what is live, a command line whatever it is given.          *)
(***************************************************************************)
BeginTick(p, s) ==
  LET j == Tick(p, s) IN
  /\ p \in conditions.tickers
  /\ IF p = Server THEN s \in live ELSE sourceOf[s] # Null
  /\ job[j] = NoJob
  /\ Begin(p) \/ BeginEmpty(p)
  /\ job' = [job EXCEPT ![j].doing = "tick", ![j].at = "oracle"]
  /\ UNCHANGED <<dir, rows, bounds>>

OracleStep(p) ==
  /\ \/ \E now \in Clock : Backfill(p, now)
     \/ Count(p)
     \/ Latest(p)
  /\ UNCHANGED <<dir, job, rows, bounds>>

Advance(p, s) ==
  LET j == Tick(p, s) IN
  /\ job[j].at = "oracle"
  /\ Insert(p)
  /\ job' = [job EXCEPT ![j].at = "read", ![j].snapshot = [newest |-> priceTicks'[Len(priceTicks')],
                                                          history |-> <<>>]]
  /\ UNCHANGED <<dir, rows, bounds>>

AdvanceFails(p, s) ==
  LET j == Tick(p, s) IN
  /\ job[j].at = "oracle"
  /\ InsertFails(p)
  /\ ends(j)
  /\ UNCHANGED <<dir, rows, bounds>>

\* The tick knows its prices; the source is that of the strategies row.
readHistory(j, s) ==
  LET snapshot == read(job[j].snapshot.newest) IN
  [job[j] EXCEPT !.at = "ensure", !.source = sourceOf[s],
                 !.ids = discoverSecretIds(sourceOf[s], snapshot.newest.step),
                 !.config = [tick |-> snapshot.newest.t, book |-> held[s]],
                 !.snapshot = snapshot]

\* A cre binary was found; from here the tick is at work in the directory.
ReadHistory(p, s) ==
  LET j == Tick(p, s) IN
  /\ runs(j, "read")
  /\ job' = [job EXCEPT ![j] = [readHistory(j, s) EXCEPT !.dir = Live(s)]]
  /\ enters(j, Live(s))
  /\ UNCHANGED <<oracleVars, dir, sourceOf, checkedAs, live, held, execution, bounds>>

-----------------------------------------------------------------------------
(***************************************************************************)
(* ensureWorkflow: reuse the directory, with this tick's config, or make   *)
(* it again.  The metadata goes first and comes last.                      *)
(***************************************************************************)
\* What a job does once its directory is there.
afterEnsuring(j) == IF job[j].doing = "publish" THEN "rehash" ELSE "spawn"

Reuse(j) ==
  /\ runs(j, "ensure")
  /\ reusable(job[j].dir, job[j].source, job[j].ids)
  /\ job' = [job EXCEPT ![j].at = "config", ![j].hash = dir[job[j].dir].meta.hash]
  /\ UNCHANGED <<oracleVars, dir, rows, bounds>>

\* Variant: a directory that is reused is left as it is.
ReuseUntouched(j) ==
  /\ runs(j, "config")
  /\ goes(j, afterEnsuring(j))
  /\ UNCHANGED <<oracleVars, dir, rows, bounds>>

ReuseConfig(j) ==
  /\ runs(j, "config") /\ ~cannot(j)
  /\ writeTickConfig(job[j].dir, job[j].config)
  /\ goes(j, afterEnsuring(j))
  /\ UNCHANGED <<oracleVars, rows, bounds>>

Regenerate(j) ==
  LET meta == dir[job[j].dir].meta IN
  /\ runs(j, "ensure")
  /\ ~reusable(job[j].dir, job[j].source, job[j].ids)
  /\ remove(job[j].dir)
  /\ job' = [job EXCEPT ![j].at = "remove", ![j].hash =
       IF meta # Null /\ meta.source = job[j].source THEN meta.hash ELSE Null]
  /\ UNCHANGED <<oracleVars, rows, bounds>>

\* The rest of the removal.
Remove(j) ==
  /\ runs(j, "remove")
  /\ removed(job[j].dir)
  /\ goes(j, "generate")
  /\ UNCHANGED <<oracleVars, rows, bounds>>

\* Variant: the metadata is written before what it vouches for.
GenerateWithMeta(j) ==
  /\ runs(j, "generate")
  /\ contents(job[j].dir, [dir[job[j].dir] EXCEPT !.source = job[j].source, !.config = DefaultConfig,
       !.meta = Meta(job[j].source, job[j].ids, job[j].hash, j \notin crossed), !.secrets = {}])
  /\ goes(j, "link")
  /\ UNCHANGED <<oracleVars, rows, bounds>>

Generate(j) ==
  /\ runs(j, "generate")
  /\ generateWorkflow(job[j].dir, job[j].source)
  /\ goes(j, "link")
  /\ UNCHANGED <<oracleVars, rows, bounds>>

Link(j) ==
  /\ runs(j, "link") /\ ~cannot(j)
  /\ linkNodeModules(job[j].dir)
  /\ goes(j, "secrets")
  /\ UNCHANGED <<oracleVars, rows, bounds>>

Provision(j) ==
  /\ runs(j, "secrets") /\ ~cannot(j)
  /\ writeSecretsFiles(job[j].dir, job[j].ids)
  /\ goes(j, "newConfig")
  /\ UNCHANGED <<oracleVars, rows, bounds>>

\* workflow.yaml, read and written again, then the config.
NewConfig(j) ==
  /\ runs(j, "newConfig") /\ ~cannot(j)
  /\ writeTickConfig(job[j].dir, job[j].config)
  /\ goes(j, "meta")
  /\ UNCHANGED <<oracleVars, rows, bounds>>

\* at: what is written down is the job's own account of the directory.
WriteMeta(j, at, hash, next) ==
  /\ runs(j, at) /\ there(job[j].dir)
  /\ \/ /\ dir[job[j].dir].meta # Null
        /\ tearMeta(job[j].dir)
        /\ UNCHANGED job
     \/ /\ dir[job[j].dir].meta = Null
        /\ writeMeta(job[j].dir, Meta(job[j].source, job[j].ids, hash, j \notin crossed))
        /\ goes(j, next)
  /\ UNCHANGED <<oracleVars, rows, bounds>>

Ensure(j) ==
  \/ Reuse(j)
  \/ ReuseConfig(j)
  \/ Regenerate(j)
  \/ Remove(j)
  \/ Generate(j)
  \/ Link(j)
  \/ Provision(j)
  \/ NewConfig(j)
  \/ WriteMeta(j, "meta", job[j].hash, afterEnsuring(j))

-----------------------------------------------------------------------------
(***************************************************************************)
(* `cre workflow simulate`, and the workflow it runs in the enclave.  The  *)
(* child compiles what it finds, fetches the prices over HTTP from the     *)
(* server, and asks for secrets the file may not declare; it may fail or   *)
(* hang anywhere, and the timer kills it.  Its end is heard of when the    *)
(* last descendant holding its output lets go.                             *)
(***************************************************************************)
Spawn(j) ==
  /\ runs(j, "spawn")
  /\ job' = [job EXCEPT ![j].at = "running", ![j].child = [NoChild EXCEPT !.at = "compile"]]
  /\ UNCHANGED <<oracleVars, dir, rows, bounds>>

childStep(j, at, child) ==
  /\ job[j].at = "running"
  /\ job[j].child.at = at
  /\ job' = [job EXCEPT ![j].child = child]
  /\ UNCHANGED <<oracleVars, dir, rows, bounds>>

Compile(j) ==
  LET found == dir[job[j].dir] IN
  /\ job[j].child.at = "compile"
  /\ intact(job[j].dir)
  /\ found.secrets # Null /\ found.config # Null
  /\ childStep(j, "compile",
       [job[j].child EXCEPT !.at = IF job[j].doing = "check" THEN "exited" ELSE "fetch",
                            !.binary = found.source, !.config = found.config,
                            !.secrets = found.secrets])

\* GET /oracle/prices: the newest snapshot there is.
Fetch(j) ==
  /\ AtRest(Server)
  /\ childStep(j, "fetch", [job[j].child EXCEPT !.at = "onTick", !.saw = current])

\* onTick's decision is logged before the report; an undeclared secret throws.
OnTick(j) ==
  /\ job[j].child.at = "onTick"
  /\ Asks(job[j].child.binary, job[j].child.saw.newest.step, job[j].child.config.book)
       \subseteq job[j].child.secrets
  /\ childStep(j, "onTick", [job[j].child EXCEPT !.at = "report", !.printed = TRUE])

ReportDecision(j) == childStep(j, "report", [job[j].child EXCEPT !.at = "exited"])

\* What a child that failed or was killed has printed no longer counts.
Killed == [NoChild EXCEPT !.at = "killed"]
Failed == [NoChild EXCEPT !.at = "failed"]

ChildFails(j) ==
  /\ job[j].child.at \notin {"none", "exited", "killed", "failed"}
  /\ childStep(j, job[j].child.at, Failed)

\* Variant: the timer is cleared by the first output.
TimesOutBeforeOutput(j) ==
  /\ runs(j, "running")
  /\ job[j].child.at \notin {"killed", "failed"} /\ ~job[j].child.printed
  /\ job' = [job EXCEPT ![j].child = Killed]
  /\ UNCHANGED <<oracleVars, dir, rows, bounds>>

\* The timer may fire on a child that has exited and not been heard of yet.
TimesOut(j) ==
  /\ runs(j, "running")
  /\ job[j].child.at \notin {"killed", "failed"}
  /\ job' = [job EXCEPT ![j].child = Killed]
  /\ UNCHANGED <<oracleVars, dir, rows, bounds>>

\* The output of a killed child is closed.
Closes(j) == childStep(j, "killed", Failed)

Child(j) == Compile(j) \/ Fetch(j) \/ OnTick(j) \/ ReportDecision(j)

-----------------------------------------------------------------------------
(***************************************************************************)
(* The decision and where it came from.  The local runner decides on the   *)
(* tick's own snapshot and reads an unset secret as empty.                 *)
(***************************************************************************)
decides(j, s, row) ==
  /\ execution' = [execution EXCEPT ![s] = row]
  /\ \E book \in Books : held' = [held EXCEPT ![s] = book]
  /\ ends(j)
  /\ UNCHANGED <<sourceOf, checkedAs, live, crossed>>

local(J) == [source |-> "local-fallback", binary |-> J.source, config |-> J.config,
             saw |-> J.snapshot, tick |-> J.snapshot, alone |-> FALSE]

\* The log line with the decision is what is looked for: it may be there
\* although the run failed after it.
extractDecision(child) == child.printed

\* ok: the run exited well, with a decision that can be read.
simulateWorkspace(child) == child.at = "exited" /\ extractDecision(child)

\* alone is history: no other job was at work beside this one.
attested(j) == [source |-> "cre-simulate", binary |-> job[j].child.binary,
                config |-> job[j].child.config, saw |-> job[j].child.saw,
                tick |-> job[j].snapshot, alone |-> j \notin crossed]

Decide(p, s) ==
  LET j == Tick(p, s) IN
  /\ runs(j, "running")
  /\ \/ simulateWorkspace(job[j].child) /\ decides(j, s, attested(j))
     \/ job[j].child.at = "failed" /\ decides(j, s, local(job[j]))
  /\ UNCHANGED <<oracleVars, dir, bounds>>

\* No cre binary is found, now: the directory is not touched.
DecideWithoutCre(p, s) ==
  LET j == Tick(p, s) IN
  /\ runs(j, "read")
  /\ decides(j, s, local(readHistory(j, s)))
  /\ UNCHANGED <<oracleVars, dir, bounds>>

\* The directory cannot be made.
EnsureFails(p, s) ==
  LET j == Tick(p, s) IN
  /\ "throw" \in conditions.faults \/ cannot(j)
  /\ AtRest(p)
  /\ job[j].at \in {"ensure", "config", "remove", "generate", "link", "secrets", "newConfig", "meta"}
  /\ decides(j, s, local(job[j]))
  /\ UNCHANGED <<oracleVars, dir, bounds>>

-----------------------------------------------------------------------------
(***************************************************************************)
(* The draft: the two cre checks over submissions/<id>, and the step of    *)
(* the publication that moves it to strategies/<slug>.                     *)
(***************************************************************************)
BeginCheck(s, source) ==
  LET j == Routes(s) IN
  /\ sourceOf[s] = Null
  /\ job[j] = NoJob /\ AtRest(Server)
  /\ begun < conditions.runs
  /\ begun' = begun + 1
  /\ job' = [job EXCEPT ![j] =
       [NoJob EXCEPT !.doing = "check", !.at = "ensure", !.dir = Draft(s), !.source = source,
                     !.ids = discoverSecretIds(source, ProbeStep), !.config = DefaultConfig]]
  /\ checkedAs' = [checkedAs EXCEPT ![s] = Null]
  /\ enters(j, Draft(s))
  /\ UNCHANGED <<oracleVars, dir, sourceOf, live, held, execution, conditions, faults>>

\* The hashes are recorded whatever the simulation came to.
Checked(s) ==
  LET j == Routes(s) IN
  /\ runs(j, "running")
  /\ job[j].child.at = "exited"
  /\ job' = [job EXCEPT ![j].at = "record", ![j].hash = job[j].child.binary]
  /\ UNCHANGED <<oracleVars, dir, rows, bounds>>

\* The binary's hash goes into the directory's metadata.
RecordHashes(s) == WriteMeta(Routes(s), "record", job[Routes(s)].hash, "passed")

CheckFails(s) ==
  LET j == Routes(s) IN
  /\ runs(j, "running")
  /\ job[j].child.at = "failed"
  /\ ends(j)
  /\ UNCHANGED <<oracleVars, dir, rows, bounds>>

\* The simulation printed a decision, or did not.
Passed(s) ==
  LET j == Routes(s) IN
  /\ runs(j, "passed")
  /\ \/ checkedAs' = [checkedAs EXCEPT ![s] = job[j].source]
     \/ UNCHANGED checkedAs
  /\ ends(j)
  /\ UNCHANGED <<oracleVars, dir, sourceOf, live, held, execution, crossed, bounds>>

\* A client may ask again for what is published already.
BeginPublish(s) ==
  LET j == Routes(s) IN
  /\ checkedAs[s] # Null
  /\ job[j] = NoJob /\ AtRest(Server)
  /\ begun < conditions.runs
  /\ begun' = begun + 1
  /\ sourceOf' = [sourceOf EXCEPT ![s] = checkedAs[s]]
  /\ job' = [job EXCEPT ![j] =
       [NoJob EXCEPT !.doing = "publish", !.at = "open", !.dir = Live(s),
                     !.source = checkedAs[s], !.config = DefaultConfig]]
  /\ enters(j, Live(s))
  /\ UNCHANGED <<oracleVars, dir, checkedAs, live, held, execution, conditions, faults>>

\* openWorkspace(strategies), then openWorkspace(submissions).
Open(s) ==
  LET j == Routes(s) IN
  /\ runs(j, "open")
  /\ IF openable(Live(s)) THEN goes(j, "goLive")
     ELSE IF openable(Draft(s))
     THEN job' = [job EXCEPT ![j].at = "clear", ![j].ids = dir[Draft(s)].meta.secrets]
     ELSE job' = [job EXCEPT ![j].at = "ensure",
                             ![j].ids = discoverSecretIds(job[j].source, ProbeStep)]
  /\ UNCHANGED <<oracleVars, dir, rows, bounds>>

Clear(s) ==
  LET j == Routes(s) IN
  /\ runs(j, "clear")
  /\ remove(Live(s))
  /\ goes(j, "cleared")
  /\ UNCHANGED <<oracleVars, rows, bounds>>

Cleared(s) ==
  LET j == Routes(s) IN
  /\ runs(j, "cleared")
  /\ removed(Live(s))
  /\ goes(j, "rename")
  /\ UNCHANGED <<oracleVars, rows, bounds>>

\* The metadata that is moved describes a directory others may be at work in.
Rename(s) ==
  LET j     == Routes(s)
      draft == dir[Draft(s)]
  IN
  /\ runs(j, "rename") /\ ~cannot(j)
  /\ rename(Draft(s), Live(s),
            [draft EXCEPT !.meta = IF @ = Null THEN Null
                                   ELSE Meta(@.source, @.secrets, @.hash, j \notin crossed)])
  /\ goes(j, "unlink")
  /\ UNCHANGED <<oracleVars, rows, bounds>>

Unlink(s) ==
  LET j == Routes(s) IN
  /\ runs(j, "unlink")
  /\ unlinkNodeModules(Live(s))
  /\ goes(j, "relink")
  /\ UNCHANGED <<oracleVars, rows, bounds>>

Relink(s) ==
  LET j == Routes(s) IN
  /\ runs(j, "relink") /\ ~cannot(j)
  /\ linkNodeModules(Live(s))
  /\ goes(j, "rehash")
  /\ UNCHANGED <<oracleVars, rows, bounds>>

\* The directory, moved or made again, is described by the name it has now and
\* the hash its checks found.
DescribeLive(s) == WriteMeta(Routes(s), "rehash", job[Routes(s)].source, "goLive")

GoLive(s) ==
  LET j == Routes(s) IN
  /\ runs(j, "goLive")
  /\ live' = live \cup {s}
  /\ ends(j)
  /\ UNCHANGED <<oracleVars, dir, sourceOf, checkedAs, held, execution, crossed, bounds>>

Publication(s) ==
  \/ Open(s)
  \/ Clear(s)
  \/ Cleared(s)
  \/ Rename(s)
  \/ Unlink(s)
  \/ Relink(s)
  \/ DescribeLive(s)
  \/ GoLive(s)

\* A file operation of the checks or the publication throws.
RoutesThrow(s) ==
  LET j == Routes(s) IN
  /\ "throw" \in conditions.faults \/ cannot(j)
  /\ job[j] # NoJob /\ job[j].at # "running" /\ AtRest(Server)
  /\ ends(j)
  /\ UNCHANGED <<oracleVars, dir, rows, bounds>>

-----------------------------------------------------------------------------
(***************************************************************************)
(* The process dies and is started again; what it had begun is forgotten,  *)
(* and a child it leaves behind is heard by nobody.  A directory is lost.  *)
(***************************************************************************)
Crash(p) ==
  /\ "crash" \in conditions.faults
  /\ faults < MaxFaults
  /\ faults' = faults + 1
  /\ forgetOracle(p)
  /\ job' = [j \in Jobs |-> IF process(j) = p THEN NoJob ELSE job[j]]
  /\ UNCHANGED <<priceTicks, dir, rows, conditions, begun>>

LoseDir(d) ==
  /\ "lost" \in conditions.faults
  /\ faults < MaxFaults
  /\ dir[d] # Absent
  /\ faults' = faults + 1
  /\ contents(d, Absent)
  /\ UNCHANGED <<oracleVars, job, rows, conditions, begun>>

TickStep(p, s) ==
  \/ Advance(p, s)
  \/ AdvanceFails(p, s)
  \/ ReadHistory(p, s)
  \/ Ensure(Tick(p, s))
  \/ EnsureFails(p, s)
  \/ Spawn(Tick(p, s))
  \/ Decide(p, s)
  \/ DecideWithoutCre(p, s)

RoutesStep(s) ==
  \/ Ensure(Routes(s))
  \/ Spawn(Routes(s))
  \/ Checked(s)
  \/ CheckFails(s)
  \/ RecordHashes(s)
  \/ Passed(s)
  \/ Publication(s)

Next ==
  \/ \E p \in Processes :
       \/ OracleStep(p)
       \/ Crash(p)
       \/ \E s \in Strategies : BeginTick(p, s) \/ TickStep(p, s)
  \/ \E s \in Strategies :
       \/ \E source \in Sources : BeginCheck(s, source)
       \/ BeginPublish(s)
       \/ RoutesStep(s)
       \/ RoutesThrow(s)
  \/ \E j \in Jobs : Child(j) \/ ChildFails(j) \/ TimesOut(j) \/ Closes(j)
  \/ \E d \in Dirs : LoseDir(d)

Spec == Init /\ [][Next]_vars

\* The event loop gets to every await that has settled and to every timer that
\* is due, and whatever holds a killed child's output lets go of it; a child
\* need not ever do anything.
FairSpec ==
  /\ Spec
  /\ \A p \in Processes : WF_vars(OracleStep(p))
  /\ \A p \in Processes, s \in Strategies :
       /\ WF_vars(TickStep(p, s))
       /\ WF_vars(TimesOut(Tick(p, s)))
       /\ WF_vars(Closes(Tick(p, s)))

=============================================================================
