------------------------ MODULE SimulationProperties ------------------------
(***************************************************************************)
(* What the record of a decision may be trusted for: the prices, the code  *)
(* and the book it was made on.                                            *)
(***************************************************************************)
EXTENDS Simulation

TypeOK ==
  /\ priceTicks \in Seq([t : Nat, step : Nat])
  /\ walk \in [Processes -> Nat \cup {NoWalk}]
  /\ \A d \in Dirs :
       /\ dir[d].source \in Sources \cup {Null}
       /\ dir[d].linked \in BOOLEAN
  /\ \A j \in Jobs : job[j].doing = "none" <=> job[j] = NoJob
  /\ held \in [Strategies -> Books]
  /\ live \subseteq {s \in Strategies : sourceOf[s] # Null}

(***************************************************************************)
(* The series has no gap and no repetition, and an advance that no other   *)
(* process got in the way of appends exactly the walk's next step: after a *)
(* refused insert, a restart, and whatever the cached generator holds.     *)
(***************************************************************************)
keepsToTheWalk ==
  LET n == Len(priceTicks') IN
  n = Len(priceTicks) + 1 /\ n > 1 =>
    /\ priceTicks'[n].t = priceTicks[n - 1].t + 1
    /\ \E p \in Processes :
         /\ advancing[p].at = "insert"
         /\ advancing'[p].at = "rest"
         /\ advancing[p].step = n - 1 => priceTicks'[n].step = n - 1

(***************************************************************************)
(* A strategy's history ends one interval before its prices, has no gap,   *)
(* and is as long as the limit and the table allow, in the tick and in the *)
(* enclave: a moving average is never taken over other rows.               *)
(***************************************************************************)
leadsUp(snapshot) ==
  LET h     == snapshot.history
      older == Cardinality({t \in times : t < snapshot.newest.t})
      newer == Cardinality({t \in times : t > snapshot.newest.t})
  IN
  /\ \A i \in DOMAIN h : h[i].t = snapshot.newest.t - Len(h) + i - 1
  /\ Len(h) <= HistoryLimit
  /\ Len(h) + newer >= IF older < HistoryLimit THEN older ELSE HistoryLimit

historiesLeadUp ==
  \A j \in Jobs :
    /\ job[j].snapshot # Null /\ job[j].at # "read" => leadsUp(job[j].snapshot)
    /\ job[j].child.saw # Null => leadsUp(job[j].child.saw)

\* The series as it is written, and as it is read.
SeriesIsOneWalk == [][keepsToTheWalk]_vars /\ []historiesLeadUp

(***************************************************************************)
(* Metadata never vouches for files of another generation: what is on disk *)
(* beside it is of the source that it names, whoever else was at work      *)
(* there, after crashes between any two steps and moves cut off half way;  *)
(* and it declares the secrets that it names, unless two jobs were at work *)
(* there when it was written (alone).                                      *)
(***************************************************************************)
MetaNeverLies ==
  /\ TypeOK
  /\ \A d \in Dirs : LET meta == dir[d].meta IN
    meta # Null =>
      /\ dir[d].source \in {Null, meta.source}
      /\ meta.hash \in {Null, meta.source}
      /\ meta.alone => dir[d].secrets \in {Null, meta.secrets}

(***************************************************************************)
(* An execution is what it says: one recorded as simulated in the enclave  *)
(* was decided by the published source on prices no older than its tick's, *)
(* and, unless another job was at work in its directory (alone), on the    *)
(* book of this very tick; a fallback by the same source on the tick's own *)
(* prices and book.                                                        *)
(***************************************************************************)
ExecutionsAreTruthful ==
  \A s \in Strategies :
    LET e == execution[s] IN
    e # Null =>
      /\ e.binary = sourceOf[s]
      /\ e.alone \/ e.source = "local-fallback" => e.config.tick = e.tick.newest.t
      /\ e.saw.newest.t >= e.tick.newest.t
      /\ e.source = "local-fallback" => e.saw = e.tick

(***************************************************************************)
(* Whatever the child does, hanging included, a tick comes to an end.      *)
(***************************************************************************)
EveryTickEnds ==
  \A p \in Processes, s \in Strategies : job[Tick(p, s)] # NoJob ~> job[Tick(p, s)] = NoJob

=============================================================================
