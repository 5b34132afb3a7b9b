----------------------------- MODULE ServerProofs -----------------------------
(***************************************************************************)
(* Proofs about the loop and the processes that hold it, for every set of  *)
(* strategies and callers, every number of slots and any number of cycles. *)
(***************************************************************************)
EXTENDS Server, FiniteSetTheorems, TLAPS

(***************************************************************************)
(* The inductive invariant.  The pool's queue is the queued runs in the    *)
(* order in which they were begun, and there is one only while every slot  *)
(* is in use; a caller that waits, waits for the one run of its strategy   *)
(* that was unfinished when it called.                                     *)
(***************************************************************************)
Runs == Seq([strategy : Strategies, stage : Stages])

PoolTyped ==
  /\ runs \in Runs
  /\ active \in Nat
  /\ waiting \in Seq(Nat)
  /\ DOMAIN inFlight \subseteq Strategies

QueueInOrder ==
  /\ \A i \in DOMAIN waiting : waiting[i] \in at({"queued"})
  /\ \A r \in at({"queued"}) : \E i \in DOMAIN waiting : waiting[i] = r
  /\ \A i, j \in DOMAIN waiting : i < j => waiting[i] < waiting[j]

QueueOnlyWhenFull == waiting # <<>> => active = Concurrency

PoolInv == PoolTyped /\ QueueInOrder /\ QueueOnlyWhenFull /\ Bounded /\ OneTickPerStrategy

Calls == [stage : {"idle"}]
           \cup [stage : {"waiting", "joined"}, strategy : Strategies, run : Nat, after : Nat]

CallsTyped == call \in [Callers -> Calls]

Answerable(c) ==
  call[c].stage # "idle" =>
    /\ call[c].run \in DOMAIN runs
    /\ call[c].after <= Len(runs)
    /\ runs[call[c].run].strategy = call[c].strategy
    /\ call[c].stage = "joined" => call[c].run > call[c].after
    /\ call[c].stage = "waiting" =>
         \A r \in Unfinished :
           runs[r].strategy = call[c].strategy /\ r <= call[c].after => r = call[c].run

CallsInv == CallsTyped /\ \A c \in Callers : Answerable(c)

LoopInv ==
  /\ running \in BOOLEAN /\ cycleTimer \in BOOLEAN /\ stopping \in BOOLEAN
  /\ pending \subseteq Strategies
  /\ drain \subseteq DOMAIN runs
  /\ cycles \in 0 .. MaxCycles

SchedulerInv == PoolInv /\ CallsInv /\ LoopInv

-----------------------------------------------------------------------------
(***************************************************************************)
(* Steps of the pool.                                                      *)
(***************************************************************************)

LEMMA PoolFacts ==
  ASSUME PoolTyped
  PROVE  /\ IsFiniteSet(HoldingASlot)
         /\ Cardinality(HoldingASlot) \in Nat
         /\ DOMAIN runs = 1 .. Len(runs) /\ Len(runs) \in Nat
         /\ DOMAIN waiting = 1 .. Len(waiting) /\ Len(waiting) \in Nat
         /\ \A r \in DOMAIN runs : /\ runs[r] \in [strategy : Strategies, stage : Stages]
                                   /\ runs[r].strategy \in Strategies
                                   /\ runs[r].stage \in Stages
  <1>1. DOMAIN runs = 1 .. Len(runs) /\ Len(runs) \in Nat
    BY DEF PoolTyped, Runs
  <1>2. IsFiniteSet(1 .. Len(runs))
    BY <1>1, FS_Interval
  <1>3. HoldingASlot \in SUBSET (1 .. Len(runs))
    BY <1>1 DEF HoldingASlot, at
  <1>4. IsFiniteSet(HoldingASlot)
    BY <1>2, <1>3, FS_Subset
  <1>5. Cardinality(HoldingASlot) \in Nat
    BY <1>4, FS_CardinalityType
  <1>6. DOMAIN waiting = 1 .. Len(waiting) /\ Len(waiting) \in Nat
    BY DEF PoolTyped
  <1>7. ASSUME NEW r \in DOMAIN runs
        PROVE  /\ runs[r] \in [strategy : Strategies, stage : Stages]
               /\ runs[r].strategy \in Strategies
               /\ runs[r].stage \in Stages
    <2> DEFINE Run == [strategy : Strategies, stage : Stages]
    <2>1. runs \in Seq(Run)
      BY DEF PoolTyped, Runs
    <2> HIDE DEF Run
    <2>2. runs[r] \in Run
      BY <2>1
    <2>3. QED
      BY <2>2 DEF Run
  <1>8. QED
    BY <1>1, <1>4, <1>5, <1>6, <1>7

\* What a change of one run's stage does to the runs.
LEMMA StageOfOne ==
  ASSUME PoolTyped, NEW r \in DOMAIN runs, NEW stage \in Stages, runs' = setStage(r, stage)
  PROVE  /\ DOMAIN runs' = DOMAIN runs /\ Len(runs') = Len(runs) /\ runs' \in Runs
         /\ \A q \in DOMAIN runs : /\ runs'[q].strategy = runs[q].strategy
                                   /\ runs'[q].stage = IF q = r THEN stage ELSE runs[q].stage
  <1> DEFINE Run == [strategy : Strategies, stage : Stages]
  <1>1. runs \in Seq(Run) /\ runs' = [runs EXCEPT ![r] = [runs[r] EXCEPT !.stage = stage]]
    BY DEF PoolTyped, Runs, setStage
  <1>2. [runs[r] EXCEPT !.stage = stage] \in Run
    BY PoolFacts
  <1>3. runs' \in Seq(Run) /\ Len(runs') = Len(runs) /\ DOMAIN runs' = DOMAIN runs
    <2> HIDE DEF Run
    <2>1. QED
      BY <1>1, <1>2
  <1>4. QED
    BY <1>1, <1>3, PoolFacts DEF Runs

\* A run that goes from one stage to another, keeping or not using a slot.
LEMMA MoveKeepsPool ==
  ASSUME PoolInv, NEW r \in DOMAIN runs, NEW stage \in Stages \ {"queued", "done"},
         runs[r].stage \notin {"queued", "done"},
         runs[r].stage \in {"handed", "running", "settled"}
           <=> stage \in {"handed", "running", "settled"},
         runs' = setStage(r, stage),
         UNCHANGED <<active, waiting, inFlight>>
  PROVE  PoolInv'
  <1>1. /\ DOMAIN runs' = DOMAIN runs /\ runs' \in Runs
        /\ \A q \in DOMAIN runs : /\ runs'[q].strategy = runs[q].strategy
                                  /\ runs'[q].stage = IF q = r THEN stage ELSE runs[q].stage
    BY StageOfOne DEF PoolInv
  <1>2. PoolTyped'
    BY <1>1 DEF PoolInv, PoolTyped
  <1>3. HoldingASlot' = HoldingASlot /\ at({"queued"})' = at({"queued"}) /\ Unfinished' = Unfinished
    <2>1. runs[r].stage \in Stages \ {"done"}
      BY PoolFacts DEF PoolInv
    <2>2. QED
      BY <1>1, <2>1 DEF HoldingASlot, at, Unfinished
  <1>4. NoOvertaking'
    BY <1>1 DEF PoolInv, Bounded, NoOvertaking
  <1>5. Bounded' /\ QueueOnlyWhenFull'
    BY <1>3, <1>4 DEF PoolInv, Bounded, QueueOnlyWhenFull
  <1>6. QueueInOrder'
    BY <1>3 DEF PoolInv, QueueInOrder
  <1>7. OneTickPerStrategy'
    BY <1>1, <1>3 DEF PoolInv, OneTickPerStrategy, Unfinished, at
  <1>8. QED
    BY <1>2, <1>5, <1>6, <1>7 DEF PoolInv

\* A strategy without a run in flight gets one, in a free slot or in line.
LEMMA TickKeepsPool ==
  ASSUME PoolInv, NEW s \in Strategies, s \notin DOMAIN inFlight, tick(s)
  PROVE  PoolInv'
  <1> DEFINE r == Len(runs) + 1
             stage == IF active >= Concurrency THEN "queued" ELSE "running"
  <1>1. /\ runs' = Append(runs, [strategy |-> s, stage |-> stage])
        /\ inFlight' = with(inFlight, s, r)
    BY DEF tick
  <1>2. PoolTyped'
    <2>1. runs' \in Runs
      BY <1>1 DEF PoolInv, PoolTyped, Runs, Stages
    <2>2. active' \in Nat /\ waiting' \in Seq(Nat)
      <3>1. r \in Nat /\ active \in Nat /\ waiting \in Seq(Nat)
        BY PoolFacts DEF PoolInv, PoolTyped
      <3>2. Append(waiting, r) \in Seq(Nat)
        BY <3>1
      <3>3. \/ waiting' = Append(waiting, r) /\ active' = active
            \/ waiting' = waiting /\ active' = active + 1
        BY DEF tick
      <3>4. active' \in Nat
        BY <3>1, <3>3
      <3>5. waiting' \in Seq(Nat)
        BY <3>1, <3>2, <3>3, Zenon
      <3>6. QED
        BY <3>4, <3>5
    <2>3. DOMAIN inFlight' \subseteq Strategies
      BY <1>1 DEF with, PoolInv, PoolTyped
    <2>4. QED
      BY <2>1, <2>2, <2>3 DEF PoolTyped
  <1>3. /\ DOMAIN runs' = DOMAIN runs \cup {r}
        /\ r \notin DOMAIN runs
        /\ \A q \in DOMAIN runs : runs'[q] = runs[q] /\ q < r
        /\ runs'[r] = [strategy |-> s, stage |-> stage]
        /\ DOMAIN runs \subseteq Nat /\ r \in Nat
    BY <1>1, PoolFacts DEF PoolInv, PoolTyped, Runs
  <1> HIDE DEF r
  <1>4. Unfinished' = Unfinished \cup {r} /\ r \notin Unfinished
    BY <1>3 DEF Unfinished, at, Stages
  <1>5. OneTickPerStrategy'
    BY <1>1, <1>3, <1>4 DEF PoolInv, OneTickPerStrategy, with, Unfinished, at
  <1>6. CASE active >= Concurrency
    <2>1. runs'[r].stage = "queued" /\ waiting' = Append(waiting, r) /\ active' = active
      BY <1>3, <1>6 DEF tick, r
    <2>2. at({"queued"})' = at({"queued"}) \cup {r} /\ HoldingASlot' = HoldingASlot
      BY <1>3, <2>1 DEF at, HoldingASlot
    <2>3. NoOvertaking'
      BY <1>3, <2>1 DEF PoolInv, Bounded, NoOvertaking
    <2>4. Bounded' /\ QueueOnlyWhenFull'
      BY <1>6, <2>1, <2>2, <2>3, ConcurrencyAssumption
         DEF PoolInv, Bounded, QueueOnlyWhenFull, PoolTyped
    <2>5. QueueInOrder'
      <3>1. /\ DOMAIN waiting' = DOMAIN waiting \cup {Len(waiting) + 1}
            /\ \A i \in DOMAIN waiting : waiting'[i] = waiting[i] /\ i < Len(waiting) + 1
            /\ waiting'[Len(waiting) + 1] = r
            /\ DOMAIN waiting \subseteq Nat /\ Len(waiting) \in Nat
        BY <2>1, <1>3 DEF PoolInv, PoolTyped
      <3>2. \A i \in DOMAIN waiting : waiting[i] \in DOMAIN runs
        BY DEF PoolInv, QueueInOrder, at
      <3>3. \A i, j \in DOMAIN waiting' : i < j => waiting'[i] < waiting'[j]
        BY <3>1, <3>2, <1>3 DEF PoolInv, QueueInOrder
      <3>4. QED
        BY <2>2, <3>1, <3>3 DEF PoolInv, QueueInOrder
    <2>6. QED
      BY <1>2, <1>5, <2>4, <2>5 DEF PoolInv
  <1>7. CASE active < Concurrency
    <2>1. runs'[r].stage = "running" /\ waiting' = waiting /\ active' = active + 1
      BY <1>3, <1>7, ConcurrencyAssumption DEF tick, PoolInv, PoolTyped
    <2>2. at({"queued"})' = at({"queued"}) /\ HoldingASlot' = HoldingASlot \cup {r}
      BY <1>3, <2>1 DEF at, HoldingASlot
    <2>3. Cardinality(HoldingASlot') = Cardinality(HoldingASlot) + 1
      <3>1. IsFiniteSet(HoldingASlot) /\ r \notin HoldingASlot
        BY <1>3, PoolFacts DEF PoolInv, HoldingASlot, at
      <3>2. QED
        BY <2>2, <3>1, FS_AddElement
    <2>4. waiting = <<>>
      BY <1>7, ConcurrencyAssumption DEF PoolInv, PoolTyped, QueueOnlyWhenFull
    <2>5. at({"queued"}) = {}
      BY <2>4 DEF PoolInv, QueueInOrder
    <2>6. NoOvertaking'
      BY <1>3, <2>2, <2>5 DEF NoOvertaking, at
    <2>7. Bounded' /\ QueueOnlyWhenFull'
      BY <1>7, <2>1, <2>3, <2>4, <2>6, ConcurrencyAssumption
         DEF PoolInv, PoolTyped, Bounded, QueueOnlyWhenFull
    <2>8. QueueInOrder'
      BY <2>1, <2>2 DEF PoolInv, QueueInOrder
    <2>9. QED
      BY <1>2, <1>5, <2>7, <2>8 DEF PoolInv
  <1>8. QED
    BY <1>6, <1>7, ConcurrencyAssumption DEF PoolInv, PoolTyped

\* A slot that is freed goes to the first in line, or is one less in use.
LEMMA ReleaseKeepsPool ==
  ASSUME PoolInv, NEW r \in DOMAIN runs, Release(r)
  PROVE  PoolInv'
  <1>1. /\ runs[r].stage = "settled" /\ inFlight' = inFlight
        /\ r \in HoldingASlot /\ IsFiniteSet(HoldingASlot)
    BY PoolFacts DEF Release, HoldingASlot, at, PoolInv
  <1>2. CASE waiting = <<>>
    <2>1. active' = active - 1 /\ runs' = setStage(r, "released") /\ waiting' = waiting
      BY <1>2 DEF Release
    <2>2. /\ DOMAIN runs' = DOMAIN runs /\ runs' \in Runs
          /\ \A q \in DOMAIN runs :
               /\ runs'[q].strategy = runs[q].strategy
               /\ runs'[q].stage = IF q = r THEN "released" ELSE runs[q].stage
      BY <2>1, StageOfOne DEF PoolInv, Stages
    <2>3. /\ HoldingASlot' = HoldingASlot \ {r}
          /\ at({"queued"})' = at({"queued"})
          /\ Unfinished' = Unfinished
      BY <1>1, <2>2 DEF HoldingASlot, at, Unfinished, Stages
    <2>4. Cardinality(HoldingASlot') = Cardinality(HoldingASlot) - 1
      BY <1>1, <2>3, FS_RemoveElement
    <2>5. Cardinality(HoldingASlot) # 0
      BY <1>1, FS_EmptySet
    <2>6. PoolTyped'
      BY <1>1, <2>1, <2>2, <2>5 DEF PoolInv, PoolTyped, Bounded
    <2>7. NoOvertaking'
      BY <1>1, <2>2 DEF PoolInv, Bounded, NoOvertaking
    <2>8. Bounded' /\ QueueOnlyWhenFull'
      BY <1>2, <2>1, <2>4, <2>7, ConcurrencyAssumption
         DEF PoolInv, PoolTyped, Bounded, QueueOnlyWhenFull
    <2>9. QueueInOrder' /\ OneTickPerStrategy'
      BY <1>1, <2>1, <2>2, <2>3 DEF PoolInv, QueueInOrder, OneTickPerStrategy, Unfinished, at
    <2>10. QED
      BY <2>6, <2>8, <2>9 DEF PoolInv
  <1>3. CASE waiting # <<>>
    <2> DEFINE next == Head(waiting)
    <2>1. /\ active' = active /\ waiting' = Tail(waiting)
          /\ runs' = [setStage(r, "released") EXCEPT ![next].stage = "handed"]
      BY <1>3 DEF Release
    <2>2. /\ DOMAIN waiting = 1 .. Len(waiting) /\ Len(waiting) \in Nat /\ Len(waiting) > 0
          /\ DOMAIN waiting' = 1 .. (Len(waiting) - 1)
          /\ \A i \in DOMAIN waiting' : waiting'[i] = waiting[i + 1]
          /\ next = waiting[1]
          /\ waiting' \in Seq(Nat)
      BY <1>3, <2>1 DEF PoolInv, PoolTyped
    <2>3. next \in DOMAIN runs /\ runs[next].stage = "queued" /\ next # r
      BY <1>1, <2>2 DEF PoolInv, QueueInOrder, at
    <2> HIDE DEF next
    <2>4. /\ DOMAIN runs' = DOMAIN runs /\ runs' \in Runs
          /\ \A q \in DOMAIN runs :
               /\ runs'[q].strategy = runs[q].strategy
               /\ runs'[q].stage = IF q = r THEN "released"
                                    ELSE IF q = next THEN "handed" ELSE runs[q].stage
      BY <2>1, <2>3, PoolFacts DEF PoolInv, PoolTyped, Runs, setStage, Stages
    <2>5. /\ HoldingASlot' = (HoldingASlot \ {r}) \cup {next}
          /\ next \notin HoldingASlot \ {r}
          /\ at({"queued"})' = at({"queued"}) \ {next}
          /\ Unfinished' = Unfinished
      BY <1>1, <2>3, <2>4 DEF HoldingASlot, at, Unfinished, Stages
    <2>6. Cardinality(HoldingASlot') = Cardinality(HoldingASlot)
      <3>1. /\ Cardinality(HoldingASlot \ {r}) = Cardinality(HoldingASlot) - 1
            /\ IsFiniteSet(HoldingASlot \ {r})
        BY <1>1, FS_RemoveElement
      <3>2. Cardinality(HoldingASlot') = Cardinality(HoldingASlot \ {r}) + 1
        BY <2>5, <3>1, FS_AddElement
      <3>3. QED
        BY <3>1, <3>2, PoolFacts DEF PoolInv
    <2>7. PoolTyped'
      BY <1>1, <2>1, <2>2, <2>4 DEF PoolInv, PoolTyped
    <2>8. QueueInOrder'
      <3>1. ASSUME NEW q \in at({"queued"})' PROVE \E i \in DOMAIN waiting' : waiting'[i] = q
        <4>1. PICK i \in DOMAIN waiting : waiting[i] = q
          BY <2>5, <3>1 DEF PoolInv, QueueInOrder
        <4>2. i # 1 /\ i - 1 \in DOMAIN waiting' /\ waiting'[i - 1] = q
          BY <2>2, <2>5, <3>1, <4>1
        <4>3. QED
          BY <4>2
      <3>2. ASSUME NEW i \in DOMAIN waiting' PROVE waiting'[i] \in at({"queued"})'
        <4>1. waiting'[i] = waiting[i + 1] /\ i + 1 \in DOMAIN waiting /\ 1 \in DOMAIN waiting /\ 1 < i + 1
          BY <2>2, <3>2
        <4>2. waiting[i + 1] \in at({"queued"}) /\ waiting[1] < waiting[i + 1]
          BY <4>1 DEF PoolInv, QueueInOrder
        <4>3. waiting[i + 1] \in Nat /\ waiting[1] \in Nat
          BY <4>1 DEF PoolInv, PoolTyped
        <4>4. QED
          BY <2>2, <2>5, <4>1, <4>2, <4>3
      <3>3. ASSUME NEW i \in DOMAIN waiting', NEW j \in DOMAIN waiting', i < j
            PROVE  waiting'[i] < waiting'[j]
        <4>1. i + 1 \in DOMAIN waiting /\ j + 1 \in DOMAIN waiting /\ i + 1 < j + 1
          BY <2>2, <3>3
        <4>2. QED
          BY <2>2, <3>3, <4>1 DEF PoolInv, QueueInOrder
      <3>4. QED
        BY <3>1, <3>2, <3>3 DEF QueueInOrder
    <2>9. NoOvertaking'
      <3> SUFFICES ASSUME NEW p \in DOMAIN runs, NEW q \in DOMAIN runs,
                          p < q, runs'[p].stage = "queued"
                   PROVE  runs'[q].stage = "queued"
        BY <2>4 DEF NoOvertaking
      <3>1. runs[p].stage = "queued" /\ p # next
        BY <2>4
      <3>2. runs[q].stage = "queued" /\ q # r
        BY <1>1, <3>1 DEF PoolInv, Bounded, NoOvertaking
      <3>3. next < p
        <4>1. PICK i \in DOMAIN waiting : waiting[i] = p
          BY <3>1 DEF PoolInv, QueueInOrder, at
        <4>2. i # 1 /\ 1 \in DOMAIN waiting /\ 1 < i
          BY <2>2, <3>1, <4>1
        <4>3. QED
          BY <2>2, <4>1, <4>2 DEF PoolInv, QueueInOrder
      <3>4. q # next
        BY <2>3, <3>3, PoolFacts DEF PoolInv
      <3>5. QED
        BY <2>4, <3>2, <3>4
    <2>10. Bounded' /\ QueueOnlyWhenFull'
      BY <1>3, <2>1, <2>6, <2>9 DEF PoolInv, Bounded, QueueOnlyWhenFull
    <2>11. OneTickPerStrategy'
      BY <1>1, <2>4, <2>5 DEF PoolInv, OneTickPerStrategy, Unfinished, at
    <2>12. QED
      BY <2>7, <2>8, <2>10, <2>11 DEF PoolInv
  <1>4. QED
    BY <1>2, <1>3

\* A run is forgotten under its own strategy's name, which names no other.
LEMMA ForgetKeepsPool ==
  ASSUME PoolInv, NEW r \in DOMAIN runs, Forget(r)
  PROVE  PoolInv'
  <1>1. /\ runs[r].stage = "reported" /\ runs' = setStage(r, "done")
        /\ inFlight' = without(inFlight, runs[r].strategy)
        /\ UNCHANGED <<active, waiting>>
    BY DEF Forget, pool
  <1>2. /\ DOMAIN runs' = DOMAIN runs /\ runs' \in Runs
        /\ \A q \in DOMAIN runs : /\ runs'[q].strategy = runs[q].strategy
                                  /\ runs'[q].stage = IF q = r THEN "done" ELSE runs[q].stage
    BY <1>1, StageOfOne DEF PoolInv, Stages
  <1>3. /\ HoldingASlot' = HoldingASlot /\ at({"queued"})' = at({"queued"})
        /\ Unfinished' = Unfinished \ {r} /\ r \in Unfinished
    BY <1>1, <1>2 DEF HoldingASlot, at, Unfinished, Stages
  <1>4. PoolTyped'
    BY <1>1, <1>2 DEF PoolInv, PoolTyped, without
  <1>5. NoOvertaking'
    BY <1>1, <1>2 DEF PoolInv, Bounded, NoOvertaking
  <1>6. Bounded' /\ QueueOnlyWhenFull' /\ QueueInOrder'
    BY <1>1, <1>3, <1>5 DEF PoolInv, Bounded, QueueOnlyWhenFull, QueueInOrder
  <1>7. OneTickPerStrategy'
    <2>1. \A q \in Unfinished' : q \in DOMAIN runs /\ runs[q].strategy # runs[r].strategy
      BY <1>3 DEF PoolInv, OneTickPerStrategy, Unfinished, at
    <2>2. /\ DOMAIN inFlight' = DOMAIN inFlight \ {runs[r].strategy}
          /\ \A s \in DOMAIN inFlight' : inFlight'[s] = inFlight[s]
      BY <1>1 DEF without
    <2>3. ASSUME NEW q \in Unfinished'
          PROVE  /\ runs'[q].strategy \in DOMAIN inFlight'
                 /\ inFlight'[runs'[q].strategy] = q
      BY <1>2, <1>3, <2>1, <2>2, <2>3 DEF PoolInv, OneTickPerStrategy
    <2>4. ASSUME NEW s \in DOMAIN inFlight' PROVE inFlight'[s] \in Unfinished' /\ runs'[inFlight'[s]].strategy = s
      <3>1. inFlight[s] \in Unfinished
        BY <2>2, <2>4 DEF PoolInv, OneTickPerStrategy
      <3>2. s # runs[r].strategy
        BY <2>2, <2>4
      <3>3. runs[inFlight[s]].strategy = s /\ inFlight[s] # r
        BY <2>2, <2>4, <3>2 DEF PoolInv, OneTickPerStrategy
      <3>4. inFlight[s] \in DOMAIN runs
        BY <3>1 DEF Unfinished, at
      <3>5. QED
        BY <1>2, <1>3, <2>2, <2>4, <3>1, <3>3, <3>4
    <2>5. QED
      BY <2>3, <2>4 DEF OneTickPerStrategy
  <1>8. QED
    BY <1>4, <1>6, <1>7 DEF PoolInv

(***************************************************************************)
(* What every step does to the pool: one run moves on, one begins, or      *)
(* nothing.  No run is lost, changes its strategy or is taken up again.    *)
(***************************************************************************)
RunMoves(r) == Settle(r) \/ Release(r) \/ StartHanded(r) \/ Report(r) \/ Forget(r)

Begins(s) == s \notin DOMAIN inFlight /\ tick(s)

PoolStep ==
  \/ \E r \in DOMAIN runs : RunMoves(r)
  \/ \E s \in Strategies : Begins(s)
  \/ UNCHANGED <<pool, inFlight, runs>>

RunsOnlyGrow ==
  /\ Len(runs) <= Len(runs')
  /\ \A r \in DOMAIN runs :
       /\ r \in DOMAIN runs'
       /\ runs'[r].strategy = runs[r].strategy
       /\ runs[r].stage = "done" => runs'[r].stage = "done"

LEMMA PoolStepKeepsPool ==
  ASSUME PoolInv, PoolStep
  PROVE  PoolInv'
  <1>1. ASSUME NEW r \in DOMAIN runs, RunMoves(r) PROVE PoolInv'
    <2>1. CASE Settle(r)
      BY <2>1, MoveKeepsPool DEF Settle, pool, Stages
    <2>2. CASE Release(r)
      BY <2>2, ReleaseKeepsPool
    <2>3. CASE StartHanded(r)
      BY <2>3, MoveKeepsPool DEF StartHanded, pool, Stages
    <2>4. CASE Report(r)
      BY <2>4, MoveKeepsPool DEF Report, pool, Stages
    <2>5. CASE Forget(r)
      BY <2>5, ForgetKeepsPool
    <2>6. QED
      BY <1>1, <2>1, <2>2, <2>3, <2>4, <2>5 DEF RunMoves
  <1>2. ASSUME NEW s \in Strategies, Begins(s) PROVE PoolInv'
    BY <1>2, TickKeepsPool DEF Begins
  <1>3. CASE UNCHANGED <<pool, inFlight, runs>>
    BY <1>3 DEF pool, PoolInv, PoolTyped, QueueInOrder, QueueOnlyWhenFull, Bounded, NoOvertaking,
                HoldingASlot, OneTickPerStrategy, Unfinished, at
  <1>4. QED
    BY <1>1, <1>2, <1>3 DEF PoolStep

LEMMA PoolStepGrows ==
  ASSUME PoolInv, PoolStep
  PROVE  RunsOnlyGrow
  <1>1. ASSUME NEW r \in DOMAIN runs, RunMoves(r) PROVE RunsOnlyGrow
    <2>1. ASSUME NEW stage \in Stages, runs' = setStage(r, stage), runs[r].stage # "done"
          PROVE  RunsOnlyGrow
      BY <2>1, StageOfOne, PoolFacts DEF RunsOnlyGrow, PoolInv
    <2>2. CASE Settle(r)
      BY <2>1, <2>2 DEF Settle, Stages
    <2>3. CASE StartHanded(r)
      BY <2>1, <2>3 DEF StartHanded, Stages
    <2>4. CASE Report(r)
      BY <2>1, <2>4 DEF Report, Stages
    <2>5. CASE Forget(r)
      BY <2>1, <2>5 DEF Forget, Stages
    <2>6. CASE Release(r) /\ waiting = <<>>
      BY <2>1, <2>6 DEF Release, Stages
    <2>7. CASE Release(r) /\ waiting # <<>>
      <3> DEFINE next == Head(waiting)
      <3>1. /\ runs[r].stage = "settled"
            /\ runs' = [setStage(r, "released") EXCEPT ![next].stage = "handed"]
        BY <2>7 DEF Release
      <3>2. next \in DOMAIN runs /\ runs[next].stage = "queued"
        BY <2>7 DEF PoolInv, PoolTyped, QueueInOrder, at
      <3> HIDE DEF next
      <3>3. /\ DOMAIN runs' = DOMAIN runs /\ Len(runs') = Len(runs)
            /\ \A q \in DOMAIN runs :
                 /\ runs'[q].strategy = runs[q].strategy
                 /\ runs'[q].stage = IF q = next THEN "handed"
                                      ELSE IF q = r THEN "released" ELSE runs[q].stage
        BY <3>1, <3>2, PoolFacts DEF PoolInv, PoolTyped, Runs, setStage
      <3>4. QED
        BY <3>1, <3>2, <3>3, PoolFacts DEF RunsOnlyGrow, PoolInv
    <2>8. QED
      BY <1>1, <2>2, <2>3, <2>4, <2>5, <2>6, <2>7 DEF RunMoves
  <1>2. ASSUME NEW s \in Strategies, Begins(s) PROVE RunsOnlyGrow
    <2>1. PICK stage \in Stages : runs' = Append(runs, [strategy |-> s, stage |-> stage])
      BY <1>2 DEF Begins, tick, Stages
    <2>2. Len(runs') = Len(runs) + 1 /\ \A r \in DOMAIN runs : r \in DOMAIN runs' /\ runs'[r] = runs[r]
      BY <2>1 DEF PoolInv, PoolTyped, Runs
    <2>3. QED
      BY <2>2, PoolFacts DEF RunsOnlyGrow, PoolInv
  <1>3. CASE UNCHANGED <<pool, inFlight, runs>>
    BY <1>3, PoolFacts DEF RunsOnlyGrow, PoolInv
  <1>4. QED
    BY <1>1, <1>2, <1>3 DEF PoolStep

-----------------------------------------------------------------------------
(***************************************************************************)
(* Steps of the callers.                                                   *)
(***************************************************************************)

LEMMA CallStaysAnswerable ==
  ASSUME PoolInv, PoolInv', RunsOnlyGrow, NEW c \in Callers, Answerable(c),
         call'[c] = call[c], call[c].stage # "idle" => call[c].after \in Nat
  PROVE  Answerable(c)'
  <1> SUFFICES ASSUME call[c].stage # "idle"
               PROVE  Answerable(c)'
    BY DEF Answerable
  <1>1. DOMAIN runs' = 1 .. Len(runs') /\ Len(runs') \in Nat
    BY DEF PoolInv, PoolTyped, Runs
  <1>2. /\ call[c].run \in DOMAIN runs' /\ call[c].after <= Len(runs')
        /\ runs'[call[c].run].strategy = call[c].strategy
    BY <1>1, PoolFacts DEF Answerable, RunsOnlyGrow, PoolInv
  <1>3. ASSUME NEW r \in Unfinished', r <= call[c].after
        PROVE  r \in Unfinished /\ runs'[r].strategy = runs[r].strategy
    <2>1. r \in DOMAIN runs' /\ r \in Nat /\ r >= 1
      BY <1>1 DEF Unfinished, at
    <2>2. r \in DOMAIN runs
      BY <1>3, <2>1, PoolFacts DEF Answerable, PoolInv
    <2>3. runs'[r].stage # "done"
      BY DEF Unfinished, at
    <2>4. QED
      BY <2>2, <2>3, PoolFacts DEF RunsOnlyGrow, Unfinished, at, PoolInv
  <1>4. QED
    BY <1>2, <1>3 DEF Answerable

LEMMA CallsStayAnswerable ==
  ASSUME PoolInv, PoolInv', CallsInv, RunsOnlyGrow, UNCHANGED call
  PROVE  CallsInv'
  <1>1. ASSUME NEW c \in Callers PROVE Answerable(c)'
    <2>1. call[c].stage # "idle" => call[c].after \in Nat
      BY DEF CallsInv, CallsTyped, Calls
    <2>2. QED
      BY <2>1, CallStaysAnswerable DEF CallsInv
  <1>2. QED
    BY <1>1 DEF CallsInv, CallsTyped

\* One call changes, to one that is answerable; the others are as they were.
LEMMA OneCallChanges ==
  ASSUME PoolInv, PoolInv', CallsInv, RunsOnlyGrow,
         NEW c \in Callers, NEW new \in Calls, call' = [call EXCEPT ![c] = new], Answerable(c)'
  PROVE  CallsInv'
  <1>1. ASSUME NEW d \in Callers, d # c PROVE Answerable(d)'
    <2>1. call'[d] = call[d]
      BY <1>1 DEF CallsInv, CallsTyped
    <2>2. call[d].stage # "idle" => call[d].after \in Nat
      BY DEF CallsInv, CallsTyped, Calls
    <2>3. QED
      BY <2>1, <2>2, CallStaysAnswerable DEF CallsInv
  <1>2. call' \in [Callers -> Calls]
    BY DEF CallsInv, CallsTyped
  <1>3. QED
    BY <1>1, <1>2 DEF CallsInv, CallsTyped

\* A call that begins a run, or joins the one that another waiter began.
LEMMA JoinKeepsCalls ==
  ASSUME PoolInv, PoolInv', CallsInv, RunsOnlyGrow, NEW c \in Callers, TickAfterWait(c)
  PROVE  CallsInv'
  <1> DEFINE s == call[c].strategy
             r == inFlight'[s]
             new == [call[c] EXCEPT !.stage = "joined", !.run = r]
  <1>1. /\ call[c].stage = "waiting" /\ isDone(call[c].run) /\ call[c] \in Calls
        /\ call[c].after \in Nat /\ s \in Strategies
    BY DEF TickAfterWait, CallsInv, CallsTyped, Calls
  <1>2. call' = [call EXCEPT ![c] = new]
    BY DEF TickAfterWait, join
  <1>3. s \in DOMAIN inFlight'
    BY DEF TickAfterWait, join, tick, with
  <1>4. r \in DOMAIN runs' /\ runs'[r].strategy = s
    BY <1>3 DEF PoolInv, OneTickPerStrategy, Unfinished, at
  <1>5. DOMAIN runs' = 1 .. Len(runs') /\ Len(runs') \in Nat
    BY DEF PoolInv, PoolTyped, Runs
  <1>6. r \in Nat
    BY <1>4, <1>5
  <1>7. r > call[c].after
    <2>1. CASE s \in DOMAIN inFlight
      <3>1. r = inFlight[s]
        BY <2>1 DEF TickAfterWait, join
      <3>2. r \in Unfinished /\ runs[r].strategy = s
        BY <2>1, <3>1 DEF PoolInv, OneTickPerStrategy
      <3>3. r # call[c].run
        BY <1>1, <3>2 DEF isDone, Unfinished, at
      <3>4. QED
        BY <1>1, <1>6, <3>2, <3>3 DEF CallsInv, Answerable
    <2>2. CASE s \notin DOMAIN inFlight
      <3>1. r = Len(runs) + 1
        BY <2>2 DEF TickAfterWait, join, tick, with
      <3>2. QED
        BY <1>1, <3>1, PoolFacts DEF CallsInv, Answerable, PoolInv
    <2>3. QED
      BY <2>1, <2>2
  <1>8. /\ new \in Calls /\ new.stage = "joined" /\ new.run = r
        /\ new.after = call[c].after /\ new.strategy = s
    <2> HIDE DEF r
    <2>1. QED
      BY <1>1, <1>6 DEF Calls
  <1> HIDE DEF r, new
  <1>9. call'[c] = new
    BY <1>2 DEF CallsInv, CallsTyped
  <1>10. call[c].after <= Len(runs')
    BY <1>1, <1>5, PoolFacts DEF CallsInv, Answerable, RunsOnlyGrow, PoolInv
  <1>11. Answerable(c)'
    BY <1>4, <1>7, <1>8, <1>9, <1>10 DEF Answerable
  <1>12. QED
    BY <1>2, <1>8, <1>11, OneCallChanges

\* A new call: it begins a run, or waits for the one there is.
LEMMA CallKeepsCalls ==
  ASSUME PoolInv, PoolInv', CallsInv, RunsOnlyGrow,
         NEW c \in Callers, NEW s \in Strategies, TickOnce(c, s)
  PROVE  CallsInv'
  <1> DEFINE stage == IF s \in DOMAIN inFlight THEN "waiting" ELSE "joined"
             r == inFlight'[s]
             new == [stage |-> stage, strategy |-> s, run |-> r, after |-> Len(runs)]
  <1>1. call' = [call EXCEPT ![c] = new]
    BY DEF TickOnce
  <1>2. s \in DOMAIN inFlight'
    BY DEF TickOnce, tick, with
  <1>3. r \in DOMAIN runs' /\ runs'[r].strategy = s
    BY <1>2 DEF PoolInv, OneTickPerStrategy, Unfinished, at
  <1>4. DOMAIN runs' = 1 .. Len(runs') /\ Len(runs') \in Nat
    BY DEF PoolInv, PoolTyped, Runs
  <1>5. r \in Nat /\ Len(runs) \in Nat /\ Len(runs) <= Len(runs')
    BY <1>3, <1>4, PoolFacts DEF RunsOnlyGrow, PoolInv
  <1>6. new \in Calls
    <2> HIDE DEF r
    <2>1. QED
      BY <1>5 DEF Calls
  <1>7. call'[c] = new
    BY <1>1 DEF CallsInv, CallsTyped
  <1>8. ASSUME stage = "joined" PROVE r > Len(runs)
    <2>1. r = Len(runs) + 1
      BY <1>8 DEF TickOnce, tick, with
    <2>2. QED
      BY <1>5, <2>1
  <1>9. ASSUME stage = "waiting", NEW q \in Unfinished', runs'[q].strategy = s PROVE q = r
    BY <1>9 DEF PoolInv, OneTickPerStrategy
  <1>10. stage \in {"waiting", "joined"} /\ stage # "idle"
    OBVIOUS
  <1> HIDE DEF r, stage
  <1>11. Answerable(c)'
    BY <1>3, <1>5, <1>7, <1>8, <1>9, <1>10 DEF Answerable
  <1> HIDE DEF new
  <1>12. QED
    BY <1>1, <1>6, <1>11, OneCallChanges

-----------------------------------------------------------------------------
(***************************************************************************)
(* Steps of the loop.                                                      *)
(***************************************************************************)

LEMMA StepIsAPoolStep ==
  ASSUME SchedulerInv, [Next]_vars
  PROVE  PoolStep
  <1>1. CASE Continuation
    <2>1. ASSUME NEW c \in Callers, TickAfterWait(c) PROVE PoolStep
      <3>1. call[c].strategy \in Strategies
        BY <2>1 DEF TickAfterWait, SchedulerInv, CallsInv, CallsTyped, Calls
      <3>2. QED
        BY <2>1, <3>1 DEF TickAfterWait, join, PoolStep, Begins
    <2>2. CASE Stopped
      BY <2>2 DEF Stopped, PoolStep
    <2>3. QED
      BY <1>1, <2>1, <2>2 DEF Continuation, PoolStep, RunMoves
  <1>2. CASE Timer
    BY <1>2 DEF Timer, Fire, Cycle, PoolStep, Begins
  <1>3. ASSUME NEW r \in DOMAIN runs, Settle(r) PROVE PoolStep
    BY <1>3 DEF PoolStep, RunMoves
  <1>4. ASSUME NEW live \in SUBSET Strategies, Start(live) PROVE PoolStep
    BY <1>4 DEF Start, PoolStep
  <1>5. CASE Stop
    BY <1>5 DEF Stop, PoolStep
  <1>6. ASSUME NEW c \in Callers, NEW s \in Strategies, TickOnce(c, s) PROVE PoolStep
    BY <1>6 DEF TickOnce, PoolStep, Begins
  <1>7. CASE UNCHANGED vars
    BY <1>7 DEF vars, PoolStep
  <1>8. QED
    BY <1>1, <1>2, <1>3, <1>4, <1>5, <1>6, <1>7 DEF Next

LEMMA StepKeepsCalls ==
  ASSUME SchedulerInv, PoolInv', RunsOnlyGrow, [Next]_vars
  PROVE  CallsInv'
  <1>1. ASSUME UNCHANGED call PROVE CallsInv'
    BY <1>1, CallsStayAnswerable DEF SchedulerInv
  <1>2. ASSUME NEW c \in Callers, TickAfterWait(c) PROVE CallsInv'
    BY <1>2, JoinKeepsCalls DEF SchedulerInv
  <1>3. ASSUME NEW c \in Callers, NEW s \in Strategies, TickOnce(c, s) PROVE CallsInv'
    BY <1>3, CallKeepsCalls DEF SchedulerInv
  <1>4. CASE Continuation
    BY <1>1, <1>2, <1>4 DEF Continuation, Release, StartHanded, Report, Forget, Stopped
  <1>5. CASE Timer
    BY <1>1, <1>5 DEF Timer, Fire, Cycle
  <1>6. ASSUME NEW r \in DOMAIN runs, Settle(r) PROVE CallsInv'
    BY <1>1, <1>6 DEF Settle
  <1>7. ASSUME NEW live \in SUBSET Strategies, Start(live) PROVE CallsInv'
    BY <1>1, <1>7 DEF Start
  <1>8. CASE Stop
    BY <1>1, <1>8 DEF Stop
  <1>9. CASE UNCHANGED vars
    BY <1>1, <1>9 DEF vars
  <1>10. QED
    BY <1>3, <1>4, <1>5, <1>6, <1>7, <1>8, <1>9 DEF Next

\* What stop() waits for are runs that have not ended, so runs there are.
LEMMA StepKeepsLoop ==
  ASSUME SchedulerInv, RunsOnlyGrow, [Next]_vars
  PROVE  LoopInv'
  <1>1. DOMAIN runs \subseteq DOMAIN runs'
    BY DEF RunsOnlyGrow
  <1>2. ASSUME UNCHANGED <<loop, stop>> PROVE LoopInv'
    BY <1>1, <1>2 DEF loop, stop, SchedulerInv, LoopInv
  <1>3. ASSUME NEW live \in SUBSET Strategies, cycle(live), running' \in BOOLEAN, UNCHANGED stop
        PROVE  LoopInv'
    BY <1>1, <1>3, MaxCyclesAssumption DEF cycle, stop, SchedulerInv, LoopInv
  <1>4. ASSUME NEW s \in Strategies, Fire(s) PROVE LoopInv'
    BY <1>1, <1>4 DEF Fire, stop, SchedulerInv, LoopInv
  <1>5. ASSUME NEW live \in SUBSET Strategies, Cycle(live) PROVE LoopInv'
    BY <1>3, <1>5 DEF Cycle, SchedulerInv, LoopInv
  <1>6. ASSUME NEW live \in SUBSET Strategies, Start(live) PROVE LoopInv'
    BY <1>3, <1>6 DEF Start
  <1>7. CASE Stop
    <2>1. drain' \subseteq DOMAIN runs'
      <3>1. drain' = {inFlight[s] : s \in DOMAIN inFlight}
        BY <1>7 DEF Stop
      <3>2. \A s \in DOMAIN inFlight : inFlight[s] \in DOMAIN runs
        BY DEF SchedulerInv, PoolInv, OneTickPerStrategy, Unfinished, at
      <3>3. QED
        BY <1>1, <3>1, <3>2
    <2>2. pending' \subseteq Strategies /\ cycles' \in 0 .. MaxCycles
      BY <1>7 DEF Stop, SchedulerInv, LoopInv
    <2>3. running' \in BOOLEAN /\ cycleTimer' \in BOOLEAN /\ stopping' \in BOOLEAN
      BY <1>7, Zenon DEF Stop
    <2>4. QED
      BY <2>1, <2>2, <2>3 DEF LoopInv
  <1>8. CASE Stopped
    BY <1>1, <1>8 DEF Stopped, loop, SchedulerInv, LoopInv
  <1>9. CASE Continuation
    BY <1>2, <1>8, <1>9 DEF Continuation, Release, StartHanded, Report, Forget, TickAfterWait
  <1>10. CASE Timer
    BY <1>4, <1>5, <1>10 DEF Timer
  <1>11. ASSUME NEW r \in DOMAIN runs, Settle(r) PROVE LoopInv'
    BY <1>2, <1>11 DEF Settle
  <1>12. ASSUME NEW c \in Callers, NEW s \in Strategies, TickOnce(c, s) PROVE LoopInv'
    BY <1>2, <1>12 DEF TickOnce
  <1>13. CASE UNCHANGED vars
    BY <1>2, <1>13 DEF vars
  <1>14. QED
    BY <1>6, <1>7, <1>9, <1>10, <1>11, <1>12, <1>13 DEF Next

LEMMA LoopStarts == Init => SchedulerInv
  <1> SUFFICES ASSUME Init PROVE SchedulerInv
    OBVIOUS
  <1>1. runs = <<>> /\ waiting = <<>> /\ inFlight = <<>> /\ active = 0
    BY DEF Init
  <1>2. at({"queued"}) = {} /\ Unfinished = {} /\ HoldingASlot = {}
    BY <1>1 DEF at, Unfinished, HoldingASlot
  <1>3. Bounded
    BY <1>1, <1>2, FS_EmptySet, ConcurrencyAssumption DEF Bounded, NoOvertaking
  <1>4. PoolInv
    BY <1>1, <1>2, <1>3
       DEF PoolInv, PoolTyped, Runs, QueueInOrder, QueueOnlyWhenFull, OneTickPerStrategy
  <1>5. CallsInv
    BY DEF Init, CallsInv, CallsTyped, Calls, Answerable
  <1>6. LoopInv
    <2>1. running \in BOOLEAN /\ cycleTimer \in BOOLEAN /\ stopping \in BOOLEAN
      BY Zenon DEF Init
    <2>2. pending = {} /\ drain = {} /\ cycles = 0
      BY DEF Init
    <2>3. QED
      BY <2>1, <2>2, MaxCyclesAssumption DEF LoopInv
  <1>7. QED
    BY <1>4, <1>5, <1>6 DEF SchedulerInv

LEMMA LoopStepKeeps ==
  ASSUME SchedulerInv, [Next]_vars
  PROVE  SchedulerInv' /\ RunsOnlyGrow
  <1>1. PoolInv' /\ RunsOnlyGrow
    BY StepIsAPoolStep, PoolStepKeepsPool, PoolStepGrows DEF SchedulerInv
  <1>2. QED
    BY <1>1, StepKeepsCalls, StepKeepsLoop DEF SchedulerInv

LEMMA LoopInvariant == Spec => []SchedulerInv
  BY LoopStarts, LoopStepKeeps, PTL DEF Spec

(***************************************************************************)
(* The loop's books agree with what is running, however timers, callers    *)
(* and stop() overlap.                                                     *)
(***************************************************************************)
THEOREM TicksAccountedFor == Spec => []TicksAreAccountedFor
  <1>1. SchedulerInv => TicksAreAccountedFor
    BY DEF SchedulerInv, PoolInv, TicksAreAccountedFor
  <1>2. QED
    BY <1>1, LoopInvariant, PTL

\* Every variable of the loop keeps its type.
LEMMA SchedulerTypes == SchedulerInv => SchedulerTypeOK
  <1> SUFFICES ASSUME SchedulerInv PROVE SchedulerTypeOK
    OBVIOUS
  <1>1. \A s \in DOMAIN inFlight : inFlight[s] \in DOMAIN runs
    BY DEF SchedulerInv, PoolInv, OneTickPerStrategy, Unfinished, at
  <1>2. waiting \in Seq(DOMAIN runs)
    <2>1. waiting \in [1 .. Len(waiting) -> Nat] /\ Len(waiting) \in Nat
      BY DEF SchedulerInv, PoolInv, PoolTyped
    <2>2. \A i \in 1 .. Len(waiting) : waiting[i] \in DOMAIN runs
      BY <2>1 DEF SchedulerInv, PoolInv, QueueInOrder, at
    <2>3. waiting \in [1 .. Len(waiting) -> DOMAIN runs]
      BY <2>1, <2>2
    <2>4. QED
      BY <2>1, <2>3
  <1>3. \A c \in Callers : call[c].stage \in {"idle", "waiting", "joined"}
    BY DEF SchedulerInv, CallsInv, CallsTyped, Calls
  <1>4. PoolTyped /\ LoopInv
    BY DEF SchedulerInv, PoolInv
  <1>5. QED
    BY <1>1, <1>2, <1>3, <1>4 DEF SchedulerTypeOK, PoolTyped, LoopInv, Runs

\* Every variable of scheduler.ts keeps its type.
THEOREM SchedulerTyped == Spec => []SchedulerTypeOK
  BY LoopInvariant, SchedulerTypes, PTL

(***************************************************************************)
(* tickOnce never answers with a tick that was already in flight when it   *)
(* was called, nor with another strategy's (scheduler.ts: tickOnce).       *)
(***************************************************************************)
THEOREM AnsweredByAFreshTick ==
  Spec => [](\A c \in Callers : call[c].stage = "joined" => fresh(c))
  <1>1. SchedulerInv => \A c \in Callers : call[c].stage = "joined" => fresh(c)
    BY DEF SchedulerInv, CallsInv, Answerable, fresh
  <1>2. QED
    BY <1>1, LoopInvariant, PTL

(***************************************************************************)
(* A tick that was begun stays in the record under its strategy, and one   *)
(* that is over is never taken up again.                                   *)
(***************************************************************************)
THEOREM NoTickIsLostOrRepeated == Spec => [][RunsOnlyGrow]_vars
  <1>1. SchedulerInv /\ [Next]_vars => RunsOnlyGrow
    BY LoopStepKeeps
  <1>2. QED
    BY <1>1, LoopInvariant, PTL DEF Spec

-----------------------------------------------------------------------------
(***************************************************************************)
(* The processes.  Each drives the loop through its interface alone, so    *)
(* what holds of the loop holds in each of them.                           *)
(***************************************************************************)

LEMMA ServerStepIsALoopStep == [NextServer]_serverVars => [Next]_vars
  <1>1. LoopStep => Next
    BY DEF LoopStep, Next, Continuation
  <1>2. ListenFails \/ Connect \/ ConnectThrows \/ Exit \/ CliEnds => UNCHANGED vars
    BY DEF ListenFails, Connect, ConnectThrows, Exit, CliEnds
  <1>3. StartServices => [Next]_vars
    BY DEF StartServices, Next
  <1>4. Shutdown => [Next]_vars
    BY DEF Shutdown, Next
  <1>5. StopServices => Next
    BY DEF StopServices, Next, Continuation
  <1>6. Loop \/ CliLoop \/ Library => Next
    BY <1>1 DEF Loop, CliLoop, Library
  <1>7. Repeat => Next
    BY DEF Repeat, Next
  <1>8. UNCHANGED serverVars => UNCHANGED vars
    BY DEF serverVars
  <1>9. QED
    BY <1>2, <1>3, <1>4, <1>5, <1>6, <1>7, <1>8 DEF NextServer

(***************************************************************************)
(* Every behaviour of a host, the server or the command-line tick, is one  *)
(* of the scheduler alone: services.ts and tick-once.ts reach the loop     *)
(* through start, stop, cycle and tickOnce and change nothing beside it.   *)
(***************************************************************************)
THEOREM HostsDriveTheLoop == SpecServer => Spec
  <1>1. InitServer => Init
    BY DEF InitServer
  <1>2. QED
    BY <1>1, ServerStepIsALoopStep, PTL DEF Spec, SpecServer

(***************************************************************************)
(* Bounded, and one tick per strategy, in every process that holds a loop. *)
(***************************************************************************)
THEOREM TicksAccountedForInEveryHost == SpecServer => []TicksAreAccountedFor
  BY HostsDriveTheLoop, TicksAccountedFor, PTL

(***************************************************************************)
(* What is left of the loop once a process goes down.  The command line    *)
(* never runs the loop, and awaits each of its calls; a server that was up *)
(* has no timer left, and stop() waits for all that has not ended.         *)
(***************************************************************************)
Idle == ~running /\ pending = {}

ProcessTyped ==
  /\ host \in Hosts
  /\ boot \in {"listening", "connecting", "up", "failed"}
  /\ services \in BOOLEAN /\ upFirst \in BOOLEAN
  /\ shutdown \in {"no", "stopping", "closing", "exited"}

AwaitsItsCalls ==
  host = "cli" =>
    /\ Idle
    /\ \A c \in made : call[c].stage = "joined"
    /\ \A r \in Unfinished : \E c \in made : call[c].run = r
    /\ shutdown = "no" \/ (shutdown = "exited" /\ Unfinished = {})

DrainsBeforeItCloses ==
  /\ host = "server" /\ boot \in {"connecting", "up"} => services
  /\ upFirst =>
       /\ host = "server" /\ boot = "up" /\ Idle
       /\ \/ shutdown = "stopping" /\ Unfinished \subseteq drain
          \/ shutdown # "no" /\ Unfinished = {}

ServerInv == SchedulerInv /\ ProcessTyped /\ AwaitsItsCalls /\ DrainsBeforeItCloses

\* A loop without timers only ends what it began.
LEMMA IdleLoopOnlyEnds ==
  ASSUME SchedulerInv, LoopStep, Idle
  PROVE  UNCHANGED <<loop, stop, call>> /\ Unfinished' \subseteq Unfinished
  <1>1. ~Timer
    BY DEF Timer, Fire, Cycle, Idle
  <1>2. PICK r \in DOMAIN runs : RunMoves(r)
    BY <1>1 DEF LoopStep, RunMoves
  <1>3. UNCHANGED <<loop, stop, call>>
    BY <1>2 DEF RunMoves, Settle, Release, StartHanded, Report, Forget
  <1>4. DOMAIN runs' = DOMAIN runs
    BY <1>2 DEF RunMoves, Settle, Release, StartHanded, Report, Forget, setStage
  <1>5. RunsOnlyGrow
    <2>1. PoolStep
      BY <1>2 DEF PoolStep
    <2>2. QED
      BY <2>1, PoolStepGrows DEF SchedulerInv
  <1>6. QED
    BY <1>3, <1>4, <1>5, PoolFacts DEF RunsOnlyGrow, Unfinished, at, SchedulerInv, PoolInv

LEMMA HostStarts == InitServer => ServerInv
  <1> SUFFICES ASSUME InitServer PROVE ServerInv
    OBVIOUS
  <1>1. SchedulerInv
    BY LoopStarts DEF InitServer
  <1>2. ProcessTyped
    BY DEF InitServer, ProcessTyped
  <1>3. Idle /\ Unfinished = {} /\ made = {} /\ shutdown = "no"
    BY DEF InitServer, Init, Idle, Unfinished, at, made
  <1>4. AwaitsItsCalls
    BY <1>3 DEF AwaitsItsCalls
  <1>5. DrainsBeforeItCloses
    BY DEF InitServer, DrainsBeforeItCloses
  <1>6. QED
    BY <1>1, <1>2, <1>4, <1>5 DEF ServerInv

LEMMA HostKeepsTypes ==
  ASSUME ServerInv, [NextServer]_serverVars
  PROVE  ProcessTyped'
  BY DEF ServerInv, ProcessTyped, NextServer, ListenFails, Connect, StartServices, ConnectThrows,
         Shutdown, StopServices, Exit, Loop, Repeat, CliEnds, CliLoop, Library, process, serverVars

\* The command line begins a tick only when all it asked for are over.
LEMMA CommandLineAwaits ==
  ASSUME ServerInv, SchedulerInv', [NextServer]_serverVars
  PROVE  AwaitsItsCalls'
  <1> SUFFICES ASSUME host = "cli", host' = "cli" PROVE AwaitsItsCalls'
    BY DEF AwaitsItsCalls, NextServer, ListenFails, Connect, StartServices, ConnectThrows,
           Shutdown, StopServices, Exit, Loop, Repeat, CliEnds, CliLoop, Library, process, serverVars
  <1>1. /\ Idle /\ \A c \in made : call[c].stage = "joined"
        /\ \A r \in Unfinished : \E c \in made : call[c].run = r
        /\ shutdown = "no" \/ (shutdown = "exited" /\ Unfinished = {})
    BY DEF ServerInv, AwaitsItsCalls
  <1>2. ASSUME UNCHANGED vars, shutdown' = shutdown \/ (shutdown' = "exited" /\ Unfinished = {})
        PROVE  AwaitsItsCalls'
    BY <1>1, <1>2 DEF AwaitsItsCalls, vars, loop, Idle, made, Unfinished, at
  <1>3. (\A c \in made : awaited(c)) => Unfinished = {}
    BY <1>1 DEF awaited, isDone, Unfinished, at
  <1>4. CASE Repeat
    <2>1. PICK c \in Callers, s \in Strategies : c \notin made /\ TickOnce(c, s)
      BY <1>4 DEF Repeat
    <2>2. Unfinished = {} /\ shutdown' = shutdown /\ Alive
      BY <1>3, <1>4 DEF Repeat, booting
    <2>3. s \notin DOMAIN inFlight
      BY <2>2 DEF ServerInv, SchedulerInv, PoolInv, OneTickPerStrategy
    <2>4. /\ call' = [call EXCEPT ![c] = [stage |-> "joined", strategy |-> s,
                                          run |-> inFlight'[s], after |-> Len(runs)]]
          /\ tick(s) /\ UNCHANGED loop
      BY <2>1, <2>3 DEF TickOnce
    <2>5. Unfinished' \subseteq {inFlight'[s]}
      <3>1. inFlight'[s] = Len(runs) + 1
        BY <2>4 DEF tick, with
      <3>2. PICK stage \in Stages : runs' = Append(runs, [strategy |-> s, stage |-> stage])
        BY <2>4 DEF tick, Stages
      <3>3. \A r \in DOMAIN runs' : r = Len(runs) + 1 \/ (r \in DOMAIN runs /\ runs'[r] = runs[r])
        BY <3>2, PoolFacts DEF ServerInv, SchedulerInv, PoolInv, PoolTyped, Runs
      <3>4. QED
        BY <2>2, <3>1, <3>3 DEF Unfinished, at
    <2>6. made' = made \cup {c} /\ call'[c].stage = "joined" /\ call'[c].run = inFlight'[s]
          /\ \A d \in made : call'[d] = call[d]
      BY <2>1, <2>4 DEF made, ServerInv, SchedulerInv, CallsInv, CallsTyped
    <2>7. QED
      BY <1>1, <2>2, <2>4, <2>5, <2>6 DEF AwaitsItsCalls, Idle, loop, Alive
  <1>5. CASE CliLoop
    <2>1. UNCHANGED <<loop, stop, call>> /\ Unfinished' \subseteq Unfinished
      BY <1>1, <1>5, IdleLoopOnlyEnds DEF CliLoop, ServerInv
    <2>2. shutdown' = shutdown
      BY <1>5 DEF CliLoop, process
    <2>3. QED
      BY <1>1, <2>1, <2>2 DEF AwaitsItsCalls, Idle, loop, made
  <1>6. CASE CliEnds
    BY <1>2, <1>3, <1>6 DEF CliEnds
  <1>7. CASE Connect \/ ConnectThrows
    BY <1>2, <1>7 DEF Connect, ConnectThrows
  <1>8. CASE UNCHANGED serverVars
    BY <1>2, <1>8 DEF serverVars, process
  <1>9. CASE ListenFails \/ StartServices \/ Shutdown \/ Loop \/ Library
    BY <1>9 DEF ListenFails, StartServices, Shutdown, Loop, Library
  <1>10. CASE StopServices \/ Exit
    BY <1>1, <1>10 DEF StopServices, Exit
  <1>11. QED
    BY <1>4, <1>5, <1>6, <1>7, <1>8, <1>9, <1>10 DEF NextServer

\* A server that was up has stopped its timers, and waits for what is left.
LEMMA ServerDrains ==
  ASSUME ServerInv, [NextServer]_serverVars
  PROVE  DrainsBeforeItCloses'
  <1> DEFINE ready == host = "server" /\ boot \in {"connecting", "up"} => services
             down == upFirst =>
                       /\ host = "server" /\ boot = "up" /\ Idle
                       /\ \/ shutdown = "stopping" /\ Unfinished \subseteq drain
                          \/ shutdown # "no" /\ Unfinished = {}
  <1>1. ready /\ down
    BY DEF ServerInv, DrainsBeforeItCloses
  <1>2. ready'
    BY <1>1 DEF ServerInv, ProcessTyped, NextServer, ListenFails, Connect, StartServices,
                ConnectThrows, Shutdown, StopServices, Exit, Loop, Repeat, CliEnds, CliLoop,
                Library, process, serverVars, booting
  <1> SUFFICES down'
    BY <1>2 DEF DrainsBeforeItCloses
  <1>3. ASSUME UNCHANGED vars, UNCHANGED <<host, boot, upFirst>>,
               shutdown' = shutdown \/ (shutdown # "stopping" /\ shutdown' # "no")
        PROVE  down'
    BY <1>1, <1>3 DEF vars, loop, stop, Idle, Unfinished, at
  <1>4. ASSUME ~upFirst, ~upFirst' PROVE down'
    BY <1>4
  <1>5. CASE Loop
    <2>1. CASE upFirst
      <3>1. UNCHANGED <<loop, stop, call>> /\ Unfinished' \subseteq Unfinished
        BY <1>1, <1>5, <2>1, IdleLoopOnlyEnds DEF Loop, ServerInv
      <3>2. QED
        BY <1>1, <1>5, <2>1, <3>1 DEF Loop, process, loop, stop, Idle
    <2>2. CASE ~upFirst
      BY <1>4, <1>5, <2>2 DEF Loop, process
    <2>3. QED
      BY <2>1, <2>2
  <1>6. CASE Shutdown
    <2>1. CASE boot = "up"
      <3>1. services /\ shutdown' = "stopping" /\ Stop /\ UNCHANGED <<host, boot>>
        BY <1>1, <1>6, <2>1 DEF Shutdown
      <3>2. Idle' /\ drain' = {inFlight[s] : s \in DOMAIN inFlight} /\ runs' = runs
        BY <3>1 DEF Stop, Idle
      <3>3. Unfinished' \subseteq drain'
        BY <3>2 DEF ServerInv, SchedulerInv, PoolInv, OneTickPerStrategy, Unfinished, at
      <3>4. QED
        BY <1>6, <2>1, <3>1, <3>2, <3>3 DEF Shutdown
    <2>2. CASE boot # "up"
      BY <1>6, <2>2 DEF Shutdown
    <2>3. QED
      BY <2>1, <2>2
  <1>7. CASE StopServices
    <2>1. /\ shutdown = "stopping" /\ shutdown' = "closing"
          /\ UNCHANGED <<host, boot, upFirst, loop, runs>>
          /\ \A r \in drain : isDone(r)
      BY <1>7 DEF StopServices, Stopped, drained
    <2>2. upFirst => Unfinished' = {}
      BY <1>1, <2>1 DEF Unfinished, at, isDone
    <2>3. QED
      BY <1>1, <2>1, <2>2 DEF Idle, loop
  <1>8. CASE StartServices \/ ConnectThrows
    BY <1>1, <1>4, <1>8 DEF StartServices, ConnectThrows, booting
  <1>9. CASE Connect \/ ListenFails
    BY <1>1, <1>4, <1>9 DEF Connect, ListenFails, booting
  <1>10. CASE Exit
    BY <1>3, <1>10 DEF Exit
  <1>11. CASE CliEnds \/ Repeat \/ CliLoop \/ Library
    BY <1>1, <1>4, <1>11 DEF CliEnds, Repeat, CliLoop, Library, process
  <1>12. CASE UNCHANGED serverVars
    BY <1>3, <1>12 DEF serverVars, process
  <1>13. QED
    BY <1>5, <1>6, <1>7, <1>8, <1>9, <1>10, <1>11, <1>12 DEF NextServer

LEMMA HostInvariant == SpecServer => []ServerInv
  <1>1. ServerInv /\ [NextServer]_serverVars => ServerInv'
    <2> SUFFICES ASSUME ServerInv, [NextServer]_serverVars PROVE ServerInv'
      OBVIOUS
    <2>1. SchedulerInv'
      BY ServerStepIsALoopStep, LoopStepKeeps DEF ServerInv
    <2>2. QED
      BY <2>1, HostKeepsTypes, CommandLineAwaits, ServerDrains DEF ServerInv
  <1>2. QED
    BY <1>1, HostStarts, PTL DEF SpecServer

(***************************************************************************)
(* No process exits over a tick cut in half (index.ts: shutdown;           *)
(* tick-once.ts: main), and every variable keeps its type.                 *)
(***************************************************************************)
THEOREM CleanExit == SpecServer => []CleanExitOnceUp
  <1>1. ServerInv => TypeOK
    BY SchedulerTypes DEF ServerInv, ProcessTyped, TypeOK
  <1>2. ServerInv => (shutdown = "exited" /\ (upFirst \/ host = "cli") => Unfinished = {})
    BY DEF ServerInv, AwaitsItsCalls, DrainsBeforeItCloses
  <1>3. ServerInv => CleanExitOnceUp
    BY <1>1, <1>2 DEF CleanExitOnceUp
  <1>4. QED
    BY <1>3, HostInvariant, PTL

=============================================================================
